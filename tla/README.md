# A TLA+ model of cppami

cppami is a C++ client library for the Asterisk Manager Interface (AMI), a line protocol over TCP.
A `Connection` sends actions and returns the server's reactions to the calling thread, or hands
events to callbacks. This directory holds TLA+ specifications of the parts of the library where
threads, time and failure meet, the TLC configurations that check them, and proofs checked by TLAPS.

Paths such as `EventDispatcher.cpp:53` are under `src/src/` and `src/include/c++ami/`.
`PROJECT.json` lists every run, the source lines each definition stands for, the hazards each
property is there for, and, for each property, a fault in one definition that the property detects.

## 1. Inventory

Bytes travel through a pipeline of four objects and three threads:

    server -> TcpSocket -> SocketReader --(add_buf)--> StreamParser --(add_event)--> EventDispatcher
                           reader thread               parser thread                 dispatcher thread
                                                                                       |         |
    client threads: Connection::invoke <----- promise/future ("pipe") -----------------+         |
                    callbacks of add_callback <--------------------------------------------------+
    client threads: Connection::invoke / async_invoke -> SocketWriter -> TcpSocket -> server

| Component | State | Operations | What makes it correct |
|---|---|---|---|
| work thread (in `EventDispatcher` and `StreamParser`, the same code twice) | queue under a mutex, condition variable, atomic run flag, a local vector | add, swap and handle, drain, stop and join | FIFO, nothing lost or repeated, no lost wakeup, ends when told |
| `EventDispatcher` | `promise_map_`, `event_map_` (both keyed by ActionID), the futures handed out | `dispatch_event`, `get_event_pipe`, `set_exception_on_pipe`, `set_null_on_pipe`, `cleanup_object` | the two maps and the futures agree; a caller gets the whole answer at once or a failure |
| `Connection`, calls | control of each call on its client's thread | `invoke`, timed `invoke`, `async_invoke` | a call returns the reaction to its own action; a timed call ends; nothing is lost but what a timeout gives up |
| `Connection`, callbacks | map of callbacks under a mutex | `add_callback`, `remove_callback`, `dispatch_handler` | a removed callback is not called again; callbacks do not block the dispatcher for ever |
| `Connection`, life | the four parts, `ami_version_` | constructor (which may throw half way), destructor, `get_ami_version` | parts made and destroyed in an order in which no thread uses one that is not there; all that was read is dispatched |
| `StreamParser` | `event_buf_`, `first_event_`, the chunk queue | `add_buf`, `process_chunk` | messages do not depend on how reads cut the stream |
| `TcpSocket`, `SocketReader`, `SocketWriter` | descriptor, two mutexes, who shares the object, spin flag, the guards of `open` | open, read, write, close | the descriptor is open while somebody has the object and is closed once; all data is read; actions of different threads are not mixed |
| `KeyValDict`, `Action` and its 15 subclasses | keys in order, values | parse, print, set, get | parsing ends and says what the lines say; what is printed is parsed as what was built; only known keys are set |
| `EventList`, `Event`, `Reaction` | head, events, tail | `add_event`, `is_success` | closed by its closing message only; copied only with a tail |
| `ScopeGuard` | callback | run, disarm, move | the callback runs once |

Hard behaviours: three library threads and any number of client threads; a timeout that races the
answer; an answer that comes before the caller waits; an ActionID used twice; a write that throws half
way through a call, blocks while the server does not read, or sends a part; destruction while threads
wait on condition variables; a constructor that throws with threads running; a server that closes or
resets the connection; chunks that split the protocol's delimiters; messages whose lines lack a
separator or whose values contain one; callbacks that run on the dispatcher's thread with a mutex held.

## 2. Modules

| Module | Models | Composes / implements |
|---|---|---|
| `WorkQueue` | abstract: a FIFO channel that is closed only when empty | |
| `WorkThread` | the work thread, at the granularity of lock, predicate, sleep and notify | implements `WorkQueue` |
| `Mailbox` | abstract: one table of pipes; whole answers are handed over at once | |
| `EventDispatcher` | the dispatcher's maps, futures and destructor | instantiates `WorkThread`; implements `Mailbox` |
| `Invoke` | the three kinds of call down to `TcpSocket::write`, the server, the life of a `Connection` around them | extends `EventDispatcher` |
| `Callbacks` | `add_callback`, `remove_callback`, `dispatch_handler`, callbacks that take time and call `invoke` | extends `Invoke`, refining its `Handle` |
| `Framer` | abstract: the stream cut at its message ends, no chunks; what has come is handed over | |
| `StreamParser` | `add_buf`, `process_chunk` | instantiates `WorkThread`; implements `Framer` |
| `TcpSocket` | open with its guards, read, the reader's thread, shared ownership and close; server and network | |
| `Pipeline` | constructor, destructor, the three threads and their two queues, `get_ami_version` | instantiates `TcpSocket`, and `WorkThread` twice |
| `KeyValDict` | parsing, lookup and printing of messages; the action classes | |
| `MCEventDispatcher`, `MCInvoke`, `MCCallbacks`, `MCStreamParser`, `MCPipeline`, `MCKeyValDict` | instances for TLC | |
| `WorkThread_proof`, `EventDispatcher_proof`, `Invoke_proof`, `Reaction_proof`, `Callbacks_proof`, `StreamParser_proof`, `Pipeline_proof`, `KeyValDict_proof` | theorems | |

**WorkThread.** `queue` is `events_` (`stream_chunks_`), `batch` what is left of the thread's local
vector, `worker` where the thread stands, `stopper` how far `stop_work_thread` has got. The wait is
several steps: `DecideToWait` (the predicate was false, the mutex still held), `FallAsleep`,
`Reacquire`. Feeders need the mutex (`MutexFree`); the destructor does not take it, so `ClearRunFlag`
and `NotifyStop` may come anywhere. `SpuriousWakeup` is possible and never promised. What handling
an item does is conjoined with `HandleBatch` / `HandleDrain` by the modules that instantiate this one.

**EventDispatcher.** `promise_map_` maps an ActionID to the pipe whose promise is stored under it;
`event_map_` to the messages of the list being collected, the empty sequence standing for no entry (an
entry always has its head). `future` and `reaction` are the shared state of each pipe. All of it is only
touched with `promise_map_mutex_` held, so each operation is one step. `dispatch_event` is six cases:
`Notify`, `Reply`, `StartList`, `FailList`, `AppendList`, `CompleteList`; `Dispatch` is their
disjunction and exactly one is enabled for any message. A message is its ActionID, whether it has an
`EventList` key (and if so, whether its value closes a list: `Closes`), and whether its `Response`
reports success (`Success`). `CopyDefined` is when an `EventList` may be copied. `Retire` is the owner
of a ready future taking its contents, after which the model uses the pipe again. `CleanupObject` is
`cleanup_object` and the destruction of the members, with and without `NDEBUG` (`Asserts`;
CMakeLists.txt sets no build type, so assertions are normally in).

**Invoke.** `pc` follows each call through `get_event_pipe`, `write`, `wait_for`,
`set_exception_on_pipe` and `future::get`. `TcpSocket::write` holds `write_mutex_` while `send` copies
the action into the socket's buffer in two parts (`BeginSend`, `FinishSend`); `send` may be interrupted
after the first and return its length, which `write` ignores (`SendShort`), or fail (`WriteThrows`).
`wire` is what the server has received. It takes everything up to the end of an action for one action
(`Glued`), decides what to answer and, if it got the parts of several, to whom or not at all
(`ServerDecides`), and sends its answers at any speed, interleaved, or stops (`arrived`). While the server
does not read, `send` waits for room with `write_mutex_` held, and `FinishSend` may never come. Towards the
client, socket and parser are a delay that keeps order. `notified` records what the callbacks got.

**Callbacks.** `callbacks_` holds the keys of the registered callbacks; `inhand` is the message
`dispatch_handler` hands round and stands for `callbacks_mutex_` being locked and for the dispatcher's
thread being busy; `todo` and `running` are the loop. `BeginRound`, `Enter`, `Leave`, `EndRound` are
the loop's steps, so everything else may happen between them except what needs the mutex
(`AddCallback`, `RemoveCallback`) or the thread (`HandleAnswer`, `Run`). A callback may make a call of
`invoke` the first time it runs (`InnerCall`), with or without a timeout; it catches what `invoke`
throws, and its client removes it before destroying the `Connection`. `rounds` records the messages handed
round, `seen` what each callback got and `before` how many rounds there had been when it was registered.

**StreamParser.** Chunks, buffer and messages are contiguous pieces of one stream, so all of them
are pairs of positions. `process_chunk` is `ProcessFirstChunk` or `ProcessLaterChunk` and then one
step per message dispatched (`DispatchFirst`, `DispatchWhole`), between which feeders may add. A
moved-from `std::string` is empty in the model, as it is with the standard libraries in use.

**TcpSocket.** `opening` follows `open`; `guards` are its two `ScopeGuard`s, which run one at a time in
reverse order on every way out (`RunGuard`), the first of them looking at the local `sock_fd` and not
at the value being returned. The constructor ends in one of three ways: `OpenThrows`, `AcceptArguments`,
and `RejectArguments`, in which its body throws with the descriptor in the member already, so that an
object without a destructor has it. `descriptor` and `addrinfo` say what the process has done with either
resource, so that closing or freeing twice shows. `owners` are the holders of the `shared_ptr`; who drops
the last one runs the destructor (`SetOwners`). `conn` is the connection as the kernel knows it: after
the server's end of data `revents` is `POLLIN` alone, after a reset it is not (`OnlyPollIn`), and data
that came before the reset stay unread. `reader` is the thread of `SocketReader`; the callback it gives
a chunk to is left to the module that uses this one.

**Pipeline.** `built` and `gone` count the steps of the constructor and of the destruction, along
`BuildOrder` and `TeardownOrder`: `DestroyOrder` is what `~Connection` does; if the constructor throws
(`BuildThrows`: a thread cannot be created), the members made so far are destroyed in the reverse of
`MemberOrder`. `Parts` are the pointers that are not null (`unique_ptr::reset` clears the pointer before
it runs the destructor). `S` is the socket with its reader, `P` and `D` are the work threads of parser
and dispatcher. Chunks and messages are numbered; how many messages the
first k chunks complete is given (`Completed`): how they do is `StreamParser`. Assigning
`ami_version_` takes two steps, and `GetAmiVersion` is the set of what a client may read in between.
An exception in the reader's thread ends the process (`Alive`).

**KeyValDict.** A text is a sequence of tokens, the two delimiters and words for what stands between
them (`Word`, any set with the words of the library itself, `LibraryWords`, and neither delimiter); the
delimiters share no character, so `find` sees the same in both. `ParseLine` is one pass of
the loop in `set_message`, whose `key_beg` is kept from pass to pass; a value without the end of its
line would send it back to the second character (`"endless"`). `ordered_keys_` and `values_` are the two
members. A dictionary either is parsed from a message as `StreamParser` dispatches it (`Dispatched`:
the first end of message is at its end), or is an action: the constructors of the classes are sets of
what they make (`Actions`), `SetValue` and `Subscript` are the program's, and `Send` prints the action
and begins to parse what was printed, as whoever receives it does. `sent` remembers what was built.
The values of an action are any texts, delimiters included: nothing in the code looks at them.

## 3. Runs

Passing runs:

| Run | Instance | What it shows |
|---|---|---|
| `work_thread` | 2 items, 3 pending | `TypeOK`, `SleepsOnlyWhenIdle`, `ImplementsWorkQueue`; every item is handled (`WorkIsHandled`); a destructor that clears the flag outside one window joins its thread (`StopOutsideWindowJoins`) |
| `dispatcher` | 2 pipes, 2 ActionIDs, every kind of message, heads that say that the list is complete or cancelled with a `Response` of success included, no assertions | `PipeInv`, `ListShape`, `OnlyRefusedLackTail`, `ImplementsMailbox`, with pipes opened on ActionIDs in use |
| `invoke` | a timed and an untimed call, each answered by a reply with a trailing event, a refusal, a list, or a head that says that the list is cancelled; an unsolicited event | `ReturnsOwnReaction`, `NothingLost`, `WritesNotInterleaved`, `AssertNeedsFailedWrite`, `ListAssertHolds` (assertions built in), `TimedCallsEnd`, `WholeReactionsEnd` |
| `callbacks` | two callbacks, one making a timed call; an untimed call of a client and an `async_invoke`, both answered by a list | `CallbacksTypeOK` (which includes the type invariants of `Invoke` and `EventDispatcher`), `NotCalledOnceRemoved`, `SeesAllWhileRegistered`, `InnerCallsTimeOut`, `AsyncAnswersNotified`, `RoundsEnd` |
| `parser` | 4 streams of 9 to 12 bytes, every chunking, banner line in the first chunk | `TypeOK`, `NothingHeldBack`, `VersionIsBanner`, `ImplementsFramer`, which includes that each message is dispatched in the end |
| `pipeline` | 3 reads that complete one, no and two messages (`Completed = <<1, 1, 3>>`), no bound reached in the queues; every step of `open` and of the constructor may fail, the server may close or reset | `TypeOK` (with those of `TcpSocket` and of the two work threads), `CallbacksFindTheirParts`, `NothingLostOnTheWay`, `DestroyedMeansFinished`, `SocketLifetime`, `VersionKnownOnceHandled`, `SentIsDispatched`, `ReaderStops`. Deadlock is not checked: a destructor that hits the window of `work_thread_stop` really hangs |
| `keyval` | every message of up to 6 tokens before its end; every action class, with values that are empty, contain a separator, contain the end of a line, or end with it (which ends the message) | `TypeOK`, `LookupsAgree`, `ParsedAsLines`, `PrintsWhatItParsed`, `ActionArrives` (where every value is of one line), `ParsingEnds`. Deadlock is not checked: a dictionary that has been parsed is done |

Runs that show a disagreement between the code and what is said of it:

| Run | Property | What TLC finds |
|---|---|---|
| `work_thread_stop` | `StopJoins` | The flag is cleared and the condition variable notified between the thread's test of the predicate and its sleep. The thread sleeps for ever and the destructor's `join` does not return (EventDispatcher.cpp:53, StreamParser.cpp:44). Taking the mutex around the assignment closes the window. |
| `invoke_cleanup` | `PromisesGone` | `write` throws, the promise stays in `promise_map_`, and `assert(promise_map_.empty())` ends the process when the `Connection` is destroyed. |
| `invoke_retry` | `ReturnsOwnReaction` | A call times out and is made again with the same `Action`; a late message of the first answer becomes the reaction of the second. |
| `callbacks_untimed` | `AnsweredCallsEnd` | A callback calls `invoke` without a timeout: the answer arrives, and the thread that would handle it is the one that waits. The call does not return, nor does any other untimed one, and `callbacks_mutex_` stays locked. Deadlock is not checked in this run: the dispatcher really stops. |
| `parser_banner` | `VersionIsBanner` | The first read ends inside the banner line: the version is cut short, and since `npos + 2` is 1 the rest of the line is left in front of the first message. |

Five more disagreements are next to what the passing runs show, whose properties say exactly where they
stop. Each has a property that states what the repository says, and a configuration with which TLC
refutes it:

| Configuration | Property | What TLC finds |
|---|---|---|
| `InvokeCancelled.cfg` (`MCInvoke`) | `AnsweredCallsEnd` | EventList.hpp:27-29 says that a head with an `EventList` of 'canceled' is all of a failed response. The dispatcher looks at `Response` only (EventList.cpp:35-39): if that is a success it opens a list, which nothing closes, and an untimed call waits for ever. `WholeReactionsEnd` is about answers that are whole as the dispatcher sees it, and `OnlyRefusedLackTail` says that a list without a tail is one whose `Response` refused it. |
| `InvokeBlocked.cfg` (`MCInvoke`) | `TimedCallsReturn` | Connection.hpp:77-79 says that `invoke` blocks until its timeout has elapsed. The timeout starts after the write: while the server does not read, `send` blocks (TcpSocket.cpp:151), and so do the callers behind it at `write_mutex_`. `TimedCallsEnd` and `RoundsEnd` except such a send (`SendUnderWay`). |
| `InvokeShort.cfg` (`MCInvoke`) | `ActionsSentWhole` | TcpSocket.hpp:57 says that `write` "Writes data to the socket". If `send` takes a part, the rest is not sent, `write` returns as if it had been, and the server takes the part for the beginning of the next action. `WritesNotInterleaved` only says that no other action comes between a beginning and its end. |
| `PipelineArguments.cfg` (`MCPipeline`) | `DescriptorGivenBack` | TcpSocket.hpp:18 says that the class "Controls the lifetime of a socket file descriptor". The constructor's body checks its arguments after `open` (TcpSocket.cpp:23-29); if it throws there (an empty `string_view` whose `data()` resolves, or a port 0 that `connect` accepted), nobody closes the descriptor. `SocketLifetime` says that this is the one way to leave it open. |
| `KeyValDictLines.cfg` (`MCKeyValDict`) | `AnyActionArrives` | KeyValDict.hpp:71 says that `set_value` "Sets the value for key". A value that contains the end of a line is printed as it is: its rest is read as lines of their own, or ends the action. `ActionArrives` is about values of one line. |

**Bounds.** Two pipes and two ActionIDs are enough for every relation the invariants state, which
are about a pipe and an ActionID or about two of either; the proofs remove the bound. `MaxPending`
2 or 3 lets messages pile up behind one another and behind a timeout; `MaxList` 3 in `invoke` gives head, item
and closing message; 2 in `dispatcher` a head, an item and then the closing message; 1 in `callbacks` a head
and the closing message. Streams hold two messages, an empty message, overlapping delimiters, a cut-off
message and a lone CR, and chunks of every length, so each of the ways an end-of-message sequence
can straddle a boundary occurs, with up to two chunks queued. Three reads let one be handled, one be
parsed and one be on its way to the parser at the same time. Six tokens hold two lines with a key, a
separator and a value that may be missing, empty or contain a separator, and keys that are equal; a
third line adds only a further repetition.

**Fairness.** Weak fairness for the library's threads (the scheduler runs them, and they hold no lock
while another step of theirs is needed), for a destructor that has begun and for the way out of a
constructor that threw, for each step of a call that has begun, the passing of its timeout included but
the end of its `send` excluded, which waits for the server to make room, for callbacks, which return
once the call they make has ended, and for the passes of the parsing loop. A synchronous call goes on to
its write once it has its pipe. The reader's thread is fair, its throwing is not: no error of `poll` or
`recv` is ever promised. None for the server and the network, for clients starting calls, for the
destructor starting, for the constructor, or for spurious wakeups. Mutexes that these steps need are
held for one step at a time, so weak fairness suffices, but for two: `write_mutex_` is held while a
`send` waits for room, of which nothing is promised, and `callbacks_mutex_` through a round, and
`RoundsEnd` says that it is released unless some `send` never gets room. In `Pipeline` adding to a queue
is strongly fair: spurious wakeups may make the work thread take the mutex again and again, and the
thread that adds is assumed to get it in the end.

## 4. Theorems

TLAPS checks these for every value of the constants, with the assumptions the modules name
(`NoId` and `NoPipe` are not an ActionID and a pipe; messages have the three fields).

* `WorkThread_proof`: `Typing`, `NoLostWakeup`, `Drained`, and `Refinement` (`WorkThread` implements
  `WorkQueue`). The inductive invariant is the conjunction of the three invariants; `TypeOK` carries
  what the control states say: the local vector is empty outside the handling loop, the flag is set
  exactly while no destructor runs. The refinement maps the channel to `batch \o queue`; each step
  appends to it, takes its head, or leaves it alone (`ChannelStep`).
* `EventDispatcher_proof`: `Typing`, `PendingHasPromise`, `NoOrphanList` (every list being collected has
  a caller, `ListHasPipe`), `ListsAreOpen`, `CleanupAsserts`, `ListsHaveTails`. `PipeInv`, `ListHasPipe`
  and `ListShape` are inductive together with the types: one lemma per operation, over a lemma for each
  of the two ways a promise leaves the map. `OnlyRefusedLackTail` follows step by step from
  `ListShape`: what is settled is a lone message or an open list with its closing message
  (`SettledHasTail`).
  `Refinement`, in the same module: `EventDispatcher` implements `Mailbox`. The mapping looks a pipe's
  ActionID up in `promise_map_`; `PipeInv` makes the answer unique (`KeyFacts`), `ListHasPipe` makes a
  newly opened mailbox empty, `ListShape` makes "closing message" and "whole answer" agree
  (`WholeAppend`).
* `Invoke_proof`: `WritesApart` (`WritesNotInterleaved`), `LeftoversAreFailedWrites`
  (`AssertNeedsFailedWrite`), `MessagesKept` (`NothingLost`) and `AsyncMessagesNotified`
  (`AsyncAnswersNotified`), over the invariant of
  `EventDispatcher_proof`, which every step of calls, server and destructor keeps (`CallInvariance`).
  `WireInv` says that the head of the call that is sending is the last part the server has received, and
  that a call whose action is not complete has been given no answer. `LeftoverInv` says that a promise
  in the map belongs to the call with that ActionID, which is under way or has thrown, and that none is
  under way once the destructor runs. For `NothingLost` each step is followed from the place a message
  leaves to the one it comes to; a list is erased only by the timeout of its own call
  (`ListIsOfItsCall`), and what the destructor throws away belongs to calls that sent nothing.
* `Reaction_proof`: `OwnReactions` (`ReturnsOwnReaction`). The invariant `OrderOf` says that of each
  answer some number h of messages has been handled, that the list being collected is those h (or the
  reaction the first of them, up to where they were whole: `Got`), and that the others stand in the two
  vectors in their order, with no other message of that ActionID between them (`Lined`). No variable
  counts h; each step gives the new h and the new places.
* `Callbacks_proof`: `RemovedIsNotCalled` (`NotCalledOnceRemoved`; `callbacks_` changes only outside
  rounds), `CallsOfCallbacksTimeOut` (`InnerCallsTimeOut`; while such a call is under way its
  callback is running, so no message is handled and its future stays as it is), `RegisteredSeeAll`
  (`SeesAllWhileRegistered`), `CallbackTyping` (`CallbacksTypeOK`) and `AsyncMessagesHandedRound`
  (`AsyncAnswersNotified`, with callbacks that take time). `SeenInv` says of each registered callback
  that it has seen the rounds since its registration, but for the last while it is in `todo`, and
  `RoundInv` that between rounds none is. Each step of `Callbacks` is one of `Invoke` (`StepsOfCalls`), so
  the invariants above hold here too.
* `StreamParser_proof`: `Typing`, `NoMessageStays` (`NothingHeldBack`), `BannerIsVersion`
  (`VersionIsBanner`) and `Refinement`: the messages dispatched are those of `Framer`, in order, however
  the stream was cut. What must be shown is that looking for an end of message in the new chunk and the
  last three bytes of the buffer finds what looking in all of the buffer would (`SearchInv`,
  `ScanResumes`): nothing that ends in the old part was missed, and nothing that straddles the two begins
  more than three bytes before. "The first end of message" is the least of a set of positions, and that a
  set of numbers has a least element (`LeastOf`) takes the place of induction over the stream.
  `BannerInv` says that the first chunk has the banner line until it is processed, and that after that
  the buffer begins where the last message ended.
* `Pipeline_proof`: `Typing`, `DescriptorLifetime` (`SocketLifetime`), `VersionFirst`
  (`VersionKnownOnceHandled`), `PartsOutliveCallbacks` (`CallbacksFindTheirParts`), `InOrder`
  (`NothingLostOnTheWay`) and `DestroyedFinished` (`DestroyedMeansFinished`). `DescriptorLifetime`
  includes the one way out that leaves the descriptor open, a constructor whose body throws. `OpenInv`
  says for each state of `open` that what it holds is what its guards will give back, `OwnerInv` that
  there is an owner until the constructor is done and while the reader reads; `LifeInv` and `StopInv`
  say how far the constructor and the destructor are, against which threads may run, which is what keeps
  a part alive as long as a callback may ask for it. `FlowInv` adds to `NothingLostOnTheWay` its types
  and that the parser has taken no more than came. `VersionInv` says that the version is empty exactly
  until the first chunk is being processed, and that the dispatcher has nothing until the version is
  there.
* `KeyValDict_proof`: `Lookups`, that `has_key` and `get_value` agree: the parsing loop appends a key
  and emplaces a value under the same key, so the two containers grow together, and each action class
  declares the keys it sets, which is shown class by class. `Typing` and `NeverStartsOver`: the text
  ends with the end of a line (`TextEnds`), so the loop finds one behind each separator. `ActionArrival`
  (`ActionArrives`), for actions all of whose values are of one line, separators or nothing in them: the
  text of an action is its lines one behind the other, at known positions (`LaidOut`,
  `PrintedIsLaidOut`); it has no empty line but the last (`LaidOutIsOneMessage`); and after m passes the
  receiver's keys and values are those of the first m lines (`PassReads`; `SentInv` says so where all
  values are of one line). A key declared twice does no harm, since both its lines have the same value
  (`SentIsADictionary`). `LookedUpAsLines` (`ParsedAsLines`) is about any message: `ReadInv` says that
  the lines read are those whose separator is before `key_beg`, which stands right behind the last of
  them (`StandsBehind`), that the keys are as many, and the values those of the first line with each
  key; a pass finds the separator of the next line and none else (`PassFindsLine`). `PrintsBack`
  (`PrintsWhatItParsed`): `LinesInv` says that what was read stands line behind line in the text,
  wherever lines without a separator are. Read backwards, if what is printed is the text, two lines with
  the same key at the same place have the same value, since no value has the end of a line
  (`SameValue`); the least line that differs would contradict that (`PrintedAlike`). The other way
  round, equal values print the lines that were read (`PrintedBack`).

`MessagesKept`, `OwnReactions`, `AsyncMessagesNotified` and `AsyncMessagesHandedRound` assume
`OwnAnswers`: calls have different ActionIDs, answers carry
that of their action, unsolicited events none. `CallsOfCallbacksTimeOut` assumes the first of these
(`DistinctIds`). Each `Action` makes its ActionID with `create_uuid`, so it is what a client gets that
does not send one `Action` twice, and a server that echoes it; the instances of `invoke` and `callbacks`
are of this kind. The run `invoke_retry` shows what becomes of `ReturnsOwnReaction` without it.

Of `StreamParser`, `BannerIsVersion` and `Refinement` assume `BannerWhole`, that a first read has the
whole of the banner line; the run `parser_banner` shows what becomes of them without it. The others
assume no more than `StreamsAssumption`. The theorems of `KeyValDict_proof` assume that the delimiters
differ and are not among the words (`WordAssumption`, `DelimiterAssumption`), and that values are texts
(`ValuesAssumption`), whatever is in them. `ActionArrival` states its own restriction to values of one line;
`KeyValDictLines.cfg` shows what becomes of it for the others.

Only model-checked: all liveness, which is out of the prover's reach, the half of `ImplementsFramer` that
says that each message is dispatched in the end included.

## 5. Not modelled

* Formatting, logging, thread names, and the text of exceptions and of UUIDs (every action's is
  `create_uuid`; two actions' IDs differ because `Ids` has several elements where it matters).
* Memory order beyond sequential consistency: the flags are sequentially consistent atomics and
  everything else is under a mutex, except `ami_version_`. A client that reads it before the first
  message has been handled may get a torn copy; `VersionKnownOnceHandled` says when it does not.
* A callback that calls `add_callback` or `remove_callback` locks a mutex its thread holds, which the
  language leaves undefined; no such program is modelled.
* In `TcpSocket::open`, addresses after the first (none is tried), and in `TcpSocket` what a signal
  does to the process (`SIGPIPE`). Failing allocations, here and elsewhere.
* Moving a `ScopeGuard`: the library never does. Printing an `EventList`, which is its messages printed
  in order, and access to its events by index.
* `example/main.cpp`, which has no logic of its own; its calls are of the forms in `Invoke`.

## 6. Plan

What is left: a run that joins `Pipeline` and `Invoke`, a call whose connection is reset.
