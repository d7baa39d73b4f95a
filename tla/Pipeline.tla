-------------------------------- MODULE Pipeline --------------------------------
(***************************************************************************)
(* The life of a Connection: the constructor connects the socket and       *)
(* starts dispatcher, parser and reader, data flows from reader to parser  *)
(* to dispatcher on three threads, and the destructor takes the parts down *)
(* one after the other.  A constructor whose socket cannot be opened, or   *)
(* for which a thread cannot be created, takes down what it has made.      *)
(*                                                                         *)
(* Socket and reader are an instance of TcpSocket; the two work threads    *)
(* are two instances of WorkThread: P of the parser, whose items are       *)
(* chunks, and D of the dispatcher, whose items are messages.  Both are    *)
(* numbered as they are in the stream.  A chunk completes no, one or       *)
(* several messages; how it does is module StreamParser.  The first chunk  *)
(* also holds the banner line.                                             *)
(***************************************************************************)
EXTENDS Naturals, Sequences

CONSTANTS Completed,    \* how many messages the first k chunks complete together
          MaxPending    \* bound on the items in either queue (WorkThread)

ASSUME CompletedAssumption ==
    /\ Completed \in Seq(Nat)
    /\ \A i, j \in DOMAIN Completed : i <= j => Completed[i] <= Completed[j]

\* How many messages the first k chunks complete, and all that there may be.
CompletedBy(k) == IF k = 0 THEN 0 ELSE Completed[k]
Message        == 1 .. CompletedBy(Len(Completed))

\* The numbers after a, up to b.
Numbers(a, b) == [i \in 1 .. b - a |-> a + i]

VARIABLES
    opening, sock_fd, guards, sock_fd_, descriptor, addrinfo, owners,    \* of TcpSocket
    conn, sent, got, reader, thread_spin_,
    built,      \* how many parts the constructor has made
    failed,     \* the constructor has thrown
    gone,       \* how many parts have been destroyed or are being destroyed
    pqueue, pbatch, pworker, prun, pstopper,      \* the parser's work thread
    parsed,     \* messages of the chunk in hand, not yet passed to the dispatcher
    ami_version_,   \* "empty", "assigning", "version"
    dqueue, dbatch, dworker, drun, dstopper,      \* the dispatcher's work thread
    handed      \* the messages the dispatcher has handled

openVars   == <<opening, sock_fd, guards, addrinfo>>
objectVars == <<sock_fd_, descriptor, owners>>
netVars    == <<conn, sent>>
readerVars == <<got, reader, thread_spin_>>
socketVars == <<openVars, objectVars, netVars, readerVars>>
lifeVars   == <<built, failed, gone>>
pvars      == <<pqueue, pbatch, pworker, prun, pstopper>>
parseVars  == <<parsed, ami_version_>>
dvars      == <<dqueue, dbatch, dworker, drun, dstopper>>
threadVars == <<pvars, parseVars, dvars, handed>>
vars       == <<socketVars, lifeVars, threadVars>>

S == INSTANCE TcpSocket WITH Chunks <- Len(Completed)
P == INSTANCE WorkThread WITH Item <- DOMAIN Completed, queue <- pqueue, batch <- pbatch,
                              worker <- pworker, thread_run_ <- prun, stopper <- pstopper
D == INSTANCE WorkThread WITH Item <- Message, queue <- dqueue, batch <- dbatch,
                              worker <- dworker, thread_run_ <- drun, stopper <- dstopper

\* The work threads are not there before their parts; until then their state is initial.
Init == /\ S!Init /\ P!Init /\ D!Init
        /\ built = 0 /\ failed = FALSE /\ gone = 0
        /\ parsed = <<>> /\ ami_version_ = "empty"
        /\ handed = <<>>

-----------------------------------------------------------------------------
(* The constructor and the destructor, on a client's thread. *)

BuildOrder   == <<"dispatcher_", "stream_parser_", "reader_", "writer_">>
MemberOrder  == <<"dispatcher_", "reader_", "writer_", "stream_parser_">>
DestroyOrder == <<"reader_", "writer_", "stream_parser_", "dispatcher_">>

Upto(order, n) == {order[i] : i \in 1 .. n}

Built == Upto(BuildOrder, built)

\* After an exception the members are destroyed in reverse order of declaration.
TeardownOrder == IF failed THEN [i \in 1 .. Len(MemberOrder) |-> MemberOrder[Len(MemberOrder) + 1 - i]]
                           ELSE DestroyOrder

\* The pointers that are not null; unique_ptr::reset clears the pointer before it
\* runs the destructor.
Parts == Built \ Upto(TeardownOrder, gone)

OpenSocket == S!Open /\ UNCHANGED <<lifeVars, threadVars>>

Build ==
    /\ opening = "opened" /\ ~failed
    /\ built < Len(BuildOrder)
    /\ built' = built + 1
    /\ LET part == BuildOrder[built'] IN
          /\ IF part = "reader_" THEN reader' = "check" /\ thread_spin_' = TRUE
                                 ELSE UNCHANGED <<reader, thread_spin_>>
          /\ S!SetOwners(CASE part = "reader_" -> owners \cup {part}
                            [] part = "writer_" -> (owners \cup {part}) \ {"sock"}
                            [] OTHER            -> owners)
    /\ UNCHANGED <<failed, gone, got, openVars, netVars, threadVars>>

\* std::thread's constructor throws in that of the next part; the local sock goes first.
BuildThrows ==
    /\ opening = "opened" /\ ~failed
    /\ built < Len(BuildOrder) /\ BuildOrder[built + 1] # "writer_"
    /\ failed' = TRUE
    /\ S!SetOwners({})
    /\ UNCHANGED <<built, gone, openVars, netVars, readerVars, threadVars>>

\* The destructor of a part that is being destroyed has returned; one not made has none.
Deleted(part) == part \in Built =>
                     CASE part = "reader_"        -> part \notin owners
                       [] part = "writer_"        -> TRUE
                       [] part = "stream_parser_" -> pstopper = "joined"
                       [] part = "dispatcher_"    -> dstopper = "joined"

\* reset() of the next part: its destructor tells its thread to end.  The writer has none.
Reset ==
    /\ built = Len(BuildOrder) \/ failed
    /\ gone < Len(TeardownOrder)
    /\ gone > 0 => Deleted(TeardownOrder[gone])
    /\ gone' = gone + 1
    /\ LET part == TeardownOrder[gone'] IN
          /\ thread_spin_' = (thread_spin_ /\ part # "reader_")
          /\ IF part = "writer_" THEN S!SetOwners(owners \ {part}) ELSE UNCHANGED objectVars
          /\ IF part = "stream_parser_" /\ part \in Built THEN P!ClearRunFlag ELSE UNCHANGED pvars
          /\ IF part = "dispatcher_" /\ part \in Built THEN D!ClearRunFlag ELSE UNCHANGED dvars
    /\ UNCHANGED <<built, failed, got, reader, openVars, netVars, parseVars, handed>>

StopReader == S!JoinReader /\ UNCHANGED <<lifeVars, threadVars>>

StopParser == /\ P!NotifyStop \/ P!Join
              /\ UNCHANGED <<socketVars, lifeVars, parseVars, dvars, handed>>

StopDispatcher == /\ D!NotifyStop \/ D!Join
                  /\ UNCHANGED <<socketVars, lifeVars, pvars, parseVars, handed>>

-----------------------------------------------------------------------------
(* The network, and the reader's thread. *)

Network == S!Network /\ UNCHANGED <<lifeVars, threadVars>>

ReaderThread == (S!CheckSpin \/ S!Read) /\ UNCHANGED <<lifeVars, threadVars>>

ReaderThrows == S!ReadThrows /\ UNCHANGED <<lifeVars, threadVars>>

AddBuf ==
    /\ S!Callback
    /\ P!Add(got)
    /\ UNCHANGED <<lifeVars, parseVars, dvars, handed>>

-----------------------------------------------------------------------------
(* The parser's thread. *)

\* process_chunk of the first chunk begins with the assignment of the version.
InChunk == parsed # <<>> \/ ami_version_ = "assigning"

ProcessChunk ==
    /\ ~InChunk
    /\ P!Handle
    /\ parsed' = Numbers(CompletedBy(P!Current - 1), CompletedBy(P!Current))
    /\ ami_version_' = IF P!Current = 1 THEN "assigning" ELSE ami_version_
    /\ UNCHANGED <<socketVars, lifeVars, dvars, handed>>

VersionAssigned ==
    /\ ami_version_ = "assigning"
    /\ ami_version_' = "version"
    /\ UNCHANGED <<parsed, socketVars, lifeVars, pvars, dvars, handed>>

\* A faulty variant of the next: messages are passed on before the version is set.
PassOnFirst ==
    /\ parsed # <<>>
    /\ D!Add(Head(parsed))
    /\ parsed' = Tail(parsed)
    /\ UNCHANGED <<ami_version_, socketVars, lifeVars, pvars, handed>>

PassOn ==
    /\ ami_version_ # "assigning"
    /\ parsed # <<>>
    /\ D!Add(Head(parsed))
    /\ parsed' = Tail(parsed)
    /\ UNCHANGED <<ami_version_, socketVars, lifeVars, pvars, handed>>

ParserThread ==
    /\ "stream_parser_" \in Built
    /\ ~InChunk /\ P!Housekeeping
    /\ UNCHANGED <<socketVars, lifeVars, parseVars, dvars, handed>>

(* The dispatcher's thread. *)

DispatchEvent ==
    /\ D!Handle
    /\ handed' = Append(handed, D!Current)
    /\ UNCHANGED <<socketVars, lifeVars, pvars, parseVars>>

DispatcherThread ==
    /\ "dispatcher_" \in Built
    /\ D!Housekeeping
    /\ UNCHANGED <<socketVars, lifeVars, pvars, parseVars, handed>>

SpuriousWakeups ==
    /\ \/ P!SpuriousWakeup /\ UNCHANGED dvars
       \/ D!SpuriousWakeup /\ UNCHANGED pvars
    /\ UNCHANGED <<socketVars, lifeVars, parseVars, handed>>

-----------------------------------------------------------------------------
Alive     == reader # "threw"
Destroyed == (built = Len(BuildOrder) \/ failed) /\ gone = Len(TeardownOrder)
             /\ (gone > 0 => Deleted(TeardownOrder[gone]))

Over == (opening \in {"failed", "rejected"} \/ Destroyed \/ ~Alive) /\ UNCHANGED vars

\* An exception of the reader's thread reaches std::terminate.
Next == \/ /\ Alive
           /\ \/ OpenSocket \/ Build \/ BuildThrows
              \/ Reset \/ StopReader \/ StopParser \/ StopDispatcher
              \/ Network \/ ReaderThread \/ ReaderThrows \/ AddBuf
              \/ ProcessChunk \/ VersionAssigned \/ PassOn \/ ParserThread
              \/ DispatchEvent \/ DispatcherThread
              \/ SpuriousWakeups
        \/ Over

\* The scheduler runs the three threads, and a destructor that has begun goes on, as does
\* the way out of the constructor.  The mutex of a queue is taken by at most two threads
\* at a time; the one that adds gets it in the end, even if spurious wakeups make the
\* other one take it again and again.
Fairness == /\ WF_vars(Alive /\ ReaderThread)
            /\ SF_vars(Alive /\ AddBuf)
            /\ SF_vars(Alive /\ PassOn)
            /\ WF_vars(Alive /\ (ProcessChunk \/ VersionAssigned))
            /\ WF_vars(Alive /\ ParserThread)
            /\ WF_vars(Alive /\ DispatchEvent)
            /\ WF_vars(Alive /\ DispatcherThread)
            /\ WF_vars(Alive /\ (gone > 0 \/ failed) /\ Reset)
            /\ WF_vars(Alive /\ StopReader)
            /\ WF_vars(Alive /\ StopParser)
            /\ WF_vars(Alive /\ StopDispatcher)

Spec == Init /\ [][Next]_vars /\ Fairness

-----------------------------------------------------------------------------
(* Types, and the threads against the life of their parts. *)
TypeOK ==
    /\ S!TypeOK /\ P!TypeOK /\ D!TypeOK
    /\ built \in 0 .. Len(BuildOrder) /\ failed \in BOOLEAN
    /\ gone \in 0 .. Len(TeardownOrder)
    /\ parsed \in Seq(Message)
    /\ ami_version_ \in {"empty", "assigning", "version"}
    /\ handed \in Seq(Message)
    /\ thread_spin_ <=> "reader_" \in Parts
    /\ pstopper # "live" <=> "stream_parser_" \in Built \ Parts
    /\ dstopper # "live" <=> "dispatcher_" \in Built \ Parts

(* Connection.cpp, ~Connection: "Make sure objects get deleted in correct   *)
(* order".  The callbacks of reader and parser use stream_parser_ and       *)
(* dispatcher_; whenever one is about to, the pointer is not null, from the *)
(* first thread's start to the last one's end.                              *)
CallbacksFindTheirParts ==
    /\ reader = "add" => "stream_parser_" \in Parts
    /\ InChunk => "dispatcher_" \in Parts

\* The messages the dispatcher has before it and the chunks the parser has before it, in
\* the order in which they will be handled; how many chunks came to the parser, and how
\* many it has taken.
Pending   == dbatch \o dqueue
Backlog   == pbatch \o pqueue
Delivered == IF reader = "add" THEN got - 1 ELSE got
Processed == Delivered - Len(Backlog)

(* Nothing is lost, repeated or reordered on the way through three threads  *)
(* and two queues: the parser has before it the chunks after those it has   *)
(* taken, and the messages of those are handled, queued or in its hand.     *)
NothingLostOnTheWay ==
    /\ Backlog = Numbers(Processed, Delivered)
    /\ (handed \o Pending) \o parsed = Numbers(0, CompletedBy(Processed))

(* However the life of a Connection ends, short of an exception in the      *)
(* reader's thread: all that was read has been dispatched (~Connection lets *)
(* each part finish what it has before it tells the next one to stop), the  *)
(* reader's thread is over and the descriptor is closed.                    *)
DestroyedMeansFinished ==
    Destroyed => /\ handed = Numbers(0, CompletedBy(got))
                 /\ reader \in {"none", "done"}
                 /\ descriptor = "closed"

(* The life of the descriptor over that of the Connection, of which a part  *)
(* may throw with the others running: see SocketLifetime in TcpSocket.tla.  *)
SocketLifetime == S!SocketLifetime

(* TcpSocket.hpp: "Controls the lifetime of a socket file descriptor".  A   *)
(* Connection whose socket's constructor throws leaves no descriptor open.  *)
DescriptorGivenBack == S!DescriptorGivenBack

\* What a client may read, without synchronisation, in get_ami_version.
GetAmiVersion == IF ami_version_ = "assigning" THEN {"empty", "version", "torn"}
                                               ELSE {ami_version_}

(* Connection.hpp, get_ami_version: "String containing AMI server version". *)
(* Once the reaction to any action, or an event, has been handled, it can   *)
(* be read as the version and nothing else, though nothing but the order of *)
(* parser and dispatcher says so.                                           *)
VersionKnownOnceHandled == handed # <<>> => GetAmiVersion = {"version"}

(* What the server sends is dispatched, also what it sends just before it   *)
(* closes its side; it is given up only after a reset, by an exception, or  *)
(* by the client destroying the Connection.                                 *)
SentIsDispatched ==
    \A k \in DOMAIN Completed :
        (sent = k /\ "reader_" \in Built)
            ~> \/ Len(handed) >= CompletedBy(k)
               \/ conn = "reset" \/ gone > 0 \/ ~Alive

(* The reader's thread ends when it is told to, whatever the server does,   *)
(* within the timeout of a read: ~SocketReader returns.                     *)
ReaderStops == "reader_" \in Built \ Parts ~> "reader_" \notin owners \/ ~Alive
================================================================================
