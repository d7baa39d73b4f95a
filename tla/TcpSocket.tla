------------------------------- MODULE TcpSocket -------------------------------
(***************************************************************************)
(* TcpSocket from open to close, its read, and SocketReader, whose thread  *)
(* is the only one that reads.  (TcpSocket::write is in module Invoke.)    *)
(*                                                                         *)
(* open acquires a descriptor and an address list and can fail at every    *)
(* step; ScopeGuards give back what it has, on every way out and in        *)
(* reverse order.  The object is shared: what drops the last shared_ptr    *)
(* runs its destructor.                                                    *)
(*                                                                         *)
(* The server's data are numbered chunks, a chunk being what one recv      *)
(* returns.  What is done with a chunk is left to the module that uses     *)
(* this one, which conjoins it with Callback.                              *)
(***************************************************************************)
EXTENDS Naturals, Sequences

CONSTANT Chunks      \* how many chunks the server has, a natural number

VARIABLES
    opening,      \* where open stands, and the constructor around it
    sock_fd,      \* open's local holds the descriptor (else -1)
    guards,       \* open's ScopeGuards, in the order they were made
    sock_fd_,     \* the member holds the descriptor (else -1)
    descriptor,   \* what the process has done with the descriptor
    addrinfo,     \* the first address of the list getaddrinfo allocated, or what became of the list
    owners,       \* who holds a shared_ptr to the object
    conn,         \* the connection, as the client's kernel knows it: "up", "fin", "reset"
    sent,         \* how many chunks have come in from the server
    got,          \* how many of them have been read
    reader,       \* the reader's thread
    thread_spin_

openVars   == <<opening, sock_fd, guards, addrinfo>>
objectVars == <<sock_fd_, descriptor, owners>>
netVars    == <<conn, sent>>
readerVars == <<got, reader, thread_spin_>>
svars      == <<openVars, objectVars, netVars, readerVars>>

OpenStates   == {"socket", "resolve", "check", "connect", "return", "throw",
                 "opened", "failed", "rejected"}
ReaderStates == {"none", "check", "poll", "recv", "add", "done", "threw"}
Families     == {"inet", "inet6", "other"}      \* "other" also for a null address

Init == /\ opening = "socket" /\ sock_fd = FALSE /\ guards = <<>> /\ addrinfo = "none"
        /\ sock_fd_ = FALSE /\ descriptor = "none" /\ owners = {}
        /\ conn = "up" /\ sent = 0
        /\ got = 0 /\ reader = "none" /\ thread_spin_ = FALSE

\* A number that is closed twice may be another file's by then; a list freed twice is corrupt.
Close(d) == IF d = "open" THEN "closed" ELSE "closed again"
Free(a)  == IF a \in Families THEN "freed" ELSE "freed again"

-----------------------------------------------------------------------------
(* Faulty variants of single steps. *)

ReturnWithoutExchange ==
    /\ sock_fd_' = sock_fd
    /\ UNCHANGED sock_fd

Unguarded(callback) == guards

PollWaitsOn ==
    /\ reader = "poll" /\ sent = got /\ conn = "up"
    /\ UNCHANGED svars

PollMissesHalfClose == conn = "up" /\ sent > got

JoinReaderAnyTime ==
    /\ reader # "none" /\ ~thread_spin_ /\ "reader_" \in owners
    /\ owners' = owners \ {"reader_"}
    /\ UNCHANGED <<sock_fd_, descriptor, openVars, netVars, readerVars>>

-----------------------------------------------------------------------------
(* open, on the thread that constructs the Connection. *)

\* A ScopeGuard is made.
Guarded(callback) == Append(guards, callback)

Socket ==
    /\ opening = "socket"
    /\ \/ opening' = "failed" /\ UNCHANGED <<sock_fd, guards, descriptor>>
       \/ /\ opening' = "resolve"
          /\ descriptor' = "open" /\ sock_fd' = TRUE
          /\ guards' = Guarded("close")
    /\ UNCHANGED <<addrinfo, sock_fd_, owners, netVars, readerVars>>

GetAddrInfo ==
    /\ opening = "resolve"
    /\ \/ opening' = "throw" /\ UNCHANGED <<addrinfo, guards>>
       \/ /\ opening' = "check"
          /\ addrinfo' \in Families
          /\ guards' = Guarded("freeaddrinfo")
    /\ UNCHANGED <<sock_fd, objectVars, netVars, readerVars>>

CheckAddress ==
    /\ opening = "check"
    /\ opening' = IF addrinfo = "other" THEN "throw" ELSE "connect"
    /\ UNCHANGED <<sock_fd, guards, addrinfo, objectVars, netVars, readerVars>>

\* return std::exchange(sock_fd, -1): the result is the member's initial value.
ReturnValue ==
    /\ sock_fd_' = sock_fd
    /\ sock_fd' = FALSE

\* The socket is PF_INET: it cannot connect to an IPv6 address, and no other is tried.
Connect ==
    /\ opening = "connect"
    /\ \/ opening' = "throw" /\ UNCHANGED <<sock_fd, sock_fd_>>
       \/ addrinfo = "inet" /\ opening' = "return" /\ ReturnValue
    /\ UNCHANGED <<guards, addrinfo, descriptor, owners, netVars, readerVars>>

\* The callbacks of the two guards; the first looks at the local, not at the result.
CloseSocket ==
    /\ descriptor' = IF sock_fd THEN Close(descriptor) ELSE descriptor
    /\ UNCHANGED addrinfo

FreeAddrInfo ==
    /\ addrinfo' = Free(addrinfo)
    /\ UNCHANGED descriptor

\* The destructor of the latest ScopeGuard.
RunGuard ==
    /\ opening \in {"return", "throw"} /\ guards # <<>>
    /\ guards' = SubSeq(guards, 1, Len(guards) - 1)
    /\ \/ guards[Len(guards)] = "close" /\ CloseSocket
       \/ guards[Len(guards)] = "freeaddrinfo" /\ FreeAddrInfo
    /\ UNCHANGED <<opening, sock_fd, sock_fd_, owners, netVars, readerVars>>

\* open, at state from, has left its scope; the constructor gets to state to.
LeavesOpen(from, to) ==
    /\ opening = from /\ guards = <<>>
    /\ opening' = to
    /\ UNCHANGED <<sock_fd, guards, addrinfo, sock_fd_, descriptor, netVars, readerVars>>

OpenThrows == LeavesOpen("throw", "failed") /\ UNCHANGED owners

\* The constructor's body finds nothing wrong: make_shared returns sock.
AcceptArguments == LeavesOpen("return", "opened") /\ owners' = {"sock"}

\* The host name is empty, though the characters at its data() were resolved, or the port
\* is 0: the body throws, and an object that is not complete has no destructor to run.
RejectArguments == LeavesOpen("return", "rejected") /\ UNCHANGED owners

Construct == OpenThrows \/ AcceptArguments \/ RejectArguments

Open == Socket \/ GetAddrInfo \/ CheckAddress \/ Connect \/ RunGuard \/ Construct

\* The owners become these.  Without any the destructor has both mutexes and closes.
SetOwners(os) ==
    /\ owners' = os
    /\ IF os = {} /\ owners # {}
       THEN /\ reader \notin {"poll", "recv"}
            /\ sock_fd_' = FALSE
            /\ descriptor' = IF sock_fd_ THEN Close(descriptor) ELSE descriptor
       ELSE UNCHANGED <<sock_fd_, descriptor>>

-----------------------------------------------------------------------------
(* The server and the network: data, its end, and a reset, which may overtake the reader. *)

Network ==
    /\ owners # {}
    /\ \/ conn = "up" /\ sent < Chunks /\ sent' = sent + 1 /\ UNCHANGED conn
       \/ conn = "up" /\ conn' = "fin" /\ UNCHANGED sent
       \/ conn # "reset" /\ conn' = "reset" /\ UNCHANGED sent
    /\ UNCHANGED <<openVars, objectVars, readerVars>>

-----------------------------------------------------------------------------
(* SocketReader::work_thread and TcpSocket::read.  Once it has thrown the process is over. *)

\* The reader's thread, at from, goes on at to.
Moves(from, to) ==
    /\ reader = from /\ reader' = to
    /\ UNCHANGED <<thread_spin_, openVars, objectVars, netVars>>

CheckSpin ==
    /\ Moves("check", IF thread_spin_ THEN "poll" ELSE "done")
    /\ UNCHANGED got

\* poll returns 0, after 500 ms in which nothing came.
PollTimesOut ==
    /\ sent = got /\ conn = "up"
    /\ Moves("poll", "check")
    /\ UNCHANGED got

\* revents is POLLIN and nothing else: data, or the end of the server's data.
OnlyPollIn == conn # "reset" /\ (sent > got \/ conn = "fin")

PollReadable == OnlyPollIn /\ Moves("poll", "recv") /\ UNCHANGED got

\* After a reset POLLHUP and POLLERR are set as well; data that came before it stays unread.
PollHangup == conn = "reset" /\ Moves("poll", "check") /\ UNCHANGED got

\* A signal, or an error of recv: the exception leaves the thread's function.
ReadThrows == reader \in {"poll", "recv"} /\ Moves(reader, "threw") /\ UNCHANGED got

RecvData ==
    /\ sent > got
    /\ Moves("recv", "add")
    /\ got' = got + 1

\* The end of the data: an empty buffer, as after a timeout.
RecvEnd == sent = got /\ Moves("recv", "check") /\ UNCHANGED got

Read == PollTimesOut \/ PollReadable \/ PollHangup \/ RecvData \/ RecvEnd

\* callback_(buf)
Callback == Moves("add", "check") /\ UNCHANGED got

(* ~SocketReader, on the thread that destroys the Connection. *)

\* thread_.join() returns, then the members go.
JoinReader ==
    /\ reader = "done" /\ "reader_" \in owners
    /\ SetOwners(owners \ {"reader_"})
    /\ UNCHANGED <<openVars, netVars, readerVars>>

-----------------------------------------------------------------------------
TypeOK ==
    /\ opening \in OpenStates /\ sock_fd \in BOOLEAN
    /\ guards \in {<<>>, <<"close">>, <<"close", "freeaddrinfo">>}
    /\ sock_fd_ \in BOOLEAN
    /\ descriptor \in {"none", "open", "closed", "closed again"}
    /\ addrinfo \in Families \cup {"none", "freed", "freed again"}
    /\ owners \subseteq {"sock", "reader_", "writer_"}
    /\ conn \in {"up", "fin", "reset"}
    /\ sent \in 0 .. Chunks /\ got \in 0 .. sent
    /\ reader \in ReaderStates /\ thread_spin_ \in BOOLEAN

(* TcpSocket.hpp: "Controls the lifetime of a socket file descriptor".      *)
(* Whoever has the object has an open descriptor in it, and no poll or recv *)
(* is under way without one: not after open, whose guard would close what   *)
(* is being returned, and not in the destructor of the Connection.          *)
DescriptorOpenWhileOwned ==
    /\ owners # {} => sock_fd_ /\ descriptor = "open"
    /\ reader \in {"poll", "recv", "threw"} => "reader_" \in owners

(* Nothing is given back twice; the address list is given back whichever    *)
(* way open and the constructor end, and the descriptor when open throws    *)
(* and when a complete object has lost its last owner.  When the body of    *)
(* the constructor throws it stays open: see DescriptorGivenBack.           *)
ReleasedOnce ==
    /\ descriptor # "closed again" /\ addrinfo # "freed again"
    /\ opening \in {"opened", "failed", "rejected"}
           => addrinfo \in {"none", "freed"} /\ guards = <<>>
    /\ opening = "failed" \/ (opening = "opened" /\ owners = {}) => descriptor \in {"none", "closed"}
    /\ opening = "rejected" => descriptor = "open"

(* The descriptor's life: open while somebody has the object, closed once   *)
(* after that or after an open that failed, with the address list freed,    *)
(* and left open by a constructor that refuses its arguments.               *)
SocketLifetime == DescriptorOpenWhileOwned /\ ReleasedOnce

(* TcpSocket.hpp: "Controls the lifetime of a socket file descriptor".  A   *)
(* constructor that ends with an exception leaves no descriptor open.       *)
DescriptorGivenBack == opening \in {"failed", "rejected"} => descriptor \in {"none", "closed"}
================================================================================
