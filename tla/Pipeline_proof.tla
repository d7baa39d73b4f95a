----------------------------- MODULE Pipeline_proof -----------------------------
(***************************************************************************)
(* The life of a Connection, for any stream of chunks and any interleaving *)
(* of the constructor, the destructor, the network and the three threads:  *)
(* the socket's descriptor, the parts that the threads' callbacks use, the *)
(* chunks and messages on their way, and the version.                      *)
(*                                                                         *)
(* SocketInv: what open has acquired and not yet given back, or handed to  *)
(* the member, is at each of its states what the guards it has made will   *)
(* give back; after that the owners decide, of whom one is there until the *)
(* constructor has made all parts, and one while the reader reads.         *)
(* LifeInv and StopInv: how far constructor and destructor have got tells  *)
(* which threads may run.  FlowInv: what is in the queues is what follows  *)
(* what was taken from them.  VersionInv: the first chunk comes first.     *)
(***************************************************************************)
EXTENDS Pipeline, SequenceTheorems, TLAPS

NoGuard    == <<>>
OneGuard   == <<"close">>
BothGuards == <<"close", "freeaddrinfo">>

(* What open holds, by where it stands.                                    *)
OpenInv ==
    /\ opening \in S!OpenStates
    /\ sock_fd \in BOOLEAN /\ sock_fd_ \in BOOLEAN
    /\ opening = "socket" =>
           guards = NoGuard /\ descriptor = "none" /\ addrinfo = "none" /\ ~sock_fd /\ ~sock_fd_
    /\ opening = "resolve" =>
           guards = OneGuard /\ descriptor = "open" /\ addrinfo = "none" /\ sock_fd /\ ~sock_fd_
    /\ opening \in {"check", "connect"} =>
           /\ guards = BothGuards /\ descriptor = "open" /\ addrinfo \in S!Families
           /\ sock_fd /\ ~sock_fd_
    /\ opening = "return" =>
           /\ descriptor = "open" /\ ~sock_fd /\ sock_fd_
           /\ \/ guards = BothGuards /\ addrinfo \in S!Families
              \/ guards \in {NoGuard, OneGuard} /\ addrinfo = "freed"
    /\ opening = "throw" =>
           /\ ~sock_fd_
           /\ \/ guards = BothGuards /\ addrinfo \in S!Families /\ sock_fd /\ descriptor = "open"
              \/ guards = OneGuard /\ addrinfo \in {"none", "freed"} /\ sock_fd /\ descriptor = "open"
              \/ guards = NoGuard /\ addrinfo \in {"none", "freed"} /\ descriptor = "closed"
    /\ opening = "failed" =>
           guards = NoGuard /\ addrinfo \in {"none", "freed"} /\ descriptor \in {"none", "closed"}
    /\ opening = "rejected" => guards = NoGuard /\ addrinfo = "freed" /\ descriptor = "open"
    /\ opening = "opened" =>
           /\ guards = NoGuard /\ addrinfo = "freed"
           /\ IF owners = {} THEN descriptor = "closed" ELSE descriptor = "open" /\ sock_fd_

(* Who owns the object.                                                    *)
OwnerInv ==
    /\ built \in 0 .. 4
    /\ opening # "opened" => owners = {} /\ built = 0 /\ ~failed
    /\ opening = "opened" /\ ~failed /\ built < 4 => "sock" \in owners
    /\ built < 3 => reader = "none"
    /\ reader \notin {"none", "done"} => "reader_" \in owners

SocketInv == OpenInv /\ OwnerInv

-----------------------------------------------------------------------------
(* The guards: three different sequences, each the one before it with its  *)
(* callback appended.                                                      *)
LEMMA GuardSteps ==
    /\ Append(NoGuard, "close") = OneGuard /\ Append(OneGuard, "freeaddrinfo") = BothGuards
    /\ Len(NoGuard) = 0 /\ Len(OneGuard) = 1 /\ Len(BothGuards) = 2
    /\ OneGuard[1] = "close" /\ BothGuards[2] = "freeaddrinfo"
    /\ SubSeq(OneGuard, 1, 0) = NoGuard /\ SubSeq(BothGuards, 1, 1) = OneGuard
    /\ NoGuard # OneGuard /\ NoGuard # BothGuards /\ OneGuard # BothGuards
<1> USE DEF NoGuard, OneGuard, BothGuards
<1> DEFINE Callbacks == {"close", "freeaddrinfo"}
<1>1. /\ Len(NoGuard) = 0 /\ Len(OneGuard) = 1 /\ Len(BothGuards) = 2
      /\ OneGuard[1] = "close" /\ BothGuards[1] = "close" /\ BothGuards[2] = "freeaddrinfo"
  OBVIOUS
<1>2. NoGuard \in Seq(Callbacks) /\ OneGuard \in Seq(Callbacks) /\ BothGuards \in Seq(Callbacks)
  OBVIOUS
<1>3. Append(NoGuard, "close") = OneGuard
  OBVIOUS
<1> HIDE DEF NoGuard, OneGuard, BothGuards
<1>4. Append(OneGuard, "freeaddrinfo") = BothGuards
  <2>1. "freeaddrinfo" \in Callbacks /\ 1 \in 1 .. Len(OneGuard)
    BY <1>1
  <2> HIDE DEF Callbacks
  <2> DEFINE more == Append(OneGuard, "freeaddrinfo")
  <2>2. /\ more \in Seq(Callbacks) /\ Len(more) = Len(OneGuard) + 1
        /\ \A i \in 1 .. Len(OneGuard) : more[i] = OneGuard[i]
        /\ more[Len(OneGuard) + 1] = "freeaddrinfo"
    BY <1>2, <2>1, AppendProperties
  <2> HIDE DEF more
  <2>3. Len(more) = Len(BothGuards) /\ \A i \in 1 .. Len(more) : more[i] = BothGuards[i]
    BY <1>1, <2>2
  <2>4. more = BothGuards
    BY <1>2, <2>2, <2>3, SeqEqual
  <2>5. QED
    BY <2>4 DEF more
<1>5. SubSeq(OneGuard, 1, 0) = NoGuard
  BY SubSeqEmpty DEF NoGuard
<1>6. SubSeq(BothGuards, 1, 1) = OneGuard
  <2>1. \A k \in 1 .. 1 : BothGuards[k] \in Callbacks
    BY <1>1
  <2>2. /\ SubSeq(BothGuards, 1, 1) \in Seq(Callbacks)
        /\ Len(SubSeq(BothGuards, 1, 1)) = 1
        /\ SubSeq(BothGuards, 1, 1)[1] = BothGuards[1]
    BY <2>1, SubSeqProperties
  <2>3. QED
    BY <1>1, <1>2, <2>2, SeqEqual
<1>7. NoGuard # OneGuard /\ NoGuard # BothGuards /\ OneGuard # BothGuards
  BY <1>1
<1>8. QED
  BY <1>1, <1>3, <1>4, <1>5, <1>6, <1>7

LEMMA OpenStep == ASSUME SocketInv, S!Open, UNCHANGED lifeVars PROVE SocketInv'
<1> USE DEF SocketInv, OwnerInv, OpenInv, S!OpenStates, S!Families, lifeVars
<1>1. CASE S!Socket
  BY <1>1, GuardSteps DEF S!Socket, S!Guarded, S!netVars, S!readerVars, NoGuard
<1>2. CASE S!GetAddrInfo
  BY <1>2, GuardSteps DEF S!GetAddrInfo, S!Guarded, S!objectVars, S!netVars, S!readerVars
<1>3. CASE S!CheckAddress
  BY <1>3 DEF S!CheckAddress, S!objectVars, S!netVars, S!readerVars
<1>4. CASE S!Connect
  <2>1. /\ opening = "connect"
        /\ UNCHANGED <<guards, addrinfo, descriptor, owners, reader>>
        /\ \/ opening' = "throw" /\ sock_fd' = sock_fd /\ sock_fd_' = sock_fd_
           \/ opening' = "return" /\ sock_fd_' = sock_fd /\ sock_fd' = FALSE
    BY <1>4, Zenon DEF S!Connect, S!ReturnValue, S!netVars, S!readerVars
  <2>2. CASE opening' = "throw"
    BY <2>1, <2>2
  <2>3. CASE opening' = "return"
    BY <2>1, <2>3
  <2>4. QED
    BY <2>1, <2>2, <2>3
<1>5. CASE S!RunGuard
  <2>1. /\ opening \in {"return", "throw"} /\ guards \in {OneGuard, BothGuards}
        /\ UNCHANGED <<opening, sock_fd, sock_fd_, owners, reader>>
    BY <1>5 DEF S!RunGuard, S!netVars, S!readerVars, NoGuard
  <2>2. CASE guards = OneGuard
    <3>1. guards' = NoGuard /\ S!CloseSocket
      BY <1>5, <2>2, GuardSteps DEF S!RunGuard
    <3>2. addrinfo' = addrinfo /\ descriptor' = IF sock_fd THEN S!Close(descriptor) ELSE descriptor
      BY <3>1 DEF S!CloseSocket
    <3>3. QED
      BY <2>1, <2>2, <3>1, <3>2, GuardSteps DEF S!Close
  <2>3. CASE guards = BothGuards
    <3>1. guards' = OneGuard /\ S!FreeAddrInfo
      BY <1>5, <2>3, GuardSteps DEF S!RunGuard
    <3>2. addrinfo' = S!Free(addrinfo) /\ descriptor' = descriptor
      BY <3>1 DEF S!FreeAddrInfo
    <3>3. QED
      BY <2>1, <2>3, <3>1, <3>2, GuardSteps DEF S!Free
  <2>4. QED
    BY <2>1, <2>2, <2>3
<1>6. CASE S!OpenThrows
  BY <1>6, GuardSteps DEF S!OpenThrows, S!LeavesOpen, S!netVars, S!readerVars, NoGuard
<1>7. CASE S!AcceptArguments
  BY <1>7, GuardSteps DEF S!AcceptArguments, S!LeavesOpen, S!netVars, S!readerVars, NoGuard
<1>8. CASE S!RejectArguments
  BY <1>8, GuardSteps DEF S!RejectArguments, S!LeavesOpen, S!netVars, S!readerVars, NoGuard
<1>9. QED
  BY <1>1, <1>2, <1>3, <1>4, <1>5, <1>6, <1>7, <1>8 DEF S!Open, S!Construct

(* New owners: while there are some the descriptor stays open, and what    *)
(* drops the last one closes it.                                           *)
LEMMA OwnersStep ==
    ASSUME OpenInv, opening = "opened", NEW os, S!SetOwners(os), UNCHANGED openVars,
           owners = {} => os = {}
    PROVE  OpenInv' /\ owners' = os
  BY DEF OpenInv, openVars, S!SetOwners, S!Close, S!OpenStates

LEMMA BuildStep == ASSUME SocketInv, Build PROVE SocketInv'
<1> USE DEF SocketInv, OwnerInv
<1> DEFINE part == BuildOrder[built']
<1>1. /\ opening = "opened" /\ ~failed /\ built \in 0 .. 3 /\ built' = built + 1
      /\ UNCHANGED <<failed, openVars>> /\ opening' = opening /\ "sock" \in owners
  BY DEF Build, BuildOrder, openVars
<1>2. part = CASE built = 0 -> "dispatcher_" [] built = 1 -> "stream_parser_"
               [] built = 2 -> "reader_"     [] built = 3 -> "writer_"
  BY <1>1 DEF BuildOrder
<1>3. CASE built \in {0, 1}
  <2>1. S!SetOwners(owners) /\ reader' = reader
    BY <1>1, <1>2, <1>3 DEF Build
  <2>2. QED
    BY <1>1, <1>3, <2>1, OwnersStep
<1>4. CASE built = 2
  <2>1. S!SetOwners(owners \cup {"reader_"})
    BY <1>1, <1>2, <1>4 DEF Build
  <2>2. QED
    BY <1>1, <1>4, <2>1, OwnersStep
<1>5. CASE built = 3
  <2>1. S!SetOwners((owners \cup {"writer_"}) \ {"sock"}) /\ reader' = reader
    BY <1>1, <1>2, <1>5 DEF Build
  <2>2. QED
    BY <1>1, <1>5, <2>1, OwnersStep
<1>6. QED
  BY <1>1, <1>3, <1>4, <1>5

LEMMA BuildThrowsStep == ASSUME SocketInv, BuildThrows PROVE SocketInv'
<1> USE DEF SocketInv, OwnerInv
<1>1. /\ opening = "opened" /\ built \in 0 .. 3 /\ BuildOrder[built + 1] # "writer_"
      /\ S!SetOwners({}) /\ failed' = TRUE /\ built' = built
      /\ UNCHANGED openVars /\ opening' = opening /\ reader' = reader
  BY DEF BuildThrows, BuildOrder, openVars, readerVars
<1>2. built < 3
  BY <1>1 DEF BuildOrder
<1>3. QED
  BY <1>1, <1>2, OwnersStep

LEMMA ResetStep == ASSUME SocketInv, Reset PROVE SocketInv'
<1> USE DEF SocketInv, OwnerInv
<1>1. /\ UNCHANGED <<built, failed, reader, openVars>> /\ opening' = opening
      /\ S!SetOwners(owners \ {"writer_"}) \/ UNCHANGED objectVars
  BY Zenon DEF Reset, openVars
<1>2. opening = "opened"
  BY DEF Reset, BuildOrder
<1>3. CASE S!SetOwners(owners \ {"writer_"})
  BY <1>1, <1>2, <1>3, OwnersStep
<1>4. CASE UNCHANGED objectVars
  BY <1>1, <1>4 DEF OpenInv, openVars, objectVars
<1>5. QED
  BY <1>1, <1>3, <1>4

LEMMA JoinStep == ASSUME SocketInv, StopReader PROVE SocketInv'
<1> USE DEF SocketInv, OwnerInv
<1>1. /\ reader = "done" /\ S!SetOwners(owners \ {"reader_"}) /\ UNCHANGED openVars
      /\ opening' = opening /\ reader' = reader /\ UNCHANGED <<built, failed>>
      /\ opening = "opened"
  BY DEF StopReader, S!JoinReader, S!openVars, S!readerVars, openVars, lifeVars
<1>2. QED
  BY <1>1, OwnersStep

(* The reader's thread moves on only where it has been started.            *)
LEMMA ReaderStep ==
    ASSUME SocketInv, UNCHANGED <<lifeVars, openVars, objectVars>>,
           \/ reader' = reader
           \/ reader \in {"check", "poll", "recv", "add"}
    PROVE  SocketInv'
  BY DEF SocketInv, OwnerInv, OpenInv, lifeVars, openVars, objectVars

LEMMA SocketInvStep == SocketInv /\ [Next]_vars => SocketInv'
<1> SUFFICES ASSUME SocketInv, [Next]_vars PROVE SocketInv'
  OBVIOUS
<1>1. CASE OpenSocket
  BY <1>1, OpenStep DEF OpenSocket
<1>2. CASE Network \/ StopParser \/ StopDispatcher \/ ProcessChunk \/ VersionAssigned \/ PassOn
               \/ ParserThread \/ DispatchEvent \/ DispatcherThread \/ SpuriousWakeups \/ Over
               \/ UNCHANGED vars
  <2>1. UNCHANGED <<lifeVars, openVars, objectVars, reader>>
    BY <1>2 DEF Network, S!Network, StopParser, StopDispatcher, ProcessChunk, VersionAssigned, PassOn,
                ParserThread, DispatchEvent, DispatcherThread, SpuriousWakeups, Over, vars, socketVars,
                readerVars, openVars, objectVars, S!openVars, S!objectVars, S!readerVars
  <2>2. QED
    BY <2>1, ReaderStep
<1>3. CASE ReaderThread \/ ReaderThrows \/ AddBuf
  <2>1. UNCHANGED <<lifeVars, openVars, objectVars>> /\ reader \in {"check", "poll", "recv", "add"}
    BY <1>3 DEF ReaderThread, ReaderThrows, AddBuf, S!CheckSpin, S!Read, S!PollTimesOut, S!PollReadable,
                S!PollHangup, S!RecvData, S!RecvEnd, S!ReadThrows, S!Callback, S!Moves, openVars,
                objectVars, S!openVars, S!objectVars
  <2>2. QED
    BY <2>1, ReaderStep
<1>4. QED
  BY <1>1, <1>2, <1>3, BuildStep, BuildThrowsStep, ResetStep, JoinStep DEF Next

LEMMA InitSocket == Init => SocketInv
<1> SUFFICES ASSUME Init PROVE SocketInv
  OBVIOUS
<1>1. /\ opening = "socket" /\ sock_fd = FALSE /\ guards = NoGuard /\ addrinfo = "none"
      /\ sock_fd_ = FALSE /\ descriptor = "none" /\ owners = {} /\ reader = "none"
      /\ built = 0 /\ failed = FALSE
  BY DEF Init, S!Init, NoGuard
<1>2. OpenInv
  BY <1>1 DEF OpenInv, S!OpenStates
<1>3. OwnerInv
  BY <1>1 DEF OwnerInv
<1>4. QED
  BY <1>2, <1>3 DEF SocketInv

(* TcpSocket.hpp: "Controls the lifetime of a socket file descriptor".     *)
(* The descriptor is open while somebody has the object, and closed once   *)
(* after that; so is it where open throws, or the Connection's constructor *)
(* with some of its parts made, and every way out frees the address list.  *)
(* One way out keeps the descriptor open, and that is shown too: the body  *)
(* of TcpSocket's constructor throws at an argument open got along with.   *)
THEOREM DescriptorLifetime == Spec => []SocketLifetime
<1>1. Init => SocketInv
  BY InitSocket
<1>2. SocketInv => SocketLifetime
  BY DEF SocketInv, OpenInv, OwnerInv, SocketLifetime, S!SocketLifetime, S!DescriptorOpenWhileOwned,
         S!ReleasedOnce, S!OpenStates, S!Families, NoGuard
<1>3. QED
  BY <1>1, <1>2, SocketInvStep, PTL DEF Spec

-----------------------------------------------------------------------------
(* Two queues, one after the other: appending to the second, and taking    *)
(* from the first, append to and take from both together; the head of the  *)
(* second may go to the end of the first.                                  *)
LEMMA AppendBehind ==
    ASSUME NEW T, NEW s \in Seq(T), NEW t \in Seq(T), NEW x \in T
    PROVE  s \o Append(t, x) = Append(s \o t, x)
<1>1. s \o t \in Seq(T) /\ <<x>> \in Seq(T)
  BY ConcatProperties
<1>2. Append(s \o t, x) = (s \o t) \o <<x>> /\ Append(t, x) = t \o <<x>>
  BY <1>1, AppendIsConcat
<1>3. QED
  BY <1>1, <1>2, ConcatAssociative

LEMMA TakeInFront ==
    ASSUME NEW T, NEW s \in Seq(T), NEW t \in Seq(T), s # <<>>
    PROVE  s \o t # <<>> /\ Head(s \o t) = Head(s) /\ Tail(s \o t) = Tail(s) \o t
<1>1. /\ s \o t \in Seq(T) /\ Len(s \o t) = Len(s) + Len(t)
      /\ \A i \in 1 .. Len(s) + Len(t) : (s \o t)[i] = IF i <= Len(s) THEN s[i] ELSE t[i - Len(s)]
  BY ConcatProperties
<1>2. Len(s) \in Nat \ {0} /\ Len(t) \in Nat
  BY EmptySeq, LenProperties
<1>3. s \o t # <<>>
  BY <1>1, <1>2, EmptySeq
<1>4. /\ Head(s) = s[1] /\ Tail(s) \in Seq(T) /\ Len(Tail(s)) = Len(s) - 1
      /\ \A i \in 1 .. Len(Tail(s)) : Tail(s)[i] = s[i + 1]
  BY HeadTailProperties
<1>5. /\ Head(s \o t) = (s \o t)[1] /\ Tail(s \o t) \in Seq(T)
      /\ Len(Tail(s \o t)) = Len(s \o t) - 1
      /\ \A i \in 1 .. Len(Tail(s \o t)) : Tail(s \o t)[i] = (s \o t)[i + 1]
  BY <1>1, <1>3, HeadTailProperties
<1>6. /\ Tail(s) \o t \in Seq(T) /\ Len(Tail(s) \o t) = Len(Tail(s)) + Len(t)
      /\ \A i \in 1 .. Len(Tail(s)) + Len(t) :
             (Tail(s) \o t)[i] = IF i <= Len(Tail(s)) THEN Tail(s)[i] ELSE t[i - Len(Tail(s))]
  BY <1>4, ConcatProperties
<1>7. Head(s \o t) = Head(s)
  BY <1>1, <1>2, <1>4, <1>5
<1>8. Len(Tail(s) \o t) = Len(Tail(s \o t))
  BY <1>1, <1>2, <1>4, <1>5, <1>6
<1>9. ASSUME NEW i \in 1 .. Len(Tail(s) \o t) PROVE (Tail(s) \o t)[i] = Tail(s \o t)[i]
  <2>1. /\ i \in 1 .. Len(s) + Len(t) - 1 /\ i + 1 \in 1 .. Len(s) + Len(t)
        /\ Tail(s \o t)[i] = (s \o t)[i + 1]
    BY <1>1, <1>2, <1>4, <1>5, <1>6, <1>8
  <2>2. CASE i <= Len(Tail(s))
    <3>1. (Tail(s) \o t)[i] = s[i + 1] /\ i + 1 <= Len(s)
      BY <1>2, <1>4, <1>6, <2>1, <2>2
    <3>2. QED
      BY <1>1, <2>1, <3>1
  <2>3. CASE ~(i <= Len(Tail(s)))
    <3>1. ~(i + 1 <= Len(s)) /\ i - Len(Tail(s)) = (i + 1) - Len(s)
      BY <1>2, <1>4, <2>1, <2>3
    <3>2. QED
      BY <1>1, <1>2, <1>4, <1>6, <2>1, <2>3, <3>1
  <2>4. QED
    BY <2>2, <2>3
<1>10. QED
  BY <1>3, <1>5, <1>6, <1>7, <1>8, <1>9, SeqEqual

LEMMA HeadMovesOver ==
    ASSUME NEW T, NEW s \in Seq(T), NEW t \in Seq(T), t # <<>>
    PROVE  Append(s, Head(t)) \o Tail(t) = s \o t
<1>1. Head(t) \in T /\ Tail(t) \in Seq(T) /\ t = <<Head(t)>> \o Tail(t)
  BY HeadTailProperties, ConcatSimplifications
<1>2. Append(s, Head(t)) = s \o <<Head(t)>> /\ <<Head(t)>> \in Seq(T)
  BY <1>1, AppendIsConcat
<1>3. QED
  BY <1>1, <1>2, ConcatAssociative

-----------------------------------------------------------------------------
(* Numbers, as they grow, are taken and continued.                         *)
LEMMA NumbersAre ==
    ASSUME NEW a \in Nat, NEW b \in Nat, a <= b
    PROVE  /\ Numbers(a, b) \in Seq(Nat) /\ Len(Numbers(a, b)) = b - a
           /\ \A i \in 1 .. b - a : Numbers(a, b)[i] = a + i
<1>1. b - a \in Nat /\ \A i \in 1 .. b - a : a + i \in Nat
  OBVIOUS
<1>2. QED
  BY <1>1, IsASeq, LenProperties DEF Numbers

LEMMA NumbersGrow ==
    ASSUME NEW a \in Nat, NEW b \in Nat, a <= b
    PROVE  Append(Numbers(a, b), b + 1) = Numbers(a, b + 1)
<1> DEFINE s == Numbers(a, b)
           t == Numbers(a, b + 1)
<1>1. /\ s \in Seq(Nat) /\ Len(s) = b - a /\ \A i \in 1 .. b - a : s[i] = a + i
      /\ t \in Seq(Nat) /\ Len(t) = b + 1 - a /\ \A i \in 1 .. b + 1 - a : t[i] = a + i
  <2>1. b + 1 \in Nat /\ a <= b + 1
    OBVIOUS
  <2>2. /\ t \in Seq(Nat) /\ Len(t) = (b + 1) - a
        /\ \A i \in 1 .. (b + 1) - a : t[i] = a + i
    BY <2>1, NumbersAre, Zenon
  <2>3. s \in Seq(Nat) /\ Len(s) = b - a /\ \A i \in 1 .. b - a : s[i] = a + i
    BY NumbersAre, Zenon
  <2>4. QED
    BY <2>2, <2>3
<1> HIDE DEF s, t
<1>2. /\ Append(s, b + 1) \in Seq(Nat) /\ Len(Append(s, b + 1)) = Len(s) + 1
      /\ \A i \in 1 .. Len(s) : Append(s, b + 1)[i] = s[i]
      /\ Append(s, b + 1)[Len(s) + 1] = b + 1
  BY <1>1, AppendProperties
<1>3. ASSUME NEW i \in 1 .. Len(t) PROVE Append(s, b + 1)[i] = t[i]
  <2>1. CASE i = Len(s) + 1
    BY <1>1, <1>2, <2>1
  <2>2. CASE i \in 1 .. Len(s)
    BY <1>1, <1>2, <2>2
  <2>3. QED
    BY <1>1, <2>1, <2>2
<1>4. Append(s, b + 1) = t
  BY <1>1, <1>2, <1>3, SeqEqual
<1>5. QED
  BY <1>4 DEF s, t

LEMMA NumbersTaken ==
    ASSUME NEW a \in Nat, NEW b \in Nat, a <= b, Numbers(a, b) # <<>>
    PROVE  /\ a < b /\ Head(Numbers(a, b)) = a + 1
           /\ Tail(Numbers(a, b)) = Numbers(a + 1, b)
<1> DEFINE s == Numbers(a, b)
           t == Numbers(a + 1, b)
<1>1. /\ s \in Seq(Nat) /\ Len(s) = b - a /\ \A i \in 1 .. b - a : s[i] = a + i
  BY NumbersAre
<1>2. a < b
  BY <1>1, EmptySeq
<1>3. t \in Seq(Nat) /\ Len(t) = b - (a + 1) /\ \A i \in 1 .. b - (a + 1) : t[i] = (a + 1) + i
  <2>1. a + 1 \in Nat /\ a + 1 <= b
    BY <1>2
  <2>2. QED
    BY <2>1, NumbersAre
<1>4. s # <<>>
  OBVIOUS
<1> HIDE DEF s, t
<1>5. /\ Head(s) = s[1] /\ Tail(s) \in Seq(Nat) /\ Len(Tail(s)) = Len(s) - 1
      /\ \A i \in 1 .. Len(Tail(s)) : Tail(s)[i] = s[i + 1]
  BY <1>1, <1>4, HeadTailProperties
<1>6. Head(s) = a + 1
  BY <1>1, <1>2, <1>5
<1>7. ASSUME NEW i \in 1 .. Len(t) PROVE Tail(s)[i] = t[i]
  BY <1>1, <1>2, <1>3, <1>5
<1>8. Tail(s) = t
  <2>1. Len(Tail(s)) = Len(t)
    BY <1>1, <1>3, <1>5
  <2>2. QED
    BY <1>3, <1>5, <1>7, <2>1, SeqEqual
<1>9. QED
  BY <1>2, <1>6, <1>8 DEF s, t

LEMMA NumbersGoOn ==
    ASSUME NEW a \in Nat, NEW b \in Nat, a <= b
    PROVE  Numbers(0, a) \o Numbers(a, b) = Numbers(0, b)
<1> DEFINE s == Numbers(0, a)
           t == Numbers(a, b)
           u == Numbers(0, b)
<1>0. 0 \in Nat /\ 0 <= a /\ 0 <= b
  OBVIOUS
<1>1. /\ s \in Seq(Nat) /\ Len(s) = a - 0 /\ \A i \in 1 .. a - 0 : s[i] = 0 + i
      /\ t \in Seq(Nat) /\ Len(t) = b - a /\ \A i \in 1 .. b - a : t[i] = a + i
      /\ u \in Seq(Nat) /\ Len(u) = b - 0 /\ \A i \in 1 .. b - 0 : u[i] = 0 + i
  BY <1>0, NumbersAre, Zenon
<1> HIDE DEF s, t, u
<1>2. /\ s \o t \in Seq(Nat) /\ Len(s \o t) = Len(s) + Len(t)
      /\ \A i \in 1 .. Len(s) + Len(t) : (s \o t)[i] = IF i <= Len(s) THEN s[i] ELSE t[i - Len(s)]
  BY <1>1, ConcatProperties
<1>3. ASSUME NEW i \in 1 .. b PROVE (s \o t)[i] = u[i]
  <2>1. CASE i <= a
    BY <1>1, <1>2, <2>1
  <2>2. CASE ~(i <= a)
    <3>1. i - a \in 1 .. b - a
      BY <2>2
    <3>2. (s \o t)[i] = t[i - a] /\ t[i - a] = a + (i - a)
      BY <1>1, <1>2, <2>2, <3>1
    <3>3. QED
      BY <1>1, <3>2
  <2>3. QED
    BY <2>1, <2>2
<1>4. s \o t = u
  <2>1. Len(s \o t) = Len(u) /\ Len(u) = b
    BY <1>1, <1>2
  <2>2. QED
    BY <1>1, <1>2, <1>3, <2>1, SeqEqual
<1>5. QED
  BY <1>4 DEF s, t, u

-----------------------------------------------------------------------------
(* The two threads: types, and the drain at their end; and what their      *)
(* steps do to the items before them.                                      *)
ParserInv     == P!TypeOK /\ P!DoneMeansDrained
DispatcherInv == D!TypeOK /\ D!DoneMeansDrained

LEMMA ParserAdds ==
    ASSUME ParserInv, NEW x \in DOMAIN Completed, P!Add(x)
    PROVE  ParserInv' /\ Backlog' = Append(Backlog, x)
<1>1. /\ pqueue \in Seq(DOMAIN Completed) /\ pbatch \in Seq(DOMAIN Completed)
      /\ pqueue' = Append(pqueue, x) /\ pbatch' = pbatch
  BY DEF P!Add, ParserInv, P!TypeOK
<1>2. pqueue' \in Seq(DOMAIN Completed)
  BY <1>1, AppendProperties
<1>3. ParserInv'
  BY <1>1, <1>2 DEF ParserInv, P!TypeOK, P!DoneMeansDrained, P!Add, P!MutexFree, P!Notified,
                    P!WorkerStates, P!StopperStates
<1>4. QED
  BY <1>1, <1>3, AppendBehind DEF Backlog

LEMMA ParserTakes ==
    ASSUME ParserInv, P!Handle
    PROVE  /\ ParserInv'
           /\ Backlog # <<>> /\ P!Current = Head(Backlog) /\ Backlog' = Tail(Backlog)
           /\ P!Current \in DOMAIN Completed
<1>1. pqueue \in Seq(DOMAIN Completed) /\ pbatch \in Seq(DOMAIN Completed)
  BY DEF ParserInv, P!TypeOK
<1>2. CASE P!HandleBatch
  <2>1. /\ pworker = "work" /\ pbatch # <<>> /\ pbatch' = Tail(pbatch) /\ pqueue' = pqueue
        /\ P!Current = Head(pbatch)
    BY <1>2 DEF P!HandleBatch, P!Current
  <2>2. pbatch' \in Seq(DOMAIN Completed) /\ Head(pbatch) \in DOMAIN Completed
    BY <1>1, <2>1, HeadTailProperties
  <2>3. ParserInv'
    BY <1>2, <2>2 DEF ParserInv, P!TypeOK, P!DoneMeansDrained, P!HandleBatch, P!WorkerStates
  <2>4. QED
    BY <1>1, <2>1, <2>2, <2>3, TakeInFront DEF Backlog
<1>3. CASE P!HandleDrain
  <2>1. /\ pworker = "drain" /\ pbatch = <<>> /\ pbatch' = pbatch
        /\ pqueue # <<>> /\ pqueue' = Tail(pqueue) /\ P!Current = Head(pqueue)
    BY <1>3 DEF P!HandleDrain, P!Current, ParserInv, P!TypeOK
  <2>2. pqueue' \in Seq(DOMAIN Completed) /\ Head(pqueue) \in DOMAIN Completed
    BY <1>1, <2>1, HeadTailProperties
  <2>3. Backlog = pqueue /\ Backlog' = pqueue'
    BY <1>1, <2>1, <2>2, ConcatEmptySeq DEF Backlog
  <2>4. ParserInv'
    BY <1>3, <2>2 DEF ParserInv, P!TypeOK, P!DoneMeansDrained, P!HandleDrain, P!WorkerStates
  <2>5. QED
    BY <2>1, <2>2, <2>3, <2>4
<1>4. QED
  BY <1>2, <1>3 DEF P!Handle

LEMMA ParserKeeps ==
    ASSUME ParserInv, P!Housekeeping \/ P!SpuriousWakeup \/ P!Stop \/ UNCHANGED pvars
    PROVE  ParserInv' /\ Backlog' = Backlog
<1> USE DEF ParserInv, P!TypeOK, P!DoneMeansDrained, P!WorkerStates, P!StopperStates
<1>1. pqueue \in Seq(DOMAIN Completed) /\ pbatch \in Seq(DOMAIN Completed)
  OBVIOUS
<1>2. CASE P!Swap
  <2>1. pbatch = <<>> /\ pbatch' = pqueue /\ pqueue' = pbatch /\ pworker' = "work" /\ pworker = "test"
    BY <1>2 DEF P!Swap
  <2>2. Backlog' = Backlog
    BY <1>1, <2>1, ConcatEmptySeq DEF Backlog
  <2>3. QED
    BY <1>1, <1>2, <2>1, <2>2 DEF P!Swap
<1>3. ASSUME UNCHANGED <<pqueue, pbatch>>, ParserInv' PROVE ParserInv' /\ Backlog' = Backlog
  BY <1>3 DEF Backlog
<1>4. CASE P!EnterLoop \/ P!DecideToWait \/ P!FallAsleep \/ P!Reacquire \/ P!SpuriousWakeup
  BY <1>3, <1>4 DEF P!EnterLoop, P!DecideToWait, P!FallAsleep, P!Reacquire, P!SpuriousWakeup
<1>5. CASE P!FinishBatch \/ P!LeaveLoop \/ P!Exit
  BY <1>3, <1>5 DEF P!FinishBatch, P!LeaveLoop, P!Exit
<1>6. CASE P!ClearRunFlag \/ P!Join
  BY <1>3, <1>6 DEF P!ClearRunFlag, P!Join
<1>7. CASE P!NotifyStop
  BY <1>3, <1>7 DEF P!NotifyStop, P!Notified
<1>8. CASE UNCHANGED pvars
  BY <1>3, <1>8 DEF pvars
<1>9. QED
  BY <1>2, <1>4, <1>5, <1>6, <1>7, <1>8 DEF P!Housekeeping, P!Stop

LEMMA DispatcherAdds ==
    ASSUME DispatcherInv, NEW x \in Message, D!Add(x)
    PROVE  DispatcherInv' /\ Pending' = Append(Pending, x)
<1>1. /\ dqueue \in Seq(Message) /\ dbatch \in Seq(Message)
      /\ dqueue' = Append(dqueue, x) /\ dbatch' = dbatch
  BY DEF D!Add, DispatcherInv, D!TypeOK
<1>2. dqueue' \in Seq(Message)
  BY <1>1, AppendProperties
<1>3. DispatcherInv'
  BY <1>1, <1>2 DEF DispatcherInv, D!TypeOK, D!DoneMeansDrained, D!Add, D!MutexFree, D!Notified,
                    D!WorkerStates, D!StopperStates
<1>4. QED
  BY <1>1, <1>3, AppendBehind DEF Pending

LEMMA DispatcherTakes ==
    ASSUME DispatcherInv, D!Handle
    PROVE  /\ DispatcherInv'
           /\ Pending # <<>> /\ D!Current = Head(Pending) /\ Pending' = Tail(Pending)
           /\ D!Current \in Message
<1>1. dqueue \in Seq(Message) /\ dbatch \in Seq(Message)
  BY DEF DispatcherInv, D!TypeOK
<1>2. CASE D!HandleBatch
  <2>1. /\ dworker = "work" /\ dbatch # <<>> /\ dbatch' = Tail(dbatch) /\ dqueue' = dqueue
        /\ D!Current = Head(dbatch)
    BY <1>2 DEF D!HandleBatch, D!Current
  <2>2. dbatch' \in Seq(Message) /\ Head(dbatch) \in Message
    BY <1>1, <2>1, HeadTailProperties
  <2>3. DispatcherInv'
    BY <1>2, <2>2 DEF DispatcherInv, D!TypeOK, D!DoneMeansDrained, D!HandleBatch, D!WorkerStates
  <2>4. QED
    BY <1>1, <2>1, <2>2, <2>3, TakeInFront DEF Pending
<1>3. CASE D!HandleDrain
  <2>1. /\ dworker = "drain" /\ dbatch = <<>> /\ dbatch' = dbatch
        /\ dqueue # <<>> /\ dqueue' = Tail(dqueue) /\ D!Current = Head(dqueue)
    BY <1>3 DEF D!HandleDrain, D!Current, DispatcherInv, D!TypeOK
  <2>2. dqueue' \in Seq(Message) /\ Head(dqueue) \in Message
    BY <1>1, <2>1, HeadTailProperties
  <2>3. Pending = dqueue /\ Pending' = dqueue'
    BY <1>1, <2>1, <2>2, ConcatEmptySeq DEF Pending
  <2>4. DispatcherInv'
    BY <1>3, <2>2 DEF DispatcherInv, D!TypeOK, D!DoneMeansDrained, D!HandleDrain, D!WorkerStates
  <2>5. QED
    BY <2>1, <2>2, <2>3, <2>4
<1>4. QED
  BY <1>2, <1>3 DEF D!Handle

LEMMA DispatcherKeeps ==
    ASSUME DispatcherInv, D!Housekeeping \/ D!SpuriousWakeup \/ D!Stop \/ UNCHANGED dvars
    PROVE  DispatcherInv' /\ Pending' = Pending
<1> USE DEF DispatcherInv, D!TypeOK, D!DoneMeansDrained, D!WorkerStates, D!StopperStates
<1>1. dqueue \in Seq(Message) /\ dbatch \in Seq(Message)
  OBVIOUS
<1>2. CASE D!Swap
  <2>1. dbatch = <<>> /\ dbatch' = dqueue /\ dqueue' = dbatch /\ dworker' = "work" /\ dworker = "test"
    BY <1>2 DEF D!Swap
  <2>2. Pending' = Pending
    BY <1>1, <2>1, ConcatEmptySeq DEF Pending
  <2>3. QED
    BY <1>1, <1>2, <2>1, <2>2 DEF D!Swap
<1>3. ASSUME UNCHANGED <<dqueue, dbatch>>, DispatcherInv' PROVE DispatcherInv' /\ Pending' = Pending
  BY <1>3 DEF Pending
<1>4. CASE D!EnterLoop \/ D!DecideToWait \/ D!FallAsleep \/ D!Reacquire \/ D!SpuriousWakeup
  BY <1>3, <1>4 DEF D!EnterLoop, D!DecideToWait, D!FallAsleep, D!Reacquire, D!SpuriousWakeup
<1>5. CASE D!FinishBatch \/ D!LeaveLoop \/ D!Exit
  BY <1>3, <1>5 DEF D!FinishBatch, D!LeaveLoop, D!Exit
<1>6. CASE D!ClearRunFlag \/ D!Join
  BY <1>3, <1>6 DEF D!ClearRunFlag, D!Join
<1>7. CASE D!NotifyStop
  BY <1>3, <1>7 DEF D!NotifyStop, D!Notified
<1>8. CASE UNCHANGED dvars
  BY <1>3, <1>8 DEF dvars
<1>9. QED
  BY <1>2, <1>4, <1>5, <1>6, <1>7, <1>8 DEF D!Housekeeping, D!Stop

-----------------------------------------------------------------------------
(* How far the constructor and the destructor have got, against the        *)
(* owners of the socket and the reader's thread.  Only what has been built *)
(* to the end, or has failed with no thread of a reader, is taken down.    *)
LifeInv ==
    /\ failed \in BOOLEAN /\ gone \in 0 .. 4
    /\ failed => built <= 2 /\ owners = {}
    /\ gone > 0 => failed \/ built = 4
    /\ owners \subseteq {"sock", "reader_", "writer_"}
    /\ "reader_" \in owners => built >= 3 /\ gone < 2
    /\ "writer_" \in owners => gone < 2
    /\ built = 4 => "sock" \notin owners
    /\ reader \in S!ReaderStates
    /\ reader = "none" <=> built < 3
    /\ built >= 3 /\ "reader_" \notin owners => reader = "done"
    /\ thread_spin_ \in BOOLEAN
    /\ thread_spin_ <=> built >= 3 /\ gone = 0

(* What the network has brought and the reader has read.                   *)
NetInv ==
    /\ conn \in {"up", "fin", "reset"}
    /\ sent \in 0 .. Len(Completed) /\ got \in 0 .. sent
    /\ reader = "add" => got >= 1
    /\ reader = "none" => got = 0

LEMMA Teardown ==
    /\ Len(BuildOrder) = 4 /\ Len(TeardownOrder) = 4
    /\ failed => /\ TeardownOrder[1] = "stream_parser_" /\ TeardownOrder[2] = "writer_"
                 /\ TeardownOrder[3] = "reader_" /\ TeardownOrder[4] = "dispatcher_"
    /\ ~failed => /\ TeardownOrder[1] = "reader_" /\ TeardownOrder[2] = "writer_"
                  /\ TeardownOrder[3] = "stream_parser_" /\ TeardownOrder[4] = "dispatcher_"
<1>1. Len(BuildOrder) = 4 /\ Len(MemberOrder) = 4 /\ Len(DestroyOrder) = 4
  BY DEF BuildOrder, MemberOrder, DestroyOrder
<1>2. CASE failed
  <2>1. TeardownOrder = [i \in 1 .. 4 |-> MemberOrder[5 - i]]
    BY <1>1, <1>2 DEF TeardownOrder
  <2>2. Len(TeardownOrder) = 4
    BY <2>1
  <2>3. QED
    BY <1>1, <1>2, <2>1, <2>2 DEF MemberOrder
<1>3. CASE ~failed
  BY <1>1, <1>3 DEF TeardownOrder, DestroyOrder
<1>4. QED
  BY <1>2, <1>3

LEMMA BuiltParts ==
    ASSUME built \in 0 .. 4
    PROVE  /\ "dispatcher_" \in Built <=> built >= 1
           /\ "stream_parser_" \in Built <=> built >= 2
           /\ "reader_" \in Built <=> built >= 3
           /\ "writer_" \in Built <=> built = 4
<1>1. built \in {0, 1, 2, 3, 4}
  OBVIOUS
<1>2. CASE built = 0
  BY <1>2 DEF Built, Upto, BuildOrder
<1>3. CASE built = 1
  BY <1>3 DEF Built, Upto, BuildOrder
<1>4. CASE built = 2
  BY <1>4 DEF Built, Upto, BuildOrder
<1>5. CASE built = 3
  BY <1>5 DEF Built, Upto, BuildOrder
<1>6. CASE built = 4
  BY <1>6 DEF Built, Upto, BuildOrder
<1>7. QED
  BY <1>1, <1>2, <1>3, <1>4, <1>5, <1>6

(* The steps of the threads but the reader's.                              *)
LEMMA ThreadKinds ==
    StopParser \/ StopDispatcher \/ ProcessChunk \/ VersionAssigned \/ PassOn \/ ParserThread
    \/ DispatchEvent \/ DispatcherThread \/ SpuriousWakeups \/ Over \/ UNCHANGED vars
    => UNCHANGED <<socketVars, lifeVars>>
  BY DEF StopParser, StopDispatcher, ProcessChunk, VersionAssigned, PassOn, ParserThread, DispatchEvent,
         DispatcherThread, SpuriousWakeups, Over, vars

LEMMA LifeStep == SocketInv /\ LifeInv /\ [Next]_vars => LifeInv'
<1> SUFFICES ASSUME SocketInv, LifeInv, [Next]_vars PROVE LifeInv'
  OBVIOUS
<1>0. built \in 0 .. 4 /\ (opening # "opened" => built = 0 /\ ~failed /\ owners = {})
  BY DEF SocketInv, OwnerInv
<1>1. CASE OpenSocket
  <2>1. /\ UNCHANGED <<lifeVars, reader, thread_spin_>> /\ opening # "opened"
        /\ owners' \in {owners, {"sock"}, {}}
    BY <1>1 DEF OpenSocket, S!Open, S!Socket, S!GetAddrInfo, S!CheckAddress, S!Connect, S!RunGuard,
                S!Construct, S!OpenThrows, S!AcceptArguments, S!RejectArguments, S!LeavesOpen,
                S!objectVars, S!readerVars
  <2>2. QED
    BY <1>0, <2>1 DEF LifeInv, lifeVars
<1>2. CASE Build
  <2> DEFINE part == BuildOrder[built']
  <2>1. /\ ~failed /\ built \in 0 .. 3 /\ built' = built + 1 /\ UNCHANGED <<failed, gone>>
        /\ IF part = "reader_" THEN reader' = "check" /\ thread_spin_' = TRUE
                               ELSE UNCHANGED <<reader, thread_spin_>>
        /\ owners' = CASE part = "reader_" -> owners \cup {part}
                       [] part = "writer_" -> (owners \cup {part}) \ {"sock"}
                       [] OTHER            -> owners
    BY <1>0, <1>2, Teardown DEF Build, S!SetOwners
  <2>2. part = CASE built = 0 -> "dispatcher_" [] built = 1 -> "stream_parser_"
                 [] built = 2 -> "reader_"     [] built = 3 -> "writer_"
    BY <2>1 DEF BuildOrder
  <2>3. CASE built \in {0, 1}
    BY <2>1, <2>2, <2>3 DEF LifeInv
  <2>4. CASE built = 2
    BY <2>1, <2>2, <2>4 DEF LifeInv, S!ReaderStates
  <2>5. CASE built = 3
    BY <2>1, <2>2, <2>5 DEF LifeInv
  <2>6. QED
    BY <2>1, <2>3, <2>4, <2>5
<1>3. CASE BuildThrows
  <2>1. /\ ~failed /\ failed' = TRUE /\ built \in 0 .. 3 /\ BuildOrder[built + 1] # "writer_"
        /\ owners' = {} /\ UNCHANGED <<built, gone, reader, thread_spin_>>
    BY <1>0, <1>3, Teardown DEF BuildThrows, S!SetOwners, readerVars
  <2>2. built <= 2
    BY <2>1 DEF BuildOrder
  <2>3. QED
    BY <2>1, <2>2 DEF LifeInv
<1>4. CASE Reset
  <2>1. /\ built = 4 \/ failed
        /\ gone \in 0 .. 3 /\ gone' = gone + 1
        /\ gone > 0 => Deleted(TeardownOrder[gone])
        /\ thread_spin_' = (thread_spin_ /\ TeardownOrder[gone + 1] # "reader_")
        /\ UNCHANGED <<built, failed, reader>>
        /\ IF TeardownOrder[gone + 1] = "writer_" THEN owners' = owners \ {"writer_"}
                                                  ELSE owners' = owners
    BY <1>4, Teardown DEF Reset, S!SetOwners, objectVars, LifeInv
  <2>2. gone' \in 1 .. 4 /\ ~thread_spin_'
    <3>1. ~failed /\ gone = 0 => TeardownOrder[gone + 1] = "reader_"
      BY Teardown
    <3>2. failed \/ gone # 0 => ~thread_spin_
      BY <1>0, <2>1 DEF LifeInv
    <3>3. ~thread_spin_'
      <4>1. thread_spin_' = (thread_spin_ /\ TeardownOrder[gone + 1] # "reader_")
        BY <2>1
      <4>2. QED
        BY <3>1, <3>2, <4>1, Zenon
    <3>4. QED
      BY <2>1, <3>3
  <2>3. CASE failed
    <3>1. owners = {} /\ owners' = {}
      BY <2>1, <2>3 DEF LifeInv
    <3>2. QED
      BY <2>1, <2>2, <2>3, <3>1 DEF LifeInv
  <2>4. CASE ~failed
    <3>1. built = 4
      BY <2>1, <2>4
    <3>2. gone = 1 => "reader_" \notin owners
      <4>1. gone = 1 => Deleted("reader_")
        BY <2>1, <2>4, Teardown
      <4>2. QED
        BY <3>1, <4>1, BuiltParts DEF Deleted
    <3>3. gone = 1 => owners' = owners \ {"writer_"}
      BY <2>1, <2>4, Teardown
    <3>4. owners' \subseteq owners
      BY <2>1
    <3>5. "reader_" \in owners' => "reader_" \in owners /\ gone' < 2
      BY <2>1, <3>2, <3>4 DEF LifeInv
    <3>6. "writer_" \in owners' => gone' < 2
      BY <2>1, <3>3, <3>4 DEF LifeInv
    <3>7. "reader_" \in owners => "reader_" \in owners'
      BY <2>1
    <3>8. QED
      BY <2>1, <2>2, <2>4, <3>1, <3>4, <3>5, <3>6, <3>7 DEF LifeInv
  <2>5. QED
    BY <2>3, <2>4
<1>5. CASE StopReader
  <2>1. /\ reader = "done" /\ owners' = owners \ {"reader_"}
        /\ UNCHANGED <<lifeVars, reader, thread_spin_>>
    BY <1>5 DEF StopReader, S!JoinReader, S!SetOwners, S!readerVars
  <2>2. QED
    BY <2>1 DEF LifeInv, lifeVars
<1>6. CASE Network
  BY <1>6 DEF Network, S!Network, S!objectVars, S!readerVars, LifeInv, lifeVars
<1>7. CASE ReaderThread \/ ReaderThrows \/ AddBuf
  <2>1. /\ UNCHANGED <<lifeVars, owners, thread_spin_>>
        /\ reader \in {"check", "poll", "recv", "add"} /\ reader' \in S!ReaderStates \ {"none"}
    BY <1>7 DEF ReaderThread, ReaderThrows, AddBuf, S!CheckSpin, S!Read, S!PollTimesOut, S!PollReadable,
                S!PollHangup, S!RecvData, S!RecvEnd, S!ReadThrows, S!Callback, S!Moves, S!ReaderStates,
                S!objectVars
  <2>2. QED
    BY <2>1 DEF LifeInv, lifeVars
<1>8. CASE UNCHANGED <<socketVars, lifeVars>>
  BY <1>8 DEF LifeInv, lifeVars, socketVars, objectVars, readerVars
<1>9. QED
  BY <1>1, <1>2, <1>3, <1>4, <1>5, <1>6, <1>7, <1>8, ThreadKinds DEF Next

LEMMA NetStep == SocketInv /\ LifeInv /\ NetInv /\ [Next]_vars => NetInv'
<1> SUFFICES ASSUME SocketInv, LifeInv, NetInv, [Next]_vars PROVE NetInv'
  OBVIOUS
<1>0. Len(Completed) \in Nat
  BY CompletedAssumption, LenProperties
<1>1. CASE UNCHANGED <<netVars, got>> /\ (reader' = reader \/ (reader = "none" /\ reader' = "check"))
  BY <1>1 DEF NetInv, netVars
<1>2. CASE OpenSocket \/ StopReader \/ BuildThrows \/ Reset \/ UNCHANGED <<socketVars, lifeVars>>
  <2>1. UNCHANGED <<netVars, got, reader>>
    BY <1>2 DEF OpenSocket, S!Open, S!Socket, S!GetAddrInfo, S!CheckAddress, S!Connect, S!RunGuard,
                S!Construct, S!OpenThrows, S!AcceptArguments, S!RejectArguments, S!LeavesOpen,
                S!netVars, S!readerVars, netVars, readerVars, StopReader, S!JoinReader,
                BuildThrows, Reset, socketVars
  <2>2. QED
    BY <1>1, <2>1 DEF netVars
<1>3. CASE Build
  <2>1. /\ UNCHANGED <<netVars, got>> /\ built \in 0 .. 3
        /\ reader' = reader \/ (BuildOrder[built + 1] = "reader_" /\ reader' = "check")
    BY <1>3, Teardown DEF Build, SocketInv, OwnerInv
  <2>2. BuildOrder[built + 1] = "reader_" => reader = "none"
    BY <2>1 DEF BuildOrder, LifeInv
  <2>3. QED
    BY <1>1, <2>1, <2>2 DEF netVars
<1>4. CASE Network
  BY <1>0, <1>4 DEF Network, S!Network, S!readerVars, NetInv
<1>5. CASE ReaderThread \/ ReaderThrows \/ AddBuf
  <2>1. CASE S!RecvData
    BY <1>0, <2>1 DEF S!RecvData, S!Moves, S!netVars, NetInv
  <2>2. CASE S!CheckSpin \/ S!PollTimesOut \/ S!PollReadable \/ S!PollHangup \/ S!RecvEnd \/ S!ReadThrows
             \/ S!Callback
    <3>1. UNCHANGED <<conn, sent, got>> /\ reader' \notin {"add", "none"}
      BY <2>2 DEF S!CheckSpin, S!PollTimesOut, S!PollReadable, S!PollHangup, S!RecvEnd, S!ReadThrows,
                  S!Callback, S!Moves, S!netVars
    <3>2. QED
      BY <3>1 DEF NetInv
  <2>3. QED
    BY <1>5, <2>1, <2>2 DEF ReaderThread, ReaderThrows, AddBuf, S!Read
<1>6. QED
  BY <1>2, <1>3, <1>4, <1>5, ThreadKinds DEF Next

-----------------------------------------------------------------------------
(* The two work threads against the life of their parts: a thread is told  *)
(* to end where its part is reset, the parser's has ended before the       *)
(* dispatcher is, and messages are in the parser's hand only while it runs. *)
ParserReset     == built >= 2 /\ IF failed THEN gone >= 1 ELSE gone >= 3
ParserDeleted   == built >= 2 /\ IF failed THEN gone >= 2 ELSE gone >= 4
DispatcherReset == built >= 1 /\ gone = 4

StopInv ==
    /\ pstopper # "live" <=> ParserReset
    /\ dstopper # "live" <=> DispatcherReset
    /\ ParserDeleted => pstopper = "joined"
    /\ built < 2 => pworker = "check" /\ ~InChunk
    /\ built < 1 => dworker = "check"
    /\ InChunk => pworker \in {"work", "drain"}

(* The data on their way, by their types.                                  *)
FlowTypes == ParserInv /\ DispatcherInv /\ parsed \in Seq(Message) /\ handed \in Seq(Message)

LEMMA PartsAre ==
    ASSUME SocketInv, LifeInv
    PROVE  /\ "reader_" \in Parts <=> built >= 3 /\ gone = 0
           /\ "stream_parser_" \in Built \ Parts <=> ParserReset
           /\ "dispatcher_" \in Built \ Parts <=> DispatcherReset
<1>1. built \in 0 .. 4 /\ gone \in 0 .. 4 /\ (failed => built <= 2) /\ (gone > 0 => failed \/ built = 4)
  BY DEF SocketInv, OwnerInv, LifeInv
<1>2. \A part : part \in Upto(TeardownOrder, gone) <=> \E i \in 1 .. gone : part = TeardownOrder[i]
  BY DEF Upto
<1>3. /\ "stream_parser_" \in Upto(TeardownOrder, gone) <=> IF failed THEN gone >= 1 ELSE gone >= 3
      /\ "reader_" \in Upto(TeardownOrder, gone) <=> IF failed THEN gone >= 3 ELSE gone >= 1
      /\ "dispatcher_" \in Upto(TeardownOrder, gone) <=> gone = 4
  <2>1. \A i \in 1 .. gone : i \in {1, 2, 3, 4}
    BY <1>1
  <2>2. \A n \in 1 .. 4 : n <= gone => n \in 1 .. gone
    BY <1>1
  <2>3. CASE failed
    BY <1>1, <1>2, <2>1, <2>2, <2>3, Teardown
  <2>4. CASE ~failed
    BY <1>1, <1>2, <2>1, <2>2, <2>4, Teardown
  <2>5. QED
    BY <2>3, <2>4
<1>4. QED
  BY <1>1, <1>3, BuiltParts DEF Parts, ParserReset, DispatcherReset

(* What the other steps of a work thread leave alone.                      *)
LEMMA ParserRuns ==
    ASSUME \/ \E x \in DOMAIN Completed : P!Add(x)
           \/ P!Handle \/ P!Housekeeping \/ P!SpuriousWakeup \/ P!NotifyStop \/ P!Join
    PROVE  /\ pstopper # "live" <=> pstopper' # "live"
           /\ pstopper = "joined" => pstopper' = "joined"
           /\ P!Housekeeping \/ (pworker = "check" => pworker' = "check")
           /\ P!Housekeeping \/ (pworker \in {"work", "drain"} => pworker' = pworker)
  BY DEF P!Add, P!Handle, P!HandleBatch, P!HandleDrain, P!Housekeeping, P!EnterLoop, P!Swap,
         P!DecideToWait, P!FallAsleep, P!Reacquire, P!FinishBatch, P!LeaveLoop, P!Exit,
         P!SpuriousWakeup, P!NotifyStop, P!Join, P!Notified

LEMMA DispatcherRuns ==
    ASSUME \/ \E x \in Message : D!Add(x)
           \/ D!Handle \/ D!Housekeeping \/ D!SpuriousWakeup \/ D!NotifyStop \/ D!Join
    PROVE  /\ dstopper # "live" <=> dstopper' # "live"
           /\ D!Housekeeping \/ (dworker = "check" => dworker' = "check")
  BY DEF D!Add, D!Handle, D!HandleBatch, D!HandleDrain, D!Housekeeping, D!EnterLoop, D!Swap,
         D!DecideToWait, D!FallAsleep, D!Reacquire, D!FinishBatch, D!LeaveLoop, D!Exit,
         D!SpuriousWakeup, D!NotifyStop, D!Join, D!Notified

(* A thread that is not there, or has ended, takes no item.                *)
LEMMA HandlerRuns ==
    /\ P!Handle => pworker \in {"work", "drain"}
    /\ D!Handle => dworker \in {"work", "drain"}
  BY DEF P!Handle, P!HandleBatch, P!HandleDrain, D!Handle, D!HandleBatch, D!HandleDrain

(* Steps at which the constructor and the destructor stand still.          *)
LEMMA StandStill ==
    ASSUME StopInv, UNCHANGED <<built, failed, gone>>,
           pstopper # "live" <=> pstopper' # "live", dstopper # "live" <=> dstopper' # "live",
           pstopper = "joined" => pstopper' = "joined",
           built < 2 => pworker' = "check" /\ ~InChunk',
           built < 1 => dworker' = "check",
           InChunk' => pworker' \in {"work", "drain"}
    PROVE  StopInv'
  BY DEF StopInv, ParserReset, ParserDeleted, DispatcherReset

LEMMA StopStep == SocketInv /\ LifeInv /\ NetInv /\ FlowTypes /\ StopInv /\ [Next]_vars => StopInv'
<1> SUFFICES ASSUME SocketInv, LifeInv, NetInv, FlowTypes, StopInv, [Next]_vars PROVE StopInv'
  OBVIOUS
<1>0. built \in 0 .. 4 /\ gone \in 0 .. 4 /\ (gone > 0 => failed \/ built = 4)
  BY DEF SocketInv, OwnerInv, LifeInv
<1>1. CASE OpenSocket \/ StopReader \/ Network \/ ReaderThread \/ ReaderThrows \/ Over \/ UNCHANGED vars
  <2>1. UNCHANGED <<lifeVars, pvars, parseVars, dvars>>
    BY <1>1 DEF OpenSocket, StopReader, Network, ReaderThread, ReaderThrows, Over, vars, threadVars
  <2>2. QED
    BY <2>1 DEF StopInv, ParserReset, ParserDeleted, DispatcherReset, InChunk, lifeVars, pvars, parseVars,
                dvars
<1>2. CASE Build \/ BuildThrows
  <2>1. /\ ~failed /\ built \in 0 .. 3 /\ built' \in 0 .. 4 /\ built' >= built /\ gone = 0 /\ gone' = 0
        /\ UNCHANGED <<pvars, parseVars, dvars>>
    BY <1>0, <1>2, Teardown DEF Build, BuildThrows, threadVars
  <2>2. QED
    BY <2>1 DEF StopInv, ParserReset, ParserDeleted, DispatcherReset, InChunk, pvars, parseVars, dvars
<1>3. CASE Reset
  <2>1. /\ built = 4 \/ failed
        /\ gone \in 0 .. 3 /\ gone' = gone + 1
        /\ gone > 0 => Deleted(TeardownOrder[gone])
        /\ UNCHANGED <<built, failed, parsed, ami_version_>>
        /\ IF TeardownOrder[gone + 1] = "stream_parser_" /\ built >= 2
           THEN P!ClearRunFlag ELSE UNCHANGED pvars
        /\ IF TeardownOrder[gone + 1] = "dispatcher_" /\ built >= 1
           THEN D!ClearRunFlag ELSE UNCHANGED dvars
    <3>1. /\ TeardownOrder[gone + 1] = "stream_parser_" =>
                 (TeardownOrder[gone + 1] \in Built <=> built >= 2)
          /\ TeardownOrder[gone + 1] = "dispatcher_" =>
                 (TeardownOrder[gone + 1] \in Built <=> built >= 1)
      BY <1>0, BuiltParts
    <3>2. gone < Len(TeardownOrder)
      BY <1>3 DEF Reset
    <3>3. gone \in 0 .. 3
      BY <1>0, <3>2, Teardown
    <3>4. QED
      BY <1>3, <3>1, <3>3, Teardown DEF Reset, parseVars
  <2>2. UNCHANGED <<pworker, dworker>> /\ (InChunk' <=> InChunk)
    BY <2>1 DEF P!ClearRunFlag, D!ClearRunFlag, pvars, dvars, InChunk
  <2>3. /\ TeardownOrder[gone + 1] = "dispatcher_" <=> gone = 3
        /\ TeardownOrder[gone + 1] = "stream_parser_" <=> gone = IF failed THEN 0 ELSE 2
    BY <2>1, Teardown
  <2>4. dstopper' # "live" <=> DispatcherReset'
    BY <2>1, <2>3 DEF StopInv, DispatcherReset, D!ClearRunFlag, dvars
  <2>5. pstopper' # "live" <=> ParserReset'
    BY <1>0, <2>1, <2>3 DEF StopInv, ParserReset, P!ClearRunFlag, pvars
  <2>6. ParserDeleted' => pstopper' = "joined"
    <3>1. CASE gone = IF failed THEN 1 ELSE 3
      <4>1. ParserDeleted' => "stream_parser_" \in Built
        BY <1>0, <2>1, BuiltParts DEF ParserDeleted
      <4>2. TeardownOrder[gone] = "stream_parser_"
        BY <3>1, Teardown
      <4>3. ParserDeleted' => pstopper = "joined"
        BY <2>1, <3>1, <4>1, <4>2 DEF Deleted
      <4>4. UNCHANGED pvars
        BY <2>1, <2>3, <3>1
      <4>5. QED
        BY <4>3, <4>4 DEF pvars
    <3>2. CASE gone # IF failed THEN 1 ELSE 3
      <4>1. ParserDeleted' => ParserDeleted
        BY <2>1, <3>2 DEF ParserDeleted
      <4>2. pstopper = "joined" => pstopper' = "joined"
        BY <2>1 DEF P!ClearRunFlag, pvars
      <4>3. QED
        BY <4>1, <4>2 DEF StopInv
    <3>3. QED
      BY <3>1, <3>2
  <2>7. QED
    BY <1>0, <2>1, <2>2, <2>4, <2>5, <2>6 DEF StopInv
<1>4. CASE StopParser \/ AddBuf \/ ProcessChunk \/ ParserThread
           \/ (SpuriousWakeups /\ P!SpuriousWakeup /\ UNCHANGED dvars)
  <2>1. /\ UNCHANGED <<built, failed, gone, dvars>>
        /\ \/ \E x \in DOMAIN Completed : P!Add(x)
           \/ P!Handle \/ P!Housekeeping \/ P!SpuriousWakeup \/ P!NotifyStop \/ P!Join
    <3>1. AddBuf => got \in DOMAIN Completed
      BY CompletedAssumption, LenProperties DEF AddBuf, S!Callback, S!Moves, NetInv
    <3>2. QED
      BY <1>4, <3>1 DEF StopParser, AddBuf, ProcessChunk, ParserThread, SpuriousWakeups, lifeVars
  <2>2. /\ pstopper # "live" <=> pstopper' # "live"
        /\ pstopper = "joined" => pstopper' = "joined"
        /\ P!Housekeeping \/ (pworker = "check" => pworker' = "check")
        /\ P!Housekeeping \/ (pworker \in {"work", "drain"} => pworker' = pworker)
    BY <2>1, ParserRuns
  <2>3. CASE ParserThread
    <3>1. built >= 2 /\ ~InChunk /\ ~InChunk'
      BY <1>0, <2>3, BuiltParts DEF ParserThread, InChunk, parseVars
    <3>2. QED
      BY <1>0, <2>1, <2>2, <3>1, StandStill DEF dvars, StopInv
  <2>4. CASE ProcessChunk
    <3>1. pworker' \in {"work", "drain"} /\ built >= 2
      BY <1>0, <2>4, HandlerRuns DEF ProcessChunk, P!Handle, P!HandleBatch, P!HandleDrain, StopInv
    <3>2. QED
      BY <1>0, <2>1, <2>2, <3>1, StandStill DEF dvars, StopInv
  <2>5. CASE StopParser \/ AddBuf \/ SpuriousWakeups
    <3>1. InChunk' <=> InChunk
      BY <2>5 DEF StopParser, AddBuf, SpuriousWakeups, parseVars, InChunk
    <3>2. /\ pworker = "check" => pworker' = "check"
          /\ pworker \in {"work", "drain"} => pworker' = pworker
      BY <1>4, <2>5 DEF StopParser, AddBuf, SpuriousWakeups, P!NotifyStop, P!Join, P!Add, P!SpuriousWakeup,
                        P!Notified, pvars
    <3>3. QED
      BY <2>1, <2>2, <3>1, <3>2, StandStill DEF dvars, StopInv
  <2>6. QED
    BY <1>4, <2>3, <2>4, <2>5
<1>5. CASE StopDispatcher \/ PassOn \/ DispatchEvent \/ DispatcherThread
           \/ (SpuriousWakeups /\ D!SpuriousWakeup /\ UNCHANGED pvars)
  <2>1. /\ UNCHANGED <<built, failed, gone, pvars>>
        /\ \/ \E x \in Message : D!Add(x)
           \/ D!Handle \/ D!Housekeeping \/ D!SpuriousWakeup \/ D!NotifyStop \/ D!Join
    <3>1. PassOn => Head(parsed) \in Message
      BY HeadTailProperties DEF PassOn, FlowTypes
    <3>2. QED
      BY <1>5, <3>1 DEF StopDispatcher, PassOn, DispatchEvent, DispatcherThread, SpuriousWakeups, lifeVars
  <2>2. /\ dstopper # "live" <=> dstopper' # "live"
        /\ D!Housekeeping \/ (dworker = "check" => dworker' = "check")
    BY <2>1, DispatcherRuns
  <2>3. InChunk' => InChunk
    BY <1>5 DEF StopDispatcher, PassOn, DispatchEvent, DispatcherThread, SpuriousWakeups, parseVars, InChunk
  <2>4. built < 1 => dworker' = "check"
    <3>1. DispatcherThread => built >= 1
      BY <1>0, BuiltParts DEF DispatcherThread
    <3>2. D!Housekeeping => DispatcherThread \/ dworker # "check" \/ dworker' = "check"
      BY <1>5, HandlerRuns
         DEF StopDispatcher, PassOn, DispatchEvent, DispatcherThread, SpuriousWakeups, D!NotifyStop, D!Join,
             D!Add, D!SpuriousWakeup, D!Notified
    <3>3. QED
      BY <1>0, <2>2, <3>1, <3>2 DEF StopInv
  <2>5. QED
    BY <2>1, <2>2, <2>3, <2>4, StandStill DEF pvars, StopInv
<1>6. CASE VersionAssigned
  <2>1. UNCHANGED <<lifeVars, pvars, dvars>> /\ (InChunk' => InChunk)
    BY <1>6 DEF VersionAssigned, InChunk
  <2>2. QED
    BY <2>1, StandStill DEF lifeVars, pvars, dvars, StopInv
<1>7. QED
  BY <1>1, <1>2, <1>3, <1>4, <1>5, <1>6 DEF Next, SpuriousWakeups

-----------------------------------------------------------------------------
(* The numbers on their way.  All counts of chunks are within the stream.  *)
FlowInv == /\ FlowTypes
           /\ Processed \in Nat /\ Processed <= Delivered
           /\ NothingLostOnTheWay

LEMMA CompletedIs ==
    /\ CompletedBy(Len(Completed)) \in Nat
    /\ \A k \in 0 .. Len(Completed) : CompletedBy(k) \in 0 .. CompletedBy(Len(Completed))
    /\ \A k \in 1 .. Len(Completed) : CompletedBy(k - 1) <= CompletedBy(k)
<1>1. /\ Len(Completed) \in Nat /\ DOMAIN Completed = 1 .. Len(Completed)
      /\ \A k \in 1 .. Len(Completed) : Completed[k] \in Nat
      /\ \A i, j \in 1 .. Len(Completed) : i <= j => Completed[i] <= Completed[j]
  BY CompletedAssumption, LenProperties, ElementOfSeq
<1>2. ASSUME NEW k \in 0 .. Len(Completed)
      PROVE  CompletedBy(k) \in 0 .. CompletedBy(Len(Completed))
  BY <1>1 DEF CompletedBy
<1>3. ASSUME NEW k \in 1 .. Len(Completed) PROVE CompletedBy(k - 1) <= CompletedBy(k)
  <2>1. CASE k = 1
    BY <1>1, <2>1 DEF CompletedBy
  <2>2. CASE k # 1
    <3>1. k - 1 \in 1 .. Len(Completed) /\ k - 1 <= k
      BY <2>2
    <3>2. QED
      BY <1>1, <2>2, <3>1 DEF CompletedBy
  <2>3. QED
    BY <2>1, <2>2
<1>4. CompletedBy(Len(Completed)) \in Nat
  BY <1>1 DEF CompletedBy
<1>5. QED
  BY <1>2, <1>3, <1>4

(* What a chunk completes are messages.                                    *)
LEMMA ChunkHasMessages ==
    ASSUME NEW k \in DOMAIN Completed
    PROVE  Numbers(CompletedBy(k - 1), CompletedBy(k)) \in Seq(Message)
<1> DEFINE a == CompletedBy(k - 1)
           b == CompletedBy(k)
           n == CompletedBy(Len(Completed))
<1>1. k \in 1 .. Len(Completed) /\ k - 1 \in 0 .. Len(Completed) /\ k \in 0 .. Len(Completed)
  BY CompletedAssumption, LenProperties
<1>2. a \in Nat /\ b \in 0 .. n /\ n \in Nat /\ a <= b
  BY <1>1, CompletedIs
<1> HIDE DEF a, b, n
<1>3. b - a \in Nat /\ \A i \in 1 .. b - a : a + i \in 1 .. n
  BY <1>2
<1>4. \A i \in 1 .. b - a : a + i \in Message
  BY <1>3 DEF Message, n
<1>5. [i \in 1 .. b - a |-> a + i] \in Seq(Message)
  BY <1>3, <1>4, IsASeq
<1>6. QED
  BY <1>5 DEF Numbers, a, b

(* The counters, where a step leaves the parser's chunks alone.            *)
LEMMA Counts ==
    ASSUME FlowInv, NetInv
    PROVE  /\ Len(Backlog) \in Nat /\ Delivered \in 0 .. Len(Completed)
           /\ Len(Backlog) = Delivered - Processed
           /\ Processed \in 0 .. Len(Completed)
<1>1. Len(Completed) \in Nat
  BY CompletedAssumption, LenProperties
<1>2. Delivered \in 0 .. Len(Completed)
  BY <1>1 DEF NetInv, Delivered
<1>3. Backlog = Numbers(Processed, Delivered)
  BY DEF FlowInv, NothingLostOnTheWay
<1>4. Len(Backlog) = Delivered - Processed
  <2>1. Processed \in Nat /\ Delivered \in Nat /\ Processed <= Delivered
    BY <1>2 DEF FlowInv
  <2>2. Len(Numbers(Processed, Delivered)) = Delivered - Processed
    BY <2>1, NumbersAre
  <2>3. QED
    BY <1>3, <2>2
<1>5. QED
  BY <1>1, <1>2, <1>4 DEF FlowInv

(* Steps that pass nothing on.                                             *)
Quiet == UNCHANGED <<Processed, Pending, parsed, handed>>

LEMMA FlowKeeps ==
    ASSUME FlowInv, UNCHANGED <<Backlog, Pending, parsed, handed, Delivered>>, ParserInv', DispatcherInv'
    PROVE  FlowInv' /\ Quiet
  BY DEF FlowInv, FlowTypes, NothingLostOnTheWay, Processed, Quiet

(* The reader gives the next chunk to the parser.                          *)
LEMMA AddBufFlow == ASSUME FlowInv, NetInv, AddBuf PROVE FlowInv' /\ Quiet
<1>1. /\ reader = "add" /\ reader' = "check" /\ got' = got /\ P!Add(got)
      /\ UNCHANGED <<parsed, handed, dvars>>
  BY DEF AddBuf, S!Callback, S!Moves, parseVars
<1>2. got \in DOMAIN Completed
  BY <1>1, CompletedAssumption, LenProperties DEF NetInv
<1>3. ParserInv' /\ Backlog' = Append(Backlog, got)
  BY <1>1, <1>2, ParserAdds DEF FlowInv, FlowTypes
<1>4. DispatcherInv' /\ Pending' = Pending
  BY <1>1, DispatcherKeeps DEF FlowInv, FlowTypes
<1>5. got = Delivered + 1 /\ Delivered' = Delivered + 1
  BY <1>1, <1>2 DEF Delivered, NetInv
<1>6. /\ Len(Backlog) \in Nat /\ Delivered \in Nat /\ Processed \in Nat /\ Processed <= Delivered
      /\ Len(Backlog) = Delivered - Processed /\ Backlog = Numbers(Processed, Delivered)
  BY Counts DEF FlowInv, NothingLostOnTheWay
<1>7. Backlog' = Numbers(Processed, Delivered + 1)
  BY <1>3, <1>5, <1>6, NumbersGrow
<1>8. Processed' = Processed
  <2>1. Len(Numbers(Processed, Delivered + 1)) = (Delivered + 1) - Processed
    BY <1>6, NumbersAre
  <2>2. QED
    BY <1>5, <1>6, <1>7, <2>1 DEF Processed
<1>9. NothingLostOnTheWay'
  BY <1>1, <1>4, <1>5, <1>7, <1>8 DEF FlowInv, NothingLostOnTheWay
<1>10. QED
  BY <1>1, <1>3, <1>4, <1>5, <1>6, <1>8, <1>9 DEF FlowInv, FlowTypes, Quiet

(* The parser takes the chunk after those it has taken: the messages it    *)
(* completes follow all those that went before.                            *)
LEMMA ProcessFlow ==
    ASSUME FlowInv, NetInv, ProcessChunk
    PROVE  /\ FlowInv'
           /\ Processed \in Nat /\ P!Current = Processed + 1 /\ Processed' = Processed + 1
           /\ Pending' = Pending
<1>1. /\ P!Handle /\ parsed = <<>>
      /\ parsed' = Numbers(CompletedBy(P!Current - 1), CompletedBy(P!Current))
      /\ UNCHANGED <<got, reader, handed, dvars>>
  BY DEF ProcessChunk, InChunk, socketVars, readerVars
<1>2. /\ ParserInv' /\ Backlog # <<>> /\ P!Current = Head(Backlog) /\ Backlog' = Tail(Backlog)
      /\ P!Current \in DOMAIN Completed
  BY <1>1, ParserTakes DEF FlowInv, FlowTypes
<1>3. DispatcherInv' /\ Pending' = Pending
  BY <1>1, DispatcherKeeps DEF FlowInv, FlowTypes
<1>4. /\ Delivered \in Nat /\ Processed \in Nat /\ Processed <= Delivered /\ Delivered' = Delivered
      /\ Backlog = Numbers(Processed, Delivered)
  BY <1>1, Counts DEF FlowInv, NothingLostOnTheWay, Delivered
<1>5. Processed < Delivered /\ P!Current = Processed + 1 /\ Backlog' = Numbers(Processed + 1, Delivered)
  BY <1>2, <1>4, NumbersTaken
<1>6. Processed' = Processed + 1
  <2>1. Len(Numbers(Processed + 1, Delivered)) = Delivered - (Processed + 1)
    <3>1. Processed + 1 \in Nat /\ Processed + 1 <= Delivered
      BY <1>4, <1>5
    <3>2. QED
      BY <1>4, <3>1, NumbersAre
  <2>2. QED
    BY <1>4, <1>5, <2>1 DEF Processed
<1> DEFINE a == CompletedBy(Processed)
           b == CompletedBy(Processed + 1)
<1>7. parsed' = Numbers(a, b) /\ parsed' \in Seq(Message) /\ a \in Nat /\ b \in Nat /\ a <= b
  <2>1. P!Current - 1 = Processed
    BY <1>4, <1>5
  <2>2. P!Current \in 1 .. Len(Completed) /\ Processed \in 0 .. Len(Completed)
    BY <1>2, <1>4, <1>5, CompletedAssumption, LenProperties
  <2>3. CompletedBy(P!Current) \in Nat /\ a \in Nat /\ CompletedBy(P!Current - 1) <= CompletedBy(P!Current)
    BY <2>2, CompletedIs
  <2>4. parsed' \in Seq(Message)
    BY <1>1, <1>2, ChunkHasMessages
  <2>5. QED
    BY <1>1, <1>5, <2>1, <2>3, <2>4
<1>8. (handed \o Pending) \o parsed = handed \o Pending
  <2>1. handed \o Pending \in Seq(Message)
    BY ConcatProperties DEF FlowInv, FlowTypes, DispatcherInv, D!TypeOK, Pending
  <2>2. QED
    BY <1>1, <2>1, ConcatEmptySeq
<1>9. handed \o Pending = Numbers(0, a)
  BY <1>8 DEF FlowInv, NothingLostOnTheWay
<1>10. (handed \o Pending) \o parsed' = Numbers(0, b)
  BY <1>7, <1>9, NumbersGoOn
<1>11. NothingLostOnTheWay'
  BY <1>1, <1>3, <1>4, <1>5, <1>6, <1>10 DEF NothingLostOnTheWay
<1>12. QED
  BY <1>1, <1>2, <1>3, <1>4, <1>5, <1>6, <1>7, <1>11 DEF FlowInv, FlowTypes

(* The parser passes a message on.                                         *)
LEMMA PassOnFlow == ASSUME FlowInv, PassOn PROVE FlowInv' /\ Processed' = Processed
<1>1. /\ parsed # <<>> /\ D!Add(Head(parsed)) /\ parsed' = Tail(parsed)
      /\ UNCHANGED <<got, reader, handed, pvars>>
  BY DEF PassOn, socketVars, readerVars
<1>2. parsed \in Seq(Message) /\ handed \in Seq(Message) /\ Pending \in Seq(Message)
  BY ConcatProperties DEF FlowInv, FlowTypes, DispatcherInv, D!TypeOK, Pending
<1>3. Head(parsed) \in Message /\ parsed' \in Seq(Message)
  BY <1>1, <1>2, HeadTailProperties
<1>4. DispatcherInv' /\ Pending' = Append(Pending, Head(parsed))
  BY <1>1, <1>3, DispatcherAdds DEF FlowInv, FlowTypes
<1>5. ParserInv' /\ Backlog' = Backlog
  BY <1>1, ParserKeeps DEF FlowInv, FlowTypes
<1>6. (handed \o Pending') \o parsed' = (handed \o Pending) \o parsed
  <2>1. handed \o Pending \in Seq(Message)
    BY <1>2, ConcatProperties
  <2>2. handed \o Pending' = Append(handed \o Pending, Head(parsed))
    BY <1>2, <1>3, <1>4, AppendBehind
  <2>3. Append(handed \o Pending, Head(parsed)) \o Tail(parsed) = (handed \o Pending) \o parsed
    BY <1>1, <1>2, <2>1, HeadMovesOver
  <2>4. QED
    BY <1>1, <2>2, <2>3
<1>7. Delivered' = Delivered /\ Processed' = Processed
  BY <1>1, <1>5 DEF Delivered, Processed
<1>8. QED
  BY <1>1, <1>3, <1>4, <1>5, <1>6, <1>7 DEF FlowInv, FlowTypes, NothingLostOnTheWay

(* The dispatcher handles a message.                                       *)
LEMMA DispatchFlow ==
    ASSUME FlowInv, DispatchEvent PROVE FlowInv' /\ Pending # <<>> /\ Processed' = Processed
<1>1. /\ D!Handle /\ handed' = Append(handed, D!Current)
      /\ UNCHANGED <<got, reader, parsed, pvars>>
  BY DEF DispatchEvent, socketVars, readerVars, parseVars
<1>2. parsed \in Seq(Message) /\ handed \in Seq(Message) /\ Pending \in Seq(Message)
  BY ConcatProperties DEF FlowInv, FlowTypes, DispatcherInv, D!TypeOK, Pending
<1>3. /\ DispatcherInv' /\ Pending # <<>> /\ D!Current = Head(Pending) /\ Pending' = Tail(Pending)
      /\ D!Current \in Message
  BY <1>1, DispatcherTakes DEF FlowInv, FlowTypes
<1>4. ParserInv' /\ Backlog' = Backlog
  BY <1>1, ParserKeeps DEF FlowInv, FlowTypes
<1>5. handed' \in Seq(Message) /\ handed' \o Pending' = handed \o Pending
  BY <1>1, <1>2, <1>3, AppendProperties, HeadMovesOver
<1>6. Delivered' = Delivered /\ Processed' = Processed
  BY <1>1, <1>4 DEF Delivered, Processed
<1>7. QED
  BY <1>1, <1>3, <1>4, <1>5, <1>6 DEF FlowInv, FlowTypes, NothingLostOnTheWay

(* Whatever else happens leaves the numbers where they are.                *)
LEMMA FlowStep ==
    ASSUME SocketInv, LifeInv, NetInv, FlowInv, [Next]_vars
    PROVE  FlowInv' /\ (Quiet \/ ProcessChunk \/ PassOn \/ DispatchEvent)
<1>1. ASSUME P!Housekeeping \/ P!SpuriousWakeup \/ P!Stop \/ UNCHANGED pvars,
             D!Housekeeping \/ D!SpuriousWakeup \/ D!Stop \/ UNCHANGED dvars,
             UNCHANGED <<parsed, handed, Delivered>>
      PROVE  FlowInv' /\ Quiet
  BY <1>1, ParserKeeps, DispatcherKeeps, FlowKeeps DEF FlowInv, FlowTypes
<1>2. CASE OpenSocket \/ Network \/ StopReader \/ ReaderThrows \/ BuildThrows \/ Over \/ UNCHANGED vars
  <2>1. UNCHANGED threadVars /\ got' = got /\ (reader' = "add" <=> reader = "add")
    <3>1. CASE ReaderThrows
      BY <3>1 DEF ReaderThrows, S!ReadThrows, S!Moves
    <3>2. CASE OpenSocket \/ Network \/ StopReader \/ BuildThrows \/ Over \/ UNCHANGED vars
      BY <3>2 DEF OpenSocket, S!Open, S!Socket, S!GetAddrInfo, S!CheckAddress, S!Connect, S!RunGuard,
                  S!Construct, S!OpenThrows, S!AcceptArguments, S!RejectArguments, S!LeavesOpen,
                  Network, S!Network, StopReader, S!JoinReader, BuildThrows, Over, vars,
                  socketVars, readerVars, S!readerVars
    <3>3. QED
      BY <1>2, <3>1, <3>2
  <2>2. QED
    BY <1>1, <2>1 DEF threadVars, parseVars, Delivered
<1>3. CASE Build
  <2>1. /\ UNCHANGED threadVars /\ got' = got /\ built \in 0 .. 3
        /\ reader' = reader \/ (BuildOrder[built + 1] = "reader_" /\ reader' = "check")
    BY <1>3, Teardown DEF Build, SocketInv, OwnerInv
  <2>2. BuildOrder[built + 1] = "reader_" => reader = "none"
    BY <2>1 DEF BuildOrder, LifeInv
  <2>3. QED
    BY <1>1, <2>1, <2>2 DEF threadVars, parseVars, Delivered
<1>4. CASE Reset
  <2>1. /\ UNCHANGED <<got, reader, parsed, handed>>
        /\ P!Stop \/ UNCHANGED pvars
        /\ D!Stop \/ UNCHANGED dvars
    BY <1>4, Zenon DEF Reset, parseVars, P!Stop, D!Stop
  <2>2. QED
    BY <1>1, <2>1 DEF Delivered
<1>5. CASE ReaderThread
  <2>1. CASE S!RecvData
    BY <1>1, <1>5, <2>1 DEF ReaderThread, S!RecvData, S!Moves, threadVars, parseVars, Delivered, NetInv
  <2>2. CASE S!CheckSpin \/ S!PollTimesOut \/ S!PollReadable \/ S!PollHangup \/ S!RecvEnd
    <3>1. UNCHANGED threadVars /\ got' = got /\ reader # "add" /\ reader' # "add"
      BY <1>5, <2>2 DEF ReaderThread, S!CheckSpin, S!PollTimesOut, S!PollReadable, S!PollHangup,
                        S!RecvEnd, S!Moves
    <3>2. QED
      BY <1>1, <3>1 DEF threadVars, parseVars, Delivered
  <2>3. QED
    BY <1>5, <2>1, <2>2 DEF ReaderThread, S!Read
<1>6. CASE StopParser \/ StopDispatcher \/ ParserThread \/ DispatcherThread \/ SpuriousWakeups
           \/ VersionAssigned
  <2>1. /\ UNCHANGED <<got, reader, parsed, handed>>
        /\ P!Housekeeping \/ P!SpuriousWakeup \/ P!Stop \/ UNCHANGED pvars
        /\ D!Housekeeping \/ D!SpuriousWakeup \/ D!Stop \/ UNCHANGED dvars
    BY <1>6, Zenon DEF StopParser, StopDispatcher, ParserThread, DispatcherThread, SpuriousWakeups,
                VersionAssigned, parseVars, socketVars, readerVars, P!Stop, D!Stop
  <2>2. QED
    BY <1>1, <2>1 DEF Delivered
<1>7. QED
  BY <1>2, <1>3, <1>4, <1>5, <1>6, AddBufFlow, ProcessFlow, PassOnFlow, DispatchFlow DEF Next

-----------------------------------------------------------------------------
(* All of it, from the opening of the socket on.                           *)
PipelineInv == SocketInv /\ LifeInv /\ NetInv /\ FlowInv /\ StopInv

LEMMA InitPipeline == Init => PipelineInv
<1> SUFFICES ASSUME Init PROVE PipelineInv
  OBVIOUS
<1>1. /\ opening = "socket" /\ owners = {} /\ conn = "up" /\ sent = 0 /\ got = 0 /\ reader = "none"
      /\ thread_spin_ = FALSE /\ built = 0 /\ failed = FALSE /\ gone = 0
      /\ pqueue = <<>> /\ pbatch = <<>> /\ pworker = "check" /\ prun = TRUE /\ pstopper = "live"
      /\ dqueue = <<>> /\ dbatch = <<>> /\ dworker = "check" /\ drun = TRUE /\ dstopper = "live"
      /\ parsed = <<>> /\ ami_version_ = "empty" /\ handed = <<>>
  BY DEF Init, S!Init, P!Init, D!Init
<1>2. LifeInv
  <2>1. /\ failed \in BOOLEAN /\ ~failed
        /\ thread_spin_ \in BOOLEAN /\ ~thread_spin_ /\ reader \in S!ReaderStates
    BY <1>1 DEF S!ReaderStates
  <2>2. ~(built >= 3) /\ built < 3 /\ ~(gone > 0) /\ gone \in 0 .. 4
    BY <1>1
  <2>3. QED
    BY <1>1, <2>1, <2>2, Zenon DEF LifeInv
<1>3. NetInv
  BY <1>1, CompletedAssumption, LenProperties DEF NetInv
<1>4. FlowTypes
  BY <1>1, EmptySeq DEF FlowTypes, ParserInv, P!TypeOK, P!DoneMeansDrained, P!WorkerStates,
     P!StopperStates, DispatcherInv, D!TypeOK, D!DoneMeansDrained, D!WorkerStates, D!StopperStates
<1>5. Backlog = <<>> /\ Pending = <<>> /\ (handed \o Pending) \o parsed = <<>>
  BY <1>1, EmptySeq, ConcatEmptySeq DEF Backlog, Pending
<1>6. Delivered = 0 /\ Processed = 0
  <2>1. Len(Backlog) = 0
    BY <1>5
  <2>2. QED
    BY <1>1, <2>1 DEF Delivered, Processed
<1>7. Numbers(0, 0) = <<>> /\ CompletedBy(0) = 0
  BY NumbersAre, EmptySeq DEF CompletedBy
<1>8. FlowInv
  <2>1. NothingLostOnTheWay
    BY <1>5, <1>6, <1>7 DEF NothingLostOnTheWay
  <2>2. QED
    BY <1>4, <1>6, <2>1 DEF FlowInv
<1>9. StopInv
  BY <1>1 DEF StopInv, ParserReset, ParserDeleted, DispatcherReset, InChunk
<1>10. QED
  BY <1>2, <1>3, <1>8, <1>9, InitSocket DEF PipelineInv

LEMMA PipelineStep == PipelineInv /\ [Next]_vars => PipelineInv'
<1> SUFFICES ASSUME PipelineInv, [Next]_vars PROVE PipelineInv'
  OBVIOUS
<1>1. FlowInv'
  BY FlowStep DEF PipelineInv
<1>2. QED
  BY <1>1, SocketInvStep, LifeStep, NetStep, StopStep DEF PipelineInv, FlowInv

(* The five parts of the invariant hold together of every behaviour.       *)
THEOREM PipelineInvariance == Spec => []PipelineInv
  BY InitPipeline, PipelineStep, PTL DEF Spec

-----------------------------------------------------------------------------
(* The version is assigned with the first chunk, before anything of it     *)
(* leaves the parser.                                                      *)
VersionInv ==
    /\ ami_version_ \in {"empty", "assigning", "version"}
    /\ ami_version_ = "empty" <=> Processed = 0
    /\ ami_version_ = "empty" => parsed = <<>>
    /\ ami_version_ # "version" => Pending = <<>> /\ handed = <<>>

LEMMA VersionStep ==
    ASSUME PipelineInv, VersionInv, [Next]_vars
    PROVE  VersionInv'
<1>1. Quiet \/ ProcessChunk \/ PassOn \/ DispatchEvent
  BY FlowStep DEF PipelineInv
<1>2. CASE ProcessChunk
  <2>1. /\ Processed \in Nat /\ P!Current = Processed + 1 /\ Processed' = Processed + 1
        /\ Pending' = Pending
    BY <1>2, ProcessFlow DEF PipelineInv
  <2>2. /\ ami_version_ # "assigning" /\ handed' = handed
        /\ ami_version_' = IF P!Current = 1 THEN "assigning" ELSE ami_version_
    BY <1>2 DEF ProcessChunk, InChunk
  <2>3. QED
    BY <2>1, <2>2 DEF VersionInv
<1>3. CASE PassOn
  <2>1. Processed' = Processed /\ ami_version_ # "assigning" /\ parsed # <<>> /\ ami_version_' = ami_version_
    BY <1>3, PassOnFlow DEF PipelineInv, PassOn
  <2>2. QED
    BY <2>1 DEF VersionInv
<1>4. CASE DispatchEvent
  <2>1. Processed' = Processed /\ Pending # <<>> /\ parsed' = parsed /\ ami_version_' = ami_version_
    BY <1>4, DispatchFlow DEF PipelineInv, DispatchEvent, parseVars
  <2>2. QED
    BY <2>1 DEF VersionInv
<1>5. CASE Quiet
  <2>1. ami_version_' = ami_version_ \/ (ami_version_ = "assigning" /\ ami_version_' = "version")
             \/ ProcessChunk
    BY DEF Next, OpenSocket, Build, BuildThrows, Reset, StopReader, StopParser, StopDispatcher, Network,
           ReaderThread, ReaderThrows, AddBuf, VersionAssigned, PassOn, ParserThread, DispatchEvent,
           DispatcherThread, SpuriousWakeups, Over, vars, threadVars, parseVars
  <2>2. QED
    BY <1>2, <1>5, <2>1 DEF VersionInv, Quiet
<1>6. QED
  BY <1>1, <1>2, <1>3, <1>4, <1>5

LEMMA InitVersion == Init => VersionInv
<1> SUFFICES ASSUME Init PROVE VersionInv
  OBVIOUS
<1>1. /\ pqueue = <<>> /\ pbatch = <<>> /\ dqueue = <<>> /\ dbatch = <<>> /\ handed = <<>>
      /\ got = 0 /\ reader = "none" /\ parsed = <<>> /\ ami_version_ = "empty"
  BY DEF Init, S!Init, P!Init, D!Init
<1>2. Len(Backlog) = 0 /\ Pending = <<>>
  BY <1>1, EmptySeq, ConcatEmptySeq DEF Backlog, Pending
<1>3. Processed = 0
  BY <1>1, <1>2 DEF Processed, Delivered
<1>4. QED
  BY <1>1, <1>2, <1>3 DEF VersionInv

(* With them, so does the version's.                                       *)
THEOREM VersionInvariance == Spec => []VersionInv
<1>1. PipelineInv /\ VersionInv /\ [Next]_vars => VersionInv'
  BY VersionStep
<1>2. QED
  BY <1>1, InitVersion, PipelineInvariance, PTL DEF Spec

(* Connection.hpp, get_ami_version: whatever the chunks complete and the   *)
(* threads do, the version has been assigned for good before the first     *)
(* message reaches the dispatcher.                                         *)
THEOREM VersionFirst == Spec => []VersionKnownOnceHandled
<1>1. VersionInv => VersionKnownOnceHandled
  BY DEF VersionInv, VersionKnownOnceHandled, GetAmiVersion
<1>2. QED
  BY <1>1, VersionInvariance, PTL

-----------------------------------------------------------------------------
(* Types of socket, threads and messages; and the flags of the three       *)
(* threads against the life of their parts.                                *)
LEMMA TypesFit == ASSUME PipelineInv, VersionInv PROVE TypeOK
<1> USE DEF PipelineInv
<1>1. S!TypeOK
  <2>1. /\ guards \in {NoGuard, OneGuard, BothGuards}
        /\ descriptor \in {"none", "open", "closed", "closed again"}
        /\ addrinfo \in S!Families \cup {"none", "freed", "freed again"}
        /\ opening \in S!OpenStates /\ sock_fd \in BOOLEAN /\ sock_fd_ \in BOOLEAN
    BY DEF SocketInv, OpenInv, S!OpenStates
  <2>2. QED
    BY <2>1 DEF S!TypeOK, LifeInv, NetInv, NoGuard, OneGuard, BothGuards
<1>2. P!TypeOK /\ D!TypeOK /\ parsed \in Seq(Message) /\ handed \in Seq(Message)
  BY DEF FlowInv, FlowTypes, ParserInv, DispatcherInv
<1>3. built \in 0 .. Len(BuildOrder) /\ failed \in BOOLEAN /\ gone \in 0 .. Len(TeardownOrder)
  BY Teardown DEF SocketInv, OwnerInv, LifeInv
<1>4. /\ thread_spin_ <=> "reader_" \in Parts
      /\ pstopper # "live" <=> "stream_parser_" \in Built \ Parts
      /\ dstopper # "live" <=> "dispatcher_" \in Built \ Parts
  BY PartsAre DEF StopInv, LifeInv
<1>5. QED
  BY <1>1, <1>2, <1>3, <1>4 DEF TypeOK, VersionInv

(* All of Pipeline's state is well typed.                                  *)
THEOREM Typing == Spec => []TypeOK
<1>1. PipelineInv /\ VersionInv => TypeOK
  BY TypesFit
<1>2. QED
  BY <1>1, PipelineInvariance, VersionInvariance, PTL

(* The parser is there while the reader adds a chunk, and the dispatcher   *)
(* while the parser has messages in hand.                                  *)
LEMMA PartsFound == ASSUME PipelineInv PROVE CallbacksFindTheirParts
<1> USE DEF PipelineInv
<1>1. built \in 0 .. 4 /\ gone \in 0 .. 4 /\ (failed => built <= 2)
  BY DEF SocketInv, OwnerInv, LifeInv
<1>2. /\ "stream_parser_" \in Parts <=> built >= 2 /\ ~ParserReset
      /\ "dispatcher_" \in Parts <=> built >= 1 /\ ~DispatcherReset
  BY <1>1, PartsAre, BuiltParts DEF Parts, ParserReset, DispatcherReset
<1>3. reader = "add" => built >= 3 /\ gone < 2
  BY <1>1 DEF SocketInv, OwnerInv, LifeInv
<1>4. InChunk => built >= 2 /\ ~ParserDeleted
  BY <1>1 DEF StopInv, FlowInv, FlowTypes, ParserInv, P!TypeOK
<1>5. QED
  BY <1>1, <1>2, <1>3, <1>4 DEF CallbacksFindTheirParts, ParserReset, ParserDeleted, DispatcherReset

(* ~Connection: "Make sure objects get deleted in correct order".  No      *)
(* callback finds a null pointer, whatever is destroyed with the threads   *)
(* running, and wherever the constructor throws.                           *)
THEOREM PartsOutliveCallbacks == Spec => []CallbacksFindTheirParts
<1>1. PipelineInv => CallbacksFindTheirParts
  BY PartsFound
<1>2. QED
  BY <1>1, PipelineInvariance, PTL

(* Between the socket and the handlers of messages nothing is lost,        *)
(* repeated or reordered, for any stream and any cutting of it.            *)
THEOREM InOrder == Spec => []NothingLostOnTheWay
<1>1. PipelineInv => NothingLostOnTheWay
  BY DEF PipelineInv, FlowInv
<1>2. QED
  BY <1>1, PipelineInvariance, PTL

(* After the destructor both work threads have ended and drained; after a  *)
(* constructor that has thrown nothing was ever read.                      *)
LEMMA AllFinished ==
    ASSUME PipelineInv, Destroyed
    PROVE  /\ handed = Numbers(0, CompletedBy(got))
           /\ reader \in {"none", "done"} /\ descriptor = "closed"
<1> USE DEF PipelineInv
<1>1. /\ built \in 0 .. 4 /\ gone = 4 /\ (built = 4 \/ failed) /\ (failed => built <= 2)
      /\ Deleted(TeardownOrder[gone])
  BY Teardown DEF Destroyed, SocketInv, OwnerInv, LifeInv
<1>2. owners = {}
  BY <1>1 DEF LifeInv
<1>3. reader \in {"none", "done"} /\ (failed => reader = "none")
  BY <1>1, <1>2 DEF LifeInv
<1>4. descriptor = "closed"
  BY <1>1, <1>2 DEF SocketInv, OwnerInv, OpenInv, S!OpenStates
<1>5. CASE failed
  <2>1. got = 0 /\ Delivered = 0
    BY <1>3, <1>5 DEF NetInv, Delivered
  <2>2. Processed = 0
    BY <2>1 DEF FlowInv
  <2>3. Numbers(0, CompletedBy(0)) = <<>>
    BY NumbersAre, EmptySeq DEF CompletedBy
  <2>4. (handed \o Pending) \o parsed = <<>>
    BY <2>2, <2>3 DEF FlowInv, NothingLostOnTheWay
  <2>5. handed = <<>>
    <3>1. handed \in Seq(Message) /\ Pending \in Seq(Message) /\ parsed \in Seq(Message)
      BY ConcatProperties DEF FlowInv, FlowTypes, DispatcherInv, D!TypeOK, Pending
    <3>2. handed \o Pending \in Seq(Message)
      BY <3>1, ConcatProperties
    <3>3. handed \o Pending = <<>>
      BY <2>4, <3>1, <3>2, ConcatEqualIffEmpty
    <3>4. QED
      BY <3>1, <3>3, ConcatEqualIffEmpty
  <2>6. QED
    BY <1>3, <1>4, <2>1, <2>3, <2>5
<1>6. CASE ~failed
  <2>1. built = 4 /\ dstopper = "joined" /\ pstopper = "joined"
    <3>1. built = 4 /\ TeardownOrder[gone] = "dispatcher_"
      BY <1>1, <1>6, Teardown
    <3>2. QED
      BY <1>1, <1>6, <3>1, BuiltParts DEF Deleted, StopInv, ParserDeleted
  <2>2. pworker = "done" /\ dworker = "done"
    BY <2>1 DEF FlowInv, FlowTypes, ParserInv, P!TypeOK, DispatcherInv, D!TypeOK
  <2>3. /\ parsed = <<>> /\ pqueue = <<>> /\ pbatch = <<>> /\ dqueue = <<>> /\ dbatch = <<>>
        /\ handed \in Seq(Message)
    BY <2>2 DEF StopInv, InChunk, FlowInv, FlowTypes, ParserInv, P!DoneMeansDrained, DispatcherInv,
                D!DoneMeansDrained
  <2>4. Len(Backlog) = 0 /\ Pending = <<>>
    BY <2>3, EmptySeq, ConcatEmptySeq DEF Backlog, Pending
  <2>5. Processed = got
    BY <1>3, <2>4 DEF Processed, Delivered, NetInv
  <2>6. (handed \o Pending) \o parsed = handed
    BY <2>3, <2>4, ConcatEmptySeq
  <2>7. QED
    BY <1>3, <1>4, <2>5, <2>6 DEF FlowInv, NothingLostOnTheWay
<1>7. QED
  BY <1>5, <1>6

(* A Connection that has been destroyed, or whose constructor has thrown   *)
(* with a socket open, has dispatched all that was read; no thread reads,  *)
(* and the descriptor is closed.                                           *)
THEOREM DestroyedFinished == Spec => []DestroyedMeansFinished
<1>1. PipelineInv => DestroyedMeansFinished
  BY AllFinished DEF DestroyedMeansFinished
<1>2. QED
  BY <1>1, PipelineInvariance, PTL
================================================================================
