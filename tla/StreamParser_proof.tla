-------------------------- MODULE StreamParser_proof ---------------------------
(***************************************************************************)
(* The parser, for any streams and however the reads chop them up: no      *)
(* complete message stays in its buffer, the version is the banner line,   *)
(* and messages come out as Framer says.                                   *)
(*                                                                         *)
(* What carries the proofs is SearchInv: eom_loc is where the first end of *)
(* message in the buffer ends, although process_chunk only looks at the    *)
(* new chunk and the three bytes before it (ScanResumes).                  *)
(***************************************************************************)
EXTENDS StreamParser, SequenceTheorems, WellFoundedInduction, TLAPS

\* The chunks not yet processed, in the order in which they will be.
Chunks == stream_chunks \o stream_chunks_

SearchInv == eom_loc = F!EndOfFirst(F!EOM, event_buf_[1], event_buf_[2])

FreshInv == first_event_ => event_buf_ = <<0, 0>> /\ dispatched = <<>>

Inv == TypeOK /\ SearchInv /\ FreshInv

\* Of a first read that holds the banner line.
BannerInv ==
    /\ first_event_ /\ Chunks # <<>> => F!Banner <= Head(Chunks)[2]
    /\ ~first_event_ => version = <<0, F!Banner - 2>> /\ event_buf_[1] = F!Delivered

-----------------------------------------------------------------------------
(* The end of the first mark in a piece of the stream.                     *)
LEMMA LeastOf ==
    ASSUME NEW S \in SUBSET Nat, S # {}
    PROVE  \E m \in S : \A n \in S : m <= n
<1>1. IsWellFoundedOn({ss \in Nat \X Nat : ss[1] < ss[2]}, Nat)
  BY NatLessThanWellFounded DEF OpToRel
<1>2. PICK m \in S : \A n \in S : ~(<<n, m>> \in {ss \in Nat \X Nat : ss[1] < ss[2]})
  BY <1>1, WFMin
<1>3. \A n \in S : ~(n < m)
  BY <1>2
<1>4. QED
  BY <1>3

LEMMA Marks == Len(F!EOR) = 2 /\ Len(F!EOM) = 4
  BY DEF F!EOR, F!EOM

LEMMA FirstEnd ==
    ASSUME NEW mark, Len(mark) \in Nat \ {0}, NEW from \in Nat, NEW to \in Nat
    PROVE  /\ F!EndOfFirst(mark, from, to) \in {NPos} \cup from + Len(mark) .. to
           /\ F!EndOfFirst(mark, from, to) = NPos => F!Ends(mark, from, to) = {}
           /\ F!EndOfFirst(mark, from, to) # NPos =>
                  /\ F!EndOfFirst(mark, from, to) \in F!Ends(mark, from, to)
                  /\ \A q \in F!Ends(mark, from, to) : F!EndOfFirst(mark, from, to) <= q
<1> DEFINE ends == F!Ends(mark, from, to)
<1>1. ends \subseteq from + Len(mark) .. to
  BY DEF F!Ends
<1>2. NPos = 0
  BY DEF NPos, F!NPos
<1>3. CASE ends = {}
  BY <1>3 DEF F!EndOfFirst, NPos
<1>4. CASE ends # {}
  <2>1. ends \in SUBSET Nat
    BY <1>1
  <2>2. \E p \in ends : \A q \in ends : p <= q
    BY <1>4, <2>1, LeastOf
  <2>3. F!EndOfFirst(mark, from, to) = CHOOSE p \in ends : \A q \in ends : p <= q
    BY <1>4 DEF F!EndOfFirst
  <2>4. /\ F!EndOfFirst(mark, from, to) \in ends
        /\ \A q \in ends : F!EndOfFirst(mark, from, to) <= q
    BY <2>2, <2>3
  <2>5. F!EndOfFirst(mark, from, to) # NPos
    BY <1>1, <1>2, <2>4
  <2>6. QED
    BY <1>1, <2>4, <2>5
<1>5. QED
  BY <1>3, <1>4

LEMMA EndIs ==
    ASSUME NEW mark, Len(mark) \in Nat \ {0}, NEW from \in Nat, NEW to \in Nat,
           NEW e \in F!Ends(mark, from, to), \A q \in F!Ends(mark, from, to) : e <= q
    PROVE  F!EndOfFirst(mark, from, to) = e
<1>1. F!EndOfFirst(mark, from, to) # NPos
  BY FirstEnd
<1>2. /\ F!EndOfFirst(mark, from, to) \in F!Ends(mark, from, to)
      /\ F!EndOfFirst(mark, from, to) <= e /\ e <= F!EndOfFirst(mark, from, to)
  BY <1>1, FirstEnd
<1>3. F!Ends(mark, from, to) \subseteq Nat
  BY DEF F!Ends
<1>4. QED
  BY <1>2, <1>3

(* More of the stream has no earlier end.                                  *)
LEMMA MoreRead ==
    ASSUME NEW mark, Len(mark) \in Nat \ {0}, NEW from \in Nat, NEW to \in Nat,
           NEW more \in Nat, to <= more, F!EndOfFirst(mark, from, to) # NPos
    PROVE  F!EndOfFirst(mark, from, more) = F!EndOfFirst(mark, from, to)
<1> DEFINE e == F!EndOfFirst(mark, from, to)
<1>1. e \in F!Ends(mark, from, to) /\ \A q \in F!Ends(mark, from, to) : e <= q
  BY FirstEnd
<1> HIDE DEF e
<1>2. e \in from + Len(mark) .. to /\ e \in F!Ends(mark, from, more)
  BY <1>1 DEF F!Ends
<1>3. ASSUME NEW q \in F!Ends(mark, from, more) PROVE e <= q
  BY <1>1, <1>2 DEF F!Ends
<1>4. F!EndOfFirst(mark, from, more) = e
  BY <1>2, <1>3, EndIs
<1>5. QED
  BY <1>4 DEF e

(* Backing off three bytes from the boundary between a piece in which no   *)
(* message ends and the chunk behind it finds what a search of both finds. *)
LEMMA ScanResumes ==
    ASSUME NEW from \in Nat, NEW to \in Nat, NEW more \in Nat, from <= to, to <= more,
           F!Ends(F!EOM, from, to) = {}
    PROVE  F!EndOfFirst(F!EOM, ScanStart(<<from, to>>), more) = F!EndOfFirst(F!EOM, from, more)
<1> DEFINE start == ScanStart(<<from, to>>)
<1>0. Len(F!EOM) \in Nat \ {0}
  BY Marks
<1>1. start \in Nat /\ from <= start /\ (start = from \/ start + 4 = to + 1)
  BY Marks DEF ScanStart, Length
<1> HIDE DEF start
<1>2. ASSUME NEW p \in F!Ends(F!EOM, from, more) PROVE p \in F!Ends(F!EOM, start, more)
  <2>1. p \in from + 4 .. more /\ ~(p \in from + 4 .. to)
    BY Marks DEF F!Ends
  <2>2. p \in start + 4 .. more
    BY <1>1, <2>1
  <2>3. QED
    BY <2>2, Marks DEF F!Ends
<1>3. ASSUME NEW p \in F!Ends(F!EOM, start, more) PROVE p \in F!Ends(F!EOM, from, more)
  <2>1. p \in from + 4 .. more
    BY <1>1, Marks DEF F!Ends
  <2>2. QED
    BY <2>1, Marks DEF F!Ends
<1>4. F!Ends(F!EOM, start, more) = F!Ends(F!EOM, from, more)
  BY <1>2, <1>3
<1>5. F!EndOfFirst(F!EOM, start, more) = F!EndOfFirst(F!EOM, from, more)
  <2>1. CASE F!EndOfFirst(F!EOM, from, more) = NPos
    <3>1. F!Ends(F!EOM, start, more) = {}
      BY <1>0, <1>4, <2>1, FirstEnd, Zenon
    <3>2. QED
      BY <2>1, <3>1 DEF F!EndOfFirst, NPos
  <2>2. CASE F!EndOfFirst(F!EOM, from, more) # NPos
    <3>1. /\ F!EndOfFirst(F!EOM, from, more) \in F!Ends(F!EOM, start, more)
          /\ \A q \in F!Ends(F!EOM, start, more) : F!EndOfFirst(F!EOM, from, more) <= q
      BY <1>0, <1>4, <2>2, FirstEnd, Zenon
    <3>2. QED
      BY <1>0, <1>1, <3>1, EndIs, Zenon
  <2>3. QED
    BY <2>1, <2>2
<1>6. QED
  BY <1>5 DEF start

(* Nothing ends in what is empty.                                          *)
LEMMA NoEndInNothing ==
    ASSUME NEW at \in Nat
    PROVE  F!EndOfFirst(F!EOM, at, at) = NPos
<1>1. F!Ends(F!EOM, at, at) = {}
  BY Marks DEF F!Ends
<1>2. QED
  BY <1>1 DEF F!EndOfFirst, NPos

(* The banner line is there, and ends where the first line of any piece    *)
(* that holds it does.                                                     *)
LEMMA BannerThere ==
    ASSUME stream \in Streams
    PROVE  /\ Len(stream) \in Nat /\ F!Banner \in 2 .. Len(stream)
           /\ \A to \in F!Banner .. Len(stream) : F!EndOfFirst(F!EOR, 0, to) = F!Banner
<1>1. stream \in Seq(F!Byte)
  BY StreamsAssumption
<1>2. PICK p \in 2 .. Len(stream) : SubSeq(stream, p - 1, p) = F!EOR
  BY StreamsAssumption
<1>3. Len(stream) \in Nat
  BY <1>1, LenProperties
<1>4. p \in F!Ends(F!EOR, 0, Len(stream))
  <2>1. p - Len(F!EOR) + 1 = p - 1 /\ p \in 0 + Len(F!EOR) .. Len(stream)
    BY <1>2, <1>3, Marks
  <2>2. QED
    BY <1>2, <2>1 DEF F!Ends
<1>0. Len(F!EOR) \in Nat \ {0} /\ 0 \in Nat
  BY Marks
<1>5. /\ F!Banner \in F!Ends(F!EOR, 0, Len(stream))
      /\ \A q \in F!Ends(F!EOR, 0, Len(stream)) : F!Banner <= q
  <2>1. F!Ends(F!EOR, 0, Len(stream)) # {}
    BY <1>4
  <2>2. QED
    BY <1>0, <1>3, <2>1, FirstEnd, Zenon DEF F!Banner
<1>6. F!Banner \in 2 .. Len(stream)
  BY <1>3, <1>5, Marks DEF F!Ends
<1>7. ASSUME NEW to \in F!Banner .. Len(stream) PROVE F!EndOfFirst(F!EOR, 0, to) = F!Banner
  <2>1. F!Banner \in F!Ends(F!EOR, 0, to)
    BY <1>3, <1>5, <1>6, Marks DEF F!Ends
  <2>2. ASSUME NEW q \in F!Ends(F!EOR, 0, to) PROVE F!Banner <= q
    <3>1. q \in F!Ends(F!EOR, 0, Len(stream))
      BY <1>3, <1>6, Marks DEF F!Ends
    <3>2. QED
      BY <1>5, <3>1
  <2>3. to \in Nat
    BY <1>3, <1>6
  <2>4. QED
    BY <1>0, <2>1, <2>2, <2>3, EndIs, Zenon
<1>8. QED
  BY <1>3, <1>6, <1>7

-----------------------------------------------------------------------------
(* Two queues, one after the other: appending to the second, and taking    *)
(* from the first, append to and take from both together.                  *)
LEMMA AppendBehind ==
    ASSUME NEW T, NEW s \in Seq(T), NEW t \in Seq(T), NEW x \in T
    PROVE  s \o Append(t, x) = Append(s \o t, x)
<1>1. s \o t \in Seq(T) /\ <<x>> \in Seq(T)
  BY ConcatProperties
<1>2. Append(s \o t, x) = (s \o t) \o <<x>> /\ Append(t, x) = t \o <<x>>
  BY <1>1, AppendIsConcat
<1>3. QED
  BY <1>1, <1>2, ConcatAssociative

LEMMA TakeInFront ==
    ASSUME NEW T, NEW s \in Seq(T), NEW t \in Seq(T), s # <<>>
    PROVE  s \o t # <<>> /\ Head(s \o t) = Head(s) /\ Tail(s \o t) = Tail(s) \o t
<1>1. /\ s \o t \in Seq(T) /\ Len(s \o t) = Len(s) + Len(t)
      /\ \A i \in 1 .. Len(s) + Len(t) : (s \o t)[i] = IF i <= Len(s) THEN s[i] ELSE t[i - Len(s)]
  BY ConcatProperties
<1>2. Len(s) \in Nat \ {0} /\ Len(t) \in Nat
  BY EmptySeq, LenProperties
<1>3. s \o t # <<>>
  BY <1>1, <1>2, EmptySeq
<1>4. /\ Head(s) = s[1] /\ Tail(s) \in Seq(T) /\ Len(Tail(s)) = Len(s) - 1
      /\ \A i \in 1 .. Len(Tail(s)) : Tail(s)[i] = s[i + 1]
  BY HeadTailProperties
<1>5. /\ Head(s \o t) = (s \o t)[1] /\ Tail(s \o t) \in Seq(T)
      /\ Len(Tail(s \o t)) = Len(s \o t) - 1
      /\ \A i \in 1 .. Len(Tail(s \o t)) : Tail(s \o t)[i] = (s \o t)[i + 1]
  BY <1>1, <1>3, HeadTailProperties
<1>6. /\ Tail(s) \o t \in Seq(T) /\ Len(Tail(s) \o t) = Len(Tail(s)) + Len(t)
      /\ \A i \in 1 .. Len(Tail(s)) + Len(t) :
             (Tail(s) \o t)[i] = IF i <= Len(Tail(s)) THEN Tail(s)[i] ELSE t[i - Len(Tail(s))]
  BY <1>4, ConcatProperties
<1>7. Head(s \o t) = Head(s)
  BY <1>1, <1>2, <1>4, <1>5
<1>8. Len(Tail(s) \o t) = Len(Tail(s \o t))
  BY <1>1, <1>2, <1>4, <1>5, <1>6
<1>9. ASSUME NEW i \in 1 .. Len(Tail(s) \o t) PROVE (Tail(s) \o t)[i] = Tail(s \o t)[i]
  <2>1. /\ i \in 1 .. Len(s) + Len(t) - 1 /\ i + 1 \in 1 .. Len(s) + Len(t)
        /\ Tail(s \o t)[i] = (s \o t)[i + 1]
    BY <1>1, <1>2, <1>4, <1>5, <1>6, <1>8
  <2>2. CASE i <= Len(Tail(s))
    <3>1. (Tail(s) \o t)[i] = s[i + 1] /\ i + 1 <= Len(s)
      BY <1>2, <1>4, <1>6, <2>1, <2>2
    <3>2. QED
      BY <1>1, <2>1, <3>1
  <2>3. CASE ~(i <= Len(Tail(s)))
    <3>1. ~(i + 1 <= Len(s)) /\ i - Len(Tail(s)) = (i + 1) - Len(s)
      BY <1>2, <1>4, <2>1, <2>3
    <3>2. QED
      BY <1>1, <1>2, <1>4, <1>6, <2>1, <2>3, <3>1
  <2>4. QED
    BY <2>2, <2>3
<1>10. QED
  BY <1>3, <1>5, <1>6, <1>7, <1>8, <1>9, SeqEqual

(* Pieces that abut lie between their ends, and still abut when one is put *)
(* behind or taken from the front.                                         *)
LEMMA AbutOrder ==
    ASSUME NEW s \in Seq(Piece), NEW from \in Nat, NEW to \in Nat, Abut(s, from, to)
    PROVE  \A i \in DOMAIN s : from < s[i][2]
<1> DEFINE wrong == {i \in DOMAIN s : ~(from < s[i][2])}
<1>1. DOMAIN s = 1 .. Len(s) /\ Len(s) \in Nat /\ \A i \in DOMAIN s : s[i] \in Piece
  BY LenProperties, ElementOfSeq
<1>2. ASSUME wrong # {} PROVE FALSE
  <2>1. wrong \in SUBSET Nat
    BY <1>1
  <2>2. PICK m \in wrong : \A n \in wrong : m <= n
    BY <1>2, <2>1, LeastOf
  <2>3. m \in DOMAIN s /\ ~(from < s[m][2]) /\ s # <<>> /\ s[m][1] < s[m][2]
    BY <1>1, <2>2 DEF Abut
  <2>4. s[m][1] \in Nat /\ s[m][2] \in Nat
    BY <1>1, <2>3 DEF Piece
  <2>5. CASE m = 1
    BY <2>3, <2>4, <2>5 DEF Abut
  <2>6. CASE m # 1
    <3>1. m > 1 /\ m - 1 \in DOMAIN s
      BY <1>1, <2>3, <2>6
    <3>2. m - 1 \notin wrong /\ s[m - 1][2] \in Nat
      BY <1>1, <2>1, <2>2, <3>1 DEF Piece
    <3>3. s[m - 1][2] = s[m][1] /\ from < s[m - 1][2]
      BY <2>3, <3>1, <3>2 DEF Abut
    <3>4. QED
      BY <2>3, <2>4, <3>2, <3>3
  <2>7. QED
    BY <2>5, <2>6
<1>3. QED
  BY <1>2

LEMMA AbutEnds ==
    ASSUME NEW s \in Seq(Piece), NEW from \in Nat, NEW to \in Nat, Abut(s, from, to)
    PROVE  from <= to /\ (from = to <=> s = <<>>)
<1>1. CASE s = <<>>
  BY <1>1 DEF Abut
<1>2. CASE s # <<>>
  <2>1. Len(s) \in DOMAIN s
    BY <1>2, EmptySeq, LenProperties
  <2>2. from < s[Len(s)][2] /\ s[Len(s)][2] = to
    BY <1>2, <2>1, AbutOrder DEF Abut
  <2>3. QED
    BY <1>2, <2>2
<1>3. QED
  BY <1>1, <1>2

LEMMA AbutGrows ==
    ASSUME NEW s \in Seq(Piece), NEW from \in Nat, NEW to \in Nat, Abut(s, from, to),
           NEW more \in Nat, to < more
    PROVE  Abut(Append(s, <<to, more>>), from, more)
<1> DEFINE x == <<to, more>>
           t == Append(s, x)
<1>1. x \in Piece /\ x[1] = to /\ x[2] = more
  BY DEF Piece
<1> HIDE DEF x
<1>2. /\ t \in Seq(Piece) /\ Len(t) = Len(s) + 1 /\ t # <<>> /\ DOMAIN t = 1 .. Len(s) + 1
      /\ \A i \in 1 .. Len(s) : t[i] = s[i]
      /\ t[Len(s) + 1] = x
      /\ Len(s) \in Nat /\ DOMAIN s = 1 .. Len(s) /\ (s = <<>> <=> Len(s) = 0)
  BY <1>1, AppendProperties, LenProperties, EmptySeq
<1> HIDE DEF t
<1>3. t[1][1] = from
  BY <1>1, <1>2 DEF Abut
<1>4. ASSUME NEW i \in DOMAIN t
      PROVE  t[i][1] < t[i][2] /\ (i > 1 => t[i - 1][2] = t[i][1])
  <2>1. CASE i \in 1 .. Len(s)
    <3>1. t[i][1] < t[i][2]
      BY <1>2, <2>1 DEF Abut
    <3>2. ASSUME i > 1 PROVE t[i - 1][2] = t[i][1]
      <4>1. i - 1 \in 1 .. Len(s)
        BY <1>2, <2>1, <3>2
      <4>2. QED
        BY <1>2, <2>1, <3>2, <4>1 DEF Abut
    <3>3. QED
      BY <3>1, <3>2
  <2>2. CASE i = Len(s) + 1
    <3>1. t[i][1] = to /\ t[i][2] = more
      BY <1>1, <1>2, <2>2
    <3>2. ASSUME i > 1 PROVE t[i - 1][2] = to
      <4>1. Len(s) \in 1 .. Len(s) /\ i - 1 = Len(s) /\ s # <<>>
        BY <1>2, <2>2, <3>2
      <4>2. QED
        BY <1>2, <4>1 DEF Abut
    <3>3. QED
      BY <3>1, <3>2
  <2>3. QED
    BY <1>2, <2>1, <2>2
<1>5. Abut(t, from, more)
  <2>1. t[Len(t)][2] = more
    BY <1>1, <1>2
  <2>2. QED
    BY <1>2, <1>3, <1>4, <2>1 DEF Abut
<1>6. QED
  BY <1>5 DEF t, x

LEMMA AbutTakes ==
    ASSUME NEW s \in Seq(Piece), NEW from \in Nat, NEW to \in Nat, Abut(s, from, to), s # <<>>
    PROVE  /\ Head(s) \in Piece /\ Head(s)[1] = from /\ from < Head(s)[2] /\ Head(s)[2] <= to
           /\ Abut(Tail(s), Head(s)[2], to)
<1> DEFINE t == Tail(s)
<1>1. /\ Head(s) = s[1] /\ Head(s) \in Piece
      /\ t \in Seq(Piece) /\ Len(t) = Len(s) - 1 /\ \A i \in 1 .. Len(t) : t[i] = s[i + 1]
      /\ DOMAIN t = 1 .. Len(t) /\ Len(t) \in Nat /\ (t = <<>> <=> Len(t) = 0)
      /\ Len(s) \in Nat \ {0} /\ DOMAIN s = 1 .. Len(s)
  <2>1. /\ Head(s) = s[1] /\ Head(s) \in Piece
        /\ t \in Seq(Piece) /\ Len(t) = Len(s) - 1 /\ \A i \in 1 .. Len(t) : t[i] = s[i + 1]
    BY HeadTailProperties
  <2>2. Len(s) \in Nat /\ Len(s) # 0 /\ DOMAIN s = 1 .. Len(s)
    BY LenProperties, EmptySeq
  <2> HIDE DEF t
  <2>3. DOMAIN t = 1 .. Len(t) /\ Len(t) \in Nat /\ (t = <<>> <=> Len(t) = 0)
    BY <2>1, LenProperties, EmptySeq
  <2>4. QED
    BY <2>1, <2>2, <2>3
<1>2. Head(s)[1] = from /\ from < Head(s)[2]
  BY <1>1 DEF Abut
<1> HIDE DEF t
<1>3. Abut(t, Head(s)[2], to)
  <2>1. CASE t = <<>>
    BY <1>1, <2>1 DEF Abut
  <2>2. CASE t # <<>>
    <3>1. Len(t) \in Nat \ {0} /\ 1 \in DOMAIN t /\ t[1] = s[2] /\ 2 \in DOMAIN s
      BY <1>1, <2>2
    <3>2. t[1][1] = Head(s)[2]
      BY <1>1, <3>1 DEF Abut
    <3>3. Len(t) \in DOMAIN t /\ t[Len(t)] = s[Len(s)]
      BY <1>1, <3>1
    <3>4. t[Len(t)][2] = to
      BY <3>3 DEF Abut
    <3>5. ASSUME NEW i \in DOMAIN t
          PROVE  t[i][1] < t[i][2] /\ (i > 1 => t[i - 1][2] = t[i][1])
      <4>1. i \in Nat /\ i + 1 \in DOMAIN s /\ i + 1 > 1 /\ (i + 1) - 1 = i /\ t[i] = s[i + 1]
        BY <1>1
      <4>2. t[i][1] < t[i][2] /\ s[i][2] = t[i][1]
        BY <4>1 DEF Abut
      <4>3. ASSUME i > 1 PROVE t[i - 1] = s[i]
        <5>1. i - 1 \in 1 .. Len(t) /\ (i - 1) + 1 = i
          BY <1>1, <4>3
        <5>2. QED
          BY <1>1, <5>1
      <4>4. QED
        BY <4>2, <4>3
    <3>6. QED
      BY <2>2, <3>2, <3>4, <3>5 DEF Abut
  <2>3. QED
    BY <2>1, <2>2
<1>4. Head(s)[2] <= to
  <2>1. Head(s)[2] \in Nat
    BY <1>1 DEF Piece
  <2>2. QED
    BY <1>1, <1>3, <2>1, AbutEnds
<1>5. QED
  BY <1>1, <1>2, <1>3, <1>4 DEF t

-----------------------------------------------------------------------------
(* What the work thread's steps do to the chunks before it.                *)
LEMMA ThreadAdds ==
    ASSUME W!TypeOK, NEW x \in Piece, W!Add(x)
    PROVE  W!TypeOK' /\ Chunks' = Append(Chunks, x)
<1>1. /\ stream_chunks_ \in Seq(Piece) /\ stream_chunks \in Seq(Piece)
      /\ stream_chunks_' = Append(stream_chunks_, x) /\ stream_chunks' = stream_chunks
  BY DEF W!Add, W!TypeOK, Piece
<1>2. stream_chunks_' \in Seq(Piece)
  BY <1>1, AppendProperties
<1>3. W!TypeOK'
  BY <1>1, <1>2 DEF W!TypeOK, W!Add, W!MutexFree, W!Notified, W!WorkerStates, W!StopperStates, Piece
<1>4. QED
  BY <1>1, <1>3, AppendBehind DEF Chunks

LEMMA ThreadTakes ==
    ASSUME W!TypeOK, W!Handle
    PROVE  W!TypeOK' /\ Chunks # <<>> /\ W!Current = Head(Chunks) /\ Chunks' = Tail(Chunks)
<1>1. stream_chunks_ \in Seq(Piece) /\ stream_chunks \in Seq(Piece)
  BY DEF W!TypeOK, Piece
<1>2. CASE W!HandleBatch
  <2>1. /\ worker = "work" /\ stream_chunks # <<>> /\ stream_chunks' = Tail(stream_chunks)
        /\ stream_chunks_' = stream_chunks_ /\ W!Current = Head(stream_chunks)
    BY <1>2 DEF W!HandleBatch, W!Current
  <2>2. stream_chunks' \in Seq(Piece)
    BY <1>1, <2>1, HeadTailProperties
  <2>3. W!TypeOK'
    BY <1>2, <2>2 DEF W!TypeOK, W!HandleBatch, W!WorkerStates, Piece
  <2>4. QED
    BY <1>1, <2>1, <2>3, TakeInFront DEF Chunks
<1>3. CASE W!HandleDrain
  <2>1. /\ worker = "drain" /\ stream_chunks = <<>> /\ stream_chunks' = stream_chunks
        /\ stream_chunks_ # <<>> /\ stream_chunks_' = Tail(stream_chunks_)
        /\ W!Current = Head(stream_chunks_)
    BY <1>3 DEF W!HandleDrain, W!Current, W!TypeOK
  <2>2. stream_chunks_' \in Seq(Piece)
    BY <1>1, <2>1, HeadTailProperties
  <2>3. Chunks = stream_chunks_ /\ Chunks' = stream_chunks_'
    BY <1>1, <2>1, <2>2, ConcatEmptySeq DEF Chunks
  <2>4. W!TypeOK'
    BY <1>3, <2>2 DEF W!TypeOK, W!HandleDrain, W!WorkerStates, Piece
  <2>5. QED
    BY <2>1, <2>3, <2>4
<1>4. QED
  BY <1>2, <1>3 DEF W!Handle

LEMMA ThreadKeeps ==
    ASSUME W!TypeOK, W!Housekeeping \/ W!SpuriousWakeup \/ W!Stop \/ UNCHANGED threadVars
    PROVE  W!TypeOK' /\ Chunks' = Chunks
<1> USE DEF W!TypeOK, W!WorkerStates, W!StopperStates
<1>1. stream_chunks_ \in Seq(Piece) /\ stream_chunks \in Seq(Piece)
  BY DEF Piece
<1>2. CASE W!Swap
  <2>1. /\ stream_chunks = <<>> /\ stream_chunks' = stream_chunks_
        /\ stream_chunks_' = stream_chunks /\ worker' = "work" /\ worker = "test"
    BY <1>2 DEF W!Swap
  <2>2. Chunks' = Chunks
    BY <1>1, <2>1, ConcatEmptySeq DEF Chunks
  <2>3. QED
    BY <1>1, <1>2, <2>1, <2>2 DEF W!Swap
<1>3. ASSUME UNCHANGED <<stream_chunks_, stream_chunks>>, W!TypeOK'
      PROVE  W!TypeOK' /\ Chunks' = Chunks
  BY <1>3 DEF Chunks
<1>4. CASE W!EnterLoop \/ W!DecideToWait \/ W!FallAsleep \/ W!Reacquire \/ W!SpuriousWakeup
  BY <1>3, <1>4 DEF W!EnterLoop, W!DecideToWait, W!FallAsleep, W!Reacquire, W!SpuriousWakeup
<1>5. CASE W!FinishBatch \/ W!LeaveLoop \/ W!Exit
  BY <1>3, <1>5 DEF W!FinishBatch, W!LeaveLoop, W!Exit
<1>6. CASE W!ClearRunFlag \/ W!Join
  BY <1>3, <1>6 DEF W!ClearRunFlag, W!Join
<1>7. CASE W!NotifyStop
  BY <1>3, <1>7 DEF W!NotifyStop, W!Notified
<1>8. CASE UNCHANGED threadVars
  BY <1>3, <1>8 DEF threadVars
<1>9. QED
  BY <1>2, <1>4, <1>5, <1>6, <1>7, <1>8 DEF W!Housekeeping, W!Stop

-----------------------------------------------------------------------------
(* process_chunk.  The new part of the buffer is the chunk, or what is     *)
(* behind the banner line in it; eom_loc is the first end in the whole     *)
(* buffer.                                                                 *)
LEMMA Buffers ==
    ASSUME NEW from \in Nat, NEW mid \in Nat, NEW to \in Nat, from <= mid, mid <= to,
           NEW held \in Nat, held <= from, Empty(event_buf_) \/ event_buf_ = <<held, from>>,
           ~Empty(event_buf_) => mid = from /\ F!Ends(F!EOM, held, from) = {},
           Buffer(<<mid, to>>)
    PROVE  /\ event_buf_' = <<IF Empty(event_buf_) THEN mid ELSE held, to>>
           /\ eom_loc' = F!EndOfFirst(F!EOM, event_buf_'[1], to)
<1>1. CASE Empty(event_buf_)
  BY <1>1 DEF Buffer
<1>2. CASE ~Empty(event_buf_)
  <2>1. /\ event_buf_ = <<held, from>> /\ event_buf_' = <<held, to>>
        /\ eom_loc' = F!EndOfFirst(F!EOM, ScanStart(<<held, from>>), to)
    BY <1>2 DEF Buffer
  <2>2. from <= to
    OBVIOUS
  <2>3. F!EndOfFirst(F!EOM, ScanStart(<<held, from>>), to) = F!EndOfFirst(F!EOM, held, to)
    BY <1>2, <2>2, ScanResumes
  <2>4. QED
    BY <1>2, <2>1, <2>3
<1>3. QED
  BY <1>1, <1>2

\* Where the first chunk's text begins: behind the end of its first line, if it has one.
Rest(chunk) == LET eor == F!EndOfFirst(F!EOR, chunk[1], chunk[2])
               IN  IF eor = NPos THEN chunk[1] + 1 ELSE eor

LEMMA Processes ==
    ASSUME Inv, ProcessChunk
    PROVE  LET chunk == Head(Chunks)
               eor   == F!EndOfFirst(F!EOR, chunk[1], chunk[2])
           IN  /\ W!TypeOK' /\ Chunks # <<>> /\ Chunks' = Tail(Chunks)
               /\ chunk \in Piece /\ chunk[1] < chunk[2] /\ chunk[2] <= read
               /\ chunk[1] = event_buf_[2] /\ Abut(Chunks', chunk[2], read)
               /\ first_event_' = FALSE /\ UNCHANGED <<stream, read, dispatched>>
               /\ event_buf_' = <<IF first_event_ THEN Rest(chunk) ELSE event_buf_[1], chunk[2]>>
               /\ first_event_ =>
                      /\ event_buf_ = <<0, 0>> /\ dispatched = <<>>
                      /\ eor \in {NPos} \cup 2 .. chunk[2] /\ Rest(chunk) \in 1 .. chunk[2]
                      /\ version' = IF eor = NPos THEN chunk ELSE <<0, eor - 2>>
               /\ ~first_event_ => version' = version
               /\ eom_loc' = F!EndOfFirst(F!EOM, event_buf_'[1], chunk[2])
<1> DEFINE chunk == Head(Chunks)
           eor   == F!EndOfFirst(F!EOR, chunk[1], chunk[2])
<1>1. /\ W!Handle /\ W!TypeOK /\ W!Current = chunk /\ eom_loc = NPos
      /\ ProcessFirstChunk(chunk) \/ ProcessLaterChunk(chunk)
      /\ UNCHANGED <<stream, read, dispatched>>
  BY ThreadTakes DEF ProcessChunk, Inv, TypeOK
<1>2. W!TypeOK' /\ Chunks # <<>> /\ Chunks' = Tail(Chunks)
  BY <1>1, ThreadTakes
<1>3. /\ Chunks \in Seq(Piece) /\ event_buf_ \in Piece /\ event_buf_[1] <= event_buf_[2]
      /\ stream \in Streams /\ read \in 0 .. Len(stream) /\ Abut(Chunks, event_buf_[2], read)
  BY <1>1, ConcatProperties DEF Inv, TypeOK, Chunks, W!TypeOK, Piece
<1>4. Len(stream) \in Nat /\ read \in Nat
  BY <1>3, BannerThere
<1>5. event_buf_ = <<event_buf_[1], event_buf_[2]>> /\ event_buf_[1] \in Nat /\ event_buf_[2] \in Nat
  BY <1>3 DEF Piece
<1>6. /\ chunk \in Piece /\ chunk[1] < chunk[2] /\ chunk[2] <= read
      /\ chunk[1] = event_buf_[2] /\ Abut(Chunks', chunk[2], read)
  <2>1. /\ chunk \in Piece /\ chunk[1] = event_buf_[2] /\ event_buf_[2] < chunk[2]
        /\ chunk[2] <= read /\ Abut(Tail(Chunks), chunk[2], read)
    BY <1>2, <1>3, <1>4, <1>5, AbutTakes
  <2>2. QED
    BY <1>2, <2>1
<1> HIDE DEF chunk
<1>7. chunk = <<chunk[1], chunk[2]>> /\ chunk[1] \in Nat /\ chunk[2] \in Nat
  BY <1>6 DEF Piece
<1>8. first_event_' = FALSE
  BY <1>1 DEF ProcessFirstChunk, ProcessLaterChunk, Inv, TypeOK
<1>9. CASE first_event_
  <2>1. event_buf_ = <<0, 0>> /\ dispatched = <<>> /\ chunk[1] = 0
    BY <1>6, <1>9 DEF Inv, FreshInv
  <2>2. eor \in {NPos} \cup 2 .. chunk[2]
    <3>1. Len(F!EOR) \in Nat \ {0}
      BY Marks
    <3>2. eor \in {NPos} \cup chunk[1] + Len(F!EOR) .. chunk[2]
      BY <1>7, <3>1, FirstEnd, Zenon
    <3>3. QED
      BY <2>1, <3>2, Marks
  <2>3. Rest(chunk) \in 1 .. chunk[2] /\ NPos = 0
    BY <1>6, <1>7, <2>1, <2>2 DEF Rest, NPos, F!NPos
  <2>4. ProcessFirstChunk(chunk)
    BY <1>1, <1>9 DEF ProcessLaterChunk
  <2>5. /\ version' = IF eor = NPos THEN chunk ELSE <<chunk[1], eor - 2>>
        /\ IF Rest(chunk) = chunk[2]
           THEN event_buf_' = <<Rest(chunk), chunk[2]>> /\ eom_loc' = eom_loc
           ELSE Buffer(<<Rest(chunk), chunk[2]>>)
    BY <2>4, Marks DEF ProcessFirstChunk, Rest, Empty
  <2>6. /\ event_buf_' = <<Rest(chunk), chunk[2]>>
        /\ eom_loc' = F!EndOfFirst(F!EOM, event_buf_'[1], chunk[2])
    <3>1. CASE Rest(chunk) = chunk[2]
      BY <1>1, <1>7, <2>5, <3>1, NoEndInNothing
    <3>2. CASE Rest(chunk) # chunk[2]
      <4>1. Empty(event_buf_) /\ Buffer(<<Rest(chunk), chunk[2]>>)
        BY <2>1, <2>5, <3>2 DEF Empty
      <4>2. Rest(chunk) \in Nat /\ 0 <= Rest(chunk) /\ Rest(chunk) <= chunk[2] /\ 0 \in Nat
        BY <1>7, <2>3
      <4>3. QED
        BY <1>7, <4>1, <4>2, Buffers
    <3>3. QED
      BY <3>1, <3>2
  <2>7. version' = IF eor = NPos THEN chunk ELSE <<0, eor - 2>>
    BY <2>1, <2>5
  <2>8. QED
    BY <1>1, <1>2, <1>6, <1>8, <1>9, <2>1, <2>2, <2>3, <2>6, <2>7 DEF chunk
<1>10. CASE ~first_event_
  <2>1. Buffer(chunk) /\ version' = version
    BY <1>1, <1>10 DEF ProcessFirstChunk, ProcessLaterChunk
  <2>2. F!Ends(F!EOM, event_buf_[1], event_buf_[2]) = {}
    <3>1. Len(F!EOM) \in Nat \ {0}
      BY Marks
    <3>2. F!EndOfFirst(F!EOM, event_buf_[1], event_buf_[2]) = NPos
      BY <1>1 DEF Inv, SearchInv
    <3>3. QED
      BY <1>5, <3>1, <3>2, FirstEnd, Zenon
  <2>3. /\ event_buf_' = <<IF Empty(event_buf_) THEN chunk[1] ELSE event_buf_[1], chunk[2]>>
        /\ eom_loc' = F!EndOfFirst(F!EOM, event_buf_'[1], chunk[2])
    <3>1. chunk[1] <= chunk[2] /\ chunk[1] <= chunk[1] /\ event_buf_[1] <= chunk[1]
      BY <1>3, <1>6, <1>7
    <3>2. Buffer(<<chunk[1], chunk[2]>>) /\ event_buf_ = <<event_buf_[1], chunk[1]>>
      BY <1>5, <1>6, <1>7, <2>1
    <3>3. F!Ends(F!EOM, event_buf_[1], chunk[1]) = {}
      BY <1>6, <2>2
    <3>4. QED
      BY <1>5, <1>7, <3>1, <3>2, <3>3, Buffers
  <2>4. event_buf_' = <<event_buf_[1], chunk[2]>>
    BY <1>6, <2>3 DEF Empty
  <2>5. QED
    BY <1>1, <1>2, <1>6, <1>8, <1>10, <2>1, <2>3, <2>4 DEF chunk
<1>11. QED
  BY <1>9, <1>10

(* The reader's step puts a piece behind the others.                       *)
LEMMA Reads ==
    ASSUME Inv, NEW to \in 1 .. Len(stream), AddBuf(to)
    PROVE  /\ W!TypeOK' /\ Chunks' = Append(Chunks, <<read, to>>)
           /\ to \in read + 1 .. Len(stream) /\ read' = to /\ to \in Nat
           /\ Abut(Chunks', event_buf_[2], to)
<1>1. /\ W!TypeOK /\ Chunks \in Seq(Piece) /\ stream \in Streams
      /\ event_buf_ \in Piece /\ read \in 0 .. Len(stream) /\ Abut(Chunks, event_buf_[2], read)
  BY ConcatProperties DEF Inv, TypeOK, Chunks, W!TypeOK, Piece
<1>2. Len(stream) \in Nat /\ read \in Nat /\ to \in Nat /\ event_buf_[2] \in Nat
  BY <1>1, BannerThere DEF Piece
<1>3. W!Add(<<read, to>>) /\ to \in read + 1 .. Len(stream) /\ read' = to
  BY DEF AddBuf
<1>4. <<read, to>> \in Piece /\ read < to
  BY <1>2, <1>3 DEF Piece
<1>5. W!TypeOK' /\ Chunks' = Append(Chunks, <<read, to>>)
  BY <1>1, <1>3, <1>4, ThreadAdds
<1>6. Abut(Append(Chunks, <<read, to>>), event_buf_[2], to)
  BY <1>1, <1>2, <1>4, AbutGrows
<1>7. QED
  BY <1>2, <1>3, <1>5, <1>6

\* The end of message found: where it is in the buffer.
LEMMA Found ==
    ASSUME Inv, eom_loc # NPos
    PROVE  /\ event_buf_[1] \in Nat /\ event_buf_[2] \in Nat /\ eom_loc \in Nat
           /\ event_buf_[1] < eom_loc /\ eom_loc <= event_buf_[2] /\ event_buf_[2] <= read
           /\ read \in Nat /\ ~first_event_
           /\ eom_loc = F!EndOfFirst(F!EOM, event_buf_[1], read)
           /\ F!EndOfFirst(F!EOM, eom_loc, event_buf_[2]) \in {NPos} \cup eom_loc + 1 .. event_buf_[2]
<1>1. /\ event_buf_ \in Piece /\ eom_loc \in event_buf_[1] + 1 .. event_buf_[2]
      /\ stream \in Streams /\ read \in 0 .. Len(stream) /\ Chunks \in Seq(Piece)
      /\ Abut(Chunks, event_buf_[2], read) /\ first_event_ \in BOOLEAN
  BY ConcatProperties DEF Inv, TypeOK, Chunks, W!TypeOK, Piece
<1>2. /\ event_buf_[1] \in Nat /\ event_buf_[2] \in Nat /\ eom_loc \in Nat
      /\ event_buf_[1] < eom_loc /\ eom_loc <= event_buf_[2] /\ read \in Nat
  BY <1>1, BannerThere DEF Piece
<1>3. event_buf_[2] <= read
  BY <1>1, <1>2, AbutEnds
<1>4. Len(F!EOM) \in Nat \ {0}
  BY Marks
<1>5. eom_loc = F!EndOfFirst(F!EOM, event_buf_[1], event_buf_[2])
  BY DEF Inv, SearchInv
<1>6. eom_loc = F!EndOfFirst(F!EOM, event_buf_[1], read)
  <2>1. F!EndOfFirst(F!EOM, event_buf_[1], event_buf_[2]) # NPos
    BY <1>5
  <2>2. F!EndOfFirst(F!EOM, event_buf_[1], read) = F!EndOfFirst(F!EOM, event_buf_[1], event_buf_[2])
    BY <1>2, <1>3, <1>4, <2>1, MoreRead
  <2>3. QED
    BY <1>5, <2>2, Zenon
<1>7. ~first_event_
  <2>1. ASSUME first_event_ PROVE FALSE
    BY <1>2, <2>1 DEF Inv, FreshInv
  <2>2. QED
    BY <2>1
<1>8. F!EndOfFirst(F!EOM, eom_loc, event_buf_[2]) \in {NPos} \cup eom_loc + Len(F!EOM) .. event_buf_[2]
  BY <1>2, <1>4, FirstEnd, Zenon
<1>9. F!EndOfFirst(F!EOM, eom_loc, event_buf_[2]) \in {NPos} \cup eom_loc + 1 .. event_buf_[2]
  BY <1>2, <1>8, Marks
<1>10. QED
  BY <1>2, <1>3, <1>6, <1>7, <1>9

\* What dispatching the first message does to the rest of the state.
Dispatch == DispatchWhole \/ DispatchFirst

LEMMA Dispatches ==
    ASSUME Inv, Dispatch
    PROVE  /\ eom_loc # NPos
           /\ dispatched' = Append(dispatched, <<event_buf_[1], eom_loc>>)
           /\ event_buf_' = <<eom_loc, event_buf_[2]>>
           /\ eom_loc' = F!EndOfFirst(F!EOM, eom_loc, event_buf_[2])
           /\ UNCHANGED <<first_event_, version, threadVars, stream, read>>
<1>1. CASE DispatchWhole
  <2>1. /\ eom_loc # NPos /\ eom_loc = event_buf_[2] /\ event_buf_' = <<eom_loc, eom_loc>>
        /\ dispatched' = Append(dispatched, event_buf_) /\ eom_loc' = NPos
        /\ UNCHANGED <<first_event_, version, threadVars, stream, read>>
    BY <1>1 DEF DispatchWhole
  <2>2. event_buf_ = <<event_buf_[1], event_buf_[2]>> /\ eom_loc \in Nat
    BY <2>1, Found DEF Inv, TypeOK, Piece
  <2>3. QED
    BY <2>1, <2>2, NoEndInNothing
<1>2. CASE DispatchFirst
  BY <1>2 DEF DispatchFirst
<1>3. QED
  BY <1>1, <1>2 DEF Dispatch

-----------------------------------------------------------------------------
(* Each step keeps the types and the invariants.                           *)
LEMMA InvStep == ASSUME Inv, [Next]_vars PROVE Inv'
<1> USE DEF Inv, SearchInv, FreshInv
<1>0. /\ event_buf_ \in Piece /\ event_buf_[1] <= event_buf_[2] /\ stream \in Streams
      /\ read \in 0 .. Len(stream) /\ first_event_ \in BOOLEAN
      /\ eom_loc \in {NPos} \cup event_buf_[1] + 1 .. event_buf_[2]
      /\ version \in Piece \cup {<<>>} /\ dispatched \in Seq(Piece)
      /\ Abut(Chunks, event_buf_[2], read) /\ W!TypeOK /\ Len(stream) \in Nat
  BY BannerThere DEF TypeOK, Chunks
<1>1. ASSUME NEW to \in 1 .. Len(stream), AddBuf(to) PROVE Inv'
  <2>1. UNCHANGED <<stream, bufVars>>
    BY <1>1 DEF AddBuf
  <2>2. W!TypeOK' /\ read' = to /\ Abut(Chunks, event_buf_[2], read)'
    BY <1>1, <2>1, Reads DEF bufVars
  <2>3. TypeOK'
    BY <1>0, <2>1, <2>2 DEF TypeOK, bufVars, Chunks
  <2>4. SearchInv' /\ FreshInv'
    BY <2>1 DEF bufVars, F!EndOfFirst, F!Ends
  <2>5. QED
    BY <2>3, <2>4
<1>2. CASE ProcessChunk
  <2> DEFINE chunk == Head(Chunks)
             eor   == F!EndOfFirst(F!EOR, chunk[1], chunk[2])
  <2>1. /\ W!TypeOK' /\ chunk \in Piece /\ chunk[1] < chunk[2] /\ chunk[1] = event_buf_[2]
        /\ Abut(Chunks', chunk[2], read) /\ first_event_' = FALSE
        /\ UNCHANGED <<stream, read, dispatched>>
        /\ event_buf_' = <<IF first_event_ THEN Rest(chunk) ELSE event_buf_[1], chunk[2]>>
        /\ first_event_ => /\ Rest(chunk) \in 1 .. chunk[2] /\ eor \in {NPos} \cup 2 .. chunk[2]
                           /\ version' = IF eor = NPos THEN chunk ELSE <<0, eor - 2>>
        /\ ~first_event_ => version' = version
        /\ eom_loc' = F!EndOfFirst(F!EOM, event_buf_'[1], chunk[2])
    BY <1>2, Processes
  <2> HIDE DEF chunk, eor
  <2>2. chunk[1] \in Nat /\ chunk[2] \in Nat /\ event_buf_[1] \in Nat
    BY <1>0, <2>1 DEF Piece
  <2>3. event_buf_' \in Piece /\ event_buf_'[1] <= event_buf_'[2] /\ event_buf_'[2] = chunk[2]
    BY <1>0, <2>1, <2>2 DEF Piece
  <2>4. version' \in Piece \cup {<<>>}
    <3>1. CASE ~first_event_
      BY <1>0, <2>1, <3>1
    <3>2. CASE first_event_ /\ eor = NPos
      BY <2>1, <3>2
    <3>3. CASE first_event_ /\ eor # NPos
      <4>1. eor - 2 \in Nat /\ version' = <<0, eor - 2>>
        BY <2>1, <2>2, <3>3
      <4>2. QED
        BY <4>1 DEF Piece
    <3>4. QED
      BY <1>0, <3>1, <3>2, <3>3
  <2>5. eom_loc' \in {NPos} \cup event_buf_'[1] + 1 .. event_buf_'[2]
    <3>1. Len(F!EOM) \in Nat \ {0} /\ event_buf_'[1] \in Nat
      BY <2>3, Marks DEF Piece
    <3>2. eom_loc' \in {NPos} \cup event_buf_'[1] + Len(F!EOM) .. chunk[2]
      BY <2>1, <2>2, <3>1, FirstEnd, Zenon
    <3>3. QED
      BY <2>2, <2>3, <3>1, <3>2, Marks
  <2>6. TypeOK'
    <3>1. NPos' = NPos /\ first_event_' \in BOOLEAN
      BY <2>1 DEF NPos, F!NPos
    <3>2. Abut(Chunks, event_buf_[2], read)'
      BY <2>1, <2>3
    <3>3. QED
      BY <1>0, <2>1, <2>3, <2>4, <2>5, <3>1, <3>2 DEF TypeOK, Chunks
  <2>7. SearchInv'
    BY <2>1, <2>3 DEF F!EndOfFirst, F!Ends
  <2>8. QED
    BY <2>1, <2>6, <2>7
<1>3. CASE Dispatch
  <2>1. /\ eom_loc # NPos /\ event_buf_' = <<eom_loc, event_buf_[2]>>
        /\ dispatched' = Append(dispatched, <<event_buf_[1], eom_loc>>)
        /\ eom_loc' = F!EndOfFirst(F!EOM, eom_loc, event_buf_[2])
        /\ UNCHANGED <<first_event_, version, threadVars, stream, read>>
    BY <1>3, Dispatches
  <2>2. /\ event_buf_[1] \in Nat /\ event_buf_[2] \in Nat /\ eom_loc \in Nat
        /\ eom_loc <= event_buf_[2] /\ ~first_event_
        /\ F!EndOfFirst(F!EOM, eom_loc, event_buf_[2]) \in {NPos} \cup eom_loc + 1 .. event_buf_[2]
    BY <2>1, Found
  <2>3. W!TypeOK' /\ Chunks' = Chunks
    BY <1>0, <2>1, ThreadKeeps
  <2>4. <<event_buf_[1], eom_loc>> \in Piece /\ event_buf_' \in Piece
        /\ event_buf_'[1] = eom_loc /\ event_buf_'[2] = event_buf_[2]
    BY <2>1, <2>2 DEF Piece
  <2>5. dispatched' \in Seq(Piece)
    BY <1>0, <2>1, <2>4, AppendProperties
  <2>6. TypeOK'
    BY <1>0, <2>1, <2>2, <2>3, <2>4, <2>5 DEF TypeOK, Chunks, NPos, F!NPos
  <2>7. SearchInv'
    BY <2>1, <2>4 DEF F!EndOfFirst, F!Ends
  <2>8. QED
    BY <2>1, <2>2, <2>6, <2>7
<1>4. ASSUME W!Housekeeping \/ W!SpuriousWakeup \/ W!Stop \/ UNCHANGED threadVars,
             UNCHANGED <<stream, read, bufVars>>
      PROVE  Inv'
  <2>1. W!TypeOK' /\ Chunks' = Chunks
    BY <1>0, <1>4, ThreadKeeps
  <2>2. TypeOK'
    BY <1>0, <1>4, <2>1 DEF TypeOK, bufVars, Chunks
  <2>3. SearchInv' /\ FreshInv'
    BY <1>4 DEF bufVars, F!EndOfFirst, F!Ends
  <2>4. QED
    BY <2>2, <2>3
<1>5. CASE ThreadStep
  BY <1>4, <1>5 DEF ThreadStep
<1>6. CASE UNCHANGED vars
  BY <1>4, <1>6 DEF vars
<1>7. QED
  BY <1>1, <1>2, <1>3, <1>5, <1>6 DEF Next, ParserStep, Dispatch, Terminated

(* With the banner line in the first chunk: what has been handed over, and *)
(* what the version is.                                                    *)
LEMMA BannerStep == ASSUME BannerWhole, Inv, BannerInv, [Next]_vars PROVE BannerInv'
<1>0. /\ stream \in Streams /\ read \in 0 .. Len(stream) /\ first_event_ \in BOOLEAN
      /\ dispatched \in Seq(Piece) /\ Chunks \in Seq(Piece) /\ event_buf_ \in Piece
      /\ Abut(Chunks, event_buf_[2], read) /\ W!TypeOK
      /\ Len(stream) \in Nat /\ F!Banner \in 2 .. Len(stream)
  BY ConcatProperties, BannerThere DEF Inv, TypeOK, Chunks, W!TypeOK, Piece
<1>1. ASSUME NEW to \in 1 .. Len(stream), AddBuf(to) PROVE BannerInv'
  <2>1. UNCHANGED <<stream, first_event_, event_buf_, version, dispatched>>
    BY <1>1 DEF AddBuf, bufVars
  <2>2. F!Banner' = F!Banner /\ F!Delivered' = F!Delivered
    BY <2>1 DEF F!Banner, F!Delivered, F!EndOfFirst, F!Ends
  <2>3. ASSUME first_event_ PROVE F!Banner <= Head(Chunks')[2]
    <3>1. Chunks' = Append(Chunks, <<read, to>>) /\ to \in Nat /\ read \in Nat
      BY <1>0, <1>1, Reads
    <3>2. <<read, to>> \in Piece
      BY <3>1 DEF Piece
    <3>3. CASE Chunks = <<>>
      <4>1. read = 0
        BY <1>0, <2>3, <3>3 DEF Inv, FreshInv, Abut
      <4>2. F!Banner <= to
        BY <1>0, <1>1, <4>1 DEF AddBuf
      <4>3. Head(Chunks') = <<read, to>>
        BY <3>1, <3>2, <3>3
      <4>4. QED
        BY <4>2, <4>3
    <3>4. CASE Chunks # <<>>
      <4>1. Head(Append(Chunks, <<read, to>>)) = Head(Chunks)
        <5>0. Len(Chunks) \in Nat /\ Len(Chunks) # 0 /\ Head(Chunks) = Chunks[1]
          BY <1>0, <3>4, HeadTailProperties, EmptySeq, LenProperties
        <5>1. /\ Append(Chunks, <<read, to>>) \in Seq(Piece)
              /\ Append(Chunks, <<read, to>>) # <<>>
              /\ Append(Chunks, <<read, to>>)[1] = Chunks[1]
          BY <1>0, <3>2, <5>0, AppendProperties
        <5>2. Head(Append(Chunks, <<read, to>>)) = Append(Chunks, <<read, to>>)[1]
          BY <5>1, HeadTailProperties
        <5>3. QED
          BY <5>0, <5>1, <5>2
      <4>2. QED
        BY <2>3, <3>1, <3>4, <4>1 DEF BannerInv
    <3>5. QED
      BY <3>3, <3>4
  <2>4. QED
    BY <2>1, <2>2, <2>3 DEF BannerInv
<1>2. CASE ProcessChunk
  <2> DEFINE chunk == Head(Chunks)
             eor   == F!EndOfFirst(F!EOR, chunk[1], chunk[2])
  <2>1. /\ Chunks # <<>> /\ chunk \in Piece /\ chunk[1] < chunk[2] /\ chunk[2] <= read
        /\ chunk[1] = event_buf_[2] /\ first_event_' = FALSE
        /\ UNCHANGED <<stream, read, dispatched>>
        /\ event_buf_' = <<IF first_event_ THEN Rest(chunk) ELSE event_buf_[1], chunk[2]>>
        /\ first_event_ => /\ event_buf_ = <<0, 0>> /\ dispatched = <<>>
                           /\ version' = IF eor = NPos THEN chunk ELSE <<0, eor - 2>>
        /\ ~first_event_ => version' = version
    BY <1>2, Processes
  <2>2. F!Banner' = F!Banner /\ F!Delivered' = F!Delivered
    BY <2>1 DEF F!Banner, F!Delivered, F!EndOfFirst, F!Ends
  <2>3. CASE first_event_
    <3>1. chunk[1] = 0 /\ F!Banner <= chunk[2] /\ chunk[2] \in F!Banner .. Len(stream)
      BY <1>0, <2>1, <2>3 DEF BannerInv, Piece
    <3>2. eor = F!Banner /\ F!Banner # NPos
      BY <1>0, <3>1, BannerThere DEF NPos, F!NPos
    <3>3. version' = <<0, F!Banner - 2>> /\ event_buf_'[1] = F!Banner
      BY <2>1, <2>3, <3>2 DEF Rest
    <3>4. F!Delivered = F!Banner
      BY <2>1, <2>3 DEF F!Delivered
    <3>5. QED
      BY <2>1, <2>2, <3>3, <3>4 DEF BannerInv
  <2>4. CASE ~first_event_
    <3>1. event_buf_'[1] = event_buf_[1] /\ version' = version
      BY <2>1, <2>4
    <3>2. QED
      BY <2>1, <2>2, <2>4, <3>1 DEF BannerInv
  <2>5. QED
    BY <2>3, <2>4
<1>3. CASE Dispatch
  <2>1. /\ eom_loc # NPos /\ event_buf_' = <<eom_loc, event_buf_[2]>>
        /\ dispatched' = Append(dispatched, <<event_buf_[1], eom_loc>>)
        /\ UNCHANGED <<first_event_, version, threadVars, stream, read>>
    BY <1>3, Dispatches
  <2>2. ~first_event_ /\ <<event_buf_[1], eom_loc>> \in Piece
    BY <2>1, Found DEF Piece
  <2>3. F!Delivered' = eom_loc
    <3>1. /\ dispatched' # <<>> /\ Len(dispatched') = Len(dispatched) + 1
          /\ dispatched'[Len(dispatched) + 1] = <<event_buf_[1], eom_loc>>
      BY <1>0, <2>1, <2>2, AppendProperties
    <3>2. QED
      BY <3>1 DEF F!Delivered
  <2>4. F!Banner' = F!Banner
    BY <2>1 DEF F!Banner, F!EndOfFirst, F!Ends
  <2>5. QED
    BY <2>1, <2>2, <2>3, <2>4 DEF BannerInv
<1>4. ASSUME W!Housekeeping \/ W!SpuriousWakeup \/ W!Stop \/ UNCHANGED threadVars,
             UNCHANGED <<stream, read, bufVars>>
      PROVE  BannerInv'
  <2>1. Chunks' = Chunks
    BY <1>0, <1>4, ThreadKeeps
  <2>2. F!Banner' = F!Banner /\ F!Delivered' = F!Delivered
    BY <1>4 DEF F!Banner, F!Delivered, F!EndOfFirst, F!Ends, bufVars
  <2>3. QED
    BY <1>4, <2>1, <2>2 DEF BannerInv, bufVars
<1>5. CASE ThreadStep
  BY <1>4, <1>5 DEF ThreadStep
<1>6. CASE UNCHANGED vars
  BY <1>4, <1>6 DEF vars
<1>7. QED
  BY <1>1, <1>2, <1>3, <1>5, <1>6 DEF Next, ParserStep, Dispatch, Terminated

(* The reader's steps are Framer's Receive, each message dispatched is a   *)
(* Deliver, and nothing else changes what Framer sees.                     *)
LEMMA FramerStep == ASSUME Inv, BannerInv, [Next]_vars PROVE [F!Next]_(F!fvars)
<1> USE DEF F!Next, F!fvars
<1>1. ASSUME NEW to \in 1 .. Len(stream), AddBuf(to) PROVE F!Receive
  <2>1. to \in read + 1 .. Len(stream) /\ read' = to
    BY <1>1, Reads
  <2>2. UNCHANGED <<stream, dispatched>>
    BY <1>1 DEF AddBuf, bufVars
  <2>3. QED
    BY <2>1, <2>2 DEF F!Receive
<1>2. CASE ProcessChunk
  BY <1>2 DEF ProcessChunk
<1>3. CASE Dispatch
  <2>1. /\ eom_loc # NPos /\ UNCHANGED <<stream, read>>
        /\ dispatched' = Append(dispatched, <<event_buf_[1], eom_loc>>)
    BY <1>3, Dispatches
  <2>2. ~first_event_ /\ eom_loc = F!EndOfFirst(F!EOM, event_buf_[1], read)
    BY <2>1, Found
  <2>3. event_buf_[1] = F!Delivered
    BY <2>2 DEF BannerInv
  <2>4. F!Banner # F!NPos
    BY BannerThere DEF Inv, TypeOK, F!NPos
  <2>5. eom_loc = F!EndOfFirst(F!EOM, F!Delivered, read) /\ eom_loc # F!NPos
    BY <2>1, <2>2, <2>3 DEF NPos
  <2>6. F!Deliver
    BY <2>1, <2>3, <2>4, <2>5 DEF F!Deliver
  <2>7. QED
    BY <2>6
<1>4. CASE ThreadStep
  BY <1>4 DEF ThreadStep, bufVars
<1>5. CASE UNCHANGED vars
  BY <1>5 DEF vars, bufVars
<1>6. QED
  BY <1>1, <1>2, <1>3, <1>4, <1>5 DEF Next, ParserStep, Dispatch, Terminated

-----------------------------------------------------------------------------
LEMMA InitInv == ASSUME Init PROVE Inv /\ BannerInv /\ F!Init
<1>1. /\ W!Init /\ stream \in Streams /\ read = 0 /\ first_event_ = TRUE
      /\ event_buf_ = <<0, 0>> /\ eom_loc = NPos /\ version = <<>> /\ dispatched = <<>>
  BY DEF Init
<1>2. W!TypeOK /\ stream_chunks = <<>> /\ stream_chunks_ = <<>>
  BY <1>1, EmptySeq DEF W!Init, W!TypeOK, W!WorkerStates, W!StopperStates
<1>3. Chunks = <<>>
  BY <1>2, ConcatEmptySeq DEF Chunks
<1>4. Len(stream) \in Nat
  BY <1>1, BannerThere
<1>5. TypeOK
  BY <1>1, <1>2, <1>3, <1>4, EmptySeq DEF TypeOK, Chunks, Abut, Piece
<1>6. SearchInv /\ FreshInv
  BY <1>1, NoEndInNothing DEF SearchInv, FreshInv
<1>7. BannerInv
  BY <1>1, <1>3 DEF BannerInv
<1>8. F!Init
  BY <1>1 DEF F!Init
<1>9. QED
  BY <1>5, <1>6, <1>7, <1>8 DEF Inv

THEOREM Invariance == Spec => []Inv
<1>1. Init => Inv
  BY InitInv
<1>2. Inv /\ [Next]_vars => Inv'
  BY InvStep
<1>3. QED
  BY <1>1, <1>2, PTL DEF Spec

(* Types; and what add_buf has been given and process_chunk has not seen   *)
(* is, in order and without gaps, what follows the buffer.                 *)
THEOREM Typing == Spec => []TypeOK
<1>1. Inv => TypeOK
  BY DEF Inv
<1>2. QED
  BY <1>1, Invariance, PTL

(* process_chunk leaves no complete message in event_buf_, wherever the    *)
(* chunks were cut.                                                        *)
LEMMA NoneHeld == ASSUME Inv PROVE NothingHeldBack
<1>1. event_buf_[1] \in Nat /\ event_buf_[2] \in Nat
  BY DEF Inv, TypeOK, Piece
<1>2. ASSUME eom_loc = NPos PROVE F!Ends(F!EOM, event_buf_[1], event_buf_[2]) = {}
  <2>1. Len(F!EOM) \in Nat \ {0}
    BY Marks
  <2>2. F!EndOfFirst(F!EOM, event_buf_[1], event_buf_[2]) = NPos
    BY <1>2 DEF Inv, SearchInv
  <2>3. QED
    BY <1>1, <2>1, <2>2, FirstEnd, Zenon
<1>3. QED
  BY <1>2 DEF NothingHeldBack

THEOREM NoMessageStays == Spec => []NothingHeldBack
<1>1. Inv => NothingHeldBack
  BY NoneHeld
<1>2. QED
  BY <1>1, Invariance, PTL

(* With the banner line in the first chunk the version callback gets it,   *)
(* without its end, whatever follows in that chunk.                        *)
THEOREM BannerInvariance == BannerWhole => (Spec => []BannerInv)
<1> SUFFICES ASSUME BannerWhole PROVE Spec => []BannerInv
  OBVIOUS
<1>1. Init => BannerInv
  BY InitInv
<1>2. Inv /\ BannerInv /\ [Next]_vars => BannerInv'
  BY BannerStep
<1>3. QED
  BY <1>1, <1>2, Invariance, PTL DEF Spec

THEOREM BannerIsVersion == BannerWhole => (Spec => []VersionIsBanner)
<1> SUFFICES ASSUME BannerWhole PROVE Spec => []VersionIsBanner
  OBVIOUS
<1>1. BannerInv => VersionIsBanner
  BY Marks DEF BannerInv, VersionIsBanner
<1>2. Spec => []BannerInv
  BY BannerInvariance
<1>3. QED
  BY <1>1, <1>2, PTL

(* And the parser implements the safety part of Framer: the messages it    *)
(* dispatches are those of the stream, in order, whatever the chunks were. *)
THEOREM Refinement == BannerWhole => (Spec => F!Safety)
<1> SUFFICES ASSUME BannerWhole PROVE Spec => F!Safety
  OBVIOUS
<1>1. Init => F!Init
  BY InitInv
<1>2. Inv /\ BannerInv /\ [Next]_vars => [F!Next]_(F!fvars)
  BY FramerStep
<1>3. Spec => []BannerInv
  BY BannerInvariance
<1>4. QED
  BY <1>1, <1>2, <1>3, Invariance, PTL DEF Spec, F!Safety
================================================================================
