------------------------------ MODULE StreamParser ------------------------------
(***************************************************************************)
(* StreamParser: its work thread (module WorkThread) takes chunks of the   *)
(* socket stream off a queue, splits off the banner line, and cuts the     *)
(* rest into AMI messages, which it dispatches one by one.                 *)
(*                                                                         *)
(* Chunks, the event buffer and messages are pieces of one stream, so they *)
(* are kept as pairs of positions <<from, to>> in it: bytes from+1 .. to.  *)
(* Bytes are told apart as CR, LF and the rest.                            *)
(***************************************************************************)
EXTENDS Naturals, Sequences

CONSTANTS Streams,      \* what the server may send, banner line first
          BannerWhole,  \* whether the first read returns at least the banner line
          MaxPending    \* bound on the chunks queued at one time (WorkThread)

ASSUME BannerWholeAssumption == BannerWhole \in BOOLEAN

VARIABLES
    stream_chunks_, stream_chunks, worker, thread_run_, stopper,   \* of the work thread
    stream,        \* what the server sends
    read,          \* how many bytes of it the reader has passed to add_buf
    first_event_,  \* no chunk has been processed
    event_buf_,    \* the piece not yet dispatched; empty when from = to, wherever that is
    eom_loc,       \* process_chunk's local: end of the message found in it, NPos for none
    version,       \* the piece given to set_ami_version_, <<>> before that
    dispatched     \* the pieces given to dispatch_

W == INSTANCE WorkThread WITH Item <- Nat \X Nat, queue <- stream_chunks_, batch <- stream_chunks
F == INSTANCE Framer WITH received <- read, frames <- dispatched

threadVars == <<stream_chunks_, stream_chunks, worker, thread_run_, stopper>>
bufVars    == <<first_event_, event_buf_, eom_loc, version, dispatched>>
vars       == <<threadVars, stream, read, bufVars>>

NPos == F!NPos

\* The server begins with a line, the banner.
ASSUME StreamsAssumption ==
    \A s \in Streams : /\ s \in Seq(F!Byte)
                       /\ \E p \in 2 .. Len(s) : SubSeq(s, p - 1, p) = F!EOR

Init == /\ W!Init
        /\ stream \in Streams
        /\ read = 0
        /\ first_event_ = TRUE
        /\ event_buf_ = <<0, 0>>
        /\ eom_loc = NPos
        /\ version = <<>>
        /\ dispatched = <<>>

Empty(piece) == piece[1] = piece[2]
Length(piece) == piece[2] - piece[1]

-----------------------------------------------------------------------------
(* Faulty variants of single steps. *)

\* Backs off one byte too few from the chunk boundary.
ScanStartLate(buf) == IF Length(buf) < Len(F!EOM) THEN buf[1] ELSE buf[2] - Len(F!EOM) + 2

\* Looks for the message in the new chunk only.
ScanStartAtChunk(buf) == buf[2]

-----------------------------------------------------------------------------
(* The reader thread: a chunk of any length, never empty. *)
AddBuf(to) ==
    /\ to \in read + 1 .. Len(stream)
    /\ (BannerWhole /\ read = 0) => to >= F!Banner
    /\ W!Add(<<read, to>>)
    /\ read' = to
    /\ UNCHANGED <<stream, bufVars>>

(* process_chunk, on the work thread. *)

\* Where the search for the end of a message resumes once a chunk is appended.
ScanStart(buf) == IF Length(buf) < Len(F!EOM) THEN buf[1] ELSE buf[2] - Len(F!EOM) + 1

Buffer(chunk) ==
    IF Empty(event_buf_)
    THEN /\ event_buf_' = chunk
         /\ eom_loc' = F!EndOfFirst(F!EOM, chunk[1], chunk[2])
    ELSE /\ event_buf_' = <<event_buf_[1], chunk[2]>>
         /\ eom_loc' = F!EndOfFirst(F!EOM, ScanStart(event_buf_), chunk[2])

\* A faulty variant of the next: takes the end of the line for part of the version.
ProcessFirstChunkAsLine(chunk) ==
    LET eor == F!EndOfFirst(F!EOR, chunk[1], chunk[2])
    IN  /\ first_event_
        /\ first_event_' = FALSE
        /\ version' = <<chunk[1], eor>>
        /\ IF eor = chunk[2] THEN event_buf_' = <<eor, eor>> /\ UNCHANGED eom_loc
                             ELSE Buffer(<<eor, chunk[2]>>)

\* The first chunk.  Without an end of line in it the whole chunk is taken for the
\* version, and npos + 2 wraps round to 1: one byte is erased.
ProcessFirstChunk(chunk) ==
    LET eor  == F!EndOfFirst(F!EOR, chunk[1], chunk[2])
        rest == <<IF eor = NPos THEN chunk[1] + 1 ELSE eor, chunk[2]>>
    IN  /\ first_event_
        /\ first_event_' = FALSE
        /\ version' = IF eor = NPos THEN chunk ELSE <<chunk[1], eor - Len(F!EOR)>>
        /\ IF Empty(rest) THEN event_buf_' = rest /\ UNCHANGED eom_loc ELSE Buffer(rest)

ProcessLaterChunk(chunk) ==
    /\ ~first_event_
    /\ Buffer(chunk)
    /\ UNCHANGED <<first_event_, version>>

ProcessChunk ==
    /\ eom_loc = NPos
    /\ W!Handle
    /\ ProcessFirstChunk(W!Current) \/ ProcessLaterChunk(W!Current)
    /\ UNCHANGED <<stream, read, dispatched>>

\* The buffer is one message: it is moved out, which leaves it empty.
DispatchWhole ==
    /\ eom_loc # NPos
    /\ eom_loc = event_buf_[2]
    /\ dispatched' = Append(dispatched, event_buf_)
    /\ event_buf_' = <<eom_loc, eom_loc>>
    /\ eom_loc' = NPos
    /\ UNCHANGED <<first_event_, version, threadVars, stream, read>>

\* The buffer begins with a message and goes on.
DispatchFirst ==
    /\ eom_loc \notin {NPos, event_buf_[2]}
    /\ dispatched' = Append(dispatched, <<event_buf_[1], eom_loc>>)
    /\ event_buf_' = <<eom_loc, event_buf_[2]>>
    /\ eom_loc' = F!EndOfFirst(F!EOM, eom_loc, event_buf_[2])
    /\ UNCHANGED <<first_event_, version, threadVars, stream, read>>

\* The work thread goes on once process_chunk has returned.
ThreadStep ==
    /\ \/ eom_loc = NPos /\ W!Housekeeping
       \/ W!SpuriousWakeup
       \/ W!Stop
    /\ UNCHANGED <<stream, read, bufVars>>

Terminated == stopper = "joined" /\ UNCHANGED vars

ParserStep == ProcessChunk \/ DispatchWhole \/ DispatchFirst

Next == \/ \E to \in 1 .. Len(stream) : AddBuf(to)
        \/ ParserStep
        \/ ThreadStep
        \/ Terminated

\* The work thread runs; nothing is asked of the server, the reader or the destructor.
Fairness == /\ WF_vars(ParserStep)
            /\ WF_vars(W!Housekeeping /\ eom_loc = NPos /\ UNCHANGED <<stream, read, bufVars>>)

Spec == Init /\ [][Next]_vars /\ Fairness

-----------------------------------------------------------------------------
Piece == Nat \X Nat

\* The pieces of s abut, the first at from and the last at to.
Abut(s, from, to) == /\ s = <<>> => from = to
                     /\ s # <<>> => s[1][1] = from /\ s[Len(s)][2] = to
                     /\ \A i \in DOMAIN s : s[i][1] < s[i][2] /\ (i > 1 => s[i - 1][2] = s[i][1])

(* Types; and the buffer and the queued chunks together are the unparsed    *)
(* tail of what has been read, in order and without gaps.                   *)
TypeOK ==
    /\ W!TypeOK
    /\ stream \in Streams
    /\ read \in 0 .. Len(stream)
    /\ first_event_ \in BOOLEAN
    /\ event_buf_ \in Piece /\ event_buf_[1] <= event_buf_[2]
    /\ eom_loc \in {NPos} \cup event_buf_[1] + 1 .. event_buf_[2]
    /\ version \in Piece \cup {<<>>}
    /\ dispatched \in Seq(Piece)
    /\ Abut(stream_chunks \o stream_chunks_, event_buf_[2], read)

(* No complete message stays in the buffer: the search that resumes near    *)
(* the end of the old buffer misses no end-of-message sequence that         *)
(* straddles the chunk boundary.                                            *)
NothingHeldBack == eom_loc = NPos => F!Ends(F!EOM, event_buf_[1], event_buf_[2]) = {}

(* Connection.hpp, get_ami_version: "Returns the AMI server version".  What *)
(* the version callback gets is the banner line.                            *)
VersionIsBanner == ~first_event_ => version = <<0, F!Banner - Len(F!EOR)>>

(* Messages come out as the stream has them, whatever the chunks were, and  *)
(* each one that has been read comes out in the end, also when the parser   *)
(* is being destroyed.                                                      *)
ImplementsFramer == F!Spec
================================================================================
