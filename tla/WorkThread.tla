------------------------------- MODULE WorkThread -------------------------------
(***************************************************************************)
(* The work thread of EventDispatcher (src/src/EventDispatcher.cpp), which *)
(* StreamParser repeats line for line: a queue under a mutex, a condition  *)
(* variable, an atomic run flag, and a thread that swaps the queue with a  *)
(* local vector and handles that vector without the mutex.                 *)
(*                                                                         *)
(* The steps are as fine as the C++ memory and lock operations that other  *)
(* threads can come between.  In particular the destructor clears the run  *)
(* flag and notifies WITHOUT the mutex, so both can fall between the       *)
(* thread's test of the predicate and its going to sleep.                  *)
(*                                                                         *)
(* What handling an item does is left to the module that uses this one:    *)
(* it conjoins its own effect with HandleBatch and HandleDrain, whose      *)
(* current item is Current.                                                *)
(***************************************************************************)
EXTENDS Naturals, Sequences

CONSTANTS Item,         \* what is queued
          MaxPending    \* bound on the items queued or swapped out at one time

ASSUME MaxPendingAssumption == MaxPending \in Nat \ {0}

VARIABLES
    queue,         \* events_ / stream_chunks_: filled by other threads
    batch,         \* events / stream_chunks, the thread's local vector: the items left of it
    worker,        \* where the work thread stands
    thread_run_,   \* the atomic flag
    stopper        \* how far the destructor's stop_work_thread has got

wvars == <<queue, batch, worker, thread_run_, stopper>>

\* "check"  : at the loop condition          "test"   : holds the mutex, predicate not evaluated
\* "block"  : predicate was false, about to sleep, still holds the mutex
\* "asleep" : waiting, mutex released        "woken"  : notified, mutex not yet reacquired
\* "work"   : handling the swapped-out batch "drain"  : loop left, mutex held, emptying the queue
WorkerStates == {"check", "test", "block", "asleep", "woken", "work", "drain", "done"}
StopperStates == {"live", "flagged", "notified", "joined"}

-----------------------------------------------------------------------------
\* The constructor has reserved the vectors, set the flag and started the thread.
Init == /\ queue = <<>>
        /\ batch = <<>>
        /\ worker = "check"
        /\ thread_run_ = TRUE
        /\ stopper = "live"

MutexFree == worker \notin {"test", "block", "drain"}

\* notify_one: with nobody waiting the notification is lost.
Notified(w) == IF w = "asleep" THEN "woken" ELSE w

\* The item the thread handles next; in the drain it takes them from the queue itself.
Current == Head(IF worker = "drain" THEN queue ELSE batch)

-----------------------------------------------------------------------------
(* Faulty variants of single steps; module properties must tell them apart. *)

AddWithoutNotify(x) ==
    /\ stopper = "live" /\ MutexFree /\ Len(queue) + Len(batch) < MaxPending
    /\ queue' = Append(queue, x)
    /\ UNCHANGED <<batch, worker, thread_run_, stopper>>

AddWithoutMutex(x) ==
    /\ stopper = "live" /\ Len(queue) + Len(batch) < MaxPending
    /\ queue' = Append(queue, x)
    /\ worker' = Notified(worker)
    /\ UNCHANGED <<batch, thread_run_, stopper>>

\* The thread takes a copy of the queue's head and clears the queue.
SwapLosing ==
    /\ worker = "test"
    /\ ~thread_run_ \/ queue # <<>>
    /\ queue' = <<>>
    /\ batch' = IF queue = <<>> THEN <<>> ELSE <<Head(queue)>>
    /\ worker' = "work"
    /\ UNCHANGED <<thread_run_, stopper>>

FinishBatchEarly ==
    /\ worker = "work"
    /\ worker' = "check"
    /\ UNCHANGED <<queue, batch, thread_run_, stopper>>

StopWithoutNotify ==
    /\ stopper = "flagged"
    /\ stopper' = "notified"
    /\ UNCHANGED <<queue, batch, worker, thread_run_>>

-----------------------------------------------------------------------------
(* The feeding thread: add_event / add_buf, one critical section. *)

Add(x) ==
    /\ stopper = "live"
    /\ MutexFree
    /\ Len(queue) + Len(batch) < MaxPending
    /\ queue' = Append(queue, x)
    /\ worker' = Notified(worker)
    /\ UNCHANGED <<batch, thread_run_, stopper>>

(* The work thread. *)

\* The loop condition holds; take the mutex.
EnterLoop ==
    /\ worker = "check"
    /\ thread_run_
    /\ worker' = "test"
    /\ UNCHANGED <<queue, batch, thread_run_, stopper>>

\* The predicate of the wait is true: swap the vectors and release the mutex.
Swap ==
    /\ worker = "test"
    /\ ~thread_run_ \/ queue # <<>>
    /\ queue' = batch
    /\ batch' = queue
    /\ worker' = "work"
    /\ UNCHANGED <<thread_run_, stopper>>

\* The predicate is false: the decision to sleep is taken, sleep itself has not begun.
DecideToWait ==
    /\ worker = "test"
    /\ thread_run_
    /\ queue = <<>>
    /\ worker' = "block"
    /\ UNCHANGED <<queue, batch, thread_run_, stopper>>

\* Release the mutex and become a waiter, atomically with respect to lock holders only.
FallAsleep ==
    /\ worker = "block"
    /\ worker' = "asleep"
    /\ UNCHANGED <<queue, batch, thread_run_, stopper>>

\* A wakeup nobody asked for, which the standard permits and never promises.
SpuriousWakeup ==
    /\ worker = "asleep"
    /\ worker' = "woken"
    /\ UNCHANGED <<queue, batch, thread_run_, stopper>>

Reacquire ==
    /\ worker = "woken"
    /\ worker' = "test"
    /\ UNCHANGED <<queue, batch, thread_run_, stopper>>

HandleBatch ==
    /\ worker = "work"
    /\ batch # <<>>
    /\ batch' = Tail(batch)
    /\ UNCHANGED <<queue, worker, thread_run_, stopper>>

FinishBatch ==
    /\ worker = "work"
    /\ batch = <<>>
    /\ worker' = "check"
    /\ UNCHANGED <<queue, batch, thread_run_, stopper>>

\* The loop condition fails; take the mutex for the rest of the thread's life.
LeaveLoop ==
    /\ worker = "check"
    /\ ~thread_run_
    /\ worker' = "drain"
    /\ UNCHANGED <<queue, batch, thread_run_, stopper>>

HandleDrain ==
    /\ worker = "drain"
    /\ queue # <<>>
    /\ queue' = Tail(queue)
    /\ UNCHANGED <<batch, worker, thread_run_, stopper>>

Exit ==
    /\ worker = "drain"
    /\ queue = <<>>
    /\ worker' = "done"
    /\ UNCHANGED <<queue, batch, thread_run_, stopper>>

(* The destructor: stop_work_thread, without the mutex. *)

ClearRunFlag ==
    /\ stopper = "live"
    /\ thread_run_' = FALSE
    /\ stopper' = "flagged"
    /\ UNCHANGED <<queue, batch, worker>>

NotifyStop ==
    /\ stopper = "flagged"
    /\ worker' = Notified(worker)
    /\ stopper' = "notified"
    /\ UNCHANGED <<queue, batch, thread_run_>>

Join ==
    /\ stopper = "notified"
    /\ worker = "done"
    /\ stopper' = "joined"
    /\ UNCHANGED <<queue, batch, worker, thread_run_>>

-----------------------------------------------------------------------------
Handle == HandleBatch \/ HandleDrain

\* The worker's own steps that touch no item, spurious wakeups apart.
Housekeeping == \/ EnterLoop \/ Swap \/ DecideToWait \/ FallAsleep \/ Reacquire
                \/ FinishBatch \/ LeaveLoop \/ Exit

Stop == ClearRunFlag \/ NotifyStop \/ Join

\* Nothing is left to do once the thread has been joined.
Terminated == stopper = "joined" /\ UNCHANGED wvars

Next == \/ \E x \in Item : Add(x)
        \/ Handle
        \/ Housekeeping
        \/ SpuriousWakeup
        \/ Stop
        \/ Terminated

Spec == Init /\ [][Next]_wvars

\* The scheduler runs the work thread, and a destructor that has begun goes on;
\* nothing makes a client add, destroy, or the runtime wake a waiter spuriously.
Fairness == /\ WF_wvars(Handle)
            /\ WF_wvars(Housekeeping)
            /\ WF_wvars(NotifyStop)
            /\ WF_wvars(Join)

FairSpec == Spec /\ Fairness

-----------------------------------------------------------------------------
(* Types, and what each control state says of the vectors: the local one is *)
(* empty outside the handling loop (events.clear()), so the swap hands an   *)
(* empty vector back, and the flag and the destructor agree.                *)
TypeOK ==
    /\ queue \in Seq(Item)
    /\ batch \in Seq(Item)
    /\ worker \in WorkerStates
    /\ thread_run_ \in BOOLEAN
    /\ stopper \in StopperStates
    /\ worker # "work" => batch = <<>>
    /\ thread_run_ <=> stopper = "live"
    /\ worker \in {"drain", "done"} => ~thread_run_
    /\ stopper = "joined" => worker = "done"

(* No lost wakeup for those who add: from its decision to sleep until it is *)
(* woken, the thread has an empty queue in front of it                      *)
(* (EventDispatcher::work_thread and add_event, StreamParser likewise).     *)
SleepsOnlyWhenIdle == worker \in {"block", "asleep"} => queue = <<>>

(* The thread leaves nothing behind when it ends (the drain after the loop). *)
DoneMeansDrained == worker = "done" => queue = <<>> /\ batch = <<>>

(* The work thread is a FIFO channel that loses and repeats nothing, also   *)
(* across the hand-over from the loop to the drain at destruction.          *)
Q == INSTANCE WorkQueue
        WITH chan  <- batch \o queue,
             phase <- IF stopper = "live" THEN "open"
                      ELSE IF stopper = "joined" THEN "closed" ELSE "closing"

ImplementsWorkQueue == Q!Spec

(* Whatever is added is handled: neither vector stays non-empty for ever. *)
WorkIsHandled == /\ queue # <<>> ~> queue = <<>>
                 /\ batch # <<>> ~> batch = <<>>

(* A destructor that clears the flag anywhere but in the one window between *)
(* the thread's failed test and its sleep gets its thread back.             *)
StopOutsideWindowJoins ==
    (stopper = "flagged" /\ worker # "block") ~> stopper = "joined"

(* EventDispatcher.hpp:119 and StreamParser.hpp:56 say of stop_work_thread: *)
(* "Stops the work thread."                                                 *)
StopJoins == stopper = "flagged" ~> stopper = "joined"
================================================================================
