------------------------------ MODULE Condvar ------------------------------
(***************************************************************************)
(* The condition variables of lecture_examples/6_threads made of a mutex    *)
(* that the signaller holds between signals: 13_simple_condvar.c ("simple") *)
(* and 14_condvar.c ("counted"), which counts the waiters and waits until   *)
(* one has taken the event.                                                 *)
(***************************************************************************)
EXTENDS Naturals, FiniteSets

CONSTANTS
  Waiters,
  MAX_SIGNALS   \* bounds the calls of condvar_signal()

VARIABLES
  cv_kind,
  event_lock,     \* who holds the mutex
  is_event_set,
  wait_count,
  signaller,      \* where main() is
  wpc,            \* where each waiter is
  signals,        \* calls of condvar_signal() that have begun
  sent, taken,    \* events that have been set, and taken by a waiter
  entered         \* whether a waiter has had the mutex since the last was set

condvar_vars ==
  <<cv_kind, event_lock, is_event_set, wait_count, signaller, wpc, signals, sent, taken, entered>>

MAIN_THREAD == "main thread"
FREE == "free"

ASSUME CondvarAssumption ==
  IsFiniteSet(Waiters) /\ MAX_SIGNALS \in Nat /\ Waiters \cap {MAIN_THREAD, FREE} = {}

Waits(w, from, to) == wpc[w] = from /\ wpc' = [wpc EXCEPT ![w] = to]
Signals(from, to) == signaller = from /\ signaller' = to

-----------------------------------------------------------------------------
(* condvar_signal() *)

CountWaiters ==
  /\ signaller = "idle" /\ signals < MAX_SIGNALS /\ signals' = signals + 1
  /\ signaller' = (IF cv_kind = "counted" /\ wait_count = 0 THEN "idle" ELSE "set")
  /\ UNCHANGED <<cv_kind, event_lock, is_event_set, wait_count, wpc, sent, taken, entered>>

SetEvent ==
  /\ Signals("set", "unlock")
  /\ is_event_set' = TRUE /\ sent' = sent + 1 /\ entered' = FALSE
  /\ UNCHANGED <<cv_kind, event_lock, wait_count, wpc, signals, taken>>

UnlockEvent ==
  /\ Signals("unlock", IF cv_kind = "counted" THEN "spin" ELSE "lock")
  /\ event_lock' = FREE
  /\ UNCHANGED <<cv_kind, is_event_set, wait_count, wpc, signals, sent, taken, entered>>

\* Without the mutex.
SpinOnEvent ==
  /\ Signals("spin", "lock") /\ ~is_event_set
  /\ UNCHANGED <<cv_kind, event_lock, is_event_set, wait_count, wpc, signals, sent, taken, entered>>

LockAgain ==
  /\ Signals("lock", "reset") /\ event_lock = FREE
  /\ event_lock' = MAIN_THREAD
  /\ UNCHANGED <<cv_kind, is_event_set, wait_count, wpc, signals, sent, taken, entered>>

ResetEvent ==
  /\ Signals("reset", "idle")
  /\ is_event_set' = FALSE
  /\ UNCHANGED <<cv_kind, event_lock, wait_count, wpc, signals, sent, taken, entered>>

-----------------------------------------------------------------------------
(* condvar_wait(), and the loop around it *)

BeginWait(w) ==
  /\ Waits(w, "begin", "try")
  /\ wait_count' = IF cv_kind = "counted" THEN wait_count + 1 ELSE wait_count
  /\ UNCHANGED <<cv_kind, event_lock, is_event_set, signaller, signals, sent, taken, entered>>

LockEvent(w) ==
  /\ Waits(w, "try", "check") /\ event_lock = FREE
  /\ event_lock' = w /\ entered' = TRUE
  /\ UNCHANGED <<cv_kind, is_event_set, wait_count, signaller, signals, sent, taken>>

\* Mutant: the event stays set.
LeavesEvent(w) == UNCHANGED is_event_set

TakesEvent(w) == is_event_set' = FALSE

CheckEvent(w) ==
  /\ wpc[w] = "check"
  /\ IF is_event_set THEN /\ Waits(w, "check", "leave") /\ TakesEvent(w) /\ taken' = taken + 1
                     ELSE /\ Waits(w, "check", "retry") /\ UNCHANGED <<is_event_set, taken>>
  /\ UNCHANGED <<cv_kind, event_lock, wait_count, signaller, signals, sent, entered>>

LeaveCount(w) ==
  /\ Waits(w, "leave", "done")
  /\ wait_count' = IF cv_kind = "counted" THEN wait_count - 1 ELSE wait_count
  /\ UNCHANGED <<cv_kind, event_lock, is_event_set, signaller, signals, sent, taken, entered>>

UnlockWaiter(w) ==
  /\ Waits(w, "done", "begin") \/ Waits(w, "retry", "try")
  /\ event_lock' = FREE
  /\ UNCHANGED <<cv_kind, is_event_set, wait_count, signaller, signals, sent, taken, entered>>

-----------------------------------------------------------------------------
\* condvar_create() has locked the mutex.
CondvarInit ==
  /\ cv_kind \in {"simple", "counted"}
  /\ event_lock = MAIN_THREAD /\ is_event_set = FALSE /\ wait_count = 0
  /\ signaller = "idle" /\ wpc = [w \in Waiters |-> "begin"]
  /\ signals = 0 /\ sent = 0 /\ taken = 0 /\ entered = FALSE

SignallerStep ==
  CountWaiters \/ SetEvent \/ UnlockEvent \/ SpinOnEvent \/ LockAgain \/ ResetEvent

WaiterStep(w) ==
  BeginWait(w) \/ LockEvent(w) \/ CheckEvent(w) \/ LeaveCount(w) \/ UnlockWaiter(w)

CondvarNext == SignallerStep \/ \E w \in Waiters : WaiterStep(w)

CondvarEnd == signals = MAX_SIGNALS /\ signaller = "idle"

-----------------------------------------------------------------------------
\* An event is taken by one waiter at most.  condvar_signal() clears one that
\* nobody has taken only when it got the mutex back before any waiter: the
\* first that has the mutex after the event was set takes it.  With the count
\* of waiters even that does not happen: the event is taken before
\* condvar_signal() returns, although the signaller looks at the event and at
\* the count without the mutex, and the count is right whenever main() could
\* read it as zero.
CondvarSound ==
  /\ taken <= sent
  /\ is_event_set => sent > taken /\ signaller \in {"unlock", "spin", "lock", "reset"}
  /\ is_event_set /\ signaller = "reset" => ~entered
  /\ cv_kind = "counted" =>
       /\ signaller \in {"idle", "set", "lock", "reset"} => taken = sent
       /\ sent <= taken + 1
       /\ wait_count = Cardinality({w \in Waiters : wpc[w] \notin {"begin", "done"}})
       /\ signaller = "set" => wait_count > 0
=============================================================================
