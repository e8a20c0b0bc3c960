-------------------------------- MODULE Sync --------------------------------
(***************************************************************************)
(* The examples in which threads or processes wait for one another: locks   *)
(* (Locks), condition variables (Condvar), workers and their parent         *)
(* (Handoff), event sources and consumers (SemEvents), and programs that    *)
(* wait for a signal (Wakeup).  A behaviour is one of one of the examples.  *)
(***************************************************************************)
EXTENDS Locks, Condvar, Handoff, SemEvents, Wakeup

VARIABLE example

sync_vars == <<example, locks_vars, condvar_vars, handoff_vars, events_vars, wakeup_vars>>

\* The variables of the others have some initial value.
Init ==
  /\ example \in {"locks", "condvar", "handoff", "events", "wakeup"}
  /\ LocksInit /\ CondvarInit /\ HandoffInit /\ EventsInit /\ WakeupInit
  /\ example # "locks" => lock_kind = "atomic"
  /\ example # "condvar" => cv_kind = "simple"
  /\ example # "handoff" => channel = "pipe" /\ handoff_input = CHOOSE i \in HandoffInputs : TRUE
  /\ example # "wakeup" => wait_by = "pause"

Steps(name, step) ==
  /\ example = name /\ step /\ UNCHANGED example
  /\ IF name = "locks"   THEN TRUE ELSE UNCHANGED locks_vars
  /\ IF name = "condvar" THEN TRUE ELSE UNCHANGED condvar_vars
  /\ IF name = "handoff" THEN TRUE ELSE UNCHANGED handoff_vars
  /\ IF name = "events"  THEN TRUE ELSE UNCHANGED events_vars
  /\ IF name = "wakeup"  THEN TRUE ELSE UNCHANGED wakeup_vars

Next ==
  \/ Steps("locks", LocksNext) \/ Steps("condvar", CondvarNext)
  \/ Steps("handoff", HandoffNext) \/ Steps("events", EventsNext)
  \/ Steps("wakeup", WakeupNext)

\* Every thread and process runs on, and who asks for a mutex time and again
\* gets it.
Spec ==
  /\ Init /\ [][Next]_sync_vars
  /\ \A t \in Threads : WF_sync_vars(Steps("locks", ThreadStep(t)))
  /\ WF_sync_vars(Steps("condvar", SignallerStep))
  /\ SF_sync_vars(Steps("condvar", LockAgain))
  /\ \A w \in Waiters :
       WF_sync_vars(Steps("condvar", WaiterStep(w))) /\ SF_sync_vars(Steps("condvar", LockEvent(w)))
  /\ WF_sync_vars(Steps("handoff", ParentStep))
  /\ \A w \in UNION {DOMAIN input : input \in HandoffInputs} :
       WF_sync_vars(Steps("handoff", w \in Ids /\ WorkerStep(w)))
  /\ WF_sync_vars(Steps("wakeup", WaiterRuns))

-----------------------------------------------------------------------------
\* Whoever wakes whom: all threads that share a lock return, a signaller
\* gets through all its calls, the parent has the numbers of all its workers,
\* which end, and so does the program that waits in sigsuspend() when a
\* signal comes; pause() must be called before that.
AllEnd ==
  /\ example = "locks" ~> LocksEnd
  /\ example = "condvar" ~> CondvarEnd
  /\ example = "handoff" ~> HandoffEnd
  /\ (example = "wakeup" /\ pending /\ (wait_by = "pause" => wait_at = "pause")) ~> (wait_at = "end")
=============================================================================
