------------------------------- MODULE Wakeup -------------------------------
(***************************************************************************)
(* The two programs of lecture_examples/4_signals that wait for a signal    *)
(* to be handled: with pause() (2_pause_hangs.c) and with the signal        *)
(* blocked up to sigsuspend() (9_sigsuspend.c).  They begin when the handler *)
(* is installed: a signal before that ends the process.                     *)
(***************************************************************************)
EXTENDS Naturals

CONSTANT MAX_SENT   \* bounds the signals that are sent

ASSUME WakeupAssumption == MAX_SENT \in Nat

VARIABLES
  wait_by,
  wait_at,      \* where the program is
  blocked,
  pending,      \* signals of one kind are not counted
  received,     \* calls of on_new_signal()
  signals_sent

wakeup_vars == <<wait_by, wait_at, blocked, pending, received, signals_sent>>

Then(from, to) == wait_at = from /\ wait_at' = to

SendSignal ==
  /\ signals_sent < MAX_SENT /\ signals_sent' = signals_sent + 1 /\ pending' = TRUE
  /\ UNCHANGED <<wait_by, wait_at, blocked, received>>

\* The kernel calls the handler, and pause() returns after that.
on_new_signal ==
  /\ pending /\ ~blocked /\ pending' = FALSE /\ received' = received + 1
  /\ wait_at' = IF wait_at = "pause" THEN "test" ELSE wait_at
  /\ UNCHANGED <<wait_by, blocked, signals_sent>>

TestReceived ==
  /\ wait_by = "pause" /\ Then("test", IF received > 0 THEN "end" ELSE "read")
  /\ UNCHANGED <<wait_by, blocked, pending, received, signals_sent>>

\* interrupt() reads a character, and pause() is called.
Pause ==
  /\ Then("read", "pause")
  /\ UNCHANGED <<wait_by, blocked, pending, received, signals_sent>>

TestFinished ==
  /\ wait_by = "sigsuspend" /\ Then("test", IF received = 1 THEN "restore" ELSE "suspend")
  /\ UNCHANGED <<wait_by, blocked, pending, received, signals_sent>>

\* sigsuspend() unblocks, waits and blocks again in one, around the handler.
Sigsuspend ==
  /\ Then("suspend", "test") /\ pending /\ pending' = FALSE
  /\ received' = received + 1
  /\ UNCHANGED <<wait_by, blocked, signals_sent>>

RestoreMask ==
  /\ Then("restore", "end") /\ blocked' = FALSE
  /\ UNCHANGED <<wait_by, pending, received, signals_sent>>

\* Mutant: the signal is not blocked before the loop.
BlocksNone == {}
BlockedBy == {"sigsuspend"}

WakeupInit ==
  /\ wait_by \in {"pause", "sigsuspend"} /\ wait_at = "test"
  /\ blocked = (wait_by \in BlockedBy) /\ pending = FALSE /\ received = 0 /\ signals_sent = 0

WaiterRuns == on_new_signal \/ TestReceived \/ Pause \/ TestFinished \/ Sigsuspend \/ RestoreMask

WakeupNext == SendSignal \/ WaiterRuns

-----------------------------------------------------------------------------
\* With sigsuspend() a signal that comes after the test is still there when
\* the program begins to wait, and the loop is left after one call of the
\* handler, without a second before the mask is restored.
WakeupSound ==
  wait_by = "sigsuspend" =>
    /\ wait_at = "suspend" => received = 0 /\ (signals_sent > 0 => pending)
    /\ wait_at = "restore" => received = 1
    /\ wait_at # "end" => received <= 1
=============================================================================
