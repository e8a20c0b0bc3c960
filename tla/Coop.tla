-------------------------------- MODULE Coop --------------------------------
(***************************************************************************)
(* What a user of coroutines is promised: one of them runs at a time,       *)
(* control is given only to one that has not finished or to the main        *)
(* program, every coroutine finishes, and the main program goes on when     *)
(* all of them have.  1/main.c, 1/coro_jmp.h and 12_libcoro.c keep this     *)
(* promise in three ways (Coroutines).                                      *)
(***************************************************************************)
CONSTANTS Coros, MAIN

VARIABLES created, finished, running, ended

coop_vars == <<created, finished, running, ended>>

Alive == created \ finished

Init ==
  /\ created \subseteq Coros /\ finished = {} /\ ~ended
  /\ running \in created \cup {MAIN}

New(c) ==
  /\ c \notin created /\ created' = created \cup {c}
  /\ UNCHANGED <<finished, running, ended>>

Resume(c) ==
  /\ c \in Alive \cup {MAIN} /\ running' = c
  /\ UNCHANGED <<created, finished, ended>>

Finish(next) ==
  /\ running \in Alive
  /\ finished' = finished \cup {running}
  /\ next \in (Alive \ {running}) \cup {MAIN} /\ running' = next
  /\ UNCHANGED <<created, ended>>

End ==
  /\ running = MAIN /\ finished = created /\ ended' = TRUE
  /\ UNCHANGED <<created, finished, running>>

Next ==
  /\ ~ended
  /\ End \/ \E c \in Coros \cup {MAIN} : New(c) \/ Resume(c) \/ Finish(c)

Spec == Init /\ [][Next]_coop_vars /\ <>ended
=============================================================================
