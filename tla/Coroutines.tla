----------------------------- MODULE Coroutines -----------------------------
(***************************************************************************)
(* The three ways of the repository to switch between coroutines, each of   *)
(* which implements Coop: "sort" (CoroSort), "libcoro" (LibCoro) and "jmp"  *)
(* (CoroJmp).  A behaviour is one of one of the programs.                   *)
(***************************************************************************)
EXTENDS CoroSort, LibCoro, CoroJmp

CONSTANT MAIN    \* the main program, in the mapping

VARIABLE program

coroutines_vars == <<program, sort_vars, lib_vars, jmp_vars>>

Init ==
  /\ program \in {"sort", "libcoro", "jmp"}
  /\ SortInit /\ LibInit /\ JmpInit
  /\ program # "sort" => sort_input = CHOOSE files \in SortInputs : TRUE

Next ==
  /\ UNCHANGED program
  /\ \/ program = "sort" /\ SortNext /\ UNCHANGED <<lib_vars, jmp_vars>>
     \/ program = "libcoro" /\ LibNext /\ UNCHANGED <<sort_vars, jmp_vars>>
     \/ program = "jmp" /\ JmpNext /\ UNCHANGED <<sort_vars, lib_vars>>

\* One thread runs all of it, and a coroutine's function comes to its end.
Spec == Init /\ [][Next]_coroutines_vars /\ WF_coroutines_vars(Next)

-----------------------------------------------------------------------------
(* The refinement mapping *)

created ==
  CASE program = "sort" -> DOMAIN data
    [] program = "libcoro" -> {c \in LibIds : coros[c].memory # "none"}
    [] program = "jmp" -> JmpIds

finished ==
  CASE program = "sort" -> {n \in DOMAIN data : data[n].finished}
    [] program = "libcoro" -> {c \in LibIds : coros[c].is_finished}
    [] program = "jmp" -> {i \in JmpIds : jmp_coros[i].is_finished}

\* A coroutine that waits in coro_wait_all() is the main program of "jmp".
running ==
  CASE program = "sort" -> IF uctx = UCTX_MAIN THEN MAIN ELSE uctx
    [] program = "libcoro" -> IF control = SCHED THEN MAIN ELSE control
    [] program = "jmp" -> IF this.is_finished THEN MAIN ELSE curr_coro_i

ended ==
  CASE program = "sort" -> sort_main # "coros"
    [] program = "libcoro" -> sched = "ended"
    [] program = "jmp" -> at = "main"

AllCoros == JmpIds \cup LibIds \cup UNION {DOMAIN files : files \in SortInputs}

Promise == INSTANCE Coop WITH Coros <- AllCoros

\* Each library gives control only to coroutines that have not finished,
\* and lets the main program go on exactly when all of them have, which in
\* the end they do, whenever they yield and whichever is created while
\* others run.
Cooperates == Promise!Spec
=============================================================================
