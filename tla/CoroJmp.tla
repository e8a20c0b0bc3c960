------------------------------ MODULE CoroJmp ------------------------------
(***************************************************************************)
(* 1/coro_jmp.h with the coroutines of 1/example_jmp.c: all of them on one  *)
(* stack, with the points to resume at and to return to saved by setjmp()   *)
(* in the coroutine.  One action is what runs from one longjmp() to the     *)
(* next.  A place in the code is named for what stands before it.           *)
(***************************************************************************)
EXTENDS Integers, Sequences, SequencesExt

CONSTANTS
  coro_count,
  MAX_DEEP     \* other_function() calls itself while deep is less

ASSUME CoroJmpAssumption == coro_count \in Nat \ {0} /\ MAX_DEEP \in Nat \ {0}

JmpIds == 0 .. coro_count - 1

VARIABLES
  jmp_coros,     \* coros[]
  curr_coro_i,
  at             \* where the code is that runs

jmp_vars == <<jmp_coros, curr_coro_i, at>>

this == jmp_coros[curr_coro_i]

\* Mutant: the last one goes on with itself.
LastStays(i) == IF i = coro_count - 1 THEN i ELSE i + 1

next_coro(i) == (i + 1) % coro_count

\* coro_yield() in coroutine curr_coro_i, now c, with the place behind it.
coro_yield_at(c, place) ==
  LET next == next_coro(curr_coro_i)
      cs   == [jmp_coros EXCEPT ![curr_coro_i] = [c EXCEPT !.exec_point = place]]
  IN  jmp_coros' = cs /\ curr_coro_i' = next /\ at' = cs[next].exec_point

\* Mutant: the capacity is compared with the number of points in use.
GrowsLate(c) == Len(c.ret_points) > c.ret_capacity

Grows(c) == Len(c.ret_points) + 1 > c.ret_capacity

\* coro_call() in coroutine c up to the call: the point to return to is
\* saved, in memory that has grown if it must.
coro_call(c, place) ==
  [c EXCEPT !.ret_points = Append(@, place),
            !.ret_capacity = IF Grows(c) THEN (@ + 1) * 2 ELSE @]

\* coro_return(): the last point is taken off and jumped to.
coro_return(c) ==
  /\ jmp_coros' = [jmp_coros EXCEPT ![curr_coro_i] = [c EXCEPT !.ret_points = Front(@)]]
  /\ at' = Last(c.ret_points) /\ UNCHANGED curr_coro_i

-----------------------------------------------------------------------------
\* main() calls my_coroutine(), first for coroutine 0 and then for each that
\* is resumed in coro_init().
Start == at = "coro_init" /\ coro_yield_at(coro_call(this, "main"), "first yield")

Again == at = "first yield" /\ coro_yield_at(this, "second yield")

\* my_coroutine() calls other_function(), which yields.
CallOther ==
  at = "second yield" /\ coro_yield_at(coro_call(this, "my_coroutine"), "other_function")

Other ==
  LET deeper == [this EXCEPT !.deep = @ + 1]
  IN  /\ at = "other_function"
      /\ IF deeper.deep < MAX_DEEP
           THEN coro_yield_at(coro_call(deeper, "recursion"), "other_function")
           ELSE coro_return(deeper)

OtherEnds == at = "recursion" /\ coro_return(this)

\* coro_finish()
coro_finish ==
  /\ at = "my_coroutine"
  /\ jmp_coros' = [jmp_coros EXCEPT ![curr_coro_i].is_finished = TRUE]
  /\ at' = "coro_wait_all" /\ UNCHANGED curr_coro_i

\* One iteration of coro_wait_all(); behind the loop my_coroutine() returns
\* to main().
coro_wait_all ==
  /\ at = "coro_wait_all"
  /\ IF \A i \in JmpIds : jmp_coros[i].is_finished
       THEN at' = "main" /\ UNCHANGED <<jmp_coros, curr_coro_i>>
       ELSE coro_yield_at(this, "coro_wait_all")

-----------------------------------------------------------------------------
JmpInit ==
  /\ jmp_coros = [i \in JmpIds |-> [exec_point |-> "coro_init", ret_points |-> <<>>,
                                    ret_capacity |-> 0, is_finished |-> FALSE, deep |-> 0]]
  /\ curr_coro_i = 0 /\ at = "coro_init"

JmpNext == Start \/ Again \/ CallOther \/ Other \/ OtherEnds \/ coro_finish \/ coro_wait_all

-----------------------------------------------------------------------------
\* Where a coroutine is: the others are where they will be resumed.
Place(i) == IF i = curr_coro_i THEN at ELSE jmp_coros[i].exec_point

\* The calls a coroutine is in at a place, by the example's code.
Calls(c, place) ==
  CASE place = "coro_init" -> <<>>
    [] place \in {"first yield", "second yield", "my_coroutine", "coro_wait_all", "main"} -> <<"main">>
    [] place = "other_function" -> <<"main", "my_coroutine">> \o [d \in 1 .. c.deep |-> "recursion"]
    [] OTHER -> SubSeq(c.ret_points, 1, Len(c.ret_points))

\* Each coroutine has saved a point to return to for each call it is in and
\* no other, in memory that holds them, however the calls and returns of the
\* coroutines are interleaved; so each return goes back to its own caller,
\* the calls nest, and main() goes on when all of them have finished.
JmpSound ==
  /\ \A i \in JmpIds :
       LET c == jmp_coros[i]
       IN  /\ c.ret_points = Calls(c, Place(i))
           /\ Place(i) = "recursion" => /\ Len(c.ret_points) \in 2 .. MAX_DEEP
                                        /\ IsPrefix(c.ret_points, Calls(c, "other_function"))
           /\ Len(c.ret_points) <= c.ret_capacity
           /\ c.is_finished => c.deep = MAX_DEEP
  /\ at = "main" => \A i \in JmpIds : jmp_coros[i].is_finished
=============================================================================
