------------------------------ MODULE LibCoro ------------------------------
(***************************************************************************)
(* lecture_examples/4_signals/12_libcoro.c: coroutines whose contexts were  *)
(* saved on stacks of their own by a signal handler, in a doubly linked     *)
(* list that the scheduler, which is the main program, goes through.  What  *)
(* a coroutine's function does, and what the main program does between its  *)
(* calls, are inputs.                                                       *)
(***************************************************************************)
EXTENDS Naturals, Sequences, FiniteSetsExt

CONSTANTS
  LibIds,      \* coroutines that may be created
  MAX_YIELDS   \* bounds the calls of coro_yield() by a coroutine

NULL == "NULL"
SCHED == "coro_sched"

ASSUME LibCoroAssumption ==
  /\ IsFiniteSet(LibIds) /\ NULL \notin LibIds /\ SCHED \notin LibIds
  /\ MAX_YIELDS \in Nat

VARIABLES
  coros,             \* struct coro of each, with what malloc() has given out
  coro_this_ptr,
  coro_list,
  is_sched_waiting,
  control,           \* whose context runs
  sched              \* where the main program is

lib_vars == <<coros, coro_this_ptr, coro_list, is_sched_waiting, control, sched>>

\* ctx is coro_this_ptr as coro_body() or coro_yield_to() will set it when
\* the context is resumed.
NoCoro == [memory |-> "none", is_finished |-> FALSE, next |-> NULL, prev |-> NULL,
           ctx |-> NULL, yields |-> 0]

\* What is reached from the head by the next pointers.
Links(l) ==
  /\ coro_list = IF l = <<>> THEN NULL ELSE l[1]
  /\ \A i \in DOMAIN l : coros[l[i]].next = IF i = Len(l) THEN NULL ELSE l[i + 1]

Lists == UNION {[1 .. n -> LibIds] : n \in 0 .. Cardinality(LibIds)}
List == CHOOSE l \in Lists : Links(l)

-----------------------------------------------------------------------------
(* The list *)

\* Mutant: the next one keeps its link to the one that is gone.
DeletedButPrev(cs, c) ==
  [d \in LibIds |-> IF d = cs[c].prev THEN [cs[d] EXCEPT !.next = cs[c].next] ELSE cs[d]]

\* coro_list_delete(c) on the links; the list's head is set by its caller.
coro_list_delete(cs, c) ==
  [d \in LibIds |->
     IF d = cs[c].prev THEN [cs[d] EXCEPT !.next = cs[c].next]
     ELSE IF d = cs[c].next THEN [cs[d] EXCEPT !.prev = cs[c].prev]
     ELSE cs[d]]

coro_list_add(cs, c) ==
  [d \in LibIds |->
     IF d = c THEN [cs[d] EXCEPT !.next = coro_list, !.prev = NULL]
     ELSE IF d = coro_list THEN [cs[d] EXCEPT !.prev = c]
     ELSE cs[d]]

-----------------------------------------------------------------------------
(* Switching *)

\* siglongjmp(to->ctx) and what the context does when it is resumed: the
\* scheduler's is followed by is_sched_waiting = false.
Jump(cs, to) ==
  /\ control' = to
  /\ coro_this_ptr' = IF to = SCHED THEN SCHED ELSE cs[to].ctx

\* Called by a coroutine's function or by the main program.  coro_body()
\* has run on the new stack, and the list is changed last.
coro_new(c) ==
  /\ \/ control # SCHED
     \/ control = SCHED /\ sched = "user"
  /\ coros[c].memory = "none"
  /\ coros' = coro_list_add([coros EXCEPT ![c].memory = "used", ![c].ctx = c], c)
  /\ coro_list' = c
  /\ UNCHANGED <<coro_this_ptr, is_sched_waiting, control, sched>>

\* coro_yield() and coro_yield_to() in a coroutine.
coro_yield ==
  LET from == coro_this_ptr
      to   == IF coros[from].next = NULL THEN SCHED ELSE coros[from].next
      cs   == [coros EXCEPT ![from].ctx = from, ![from].yields = @ + 1]
  IN  /\ control # SCHED /\ coros[control].yields < MAX_YIELDS
      /\ coros' = cs /\ Jump(cs, to)
      /\ UNCHANGED <<coro_list, is_sched_waiting, sched>>

\* The function of a coroutine returns, in coro_body(), whose variable c is
\* the coroutine itself.
coro_end ==
  /\ control # SCHED
  /\ coros' = [coros EXCEPT ![control].is_finished = TRUE]
  /\ IF is_sched_waiting THEN Jump(coros, SCHED) /\ UNCHANGED sched
     ELSE sched' = "no place to return" /\ UNCHANGED <<control, coro_this_ptr>>
  /\ UNCHANGED <<coro_list, is_sched_waiting>>

\* One iteration of the loop of coro_sched_wait(), which the main program
\* calls ("user") or which coro_yield_to() comes back to ("waiting").
coro_sched_wait ==
  LET ends == {i \in DOMAIN List : coros[List[i]].is_finished}
      done == List[Min(ends)]
  IN  /\ control = SCHED /\ sched \in {"user", "waiting"}
      /\ IF coro_list = NULL
           THEN /\ sched' = "ended" /\ is_sched_waiting' = FALSE
                /\ UNCHANGED <<coros, coro_list, control, coro_this_ptr>>
         ELSE IF ends # {}
           THEN /\ coros' = [coro_list_delete(coros, done) EXCEPT ![done].memory = "returned"]
                /\ coro_list' = IF coros[done].prev = NULL THEN coros[done].next ELSE coro_list
                /\ sched' = "user" /\ is_sched_waiting' = FALSE
                /\ UNCHANGED <<control, coro_this_ptr>>
           ELSE /\ is_sched_waiting' = TRUE /\ sched' = "waiting"
                /\ Jump(coros, coro_list)
                /\ UNCHANGED <<coros, coro_list>>

coro_delete(c) ==
  /\ control = SCHED /\ sched = "user" /\ coros[c].memory = "returned"
  /\ coros' = [coros EXCEPT ![c].memory = "freed"]
  /\ UNCHANGED <<coro_this_ptr, coro_list, is_sched_waiting, control, sched>>

-----------------------------------------------------------------------------
\* After coro_sched_init().
LibInit ==
  /\ coros = [c \in LibIds |-> NoCoro]
  /\ coro_this_ptr = SCHED /\ coro_list = NULL /\ is_sched_waiting = FALSE
  /\ control = SCHED /\ sched = "user"

LibNext ==
  \/ coro_yield \/ coro_end \/ coro_sched_wait
  \/ \E c \in LibIds : coro_new(c) \/ coro_delete(c)

-----------------------------------------------------------------------------
\* The list holds each coroutine that the scheduler has not returned once,
\* linked both ways, and nothing that may be freed; the one that runs is in
\* it, has not finished, is what coro_this() tells, and has the scheduler
\* to come back to, although coroutines come and go while others are in the
\* middle of a pass through the list.
LibSound ==
  LET pos == DOMAIN List
  IN  /\ \E l \in Lists : Links(l)
      /\ {List[i] : i \in pos} = {c \in LibIds : coros[c].memory = "used"}
      /\ \A i, k \in pos : List[i] = List[k] => i = k
      /\ \A i \in pos : coros[List[i]].prev = IF i = 1 THEN NULL ELSE List[i - 1]
      /\ Cardinality({c \in LibIds : coros[c].memory = "used" /\ coros[c].is_finished}) <= 1
      /\ control # SCHED => /\ coros[control].memory = "used" /\ ~coros[control].is_finished
                            /\ is_sched_waiting
      /\ coro_this_ptr = control /\ sched # "no place to return"
=============================================================================
