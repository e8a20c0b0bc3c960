------------------------------ MODULE Cthread ------------------------------
(***************************************************************************)
(* Threads over clone() that can be detached or joined:                    *)
(* lecture_examples/6_threads/12_cthread_detach.c.                         *)
(*                                                                         *)
(* A thread cannot free the stack it runs on.  So the end of a thread, or  *)
(* the detach or join of a thread that has ended, puts the stack on        *)
(* stack_list, and frees those at the head of the list whose tid the       *)
(* kernel has cleared, which it does when their threads are gone.          *)
(*                                                                         *)
(* Thread t, its struct cthread and its stack have the same number.  main  *)
(* makes each thread once and detaches or joins it once, in any order,     *)
(* and then scans the threads as the main() of the program does.  What the *)
(* threads compute (func, arg, returned_code) is left out.                 *)
(***************************************************************************)
EXTENDS Integers, Sequences

CONSTANT N          \* number of threads main makes (10 in the program)

ASSUME NAssumption == N \in Nat \ {0}

Threads == 0 .. N - 1
Main == N           \* main's number among the processes
Procs == Threads \cup {Main}

VARIABLES
  pc,               \* where each process is
  return_to,        \* where cthread_destroy returns to in each process
  iter,             \* cthread_destroy's iter in each process: the list from there
  current,          \* the thread main works on; i in main's scan
  owned,            \* threads main made and has not detached or joined
  lock,             \* thread->lock
  is_finished,
  is_detached,
  last_stack_lock,
  stack_list,       \* the linked list, from its head
  stacks,           \* the stacks (and their list entries) that are allocated
  tid               \* stack->tid: 0 or not

flags == <<is_finished, is_detached>>
locals == <<return_to, iter>>
main_vars == <<current, owned>>
list == <<stack_list, stacks, tid>>
vars == <<pc, locals, main_vars, lock, last_stack_lock, flags, list>>

\* The thread that process p handles.
Target(p) == IF p = Main THEN current ELSE p

Goto(p, label) == pc' = [pc EXCEPT ![p] = label]
Step(p, from, to) == pc[p] = from /\ Goto(p, to)

-----------------------------------------------------------------------------
(* spin_lock and spin_unlock of a thread's lock *)

\* Mutant: the lock is taken without a look at it.
AcquireAnyway(t) == lock' = [lock EXCEPT ![t] = TRUE]

Acquire(t) == ~lock[t] /\ lock' = [lock EXCEPT ![t] = TRUE]

\* Mutant: the lock stays taken.
ReleaseNot(t) == UNCHANGED lock

Release(t) == lock' = [lock EXCEPT ![t] = FALSE]

-----------------------------------------------------------------------------
(* cthread_destroy *)

CallDestroy(p, label) ==
  /\ Goto(p, "list_lock")
  /\ return_to' = [return_to EXCEPT ![p] = label]

DestroyLock(p) ==
  /\ Step(p, "list_lock", "walk")
  /\ ~last_stack_lock /\ last_stack_lock' = TRUE
  /\ iter' = [iter EXCEPT ![p] = stack_list]
  /\ UNCHANGED <<return_to, main_vars, lock, flags, list>>

\* Mutant: a stack is freed once its thread has set is_finished.
MayFreeFinished(t) == is_finished[t]

\* The kernel has cleared the tid: nobody runs on stack t.
MayFree(t) == tid[t] = 0

FreesNext(p) == iter[p] # <<>> /\ MayFree(Head(iter[p]))

\* One iteration of the loop.
DestroyFree(p) ==
  /\ pc[p] = "walk" /\ FreesNext(p)
  /\ stacks' = stacks \ {Head(iter[p])}
  /\ iter' = [iter EXCEPT ![p] = Tail(@)]
  /\ UNCHANGED <<pc, return_to, main_vars, lock, last_stack_lock, flags, stack_list, tid>>

\* Mutant: the head of the list stays what it was, freed entries included.
PushOnOld(t, rest) == <<t>> \o stack_list

\* The list after stack t was put before what the loop left.
Push(t, rest) == <<t>> \o rest

DestroyLink(p) ==
  /\ Step(p, "walk", "list_unlock")
  /\ ~FreesNext(p)
  /\ stack_list' = Push(Target(p), iter[p])
  /\ UNCHANGED <<locals, main_vars, lock, last_stack_lock, flags, stacks, tid>>

DestroyUnlock(p) ==
  /\ Step(p, "list_unlock", return_to[p])
  /\ last_stack_lock' = FALSE
  /\ UNCHANGED <<locals, main_vars, lock, flags, list>>

Destroy(p) == DestroyLock(p) \/ DestroyFree(p) \/ DestroyLink(p) \/ DestroyUnlock(p)

-----------------------------------------------------------------------------
(* cthread_runner: thread t *)

\* CLONE_CHILD_SETTID: the child sets its tid before it runs.
Start(t) ==
  /\ Step(t, "born", "func")
  /\ tid' = [tid EXCEPT ![t] = 1]
  /\ UNCHANGED <<locals, main_vars, lock, last_stack_lock, flags, stack_list, stacks>>

\* thread->func() returns or calls cthread_exit().
FuncEnd(t) ==
  /\ Step(t, "func", "runner_lock")
  /\ UNCHANGED <<locals, main_vars, lock, last_stack_lock, flags, list>>

RunnerLock(t) ==
  /\ Step(t, "runner_lock", "runner_test")
  /\ Acquire(t)
  /\ UNCHANGED <<locals, main_vars, last_stack_lock, flags, list>>

RunnerTest(t) ==
  /\ pc[t] = "runner_test"
  /\ IF is_detached[t] THEN CallDestroy(t, "finish")
                       ELSE Goto(t, "finish") /\ UNCHANGED return_to
  /\ UNCHANGED <<iter, main_vars, lock, last_stack_lock, flags, list>>

Finish(t) ==
  /\ Step(t, "finish", "runner_unlock")
  /\ is_finished' = [is_finished EXCEPT ![t] = TRUE]
  /\ UNCHANGED <<locals, main_vars, lock, last_stack_lock, is_detached, list>>

RunnerUnlock(t) ==
  /\ Step(t, "runner_unlock", "exit")
  /\ Release(t)
  /\ UNCHANGED <<locals, main_vars, last_stack_lock, flags, list>>

\* The thread ends; CLONE_CHILD_CLEARTID: the kernel clears its tid.
Exit(t) ==
  /\ Step(t, "exit", "gone")
  /\ tid' = [tid EXCEPT ![t] = 0]
  /\ UNCHANGED <<locals, main_vars, lock, last_stack_lock, flags, stack_list, stacks>>

Runner(t) ==
  \/ Start(t) \/ FuncEnd(t) \/ RunnerLock(t) \/ RunnerTest(t)
  \/ Destroy(t) \/ Finish(t) \/ RunnerUnlock(t) \/ Exit(t)

-----------------------------------------------------------------------------
(* main: cthread_create, cthread_detach, cthread_join, the scan *)

Created(t) == pc[t] # "unused"

\* The new stack's tid is what malloc() found there until the thread runs.
Create(t) ==
  /\ pc[Main] = "main" /\ ~Created(t) /\ \A s \in 0 .. t - 1 : Created(s)
  /\ Goto(t, "born")
  /\ owned' = owned \cup {t}
  /\ lock' = [lock EXCEPT ![t] = FALSE]
  /\ is_finished' = [is_finished EXCEPT ![t] = FALSE]
  /\ is_detached' = [is_detached EXCEPT ![t] = FALSE]
  /\ stacks' = stacks \cup {t}
  /\ \E garbage \in {0, 1} : tid' = [tid EXCEPT ![t] = garbage]
  /\ UNCHANGED <<locals, current, last_stack_lock, stack_list>>

Call(t, label) ==
  /\ Step(Main, "main", label)
  /\ t \in owned /\ owned' = owned \ {t} /\ current' = t
  /\ UNCHANGED <<locals, lock, last_stack_lock, flags, list>>

DetachLock ==
  /\ Step(Main, "detach_lock", "detach_test")
  /\ Acquire(current)
  /\ UNCHANGED <<locals, main_vars, last_stack_lock, flags, list>>

\* Mutant: the thread is destroyed whether it has finished or not.
DetachTestUnchecked ==
  /\ pc[Main] = "detach_test"
  /\ CallDestroy(Main, "detach_set")
  /\ UNCHANGED <<iter, main_vars, lock, last_stack_lock, flags, list>>

DetachTest ==
  /\ pc[Main] = "detach_test"
  /\ IF is_finished[current] THEN CallDestroy(Main, "detach_set")
                             ELSE Goto(Main, "detach_set") /\ UNCHANGED return_to
  /\ UNCHANGED <<iter, main_vars, lock, last_stack_lock, flags, list>>

DetachSet ==
  /\ Step(Main, "detach_set", "detach_unlock")
  /\ is_detached' = [is_detached EXCEPT ![current] = TRUE]
  /\ UNCHANGED <<locals, main_vars, lock, last_stack_lock, is_finished, list>>

DetachUnlock ==
  /\ Step(Main, "detach_unlock", "main")
  /\ Release(current)
  /\ UNCHANGED <<locals, main_vars, last_stack_lock, flags, list>>

\* The loop of cthread_join ends; until then it reads again.
JoinWait ==
  /\ pc[Main] = "join_wait" /\ is_finished[current]
  /\ CallDestroy(Main, "main")
  /\ UNCHANGED <<iter, main_vars, lock, last_stack_lock, flags, list>>

\* Every thread is made, and detached or joined.
ScanBegin ==
  /\ Step(Main, "main", "scan")
  /\ \A t \in Threads : Created(t)
  /\ owned = {} /\ current' = 0
  /\ UNCHANGED <<owned, locals, lock, last_stack_lock, flags, list>>

\* Mutant: the scan waits for no thread.
NextScannedAlways(i) == i + 1

\* Mutant: i is advanced in the body as well.
NextScannedTwice(i) == IF is_finished[i] THEN i + 2 ELSE 1

\* i after one iteration: i = 0 for a thread not finished, and ++i for all.
NextScanned(i) == IF is_finished[i] THEN i + 1 ELSE 1

Scan ==
  /\ pc[Main] = "scan" /\ current < N
  /\ current' = NextScanned(current)
  /\ UNCHANGED <<pc, owned, locals, lock, last_stack_lock, flags, list>>

\* "detached threads finished"
Printed ==
  /\ Step(Main, "scan", "printed") /\ current >= N
  /\ UNCHANGED <<locals, main_vars, lock, last_stack_lock, flags, list>>

\* main returns, which ends every thread of the process.
MainExit ==
  /\ Step(Main, "printed", "exited")
  /\ UNCHANGED <<locals, main_vars, lock, last_stack_lock, flags, list>>

MainStep ==
  \/ \E t \in Threads : Create(t) \/ Call(t, "detach_lock") \/ Call(t, "join_wait")
  \/ DetachLock \/ DetachTest \/ DetachSet \/ DetachUnlock \/ JoinWait
  \/ Destroy(Main) \/ ScanBegin \/ Scan \/ Printed \/ MainExit

-----------------------------------------------------------------------------
Init ==
  /\ pc = [p \in Procs |-> IF p = Main THEN "main" ELSE "unused"]
  /\ return_to = [p \in Procs |-> "main"]
  /\ iter = [p \in Procs |-> <<>>]
  /\ current = 0 /\ owned = {}
  /\ lock = [t \in Threads |-> FALSE]
  /\ is_finished = [t \in Threads |-> FALSE]
  /\ is_detached = [t \in Threads |-> FALSE]
  /\ last_stack_lock = FALSE
  /\ stack_list = <<>> /\ stacks = {}
  /\ tid = [t \in Threads |-> 0]

Running == pc[Main] # "exited"

Next ==
  \/ Running /\ (MainStep \/ \E t \in Threads : Runner(t))
  \/ ~Running /\ UNCHANGED vars

Spec == Init /\ [][Next]_vars

\* The kernel runs every thread, main included, again and again.
FairSpec ==
  /\ Spec
  /\ WF_vars(Running /\ MainStep)
  /\ \A t \in Threads : WF_vars(Running /\ Runner(t))

-----------------------------------------------------------------------------
(* Properties *)

DestroyLabels == {"list_lock", "walk", "list_unlock"}
RunnerLabels == {"unused", "born", "func", "runner_lock", "runner_test", "finish",
                 "runner_unlock", "exit", "gone"} \cup DestroyLabels
MainLabels == {"main", "detach_lock", "detach_test", "detach_set", "detach_unlock",
               "join_wait", "scan", "printed", "exited"} \cup DestroyLabels

\* Every variable has its type.
TypeOK ==
  /\ pc \in [Procs -> RunnerLabels \cup MainLabels]
  /\ pc[Main] \in MainLabels /\ \A t \in Threads : pc[t] \in RunnerLabels
  /\ return_to \in [Procs -> {"main", "detach_set", "finish"}]
  /\ iter \in [Procs -> Seq(Threads)]
  /\ current \in 0 .. N /\ owned \subseteq Threads
  /\ lock \in [Threads -> BOOLEAN]
  /\ is_finished \in [Threads -> BOOLEAN] /\ is_detached \in [Threads -> BOOLEAN]
  /\ last_stack_lock \in BOOLEAN
  /\ stack_list \in Seq(Threads) /\ stacks \subseteq Threads
  /\ tid \in [Threads -> {0, 1}]

\* No stack is freed while its thread is on it: from clone() to its exit.
StackKept == \A t \in Threads : pc[t] \notin {"unused", "gone"} => t \in stacks

Listed == {stack_list[k] : k \in DOMAIN stack_list}

\* A list of entries that are allocated and different from one another.
Sound(l) ==
  /\ \A k \in DOMAIN l : l[k] \in stacks
  /\ \A j, k \in DOMAIN l : l[j] = l[k] => j = k

\* The list of stacks, whenever nobody holds its lock, and what is left of it to
\* a thread that walks it, has no freed entry and no entry twice.
ListSound ==
  /\ ~last_stack_lock => Sound(stack_list)
  /\ \A p \in Procs : pc[p] = "walk" => Sound(iter[p])

\* Only one of a thread and main ever destroys the thread, and once: the stack
\* is then allocated and not on the list yet.
DestroyedOnce ==
  \A p \in Procs :
    pc[p] \in {"list_lock", "walk"} =>
      /\ Target(p) \in stacks /\ Target(p) \notin Listed
      /\ \A q \in Procs \ {p} : pc[q] \in {"list_lock", "walk"} => Target(q) # Target(p)

\* main is in cthread_detach or cthread_join of thread t.
Busy(t) == current = t /\ pc[Main] \notin {"main", "scan", "printed", "exited"}

\* No stack is forgotten: when a thread has ended and main has detached or
\* joined it, whichever came first, its stack is on the list or freed.
StacksHandedOver ==
  \A t \in Threads :
    Created(t) /\ t \notin owned /\ ~Busy(t) /\ is_finished[t]
      => t \in Listed \/ t \notin stacks

\* When main says that the detached threads finished, all but the first have.
ScanCovers ==
  pc[Main] = "printed" => \A t \in Threads \ {0} : is_finished[t]

\* main comes to its end: no lock is kept for ever, no join or scan waits for ever.
MainReturns == <>(pc[Main] = "exited")

\* "detached threads finished": all of them.
PrintedAfterAll == pc[Main] = "printed" => \A t \in Threads : is_finished[t]
=============================================================================
