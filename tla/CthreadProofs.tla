---------------------------- MODULE CthreadProofs ----------------------------
(***************************************************************************)
(* The invariants of Cthread, for any number of threads.                   *)
(***************************************************************************)
EXTENDS Cthread, TLAPS

\* Where a thread, and main for its current thread, hold the thread's lock.
RunnerHolds(t) ==
  pc[t] \in {"runner_test", "finish", "runner_unlock"} \cup DestroyLabels
MainHolds(t) ==
  /\ current = t
  /\ \/ pc[Main] \in {"detach_test", "detach_set", "detach_unlock"}
     \/ pc[Main] \in DestroyLabels /\ return_to[Main] = "detach_set"

\* The lock of a thread is taken by one of the two at most.
Locked ==
  \A t \in Threads :
    /\ RunnerHolds(t) => lock[t]
    /\ MainHolds(t) => lock[t]
    /\ ~(RunnerHolds(t) /\ MainHolds(t))

\* The lock of the list is taken by one process at most.
WithList(p) == pc[p] \in {"walk", "list_unlock"}
ListLocked ==
  \A p \in Procs :
    WithList(p) => last_stack_lock /\ \A q \in Procs : WithList(q) => p = q

\* What the place of a thread says of its flags and its tid.
Marked ==
  /\ \A t \in Threads :
       /\ is_finished[t] <=> (pc[t] \in {"runner_unlock", "exit", "gone"})
       /\ tid[t] = 0 => pc[t] \in {"unused", "born", "gone"}
       /\ pc[t] \in DestroyLabels => return_to[t] = "finish" /\ is_detached[t]
  /\ pc[Main] \in DestroyLabels =>
       return_to[Main] \in {"main", "detach_set"} /\ is_finished[current]

\* main is in cthread_detach or cthread_join of t and has not destroyed it.
Undecided(t) ==
  current = t /\ pc[Main] \in {"detach_lock", "detach_test", "join_wait"}
Detaching(t) == current = t /\ pc[Main] = "detach_set"
Destroying(t) == current = t /\ pc[Main] \in DestroyLabels

\* Who is responsible for a thread: main owns it, is at work on it, or has
\* detached it.
Owned ==
  /\ \A t \in Threads :
       /\ t \in owned => Created(t) /\ ~is_detached[t] /\ ~Busy(t)
       /\ is_detached[t] =>
            /\ Created(t) /\ t \notin owned
            /\ ~Undecided(t) /\ ~Detaching(t) /\ ~Destroying(t)
       /\ Created(t) /\ ~is_detached[t] /\ ~is_finished[t] =>
            t \in owned \/ Undecided(t) \/ Detaching(t)
       /\ Busy(t) => Created(t)
  /\ pc[Main] \notin {"main", "scan", "printed", "exited"} => current \in Threads

\* Somebody has yet to put stack t on the list.
Pending(t) ==
  \/ pc[t] \in {"born", "func", "runner_lock", "runner_test", "list_lock", "walk"}
  \/ /\ pc[t] \in {"finish", "runner_unlock", "exit", "gone"} /\ ~is_detached[t]
     /\ \/ t \in owned \/ Undecided(t)
        \/ current = t /\ pc[Main] \in {"list_lock", "walk"}

\* The stacks neither listed nor freed are those that are pending.
StacksAccounted ==
  \A t \in Threads :
    /\ Created(t) => (Pending(t) <=> t \in stacks /\ t \notin Listed)
    /\ ~Created(t) => t \notin stacks /\ t \notin Listed

\* The entries from iter on are all that a walk has left of the list.
Walked(p) ==
  /\ Sound(iter[p])
  /\ \A t \in stacks : t \in Listed <=> \E k \in DOMAIN iter[p] : iter[p][k] = t
ListWalked ==
  /\ \A p \in Procs : pc[p] = "walk" => Walked(p)
  /\ (\A p \in Procs : pc[p] # "walk") => Sound(stack_list)

\* What the scan has seen.
Scanned ==
  /\ pc[Main] = "scan" => \A t \in Threads : 0 < t /\ t < current => is_finished[t]
  /\ ScanCovers

\* The inductive invariant.
IInv ==
  /\ TypeOK /\ Locked /\ ListLocked /\ Marked /\ Owned
  /\ StacksAccounted /\ StackKept /\ ListWalked /\ Scanned

-----------------------------------------------------------------------------
(* Facts the steps share *)

\* The main thread is none of the threads it makes.
LEMMA ProcFacts ==
  /\ Main \in Procs /\ Main \notin Threads /\ Threads \subseteq Procs
  /\ \A p \in Procs : p \in Threads \/ p = Main
  /\ \A t \in Threads : t \in Nat /\ t < N /\ Target(t) = t
  /\ Target(Main) = current
  BY NAssumption DEF Main, Procs, Threads, Target

\* A step that touches neither the list nor a walk leaves both sound.
LEMMA ListFrame ==
  ASSUME ListWalked, UNCHANGED <<iter, stack_list, stacks>>,
         \A p \in Procs : pc'[p] = "walk" <=> pc[p] = "walk"
  PROVE  ListWalked'
<1>1. Sound(stack_list)' = Sound(stack_list)
  BY DEF Sound
<1>2. Listed' = Listed
  BY DEF Listed
<1>3. \A p \in Procs : Walked(p)' = Walked(p)
  BY <1>2 DEF Walked, Sound
<1> QED
  BY <1>1, <1>3 DEF ListWalked

-----------------------------------------------------------------------------
(* Steps of a thread *)

\* The thread starts: its tid is set.
LEMMA StartIInv ==
  ASSUME IInv, NEW t \in Threads, Start(t)
  PROVE  IInv'
<1>1. /\ pc[t] = "born" /\ pc' = [pc EXCEPT ![t] = "func"]
      /\ tid' = [tid EXCEPT ![t] = 1]
      /\ UNCHANGED <<return_to, iter, current, owned, lock,
                     last_stack_lock, is_finished, is_detached,
                     stack_list, stacks>>
  BY DEF Start, Step, Goto, Acquire, Release, CallDestroy, NextScanned, locals,
     main_vars,
     flags, list
<1>2. TypeOK'
  BY <1>1, ProcFacts DEF IInv, TypeOK, RunnerLabels, MainLabels, DestroyLabels
<1>3. Locked'
  BY <1>1, ProcFacts DEF IInv, TypeOK, Locked, RunnerHolds, MainHolds, DestroyLabels
<1>4. ListLocked'
  BY <1>1, ProcFacts DEF IInv, TypeOK, ListLocked, WithList
<1>5. Marked'
  BY <1>1, ProcFacts DEF IInv, TypeOK, Marked, DestroyLabels
<1>6. Owned'
  BY <1>1, ProcFacts DEF IInv, TypeOK, Owned, Created, Busy, Undecided,
     Detaching, Destroying, DestroyLabels
<1>7. StacksAccounted'
  BY <1>1, ProcFacts DEF IInv, TypeOK, StacksAccounted, Created, Pending,
     Undecided, Listed
<1>8. StackKept'
  BY <1>1, ProcFacts DEF IInv, TypeOK, StackKept
<1>9. ListWalked'
  BY <1>1, ProcFacts, ListFrame DEF IInv, TypeOK
<1>10. Scanned'
  BY <1>1, ProcFacts DEF IInv, TypeOK, Scanned, ScanCovers
<1> QED
  BY <1>2, <1>3, <1>4, <1>5, <1>6, <1>7, <1>8, <1>9, <1>10 DEF IInv

\* Its function ends.
LEMMA FuncEndIInv ==
  ASSUME IInv, NEW t \in Threads, FuncEnd(t)
  PROVE  IInv'
<1>1. /\ pc[t] = "func" /\ pc' = [pc EXCEPT ![t] = "runner_lock"]
      /\ UNCHANGED <<return_to, iter, current, owned, lock,
                     last_stack_lock, is_finished, is_detached,
                     stack_list, stacks, tid>>
  BY DEF FuncEnd, Step, Goto, Acquire, Release, CallDestroy, NextScanned, locals,
     main_vars,
     flags, list
<1>2. TypeOK'
  BY <1>1, ProcFacts DEF IInv, TypeOK, RunnerLabels, MainLabels, DestroyLabels
<1>3. Locked'
  BY <1>1, ProcFacts DEF IInv, TypeOK, Locked, RunnerHolds, MainHolds, DestroyLabels
<1>4. ListLocked'
  BY <1>1, ProcFacts DEF IInv, TypeOK, ListLocked, WithList
<1>5. Marked'
  BY <1>1, ProcFacts DEF IInv, TypeOK, Marked, DestroyLabels
<1>6. Owned'
  BY <1>1, ProcFacts DEF IInv, TypeOK, Owned, Created, Busy, Undecided,
     Detaching, Destroying, DestroyLabels
<1>7. StacksAccounted'
  BY <1>1, ProcFacts DEF IInv, TypeOK, StacksAccounted, Created, Pending,
     Undecided, Listed
<1>8. StackKept'
  BY <1>1, ProcFacts DEF IInv, TypeOK, StackKept
<1>9. ListWalked'
  BY <1>1, ProcFacts, ListFrame DEF IInv, TypeOK
<1>10. Scanned'
  BY <1>1, ProcFacts DEF IInv, TypeOK, Scanned, ScanCovers
<1> QED
  BY <1>2, <1>3, <1>4, <1>5, <1>6, <1>7, <1>8, <1>9, <1>10 DEF IInv

\* It takes the lock of its own struct.
LEMMA RunnerLockIInv ==
  ASSUME IInv, NEW t \in Threads, RunnerLock(t)
  PROVE  IInv'
<1>1. /\ pc[t] = "runner_lock" /\ pc' = [pc EXCEPT ![t] = "runner_test"]
      /\ ~lock[t] /\ lock' = [lock EXCEPT ![t] = TRUE]
      /\ UNCHANGED <<return_to, iter, current, owned, last_stack_lock,
                     is_finished, is_detached, stack_list, stacks, tid>>
  BY DEF RunnerLock, Step, Goto, Acquire, Release, CallDestroy, NextScanned, locals,
     main_vars,
     flags, list
<1>2. TypeOK'
  BY <1>1, ProcFacts DEF IInv, TypeOK, RunnerLabels, MainLabels, DestroyLabels
<1>3. Locked'
  BY <1>1, ProcFacts DEF IInv, TypeOK, Locked, RunnerHolds, MainHolds, DestroyLabels
<1>4. ListLocked'
  BY <1>1, ProcFacts DEF IInv, TypeOK, ListLocked, WithList
<1>5. Marked'
  BY <1>1, ProcFacts DEF IInv, TypeOK, Marked, DestroyLabels
<1>6. Owned'
  BY <1>1, ProcFacts DEF IInv, TypeOK, Owned, Created, Busy, Undecided,
     Detaching, Destroying, DestroyLabels
<1>7. StacksAccounted'
  BY <1>1, ProcFacts DEF IInv, TypeOK, StacksAccounted, Created, Pending,
     Undecided, Listed
<1>8. StackKept'
  BY <1>1, ProcFacts DEF IInv, TypeOK, StackKept
<1>9. ListWalked'
  BY <1>1, ProcFacts, ListFrame DEF IInv, TypeOK
<1>10. Scanned'
  BY <1>1, ProcFacts DEF IInv, TypeOK, Scanned, ScanCovers
<1> QED
  BY <1>2, <1>3, <1>4, <1>5, <1>6, <1>7, <1>8, <1>9, <1>10 DEF IInv

\* It looks whether it has been detached.
LEMMA RunnerTestIInv ==
  ASSUME IInv, NEW t \in Threads, RunnerTest(t)
  PROVE  IInv'
<1>1. /\ pc[t] = "runner_test"
      /\ \/ /\ is_detached[t]
            /\ pc' = [pc EXCEPT ![t] = "list_lock"]
            /\ return_to' = [return_to EXCEPT ![t] = "finish"]
         \/ /\ ~is_detached[t]
            /\ pc' = [pc EXCEPT ![t] = "finish"]
            /\ UNCHANGED return_to
      /\ UNCHANGED <<iter, current, owned, lock, last_stack_lock,
                     is_finished, is_detached, stack_list, stacks, tid>>
  BY DEF RunnerTest, Goto, CallDestroy, main_vars, flags, list
<1>2. TypeOK'
  <2>1. PICK label \in {"list_lock", "finish"} : pc' = [pc EXCEPT ![t] = label]
    BY <1>1
  <2>2. label \in RunnerLabels
    BY DEF RunnerLabels, DestroyLabels
  <2>3. pc' \in [Procs -> RunnerLabels \cup MainLabels]
    BY <2>1, <2>2 DEF IInv, TypeOK
  <2>4. pc'[Main] \in MainLabels
    BY <2>1, ProcFacts DEF IInv, TypeOK
  <2>5. ASSUME NEW s \in Threads PROVE pc'[s] \in RunnerLabels
    BY <2>1, <2>2, ProcFacts DEF IInv, TypeOK
  <2>6. return_to' \in [Procs -> {"main", "detach_set", "finish"}]
    BY <1>1, ProcFacts DEF IInv, TypeOK
  <2> QED BY <1>1, <2>3, <2>4, <2>5, <2>6 DEF IInv, TypeOK
<1>3. Locked'
  BY <1>1, ProcFacts DEF IInv, TypeOK, Locked, RunnerHolds, MainHolds, DestroyLabels
<1>4. ListLocked'
  BY <1>1, ProcFacts DEF IInv, TypeOK, ListLocked, WithList
<1>5. Marked'
  <2>1. CASE is_detached[t]
    <3>1. pc'[t] = "list_lock" /\ return_to'[t] = "finish"
      BY <1>1, <2>1, ProcFacts DEF IInv, TypeOK
    <3>2. /\ pc'[Main] = pc[Main] /\ return_to'[Main] = return_to[Main]
          /\ \A s \in Threads \ {t} : pc'[s] = pc[s] /\ return_to'[s] = return_to[s]
      BY <1>1, <2>1, ProcFacts DEF IInv, TypeOK
    <3> QED BY <1>1, <2>1, <3>1, <3>2 DEF IInv, Marked, DestroyLabels
  <2>2. CASE ~is_detached[t]
    <3>1. pc'[t] = "finish" /\ UNCHANGED return_to
      BY <1>1, <2>2, ProcFacts DEF IInv, TypeOK
    <3>2. pc'[Main] = pc[Main] /\ \A s \in Threads \ {t} : pc'[s] = pc[s]
      BY <1>1, <2>2, ProcFacts DEF IInv, TypeOK
    <3> QED BY <1>1, <3>1, <3>2 DEF IInv, Marked, DestroyLabels
  <2> QED BY <1>1, <2>1, <2>2
<1>6. Owned'
  <2>1. CASE is_detached[t]
    BY <1>1, <2>1, ProcFacts DEF IInv, TypeOK, Owned, Marked, Locked, RunnerHolds,
       MainHolds, Created, Busy,
       Undecided, Detaching, Destroying, DestroyLabels
  <2>2. CASE ~is_detached[t]
    BY <1>1, <2>2, ProcFacts DEF IInv, TypeOK, Owned, Marked, Locked, RunnerHolds,
       MainHolds, Created, Busy,
       Undecided, Detaching, Destroying, DestroyLabels
  <2> QED BY <1>1, <2>1, <2>2
<1>7. StacksAccounted'
  BY <1>1, ProcFacts DEF IInv, TypeOK, StacksAccounted, Owned, Marked, Locked,
     RunnerHolds,
     MainHolds, Created, Pending, Busy, Undecided, Detaching, Destroying, Listed,
     DestroyLabels
<1>8. StackKept'
  BY <1>1, ProcFacts DEF IInv, TypeOK, StackKept
<1>9. ListWalked'
  BY <1>1, ProcFacts, ListFrame DEF IInv, TypeOK
<1>10. Scanned'
  BY <1>1, ProcFacts DEF IInv, TypeOK, Scanned, ScanCovers
<1> QED
  BY <1>2, <1>3, <1>4, <1>5, <1>6, <1>7, <1>8, <1>9, <1>10 DEF IInv

\* It says that it has finished.
LEMMA FinishIInv ==
  ASSUME IInv, NEW t \in Threads, Finish(t)
  PROVE  IInv'
<1>1. /\ pc[t] = "finish" /\ pc' = [pc EXCEPT ![t] = "runner_unlock"]
      /\ is_finished' = [is_finished EXCEPT ![t] = TRUE]
      /\ UNCHANGED <<return_to, iter, current, owned, lock,
                     last_stack_lock, is_detached, stack_list, stacks,
                     tid>>
  BY DEF Finish, Step, Goto, Acquire, Release, CallDestroy, NextScanned, locals,
     main_vars,
     flags, list
<1>2. TypeOK'
  BY <1>1, ProcFacts DEF IInv, TypeOK, RunnerLabels, MainLabels, DestroyLabels
<1>3. Locked'
  BY <1>1, ProcFacts DEF IInv, TypeOK, Locked, RunnerHolds, MainHolds, DestroyLabels
<1>4. ListLocked'
  BY <1>1, ProcFacts DEF IInv, TypeOK, ListLocked, WithList
<1>5. Marked'
  BY <1>1, ProcFacts DEF IInv, TypeOK, Marked, DestroyLabels
<1>6. Owned'
  BY <1>1, ProcFacts DEF IInv, TypeOK, Owned, Created, Busy, Undecided,
     Detaching, Destroying, DestroyLabels
<1>7. StacksAccounted'
  BY <1>1, ProcFacts DEF IInv, TypeOK, StacksAccounted, Created, Pending,
     Undecided, Listed
<1>8. StackKept'
  BY <1>1, ProcFacts DEF IInv, TypeOK, StackKept
<1>9. ListWalked'
  BY <1>1, ProcFacts, ListFrame DEF IInv, TypeOK
<1>10. Scanned'
  BY <1>1, ProcFacts DEF IInv, TypeOK, Scanned, ScanCovers
<1> QED
  BY <1>2, <1>3, <1>4, <1>5, <1>6, <1>7, <1>8, <1>9, <1>10 DEF IInv

\* It leaves the lock.
LEMMA RunnerUnlockIInv ==
  ASSUME IInv, NEW t \in Threads, RunnerUnlock(t)
  PROVE  IInv'
<1>1. /\ pc[t] = "runner_unlock" /\ pc' = [pc EXCEPT ![t] = "exit"]
      /\ lock' = [lock EXCEPT ![t] = FALSE]
      /\ UNCHANGED <<return_to, iter, current, owned, last_stack_lock,
                     is_finished, is_detached, stack_list, stacks, tid>>
  BY DEF RunnerUnlock, Step, Goto, Acquire, Release, CallDestroy, NextScanned,
     locals, main_vars,
     flags, list
<1>2. TypeOK'
  BY <1>1, ProcFacts DEF IInv, TypeOK, RunnerLabels, MainLabels, DestroyLabels
<1>3. Locked'
  BY <1>1, ProcFacts DEF IInv, TypeOK, Locked, RunnerHolds, MainHolds, DestroyLabels
<1>4. ListLocked'
  BY <1>1, ProcFacts DEF IInv, TypeOK, ListLocked, WithList
<1>5. Marked'
  BY <1>1, ProcFacts DEF IInv, TypeOK, Marked, DestroyLabels
<1>6. Owned'
  BY <1>1, ProcFacts DEF IInv, TypeOK, Owned, Created, Busy, Undecided,
     Detaching, Destroying, DestroyLabels
<1>7. StacksAccounted'
  BY <1>1, ProcFacts DEF IInv, TypeOK, StacksAccounted, Created, Pending,
     Undecided, Listed
<1>8. StackKept'
  BY <1>1, ProcFacts DEF IInv, TypeOK, StackKept
<1>9. ListWalked'
  BY <1>1, ProcFacts, ListFrame DEF IInv, TypeOK
<1>10. Scanned'
  BY <1>1, ProcFacts DEF IInv, TypeOK, Scanned, ScanCovers
<1> QED
  BY <1>2, <1>3, <1>4, <1>5, <1>6, <1>7, <1>8, <1>9, <1>10 DEF IInv

\* It is gone, and its tid is cleared.
LEMMA ExitIInv ==
  ASSUME IInv, NEW t \in Threads, Exit(t)
  PROVE  IInv'
<1>1. /\ pc[t] = "exit" /\ pc' = [pc EXCEPT ![t] = "gone"]
      /\ tid' = [tid EXCEPT ![t] = 0]
      /\ UNCHANGED <<return_to, iter, current, owned, lock,
                     last_stack_lock, is_finished, is_detached,
                     stack_list, stacks>>
  BY DEF Exit, Step, Goto, Acquire, Release, CallDestroy, NextScanned, locals,
     main_vars,
     flags, list
<1>2. TypeOK'
  BY <1>1, ProcFacts DEF IInv, TypeOK, RunnerLabels, MainLabels, DestroyLabels
<1>3. Locked'
  BY <1>1, ProcFacts DEF IInv, TypeOK, Locked, RunnerHolds, MainHolds, DestroyLabels
<1>4. ListLocked'
  BY <1>1, ProcFacts DEF IInv, TypeOK, ListLocked, WithList
<1>5. Marked'
  BY <1>1, ProcFacts DEF IInv, TypeOK, Marked, DestroyLabels
<1>6. Owned'
  BY <1>1, ProcFacts DEF IInv, TypeOK, Owned, Created, Busy, Undecided,
     Detaching, Destroying, DestroyLabels
<1>7. StacksAccounted'
  BY <1>1, ProcFacts DEF IInv, TypeOK, StacksAccounted, Created, Pending,
     Undecided, Listed
<1>8. StackKept'
  BY <1>1, ProcFacts DEF IInv, TypeOK, StackKept
<1>9. ListWalked'
  BY <1>1, ProcFacts, ListFrame DEF IInv, TypeOK
<1>10. Scanned'
  BY <1>1, ProcFacts DEF IInv, TypeOK, Scanned, ScanCovers
<1> QED
  BY <1>2, <1>3, <1>4, <1>5, <1>6, <1>7, <1>8, <1>9, <1>10 DEF IInv

-----------------------------------------------------------------------------
(* Steps of main *)

\* A new thread: its stack is allocated, main owns it.
LEMMA CreateIInv ==
  ASSUME IInv, NEW t \in Threads, Create(t)
  PROVE  IInv'
<1>1. /\ pc[Main] = "main" /\ pc[t] = "unused" /\ pc' = [pc EXCEPT ![t] = "born"]
      /\ owned' = owned \cup {t} /\ stacks' = stacks \cup {t}
      /\ lock' = [lock EXCEPT ![t] = FALSE]
      /\ is_finished' = [is_finished EXCEPT ![t] = FALSE]
      /\ is_detached' = [is_detached EXCEPT ![t] = FALSE]
      /\ \E garbage \in {0, 1} : tid' = [tid EXCEPT ![t] = garbage]
      /\ UNCHANGED <<return_to, iter, current, last_stack_lock,
                     stack_list>>
  BY DEF Create, Created, Goto, locals
<1>2. TypeOK'
  BY <1>1, ProcFacts DEF IInv, TypeOK, RunnerLabels, MainLabels, DestroyLabels
<1>3. Locked'
  BY <1>1, ProcFacts DEF IInv, TypeOK, Locked, RunnerHolds, MainHolds, DestroyLabels
<1>4. ListLocked'
  BY <1>1, ProcFacts DEF IInv, TypeOK, ListLocked, WithList
<1>5. Marked'
  <2>1. PICK garbage \in {0, 1} : tid' = [tid EXCEPT ![t] = garbage]
    BY <1>1
  <2>2. pc'[Main] = "main" /\ \A s \in Threads \ {t} :
          /\ pc'[s] = pc[s] /\ tid'[s] = tid[s]
          /\ is_finished'[s] = is_finished[s] /\ is_detached'[s] = is_detached[s]
    BY <1>1, <2>1, ProcFacts DEF IInv, TypeOK
  <2>3. pc'[t] = "born" /\ ~is_finished'[t]
    BY <1>1, ProcFacts DEF IInv, TypeOK
  <2>4. UNCHANGED <<return_to, current>>
    BY <1>1
  <2>5. ASSUME NEW s \in Threads
        PROVE  /\ is_finished'[s] <=> (pc'[s] \in {"runner_unlock", "exit", "gone"})
               /\ tid'[s] = 0 => pc'[s] \in {"unused", "born", "gone"}
               /\ pc'[s] \in DestroyLabels => return_to[s] = "finish" /\ is_detached'[s]
    <3>1. CASE s = t
      BY <2>3, <3>1 DEF DestroyLabels
    <3>2. CASE s # t
      <4>1. /\ pc'[s] = pc[s] /\ tid'[s] = tid[s]
            /\ is_finished'[s] = is_finished[s] /\ is_detached'[s] = is_detached[s]
        BY <2>2, <3>2
      <4> QED BY <4>1 DEF IInv, Marked
    <3> QED BY <3>1, <3>2
  <2> QED BY <2>2, <2>4, <2>5 DEF Marked, DestroyLabels
<1>6. Owned'
  BY <1>1, ProcFacts DEF IInv, TypeOK, Owned, Created, Busy, Undecided,
     Detaching, Destroying, DestroyLabels
<1>7. StacksAccounted'
  BY <1>1, ProcFacts DEF IInv, TypeOK, StacksAccounted, Created, Pending,
     Undecided, Listed
<1>8. StackKept'
  BY <1>1, ProcFacts DEF IInv, TypeOK, StackKept
<1>9. ListWalked'
  <2>1. t \notin stacks /\ t \notin Listed
    BY <1>1 DEF IInv, StacksAccounted, Created
  <2>2. Listed' = Listed /\ \A p \in Procs : pc'[p] = "walk" <=> pc[p] = "walk"
    BY <1>1, ProcFacts DEF IInv, TypeOK, Listed
  <2>3. Sound(stack_list) => Sound(stack_list)'
    BY <1>1 DEF Sound
  <2>4. ASSUME NEW p \in Procs, Walked(p) PROVE Walked(p)'
    BY <1>1, <2>1, <2>2, <2>4 DEF Walked, Sound
  <2> QED BY <2>2, <2>3, <2>4 DEF IInv, ListWalked
<1>10. Scanned'
  BY <1>1, ProcFacts DEF IInv, TypeOK, Scanned, ScanCovers
<1> QED
  BY <1>2, <1>3, <1>4, <1>5, <1>6, <1>7, <1>8, <1>9, <1>10 DEF IInv

\* main calls cthread_detach or cthread_join of a thread it owns.
LEMMA CallIInv ==
  ASSUME IInv, NEW t \in Threads, NEW label \in {"detach_lock", "join_wait"}, Call(t, label)
  PROVE  IInv'
<1>1. /\ pc[Main] = "main" /\ pc' = [pc EXCEPT ![Main] = label]
      /\ t \in owned /\ owned' = owned \ {t} /\ current' = t
      /\ UNCHANGED <<return_to, iter, lock, last_stack_lock,
                     is_finished, is_detached, stack_list, stacks, tid>>
  BY DEF Call, Step, Goto, locals, flags, list
<1>2. TypeOK'
  BY <1>1, ProcFacts, NAssumption DEF IInv, TypeOK, RunnerLabels, MainLabels,
     DestroyLabels
<1>3. Locked'
  BY <1>1, ProcFacts DEF IInv, TypeOK, Locked, RunnerHolds, MainHolds, DestroyLabels
<1>4. ListLocked'
  BY <1>1, ProcFacts DEF IInv, TypeOK, ListLocked, WithList
<1>5. Marked'
  BY <1>1, ProcFacts DEF IInv, TypeOK, Marked, DestroyLabels
<1>6. Owned'
  BY <1>1, ProcFacts DEF IInv, TypeOK, Owned, Created, Busy, Undecided,
     Detaching, Destroying, DestroyLabels
<1>7. StacksAccounted'
  BY <1>1, ProcFacts DEF IInv, TypeOK, StacksAccounted, Created, Pending,
     Undecided, Listed
<1>8. StackKept'
  BY <1>1, ProcFacts DEF IInv, TypeOK, StackKept
<1>9. ListWalked'
  BY <1>1, ProcFacts, ListFrame DEF IInv, TypeOK
<1>10. Scanned'
  BY <1>1, ProcFacts DEF IInv, TypeOK, Scanned, ScanCovers
<1> QED
  BY <1>2, <1>3, <1>4, <1>5, <1>6, <1>7, <1>8, <1>9, <1>10 DEF IInv

\* cthread_detach takes the lock of the thread.
LEMMA DetachLockIInv ==
  ASSUME IInv, DetachLock
  PROVE  IInv'
<1>1. /\ pc[Main] = "detach_lock" /\ pc' = [pc EXCEPT ![Main] = "detach_test"]
      /\ ~lock[current] /\ lock' = [lock EXCEPT ![current] = TRUE]
      /\ UNCHANGED <<return_to, iter, current, owned, last_stack_lock,
                     is_finished, is_detached, stack_list, stacks, tid>>
  BY DEF DetachLock, Step, Goto, Acquire, Release, CallDestroy, NextScanned, locals,
     main_vars,
     flags, list
<1>2. TypeOK'
  BY <1>1, ProcFacts DEF IInv, TypeOK, RunnerLabels, MainLabels, DestroyLabels
<1>3. Locked'
  BY <1>1, ProcFacts DEF IInv, TypeOK, Locked, RunnerHolds, MainHolds, DestroyLabels
<1>4. ListLocked'
  BY <1>1, ProcFacts DEF IInv, TypeOK, ListLocked, WithList
<1>5. Marked'
  BY <1>1, ProcFacts DEF IInv, TypeOK, Marked, DestroyLabels
<1>6. Owned'
  BY <1>1, ProcFacts DEF IInv, TypeOK, Owned, Created, Busy, Undecided,
     Detaching, Destroying, DestroyLabels
<1>7. StacksAccounted'
  BY <1>1, ProcFacts DEF IInv, TypeOK, StacksAccounted, Created, Pending,
     Undecided, Listed
<1>8. StackKept'
  BY <1>1, ProcFacts DEF IInv, TypeOK, StackKept
<1>9. ListWalked'
  BY <1>1, ProcFacts, ListFrame DEF IInv, TypeOK
<1>10. Scanned'
  BY <1>1, ProcFacts DEF IInv, TypeOK, Scanned, ScanCovers
<1> QED
  BY <1>2, <1>3, <1>4, <1>5, <1>6, <1>7, <1>8, <1>9, <1>10 DEF IInv

\* It looks whether the thread has finished.
LEMMA DetachTestIInv ==
  ASSUME IInv, DetachTest
  PROVE  IInv'
<1>1. /\ pc[Main] = "detach_test"
      /\ \/ /\ is_finished[current]
            /\ pc' = [pc EXCEPT ![Main] = "list_lock"]
            /\ return_to' = [return_to EXCEPT ![Main] = "detach_set"]
         \/ /\ ~is_finished[current]
            /\ pc' = [pc EXCEPT ![Main] = "detach_set"]
            /\ UNCHANGED return_to
      /\ UNCHANGED <<iter, current, owned, lock, last_stack_lock,
                     is_finished, is_detached, stack_list, stacks, tid>>
  BY DEF DetachTest, Goto, CallDestroy, main_vars, flags, list
<1>2. TypeOK'
  BY <1>1, ProcFacts DEF IInv, TypeOK, RunnerLabels, MainLabels, DestroyLabels
<1>3. Locked'
  BY <1>1, ProcFacts DEF IInv, TypeOK, Locked, RunnerHolds, MainHolds, DestroyLabels
<1>4. ListLocked'
  BY <1>1, ProcFacts DEF IInv, TypeOK, ListLocked, WithList
<1>5. Marked'
  BY <1>1, ProcFacts DEF IInv, TypeOK, Marked, DestroyLabels
<1>6. Owned'
  BY <1>1, ProcFacts DEF IInv, TypeOK, Owned, Created, Busy, Undecided,
     Detaching, Destroying, DestroyLabels
<1>7. StacksAccounted'
  BY <1>1, ProcFacts DEF IInv, TypeOK, StacksAccounted, Owned, Marked, Locked,
     RunnerHolds,
     MainHolds, Created, Pending, Busy, Undecided, Detaching, Destroying, Listed,
     DestroyLabels
<1>8. StackKept'
  BY <1>1, ProcFacts DEF IInv, TypeOK, StackKept
<1>9. ListWalked'
  BY <1>1, ProcFacts, ListFrame DEF IInv, TypeOK
<1>10. Scanned'
  BY <1>1, ProcFacts DEF IInv, TypeOK, Scanned, ScanCovers
<1> QED
  BY <1>2, <1>3, <1>4, <1>5, <1>6, <1>7, <1>8, <1>9, <1>10 DEF IInv

\* It says that the thread is detached.
LEMMA DetachSetIInv ==
  ASSUME IInv, DetachSet
  PROVE  IInv'
<1>1. /\ pc[Main] = "detach_set" /\ pc' = [pc EXCEPT ![Main] = "detach_unlock"]
      /\ is_detached' = [is_detached EXCEPT ![current] = TRUE]
      /\ UNCHANGED <<return_to, iter, current, owned, lock,
                     last_stack_lock, is_finished, stack_list, stacks,
                     tid>>
  BY DEF DetachSet, Step, Goto, Acquire, Release, CallDestroy, NextScanned, locals,
     main_vars,
     flags, list
<1>2. TypeOK'
  BY <1>1, ProcFacts DEF IInv, TypeOK, RunnerLabels, MainLabels, DestroyLabels
<1>3. Locked'
  BY <1>1, ProcFacts DEF IInv, TypeOK, Locked, RunnerHolds, MainHolds, DestroyLabels
<1>4. ListLocked'
  BY <1>1, ProcFacts DEF IInv, TypeOK, ListLocked, WithList
<1>5. Marked'
  BY <1>1, ProcFacts DEF IInv, TypeOK, Marked, DestroyLabels
<1>6. Owned'
  BY <1>1, ProcFacts DEF IInv, TypeOK, Owned, Created, Busy, Undecided,
     Detaching, Destroying, DestroyLabels
<1>7. StacksAccounted'
  BY <1>1, ProcFacts DEF IInv, TypeOK, StacksAccounted, Owned, Marked, Locked,
     RunnerHolds,
     MainHolds, Created, Pending, Busy, Undecided, Detaching, Destroying, Listed,
     DestroyLabels
<1>8. StackKept'
  BY <1>1, ProcFacts DEF IInv, TypeOK, StackKept
<1>9. ListWalked'
  BY <1>1, ProcFacts, ListFrame DEF IInv, TypeOK
<1>10. Scanned'
  BY <1>1, ProcFacts DEF IInv, TypeOK, Scanned, ScanCovers
<1> QED
  BY <1>2, <1>3, <1>4, <1>5, <1>6, <1>7, <1>8, <1>9, <1>10 DEF IInv

\* It leaves the lock.
LEMMA DetachUnlockIInv ==
  ASSUME IInv, DetachUnlock
  PROVE  IInv'
<1>1. /\ pc[Main] = "detach_unlock" /\ pc' = [pc EXCEPT ![Main] = "main"]
      /\ lock' = [lock EXCEPT ![current] = FALSE]
      /\ UNCHANGED <<return_to, iter, current, owned, last_stack_lock,
                     is_finished, is_detached, stack_list, stacks, tid>>
  BY DEF DetachUnlock, Step, Goto, Acquire, Release, CallDestroy, NextScanned,
     locals, main_vars,
     flags, list
<1>2. TypeOK'
  BY <1>1, ProcFacts DEF IInv, TypeOK, RunnerLabels, MainLabels, DestroyLabels
<1>3. Locked'
  BY <1>1, ProcFacts DEF IInv, TypeOK, Locked, RunnerHolds, MainHolds, DestroyLabels
<1>4. ListLocked'
  BY <1>1, ProcFacts DEF IInv, TypeOK, ListLocked, WithList
<1>5. Marked'
  BY <1>1, ProcFacts DEF IInv, TypeOK, Marked, DestroyLabels
<1>6. Owned'
  BY <1>1, ProcFacts DEF IInv, TypeOK, Owned, Created, Busy, Undecided,
     Detaching, Destroying, DestroyLabels
<1>7. StacksAccounted'
  BY <1>1, ProcFacts DEF IInv, TypeOK, StacksAccounted, Created, Pending,
     Undecided, Listed
<1>8. StackKept'
  BY <1>1, ProcFacts DEF IInv, TypeOK, StackKept
<1>9. ListWalked'
  BY <1>1, ProcFacts, ListFrame DEF IInv, TypeOK
<1>10. Scanned'
  BY <1>1, ProcFacts DEF IInv, TypeOK, Scanned, ScanCovers
<1> QED
  BY <1>2, <1>3, <1>4, <1>5, <1>6, <1>7, <1>8, <1>9, <1>10 DEF IInv

\* cthread_join finds the thread finished.
LEMMA JoinWaitIInv ==
  ASSUME IInv, JoinWait
  PROVE  IInv'
<1>1. /\ pc[Main] = "join_wait" /\ is_finished[current]
      /\ pc' = [pc EXCEPT ![Main] = "list_lock"]
      /\ return_to' = [return_to EXCEPT ![Main] = "main"]
      /\ UNCHANGED <<iter, current, owned, lock, last_stack_lock,
                     is_finished, is_detached, stack_list, stacks, tid>>
  BY DEF JoinWait, Goto, CallDestroy, main_vars, flags, list
<1>2. TypeOK'
  BY <1>1, ProcFacts DEF IInv, TypeOK, RunnerLabels, MainLabels, DestroyLabels
<1>3. Locked'
  BY <1>1, ProcFacts DEF IInv, TypeOK, Locked, RunnerHolds, MainHolds, DestroyLabels
<1>4. ListLocked'
  BY <1>1, ProcFacts DEF IInv, TypeOK, ListLocked, WithList
<1>5. Marked'
  BY <1>1, ProcFacts DEF IInv, TypeOK, Marked, DestroyLabels
<1>6. Owned'
  BY <1>1, ProcFacts DEF IInv, TypeOK, Owned, Created, Busy, Undecided,
     Detaching, Destroying, DestroyLabels
<1>7. StacksAccounted'
  BY <1>1, ProcFacts DEF IInv, TypeOK, StacksAccounted, Created, Pending,
     Undecided, Listed
<1>8. StackKept'
  BY <1>1, ProcFacts DEF IInv, TypeOK, StackKept
<1>9. ListWalked'
  BY <1>1, ProcFacts, ListFrame DEF IInv, TypeOK
<1>10. Scanned'
  BY <1>1, ProcFacts DEF IInv, TypeOK, Scanned, ScanCovers
<1> QED
  BY <1>2, <1>3, <1>4, <1>5, <1>6, <1>7, <1>8, <1>9, <1>10 DEF IInv

\* The scan begins.
LEMMA ScanBeginIInv ==
  ASSUME IInv, ScanBegin
  PROVE  IInv'
<1>1. /\ pc[Main] = "main" /\ pc' = [pc EXCEPT ![Main] = "scan"]
      /\ owned = {} /\ current' = 0
      /\ UNCHANGED <<return_to, iter, owned, lock, last_stack_lock,
                     is_finished, is_detached, stack_list, stacks, tid>>
  BY DEF ScanBegin, Step, Goto, Acquire, Release, CallDestroy, NextScanned, locals,
     main_vars,
     flags, list
<1>2. TypeOK'
  BY <1>1, ProcFacts, NAssumption DEF IInv, TypeOK, RunnerLabels, MainLabels,
     DestroyLabels
<1>3. Locked'
  BY <1>1, ProcFacts DEF IInv, TypeOK, Locked, RunnerHolds, MainHolds, DestroyLabels
<1>4. ListLocked'
  BY <1>1, ProcFacts DEF IInv, TypeOK, ListLocked, WithList
<1>5. Marked'
  BY <1>1, ProcFacts DEF IInv, TypeOK, Marked, DestroyLabels
<1>6. Owned'
  BY <1>1, ProcFacts DEF IInv, TypeOK, Owned, Created, Busy, Undecided,
     Detaching, Destroying, DestroyLabels
<1>7. StacksAccounted'
  BY <1>1, ProcFacts DEF IInv, TypeOK, StacksAccounted, Created, Pending,
     Undecided, Listed
<1>8. StackKept'
  BY <1>1, ProcFacts DEF IInv, TypeOK, StackKept
<1>9. ListWalked'
  BY <1>1, ProcFacts, ListFrame DEF IInv, TypeOK
<1>10. Scanned'
  BY <1>1, ProcFacts DEF IInv, TypeOK, Scanned, ScanCovers
<1> QED
  BY <1>2, <1>3, <1>4, <1>5, <1>6, <1>7, <1>8, <1>9, <1>10 DEF IInv

\* The scan goes on to the next thread, or back to thread 1.
LEMMA ScanIInv ==
  ASSUME IInv, Scan
  PROVE  IInv'
<1>1. /\ pc[Main] = "scan" /\ current < N
      /\ current' = IF is_finished[current] THEN current + 1 ELSE 1
      /\ UNCHANGED <<pc, return_to, iter, owned, lock, last_stack_lock,
                     is_finished, is_detached, stack_list, stacks, tid>>
  BY DEF Scan, NextScanned, locals, flags, list
<1>2. TypeOK'
  BY <1>1, ProcFacts, NAssumption DEF IInv, TypeOK, RunnerLabels, MainLabels,
     DestroyLabels
<1>3. Locked'
  BY <1>1, ProcFacts DEF IInv, TypeOK, Locked, RunnerHolds, MainHolds, DestroyLabels
<1>4. ListLocked'
  BY <1>1, ProcFacts DEF IInv, TypeOK, ListLocked, WithList
<1>5. Marked'
  BY <1>1, ProcFacts DEF IInv, TypeOK, Marked, DestroyLabels
<1>6. Owned'
  BY <1>1, ProcFacts DEF IInv, TypeOK, Owned, Created, Busy, Undecided,
     Detaching, Destroying, DestroyLabels
<1>7. StacksAccounted'
  BY <1>1, ProcFacts DEF IInv, TypeOK, StacksAccounted, Created, Pending,
     Undecided, Listed
<1>8. StackKept'
  BY <1>1, ProcFacts DEF IInv, TypeOK, StackKept
<1>9. ListWalked'
  BY <1>1, ProcFacts, ListFrame DEF IInv, TypeOK
<1>10. Scanned'
  BY <1>1, ProcFacts DEF IInv, TypeOK, Scanned, ScanCovers
<1> QED
  BY <1>2, <1>3, <1>4, <1>5, <1>6, <1>7, <1>8, <1>9, <1>10 DEF IInv

\* The scan has come to its end.
LEMMA PrintedIInv ==
  ASSUME IInv, Printed
  PROVE  IInv'
<1>1. /\ pc[Main] = "scan" /\ pc' = [pc EXCEPT ![Main] = "printed"]
      /\ current >= N
      /\ UNCHANGED <<return_to, iter, current, owned, lock,
                     last_stack_lock, is_finished, is_detached,
                     stack_list, stacks, tid>>
  BY DEF Printed, Step, Goto, Acquire, Release, CallDestroy, NextScanned, locals,
     main_vars,
     flags, list
<1>2. TypeOK'
  BY <1>1, ProcFacts DEF IInv, TypeOK, RunnerLabels, MainLabels, DestroyLabels
<1>3. Locked'
  BY <1>1, ProcFacts DEF IInv, TypeOK, Locked, RunnerHolds, MainHolds, DestroyLabels
<1>4. ListLocked'
  BY <1>1, ProcFacts DEF IInv, TypeOK, ListLocked, WithList
<1>5. Marked'
  BY <1>1, ProcFacts DEF IInv, TypeOK, Marked, DestroyLabels
<1>6. Owned'
  BY <1>1, ProcFacts DEF IInv, TypeOK, Owned, Created, Busy, Undecided,
     Detaching, Destroying, DestroyLabels
<1>7. StacksAccounted'
  BY <1>1, ProcFacts DEF IInv, TypeOK, StacksAccounted, Created, Pending,
     Undecided, Listed
<1>8. StackKept'
  BY <1>1, ProcFacts DEF IInv, TypeOK, StackKept
<1>9. ListWalked'
  BY <1>1, ProcFacts, ListFrame DEF IInv, TypeOK
<1>10. Scanned'
  BY <1>1, ProcFacts, NAssumption DEF IInv, TypeOK, Scanned, ScanCovers
<1> QED
  BY <1>2, <1>3, <1>4, <1>5, <1>6, <1>7, <1>8, <1>9, <1>10 DEF IInv

\* main returns.
LEMMA MainExitIInv ==
  ASSUME IInv, MainExit
  PROVE  IInv'
<1>1. /\ pc[Main] = "printed" /\ pc' = [pc EXCEPT ![Main] = "exited"]
      /\ UNCHANGED <<return_to, iter, current, owned, lock,
                     last_stack_lock, is_finished, is_detached,
                     stack_list, stacks, tid>>
  BY DEF MainExit, Step, Goto, Acquire, Release, CallDestroy, NextScanned, locals,
     main_vars,
     flags, list
<1>2. TypeOK'
  BY <1>1, ProcFacts DEF IInv, TypeOK, RunnerLabels, MainLabels, DestroyLabels
<1>3. Locked'
  BY <1>1, ProcFacts DEF IInv, TypeOK, Locked, RunnerHolds, MainHolds, DestroyLabels
<1>4. ListLocked'
  BY <1>1, ProcFacts DEF IInv, TypeOK, ListLocked, WithList
<1>5. Marked'
  BY <1>1, ProcFacts DEF IInv, TypeOK, Marked, DestroyLabels
<1>6. Owned'
  BY <1>1, ProcFacts DEF IInv, TypeOK, Owned, Created, Busy, Undecided,
     Detaching, Destroying, DestroyLabels
<1>7. StacksAccounted'
  BY <1>1, ProcFacts DEF IInv, TypeOK, StacksAccounted, Created, Pending,
     Undecided, Listed
<1>8. StackKept'
  BY <1>1, ProcFacts DEF IInv, TypeOK, StackKept
<1>9. ListWalked'
  BY <1>1, ProcFacts, ListFrame DEF IInv, TypeOK
<1>10. Scanned'
  BY <1>1, ProcFacts DEF IInv, TypeOK, Scanned, ScanCovers
<1> QED
  BY <1>2, <1>3, <1>4, <1>5, <1>6, <1>7, <1>8, <1>9, <1>10 DEF IInv
-----------------------------------------------------------------------------
(* cthread_destroy, in a thread or in main *)

\* The lock of the list is taken; the walk begins at the head.
LEMMA DestroyLockIInv ==
  ASSUME IInv, NEW p \in Procs, DestroyLock(p)
  PROVE  IInv'
<1>1. /\ pc[p] = "list_lock" /\ pc' = [pc EXCEPT ![p] = "walk"]
      /\ ~last_stack_lock /\ last_stack_lock' = TRUE
      /\ iter' = [iter EXCEPT ![p] = stack_list]
      /\ UNCHANGED <<return_to, current, owned, lock, is_finished, is_detached,
                     stack_list, stacks, tid>>
  BY DEF DestroyLock, Step, Goto, main_vars, flags, list
<1>2. TypeOK'
  BY <1>1, ProcFacts DEF IInv, TypeOK, RunnerLabels, MainLabels, DestroyLabels
<1>3. Locked'
  BY <1>1, ProcFacts DEF IInv, TypeOK, Locked, RunnerHolds, MainHolds, DestroyLabels
<1>4. ListLocked'
  BY <1>1, ProcFacts DEF IInv, TypeOK, ListLocked, WithList
<1>5. Marked'
  BY <1>1, ProcFacts DEF IInv, TypeOK, Marked, DestroyLabels
<1>6. Owned'
  BY <1>1, ProcFacts DEF IInv, TypeOK, Owned, Created, Busy, Undecided, Detaching,
     Destroying, DestroyLabels
<1>7. StacksAccounted'
  BY <1>1, ProcFacts DEF IInv, TypeOK, StacksAccounted, Created, Pending, Undecided,
     Listed
<1>8. StackKept'
  BY <1>1, ProcFacts DEF IInv, TypeOK, StackKept
<1>9. ListWalked'
  <2>1. \A q \in Procs : pc[q] # "walk"
    BY <1>1 DEF IInv, ListLocked, WithList
  <2>2. Sound(stack_list)
    BY <2>1 DEF IInv, ListWalked
  <2>3. iter'[p] = stack_list /\ Listed' = Listed
    BY <1>1 DEF IInv, TypeOK, Listed
  <2>4. Sound(iter[p])'
    BY <1>1, <2>2, <2>3 DEF Sound
  <2>5. Walked(p)'
    BY <1>1, <2>3, <2>4 DEF Walked, Listed
  <2>6. pc'[p] = "walk" /\ \A q \in Procs : pc'[q] = "walk" => q = p
    BY <1>1, <2>1 DEF IInv, TypeOK
  <2> QED BY <2>5, <2>6 DEF ListWalked
<1>10. Scanned'
  BY <1>1, ProcFacts DEF IInv, TypeOK, Scanned, ScanCovers
<1> QED
  BY <1>2, <1>3, <1>4, <1>5, <1>6, <1>7, <1>8, <1>9, <1>10 DEF IInv

\* What is at the head of a sound list, and what is behind it.
LEMMA HeadTail ==
  ASSUME NEW l \in Seq(Threads), l # <<>>, Sound(l)
  PROVE  /\ Head(l) \in stacks /\ Head(l) = l[1] /\ 1 \in DOMAIN l
         /\ Tail(l) \in Seq(Threads)
         /\ DOMAIN Tail(l) = 1 .. Len(l) - 1 /\ DOMAIN l = 1 .. Len(l) /\ Len(l) \in Nat
         /\ \A k \in DOMAIN Tail(l) : Tail(l)[k] = l[k + 1] /\ Tail(l)[k] # Head(l)
         /\ \A j, k \in DOMAIN Tail(l) : Tail(l)[j] = Tail(l)[k] => j = k
<1>1. /\ Head(l) = l[1] /\ 1 \in DOMAIN l /\ Tail(l) \in Seq(Threads)
      /\ DOMAIN Tail(l) = 1 .. Len(l) - 1 /\ DOMAIN l = 1 .. Len(l) /\ Len(l) \in Nat
      /\ \A k \in DOMAIN Tail(l) : Tail(l)[k] = l[k + 1]
  OBVIOUS
<1>2. \A k \in DOMAIN Tail(l) : k + 1 \in DOMAIN l /\ k + 1 # 1 /\ k \in Nat
  BY <1>1
<1> QED
  BY <1>1, <1>2 DEF Sound

\* A stack at the head is freed: its thread is gone, and the walk goes on.
LEMMA DestroyFreeIInv ==
  ASSUME IInv, NEW p \in Procs, DestroyFree(p)
  PROVE  IInv'
<1> DEFINE h == Head(iter[p])
<1>1. /\ pc[p] = "walk" /\ iter[p] # <<>> /\ tid[h] = 0
      /\ stacks' = stacks \ {h} /\ iter' = [iter EXCEPT ![p] = Tail(@)]
      /\ UNCHANGED <<pc, return_to, current, owned, lock, last_stack_lock,
                     is_finished, is_detached, stack_list, tid>>
  BY DEF DestroyFree, FreesNext, MayFree, main_vars, flags
<1>2. /\ iter[p] \in Seq(Threads) /\ Walked(p) /\ Sound(iter[p])
      /\ iter'[p] = Tail(iter[p])
  BY <1>1 DEF IInv, TypeOK, ListWalked, Walked
<1>3. h \in stacks /\ h \in Threads /\ h \in Listed /\ Tail(iter[p]) \in Seq(Threads)
  BY <1>1, <1>2, HeadTail DEF Walked, IInv, TypeOK
<1> HIDE DEF h
<1>4. pc[h] = "gone"
  BY <1>1, <1>3 DEF IInv, Marked, StacksAccounted, Created, Pending
<1>5. TypeOK'
  BY <1>1, <1>3 DEF IInv, TypeOK
<1>6. Locked' /\ ListLocked' /\ Marked' /\ Owned' /\ Scanned'
  BY <1>1 DEF IInv, Locked, RunnerHolds, MainHolds, ListLocked, WithList, Marked, Owned,
     Created, Busy, Undecided, Detaching, Destroying, Scanned, ScanCovers
<1>7. Listed' = Listed
  BY <1>1 DEF Listed
<1>8. StacksAccounted'
  BY <1>1, <1>3, <1>7 DEF IInv, StacksAccounted, Created, Pending, Undecided
<1>9. StackKept'
  BY <1>1, <1>4 DEF IInv, StackKept
<1>10. ListWalked'
  <2>1. Sound(iter[p])'
    <3>1. ASSUME NEW k \in DOMAIN Tail(iter[p])
          PROVE  Tail(iter[p])[k] \in stacks /\ Tail(iter[p])[k] # h
      <4>1. k + 1 \in DOMAIN iter[p] /\ Tail(iter[p])[k] = iter[p][k + 1]
        BY <1>1, <1>2, HeadTail
      <4> QED BY <1>1, <1>2, <4>1, HeadTail DEF Sound, h
    <3>2. \A j, k \in DOMAIN Tail(iter[p]) :
            Tail(iter[p])[j] = Tail(iter[p])[k] => j = k
      BY <1>1, <1>2, HeadTail
    <3> DEFINE rest == Tail(iter[p])
    <3>3. iter'[p] = rest /\ stacks' = stacks \ {h}
      BY <1>1, <1>2
    <3>4. /\ \A k \in DOMAIN rest : rest[k] \in stacks \ {h}
          /\ \A j, k \in DOMAIN rest : rest[j] = rest[k] => j = k
      BY <3>1, <3>2
    <3> HIDE DEF rest
    <3> QED BY <3>3, <3>4 DEF Sound
  <2>2. ASSUME NEW t \in stacks'
        PROVE  t \in Listed' <=> \E k \in DOMAIN iter'[p] : iter'[p][k] = t
    <3>1. t \in stacks /\ t # iter[p][1]
      BY <1>1, <1>2, HeadTail DEF h
    <3>2. t \in Listed <=> \E k \in DOMAIN iter[p] : iter[p][k] = t
      BY <1>2, <3>1 DEF Walked
    <3>3. ASSUME NEW k \in DOMAIN iter[p], iter[p][k] = t
          PROVE  k - 1 \in DOMAIN Tail(iter[p]) /\ Tail(iter[p])[k - 1] = t
      BY <1>1, <1>2, <3>1, <3>3, HeadTail
    <3>4. ASSUME NEW k \in DOMAIN Tail(iter[p]), Tail(iter[p])[k] = t
          PROVE  k + 1 \in DOMAIN iter[p] /\ iter[p][k + 1] = t
      BY <1>1, <1>2, <3>4, HeadTail
    <3> QED BY <1>2, <1>7, <3>2, <3>3, <3>4
  <2>3. Walked(p)'
    BY <2>1, <2>2 DEF Walked
  <2>4. \A q \in Procs : pc'[q] = "walk" => q = p
    BY <1>1 DEF IInv, ListLocked, WithList
  <2>5. pc'[p] = "walk"
    BY <1>1
  <2> QED BY <2>3, <2>4, <2>5 DEF ListWalked
<1> QED
  BY <1>5, <1>6, <1>8, <1>9, <1>10 DEF IInv

\* The stack of the thread is put before what the walk has left.
LEMMA DestroyLinkIInv ==
  ASSUME IInv, NEW p \in Procs, DestroyLink(p)
  PROVE  IInv'
<1>0. PICK t \in Threads : t = Target(p)
  BY ProcFacts DEF DestroyLink, Step, IInv, Owned
<1> DEFINE rest == iter[p]
<1>1. /\ pc[p] = "walk" /\ pc' = [pc EXCEPT ![p] = "list_unlock"]
      /\ stack_list' = <<t>> \o rest
      /\ UNCHANGED <<return_to, iter, current, owned, lock, last_stack_lock,
                     is_finished, is_detached, stacks, tid>>
  BY <1>0 DEF DestroyLink, Step, Goto, Push, locals, main_vars, flags
<1>2. rest \in Seq(Threads) /\ Sound(rest) /\ Walked(p)
  BY <1>1 DEF IInv, TypeOK, ListWalked, Walked
<1>3. t \in Threads /\ Pending(t) /\ Created(t) /\ t \in stacks /\ t \notin Listed
  <2>1. CASE p \in Threads
    <3>1. t = p /\ Pending(t) /\ Created(t)
      BY <1>0, <1>1, <2>1, ProcFacts DEF Pending, Created
    <3> QED BY <2>1, <3>1 DEF IInv, StacksAccounted
  <2>2. CASE p = Main
    <3>1. t = current /\ t \in Threads /\ is_finished[t] /\ Busy(t) /\ Destroying(t)
      BY <1>0, <1>1, <2>2, ProcFacts DEF IInv, Owned, Marked, Busy, Destroying,
         DestroyLabels
    <3>2. ~is_detached[t] /\ Created(t)
      BY <3>1 DEF IInv, Owned
    <3>3. Pending(t)
      BY <1>1, <2>2, <3>1, <3>2 DEF Pending, IInv, Marked
    <3> QED BY <3>1, <3>2, <3>3 DEF IInv, StacksAccounted
  <2> QED BY <2>1, <2>2, ProcFacts
<1> HIDE DEF rest
<1>4. /\ stack_list' \in Seq(Threads)
      /\ DOMAIN stack_list' = 1 .. Len(rest) + 1 /\ DOMAIN rest = 1 .. Len(rest)
      /\ Len(rest) \in Nat /\ stack_list'[1] = t
      /\ \A k \in 2 .. Len(rest) + 1 : stack_list'[k] = rest[k - 1]
  BY <1>1, <1>2, <1>3
<1>5. \A s : s \in Listed' <=> s = t \/ \E k \in DOMAIN rest : rest[k] = s
  <2>1. ASSUME NEW s, s \in Listed'
        PROVE  s = t \/ \E k \in DOMAIN rest : rest[k] = s
    <3>1. PICK k \in 1 .. Len(rest) + 1 : stack_list'[k] = s
      BY <1>4, <2>1 DEF Listed
    <3>2. CASE k = 1
      BY <1>4, <3>1, <3>2
    <3>3. CASE k # 1
      BY <1>4, <3>1, <3>3
    <3> QED BY <3>2, <3>3
  <2>2. ASSUME NEW k \in DOMAIN rest
        PROVE  rest[k] \in Listed'
    <3>1. k + 1 \in 2 .. Len(rest) + 1 /\ stack_list'[k + 1] = rest[k]
      BY <1>4, <2>2
    <3> QED BY <1>4, <3>1 DEF Listed
  <2>3. t \in Listed'
    BY <1>4 DEF Listed
  <2> QED BY <2>1, <2>2, <2>3
<1>6. \A s \in stacks : s \in Listed' <=> s \in Listed \/ s = t
  BY <1>2, <1>5 DEF Walked, rest
<1>7. \A s \in Listed' : s \in stacks
  BY <1>2, <1>3, <1>5 DEF Sound
<1>8. TypeOK'
  BY <1>1, <1>4, ProcFacts DEF IInv, TypeOK, RunnerLabels, MainLabels, DestroyLabels
<1>9. Locked'
  BY <1>1, ProcFacts DEF IInv, TypeOK, Locked, RunnerHolds, MainHolds, DestroyLabels
<1>10. ListLocked'
  BY <1>1, ProcFacts DEF IInv, TypeOK, ListLocked, WithList
<1>11. Marked'
  BY <1>1, ProcFacts DEF IInv, TypeOK, Marked, DestroyLabels
<1>12. Owned'
  BY <1>1, ProcFacts DEF IInv, TypeOK, Owned, Created, Busy, Undecided, Detaching,
     Destroying, DestroyLabels
<1>13. StacksAccounted'
  <2>1. ASSUME NEW s \in Threads, s # t
        PROVE  (Created(s)' <=> Created(s)) /\ (Pending(s)' <=> Pending(s))
    BY <1>0, <1>1, <2>1, ProcFacts DEF IInv, TypeOK, Created, Pending, Undecided
  <2>2. Created(t)' /\ ~Pending(t)'
    <3>1. CASE p \in Threads
      BY <1>0, <1>1, <3>1, ProcFacts DEF IInv, TypeOK, Created, Pending
    <3>2. CASE p = Main
      <4>1. t = current /\ is_finished[t] /\ Destroying(t) /\ t \notin owned
        BY <1>0, <1>1, <1>3, <3>2, ProcFacts
        DEF IInv, Owned, Marked, Busy, Destroying, DestroyLabels
      <4>2. pc[t] \in {"runner_unlock", "exit", "gone"} /\ pc'[t] = pc[t]
        BY <1>1, <1>3, <3>2, <4>1, ProcFacts DEF IInv, TypeOK, Marked
      <4>3. pc'[Main] = "list_unlock"
        BY <1>1, <3>2, ProcFacts DEF IInv, TypeOK
      <4> QED BY <1>1, <4>1, <4>2, <4>3 DEF Created, Pending, Undecided
    <3> QED BY <3>1, <3>2, ProcFacts
  <2>3. ASSUME NEW s \in Threads
        PROVE  /\ Created(s)' => (Pending(s)' <=> s \in stacks /\ s \notin Listed')
               /\ ~Created(s)' => s \notin stacks /\ s \notin Listed'
    <3>1. CASE s = t
      BY <1>6, <2>2, <3>1, <1>3
    <3>2. CASE s # t
      BY <1>6, <1>7, <2>1, <3>2 DEF IInv, StacksAccounted
    <3> QED BY <3>1, <3>2
  <2> QED BY <1>1, <2>3 DEF StacksAccounted
<1>14. StackKept'
  BY <1>1, ProcFacts DEF IInv, TypeOK, StackKept
<1>15. ListWalked'
  <2>1. t \notin {rest[k] : k \in DOMAIN rest}
    BY <1>2, <1>3 DEF Walked, rest
  <2>2. ASSUME NEW j \in DOMAIN stack_list', NEW k \in DOMAIN stack_list',
               stack_list'[j] = stack_list'[k]
        PROVE  j = k
    <3>1. CASE j = 1 /\ k # 1
      BY <1>4, <2>1, <2>2, <3>1
    <3>2. CASE j # 1 /\ k = 1
      BY <1>4, <2>1, <2>2, <3>2, SMTT(30)
    <3>3. CASE j # 1 /\ k # 1
      <4>1. j - 1 \in DOMAIN rest /\ k - 1 \in DOMAIN rest /\ rest[j - 1] = rest[k - 1]
        BY <1>4, <2>2, <3>3
      <4>2. j - 1 = k - 1
        BY <1>2, <4>1 DEF Sound
      <4> QED BY <1>4, <4>2
    <3> QED BY <3>1, <3>2, <3>3
  <2>3. \A k \in DOMAIN stack_list' : stack_list'[k] \in stacks'
    BY <1>1, <1>7 DEF Listed
  <2>4. Sound(stack_list)'
    BY <2>2, <2>3 DEF Sound
  <2>5. \A q \in Procs : pc'[q] # "walk"
    BY <1>1 DEF IInv, TypeOK, ListLocked, WithList
  <2> QED BY <2>4, <2>5 DEF ListWalked
<1>16. Scanned'
  BY <1>1, ProcFacts DEF IInv, TypeOK, Scanned, ScanCovers
<1> QED
  BY <1>8, <1>9, <1>10, <1>11, <1>12, <1>13, <1>14, <1>15, <1>16 DEF IInv

\* The lock of the list is left, and cthread_destroy returns.
LEMMA DestroyUnlockIInv ==
  ASSUME IInv, NEW p \in Procs, DestroyUnlock(p)
  PROVE  IInv'
<1>1. /\ pc[p] = "list_unlock" /\ pc' = [pc EXCEPT ![p] = return_to[p]]
      /\ last_stack_lock' = FALSE
      /\ UNCHANGED <<return_to, iter, current, owned, lock, is_finished, is_detached,
                     stack_list, stacks, tid>>
  BY DEF DestroyUnlock, Step, Goto, locals, main_vars, flags, list
<1>2. /\ p \in Threads => return_to[p] = "finish" /\ is_detached[p]
      /\ p = Main => return_to[p] \in {"main", "detach_set"} /\ is_finished[current]
  BY <1>1 DEF IInv, Marked, DestroyLabels
<1>3. TypeOK'
  BY <1>1, <1>2, ProcFacts DEF IInv, TypeOK, RunnerLabels, MainLabels, DestroyLabels
<1>4. Locked'
  BY <1>1, <1>2, ProcFacts DEF IInv, TypeOK, Locked, RunnerHolds, MainHolds,
     DestroyLabels
<1>5. ListLocked'
  BY <1>1, <1>2, ProcFacts DEF IInv, TypeOK, ListLocked, WithList
<1>6. Marked'
  BY <1>1, <1>2, ProcFacts DEF IInv, TypeOK, Marked, DestroyLabels
<1>7. Owned'
  BY <1>1, <1>2, ProcFacts DEF IInv, TypeOK, Owned, Marked, Created, Busy, Undecided,
     Detaching, Destroying, DestroyLabels
<1>8. StacksAccounted'
  <2>1. ASSUME NEW t \in Threads
        PROVE  Created(t)' = Created(t) /\ (Created(t) => (Pending(t)' <=> Pending(t)))
    BY <1>1, <1>2, ProcFacts DEF IInv, TypeOK, Marked, Owned, Created, Pending, Undecided
  <2>2. Listed' = Listed
    BY <1>1 DEF Listed
  <2> QED BY <1>1, <2>1, <2>2 DEF IInv, StacksAccounted
<1>9. StackKept'
  BY <1>1, <1>2, ProcFacts DEF IInv, TypeOK, StackKept
<1>10. ListWalked'
  BY <1>1, <1>2, ProcFacts, ListFrame DEF IInv, TypeOK
<1>11. Scanned'
  BY <1>1, <1>2, ProcFacts DEF IInv, TypeOK, Scanned, ScanCovers
<1> QED
  BY <1>3, <1>4, <1>5, <1>6, <1>7, <1>8, <1>9, <1>10, <1>11 DEF IInv

-----------------------------------------------------------------------------
(* The theorems *)

\* The invariant holds before main has made any thread.
LEMMA InitIInv == Init => IInv
<1> SUFFICES ASSUME Init PROVE IInv
  OBVIOUS
<1>1. pc[Main] = "main" /\ \A t \in Threads : pc[t] = "unused"
  BY ProcFacts DEF Init
<1>2. TypeOK
  <2>1. "main" \in MainLabels /\ "unused" \in RunnerLabels
    BY DEF MainLabels, RunnerLabels
  <2>2. /\ pc \in [Procs -> RunnerLabels \cup MainLabels]
        /\ pc[Main] \in MainLabels /\ \A t \in Threads : pc[t] \in RunnerLabels
    BY <1>1, <2>1 DEF Init
  <2>3. iter \in [Procs -> Seq(Threads)] /\ stack_list \in Seq(Threads)
    BY DEF Init
  <2>4. current \in 0 .. N
    BY NAssumption DEF Init
  <2> QED BY <2>2, <2>3, <2>4 DEF Init, TypeOK
<1>3. Locked /\ ListLocked /\ Marked
  BY <1>1, ProcFacts DEF Init, Locked, RunnerHolds, MainHolds, ListLocked, WithList,
     Marked, DestroyLabels
<1>4. Owned /\ Scanned
  BY <1>1 DEF Init, Owned, Created, Busy, Scanned, ScanCovers
<1>5. Listed = {} /\ Sound(stack_list)
  BY DEF Init, Listed, Sound
<1>6. StacksAccounted /\ StackKept
  BY <1>1, <1>5 DEF Init, StacksAccounted, Created, StackKept
<1>7. ListWalked
  BY <1>1, <1>5, ProcFacts DEF ListWalked
<1> QED
  BY <1>2, <1>3, <1>4, <1>6, <1>7 DEF IInv

\* Every step of every process keeps the invariant.
LEMMA NextIInv == IInv /\ [Next]_vars => IInv'
<1> SUFFICES ASSUME IInv, [Next]_vars PROVE IInv'
  OBVIOUS
<1>1. ASSUME NEW p \in Procs, Destroy(p) PROVE IInv'
  BY <1>1, DestroyLockIInv, DestroyFreeIInv, DestroyLinkIInv, DestroyUnlockIInv
  DEF Destroy
<1>2. ASSUME NEW t \in Threads, Runner(t) PROVE IInv'
  BY <1>1, <1>2, ProcFacts, StartIInv, FuncEndIInv, RunnerLockIInv, RunnerTestIInv,
     FinishIInv, RunnerUnlockIInv, ExitIInv DEF Runner
<1>3. CASE MainStep
  BY <1>1, <1>3, ProcFacts, CreateIInv, CallIInv, DetachLockIInv, DetachTestIInv,
     DetachSetIInv, DetachUnlockIInv, JoinWaitIInv, ScanBeginIInv, ScanIInv,
     PrintedIInv, MainExitIInv DEF MainStep
<1>4. CASE UNCHANGED vars
  <2>1. /\ UNCHANGED <<pc, return_to, iter, current, owned, lock, last_stack_lock>>
        /\ UNCHANGED <<is_finished, is_detached, stack_list, stacks, tid>>
    BY <1>4 DEF vars, locals, main_vars, flags, list
  <2>2. TypeOK'
    BY <2>1 DEF IInv, TypeOK
  <2>3. Locked' /\ ListLocked' /\ Marked' /\ Owned' /\ Scanned' /\ StackKept'
    BY <2>1 DEF IInv, Locked, RunnerHolds, MainHolds, ListLocked, WithList, Marked,
       Owned, Created, Busy, Undecided, Detaching, Destroying, Scanned, ScanCovers,
       StackKept
  <2>4. StacksAccounted'
    BY <2>1 DEF IInv, StacksAccounted, Created, Pending, Undecided, Listed
  <2>5. ListWalked'
    BY <2>1, ListFrame DEF IInv
  <2> QED BY <2>2, <2>3, <2>4, <2>5 DEF IInv
<1> QED
  BY <1>2, <1>3, <1>4 DEF Next

\* The inductive invariant holds in every reachable state.
THEOREM Invariance == Spec => []IInv
  BY InitIInv, NextIInv, PTL DEF Spec

\* Every variable keeps its type.
THEOREM TypeCorrect == Spec => []TypeOK
<1>1. IInv => TypeOK
  BY DEF IInv
<1> QED BY <1>1, Invariance, PTL

\* free() of a stack never takes it from under its thread: in cthread_destroy a
\* cleared tid in the list means that the thread is gone.
THEOREM StackSafety == Spec => []StackKept
<1>1. IInv => StackKept
  BY DEF IInv
<1> QED BY <1>1, Invariance, PTL

\* No freed entry is ever reached through stack_list, none is in it twice.
THEOREM ListSafety == Spec => []ListSound
<1>1. IInv => ListSound
  BY DEF IInv, ListSound, ListLocked, WithList, ListWalked, Walked
<1> QED BY <1>1, Invariance, PTL

\* The end of a thread and its detach or join never both destroy it.
THEOREM DestroySafety == Spec => []DestroyedOnce
<1>1. ASSUME IInv, NEW t \in Threads, pc[t] \in {"list_lock", "walk"}
      PROVE  Pending(t) /\ Created(t) /\ ~is_finished[t]
  BY <1>1 DEF Pending, Created, IInv, Marked
<1>2. ASSUME IInv, pc[Main] \in {"list_lock", "walk"}
      PROVE  /\ current \in Threads /\ is_finished[current]
             /\ Pending(current) /\ Created(current)
  <2>1. current \in Threads /\ is_finished[current] /\ Destroying(current) /\ Busy(current)
    BY <1>2 DEF IInv, Owned, Marked, DestroyLabels, Destroying, Busy
  <2>2. ~is_detached[current] /\ pc[current] \in {"runner_unlock", "exit", "gone"}
    BY <1>2, <2>1 DEF IInv, Owned, Marked
  <2> QED BY <1>2, <2>1, <2>2 DEF Pending, Created
<1>3. ASSUME IInv, NEW p \in Procs, pc[p] \in {"list_lock", "walk"}
      PROVE  /\ Target(p) \in stacks /\ Target(p) \notin Listed
             /\ \A q \in Procs \ {p} :
                  pc[q] \in {"list_lock", "walk"} => Target(q) # Target(p)
  <2>1. Target(p) \in Threads /\ Pending(Target(p)) /\ Created(Target(p))
    BY <1>1, <1>2, <1>3, ProcFacts
  <2>2. Target(p) \in stacks /\ Target(p) \notin Listed
    BY <1>3, <2>1 DEF IInv, StacksAccounted
  <2>3. ASSUME NEW q \in Procs \ {p}, pc[q] \in {"list_lock", "walk"}
        PROVE  Target(q) # Target(p)
    <3>1. CASE p \in Threads /\ q \in Threads
      BY <2>3, <3>1, ProcFacts
    <3>2. CASE p = Main /\ q \in Threads
      BY <1>1, <1>2, <1>3, <2>3, <3>2, ProcFacts
    <3>3. CASE p \in Threads /\ q = Main
      BY <1>1, <1>2, <1>3, <2>3, <3>3, ProcFacts
    <3> QED BY <3>1, <3>2, <3>3, ProcFacts
  <2> QED BY <2>2, <2>3
<1>4. IInv => DestroyedOnce
  BY <1>3 DEF DestroyedOnce
<1> QED BY <1>4, Invariance, PTL

\* Whichever comes first, the end of a thread or its detach or join, its stack
\* gets on the list of those to free.
THEOREM NoStackForgotten == Spec => []StacksHandedOver
<1>1. ASSUME IInv, NEW t \in Threads,
             Created(t), t \notin owned, ~Busy(t), is_finished[t]
      PROVE  t \in Listed \/ t \notin stacks
  <2>1. pc[t] \in {"runner_unlock", "exit", "gone"}
    BY <1>1 DEF IInv, Marked
  <2>2. ~Pending(t)
    BY <1>1, <2>1 DEF Pending, Undecided, Busy
  <2> QED BY <1>1, <2>2 DEF IInv, StacksAccounted
<1>2. IInv => StacksHandedOver
  BY <1>1 DEF StacksHandedOver
<1> QED BY <1>2, Invariance, PTL

\* What the scan of main does guarantee: all threads but the first.
THEOREM ScanResult == Spec => []ScanCovers
<1>1. IInv => ScanCovers
  BY DEF IInv, Scanned
<1> QED BY <1>1, Invariance, PTL
=============================================================================
