------------------------------- MODULE Locks -------------------------------
(***************************************************************************)
(* The threads of lecture_examples/6_threads that share a counter or a      *)
(* string (4_not_atomic.c to 8_futex.c), and the semaphore of               *)
(* 7_ipc/10_sem_mutex.h.  Which of them runs is lock_kind.  One action is   *)
(* one access to shared memory, or one call of the kernel.                  *)
(***************************************************************************)
EXTENDS Naturals, FiniteSets

CONSTANTS
  Threads,
  MAX_LOOPS,   \* stands for the 100000 iterations
  CHARS        \* stands for the 127 characters of the string

NOBODY == "nobody"

ASSUME LocksAssumption ==
  /\ IsFiniteSet(Threads) /\ Threads # {} /\ NOBODY \notin Threads
  /\ MAX_LOOPS \in Nat \ {0} /\ CHARS \in Nat \ {0}

VARIABLES
  lock_kind,
  lock,        \* thing.lock, or the futex
  counter,     \* counter, of a semaphore too
  string,      \* thing.string: who has written each character
  tpc,         \* where each thread is
  loops,       \* iterations that are done; characters that are written
  reg          \* the counter as a thread has read it

locks_vars == <<lock_kind, lock, counter, string, tpc, loops, reg>>

LockKinds == {"not_atomic", "atomic", "bad_lock", "spin_lock", "futex", "semaphore"}

Room == Cardinality(Threads) - 1    \* a semaphore begins with room for all threads but one

At(t, place) == tpc[t] = place
Goes(t, place) == tpc' = [tpc EXCEPT ![t] = place]
Done(t) == loops' = [loops EXCEPT ![t] = @ + 1]
More(t) == loops[t] < MAX_LOOPS

-----------------------------------------------------------------------------
(* The counter *)

\* counter = counter + 1 is a load and a store.
Load(t, from, to) ==
  /\ At(t, from) /\ More(t) /\ Goes(t, to)
  /\ reg' = [reg EXCEPT ![t] = counter]
  /\ UNCHANGED <<lock_kind, lock, counter, string, loops>>

Store(t, from, to) ==
  /\ At(t, from) /\ Goes(t, to)
  /\ counter' = reg[t] + 1
  /\ UNCHANGED <<lock_kind, lock, string, reg>>

NotAtomic(t) ==
  /\ lock_kind = "not_atomic"
  /\ Load(t, "run", "store") \/ (Store(t, "store", "run") /\ Done(t))

\* __sync_add_and_fetch()
Atomic(t) ==
  /\ lock_kind = "atomic" /\ At(t, "run") /\ More(t)
  /\ counter' = counter + 1 /\ Done(t)
  /\ UNCHANGED <<lock_kind, lock, string, tpc, reg>>

-----------------------------------------------------------------------------
(* The futex *)

Locked(t, place, otherwise) ==
  /\ IF lock = 0 THEN lock' = 1 /\ Goes(t, place) ELSE UNCHANGED lock /\ Goes(t, otherwise)
  /\ UNCHANGED <<lock_kind, counter, string, loops, reg>>

Unlocked(t, place) ==
  /\ lock' = 0 /\ Goes(t, place)
  /\ UNCHANGED <<lock_kind, counter, string, loops, reg>>

futex_lock(t) == At(t, "run") /\ More(t) /\ Locked(t, "locked", "wait")

\* The kernel puts t to sleep if the futex is still 1.
futex_wait(t) ==
  /\ At(t, "wait") /\ Goes(t, IF lock = 1 THEN "asleep" ELSE "run")
  /\ UNCHANGED <<lock_kind, lock, counter, string, loops, reg>>

\* Mutant: nobody is woken.
WokenByNone(t) == {tpc}

Asleep == {t \in Threads : At(t, "asleep")}

\* FUTEX_WAKE of one.
Woken(t) ==
  IF Asleep = {} THEN {tpc} ELSE {[tpc EXCEPT ![u] = "run"] : u \in Asleep}

futex_wake(t) ==
  /\ At(t, "wake") /\ Done(t)
  /\ \E pcs \in Woken(t) : tpc' = [pcs EXCEPT ![t] = "run"]
  /\ UNCHANGED <<lock_kind, lock, counter, string, reg>>

Futex(t) ==
  /\ lock_kind = "futex"
  /\ \/ futex_lock(t) \/ futex_wait(t)
     \/ Load(t, "locked", "store")
     \/ Store(t, "store", "unlock") /\ UNCHANGED loops
     \/ At(t, "unlock") /\ Unlocked(t, "wake")
     \/ futex_wake(t)

-----------------------------------------------------------------------------
(* The string *)

WriteString(t, then) ==
  /\ At(t, "write") /\ string' = [string EXCEPT ![loops[t] + 1] = t] /\ Done(t)
  /\ Goes(t, IF loops[t] + 1 = CHARS THEN then ELSE "write")
  /\ UNCHANGED <<lock_kind, lock, counter, reg>>

\* The flag is read and then written.
BadLock(t) ==
  /\ lock_kind = "bad_lock"
  /\ \/ /\ At(t, "run") /\ Goes(t, IF lock = 0 THEN "set" ELSE "end")
        /\ UNCHANGED <<lock_kind, lock, counter, string, loops, reg>>
     \/ /\ At(t, "set") /\ lock' = 1 /\ Goes(t, "write")
        /\ UNCHANGED <<lock_kind, counter, string, loops, reg>>
     \/ WriteString(t, "end")

\* __sync_bool_compare_and_swap(): who does not get the lock gives up.
SpinLock(t) ==
  /\ lock_kind = "spin_lock"
  /\ \/ At(t, "run") /\ Locked(t, "write", "end")
     \/ WriteString(t, "unlock")
     \/ At(t, "unlock") /\ Unlocked(t, "end")

-----------------------------------------------------------------------------
(* The semaphore: the mutex is held all through each of these *)

\* Mutant: if for while around pthread_cond_wait().
Unchecked(t) == At(t, "run") /\ counter = 0

MustWait(t) == tpc[t] \in {"run", "woken"} /\ counter = 0

semaphore_get(t) ==
  /\ (At(t, "run") /\ More(t)) \/ At(t, "woken")
  /\ IF MustWait(t) THEN Goes(t, "asleep") /\ UNCHANGED counter
     ELSE counter' = counter - 1 /\ Goes(t, "locked")
  /\ UNCHANGED <<lock_kind, lock, string, loops, reg>>

\* pthread_cond_signal() wakes at least one.
semaphore_put(t) ==
  /\ At(t, "locked") /\ counter' = counter + 1 /\ Done(t)
  /\ \E woken \in SUBSET Asleep :
       /\ Asleep # {} => woken # {}
       /\ tpc' = [u \in Threads |-> IF u \in woken THEN "woken" ELSE IF u = t THEN "run" ELSE tpc[u]]
  /\ UNCHANGED <<lock_kind, lock, string, reg>>

Semaphore(t) == lock_kind = "semaphore" /\ (semaphore_get(t) \/ semaphore_put(t))

-----------------------------------------------------------------------------
LocksInit ==
  /\ lock_kind \in LockKinds
  /\ lock = 0 /\ counter = (IF lock_kind = "semaphore" THEN Room ELSE 0)
  /\ string = [n \in 1 .. CHARS |-> NOBODY]
  /\ tpc = [t \in Threads |-> "run"] /\ loops = [t \in Threads |-> 0]
  /\ reg = [t \in Threads |-> 0]

ThreadStep(t) ==
  NotAtomic(t) \/ Atomic(t) \/ Futex(t) \/ BadLock(t) \/ SpinLock(t) \/ Semaphore(t)

LocksNext == \E t \in Threads : ThreadStep(t)

\* A thread has returned.
ThreadEnded(t) ==
  IF lock_kind \in {"bad_lock", "spin_lock"} THEN At(t, "end")
  ELSE At(t, "run") /\ loops[t] = MAX_LOOPS

LocksEnd == \A t \in Threads : ThreadEnded(t)

-----------------------------------------------------------------------------
In(places) == {t \in Threads : tpc[t] \in places}

\* The iterations that are done, of all threads.
Iterations == Cardinality({p \in Threads \X (1 .. MAX_LOOPS) : p[2] <= loops[p[1]]})

\* Where the lock is right no more threads are inside than it lets in and
\* the lock tells so, and no addition to the counter is lost; with the flag
\* that is read and then set some thread still writes all of the string;
\* without any lock the counter ends between 2 (1 in one iteration) and the
\* number of additions.
LocksSound ==
  LET inside == In({"locked", "store", "unlock", "write"})
      added  == Cardinality(In({"unlock", "wake"}))
  IN  CASE lock_kind = "futex" ->
             /\ Cardinality(inside) = lock
             /\ counter = Iterations + added
        [] lock_kind = "atomic" -> counter = Iterations
        [] lock_kind = "spin_lock" ->
             /\ Cardinality(inside) = lock
             /\ \A t \in inside : \A n \in 1 .. loops[t] : string[n] = t
             /\ LocksEnd => \A n, m \in 1 .. CHARS : string[n] = string[m] /\ string[n] # NOBODY
        [] lock_kind = "bad_lock" -> LocksEnd => \A n \in 1 .. CHARS : string[n] # NOBODY
        [] lock_kind = "semaphore" ->
             counter + Cardinality(inside) = Room /\ Cardinality(inside) <= Room
        [] lock_kind = "not_atomic" ->
             /\ counter <= Iterations
             /\ LocksEnd => counter >= (IF MAX_LOOPS = 1 THEN 1 ELSE 2)
=============================================================================
