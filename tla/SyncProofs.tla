----------------------------- MODULE SyncProofs -----------------------------
(***************************************************************************)
(* Proofs about the examples of Sync, for any number of threads, waiters,   *)
(* sources, consumers and signals.  Each part has an inductive invariant    *)
(* over the variables of one example; a step of Sync is a step of that      *)
(* example or leaves its variables alone.                                   *)
(***************************************************************************)
EXTENDS Sync, Integers, FiniteSetTheorems, FunctionTheorems, SequenceTheorems, TLAPS

(* A step of Sync, as one of the examples sees it. *)
LEMMA StepOfOne ==
  ASSUME [Next]_sync_vars
  PROVE  /\ [LocksNext]_locks_vars
         /\ [CondvarNext]_condvar_vars
         /\ [HandoffNext]_handoff_vars
         /\ [EventsNext]_events_vars
         /\ [WakeupNext]_wakeup_vars
<1>1. CASE UNCHANGED sync_vars
  BY <1>1 DEF sync_vars
<1>2. CASE Steps("locks", LocksNext)
  BY <1>2 DEF Steps
<1>3. CASE Steps("condvar", CondvarNext)
  BY <1>3 DEF Steps
<1>4. CASE Steps("handoff", HandoffNext)
  BY <1>4 DEF Steps
<1>5. CASE Steps("events", EventsNext)
  BY <1>5 DEF Steps
<1>6. CASE Steps("wakeup", WakeupNext)
  BY <1>6 DEF Steps
<1> QED
  BY <1>1, <1>2, <1>3, <1>4, <1>5, <1>6 DEF Next

-----------------------------------------------------------------------------
(* Locks: an inductive invariant for each kind of lock. *)

Places == {"run", "store", "locked", "unlock", "wake", "wait", "asleep", "woken",
           "set", "write", "end"}

LocksTypeOK ==
  /\ lock_kind \in LockKinds /\ lock \in {0, 1} /\ counter \in Nat
  /\ string \in [1 .. CHARS -> Threads \cup {NOBODY}]
  /\ tpc \in [Threads -> Places] /\ loops \in [Threads -> Nat] /\ reg \in [Threads -> Nat]

\* A thread is never within more iterations than it has to do.
LoopsBounded(busy) ==
  \A t \in Threads :
    loops[t] <= MAX_LOOPS /\ (tpc[t] \in busy => loops[t] < MAX_LOOPS)

AtomicInv ==
  lock_kind = "atomic" =>
    /\ \A t \in Threads : At(t, "run")
    /\ LoopsBounded({})
    /\ counter = Iterations

\* What a thread has read is an old value of the counter, and not 0 when it
\* has stored something itself.  When the counter is still 1, who stored
\* that has done so in its first iteration.
NotAtomicInv ==
  lock_kind = "not_atomic" =>
    /\ \A t \in Threads : tpc[t] \in {"run", "store"}
    /\ LoopsBounded({"store"})
    /\ counter <= Iterations
    /\ \A t \in Threads : At(t, "store") => reg[t] <= Iterations /\ (loops[t] > 0 => reg[t] > 0)
    /\ (\E t \in Threads : loops[t] > 0) =>
         counter > 1 \/ (counter = 1 /\ \E t \in Threads : loops[t] = 1)

InsideLock == In({"locked", "store", "unlock", "write"})

\* The lock is 1 while one thread is inside.
HeldByOne ==
  \/ lock = 0 /\ InsideLock = {}
  \/ lock = 1 /\ \E t \in Threads : InsideLock = {t}

FutexInv ==
  lock_kind = "futex" =>
    /\ \A t \in Threads : tpc[t] \in {"run", "wait", "asleep", "locked", "store", "unlock", "wake"}
    /\ LoopsBounded({"locked", "store", "unlock", "wake"})
    /\ HeldByOne
    /\ \A t \in Threads : At(t, "store") => reg[t] = counter
    /\ counter = Iterations + Cardinality(In({"unlock", "wake"}))

\* What the thread inside has written of the string is its own, and what is
\* left there is all of one thread.
SpinLockInv ==
  lock_kind = "spin_lock" =>
    /\ \A t \in Threads : tpc[t] \in {"run", "write", "unlock", "end"}
    /\ HeldByOne
    /\ \A t \in Threads : /\ At(t, "run") => loops[t] = 0
                          /\ At(t, "write") => loops[t] < CHARS
                          /\ At(t, "unlock") => loops[t] = CHARS
    /\ \A t \in InsideLock : \A n \in 1 .. loops[t] : string[n] = t
    /\ lock = 0 => \A n, m \in 1 .. CHARS : string[n] = string[m]
    /\ lock = 0 /\ (\E t \in Threads : At(t, "end")) => \A n \in 1 .. CHARS : string[n] # NOBODY

\* Who finds the flag set can rely on another thread that writes the string.
BadLockInv ==
  lock_kind = "bad_lock" =>
    /\ \A t \in Threads : tpc[t] \in {"run", "set", "write", "end"}
    /\ \A t \in Threads : /\ tpc[t] \in {"run", "set"} => loops[t] = 0
                          /\ At(t, "write") => loops[t] < CHARS
                          /\ At(t, "write") => \A n \in 1 .. loops[t] : string[n] # NOBODY
                          /\ tpc[t] \in {"write", "end"} => lock = 1
    /\ lock = 1 => \/ \A n \in 1 .. CHARS : string[n] # NOBODY
                   \/ \E t \in Threads : At(t, "write")

SemaphoreInv ==
  lock_kind = "semaphore" =>
    /\ \A t \in Threads : tpc[t] \in {"run", "asleep", "woken", "locked"}
    /\ LoopsBounded({"asleep", "woken", "locked"})
    /\ counter + Cardinality(InsideLock) = Room

LocksInv ==
  LocksTypeOK /\ AtomicInv /\ NotAtomicInv /\ FutexInv /\ SpinLockInv /\ BadLockInv /\ SemaphoreInv

-----------------------------------------------------------------------------
(* Counting threads and iterations *)

(* The threads at some places are finitely many. *)
LEMMA InFinite ==
  ASSUME NEW places
  PROVE  IsFiniteSet(In(places)) /\ Cardinality(In(places)) \in Nat
<1>1. In(places) \subseteq Threads
  BY DEF In
<1>2. IsFiniteSet(In(places))
  BY <1>1, FS_Subset, LocksAssumption
<1> QED
  BY <1>2, FS_CardinalityType

(* A thread that goes to another place joins or leaves those who are there. *)
LEMMA OneGoes ==
  ASSUME tpc \in [Threads -> Places], NEW t \in Threads, NEW p \in Places, Goes(t, p)
  PROVE  /\ tpc' \in [Threads -> Places] /\ tpc'[t] = p
         /\ \A u \in Threads : u # t => tpc'[u] = tpc[u]
  BY DEF Goes

(* The pairs of a thread and an iteration that it has done. *)
LEMMA IterationsFinite ==
  IsFiniteSet({p \in Threads \X (1 .. MAX_LOOPS) : p[2] <= loops[p[1]]}) /\ Iterations \in Nat
<1>1. IsFiniteSet(Threads \X (1 .. MAX_LOOPS))
  <2>1. IsFiniteSet(Threads) /\ IsFiniteSet(1 .. MAX_LOOPS)
    BY LocksAssumption, FS_Interval
  <2> QED
    BY <2>1, FS_Product
<1> DEFINE done == {p \in Threads \X (1 .. MAX_LOOPS) : p[2] <= loops[p[1]]}
<1>2. done \subseteq Threads \X (1 .. MAX_LOOPS)
  OBVIOUS
<1>3. IsFiniteSet(done)
  <2> HIDE DEF done
  <2> QED
    BY <1>1, <1>2, FS_Subset
<1> QED
  BY <1>3, FS_CardinalityType DEF Iterations

(* One more iteration of one thread is one more of all of them. *)
LEMMA OneMore ==
  ASSUME loops \in [Threads -> Nat], NEW t \in Threads, loops[t] < MAX_LOOPS, Done(t)
  PROVE  /\ loops' \in [Threads -> Nat] /\ loops'[t] = loops[t] + 1
         /\ \A u \in Threads : u # t => loops'[u] = loops[u]
         /\ Iterations' = Iterations + 1
<1> USE LocksAssumption
<1> DEFINE done == {p \in Threads \X (1 .. MAX_LOOPS) : p[2] <= loops[p[1]]}
           now == {p \in Threads \X (1 .. MAX_LOOPS) : p[2] <= loops'[p[1]]}
           next == <<t, loops[t] + 1>>
<1>1. /\ loops' \in [Threads -> Nat] /\ loops'[t] = loops[t] + 1
      /\ \A u \in Threads : u # t => loops'[u] = loops[u]
  BY DEF Done
<1>2. next \in Threads \X (1 .. MAX_LOOPS) /\ next \notin done /\ next \in now
  BY <1>1
<1>3. ASSUME NEW p \in Threads \X (1 .. MAX_LOOPS) PROVE p \in now <=> p \in done \/ p = next
  <2>1. PICK u \in Threads, n \in 1 .. MAX_LOOPS : p = <<u, n>>
    OBVIOUS
  <2>2. n <= loops'[u] <=> n <= loops[u] \/ (u = t /\ n = loops[t] + 1)
    BY <1>1
  <2> QED
    BY <2>1, <2>2
<1>4. now = done \cup {next}
  BY <1>2, <1>3
<1>5. IsFiniteSet(done)
  BY IterationsFinite
<1>6. Cardinality(now) = Cardinality(done) + 1
  <2> HIDE DEF done, now, next
  <2> QED
    BY <1>2, <1>4, <1>5, FS_AddElement
<1> QED
  BY <1>1, <1>6 DEF Iterations

(* The bound is kept when a thread leaves the places it is busy at with one *)
(* iteration more.                                                          *)
LEMMA BoundedOnce ==
  ASSUME NEW busy, LoopsBounded(busy), loops \in [Threads -> Nat], NEW t \in Threads,
         loops[t] < MAX_LOOPS, loops'[t] = loops[t] + 1, tpc'[t] \notin busy,
         \A u \in Threads : u # t => loops'[u] = loops[u] /\ (tpc'[u] \in busy => tpc[u] \in busy)
  PROVE  LoopsBounded(busy)'
<1> SUFFICES ASSUME NEW u \in Threads
             PROVE  loops'[u] <= MAX_LOOPS /\ (tpc'[u] \in busy => loops'[u] < MAX_LOOPS)
  BY DEF LoopsBounded
<1>1. CASE u = t
  BY <1>1, LocksAssumption
<1>2. CASE u # t
  BY <1>2, LocksAssumption DEF LoopsBounded
<1> QED
  BY <1>1, <1>2

-----------------------------------------------------------------------------
(* The counter without a lock *)

(* Additions in one instruction. *)
LEMMA AtomicStep ==
  ASSUME LocksInv, NEW t \in Threads, Atomic(t)
  PROVE  LocksInv'
<1>1. /\ lock_kind = "atomic" /\ loops[t] < MAX_LOOPS /\ counter' = counter + 1 /\ Done(t)
      /\ UNCHANGED <<lock_kind, lock, string, tpc, reg>>
  BY DEF Atomic, More
<1>2. LocksTypeOK
  BY DEF LocksInv
<1>3. /\ loops' \in [Threads -> Nat] /\ loops'[t] = loops[t] + 1
      /\ \A u \in Threads : u # t => loops'[u] = loops[u]
      /\ Iterations' = Iterations + 1
  BY <1>1, <1>2, OneMore DEF LocksTypeOK
<1>4. LocksTypeOK'
  BY <1>1, <1>2, <1>3 DEF LocksTypeOK
<1>5. AtomicInv'
  <2>1. LoopsBounded({})'
    BY <1>1, <1>3, <1>2, LocksAssumption, BoundedOnce DEF LocksInv, AtomicInv, LocksTypeOK
  <2>2. \A u \in Threads : At(u, "run")'
    BY <1>1 DEF LocksInv, AtomicInv, At
  <2> QED
    BY <1>1, <1>3, <2>1, <2>2 DEF LocksInv, AtomicInv
<1> QED
  BY <1>1, <1>4, <1>5
     DEF LocksInv, NotAtomicInv, FutexInv, SpinLockInv, BadLockInv, SemaphoreInv

(* A load, in any of the programs that load and store. *)
LEMMA LoadStep ==
  ASSUME LocksTypeOK, NEW t \in Threads, NEW from \in Places, NEW to \in Places, Load(t, from, to)
  PROVE  /\ LocksTypeOK'
         /\ tpc[t] = from /\ loops[t] < MAX_LOOPS /\ tpc'[t] = to /\ reg'[t] = counter
         /\ \A u \in Threads : u # t => tpc'[u] = tpc[u] /\ reg'[u] = reg[u]
         /\ UNCHANGED <<lock_kind, lock, counter, string, loops>> /\ Iterations' = Iterations
<1>1. /\ Goes(t, to) /\ reg' = [reg EXCEPT ![t] = counter] /\ tpc[t] = from /\ loops[t] < MAX_LOOPS
      /\ UNCHANGED <<lock_kind, lock, counter, string, loops>>
  BY DEF Load, At, More
<1>2. /\ tpc' \in [Threads -> Places] /\ tpc'[t] = to
      /\ \A u \in Threads : u # t => tpc'[u] = tpc[u]
  BY <1>1, OneGoes DEF LocksTypeOK
<1>3. /\ reg' \in [Threads -> Nat] /\ reg'[t] = counter
      /\ \A u \in Threads : u # t => reg'[u] = reg[u]
  BY <1>1 DEF LocksTypeOK
<1>4. Iterations' = Iterations
  BY <1>1 DEF Iterations
<1> QED
  BY <1>1, <1>2, <1>3, <1>4 DEF LocksTypeOK

(* A store, but for the iterations. *)
LEMMA StoreStep ==
  ASSUME LocksTypeOK, NEW t \in Threads, NEW from \in Places, NEW to \in Places, Store(t, from, to)
  PROVE  /\ counter' \in Nat /\ tpc' \in [Threads -> Places]
         /\ tpc[t] = from /\ tpc'[t] = to /\ counter' = reg[t] + 1
         /\ \A u \in Threads : u # t => tpc'[u] = tpc[u]
         /\ UNCHANGED <<lock_kind, lock, string, reg>>
<1>1. /\ Goes(t, to) /\ tpc[t] = from /\ counter' = reg[t] + 1
      /\ UNCHANGED <<lock_kind, lock, string, reg>>
  BY DEF Store, At
<1>2. /\ tpc' \in [Threads -> Places] /\ tpc'[t] = to
      /\ \A u \in Threads : u # t => tpc'[u] = tpc[u]
  BY <1>1, OneGoes DEF LocksTypeOK
<1> QED
  BY <1>1, <1>2 DEF LocksTypeOK

(* Additions that are not atomic. *)
LEMMA NotAtomicStep ==
  ASSUME LocksInv, NEW t \in Threads, NotAtomic(t)
  PROVE  LocksInv'
<1> USE LocksAssumption
<1>1. lock_kind = "not_atomic" /\ LocksTypeOK /\ NotAtomicInv /\ Iterations \in Nat
  BY IterationsFinite DEF NotAtomic, LocksInv
<1>2. "run" \in Places /\ "store" \in Places
  BY DEF Places
<1>3. CASE Load(t, "run", "store")
  <2>1. /\ LocksTypeOK'
        /\ tpc[t] = "run" /\ loops[t] < MAX_LOOPS /\ tpc'[t] = "store" /\ reg'[t] = counter
        /\ \A u \in Threads : u # t => tpc'[u] = tpc[u] /\ reg'[u] = reg[u]
        /\ UNCHANGED <<lock_kind, lock, counter, string, loops>> /\ Iterations' = Iterations
    BY <1>1, <1>2, <1>3, LoadStep
  <2>2. counter \in Nat /\ counter <= Iterations /\ (loops[t] > 0 => counter > 0)
    BY <1>1 DEF NotAtomicInv, LocksTypeOK
  <2>3. NotAtomicInv'
    BY <1>1, <2>1, <2>2 DEF NotAtomicInv, LoopsBounded, At
  <2> QED
    BY <1>1, <2>1, <2>3
       DEF LocksInv, AtomicInv, FutexInv, SpinLockInv, BadLockInv, SemaphoreInv
<1>4. CASE Store(t, "store", "run") /\ Done(t)
  <2>1. /\ counter' \in Nat /\ tpc' \in [Threads -> Places]
        /\ tpc[t] = "store" /\ tpc'[t] = "run" /\ counter' = reg[t] + 1
        /\ \A u \in Threads : u # t => tpc'[u] = tpc[u]
        /\ UNCHANGED <<lock_kind, lock, string, reg>>
    BY <1>1, <1>2, <1>4, StoreStep
  <2>2. /\ loops[t] < MAX_LOOPS /\ reg[t] <= Iterations /\ (loops[t] > 0 => reg[t] > 0)
        /\ reg[t] \in Nat /\ loops[t] \in Nat
    BY <1>1, <2>1 DEF NotAtomicInv, LoopsBounded, At, LocksTypeOK
  <2>3. /\ loops' \in [Threads -> Nat] /\ loops'[t] = loops[t] + 1
        /\ \A u \in Threads : u # t => loops'[u] = loops[u]
        /\ Iterations' = Iterations + 1
    BY <1>1, <1>4, <2>2, OneMore DEF LocksTypeOK
  <2>4. LocksTypeOK'
    BY <1>1, <2>1, <2>3 DEF LocksTypeOK
  <2>5. counter' <= Iterations'
    BY <1>1, <2>1, <2>2, <2>3
  <2>6. (\A u \in Threads : tpc'[u] \in {"run", "store"}) /\ LoopsBounded({"store"})'
    <3>1. LoopsBounded({"store"})'
      BY <1>1, <2>1, <2>2, <2>3, BoundedOnce DEF NotAtomicInv, LocksTypeOK
    <3> QED
      BY <1>1, <2>1, <3>1 DEF NotAtomicInv
  <2>7. \A u \in Threads : tpc'[u] = "store" =>
          reg'[u] <= Iterations' /\ (loops'[u] > 0 => reg'[u] > 0)
    <3>1. ASSUME NEW u \in Threads, tpc'[u] = "store" PROVE
          reg'[u] <= Iterations' /\ (loops'[u] > 0 => reg'[u] > 0)
      <4>1. u # t /\ tpc[u] = "store" /\ reg'[u] = reg[u] /\ loops'[u] = loops[u] /\ reg[u] \in Nat
        BY <1>1, <2>1, <2>3, <3>1 DEF LocksTypeOK
      <4>2. reg[u] <= Iterations /\ (loops[u] > 0 => reg[u] > 0)
        BY <1>1, <4>1 DEF NotAtomicInv, At
      <4> QED
        BY <1>1, <4>1, <4>2, <2>3
    <3> QED
      BY <3>1
  <2>8. counter' > 1 \/ (counter' = 1 /\ \E u \in Threads : loops'[u] = 1)
    BY <2>1, <2>2, <2>3
  <2>9. NotAtomicInv'
    BY <2>5, <2>6, <2>7, <2>8 DEF NotAtomicInv, At
  <2> QED
    BY <1>1, <2>1, <2>4, <2>9
       DEF LocksInv, AtomicInv, FutexInv, SpinLockInv, BadLockInv, SemaphoreInv
<1> QED
  BY <1>3, <1>4 DEF NotAtomic

-----------------------------------------------------------------------------
(* The futex *)

(* Who is inside stays the same while no thread enters or leaves. *)
LEMMA NoneEnters ==
  ASSUME HeldByOne, lock' = lock,
         \A u \in Threads : tpc'[u] \in {"locked", "store", "unlock", "write"}
                              <=> tpc[u] \in {"locked", "store", "unlock", "write"}
  PROVE  HeldByOne' /\ InsideLock' = InsideLock
  BY DEF HeldByOne, InsideLock, In

(* Taking the lock, with 1 in it, and giving it back. *)
LEMMA OneEnters ==
  ASSUME HeldByOne, lock = 0, lock' = 1, NEW t \in Threads,
         tpc'[t] \in {"locked", "store", "unlock", "write"},
         \A u \in Threads : u # t => tpc'[u] = tpc[u]
  PROVE  HeldByOne' /\ InsideLock' = {t}
  BY DEF HeldByOne, InsideLock, In

(* Giving the lock back. *)
LEMMA OneLeaves ==
  ASSUME HeldByOne, NEW t \in Threads, lock' = 0,
         tpc[t] \in {"locked", "store", "unlock", "write"},
         tpc'[t] \notin {"locked", "store", "unlock", "write"},
         \A u \in Threads : u # t => tpc'[u] = tpc[u]
  PROVE  HeldByOne' /\ InsideLock' = {} /\ InsideLock = {t} /\ lock = 1
  BY DEF HeldByOne, InsideLock, In

(* A thread that goes to some places is one more there. *)
LEMMA OneJoins ==
  ASSUME NEW places, NEW t \in Threads, tpc[t] \notin places, tpc'[t] \in places,
         \A u \in Threads : u # t => (tpc'[u] \in places <=> tpc[u] \in places)
  PROVE  Cardinality(In(places)') = Cardinality(In(places)) + 1
<1>1. In(places)' = In(places) \cup {t} /\ t \notin In(places)
  BY DEF In
<1> QED
  BY <1>1, InFinite, FS_AddElement

(* A thread that leaves them is one less. *)
LEMMA OneParts ==
  ASSUME NEW places, NEW t \in Threads, tpc[t] \in places, tpc'[t] \notin places,
         \A u \in Threads : u # t => (tpc'[u] \in places <=> tpc[u] \in places)
  PROVE  Cardinality(In(places)') = Cardinality(In(places)) - 1
<1>1. In(places)' = In(places) \ {t} /\ t \in In(places)
  BY DEF In
<1> QED
  BY <1>1, InFinite, FS_RemoveElement

(* The bound is kept when no iteration is done and who becomes busy has one *)
(* to do.                                                                   *)
LEMMA BoundedStill ==
  ASSUME NEW busy, LoopsBounded(busy), UNCHANGED loops,
         \A u \in Threads : tpc'[u] \in busy => tpc[u] \in busy \/ loops[u] < MAX_LOOPS
  PROVE  LoopsBounded(busy)'
  BY DEF LoopsBounded

(* The threads that share a futex. *)
LEMMA FutexStep ==
  ASSUME LocksInv, NEW t \in Threads, Futex(t)
  PROVE  LocksInv'
<1> USE LocksAssumption
<1> DEFINE At2 == {"unlock", "wake"}
           busy == {"locked", "store", "unlock", "wake"}
<1>1. /\ lock_kind = "futex" /\ LocksTypeOK /\ Iterations \in Nat
      /\ \A u \in Threads : tpc[u] \in {"run", "wait", "asleep"} \cup busy
      /\ LoopsBounded(busy) /\ HeldByOne
      /\ \A u \in Threads : tpc[u] = "store" => reg[u] = counter
      /\ counter = Iterations + Cardinality(In(At2)) /\ Cardinality(In(At2)) \in Nat
  BY IterationsFinite, InFinite DEF Futex, LocksInv, FutexInv, At
<1>2. {"run", "store", "locked", "unlock", "wake", "wait", "asleep"} \subseteq Places
  BY DEF Places
<1>3. SUFFICES /\ LocksTypeOK' /\ lock_kind' = lock_kind
               /\ \A u \in Threads : tpc'[u] \in {"run", "wait", "asleep"} \cup busy
               /\ LoopsBounded(busy)' /\ HeldByOne'
               /\ \A u \in Threads : tpc'[u] = "store" => reg'[u] = counter'
               /\ counter' = Iterations' + Cardinality(In(At2)')
  BY <1>1 DEF LocksInv, AtomicInv, NotAtomicInv, FutexInv, SpinLockInv, BadLockInv, SemaphoreInv, At
<1>4. ASSUME Goes(t, tpc'[t]), tpc'[t] \in {"run", "wait", "asleep", "locked"},
             tpc[t] \in {"run", "wait"},
             UNCHANGED <<lock_kind, counter, string, loops, reg>>,
             \/ lock' = lock /\ tpc'[t] # "locked"
             \/ lock = 0 /\ lock' = 1 /\ tpc'[t] = "locked" /\ loops[t] < MAX_LOOPS
      PROVE  /\ LocksTypeOK' /\ lock_kind' = lock_kind
             /\ \A u \in Threads : tpc'[u] \in {"run", "wait", "asleep"} \cup busy
             /\ LoopsBounded(busy)' /\ HeldByOne'
             /\ \A u \in Threads : tpc'[u] = "store" => reg'[u] = counter'
             /\ counter' = Iterations' + Cardinality(In(At2)')
  <2>1. tpc' \in [Threads -> Places] /\ \A u \in Threads : u # t => tpc'[u] = tpc[u]
    BY <1>1, <1>2, <1>4, OneGoes DEF LocksTypeOK
  <2>2. LocksTypeOK'
    BY <1>1, <1>4, <2>1 DEF LocksTypeOK
  <2>3. LoopsBounded(busy)'
    BY <1>1, <1>4, <2>1, BoundedStill
  <2>4. HeldByOne'
    BY <1>1, <1>4, <2>1, NoneEnters, OneEnters
  <2>5. Iterations' = Iterations
    BY <1>4 DEF Iterations
  <2>6. In(At2)' = In(At2)
    BY <1>4, <2>1 DEF In
  <2> QED
    BY <1>1, <1>4, <2>1, <2>2, <2>3, <2>4, <2>5, <2>6
<1>5. CASE futex_lock(t)
  <2>1. CASE lock = 0
    <3>1. Goes(t, "locked") /\ tpc[t] = "run" /\ lock' = 1 /\ loops[t] < MAX_LOOPS
          /\ UNCHANGED <<lock_kind, counter, string, loops, reg>>
      BY <1>5, <2>1 DEF futex_lock, Locked, At, More
    <3>2. tpc'[t] = "locked"
      BY <1>1, <1>2, <3>1, OneGoes DEF LocksTypeOK
    <3> QED
      BY <1>4, <2>1, <3>1, <3>2
  <2>2. CASE lock # 0
    <3>1. Goes(t, "wait") /\ tpc[t] = "run" /\ lock' = lock
          /\ UNCHANGED <<lock_kind, counter, string, loops, reg>>
      BY <1>5, <2>2 DEF futex_lock, Locked, At
    <3>2. tpc'[t] = "wait"
      BY <1>1, <1>2, <3>1, OneGoes DEF LocksTypeOK
    <3> QED
      BY <1>4, <3>1, <3>2
  <2> QED
    BY <2>1, <2>2
<1>6. CASE futex_wait(t)
  <2>1. PICK p \in {"asleep", "run"} : Goes(t, p)
    BY <1>6 DEF futex_wait
  <2>2. tpc[t] = "wait" /\ UNCHANGED <<lock_kind, lock, counter, string, loops, reg>>
    BY <1>6 DEF futex_wait, At
  <2>3. tpc'[t] = p
    BY <1>1, <1>2, <2>1, OneGoes DEF LocksTypeOK
  <2> QED
    BY <1>4, <2>1, <2>2, <2>3
<1>7. CASE Load(t, "locked", "store")
  <2>1. /\ LocksTypeOK'
        /\ tpc[t] = "locked" /\ loops[t] < MAX_LOOPS /\ tpc'[t] = "store" /\ reg'[t] = counter
        /\ \A u \in Threads : u # t => tpc'[u] = tpc[u] /\ reg'[u] = reg[u]
        /\ UNCHANGED <<lock_kind, lock, counter, string, loops>> /\ Iterations' = Iterations
    BY <1>1, <1>2, <1>7, LoadStep
  <2>2. LoopsBounded(busy)'
    BY <1>1, <2>1, BoundedStill
  <2>3. HeldByOne'
    BY <1>1, <2>1, NoneEnters
  <2>4. In(At2)' = In(At2)
    BY <2>1 DEF In
  <2> QED
    BY <1>1, <2>1, <2>2, <2>3, <2>4
<1>8. CASE Store(t, "store", "unlock") /\ UNCHANGED loops
  <2>1. /\ counter' \in Nat /\ tpc' \in [Threads -> Places]
        /\ tpc[t] = "store" /\ tpc'[t] = "unlock" /\ counter' = reg[t] + 1
        /\ \A u \in Threads : u # t => tpc'[u] = tpc[u]
        /\ UNCHANGED <<lock_kind, lock, string, reg>>
    BY <1>1, <1>2, <1>8, StoreStep
  <2>2. LocksTypeOK'
    BY <1>1, <1>8, <2>1 DEF LocksTypeOK
  <2>3. LoopsBounded(busy)'
    BY <1>1, <1>8, <2>1, BoundedStill
  <2>4. HeldByOne'
    BY <1>1, <2>1, NoneEnters
  <2>5. Iterations' = Iterations
    BY <1>8 DEF Iterations
  <2>6. Cardinality(In(At2)') = Cardinality(In(At2)) + 1
    BY <2>1, OneJoins
  <2>7. counter' = counter + 1
    BY <1>1, <2>1
  <2>8. \A u \in Threads : tpc'[u] # "store"
    <3>1. ASSUME NEW u \in Threads, u # t, tpc[u] = "store" PROVE FALSE
      BY <1>1, <2>1, <3>1 DEF HeldByOne, InsideLock, In
    <3> QED
      BY <2>1, <3>1
  <2> QED
    BY <1>1, <2>1, <2>2, <2>3, <2>4, <2>5, <2>6, <2>7, <2>8
<1>9. CASE At(t, "unlock") /\ Unlocked(t, "wake")
  <2>1. /\ tpc[t] = "unlock" /\ lock' = 0 /\ Goes(t, "wake")
        /\ UNCHANGED <<lock_kind, counter, string, loops, reg>>
    BY <1>9 DEF At, Unlocked
  <2>2. /\ tpc' \in [Threads -> Places] /\ tpc'[t] = "wake"
        /\ \A u \in Threads : u # t => tpc'[u] = tpc[u]
    BY <1>1, <1>2, <2>1, OneGoes DEF LocksTypeOK
  <2>3. LocksTypeOK'
    BY <1>1, <2>1, <2>2 DEF LocksTypeOK
  <2>4. LoopsBounded(busy)'
    BY <1>1, <2>1, <2>2, BoundedStill
  <2>5. HeldByOne'
    BY <1>1, <2>1, <2>2, OneLeaves
  <2>6. In(At2)' = In(At2)
    BY <2>1, <2>2 DEF In
  <2>7. Iterations' = Iterations
    BY <2>1 DEF Iterations
  <2> QED
    BY <1>1, <2>1, <2>2, <2>3, <2>4, <2>5, <2>6, <2>7
<1>10. CASE futex_wake(t)
  <2>1. /\ tpc[t] = "wake" /\ Done(t) /\ UNCHANGED <<lock_kind, lock, counter, string, reg>>
        /\ \E pcs \in Woken(t) : tpc' = [pcs EXCEPT ![t] = "run"]
    BY <1>10 DEF futex_wake, At
  <2>2. /\ tpc' \in [Threads -> Places] /\ tpc'[t] = "run"
        /\ \A u \in Threads : u # t => tpc'[u] = tpc[u] \/ (tpc[u] = "asleep" /\ tpc'[u] = "run")
    <3>1. PICK pcs \in Woken(t) : tpc' = [pcs EXCEPT ![t] = "run"]
      BY <2>1
    <3>2. /\ pcs \in [Threads -> Places]
          /\ \A u \in Threads : pcs[u] = tpc[u] \/ (tpc[u] = "asleep" /\ pcs[u] = "run")
      BY <1>1, <1>2, <3>1 DEF Woken, Asleep, At, LocksTypeOK
    <3> QED
      BY <1>2, <3>1, <3>2
  <2>3. loops[t] < MAX_LOOPS
    BY <1>1, <2>1 DEF LoopsBounded
  <2>4. /\ loops' \in [Threads -> Nat] /\ loops'[t] = loops[t] + 1
        /\ \A u \in Threads : u # t => loops'[u] = loops[u]
        /\ Iterations' = Iterations + 1
    BY <1>1, <2>1, <2>3, OneMore DEF LocksTypeOK
  <2>5. LocksTypeOK'
    BY <1>1, <2>1, <2>2, <2>4 DEF LocksTypeOK
  <2>6. LoopsBounded(busy)'
    BY <1>1, <2>2, <2>3, <2>4, BoundedOnce DEF LocksTypeOK
  <2>7. HeldByOne'
    BY <1>1, <2>1, <2>2, NoneEnters
  <2>8. Cardinality(In(At2)') = Cardinality(In(At2)) - 1
    BY <2>1, <2>2, OneParts
  <2> QED
    BY <1>1, <2>1, <2>2, <2>4, <2>5, <2>6, <2>7, <2>8
<1> QED
  BY <1>5, <1>6, <1>7, <1>8, <1>9, <1>10 DEF Futex

-----------------------------------------------------------------------------
(* The string *)

(* A thread writes its next character. *)
LEMMA WriteStep ==
  ASSUME LocksTypeOK, NEW t \in Threads, NEW p \in Places, WriteString(t, p), loops[t] < CHARS
  PROVE  /\ LocksTypeOK' /\ tpc[t] = "write"
         /\ tpc'[t] = (IF loops[t] + 1 = CHARS THEN p ELSE "write")
         /\ \A u \in Threads : u # t => tpc'[u] = tpc[u] /\ loops'[u] = loops[u]
         /\ loops'[t] = loops[t] + 1 /\ loops[t] \in Nat
         /\ string'[loops[t] + 1] = t
         /\ \A n \in 1 .. CHARS : n # loops[t] + 1 => string'[n] = string[n]
         /\ UNCHANGED <<lock_kind, lock, counter, reg>>
<1> USE LocksAssumption
<1>1. /\ tpc[t] = "write" /\ string' = [string EXCEPT ![loops[t] + 1] = t] /\ Done(t)
      /\ Goes(t, IF loops[t] + 1 = CHARS THEN p ELSE "write")
      /\ UNCHANGED <<lock_kind, lock, counter, reg>>
  BY DEF WriteString, At
<1>2. (IF loops[t] + 1 = CHARS THEN p ELSE "write") \in Places
  BY DEF Places
<1>3. /\ tpc' \in [Threads -> Places] /\ tpc'[t] = (IF loops[t] + 1 = CHARS THEN p ELSE "write")
      /\ \A u \in Threads : u # t => tpc'[u] = tpc[u]
  BY <1>1, <1>2, OneGoes DEF LocksTypeOK
<1>4. /\ loops' \in [Threads -> Nat] /\ loops'[t] = loops[t] + 1 /\ loops[t] \in Nat
      /\ \A u \in Threads : u # t => loops'[u] = loops[u]
  BY <1>1 DEF LocksTypeOK, Done
<1>5. /\ string' \in [1 .. CHARS -> Threads \cup {NOBODY}]
      /\ string'[loops[t] + 1] = t
      /\ \A n \in 1 .. CHARS : n # loops[t] + 1 => string'[n] = string[n]
  <2>1. loops[t] + 1 \in 1 .. CHARS
    BY <1>4
  <2> QED
    BY <1>1, <2>1 DEF LocksTypeOK
<1> QED
  BY <1>1, <1>3, <1>4, <1>5 DEF LocksTypeOK

(* With the flag that is read and then set. *)
LEMMA BadLockStep ==
  ASSUME LocksInv, NEW t \in Threads, BadLock(t)
  PROVE  LocksInv'
<1> USE LocksAssumption
<1>1. lock_kind = "bad_lock" /\ LocksTypeOK /\ BadLockInv
  BY DEF BadLock, LocksInv
<1>2. {"set", "end", "write"} \subseteq Places
  BY DEF Places
<1>3. SUFFICES LocksTypeOK' /\ lock_kind' = lock_kind /\ BadLockInv'
  BY <1>1 DEF LocksInv, AtomicInv, NotAtomicInv, FutexInv, SpinLockInv, SemaphoreInv
<1>4. CASE /\ At(t, "run") /\ Goes(t, IF lock = 0 THEN "set" ELSE "end")
           /\ UNCHANGED <<lock_kind, lock, counter, string, loops, reg>>
  <2>1. /\ tpc' \in [Threads -> Places] /\ tpc'[t] = (IF lock = 0 THEN "set" ELSE "end")
        /\ \A u \in Threads : u # t => tpc'[u] = tpc[u]
    BY <1>1, <1>2, <1>4, OneGoes DEF LocksTypeOK
  <2>2. LocksTypeOK'
    BY <1>1, <1>4, <2>1 DEF LocksTypeOK
  <2> QED
    BY <1>1, <1>4, <2>1, <2>2 DEF BadLockInv, At, LocksTypeOK
<1>5. CASE /\ At(t, "set") /\ lock' = 1 /\ Goes(t, "write")
           /\ UNCHANGED <<lock_kind, counter, string, loops, reg>>
  <2>1. /\ tpc' \in [Threads -> Places] /\ tpc'[t] = "write"
        /\ \A u \in Threads : u # t => tpc'[u] = tpc[u]
    BY <1>1, <1>2, <1>5, OneGoes DEF LocksTypeOK
  <2>2. LocksTypeOK'
    BY <1>1, <1>5, <2>1 DEF LocksTypeOK
  <2>3. loops'[t] = 0 /\ \A u \in Threads : loops'[u] = loops[u]
    BY <1>1, <1>5 DEF BadLockInv, At
  <2>4. \A u \in Threads : tpc'[u] = "write" => \A n \in 1 .. loops'[u] : string'[n] # NOBODY
    <3>1. \A u \in Threads : u # t /\ tpc'[u] = "write" => \A n \in 1 .. loops'[u] : string'[n] # NOBODY
      BY <1>1, <1>5, <2>1 DEF BadLockInv, At
    <3> QED
      BY <2>3, <3>1
  <2>5. \A u \in Threads : /\ tpc'[u] \in {"run", "set", "write", "end"}
                           /\ tpc'[u] \in {"run", "set"} => loops'[u] = 0
                           /\ tpc'[u] = "write" => loops'[u] < CHARS
    BY <1>1, <2>1, <2>3 DEF BadLockInv, At
  <2> QED
    BY <1>1, <1>5, <2>1, <2>2, <2>4, <2>5 DEF BadLockInv, At
<1>6. CASE WriteString(t, "end")
  <2>1. loops[t] < CHARS /\ lock = 1 /\ \A n \in 1 .. loops[t] : string[n] # NOBODY
    BY <1>1, <1>6 DEF WriteString, BadLockInv, At
  <2>2. /\ LocksTypeOK' /\ tpc[t] = "write"
        /\ tpc'[t] = (IF loops[t] + 1 = CHARS THEN "end" ELSE "write")
        /\ \A u \in Threads : u # t => tpc'[u] = tpc[u] /\ loops'[u] = loops[u]
        /\ loops'[t] = loops[t] + 1 /\ loops[t] \in Nat
        /\ string'[loops[t] + 1] = t
        /\ \A n \in 1 .. CHARS : n # loops[t] + 1 => string'[n] = string[n]
        /\ UNCHANGED <<lock_kind, lock, counter, reg>>
    BY <1>1, <1>2, <1>6, <2>1, WriteStep
  <2>3. \A n \in 1 .. CHARS : string[n] # NOBODY => string'[n] # NOBODY
    BY <2>2
  <2>4. \A n \in 1 .. loops'[t] : n \in 1 .. CHARS /\ string'[n] # NOBODY
    BY <2>1, <2>2, <2>3
  <2>5. \A u \in Threads : tpc'[u] = "write" => \A n \in 1 .. loops'[u] : string'[n] # NOBODY
    <3>1. ASSUME NEW u \in Threads, u # t, tpc'[u] = "write", NEW n \in 1 .. loops'[u]
          PROVE  string'[n] # NOBODY
      <4>1. n \in 1 .. loops[u] /\ loops[u] < CHARS /\ string[n] # NOBODY /\ loops[u] \in Nat
        BY <1>1, <2>2, <3>1 DEF BadLockInv, At, LocksTypeOK
      <4> QED
        BY <2>3, <4>1
    <3> QED
      BY <2>4, <3>1
  <2>6. (\A n \in 1 .. CHARS : string'[n] # NOBODY) \/ \E u \in Threads : tpc'[u] = "write"
    BY <2>2, <2>4
  <2>7. \A u \in Threads : tpc'[u] \in {"run", "set", "write", "end"}
    BY <1>1, <2>2 DEF BadLockInv
  <2>8. \A u \in Threads : /\ tpc'[u] \in {"run", "set"} => loops'[u] = 0
                           /\ tpc'[u] = "write" => loops'[u] < CHARS
    BY <1>1, <2>1, <2>2 DEF BadLockInv, At
  <2> QED
    BY <2>1, <2>2, <2>5, <2>6, <2>7, <2>8 DEF BadLockInv, At
<1> QED
  BY <1>4, <1>5, <1>6 DEF BadLock

(* With a lock that is tested and set at once. *)
LEMMA SpinLockStep ==
  ASSUME LocksInv, NEW t \in Threads, SpinLock(t)
  PROVE  LocksInv'
<1> USE LocksAssumption
<1>1. lock_kind = "spin_lock" /\ LocksTypeOK /\ SpinLockInv /\ HeldByOne
  BY DEF SpinLock, LocksInv, SpinLockInv
<1>2. {"end", "write", "unlock"} \subseteq Places
  BY DEF Places
<1>3. SUFFICES LocksTypeOK' /\ lock_kind' = lock_kind /\ SpinLockInv'
  BY <1>1 DEF LocksInv, AtomicInv, NotAtomicInv, FutexInv, BadLockInv, SemaphoreInv
<1>4. CASE At(t, "run") /\ Locked(t, "write", "end")
  <2>1. tpc[t] = "run" /\ loops[t] = 0 /\ UNCHANGED <<lock_kind, counter, string, loops, reg>>
    BY <1>1, <1>4 DEF At, Locked, SpinLockInv
  <2>2. CASE lock = 0
    <3>1. lock' = 1 /\ Goes(t, "write")
      BY <1>4, <2>2 DEF Locked
    <3>2. /\ tpc' \in [Threads -> Places] /\ tpc'[t] = "write"
          /\ \A u \in Threads : u # t => tpc'[u] = tpc[u]
      BY <1>1, <1>2, <3>1, OneGoes DEF LocksTypeOK
    <3>3. LocksTypeOK'
      BY <1>1, <2>1, <3>1, <3>2 DEF LocksTypeOK
    <3>4. HeldByOne' /\ InsideLock' = {t}
      BY <1>1, <2>2, <3>1, <3>2, OneEnters
    <3> QED
      BY <1>1, <2>1, <2>2, <3>1, <3>2, <3>3, <3>4 DEF SpinLockInv, At
  <2>3. CASE lock # 0
    <3>1. lock' = lock /\ Goes(t, "end")
      BY <1>4, <2>3 DEF Locked
    <3>2. /\ tpc' \in [Threads -> Places] /\ tpc'[t] = "end"
          /\ \A u \in Threads : u # t => tpc'[u] = tpc[u]
      BY <1>1, <1>2, <3>1, OneGoes DEF LocksTypeOK
    <3>3. LocksTypeOK'
      BY <1>1, <2>1, <3>1, <3>2 DEF LocksTypeOK
    <3>4. HeldByOne' /\ InsideLock' = InsideLock
      BY <1>1, <2>1, <3>1, <3>2, NoneEnters
    <3> QED
      BY <1>1, <2>1, <2>3, <3>1, <3>2, <3>3, <3>4 DEF SpinLockInv, At
  <2> QED
    BY <2>2, <2>3
<1>5. CASE WriteString(t, "unlock")
  <2>1. tpc[t] = "write" /\ loops[t] < CHARS
    BY <1>1, <1>5 DEF WriteString, SpinLockInv, At
  <2>2. /\ LocksTypeOK'
        /\ tpc'[t] = (IF loops[t] + 1 = CHARS THEN "unlock" ELSE "write")
        /\ \A u \in Threads : u # t => tpc'[u] = tpc[u] /\ loops'[u] = loops[u]
        /\ loops'[t] = loops[t] + 1 /\ loops[t] \in Nat
        /\ string'[loops[t] + 1] = t
        /\ \A n \in 1 .. CHARS : n # loops[t] + 1 => string'[n] = string[n]
        /\ UNCHANGED <<lock_kind, lock, counter, reg>>
    BY <1>1, <1>2, <1>5, <2>1, WriteStep
  <2>3. HeldByOne' /\ InsideLock' = InsideLock
    BY <1>1, <2>1, <2>2, NoneEnters
  <2>4. InsideLock = {t} /\ lock = 1
    BY <1>1, <2>1 DEF HeldByOne, InsideLock, In
  <2>5. \A n \in 1 .. loops'[t] : string'[n] = t
    BY <1>1, <2>1, <2>2, <2>4 DEF SpinLockInv
  <2>6. \A u \in Threads : /\ tpc'[u] \in {"run", "write", "unlock", "end"}
                           /\ tpc'[u] = "run" => loops'[u] = 0
                           /\ tpc'[u] = "write" => loops'[u] < CHARS
                           /\ tpc'[u] = "unlock" => loops'[u] = CHARS
    BY <1>1, <2>1, <2>2 DEF SpinLockInv, At
  <2> QED
    BY <2>2, <2>3, <2>4, <2>5, <2>6 DEF SpinLockInv, At
<1>6. CASE At(t, "unlock") /\ Unlocked(t, "end")
  <2>1. /\ tpc[t] = "unlock" /\ lock' = 0 /\ Goes(t, "end")
        /\ UNCHANGED <<lock_kind, counter, string, loops, reg>>
    BY <1>6 DEF At, Unlocked
  <2>2. /\ tpc' \in [Threads -> Places] /\ tpc'[t] = "end"
        /\ \A u \in Threads : u # t => tpc'[u] = tpc[u]
    BY <1>1, <1>2, <2>1, OneGoes DEF LocksTypeOK
  <2>3. LocksTypeOK'
    BY <1>1, <2>1, <2>2 DEF LocksTypeOK
  <2>4. HeldByOne' /\ InsideLock' = {} /\ InsideLock = {t}
    BY <1>1, <2>1, <2>2, OneLeaves
  <2>5. loops[t] = CHARS /\ \A n \in 1 .. CHARS : string'[n] = t
    BY <1>1, <2>1, <2>4 DEF SpinLockInv, At
  <2>6. \A u \in Threads : /\ tpc'[u] \in {"run", "write", "unlock", "end"}
                           /\ tpc'[u] = "run" => loops'[u] = 0
                           /\ tpc'[u] = "write" => loops'[u] < CHARS
                           /\ tpc'[u] = "unlock" => loops'[u] = CHARS
    BY <1>1, <2>1, <2>2 DEF SpinLockInv, At
  <2> QED
    BY <2>1, <2>3, <2>4, <2>5, <2>6 DEF SpinLockInv, At
<1> QED
  BY <1>4, <1>5, <1>6 DEF SpinLock

-----------------------------------------------------------------------------
(* The semaphore *)

(* Threads that enter and leave while the semaphore has room. *)
LEMMA SemaphoreStep ==
  ASSUME LocksInv, NEW t \in Threads, Semaphore(t)
  PROVE  LocksInv'
<1> USE LocksAssumption
<1> DEFINE inner == {"locked", "store", "unlock", "write"}
           busy == {"asleep", "woken", "locked"}
<1>1. /\ lock_kind = "semaphore" /\ LocksTypeOK
      /\ \A u \in Threads : tpc[u] \in {"run"} \cup busy
      /\ LoopsBounded(busy) /\ counter \in Nat /\ Room \in Int
      /\ counter + Cardinality(In(inner)) = Room /\ Cardinality(In(inner)) \in Nat
  <2>1. Room \in Int
    BY FS_CardinalityType DEF Room
  <2> QED
    BY <2>1, InFinite DEF Semaphore, LocksInv, SemaphoreInv, LocksTypeOK, InsideLock
<1>2. {"run", "asleep", "woken", "locked"} \subseteq Places
  BY DEF Places
<1>3. SUFFICES /\ LocksTypeOK' /\ lock_kind' = lock_kind
               /\ \A u \in Threads : tpc'[u] \in {"run"} \cup busy
               /\ LoopsBounded(busy)' /\ counter' + Cardinality(In(inner)') = Room
  BY <1>1
     DEF LocksInv, AtomicInv, NotAtomicInv, FutexInv, SpinLockInv, BadLockInv, SemaphoreInv,
         InsideLock, Room
<1>4. CASE semaphore_get(t)
  <2>1. /\ tpc[t] \in {"run", "woken"} /\ (tpc[t] = "run" => loops[t] < MAX_LOOPS)
        /\ UNCHANGED <<lock_kind, lock, string, loops, reg>>
    BY <1>4 DEF semaphore_get, At, More
  <2>2. loops[t] < MAX_LOOPS
    BY <1>1, <2>1 DEF LoopsBounded
  <2>3. CASE counter = 0
    <3>1. Goes(t, "asleep") /\ counter' = counter
      BY <1>4, <2>1, <2>3 DEF semaphore_get, MustWait
    <3>2. /\ tpc' \in [Threads -> Places] /\ tpc'[t] = "asleep"
          /\ \A u \in Threads : u # t => tpc'[u] = tpc[u]
      BY <1>1, <1>2, <3>1, OneGoes DEF LocksTypeOK
    <3>3. LocksTypeOK'
      BY <1>1, <2>1, <3>1, <3>2 DEF LocksTypeOK
    <3>4. LoopsBounded(busy)'
      BY <1>1, <2>1, <2>2, <3>2, BoundedStill
    <3>5. In(inner)' = In(inner)
      BY <2>1, <3>2 DEF In
    <3> QED
      BY <1>1, <2>1, <3>1, <3>2, <3>3, <3>4, <3>5
  <2>4. CASE counter # 0
    <3>1. Goes(t, "locked") /\ counter' = counter - 1
      BY <1>4, <2>4 DEF semaphore_get, MustWait
    <3>2. /\ tpc' \in [Threads -> Places] /\ tpc'[t] = "locked"
          /\ \A u \in Threads : u # t => tpc'[u] = tpc[u]
      BY <1>1, <1>2, <3>1, OneGoes DEF LocksTypeOK
    <3>3. LocksTypeOK'
      BY <1>1, <2>1, <2>4, <3>1, <3>2 DEF LocksTypeOK
    <3>4. LoopsBounded(busy)'
      BY <1>1, <2>1, <2>2, <3>2, BoundedStill
    <3>5. Cardinality(In(inner)') = Cardinality(In(inner)) + 1
      BY <2>1, <3>2, OneJoins
    <3> QED
      BY <1>1, <2>1, <3>1, <3>2, <3>3, <3>4, <3>5
  <2> QED
    BY <2>3, <2>4
<1>5. CASE semaphore_put(t)
  <2>1. PICK woken \in SUBSET Asleep :
          tpc' = [u \in Threads |-> IF u \in woken THEN "woken" ELSE IF u = t THEN "run" ELSE tpc[u]]
    BY <1>5 DEF semaphore_put
  <2>2. /\ tpc[t] = "locked" /\ counter' = counter + 1 /\ Done(t)
        /\ UNCHANGED <<lock_kind, lock, string, reg>>
    BY <1>5 DEF semaphore_put, At
  <2>3. \A u \in woken : u \in Threads /\ tpc[u] = "asleep"
    BY DEF Asleep, At
  <2>4. /\ tpc' \in [Threads -> Places] /\ tpc'[t] = "run"
        /\ \A u \in Threads : u # t => tpc'[u] = tpc[u] \/ (tpc[u] = "asleep" /\ tpc'[u] = "woken")
    BY <1>1, <1>2, <2>1, <2>2, <2>3 DEF LocksTypeOK
  <2>5. loops[t] < MAX_LOOPS
    BY <1>1, <2>2 DEF LoopsBounded
  <2>6. /\ loops' \in [Threads -> Nat] /\ loops'[t] = loops[t] + 1
        /\ \A u \in Threads : u # t => loops'[u] = loops[u]
    BY <1>1, <2>2, <2>5, OneMore DEF LocksTypeOK
  <2>7. LocksTypeOK'
    BY <1>1, <2>2, <2>4, <2>6 DEF LocksTypeOK
  <2>8. LoopsBounded(busy)'
    BY <1>1, <2>4, <2>5, <2>6, BoundedOnce DEF LocksTypeOK
  <2>9. Cardinality(In(inner)') = Cardinality(In(inner)) - 1
    BY <2>2, <2>4, OneParts
  <2> QED
    BY <1>1, <2>2, <2>4, <2>7, <2>8, <2>9
<1> QED
  BY <1>4, <1>5 DEF Semaphore

-----------------------------------------------------------------------------
(* All kinds of locks *)

(* The threads begin outside, with nothing done and nothing written. *)
LEMMA LocksInitially ==
  ASSUME LocksInit
  PROVE  LocksInv
<1> USE LocksAssumption
<1>1. /\ lock_kind \in LockKinds /\ lock = 0
      /\ counter = (IF lock_kind = "semaphore" THEN Room ELSE 0)
      /\ string = [n \in 1 .. CHARS |-> NOBODY]
      /\ tpc = [t \in Threads |-> "run"] /\ loops = [t \in Threads |-> 0]
      /\ reg = [t \in Threads |-> 0]
  BY DEF LocksInit
<1>2. Room \in Nat
  <2>1. Cardinality(Threads) # 0
    BY FS_EmptySet
  <2> QED
    BY <2>1, FS_CardinalityType DEF Room
<1>3. LocksTypeOK
  BY <1>1, <1>2 DEF LocksTypeOK, Places
<1>4. Iterations = 0
  <2> DEFINE done == {p \in Threads \X (1 .. MAX_LOOPS) : p[2] <= loops[p[1]]}
  <2>1. done = {}
    BY <1>1
  <2> QED
    BY <2>1, FS_EmptySet DEF Iterations
<1>5. InsideLock = {} /\ In({"unlock", "wake"}) = {} /\ HeldByOne
  BY <1>1 DEF InsideLock, In, HeldByOne
<1>6. Cardinality(InsideLock) = 0 /\ Cardinality(In({"unlock", "wake"})) = 0
  BY <1>5, FS_EmptySet
<1>7. \A t \in Threads : tpc[t] = "run" /\ loops[t] = 0
  BY <1>1
<1>8. LoopsBounded({}) /\ LoopsBounded({"store"}) /\ LoopsBounded({"locked", "store", "unlock", "wake"})
      /\ LoopsBounded({"asleep", "woken", "locked"})
  BY <1>7 DEF LoopsBounded
<1>9. AtomicInv /\ NotAtomicInv
  BY <1>1, <1>4, <1>7, <1>8 DEF AtomicInv, NotAtomicInv, At
<1>10. FutexInv
  BY <1>1, <1>4, <1>5, <1>6, <1>7, <1>8 DEF FutexInv, At
<1>11. SpinLockInv
  BY <1>1, <1>5, <1>7 DEF SpinLockInv, At
<1>12. BadLockInv
  BY <1>1, <1>7 DEF BadLockInv, At
<1>13. SemaphoreInv
  BY <1>1, <1>2, <1>6, <1>7, <1>8 DEF SemaphoreInv
<1> QED
  BY <1>3, <1>9, <1>10, <1>11, <1>12, <1>13 DEF LocksInv

(* Every step of every thread keeps the invariant.                          *)
LEMMA LocksStep ==
  ASSUME LocksInv, [LocksNext]_locks_vars
  PROVE  LocksInv'
<1>1. CASE UNCHANGED locks_vars
  <2>1. LocksTypeOK' /\ AtomicInv' /\ NotAtomicInv'
    BY <1>1 DEF locks_vars, LocksInv, LocksTypeOK, AtomicInv, NotAtomicInv, LoopsBounded, Iterations, At, Room
  <2>2. FutexInv' /\ SpinLockInv'
    BY <1>1 DEF locks_vars, LocksInv, FutexInv, SpinLockInv, LoopsBounded, HeldByOne, InsideLock, In,
                Iterations, At
  <2>3. BadLockInv' /\ SemaphoreInv'
    BY <1>1 DEF locks_vars, LocksInv, BadLockInv, SemaphoreInv, LoopsBounded, InsideLock, In, Iterations, At, Room
  <2> QED BY ONLY <2>1, <2>2, <2>3 DEF LocksInv
<1>2. CASE LocksNext
  <2>1. PICK t \in Threads : ThreadStep(t)
    BY <1>2 DEF LocksNext
  <2> QED
    BY <2>1, AtomicStep, NotAtomicStep, FutexStep, BadLockStep, SpinLockStep, SemaphoreStep
       DEF ThreadStep
<1> QED
  BY <1>1, <1>2

(* What is said of the locks follows from it.                               *)
LEMMA LocksFromInv ==
  ASSUME LocksInv
  PROVE  LocksSound
<1> USE LocksAssumption
<1>1. LocksTypeOK /\ Iterations \in Nat
  BY IterationsFinite DEF LocksInv
<1>2. HeldByOne => Cardinality(InsideLock) = lock
  BY FS_EmptySet, FS_Singleton DEF HeldByOne
<1>3. PICK any \in Threads : TRUE
  OBVIOUS
<1>4. CASE lock_kind = "futex"
  BY <1>2, <1>4 DEF LocksInv, FutexInv, LocksSound, InsideLock
<1>5. CASE lock_kind = "atomic"
  BY <1>5 DEF LocksInv, AtomicInv, LocksSound
<1>6. CASE lock_kind = "spin_lock"
  <2>1. SpinLockInv
    BY DEF LocksInv
  <2>2. LocksEnd => lock = 0 /\ At(any, "end")
    <3>1. LocksEnd => \A t \in Threads : tpc[t] = "end"
      BY <1>6 DEF LocksEnd, ThreadEnded, At
    <3> QED
      BY <1>6, <2>1, <3>1 DEF SpinLockInv, HeldByOne, InsideLock, In, At
  <2> QED
    BY <1>2, <1>6, <2>1, <2>2 DEF SpinLockInv, LocksSound, InsideLock
<1>7. CASE lock_kind = "bad_lock"
  <2>1. LocksEnd => \A t \in Threads : tpc[t] = "end"
    BY <1>7 DEF LocksEnd, ThreadEnded, At
  <2>2. LocksEnd => \A n \in 1 .. CHARS : string[n] # NOBODY
    BY <1>1, <1>7, <2>1 DEF LocksInv, BadLockInv, At
  <2> QED
    BY <1>7, <2>2 DEF LocksSound
<1>8. CASE lock_kind = "semaphore"
  <2>1. Cardinality(InsideLock) \in Nat /\ Room \in Int /\ counter \in Nat
    BY <1>1, InFinite, FS_CardinalityType DEF InsideLock, Room, LocksTypeOK
  <2>2. counter + Cardinality(InsideLock) = Room
    BY <1>8 DEF LocksInv, SemaphoreInv
  <2> QED
    BY <1>8, <2>1, <2>2 DEF LocksSound, InsideLock
<1>9. CASE lock_kind = "not_atomic"
  <2>1. LocksEnd => \A t \in Threads : loops[t] = MAX_LOOPS
    BY <1>9 DEF LocksEnd, ThreadEnded
  <2>2. NotAtomicInv /\ counter \in Nat
    BY <1>1 DEF LocksInv, LocksTypeOK
  <2>3. LocksEnd => counter >= IF MAX_LOOPS = 1 THEN 1 ELSE 2
    BY <1>9, <2>1, <2>2 DEF NotAtomicInv
  <2> QED
    BY <1>9, <2>2, <2>3 DEF NotAtomicInv, LocksSound
<1> QED
  BY <1>1, <1>4, <1>5, <1>6, <1>7, <1>8, <1>9 DEF LocksTypeOK, LockKinds

(* Of any number of threads with any number of iterations: the futex, the   *)
(* spin lock and the semaphore let in no more threads than they should, no  *)
(* addition under the futex or by the atomic instruction is lost, the       *)
(* string is always written, and without a lock the counter stays between   *)
(* its bounds.                                                              *)
THEOREM LocksCorrect == Spec => []LocksSound
<1>1. Init => LocksInv
  BY LocksInitially DEF Init
<1>2. LocksInv /\ [Next]_sync_vars => LocksInv'
  BY StepOfOne, LocksStep
<1>3. LocksInv => LocksSound
  BY LocksFromInv
<1> QED
  BY <1>1, <1>2, <1>3, PTL DEF Spec

-----------------------------------------------------------------------------
(* Workers and their parent *)
(***************************************************************************)
(* The parent and one of its workers are looked at as a pair, with what is *)
(* between them; a step changes the state of one pair.                     *)
(***************************************************************************)

\* A sequence with which another begins, and one with which it ends.
Starts(s, m) == Len(s) <= Len(m) /\ \A k \in 1 .. Len(s) : s[k] = m[k]
Ends(s, m) == Len(s) <= Len(m) /\ \A k \in 1 .. Len(s) : s[k] = m[Len(m) - Len(s) + k]

\* Who reads from w: the parent now, or as it has been or will be.
Reader(w) ==
  CASE parent.w = w -> [at |-> parent.at, msg |-> parent.msg, missing |-> parent.missing]
    [] parent.w > w -> [at |-> "wait", msg |-> 2, missing |-> 0]
    [] parent.w < w -> [at |-> "copy", msg |-> 1, missing |-> 1]

\* The numbers in the messages, of which some have been read as a[1] and
\* a[2].  The reader r misses the rest of its message; the worker w has the
\* rest of its own still to send.
Talk(r, w, a, m) ==
  /\ Len(m[1]) = 1 /\ m[1][1] = Len(m[2])
  /\ Starts(a[1], m[1]) /\ Starts(a[2], m[2])
  /\ r.missing = Len(m[r.msg]) - Len(a[r.msg])
  /\ r.msg = 1 => Len(a[2]) = 0
  /\ r.msg = 2 => Len(a[1]) = 1
  /\ r.at = "wait" => r.msg = 2 /\ r.missing = 0
  /\ Ends(w.src, m[w.msg])
  /\ w.at \in {"close", "zombie"} => w.msg = 2 /\ Len(w.src) = 0

\* There is something in the memory f that has not been read.
Full(r, f, w) == w.at \in {"unset", "set"} \/ (f.readable /\ r.at = "copy")

\* What is in the memory is what the reader misses next, and the flags say
\* whose turn it is.
MemoryTalk(r, f, w, a, m) ==
  /\ w.msg = 1 => r.msg = 1
  /\ w.msg = r.msg => Len(w.src) = r.missing - (IF Full(r, f, w) THEN Fitting(r.missing) ELSE 0)
  /\ w.msg # r.msg => /\ w.at = "copy" /\ Len(w.src) = Len(m[2])
                      /\ f.readable \/ r.at = "set"
                      /\ r.missing = IF Full(r, f, w) THEN 1 ELSE 0
  /\ Full(r, f, w) => \A k \in 1 .. Fitting(r.missing) : f.buf[k] = m[r.msg][Len(a[r.msg]) + k]
  /\ w.at = "unset" => f.writable /\ ~f.readable /\ r.at = "copy"
  /\ w.at = "set" => ~f.writable /\ ~f.readable /\ r.at = "copy"
  /\ f.readable => ~f.writable /\ r.at \in {"copy", "unset"}
  /\ r.msg = 1 /\ r.at = "copy" => r.missing = 1
  /\ r.at = "unset" => f.readable
  /\ r.at = "set" => ~f.readable /\ ~f.writable
  /\ w.at = "copy" =>
       /\ r.at # "wait"
       /\ f.writable => r.at = "copy" /\ w.msg = r.msg
       /\ ~f.writable /\ w.msg = r.msg => Len(w.src) > 0
  /\ w.at \in {"close", "zombie"} => f.readable \/ r.at \in {"set", "wait"}

\* What is in the pipe p is what the reader misses next, and behind it the
\* beginning of the second message when only the worker has come to that.
PipeTalk(r, p, w, a, m) ==
  /\ w.at \in {"copy", "close", "zombie"} /\ r.at \in {"copy", "wait"}
  /\ p.open \/ w.at = "zombie"
  /\ w.msg = r.msg =>
       /\ Len(p.data) + Len(w.src) = r.missing
       /\ \A k \in 1 .. Len(p.data) : p.data[k] = m[r.msg][Len(a[r.msg]) + k]
  /\ w.msg > r.msg =>
       /\ r.missing <= Len(p.data) /\ Len(p.data) - r.missing + Len(w.src) = Len(m[2])
       /\ \A k \in 1 .. r.missing : p.data[k] = m[1][Len(a[1]) + k]
       /\ \A k \in 1 .. Len(p.data) - r.missing : p.data[r.missing + k] = m[2][k]
  /\ w.msg < r.msg => Len(w.src) = 0 /\ Len(p.data) = 0 /\ Len(a[2]) = 0

-----------------------------------------------------------------------------
\* What the sorted sequences consist of; that it is the numbers of the files
\* is not needed.
Numbers == Nat \cup UNION {Range(Sorted(handoff_input[w])) : w \in Ids}

Readers == [at : {"copy", "unset", "set", "wait"}, msg : {1, 2}, missing : Nat]
Memories == [readable : BOOLEAN, writable : BOOLEAN, buf : [1 .. ROOM -> Numbers]]
Pipes == [data : Seq(Numbers), open : BOOLEAN]
WorkerStates ==
  [at : {"copy", "unset", "set", "close", "zombie"}, msg : {1, 2}, src : Seq(Numbers)]
Pairs == [1 .. 2 -> Seq(Numbers)]

HandoffTypeOK ==
  /\ channel \in {"memory", "pipe"} /\ handoff_input \in Seq(Seq(Nat))
  /\ mem \in [Ids -> Memories] /\ pipes \in [Ids -> Pipes] /\ workers \in [Ids -> WorkerStates]
  /\ arrays \in [Ids -> Pairs]
  /\ parent \in [at : {"copy", "unset", "set", "wait", "end"}, w : Nat \ {0}, msg : {1, 2}, missing : Nat]

\* The parent reads from one worker after the other, and has what it is said
\* to have in the end.
ParentInOrder ==
  /\ parent.w <= Len(handoff_input) + 1
  /\ parent.w = Len(handoff_input) + 1 => parent.at \in {"copy", "end"} /\ parent.msg = 1
  /\ parent.at = "end" =>
       /\ parent.w = Len(handoff_input) + 1
       /\ total_array = FlattenSeq([w \in Ids |-> Sorted(handoff_input[w])])

PairTalks(r, f, p, v, a, m) ==
  /\ Talk(r, v, a, m)
  /\ channel = "memory" => MemoryTalk(r, f, v, a, m)
  /\ channel = "pipe" => PipeTalk(r, p, v, a, m)

PairsTalk ==
  \A w \in Ids : PairTalks(Reader(w), mem[w], pipes[w], workers[w], arrays[w], Messages(w))

HandoffInv == HandoffTypeOK /\ ParentInOrder /\ PairsTalk

-----------------------------------------------------------------------------
(* Sequences that are the beginning or the end of another *)

\* What is left after n numbers is as many shorter, and moved by n.
LEMMA Tail1Properties ==
  ASSUME NEW V, NEW s \in Seq(V), NEW n \in 0 .. Len(s)
  PROVE  /\ Tail1(s, n) \in Seq(V) /\ Len(Tail1(s, n)) = Len(s) - n
         /\ \A k \in 1 .. Len(s) - n : Tail1(s, n)[k] = s[n + k]
<1>1. Len(s) \in Nat /\ n + 1 \in 1 .. Len(s) + 1 /\ n \in Nat
  BY LenProperties
<1>2. n + 1 \in Int /\ Len(s) \in Int /\ \A k \in (n + 1) .. Len(s) : k \in 1 .. Len(s)
  BY <1>1
<1>3. \A k \in (n + 1) .. Len(s) : s[k] \in V
  BY <1>2, LenProperties
<1>4. /\ Tail1(s, n) \in Seq(V)
      /\ Len(Tail1(s, n)) = IF n + 1 <= Len(s) THEN Len(s) - (n + 1) + 1 ELSE 0
      /\ \A k \in 1 .. Len(s) - (n + 1) + 1 : Tail1(s, n)[k] = s[n + 1 + k - 1]
  BY <1>2, <1>1, <1>3, SubSeqProperties DEF Tail1
<1>. QED
  <2> PICK k \in Nat : k = Len(s)
    BY <1>1
  <2>1. n \in Nat /\ n <= k /\ Len(Tail1(s, n)) = k - n
    BY ONLY <1>1, <1>4, k = Len(s), k \in Nat, n \in 0 .. Len(s)
  <2>2. \A i \in 1 .. k - n : i \in 1 .. k - (n + 1) + 1 /\ n + 1 + i - 1 = n + i
    BY ONLY <2>1, k \in Nat
  <2>. QED
    BY ONLY <1>4, <2>1, <2>2, k = Len(s)

\* The rest of the end of a message is the end of the message.
LEMMA EndsTail ==
  ASSUME NEW V, NEW s \in Seq(V), NEW m \in Seq(V), Ends(s, m), NEW n \in 0 .. Len(s)
  PROVE  Ends(Tail1(s, n), m)
<1>1. Len(s) \in Nat /\ Len(m) \in Nat /\ n \in Nat /\ n <= Len(s)
  BY LenProperties
<1>2. /\ Len(Tail1(s, n)) = Len(s) - n
      /\ \A k \in 1 .. Len(s) - n : Tail1(s, n)[k] = s[n + k]
  BY Tail1Properties
<1>. DEFINE t == Tail1(s, n)
<1>3. ASSUME NEW k \in 1 .. Len(t)
      PROVE  t[k] = m[Len(m) - Len(t) + k]
  <2>1. n + k \in 1 .. Len(s) /\ Len(m) - Len(s) + (n + k) = Len(m) - Len(t) + k
    BY <1>1, <1>2
  <2>2. s[n + k] = m[Len(m) - Len(s) + (n + k)]
    BY <2>1 DEF Ends
  <2>. QED
    BY <2>1, <2>2, <1>2
<1>4. Len(t) <= Len(m)
  BY <1>1, <1>2 DEF Ends
<1>. QED
  BY <1>3, <1>4 DEF Ends

\* The first n numbers of a sequence.
LEMMA FirstProperties ==
  ASSUME NEW V, NEW s \in Seq(V), NEW n \in 0 .. Len(s)
  PROVE  /\ SubSeq(s, 1, n) \in Seq(V) /\ Len(SubSeq(s, 1, n)) = n
         /\ \A k \in 1 .. n : SubSeq(s, 1, n)[k] = s[k]
<1>1. Len(s) \in Nat /\ n \in Nat /\ n \in Int /\ 1 \in Int
  BY LenProperties
<1>2. \A k \in 1 .. n : s[k] \in V
  BY <1>1, LenProperties
<1>3. /\ SubSeq(s, 1, n) \in Seq(V)
      /\ Len(SubSeq(s, 1, n)) = IF 1 <= n THEN n - 1 + 1 ELSE 0
      /\ \A k \in 1 .. n - 1 + 1 : SubSeq(s, 1, n)[k] = s[1 + k - 1]
  BY <1>1, <1>2, SubSeqProperties
<1>. QED
  BY <1>3, <1>1

\* What follows the beginning of a message makes the beginning longer.
LEMMA StartsMore ==
  ASSUME NEW V, NEW s \in Seq(V), NEW t \in Seq(V), NEW m \in Seq(V), Starts(s, m),
         Len(s) + Len(t) <= Len(m), \A k \in 1 .. Len(t) : t[k] = m[Len(s) + k]
  PROVE  Starts(s \o t, m)
<1>1. Len(s) \in Nat /\ Len(t) \in Nat /\ Len(m) \in Nat
  BY LenProperties
<1>2. /\ s \o t \in Seq(V) /\ Len(s \o t) = Len(s) + Len(t)
      /\ \A k \in 1 .. Len(s) + Len(t) :
           (s \o t)[k] = IF k <= Len(s) THEN s[k] ELSE t[k - Len(s)]
  BY ConcatProperties
<1>3. ASSUME NEW k \in 1 .. Len(s) + Len(t)
      PROVE  (s \o t)[k] = m[k]
  <2>1. CASE k <= Len(s)
    BY <2>1, <1>1, <1>2 DEF Starts
  <2>2. CASE k > Len(s)
    <3>1. k - Len(s) \in 1 .. Len(t) /\ Len(s) + (k - Len(s)) = k
      BY <2>2, <1>1
    <3>. QED
      BY <3>1, <2>2, <1>1, <1>2
  <2>. QED
    BY <2>1, <2>2, <1>1
<1>. QED
  BY <1>1, <1>2, <1>3 DEF Starts


-----------------------------------------------------------------------------
(* The steps of a worker, seen by the pair *)

\* What a pair consists of.
PairTypes(r, f, p, w, a, m) ==
  /\ r \in Readers /\ f \in Memories /\ p \in Pipes /\ w \in WorkerStates
  /\ a \in Pairs /\ m \in Pairs

\* The memory after n numbers of s have been copied to it.
Copied(f, s, n) == [f EXCEPT !.buf = [k \in 1 .. ROOM |-> IF k <= n THEN s[k] ELSE @[k]]]

\* write_to_shared_mem() fills the memory with what the reader misses next.
LEMMA WriteMemTalks ==
  ASSUME NEW r, NEW f, NEW p, NEW w, NEW a, NEW m, PairTypes(r, f, p, w, a, m),
         Talk(r, w, a, m), MemoryTalk(r, f, w, a, m), w.at = "copy", f.writable
  PROVE  LET n == Fitting(Len(w.src))
             g == Copied(f, w.src, n)
             v == [w EXCEPT !.at = "unset", !.src = Tail1(@, n)]
         IN  g \in Memories /\ v \in WorkerStates /\ Talk(r, v, a, m) /\ MemoryTalk(r, g, v, a, m)
<1>. DEFINE n == Fitting(Len(w.src))
            g == Copied(f, w.src, n)
            v == [w EXCEPT !.at = "unset", !.src = Tail1(@, n)]
<1>1. /\ r \in Readers /\ f \in Memories /\ w \in WorkerStates /\ a \in Pairs /\ m \in Pairs
      /\ w.src \in Seq(Numbers) /\ r.msg \in {1, 2} /\ w.msg \in {1, 2} /\ r.missing \in Nat
      /\ a[1] \in Seq(Numbers) /\ a[2] \in Seq(Numbers) /\ a[r.msg] \in Seq(Numbers)
      /\ m[1] \in Seq(Numbers) /\ m[2] \in Seq(Numbers) /\ m[r.msg] \in Seq(Numbers)
  BY DEF PairTypes, Readers, WorkerStates, Pairs
<1>2. Len(w.src) \in Nat /\ Len(a[r.msg]) \in Nat /\ Len(m[r.msg]) \in Nat /\ ROOM \in Nat \ {0}
  BY <1>1, LenProperties, HandoffAssumption
<1>3. n \in 0 .. Len(w.src) /\ n <= ROOM
  BY <1>2 DEF Fitting
<1>4. /\ r.at = "copy" /\ w.msg = r.msg /\ ~f.readable /\ Len(w.src) = r.missing
      /\ r.missing = Len(m[r.msg]) - Len(a[r.msg])
      /\ Ends(w.src, m[r.msg])
  <2>1. r.at = "copy" /\ w.msg = r.msg /\ ~f.readable
    BY DEF MemoryTalk
  <2>2. ~Full(r, f, w)
    BY <2>1 DEF Full
  <2>3. Len(w.src) = r.missing - 0
    BY <2>1, <2>2 DEF MemoryTalk
  <2>. QED
    BY <1>1, <1>2, <2>1, <2>3 DEF Talk
<1>5. /\ Tail1(w.src, n) \in Seq(Numbers) /\ Len(Tail1(w.src, n)) = Len(w.src) - n
      /\ Ends(Tail1(w.src, n), m[r.msg])
  BY <1>1, <1>3, <1>4, Tail1Properties, EndsTail
<1>6. /\ v \in WorkerStates
      /\ v.at = "unset" /\ v.msg = w.msg /\ v.src = Tail1(w.src, n)
  BY <1>1, <1>5 DEF WorkerStates
<1>7. /\ g \in Memories
      /\ g.readable = f.readable /\ g.writable = f.writable
      /\ \A k \in 1 .. n : g.buf[k] = w.src[k]
  <2>1. \A k \in 1 .. ROOM : k <= n => w.src[k] \in Numbers
    BY <1>1, <1>2, <1>3, LenProperties
  <2>2. f.buf \in [1 .. ROOM -> Numbers]
    BY <1>1 DEF Memories
  <2>. DEFINE b == [k \in 1 .. ROOM |-> IF k <= n THEN w.src[k] ELSE f.buf[k]]
  <2>3. b \in [1 .. ROOM -> Numbers]
    BY <2>1, <2>2
  <2>4. \A k \in 1 .. n : b[k] = w.src[k]
    BY <1>2, <1>3
  <2>5. g = [f EXCEPT !.buf = b]
    BY <1>1 DEF Copied, Memories
  <2>. HIDE DEF b, g
  <2>. QED
    BY <1>1, <2>3, <2>4, <2>5 DEF Memories
<1>8. ASSUME NEW k \in 1 .. n
      PROVE  w.src[k] = m[r.msg][Len(a[r.msg]) + k]
  <2>1. k \in 1 .. Len(w.src) /\ Len(m[r.msg]) - Len(w.src) + k = Len(a[r.msg]) + k
    <3>. HIDE DEF n
    <3>1. PICK long, read, left \in Nat : long = Len(m[r.msg]) /\ read = Len(a[r.msg]) /\ left = Len(w.src)
      BY <1>2
    <3>2. n \in 0 .. left /\ left = long - read /\ k \in 1 .. n
      BY ONLY <1>3, <1>4, <3>1, k \in 1 .. n
    <3>3. k \in 1 .. left /\ long - left + k = read + k
      BY ONLY <3>2, long \in Nat, read \in Nat, left \in Nat
    <3>. QED
      BY <3>1, <3>3
  <2>2. w.src[k] = m[r.msg][Len(m[r.msg]) - Len(w.src) + k]
    BY <1>4, <2>1 DEF Ends
  <2>. QED
    BY <2>1, <2>2
<1>9. Talk(r, v, a, m)
  BY <1>1, <1>4, <1>5, <1>6 DEF Talk
<1>10. Full(r, g, v) /\ Fitting(r.missing) = n
  BY <1>4, <1>6 DEF Full
<1>11. MemoryTalk(r, g, v, a, m)
  <2>. HIDE DEF g, v, n
  <2>. QED
    BY <1>1, <1>2, <1>3, <1>4, <1>5, <1>6, <1>7, <1>8, <1>10 DEF MemoryTalk
<1>. QED
  BY <1>6, <1>7, <1>9, <1>11

\* The flag for writing is taken away; the memory stays full.
LEMMA UnsetWritableTalks ==
  ASSUME NEW r, NEW f, NEW p, NEW w, NEW a, NEW m, PairTypes(r, f, p, w, a, m),
         Talk(r, w, a, m), MemoryTalk(r, f, w, a, m), w.at = "unset"
  PROVE  LET g == [f EXCEPT !.writable = FALSE]
             v == [w EXCEPT !.at = "set"]
         IN  g \in Memories /\ v \in WorkerStates /\ Talk(r, v, a, m) /\ MemoryTalk(r, g, v, a, m)
<1>. DEFINE g == [f EXCEPT !.writable = FALSE]
            v == [w EXCEPT !.at = "set"]
<1>1. r \in Readers /\ f \in Memories /\ w \in WorkerStates
  BY DEF PairTypes
<1>2. v \in WorkerStates /\ v.at = "set" /\ v.msg = w.msg /\ v.src = w.src
  BY <1>1 DEF WorkerStates
<1>3. g \in Memories /\ g.readable = f.readable /\ ~g.writable /\ g.buf = f.buf
  BY <1>1 DEF Memories
<1>4. Full(r, f, w) /\ Full(r, g, v)
  BY <1>2 DEF Full
<1>. HIDE DEF g, v
<1>5. Talk(r, v, a, m)
  BY <1>2 DEF Talk
<1>6. MemoryTalk(r, g, v, a, m)
  BY <1>2, <1>3, <1>4 DEF MemoryTalk
<1>. QED
  BY <1>2, <1>3, <1>5, <1>6 DEF g, v


\* The worker after a message: at the next one or at its end.
AfterMessage(w, m) ==
  IF w.msg = 1 THEN [at |-> "copy", msg |-> 2, src |-> m[2]] ELSE [w EXCEPT !.at = "close"]

\* A message is the end of itself.
LEMMA EndsWhole == ASSUME NEW V, NEW m \in Seq(V) PROVE Ends(m, m)
  BY LenProperties DEF Ends

\* A worker that has sent all of a message is in order with the next one.
LEMMA AfterMessageTalks ==
  ASSUME NEW r, NEW f, NEW p, NEW w, NEW a, NEW m, PairTypes(r, f, p, w, a, m),
         Talk(r, w, a, m), w.at \in {"copy", "set"}, Len(w.src) = 0
  PROVE  LET v == AfterMessage(w, m)
         IN  /\ v \in WorkerStates /\ Talk(r, v, a, m) /\ v.msg = 2
             /\ w.msg = 1 => v.at = "copy" /\ v.src = m[2]
             /\ w.msg = 2 => v.at = "close" /\ v.src = w.src
<1>. DEFINE v == AfterMessage(w, m)
<1>1. w \in WorkerStates /\ m[1] \in Seq(Numbers) /\ m[2] \in Seq(Numbers) /\ w.msg \in {1, 2}
  BY DEF PairTypes, WorkerStates, Pairs
<1>2. CASE w.msg = 1
  <2>1. v \in WorkerStates /\ v.at = "copy" /\ v.msg = 2 /\ v.src = m[2]
    BY <1>1, <1>2 DEF WorkerStates, AfterMessage
  <2>2. Ends(v.src, m[v.msg])
    BY <2>1, <1>1, EndsWhole
  <2>. HIDE DEF v
  <2>. QED
    BY <2>1, <2>2, <1>2 DEF Talk, v
<1>3. CASE w.msg = 2
  <2>1. v \in WorkerStates /\ v.at = "close" /\ v.msg = 2 /\ v.src = w.src
    BY <1>1, <1>3 DEF WorkerStates, AfterMessage
  <2>. HIDE DEF v
  <2>. QED
    BY <2>1, <1>3 DEF Talk, v
<1>. QED
  BY <1>1, <1>2, <1>3

\* The flag for reading is given, and the worker goes on to the rest of the
\* message, or to the next.
LEMMA SetReadableTalks ==
  ASSUME NEW r, NEW f, NEW p, NEW w, NEW a, NEW m, PairTypes(r, f, p, w, a, m),
         Talk(r, w, a, m), MemoryTalk(r, f, w, a, m), w.at = "set"
  PROVE  LET g == [f EXCEPT !.readable = TRUE]
             v == IF w.src = <<>> THEN AfterMessage(w, m) ELSE [w EXCEPT !.at = "copy"]
         IN  g \in Memories /\ v \in WorkerStates /\ Talk(r, v, a, m) /\ MemoryTalk(r, g, v, a, m)
<1>. DEFINE g == [f EXCEPT !.readable = TRUE]
<1>1. /\ r \in Readers /\ f \in Memories /\ w \in WorkerStates
      /\ w.src \in Seq(Numbers) /\ w.msg \in {1, 2} /\ r.msg \in {1, 2} /\ r.missing \in Nat
      /\ a[1] \in Seq(Numbers) /\ m[1] \in Seq(Numbers)
  BY DEF PairTypes, WorkerStates, Readers, Pairs
<1>2. g \in Memories /\ g.readable /\ g.writable = f.writable /\ g.buf = f.buf
  BY <1>1 DEF Memories
<1>3. /\ r.at = "copy" /\ ~f.writable /\ ~f.readable /\ w.msg = r.msg
      /\ Full(r, f, w) /\ (r.msg = 1 => r.missing = 1)
      /\ \A k \in 1 .. Fitting(r.missing) : f.buf[k] = m[r.msg][Len(a[r.msg]) + k]
  BY DEF MemoryTalk, Full
<1>4. Len(w.src) = r.missing - Fitting(r.missing) /\ Fitting(r.missing) \in Nat
  <2>1. Fitting(r.missing) \in Nat
    BY <1>1, HandoffAssumption DEF Fitting
  <2>. QED
    BY <1>3, <2>1 DEF MemoryTalk
<1>. HIDE DEF g
<1>5. CASE w.src = <<>>
  <2>. DEFINE v == AfterMessage(w, m)
  <2>1. Len(w.src) = 0
    BY <1>5
  <2>2. /\ v \in WorkerStates /\ Talk(r, v, a, m) /\ v.msg = 2
        /\ w.msg = 1 => v.at = "copy" /\ v.src = m[2]
        /\ w.msg = 2 => v.at = "close" /\ v.src = w.src
    BY <2>1, AfterMessageTalks
  <2>. HIDE DEF v
  <2>3. Full(r, g, v)
    BY <1>2, <1>3 DEF Full
  <2>4. MemoryTalk(r, g, v, a, m)
    <3>1. CASE w.msg = 1
      BY <3>1, <1>2, <1>3, <2>2, <2>3 DEF MemoryTalk
    <3>2. CASE w.msg = 2
      BY <3>2, <1>2, <1>3, <1>4, <2>1, <2>2, <2>3 DEF MemoryTalk
    <3>. QED
      BY <3>1, <3>2, <1>1
  <2>. QED
    BY <1>2, <1>5, <2>2, <2>4 DEF g, v
<1>6. CASE w.src # <<>>
  <2>. DEFINE v == [w EXCEPT !.at = "copy"]
  <2>1. v \in WorkerStates /\ v.at = "copy" /\ v.msg = w.msg /\ v.src = w.src
    BY <1>1 DEF WorkerStates
  <2>2. Len(w.src) > 0
    BY <1>1, <1>6, LenProperties, EmptySeq
  <2>. HIDE DEF v
  <2>3. Full(r, g, v)
    BY <1>2, <1>3 DEF Full
  <2>4. Talk(r, v, a, m)
    BY <2>1 DEF Talk
  <2>5. MemoryTalk(r, g, v, a, m)
    BY <2>1, <2>2, <2>3, <1>2, <1>3, <1>4 DEF MemoryTalk
  <2>. QED
    BY <1>2, <1>6, <2>1, <2>4, <2>5 DEF g, v
<1>. QED
  BY <1>5, <1>6


\* The end of a worker changes nothing for the parent: all has been sent.
LEMMA ExitTalks ==
  ASSUME NEW r, NEW f, NEW p, NEW w, NEW a, NEW m, PairTypes(r, f, p, w, a, m),
         Talk(r, w, a, m), w.at = "close"
  PROVE  LET q == [p EXCEPT !.open = FALSE]
             v == [w EXCEPT !.at = "zombie"]
         IN  /\ q \in Pipes /\ v \in WorkerStates /\ Talk(r, v, a, m)
             /\ MemoryTalk(r, f, w, a, m) => MemoryTalk(r, f, v, a, m)
             /\ PipeTalk(r, p, w, a, m) => PipeTalk(r, q, v, a, m)
<1>. DEFINE q == [p EXCEPT !.open = FALSE]
            v == [w EXCEPT !.at = "zombie"]
<1>1. p \in Pipes /\ w \in WorkerStates
  BY DEF PairTypes
<1>2. v \in WorkerStates /\ v.at = "zombie" /\ v.msg = w.msg /\ v.src = w.src
  BY <1>1 DEF WorkerStates
<1>3. q \in Pipes /\ q.data = p.data
  BY <1>1 DEF Pipes
<1>. HIDE DEF q, v
<1>4. Talk(r, v, a, m)
  BY <1>2 DEF Talk
<1>5. ASSUME MemoryTalk(r, f, w, a, m)
      PROVE  MemoryTalk(r, f, v, a, m)
  <2>1. Full(r, f, v) <=> Full(r, f, w)
    BY <1>2 DEF Full
  <2>. QED
    BY <1>2, <1>5, <2>1 DEF MemoryTalk
<1>6. ASSUME PipeTalk(r, p, w, a, m)
      PROVE  PipeTalk(r, q, v, a, m)
  BY <1>2, <1>3, <1>6 DEF PipeTalk
<1>. QED
  BY <1>2, <1>3, <1>4, <1>5, <1>6 DEF q, v

\* A message that is all in the pipe is followed by the next, whether the
\* parent has come to that or not.
LEMMA NextMessageTalks ==
  ASSUME NEW r, NEW f, NEW p, NEW w, NEW a, NEW m, PairTypes(r, f, p, w, a, m),
         Talk(r, w, a, m), PipeTalk(r, p, w, a, m), w.at = "copy", w.src = <<>>
  PROVE  LET v == AfterMessage(w, m)
         IN  v \in WorkerStates /\ Talk(r, v, a, m) /\ PipeTalk(r, p, v, a, m)
<1>. DEFINE v == AfterMessage(w, m)
<1>1. /\ r.msg \in {1, 2} /\ w.msg \in {1, 2} /\ r.missing \in Nat /\ p.data \in Seq(Numbers)
      /\ a[1] \in Seq(Numbers) /\ a[2] \in Seq(Numbers)
      /\ m[1] \in Seq(Numbers) /\ m[2] \in Seq(Numbers)
  BY DEF PairTypes, WorkerStates, Readers, Pairs, Pipes
<1>2. /\ Len(w.src) = 0 /\ Len(p.data) \in Nat /\ Len(m[2]) \in Nat /\ Len(a[2]) \in Nat
      /\ Len(m[1]) \in Nat /\ Len(a[1]) \in Nat
  BY <1>1, LenProperties
<1>3. /\ v \in WorkerStates /\ Talk(r, v, a, m) /\ v.msg = 2
      /\ w.msg = 1 => v.at = "copy" /\ v.src = m[2]
      /\ w.msg = 2 => v.at = "close" /\ v.src = w.src
  BY <1>2, AfterMessageTalks
<1>. HIDE DEF v
<1>4. CASE w.msg = 1 /\ r.msg = 1
  <2>1. /\ Len(p.data) = r.missing
        /\ \A k \in 1 .. Len(p.data) : p.data[k] = m[1][Len(a[1]) + k]
    BY <1>1, <1>2, <1>4 DEF PipeTalk
  <2>. QED
    BY <1>1, <1>2, <1>3, <1>4, <2>1 DEF PipeTalk, v
<1>5. CASE w.msg = 1 /\ r.msg = 2
  <2>1. Len(p.data) = 0 /\ Len(a[2]) = 0
    BY <1>5 DEF PipeTalk
  <2>2. r.missing = Len(m[2])
    BY <1>2, <1>5, <2>1 DEF Talk
  <2>. QED
    BY <1>1, <1>2, <1>3, <1>5, <2>1, <2>2 DEF PipeTalk, v
<1>6. CASE w.msg = 2
  BY <1>3, <1>6 DEF PipeTalk, v
<1>. QED
  BY <1>1, <1>4, <1>5, <1>6

\* One number more in the pipe is one less to send.
LEMMA WritePipeTalks ==
  ASSUME NEW r, NEW f, NEW p, NEW w, NEW a, NEW m, PairTypes(r, f, p, w, a, m),
         Talk(r, w, a, m), PipeTalk(r, p, w, a, m), w.at = "copy", w.src # <<>>
  PROVE  LET q == [p EXCEPT !.data = Append(@, Head(w.src))]
             v == [w EXCEPT !.src = Tail(@)]
         IN  q \in Pipes /\ v \in WorkerStates /\ Talk(r, v, a, m) /\ PipeTalk(r, q, v, a, m)
<1>. DEFINE q == [p EXCEPT !.data = Append(@, Head(w.src))]
            v == [w EXCEPT !.src = Tail(@)]
            l == Len(p.data)
            s == Len(w.src)
            mw == Len(m[w.msg])
            mr == Len(m[r.msg])
            ar == Len(a[r.msg])
            m2 == Len(m[2])
            vs == Len(v.src)
            c == r.missing
<1>1. /\ r.msg \in {1, 2} /\ w.msg \in {1, 2} /\ r.missing \in Nat
      /\ w.src \in Seq(Numbers) /\ p.data \in Seq(Numbers) /\ p \in Pipes /\ w \in WorkerStates
      /\ m[w.msg] \in Seq(Numbers) /\ a[r.msg] \in Seq(Numbers) /\ m[r.msg] \in Seq(Numbers)
      /\ m[2] \in Seq(Numbers)
  BY DEF PairTypes, WorkerStates, Readers, Pairs, Pipes
<1>2. s \in Nat /\ s > 0 /\ l \in Nat /\ mw \in Nat /\ ar \in Nat /\ mr \in Nat /\ m2 \in Nat
      /\ c \in Nat
  BY <1>1, LenProperties, EmptySeq
<1>3. /\ Head(w.src) \in Numbers /\ Tail(w.src) \in Seq(Numbers)
      /\ Len(Tail(w.src)) = s - 1 /\ Head(w.src) = w.src[1]
      /\ \A k \in 1 .. Len(Tail(w.src)) : Tail(w.src)[k] = w.src[k + 1]
  BY <1>1, HeadTailProperties
<1>4. /\ Append(p.data, Head(w.src)) \in Seq(Numbers)
      /\ Len(Append(p.data, Head(w.src))) = l + 1
      /\ \A k \in 1 .. l : Append(p.data, Head(w.src))[k] = p.data[k]
      /\ Append(p.data, Head(w.src))[l + 1] = Head(w.src)
  BY <1>1, <1>3, AppendProperties
<1>5. /\ q \in Pipes /\ q.open = p.open
      /\ Len(q.data) = l + 1 /\ \A k \in 1 .. l : q.data[k] = p.data[k]
      /\ q.data[l + 1] = w.src[1]
  BY <1>1, <1>3, <1>4 DEF Pipes
<1>6. v \in WorkerStates /\ v.at = w.at /\ v.msg = w.msg /\ v.src = Tail(w.src) /\ vs = s - 1
  BY <1>1, <1>3 DEF WorkerStates
<1>. HIDE DEF q, v, l, s, mw, mr, ar, m2, vs, c
<1>7. s <= mw /\ w.src[1] = m[w.msg][mw - s + 1]
  <2>1. Ends(w.src, m[w.msg]) /\ 1 \in 1 .. s
    BY <1>2 DEF Talk
  <2>. QED
    BY <2>1 DEF Ends, s, mw
<1>8. Ends(v.src, m[v.msg])
  <2>1. ASSUME NEW k \in 1 .. vs
        PROVE  v.src[k] = m[v.msg][mw - vs + k]
    <3>1. k + 1 \in 1 .. s /\ mw - s + (k + 1) = mw - vs + k
      BY <1>2, <1>6
    <3>2. w.src[k + 1] = m[w.msg][mw - s + (k + 1)]
      BY <3>1 DEF Talk, Ends, s, mw
    <3>3. k \in 1 .. Len(Tail(w.src))
      BY <1>3, <1>6
    <3>. QED
      BY <1>3, <1>6, <3>1, <3>2, <3>3
  <2>2. vs <= mw
    BY <1>2, <1>6, <1>7
  <2>. QED
    BY <2>1, <2>2, <1>6 DEF Ends, vs, mw
<1>9. Talk(r, v, a, m)
  BY <1>6, <1>8 DEF Talk
<1>10. PipeTalk(r, q, v, a, m)
  <2>1. CASE w.msg = r.msg
    <3>0. mw = mr
      BY <2>1 DEF mw, mr
    <3>1. l + s = c /\ \A k \in 1 .. l : p.data[k] = m[r.msg][ar + k]
      BY <2>1 DEF PipeTalk, l, s, ar, m2, c
    <3>2. c = mr - ar
      BY DEF Talk, mr, ar, c
    <3>3. mw - s + 1 = ar + (l + 1)
      BY <1>1, <1>2, <3>0, <3>1, <3>2
    <3>4. \A k \in 1 .. l + 1 : q.data[k] = m[r.msg][ar + k]
      BY <1>2, <1>5, <1>7, <2>1, <3>1, <3>3
    <3>5. (l + 1) + vs = c
      BY <1>2, <1>3, <1>5, <1>6, <3>1
    <3>. QED
      BY <1>5, <1>6, <2>1, <3>4, <3>5 DEF PipeTalk, vs, ar, c
  <2>2. CASE w.msg > r.msg
    <3>0. w.msg = 2 /\ r.msg = 1
      BY <1>1, <2>2
    <3>1. /\ c <= l /\ l - c + s = m2
          /\ \A k \in 1 .. c : p.data[k] = m[1][Len(a[1]) + k]
          /\ \A k \in 1 .. l - c : p.data[c + k] = m[2][k]
      BY <2>2 DEF PipeTalk, l, s, m2, c
    <3>6. mw = m2
      BY <3>0 DEF mw, m2
    <3>2. m2 - s + 1 = (l + 1) - c
      BY <1>1, <1>2, <3>1
    <3>3. \A k \in 1 .. c : q.data[k] = m[1][Len(a[1]) + k]
      <4>. TAKE k \in 1 .. c
      <4>1. k \in 1 .. l
        BY <1>2, <3>1
      <4>. QED
        BY <1>5, <3>1, <4>1
    <3>4. \A k \in 1 .. (l + 1) - c : q.data[c + k] = m[2][k]
      <4>. TAKE k \in 1 .. (l + 1) - c
      <4>1. CASE k = (l + 1) - c
        <5>1. c + k = l + 1
          BY <1>1, <1>2, <4>1
        <5>2. m[2][m2 - s + 1] = m[2][k]
          BY <3>2, <4>1
        <5>. QED
          BY <1>5, <1>7, <3>0, <3>6, <5>1, <5>2
      <4>2. CASE k # (l + 1) - c
        <5>1. k \in 1 .. l - c /\ c + k \in 1 .. l
          BY <1>1, <1>2, <3>1, <4>2
        <5>. QED
          BY <1>5, <3>1, <5>1
      <4>. QED
        BY <4>1, <4>2
    <3>5. c <= (l + 1) /\ (l + 1) - c + vs = m2
      BY <1>1, <1>2, <1>3, <1>5, <1>6, <3>1
    <3>. QED
      BY <1>5, <1>6, <3>0, <3>3, <3>4, <3>5 DEF PipeTalk, vs, m2, c
  <2>3. CASE w.msg < r.msg
    BY <1>2, <2>3 DEF PipeTalk, s
  <2>. QED
    BY <1>1, <2>1, <2>2, <2>3
<1>. QED
  BY <1>5, <1>6, <1>9, <1>10 DEF q, v


-----------------------------------------------------------------------------
(* The steps of the parent, seen by the pair *)

\* The reader and what it has after it has read the numbers s.
Having(r, at, n) == [r EXCEPT !.at = at, !.missing = @ - n]
Took(r, a, s) == [a EXCEPT ![r.msg] = @ \o s]

\* Numbers that continue what the reader has are as many less to miss.
LEMMA TakesTalks ==
  ASSUME NEW r, NEW f, NEW p, NEW w, NEW a, NEW m, PairTypes(r, f, p, w, a, m),
         Talk(r, w, a, m), NEW at \in {"copy", "unset"}, r.at = "copy",
         NEW s \in Seq(Numbers), Len(s) <= r.missing,
         \A k \in 1 .. Len(s) : s[k] = m[r.msg][Len(a[r.msg]) + k]
  PROVE  LET x == Having(r, at, Len(s))
             b == Took(r, a, s)
         IN  /\ x \in Readers /\ x.at = at /\ x.msg = r.msg /\ x.missing = r.missing - Len(s)
             /\ b \in Pairs /\ Len(b[r.msg]) = Len(a[r.msg]) + Len(s)
             /\ r.msg = 1 => b[2] = a[2]
             /\ Talk(x, w, b, m)
<1>. DEFINE x == Having(r, at, Len(s))
            b == Took(r, a, s)
            c == r.missing
            l == Len(s)
            al == Len(a[r.msg])
            ml == Len(m[r.msg])
<1>1. /\ r \in Readers /\ a \in Pairs /\ r.msg \in {1, 2} /\ c \in Nat
      /\ a[r.msg] \in Seq(Numbers) /\ m[r.msg] \in Seq(Numbers)
      /\ a[1] \in Seq(Numbers) /\ a[2] \in Seq(Numbers)
  BY DEF PairTypes, Readers, Pairs
<1>2. l \in Nat /\ al \in Nat /\ ml \in Nat /\ l <= c
  BY <1>1, LenProperties
<1>3. a[r.msg] \o s \in Seq(Numbers) /\ Len(a[r.msg] \o s) = al + l
  BY <1>1, ConcatProperties
<1>4. c = ml - al
  BY DEF Talk
<1>. HIDE DEF c, l, al, ml
<1>5. c - l \in Nat /\ al + l <= ml /\ c - l = ml - (al + l)
  BY <1>1, <1>2, <1>4
<1>6. x \in Readers /\ x.at = at /\ x.msg = r.msg /\ x.missing = c - l
  BY <1>1, <1>5 DEF Having, Readers, c, l
<1>7. /\ b \in Pairs /\ b[r.msg] = a[r.msg] \o s
      /\ r.msg = 1 => b[2] = a[2]
      /\ r.msg = 2 => b[1] = a[1]
  BY <1>1, <1>3 DEF Took, Pairs
<1>8. Starts(a[r.msg] \o s, m[r.msg])
  <2>1. Len(a[r.msg]) + Len(s) <= Len(m[r.msg])
    BY <1>5 DEF al, l, ml
  <2>2. Starts(a[r.msg], m[r.msg])
    BY <1>1 DEF Talk
  <2>. QED
    BY <1>1, <2>1, <2>2, StartsMore
<1>9. Starts(b[1], m[1]) /\ Starts(b[2], m[2])
  BY <1>1, <1>7, <1>8 DEF Talk
<1>. HIDE DEF x, b
<1>10. x.missing = Len(m[x.msg]) - Len(b[x.msg])
  <2>1. Len(b[x.msg]) = al + l /\ Len(m[x.msg]) = ml
    BY <1>3, <1>6, <1>7 DEF ml
  <2>. QED
    BY <1>5, <1>6, <2>1
<1>11. (x.msg = 1 => Len(b[2]) = 0) /\ (x.msg = 2 => Len(b[1]) = 1)
  BY <1>1, <1>6, <1>7 DEF Talk
<1>12. Talk(x, w, b, m)
  BY <1>6, <1>9, <1>10, <1>11 DEF Talk
<1>. QED
  BY <1>3, <1>6, <1>7, <1>12 DEF x, b, al, l, c

\* read_from_shared_mem() takes what is in the memory.
LEMMA ReadMemTalks ==
  ASSUME NEW r, NEW f, NEW p, NEW w, NEW a, NEW m, PairTypes(r, f, p, w, a, m),
         Talk(r, w, a, m), MemoryTalk(r, f, w, a, m), r.at = "copy", f.readable
  PROVE  LET s == SubSeq(f.buf, 1, Fitting(r.missing))
             x == Having(r, "unset", Len(s))
             b == Took(r, a, s)
         IN  x \in Readers /\ b \in Pairs /\ Talk(x, w, b, m) /\ MemoryTalk(x, f, w, b, m)
<1>. DEFINE c == r.missing
            n == Fitting(c)
            s == SubSeq(f.buf, 1, n)
            x == Having(r, "unset", Len(s))
            b == Took(r, a, s)
            ws == Len(w.src)
<1>1. /\ r.msg \in {1, 2} /\ w.msg \in {1, 2} /\ c \in Nat /\ f.buf \in [1 .. ROOM -> Numbers]
      /\ ROOM \in Nat /\ ROOM > 0
  BY HandoffAssumption DEF PairTypes, Readers, WorkerStates, Memories
<1>2. n \in 0 .. ROOM /\ n <= c /\ n \in Nat /\ (c = 1 => n = 1)
  <2>. HIDE DEF c
  <2>. QED
    BY <1>1 DEF Fitting
<1>3. s \in Seq(Numbers) /\ Len(s) = n /\ \A k \in 1 .. n : s[k] = f.buf[k]
  <2>1. f.buf \in Seq(Numbers) /\ Len(f.buf) = ROOM
    BY <1>1
  <2>2. n \in 0 .. Len(f.buf)
    BY <1>2, <2>1
  <2>. HIDE DEF n
  <2>. QED
    BY <2>1, <2>2, FirstProperties
<1>4. Full(r, f, w)
  BY DEF Full
<1>5. \A k \in 1 .. n : f.buf[k] = m[r.msg][Len(a[r.msg]) + k]
  BY <1>4 DEF MemoryTalk
<1>. HIDE DEF c, n, s
<1>6. \A k \in 1 .. Len(s) : s[k] = m[r.msg][Len(a[r.msg]) + k]
  BY <1>3, <1>5
<1>7. Len(s) <= r.missing
  BY <1>2, <1>3 DEF c
<1>8. /\ x \in Readers /\ x.at = "unset" /\ x.msg = r.msg /\ x.missing = c - n
      /\ b \in Pairs /\ Talk(x, w, b, m)
  <2>1. /\ x \in Readers /\ x.at = "unset" /\ x.msg = r.msg /\ x.missing = r.missing - Len(s)
        /\ b \in Pairs /\ Talk(x, w, b, m)
    BY <1>3, <1>6, <1>7, TakesTalks
  <2>. QED
    BY <2>1, <1>3 DEF c
<1>. HIDE DEF x, b, ws
<1>9. ~Full(x, f, w)
  BY <1>8 DEF Full, MemoryTalk
<1>10. w.msg = r.msg => ws = c - n
  BY <1>4 DEF MemoryTalk, c, n, ws
<1>11. w.msg # r.msg => c = 1 /\ c - n = 0
  <2>1. w.msg # r.msg => c = 1
    BY <1>4 DEF MemoryTalk, c
  <2>. QED
    BY <2>1, <1>2
<1>12. c - n \in Nat /\ c - n = (c - n) - 0
  BY <1>1, <1>2
<1>13. MemoryTalk(x, f, w, b, m)
  <2>1. w.msg = x.msg => Len(w.src) = x.missing - (IF Full(x, f, w) THEN Fitting(x.missing) ELSE 0)
    BY <1>8, <1>9, <1>10, <1>12 DEF ws
  <2>2. w.msg # x.msg => /\ w.at = "copy" /\ Len(w.src) = Len(m[2])
                         /\ f.readable \/ x.at = "set"
                         /\ x.missing = IF Full(x, f, w) THEN 1 ELSE 0
    BY <1>8, <1>9, <1>11 DEF MemoryTalk
  <2>. QED
    BY <1>8, <1>9, <2>1, <2>2 DEF MemoryTalk
<1>. QED
  BY <1>8, <1>13 DEF x, b, s, n, c

\* The flag for reading is taken away.
LEMMA UnsetReadableTalks ==
  ASSUME NEW r, NEW f, NEW p, NEW w, NEW a, NEW m, PairTypes(r, f, p, w, a, m),
         Talk(r, w, a, m), MemoryTalk(r, f, w, a, m), r.at = "unset"
  PROVE  LET g == [f EXCEPT !.readable = FALSE]
             x == [r EXCEPT !.at = "set"]
         IN  g \in Memories /\ x \in Readers /\ Talk(x, w, a, m) /\ MemoryTalk(x, g, w, a, m)
<1>. DEFINE g == [f EXCEPT !.readable = FALSE]
            x == [r EXCEPT !.at = "set"]
<1>1. f \in Memories /\ r \in Readers
  BY DEF PairTypes
<1>2. g \in Memories /\ ~g.readable /\ g.writable = f.writable /\ g.buf = f.buf
  BY <1>1 DEF Memories
<1>3. x \in Readers /\ x.at = "set" /\ x.msg = r.msg /\ x.missing = r.missing
  BY <1>1 DEF Readers
<1>. HIDE DEF g, x
<1>4. ~Full(r, f, w) /\ ~Full(x, g, w)
  BY <1>2, <1>3 DEF Full, MemoryTalk
<1>5. Talk(x, w, a, m)
  BY <1>3 DEF Talk
<1>6. MemoryTalk(x, g, w, a, m)
  BY <1>2, <1>3, <1>4 DEF MemoryTalk
<1>. QED
  BY <1>2, <1>3, <1>5, <1>6 DEF g, x


\* The reader after a message: at the next one or at its wait().
AfterRead(r, a) ==
  IF r.msg = 1 THEN [r EXCEPT !.at = "copy", !.msg = 2, !.missing = a[1][1]]
  ELSE [r EXCEPT !.at = "wait"]

\* A reader that has all of a message is in order with the next one.
LEMMA AfterReadTalks ==
  ASSUME NEW r, NEW f, NEW p, NEW w, NEW a, NEW m, PairTypes(r, f, p, w, a, m),
         Talk(r, w, a, m), r.missing = 0
  PROVE  LET x == AfterRead(r, a)
         IN  /\ x \in Readers /\ Talk(x, w, a, m) /\ x.msg = 2
             /\ r.msg = 1 => x.at = "copy" /\ x.missing = Len(m[2]) /\ Len(a[2]) = 0
             /\ r.msg = 2 => x.at = "wait" /\ x.missing = 0
<1>. DEFINE x == AfterRead(r, a)
<1>1. /\ r \in Readers /\ r.msg \in {1, 2} /\ a[1] \in Seq(Numbers) /\ a[2] \in Seq(Numbers)
      /\ m[2] \in Seq(Numbers) /\ m[1] \in Seq(Numbers)
  BY DEF PairTypes, Readers, Pairs
<1>2. Len(a[1]) \in Nat /\ Len(m[2]) \in Nat
  BY <1>1, LenProperties
<1>3. CASE r.msg = 1
  <2>1. Len(a[1]) = 1
    <3>1. 0 = 1 - Len(a[1])
      BY <1>3 DEF Talk
    <3>2. ASSUME NEW l \in Nat, 0 = 1 - l
          PROVE  l = 1
      BY <3>2
    <3>. QED
      BY <1>2, <3>1, <3>2
  <2>2. a[1][1] = Len(m[2])
    BY <2>1 DEF Talk, Starts
  <2>3. x \in Readers /\ x.at = "copy" /\ x.msg = 2 /\ x.missing = Len(m[2])
    BY <1>1, <1>2, <1>3, <2>2 DEF Readers, AfterRead
  <2>4. Len(a[2]) = 0 /\ Len(m[2]) = Len(m[2]) - Len(a[2])
    <3>1. Len(a[2]) = 0
      BY <1>3 DEF Talk
    <3>2. ASSUME NEW l \in Nat
          PROVE  l = l - 0
      OBVIOUS
    <3>. QED
      BY <1>2, <3>1, <3>2
  <2>. HIDE DEF x
  <2>5. Talk(x, w, a, m)
    BY <2>1, <2>3, <2>4 DEF Talk
  <2>. QED
    BY <1>3, <2>3, <2>4, <2>5 DEF x
<1>4. CASE r.msg = 2
  <2>1. x \in Readers /\ x.at = "wait" /\ x.msg = 2 /\ x.missing = 0
    BY <1>1, <1>4 DEF Readers, AfterRead
  <2>. HIDE DEF x
  <2>2. Talk(x, w, a, m)
    BY <2>1, <1>4 DEF Talk
  <2>. QED
    BY <1>4, <2>1, <2>2 DEF x
<1>. QED
  BY <1>1, <1>3, <1>4

\* The flag for writing is given, and the reader goes on to the rest of the
\* message, to the next, or to wait().
LEMMA SetWritableTalks ==
  ASSUME NEW r, NEW f, NEW p, NEW w, NEW a, NEW m, PairTypes(r, f, p, w, a, m),
         Talk(r, w, a, m), MemoryTalk(r, f, w, a, m), r.at = "set"
  PROVE  LET g == [f EXCEPT !.writable = TRUE]
             x == IF r.missing = 0 THEN AfterRead(r, a) ELSE [r EXCEPT !.at = "copy"]
         IN  g \in Memories /\ x \in Readers /\ Talk(x, w, a, m) /\ MemoryTalk(x, g, w, a, m)
<1>. DEFINE g == [f EXCEPT !.writable = TRUE]
            ws == Len(w.src)
            c == r.missing
<1>1. /\ f \in Memories /\ r \in Readers /\ c \in Nat /\ r.msg \in {1, 2} /\ w.msg \in {1, 2}
      /\ w \in WorkerStates /\ w.src \in Seq(Numbers) /\ a[1] \in Seq(Numbers)
      /\ w.at \in {"copy", "unset", "set", "close", "zombie"}
  BY DEF PairTypes, Readers, WorkerStates, Pairs
<1>2. g \in Memories /\ g.readable = f.readable /\ g.writable /\ g.buf = f.buf
  BY <1>1 DEF Memories
<1>3. ws \in Nat
  BY <1>1, LenProperties
<1>4. /\ ~f.readable /\ ~f.writable /\ ~Full(r, f, w)
      /\ w.at \in {"copy", "close", "zombie"}
  BY <1>1 DEF Full, MemoryTalk
<1>5. w.msg = r.msg => ws = c
  <2>1. w.msg = r.msg => ws = c - 0
    BY <1>4 DEF MemoryTalk
  <2>. QED
    BY <2>1, <1>1
<1>6. /\ w.msg # r.msg => w.at = "copy" /\ ws = Len(m[2]) /\ c = 0 /\ w.msg = 2 /\ r.msg = 1
      /\ w.at = "copy" /\ w.msg = r.msg => ws > 0
      /\ w.at \in {"close", "zombie"} => ws = 0
  BY <1>1, <1>4 DEF MemoryTalk, Talk
<1>. HIDE DEF g
<1>7. CASE c = 0
  <2>. DEFINE x == AfterRead(r, a)
  <2>1. /\ x \in Readers /\ Talk(x, w, a, m) /\ x.msg = 2
        /\ r.msg = 1 => x.at = "copy" /\ x.missing = Len(m[2]) /\ Len(a[2]) = 0
        /\ r.msg = 2 => x.at = "wait" /\ x.missing = 0
    BY <1>7, AfterReadTalks
  <2>. HIDE DEF x
  <2>2. ~Full(x, g, w)
    BY <1>2, <1>4 DEF Full
  <2>3. MemoryTalk(x, g, w, a, m)
    <3>1. CASE r.msg = 1
      <4>1. w.msg # r.msg
        <5>1. w.msg = r.msg => w.at # "copy"
          BY <1>1, <1>3, <1>5, <1>6, <1>7
        <5>2. w.at \in {"close", "zombie"} => w.msg = 2
          BY DEF Talk
        <5>. QED
          BY <3>1, <1>4, <5>1, <5>2
      <4>2. w.at = "copy" /\ Len(w.src) = Len(m[2]) /\ w.msg = 2
        BY <1>6, <4>1
      <4>3. Len(w.src) = x.missing - 0
        BY <1>3, <2>1, <3>1, <4>2
      <4>. QED
        BY <1>2, <1>4, <2>1, <2>2, <3>1, <4>2, <4>3 DEF MemoryTalk
    <3>2. CASE r.msg = 2
      <4>1. w.msg = 2 /\ ws = 0
        BY <1>1, <1>5, <1>6, <1>7, <3>2
      <4>2. w.at \in {"close", "zombie"}
        BY <1>3, <1>4, <1>6, <4>1, <3>2
      <4>3. Len(w.src) = x.missing - 0
        BY <2>1, <3>2, <4>1
      <4>. QED
        BY <1>2, <1>4, <2>1, <2>2, <3>2, <4>1, <4>2, <4>3 DEF MemoryTalk
    <3>. QED
      BY <1>1, <3>1, <3>2
  <2>. QED
    BY <1>2, <1>7, <2>1, <2>3 DEF g, x
<1>8. CASE c # 0
  <2>. DEFINE x == [r EXCEPT !.at = "copy"]
  <2>1. x \in Readers /\ x.at = "copy" /\ x.msg = r.msg /\ x.missing = r.missing
    BY <1>1 DEF Readers
  <2>. HIDE DEF x
  <2>2. ~Full(x, g, w)
    BY <1>2, <1>4 DEF Full
  <2>3. Talk(x, w, a, m)
    BY <2>1 DEF Talk
  <2>4. w.msg = r.msg /\ w.at = "copy" /\ ws = c
    BY <1>1, <1>3, <1>4, <1>5, <1>6, <1>8
  <2>5. r.msg = 1 => c = 1
    <3>1. r.msg = 1 => /\ c = 1 - Len(a[1])
                       /\ Len(a[1]) \in Nat
      BY <1>1, LenProperties DEF Talk
    <3>2. ASSUME NEW l \in Nat, c = 1 - l
          PROVE  c = 1
      BY <3>2, <1>1, <1>8
    <3>. QED
      BY <3>1, <3>2
  <2>6. Len(w.src) = x.missing - 0
    BY <1>1, <2>1, <2>4
  <2>7. MemoryTalk(x, g, w, a, m)
    BY <1>2, <1>4, <1>6, <2>1, <2>2, <2>4, <2>5, <2>6 DEF MemoryTalk
  <2>. QED
    BY <1>2, <1>8, <2>1, <2>3, <2>7 DEF g, x
<1>. QED
  BY <1>7, <1>8

\* At the end of a message, or of all that comes, the parent goes on.
LEMMA EndOfMessageTalks ==
  ASSUME NEW r, NEW f, NEW p, NEW w, NEW a, NEW m, PairTypes(r, f, p, w, a, m),
         Talk(r, w, a, m), PipeTalk(r, p, w, a, m), r.at = "copy",
         r.missing = 0 \/ (p.data = <<>> /\ ~p.open)
  PROVE  LET x == AfterRead(r, a)
         IN  x \in Readers /\ Talk(x, w, a, m) /\ PipeTalk(x, p, w, a, m)
<1>. DEFINE x == AfterRead(r, a)
            ws == Len(w.src)
            l == Len(p.data)
            c == r.missing
            m2 == Len(m[2])
<1>1. /\ c \in Nat /\ r.msg \in {1, 2} /\ w.msg \in {1, 2}
      /\ w.src \in Seq(Numbers) /\ p.data \in Seq(Numbers) /\ m[2] \in Seq(Numbers)
  BY DEF PairTypes, Readers, WorkerStates, Pairs, Pipes
<1>2. ws \in Nat /\ l \in Nat /\ m2 \in Nat
  BY <1>1, LenProperties
<1>3. /\ w.msg = r.msg => l + ws = c
      /\ w.msg > r.msg => /\ c <= l /\ l - c + ws = m2
                          /\ \A k \in 1 .. l - c : p.data[c + k] = m[2][k]
      /\ w.msg < r.msg => ws = 0 /\ l = 0 /\ Len(a[2]) = 0
  BY DEF PipeTalk
<1>4. c = 0
  <2>1. CASE p.data = <<>> /\ ~p.open
    <3>1. w.at = "zombie" /\ l = 0
      BY <2>1 DEF PipeTalk
    <3>2. w.msg = 2 /\ ws = 0
      BY <3>1 DEF Talk
    <3>. QED
      BY <1>1, <1>3, <3>1, <3>2
  <2>. QED
    BY <2>1
<1>5. /\ x \in Readers /\ Talk(x, w, a, m) /\ x.msg = 2
      /\ r.msg = 1 => x.at = "copy" /\ x.missing = m2 /\ Len(a[2]) = 0
      /\ r.msg = 2 => x.at = "wait" /\ x.missing = 0
  BY <1>4, AfterReadTalks
<1>. HIDE DEF x, ws, l, c, m2
<1>6. PipeTalk(x, p, w, a, m)
  <2>1. CASE r.msg = 1 /\ w.msg = 1
    <3>1. ws = 0 /\ l = 0
      BY <1>2, <1>3, <1>4, <2>1
    <3>. QED
      BY <1>5, <2>1, <3>1 DEF PipeTalk, ws, l
  <2>2. CASE r.msg = 1 /\ w.msg = 2
    <3>1. l + ws = x.missing /\ \A k \in 1 .. l : p.data[k] = m[2][k]
      <4>1. /\ l - 0 + ws = m2
            /\ \A k \in 1 .. l - 0 : p.data[0 + k] = m[2][k]
        BY <1>3, <1>4, <2>2
      <4>2. l - 0 + ws = l + ws /\ \A k \in 1 .. l : k \in 1 .. l - 0 /\ 0 + k = k
        BY <1>2
      <4>. QED
        BY <1>5, <2>2, <4>1, <4>2
    <3>2. Len(a[2]) = 0 /\ \A k \in 1 .. l : Len(a[2]) + k = k
      BY <1>2, <1>5, <2>2
    <3>3. \A k \in 1 .. l : p.data[k] = m[2][Len(a[2]) + k]
      BY <3>1, <3>2
    <3>4. x.at \in {"copy", "wait"} /\ w.at \in {"copy", "close", "zombie"} /\ (p.open \/ w.at = "zombie")
      BY <1>5, <2>2 DEF PipeTalk
    <3>. QED
      <4>1. x.msg = 2 /\ w.msg = 2 /\ ~(w.msg > x.msg) /\ ~(w.msg < x.msg)
        BY <1>5, <2>2
      <4>2. Len(p.data) + Len(w.src) = x.missing
        BY <3>1 DEF ws, l
      <4>3. \A k \in 1 .. Len(p.data) : p.data[k] = m[x.msg][Len(a[x.msg]) + k]
        BY <3>3, <4>1 DEF l
      <4>. QED
        BY ONLY <3>4, <4>1, <4>2, <4>3 DEF PipeTalk
  <2>3. CASE r.msg = 2
    <3>1. x.missing = r.missing
      BY <1>4, <1>5, <2>3 DEF c
    <3>2. x.msg = r.msg /\ x.at \in {"copy", "wait"}
      BY <1>5, <2>3
    <3>. QED
      BY <1>1, <2>3, <3>1, <3>2 DEF PipeTalk
  <2>. QED
    BY <1>1, <2>1, <2>2, <2>3
<1>. QED
  BY <1>5, <1>6 DEF x


\* read() takes the first n numbers of what is in the pipe.
LEMMA ReadPipeTalks ==
  ASSUME NEW r, NEW f, NEW p, NEW w, NEW a, NEW m, PairTypes(r, f, p, w, a, m),
         Talk(r, w, a, m), PipeTalk(r, p, w, a, m), r.at = "copy",
         NEW n \in 1 .. r.missing, n <= Len(p.data)
  PROVE  LET s == SubSeq(p.data, 1, n)
             q == [p EXCEPT !.data = Tail1(@, n)]
             x == Having(r, "copy", Len(s))
             b == Took(r, a, s)
         IN  q \in Pipes /\ x \in Readers /\ b \in Pairs /\ Talk(x, w, b, m) /\ PipeTalk(x, q, w, b, m)
<1>. DEFINE s == SubSeq(p.data, 1, n)
            d == Tail1(p.data, n)
            q == [p EXCEPT !.data = Tail1(@, n)]
            x == Having(r, "copy", Len(s))
            b == Took(r, a, s)
            c == r.missing
            l == Len(p.data)
            ws == Len(w.src)
            al == Len(a[r.msg])
            m2 == Len(m[2])
            ql == Len(q.data)
<1>1. /\ r.msg \in {1, 2} /\ w.msg \in {1, 2} /\ c \in Nat /\ p \in Pipes /\ p.data \in Seq(Numbers)
      /\ w.src \in Seq(Numbers) /\ a[r.msg] \in Seq(Numbers) /\ m[2] \in Seq(Numbers)
  BY DEF PairTypes, Readers, WorkerStates, Pipes, Pairs
<1>2. /\ l \in Nat /\ ws \in Nat /\ al \in Nat /\ m2 \in Nat
      /\ n \in Nat /\ n > 0 /\ n <= c /\ n <= l
  BY <1>1, LenProperties
<1>3. n \in 0 .. Len(p.data)
  BY <1>2
<1>4. /\ s \in Seq(Numbers) /\ Len(s) = n /\ \A k \in 1 .. n : s[k] = p.data[k]
      /\ d \in Seq(Numbers) /\ Len(d) = l - n /\ \A k \in 1 .. l - n : d[k] = p.data[n + k]
  <2>1. s \in Seq(Numbers) /\ Len(s) = n /\ \A k \in 1 .. n : s[k] = p.data[k]
    BY <1>1, <1>3, FirstProperties
  <2>2. /\ d \in Seq(Numbers) /\ Len(d) = Len(p.data) - n
        /\ \A k \in 1 .. Len(p.data) - n : d[k] = p.data[n + k]
    BY <1>1, <1>3, Tail1Properties
  <2>. QED
    BY <2>1, <2>2
<1>5. /\ q \in Pipes /\ q.open = p.open /\ ql = l - n
      /\ \A k \in 1 .. l - n : q.data[k] = p.data[n + k]
  <2>1. q \in Pipes /\ q.data = d /\ q.open = p.open
    BY <1>1, <1>4 DEF Pipes
  <2>. HIDE DEF q, d
  <2>. QED
    BY <2>1, <1>4
<1>6. /\ w.msg = r.msg => l + ws = c /\ \A k \in 1 .. l : p.data[k] = m[r.msg][al + k]
      /\ w.msg > r.msg => /\ c <= l /\ l - c + ws = m2
                          /\ \A k \in 1 .. c : p.data[k] = m[1][Len(a[1]) + k]
                          /\ \A k \in 1 .. l - c : p.data[c + k] = m[2][k]
      /\ w.msg < r.msg => l = 0
      /\ w.at \in {"copy", "close", "zombie"} /\ (p.open \/ w.at = "zombie")
  BY DEF PipeTalk
<1>. HIDE DEF s, d, q, x, b, c, l, ws, al, m2, ql
<1>7. \A k \in 1 .. n : p.data[k] = m[r.msg][al + k]
  <2>. TAKE k \in 1 .. n
  <2>1. k \in 1 .. l /\ k \in 1 .. c
    BY <1>1, <1>2
  <2>2. CASE w.msg = r.msg
    BY <1>6, <2>1, <2>2
  <2>3. CASE w.msg > r.msg
    <3>1. r.msg = 1 /\ al = Len(a[1])
      BY <1>1, <2>3 DEF al
    <3>. QED
      BY <1>6, <2>1, <2>3, <3>1
  <2>4. CASE w.msg < r.msg
    BY <1>2, <1>6, <2>4
  <2>. QED
    BY <1>1, <2>2, <2>3, <2>4
<1>8. /\ x \in Readers /\ x.at = "copy" /\ x.msg = r.msg /\ x.missing = c - n
      /\ b \in Pairs /\ Len(b[r.msg]) = al + n /\ Talk(x, w, b, m)
  <2>1. Len(s) <= r.missing
    BY <1>2, <1>4 DEF c
  <2>2. \A k \in 1 .. Len(s) : s[k] = m[r.msg][Len(a[r.msg]) + k]
    BY <1>4, <1>7 DEF al
  <2>3. /\ x \in Readers /\ x.at = "copy" /\ x.msg = r.msg /\ x.missing = r.missing - Len(s)
        /\ b \in Pairs /\ Len(b[r.msg]) = Len(a[r.msg]) + Len(s) /\ Talk(x, w, b, m)
    <3>1. s \in Seq(Numbers) /\ "copy" \in {"copy", "unset"}
      BY <1>4
    <3>. QED
      BY <2>1, <2>2, <3>1, TakesTalks DEF x, b
  <2>. QED
    BY <1>4, <2>3 DEF c, al
<1>9. PipeTalk(x, q, w, b, m)
  <2>0. x.at \in {"copy", "wait"} /\ w.at \in {"copy", "close", "zombie"} /\ (q.open \/ w.at = "zombie")
    BY <1>5, <1>6, <1>8
  <2>1. CASE w.msg = r.msg
    <3>1. ql + ws = c - n
      BY <1>1, <1>2, <1>5, <1>6, <2>1
    <3>2. \A k \in 1 .. ql : q.data[k] = m[r.msg][(al + n) + k]
      <4>. TAKE k \in 1 .. ql
      <4>1. k \in 1 .. l - n /\ n + k \in 1 .. l /\ al + (n + k) = (al + n) + k
        BY <1>2, <1>5
      <4>. QED
        BY <1>5, <1>6, <2>1, <4>1
    <3>3. Len(q.data) + Len(w.src) = x.missing
      BY <1>8, <3>1 DEF ql, ws
    <3>4. \A k \in 1 .. Len(q.data) : q.data[k] = m[x.msg][Len(b[x.msg]) + k]
      BY <1>8, <3>2 DEF ql
    <3>5. w.msg = x.msg /\ ~(w.msg > x.msg) /\ ~(w.msg < x.msg)
      BY <1>1, <1>8, <2>1
    <3>. QED
      BY ONLY <2>0, <3>3, <3>4, <3>5 DEF PipeTalk
  <2>2. CASE w.msg > r.msg
    <3>1. /\ w.msg = 2 /\ r.msg = 1
          /\ w.msg # x.msg /\ ~(w.msg < x.msg)
      BY <1>1, <1>8, <2>2
    <3>2. c - n <= ql /\ ql - (c - n) + ws = m2
      BY <1>1, <1>2, <1>5, <1>6, <2>2
    <3>3. \A k \in 1 .. c - n : q.data[k] = m[1][(al + n) + k]
      <4>. TAKE k \in 1 .. c - n
      <4>1. k \in 1 .. l - n /\ n + k \in 1 .. c /\ al + (n + k) = (al + n) + k
        BY <1>1, <1>2, <1>6, <2>2
      <4>2. al = Len(a[1])
        BY <3>1 DEF al
      <4>. QED
        BY <1>5, <1>6, <2>2, <4>1, <4>2
    <3>4. \A k \in 1 .. ql - (c - n) : q.data[(c - n) + k] = m[2][k]
      <4>. TAKE k \in 1 .. ql - (c - n)
      <4>1. k \in 1 .. l - c /\ (c - n) + k \in 1 .. l - n /\ n + ((c - n) + k) = c + k
        BY <1>1, <1>2, <1>5, <1>6, <2>2
      <4>. QED
        BY <1>5, <1>6, <2>2, <4>1
    <3>5. /\ x.missing <= Len(q.data) /\ Len(q.data) - x.missing + Len(w.src) = Len(m[2])
          /\ \A k \in 1 .. x.missing : q.data[k] = m[1][Len(b[1]) + k]
          /\ \A k \in 1 .. Len(q.data) - x.missing : q.data[x.missing + k] = m[2][k]
      <4>1. x.missing = c - n /\ Len(b[1]) = al + n
        BY <1>8, <3>1
      <4>. QED
        BY ONLY <3>2, <3>3, <3>4, <4>1 DEF ql, ws, m2
    <3>. QED
      BY ONLY <2>0, <3>1, <3>5 DEF PipeTalk
  <2>3. CASE w.msg < r.msg
    BY <1>2, <1>6, <2>3
  <2>. QED
    BY <1>1, <2>1, <2>2, <2>3
<1>. QED
  BY <1>5, <1>8, <1>9 DEF q, x, b, s


-----------------------------------------------------------------------------
(* From the pairs to the example *)

\* A sorted sequence is as long as before.
LEMMA SortedProperties ==
  ASSUME NEW s \in Seq(Nat)
  PROVE  Sorted(s) \in Seq(Range(Sorted(s))) /\ Len(Sorted(s)) = Len(s)
<1>1. Len(s) \in Nat
  BY LenProperties
<1>. DEFINE Nth(i) ==
              CHOOSE n \in Range(s) :
                /\ Cardinality({k \in DOMAIN s : s[k] < n}) < i
                /\ Cardinality({k \in DOMAIN s : s[k] <= n}) >= i
<1>2. PICK t : t = Sorted(s)
  OBVIOUS
<1>3. t = [i \in 1 .. Len(s) |-> Nth(i)]
  BY <1>2 DEF Sorted
<1>. HIDE DEF Nth
<1>4. Range(t) = {t[i] : i \in 1 .. Len(s)}
  BY <1>3 DEF Range
<1>5. t \in [1 .. Len(s) -> Range(t)]
  BY <1>3, <1>4
<1>6. t \in Seq(Range(t)) /\ Len(t) = Len(s)
  BY <1>1, <1>5
<1>. QED
  BY <1>2, <1>6

\* The messages are one number, how many there are, and the numbers.
LEMMA MessagesTyped ==
  ASSUME handoff_input \in Seq(Seq(Nat)), NEW w \in Ids
  PROVE  /\ Messages(w) \in Pairs
         /\ Len(Messages(w)[1]) = 1 /\ Messages(w)[1][1] = Len(Messages(w)[2])
         /\ Messages(w)[2] = Sorted(handoff_input[w])
<1>. DEFINE s == Sorted(handoff_input[w])
            n == Len(handoff_input[w])
<1>1. handoff_input[w] \in Seq(Nat)
  BY LenProperties DEF Ids
<1>2. s \in Seq(Range(s)) /\ Len(s) = n /\ n \in Nat
  BY <1>1, SortedProperties, LenProperties
<1>3. Range(s) \subseteq Numbers /\ Nat \subseteq Numbers
  BY DEF Numbers
<1>. HIDE DEF s, n
<1>4. s \in Seq(Numbers) /\ <<n>> \in Seq(Numbers)
  BY <1>2, <1>3
<1>5. Messages(w) = <<<<n>>, s>>
  BY DEF Messages, s, n
<1>6. Messages(w)[1] = <<n>> /\ Messages(w)[2] = s
  BY <1>5
<1>7. Messages(w) \in [1 .. 2 -> Seq(Numbers)]
  <2>1. ASSUME NEW x \in Seq(Numbers), NEW y \in Seq(Numbers)
        PROVE  <<x, y>> \in [1 .. 2 -> Seq(Numbers)]
    BY <2>1
  <2>. QED
    BY <1>4, <1>5, <2>1
<1>. QED
  BY <1>2, <1>6, <1>7 DEF Pairs, s

\* The pieces of a pair have their types.
LEMMA PairsTyped ==
  ASSUME HandoffTypeOK, ParentInOrder, NEW w \in Ids
  PROVE  /\ PairTypes(Reader(w), mem[w], pipes[w], workers[w], arrays[w], Messages(w))
         /\ w \in Nat /\ w <= Len(handoff_input) /\ w > 0
<1>1. w \in Nat /\ w <= Len(handoff_input) /\ w > 0 /\ Len(handoff_input) \in Nat
  BY LenProperties DEF Ids, HandoffTypeOK
<1>2. Reader(w) \in Readers
  <2>1. CASE parent.w = w
    <3>1. parent.at # "end"
      BY <1>1, <2>1 DEF ParentInOrder
    <3>. QED
      BY <2>1, <3>1 DEF HandoffTypeOK, Readers, Reader
  <2>2. CASE parent.w > w
    BY <1>1, <2>2 DEF HandoffTypeOK, Readers, Reader
  <2>3. CASE parent.w < w
    BY <1>1, <2>3 DEF HandoffTypeOK, Readers, Reader
  <2>. QED
    BY <1>1, <2>1, <2>2, <2>3 DEF HandoffTypeOK
<1>3. Messages(w) \in Pairs
  BY MessagesTyped DEF HandoffTypeOK
<1>4. /\ mem[w] \in Memories /\ pipes[w] \in Pipes /\ workers[w] \in WorkerStates
      /\ arrays[w] \in Pairs
  BY DEF HandoffTypeOK
<1>. QED
  BY <1>1, <1>2, <1>3, <1>4 DEF PairTypes

\* The input stays, and with it what the messages are.
LEMMA InputStays ==
  ASSUME UNCHANGED <<channel, handoff_input>>
  PROVE  /\ Ids' = Ids /\ Numbers' = Numbers /\ (channel \in {"memory", "pipe"})' = (channel \in {"memory", "pipe"})
         /\ Memories' = Memories /\ Pipes' = Pipes /\ WorkerStates' = WorkerStates /\ Pairs' = Pairs
         /\ \A w : Messages(w)' = Messages(w)
<1>1. Ids' = Ids /\ Numbers' = Numbers /\ \A w : Messages(w)' = Messages(w)
  BY DEF Ids, Numbers, Messages
<1>. QED
  BY <1>1 DEF Memories, Pipes, WorkerStates, Pairs

\* A step of a worker that leaves its pair in order leaves all of it so.
LEMMA WorkerKeeps ==
  ASSUME HandoffInv, NEW w \in Ids, Worker,
         NEW g \in Memories, NEW q \in Pipes, NEW v \in WorkerStates,
         mem' = [mem EXCEPT ![w] = g], pipes' = [pipes EXCEPT ![w] = q],
         workers' = [workers EXCEPT ![w] = v],
         PairTalks(Reader(w), g, q, v, arrays[w], Messages(w))
  PROVE  HandoffInv'
<1>1. UNCHANGED <<channel, handoff_input, arrays, parent, reaped, total_array>>
  BY DEF Worker
<1>2. /\ Ids' = Ids /\ Memories' = Memories /\ Pipes' = Pipes /\ WorkerStates' = WorkerStates
      /\ Pairs' = Pairs /\ \A u : Messages(u)' = Messages(u)
  BY <1>1, InputStays
<1>3. HandoffTypeOK'
  BY <1>1, <1>2 DEF HandoffInv, HandoffTypeOK
<1>4. ParentInOrder'
  BY <1>1, <1>2 DEF HandoffInv, ParentInOrder
<1>5. PairsTalk'
  <2>. SUFFICES ASSUME NEW u \in Ids
                PROVE  PairTalks(Reader(u), mem[u], pipes[u], workers[u], arrays[u], Messages(u))'
    BY <1>2 DEF PairsTalk
  <2>1. /\ Reader(u)' = Reader(u) /\ arrays[u]' = arrays[u] /\ Messages(u)' = Messages(u)
        /\ channel' = channel
    BY <1>1, <1>2 DEF Reader
  <2>2. CASE u = w
    <3>1. mem[u]' = g /\ pipes[u]' = q /\ workers[u]' = v
      BY <2>2 DEF HandoffInv, HandoffTypeOK
    <3>. QED
      BY <2>1, <2>2, <3>1 DEF PairTalks
  <2>3. CASE u # w
    <3>1. mem[u]' = mem[u] /\ pipes[u]' = pipes[u] /\ workers[u]' = workers[u]
      BY <2>3 DEF HandoffInv, HandoffTypeOK
    <3>2. PairTalks(Reader(u), mem[u], pipes[u], workers[u], arrays[u], Messages(u))
      BY DEF HandoffInv, PairsTalk
    <3>. QED
      BY <2>1, <3>1, <3>2 DEF PairTalks
  <2>. QED
    BY <2>2, <2>3
<1>. QED
  BY <1>3, <1>4, <1>5 DEF HandoffInv


\* A step of the parent that leaves the pair it reads from in order leaves
\* all of it so.
LEMMA ParentKeeps ==
  ASSUME HandoffInv, Parent, UNCHANGED <<reaped, total_array>>, parent.w \in Ids,
         NEW x \in Readers, NEW g \in Memories, NEW q \in Pipes, NEW b \in Pairs,
         parent' = [parent EXCEPT !.at = x.at, !.msg = x.msg, !.missing = x.missing],
         mem' = [mem EXCEPT ![parent.w] = g], pipes' = [pipes EXCEPT ![parent.w] = q],
         arrays' = [arrays EXCEPT ![parent.w] = b],
         PairTalks(x, g, q, workers[parent.w], b, Messages(parent.w))
  PROVE  HandoffInv'
<1>1. UNCHANGED <<channel, handoff_input, workers, total_array>>
  BY DEF Parent
<1>2. /\ Ids' = Ids /\ Memories' = Memories /\ Pipes' = Pipes /\ WorkerStates' = WorkerStates
      /\ Pairs' = Pairs /\ \A u : Messages(u)' = Messages(u)
  BY <1>1, InputStays
<1>3. /\ x.at \in {"copy", "unset", "set", "wait"} /\ x.msg \in {1, 2} /\ x.missing \in Nat
      /\ x = [at |-> x.at, msg |-> x.msg, missing |-> x.missing]
  BY DEF Readers
<1>4. /\ parent'.at = x.at /\ parent'.msg = x.msg /\ parent'.missing = x.missing
      /\ parent'.w = parent.w /\ parent.w \in Nat \ {0}
      /\ parent' \in [at : {"copy", "unset", "set", "wait", "end"}, w : Nat \ {0}, msg : {1, 2}, missing : Nat]
  BY <1>3 DEF HandoffInv, HandoffTypeOK
<1>5. HandoffTypeOK'
  <2>1. mem' \in [Ids -> Memories] /\ pipes' \in [Ids -> Pipes] /\ arrays' \in [Ids -> Pairs]
    BY DEF HandoffInv, HandoffTypeOK
  <2>. QED
    BY <1>1, <1>2, <1>4, <2>1 DEF HandoffInv, HandoffTypeOK
<1>6. parent.w <= Len(handoff_input) /\ Len(handoff_input) \in Nat
  <2>1. handoff_input \in Seq(Seq(Nat))
    BY DEF HandoffInv, HandoffTypeOK
  <2>. QED
    BY <2>1, PairsTyped, LenProperties DEF HandoffInv
<1>7. ParentInOrder'
  <2>1. parent'.at # "end" /\ handoff_input' = handoff_input
    BY <1>1, <1>3, <1>4
  <2>2. parent'.w <= Len(handoff_input) + 1 /\ parent'.w # Len(handoff_input) + 1
    BY <1>4, <1>6
  <2>. QED
    BY <2>1, <2>2 DEF ParentInOrder
<1>8. PairsTalk'
  <2>. SUFFICES ASSUME NEW u \in Ids
                PROVE  PairTalks(Reader(u), mem[u], pipes[u], workers[u], arrays[u], Messages(u))'
    BY <1>2 DEF PairsTalk
  <2>1. workers[u]' = workers[u] /\ Messages(u)' = Messages(u) /\ channel' = channel
    BY <1>1, <1>2
  <2>2. CASE u = parent.w
    <3>1. mem[u]' = g /\ pipes[u]' = q /\ arrays[u]' = b
      BY <2>2 DEF HandoffInv, HandoffTypeOK
    <3>2. Reader(u)' = x
      BY <1>3, <1>4, <2>2 DEF Reader
    <3>. QED
      BY <2>1, <2>2, <3>1, <3>2 DEF PairTalks
  <2>3. CASE u # parent.w
    <3>1. mem[u]' = mem[u] /\ pipes[u]' = pipes[u] /\ arrays[u]' = arrays[u]
      BY <2>3 DEF HandoffInv, HandoffTypeOK
    <3>2. Reader(u)' = Reader(u)
      <4>1. u \in Nat
        BY PairsTyped DEF HandoffInv
      <4>2. parent.w > u \/ parent.w < u
        BY <1>4, <2>3, <4>1
      <4>. QED
        BY <1>4, <2>3, <4>1, <4>2 DEF Reader
    <3>3. PairTalks(Reader(u), mem[u], pipes[u], workers[u], arrays[u], Messages(u))
      BY DEF HandoffInv, PairsTalk
    <3>. QED
      BY <2>1, <3>1, <3>2, <3>3 DEF PairTalks
  <2>. QED
    BY <2>2, <2>3
<1>. QED
  BY <1>5, <1>7, <1>8 DEF HandoffInv

\* Each step of a worker keeps the invariant.
LEMMA WorkerStepKeeps == ASSUME HandoffInv, NEW w \in Ids, WorkerStep(w) PROVE HandoffInv'
<1>. DEFINE r == Reader(w)
            f == mem[w]
            p == pipes[w]
            v == workers[w]
            a == arrays[w]
            m == Messages(w)
<1>1. PairTypes(r, f, p, v, a, m) /\ PairTalks(r, f, p, v, a, m)
  BY PairsTyped DEF HandoffInv, PairsTalk
<1>2. /\ f \in Memories /\ p \in Pipes /\ v \in WorkerStates /\ v.msg \in {1, 2}
      /\ mem \in [Ids -> Memories] /\ pipes \in [Ids -> Pipes] /\ workers \in [Ids -> WorkerStates]
      /\ channel \in {"memory", "pipe"}
  BY DEF HandoffInv, HandoffTypeOK, WorkerStates
<1>3. Talk(r, v, a, m)
  BY <1>1 DEF PairTalks
<1>4. mem = [mem EXCEPT ![w] = f] /\ pipes = [pipes EXCEPT ![w] = p]
  BY <1>2
\* The states in which the worker waits for the flags are those of memory.
<1>5. v.at \in {"unset", "set"} => channel = "memory"
  BY <1>1, <1>2 DEF PairTalks, PipeTalk
<1>6. CASE WriteMem(w)
  <2>. DEFINE n == Fitting(Len(v.src))
              g == Copied(f, v.src, n)
              u == [v EXCEPT !.at = "unset", !.src = Tail1(@, n)]
  <2>1. v.at = "copy" /\ f.writable /\ channel = "memory" /\ Worker /\ pipes' = pipes
    BY <1>6 DEF WriteMem, WorkerIs
  <2>2. MemoryTalk(r, f, v, a, m)
    BY <1>1, <2>1 DEF PairTalks
  <2>3. g \in Memories /\ u \in WorkerStates /\ Talk(r, u, a, m) /\ MemoryTalk(r, g, u, a, m)
    BY <1>1, <1>3, <2>1, <2>2, WriteMemTalks
  <2>4. mem' = [mem EXCEPT ![w] = g]
    BY <1>6, <1>2 DEF WriteMem, Copied
  <2>5. workers' = [workers EXCEPT ![w] = u]
    BY <1>6, <1>2 DEF WriteMem
  <2>. HIDE DEF g, u
  <2>6. PairTalks(r, g, p, u, a, m)
    BY <2>1, <2>3 DEF PairTalks
  <2>. QED
    BY <1>2, <1>4, <2>1, <2>3, <2>4, <2>5, <2>6, WorkerKeeps
<1>7. CASE UnsetWritable(w)
  <2>. DEFINE g == [f EXCEPT !.writable = FALSE]
              u == [v EXCEPT !.at = "set"]
  <2>1. v.at = "unset" /\ channel = "memory" /\ Worker /\ pipes' = pipes
    BY <1>5, <1>7 DEF UnsetWritable, WorkerIs
  <2>2. MemoryTalk(r, f, v, a, m)
    BY <1>1, <2>1 DEF PairTalks
  <2>3. g \in Memories /\ u \in WorkerStates /\ Talk(r, u, a, m) /\ MemoryTalk(r, g, u, a, m)
    BY <1>1, <1>3, <2>1, <2>2, UnsetWritableTalks
  <2>4. mem' = [mem EXCEPT ![w] = g] /\ workers' = [workers EXCEPT ![w] = u]
    BY <1>2, <1>7 DEF UnsetWritable, WorkerGoes
  <2>. HIDE DEF g, u
  <2>5. PairTalks(r, g, p, u, a, m)
    BY <2>1, <2>3 DEF PairTalks
  <2>. QED
    BY <1>2, <1>4, <2>1, <2>3, <2>4, <2>5, WorkerKeeps
<1>8. CASE SetReadable(w)
  <2>. DEFINE g == [f EXCEPT !.readable = TRUE]
              u == IF v.src = <<>> THEN AfterMessage(v, m) ELSE [v EXCEPT !.at = "copy"]
  <2>1. v.at = "set" /\ channel = "memory" /\ Worker /\ pipes' = pipes
    BY <1>5, <1>8 DEF SetReadable, WorkerIs
  <2>2. MemoryTalk(r, f, v, a, m)
    BY <1>1, <2>1 DEF PairTalks
  <2>3. g \in Memories /\ u \in WorkerStates /\ Talk(r, u, a, m) /\ MemoryTalk(r, g, u, a, m)
    BY <1>1, <1>3, <2>1, <2>2, SetReadableTalks
  <2>4. mem' = [mem EXCEPT ![w] = g]
    BY <1>2, <1>8 DEF SetReadable
  <2>5. workers' = [workers EXCEPT ![w] = u]
    BY <1>2, <1>8 DEF SetReadable, NextMessage, AfterMessage, WorkerGoes
  <2>. HIDE DEF g, u
  <2>6. PairTalks(r, g, p, u, a, m)
    BY <2>1, <2>3 DEF PairTalks
  <2>. QED
    BY <1>2, <1>4, <2>1, <2>3, <2>4, <2>5, <2>6, WorkerKeeps
<1>9. CASE WritePipe(w)
  <2>1. v.at = "copy" /\ channel = "pipe" /\ Worker /\ mem' = mem
    BY <1>9 DEF WritePipe, WorkerIs
  <2>2. PipeTalk(r, p, v, a, m)
    BY <1>1, <2>1 DEF PairTalks
  <2>3. CASE v.src = <<>>
    <3>. DEFINE u == AfterMessage(v, m)
    <3>1. u \in WorkerStates /\ Talk(r, u, a, m) /\ PipeTalk(r, p, u, a, m)
      BY <1>1, <1>3, <2>1, <2>2, <2>3, NextMessageTalks
    <3>2. workers' = [workers EXCEPT ![w] = u] /\ pipes' = pipes
      BY <1>2, <1>9, <2>3 DEF WritePipe, NextMessage, AfterMessage
    <3>. HIDE DEF u
    <3>3. PairTalks(r, f, p, u, a, m)
      BY <2>1, <3>1 DEF PairTalks
    <3>. QED
      BY <1>2, <1>4, <2>1, <3>1, <3>2, <3>3, WorkerKeeps
  <2>4. CASE v.src # <<>>
    <3>. DEFINE q == [p EXCEPT !.data = Append(@, Head(v.src))]
                u == [v EXCEPT !.src = Tail(@)]
    <3>1. q \in Pipes /\ u \in WorkerStates /\ Talk(r, u, a, m) /\ PipeTalk(r, q, u, a, m)
      BY <1>1, <1>3, <2>1, <2>2, <2>4, WritePipeTalks
    <3>2. workers' = [workers EXCEPT ![w] = u] /\ pipes' = [pipes EXCEPT ![w] = q]
      BY <1>2, <1>9, <2>4 DEF WritePipe
    <3>. HIDE DEF q, u
    <3>3. PairTalks(r, f, q, u, a, m)
      BY <2>1, <3>1 DEF PairTalks
    <3>. QED
      BY <1>2, <1>4, <2>1, <3>1, <3>2, <3>3, WorkerKeeps
  <2>. QED
    BY <2>3, <2>4
<1>10. CASE WorkerExit(w)
  <2>. DEFINE q == [p EXCEPT !.open = FALSE]
              u == [v EXCEPT !.at = "zombie"]
  <2>1. v.at = "close" /\ Worker /\ mem' = mem
    BY <1>10 DEF WorkerExit, WorkerIs
  <2>2. /\ q \in Pipes /\ u \in WorkerStates /\ Talk(r, u, a, m)
        /\ MemoryTalk(r, f, v, a, m) => MemoryTalk(r, f, u, a, m)
        /\ PipeTalk(r, p, v, a, m) => PipeTalk(r, q, u, a, m)
    BY <1>1, <1>3, <2>1, ExitTalks
  <2>3. workers' = [workers EXCEPT ![w] = u] /\ pipes' = [pipes EXCEPT ![w] = q]
    BY <1>2, <1>10 DEF WorkerExit, WorkerGoes
  <2>. HIDE DEF q, u
  <2>4. PairTalks(r, f, q, u, a, m)
    BY <1>1, <2>2 DEF PairTalks
  <2>. QED
    BY <1>2, <1>4, <2>1, <2>2, <2>3, <2>4, WorkerKeeps
<1>. QED
  BY <1>6, <1>7, <1>8, <1>9, <1>10 DEF WorkerStep


\* Each step of the parent with a worker keeps the invariant.
LEMMA ReadingKeeps ==
  ASSUME HandoffInv, ReadMem \/ UnsetReadable \/ SetWritable \/ ReadPipe
  PROVE  HandoffInv'
<1>. DEFINE w == parent.w
            r == Reader(w)
            f == mem[w]
            p == pipes[w]
            v == workers[w]
            a == arrays[w]
            m == Messages(w)
<1>1. w \in Ids /\ Parent /\ UNCHANGED <<reaped, total_array>>
  BY DEF ReadMem, UnsetReadable, SetWritable, ReadPipe, ParentIs
<1>2. PairTypes(r, f, p, v, a, m) /\ PairTalks(r, f, p, v, a, m)
  BY <1>1, PairsTyped DEF HandoffInv, PairsTalk
<1>3. /\ f \in Memories /\ p \in Pipes /\ a \in Pairs
      /\ mem \in [Ids -> Memories] /\ pipes \in [Ids -> Pipes] /\ arrays \in [Ids -> Pairs]
      /\ channel \in {"memory", "pipe"}
  BY <1>1 DEF HandoffInv, HandoffTypeOK
<1>4. Talk(r, v, a, m)
  BY <1>2 DEF PairTalks
<1>5. /\ r.at = parent.at /\ r.msg = parent.msg /\ r.missing = parent.missing
      /\ r = [at |-> parent.at, msg |-> parent.msg, missing |-> parent.missing]
      /\ r.msg \in {1, 2} /\ r \in Readers
  <2>1. r = [at |-> parent.at, msg |-> parent.msg, missing |-> parent.missing]
    BY <1>1, PairsTyped DEF Reader, HandoffInv
  <2>2. r \in Readers
    BY <1>2 DEF PairTypes
  <2>. HIDE DEF r
  <2>. QED
    BY <2>1, <2>2 DEF Readers
<1>6. /\ mem = [mem EXCEPT ![w] = f] /\ pipes = [pipes EXCEPT ![w] = p]
      /\ arrays = [arrays EXCEPT ![w] = a]
  BY <1>1, <1>3
<1>7. parent \in [at : {"copy", "unset", "set", "wait", "end"}, w : Nat \ {0}, msg : {1, 2}, missing : Nat]
  BY DEF HandoffInv, HandoffTypeOK
\* The states in which the parent waits for the flags are those of memory.
<1>8. r.at \in {"unset", "set"} => channel = "memory"
  BY <1>2, <1>3 DEF PairTalks, PipeTalk
<1>9. CASE ReadMem
  <2>. DEFINE s == SubSeq(f.buf, 1, Fitting(r.missing))
              x == Having(r, "unset", Len(s))
              b == Took(r, a, s)
  <2>1. r.at = "copy" /\ f.readable /\ channel = "memory" /\ UNCHANGED <<mem, pipes>>
    BY <1>5, <1>9 DEF ReadMem, ParentIs
  <2>2. MemoryTalk(r, f, v, a, m)
    BY <1>2, <2>1 DEF PairTalks
  <2>3. x \in Readers /\ b \in Pairs /\ Talk(x, v, b, m) /\ MemoryTalk(x, f, v, b, m)
    BY <1>2, <1>4, <2>1, <2>2, ReadMemTalks
  <2>4. Takes(s, "unset")
    BY <1>5, <1>9 DEF ReadMem
  <2>. HIDE DEF s
  <2>5. arrays' = [arrays EXCEPT ![w] = b]
    BY <1>1, <1>3, <1>5, <2>4 DEF Takes, Took
  <2>6. parent' = [parent EXCEPT !.at = x.at, !.msg = x.msg, !.missing = x.missing]
    BY <1>5, <1>7, <2>4 DEF Takes, Having, Readers
  <2>. HIDE DEF x, b
  <2>7. PairTalks(x, f, p, v, b, m)
    BY <2>1, <2>3 DEF PairTalks
  <2>. QED
    BY <1>1, <1>3, <1>6, <2>1, <2>3, <2>5, <2>6, <2>7, ParentKeeps
<1>10. CASE UnsetReadable
  <2>. DEFINE g == [f EXCEPT !.readable = FALSE]
              x == [r EXCEPT !.at = "set"]
  <2>1. r.at = "unset" /\ channel = "memory" /\ UNCHANGED <<pipes, arrays>>
    BY <1>5, <1>8, <1>10 DEF UnsetReadable, ParentIs
  <2>2. MemoryTalk(r, f, v, a, m)
    BY <1>2, <2>1 DEF PairTalks
  <2>3. g \in Memories /\ x \in Readers /\ Talk(x, v, a, m) /\ MemoryTalk(x, g, v, a, m)
    BY <1>2, <1>4, <2>1, <2>2, UnsetReadableTalks
  <2>4. mem' = [mem EXCEPT ![w] = g]
    BY <1>3, <1>10 DEF UnsetReadable, Unset
  <2>5. parent' = [parent EXCEPT !.at = x.at, !.msg = x.msg, !.missing = x.missing]
    BY <1>5, <1>7, <1>10 DEF UnsetReadable, ParentGoes, Readers
  <2>. HIDE DEF x, g
  <2>6. PairTalks(x, g, p, v, a, m)
    BY <2>1, <2>3 DEF PairTalks
  <2>. QED
    BY <1>1, <1>3, <1>6, <2>1, <2>3, <2>4, <2>5, <2>6, ParentKeeps
<1>11. CASE SetWritable
  <2>. DEFINE g == [f EXCEPT !.writable = TRUE]
              x == IF r.missing = 0 THEN AfterRead(r, a) ELSE [r EXCEPT !.at = "copy"]
  <2>1. r.at = "set" /\ channel = "memory" /\ UNCHANGED <<pipes, arrays>>
    BY <1>5, <1>8, <1>11 DEF SetWritable, ParentIs
  <2>2. MemoryTalk(r, f, v, a, m)
    BY <1>2, <2>1 DEF PairTalks
  <2>3. g \in Memories /\ x \in Readers /\ Talk(x, v, a, m) /\ MemoryTalk(x, g, v, a, m)
    BY <1>2, <1>4, <2>1, <2>2, SetWritableTalks
  <2>4. mem' = [mem EXCEPT ![w] = g]
    BY <1>3, <1>11 DEF SetWritable
  <2>5. parent' = [parent EXCEPT !.at = x.at, !.msg = x.msg, !.missing = x.missing]
    BY <1>5, <1>7, <1>11, ZenonT(40) DEF SetWritable, NextRead, AfterRead, ParentGoes, Readers
  <2>. HIDE DEF x, g
  <2>6. PairTalks(x, g, p, v, a, m)
    BY <2>1, <2>3 DEF PairTalks
  <2>. QED
    BY <1>1, <1>3, <1>6, <2>1, <2>3, <2>4, <2>5, <2>6, ParentKeeps
<1>12. CASE ReadPipe
  <2>1. r.at = "copy" /\ channel = "pipe" /\ UNCHANGED mem
    BY <1>5, <1>12 DEF ReadPipe, ParentIs
  <2>2. PipeTalk(r, p, v, a, m)
    BY <1>2, <2>1 DEF PairTalks
  <2>3. CASE r.missing = 0 \/ (p.data = <<>> /\ ~p.open)
    <3>. DEFINE x == AfterRead(r, a)
    <3>1. x \in Readers /\ Talk(x, v, a, m) /\ PipeTalk(x, p, v, a, m)
      BY <1>2, <1>4, <2>1, <2>2, <2>3, EndOfMessageTalks
    <3>2. NextRead /\ UNCHANGED <<pipes, arrays>>
      BY <1>5, <1>12, <2>3 DEF ReadPipe
    <3>3. parent' = [parent EXCEPT !.at = x.at, !.msg = x.msg, !.missing = x.missing]
      BY <1>5, <1>7, <3>2 DEF NextRead, AfterRead, Readers
    <3>. HIDE DEF x
    <3>4. PairTalks(x, f, p, v, a, m)
      BY <2>1, <3>1 DEF PairTalks
    <3>. QED
      BY <1>1, <1>3, <1>6, <2>1, <3>1, <3>2, <3>3, <3>4, ParentKeeps
  <2>4. CASE ~(r.missing = 0 \/ (p.data = <<>> /\ ~p.open))
    <3>1. PICK n \in 1 .. r.missing :
            /\ n <= Len(p.data)
            /\ Takes(SubSeq(p.data, 1, n), "copy")
            /\ pipes' = [pipes EXCEPT ![w].data = Tail1(@, n)]
      BY <1>5, <1>12, <2>4 DEF ReadPipe
    <3>. DEFINE s == SubSeq(p.data, 1, n)
                q == [p EXCEPT !.data = Tail1(@, n)]
                x == Having(r, "copy", Len(s))
                b == Took(r, a, s)
    <3>2. q \in Pipes /\ x \in Readers /\ b \in Pairs /\ Talk(x, v, b, m) /\ PipeTalk(x, q, v, b, m)
      BY <1>2, <1>4, <2>1, <2>2, <3>1, ReadPipeTalks
    <3>3. pipes' = [pipes EXCEPT ![w] = q]
      BY <1>1, <1>3, <3>1
    <3>4. Takes(s, "copy")
      BY <3>1
    <3>. HIDE DEF s, q
    <3>5. arrays' = [arrays EXCEPT ![w] = b]
      BY <1>1, <1>3, <1>5, <3>4 DEF Takes, Took
    <3>6. parent' = [parent EXCEPT !.at = x.at, !.msg = x.msg, !.missing = x.missing]
      BY <1>5, <1>7, <3>4 DEF Takes, Having, Readers
    <3>. HIDE DEF x, b
    <3>7. PairTalks(x, f, q, v, b, m)
      BY <2>1, <3>2 DEF PairTalks
    <3>. QED
      BY <1>1, <1>3, <1>6, <2>1, <3>2, <3>3, <3>5, <3>6, <3>7, ParentKeeps
  <2>. QED
    BY <2>3, <2>4
<1>. QED
  BY <1>9, <1>10, <1>11, <1>12


\* A step that changes none of the pairs keeps them in order.
LEMMA PairsStay ==
  ASSUME HandoffInv, UNCHANGED <<channel, handoff_input, mem, pipes, workers, arrays>>,
         \A w \in Ids : Reader(w)' = Reader(w), parent'.w \in Nat \ {0},
         parent' \in [at : {"copy", "unset", "set", "wait", "end"}, w : Nat \ {0}, msg : {1, 2}, missing : Nat]
  PROVE  HandoffTypeOK' /\ PairsTalk'
<1>1. /\ Ids' = Ids /\ Memories' = Memories /\ Pipes' = Pipes /\ WorkerStates' = WorkerStates
      /\ Pairs' = Pairs /\ \A u : Messages(u)' = Messages(u)
  BY InputStays
<1>2. HandoffTypeOK'
  BY <1>1 DEF HandoffInv, HandoffTypeOK
<1>3. PairsTalk'
  <2>. SUFFICES ASSUME NEW u \in Ids
                PROVE  PairTalks(Reader(u), mem[u], pipes[u], workers[u], arrays[u], Messages(u))'
    BY <1>1 DEF PairsTalk
  <2>1. /\ Reader(u)' = Reader(u) /\ mem[u]' = mem[u] /\ pipes[u]' = pipes[u] /\ channel' = channel
        /\ workers[u]' = workers[u] /\ arrays[u]' = arrays[u] /\ Messages(u)' = Messages(u)
    BY <1>1
  <2>2. PairTalks(Reader(u), mem[u], pipes[u], workers[u], arrays[u], Messages(u))
    BY DEF HandoffInv, PairsTalk
  <2>. QED
    BY <2>1, <2>2 DEF PairTalks
<1>. QED
  BY <1>2, <1>3

\* wait() ends the reading from one worker; the next is read from its start.
LEMMA WaitWorkerKeeps == ASSUME HandoffInv, WaitWorker PROVE HandoffInv'
<1>1. /\ parent.at = "wait" /\ parent.w \in Ids
      /\ parent' = [at |-> "copy", w |-> parent.w + 1, msg |-> 1, missing |-> 1]
      /\ UNCHANGED <<channel, handoff_input, mem, pipes, workers, arrays, total_array>>
  BY DEF WaitWorker, ParentIs, Parent
<1>2. Len(handoff_input) \in Nat
  BY LenProperties DEF HandoffInv, HandoffTypeOK
<1>3. parent.w \in Nat /\ parent.w > 0 /\ parent.w <= Len(handoff_input)
  BY <1>1, PairsTyped DEF HandoffInv
<1>4. /\ parent'.at = "copy" /\ parent'.w = parent.w + 1 /\ parent'.msg = 1 /\ parent'.missing = 1
      /\ parent'.w \in Nat \ {0}
      /\ parent' \in [at : {"copy", "unset", "set", "wait", "end"}, w : Nat \ {0}, msg : {1, 2}, missing : Nat]
  BY <1>1, <1>3
<1>5. ASSUME NEW w \in Ids
      PROVE  Reader(w)' = Reader(w)
  <2>1. w \in Nat
    BY PairsTyped DEF HandoffInv
  <2>2. CASE w = parent.w
    <3>1. Reader(w) = [at |-> "wait", msg |-> parent.msg, missing |-> parent.missing]
      BY <1>1, <1>3, <2>2 DEF Reader
    <3>2. parent.msg = 2 /\ parent.missing = 0
      <4>1. Talk(Reader(w), workers[w], arrays[w], Messages(w))
        BY DEF HandoffInv, PairsTalk, PairTalks
      <4>. QED
        BY <3>1, <4>1 DEF Talk
    <3>3. parent'.w > w /\ ~(parent'.w = w) /\ ~(parent'.w < w)
      BY <1>3, <1>4, <2>2
    <3>4. Reader(w)' = [at |-> "wait", msg |-> 2, missing |-> 0]
      BY <3>3 DEF Reader
    <3>. QED
      BY <3>1, <3>2, <3>4
  <2>3. CASE w = parent.w + 1
    <3>1. parent.w < w /\ ~(parent.w = w) /\ ~(parent.w > w)
      BY <1>3, <2>3
    <3>2. parent'.w = w /\ ~(parent'.w < w) /\ ~(parent'.w > w)
      BY <1>3, <1>4, <2>3
    <3>3. Reader(w) = [at |-> "copy", msg |-> 1, missing |-> 1]
      BY <3>1 DEF Reader
    <3>4. Reader(w)' = [at |-> "copy", msg |-> 1, missing |-> 1]
      BY <1>4, <3>2 DEF Reader
    <3>. QED
      BY <3>3, <3>4
  <2>4. CASE w < parent.w
    <3>1. parent.w > w /\ ~(parent.w = w) /\ ~(parent.w < w)
      BY <1>3, <2>1, <2>4
    <3>2. parent'.w > w /\ ~(parent'.w = w) /\ ~(parent'.w < w)
      BY <1>3, <1>4, <2>1, <2>4
    <3>3. Reader(w) = [at |-> "wait", msg |-> 2, missing |-> 0]
      BY <3>1 DEF Reader
    <3>4. Reader(w)' = [at |-> "wait", msg |-> 2, missing |-> 0]
      BY <3>2 DEF Reader
    <3>. QED
      BY <3>3, <3>4
  <2>5. CASE w > parent.w + 1
    <3>1. parent.w < w /\ ~(parent.w = w) /\ ~(parent.w > w)
      BY <1>3, <2>1, <2>5
    <3>2. parent'.w < w /\ ~(parent'.w = w) /\ ~(parent'.w > w)
      BY <1>3, <1>4, <2>1, <2>5
    <3>3. Reader(w) = [at |-> "copy", msg |-> 1, missing |-> 1]
      BY <3>1 DEF Reader
    <3>4. Reader(w)' = [at |-> "copy", msg |-> 1, missing |-> 1]
      BY <3>2 DEF Reader
    <3>. QED
      BY <3>3, <3>4
  <2>. QED
    BY <1>3, <2>1, <2>2, <2>3, <2>4, <2>5
<1>6. HandoffTypeOK' /\ PairsTalk'
  BY <1>1, <1>4, <1>5, PairsStay
<1>7. ParentInOrder'
  <2>1. parent'.w <= Len(handoff_input) + 1 /\ handoff_input' = handoff_input
    BY <1>1, <1>2, <1>3, <1>4
  <2>. QED
    BY <1>4, <2>1 DEF ParentInOrder
<1>. QED
  BY <1>6, <1>7 DEF HandoffInv

\* When all workers have been read the arrays are the sorted files.
LEMMA AllRead ==
  ASSUME HandoffInv, parent.w = Len(handoff_input) + 1, NEW w \in Ids
  PROVE  arrays[w][2] = Sorted(handoff_input[w])
<1>. DEFINE m == Messages(w)
            a == arrays[w]
<1>1. Len(handoff_input) \in Nat
  BY LenProperties DEF HandoffInv, HandoffTypeOK
<1>2. w \in Nat /\ w <= Len(handoff_input)
  BY PairsTyped DEF HandoffInv
<1>3. parent.w > w /\ ~(parent.w = w) /\ ~(parent.w < w)
  BY <1>1, <1>2
<1>4. Reader(w) = [at |-> "wait", msg |-> 2, missing |-> 0]
  BY <1>3 DEF Reader
<1>5. Talk(Reader(w), workers[w], a, m)
  BY DEF HandoffInv, PairsTalk, PairTalks
<1>6. a[2] \in Seq(Numbers) /\ m[2] \in Seq(Numbers) /\ m[2] = Sorted(handoff_input[w])
  BY MessagesTyped DEF HandoffInv, HandoffTypeOK, Pairs
<1>7. Starts(a[2], m[2]) /\ 0 = Len(m[2]) - Len(a[2])
  BY <1>4, <1>5 DEF Talk
<1>8. Len(a[2]) = Len(m[2])
  <2>1. ASSUME NEW x \in Nat, NEW y \in Nat, 0 = x - y
        PROVE  y = x
    BY <2>1
  <2>. QED
    BY <1>6, <1>7, <2>1, LenProperties
<1>9. \A k \in 1 .. Len(a[2]) : a[2][k] = m[2][k]
  BY <1>7 DEF Starts
<1>10. a[2] = m[2]
  BY <1>6, <1>8, <1>9, SeqEqual
<1>. QED
  BY <1>6, <1>10

\* What is concatenated is therefore what it should be.
LEMMA ConcatenateKeeps == ASSUME HandoffInv, Concatenate PROVE HandoffInv'
<1>1. /\ parent.at = "copy" /\ parent.w = Len(handoff_input) + 1
      /\ total_array' = FlattenSeq([w \in Ids |-> arrays[w][2]])
      /\ parent' = [parent EXCEPT !.at = "end"]
      /\ UNCHANGED <<channel, handoff_input, mem, pipes, workers, arrays>>
  BY DEF Concatenate, ParentGoes, Parent
<1>2. Len(handoff_input) \in Nat
  BY LenProperties DEF HandoffInv, HandoffTypeOK
<1>3. /\ parent'.w = parent.w /\ parent'.msg = parent.msg /\ parent'.at = "end"
      /\ parent'.w \in Nat \ {0}
      /\ parent' \in [at : {"copy", "unset", "set", "wait", "end"}, w : Nat \ {0}, msg : {1, 2}, missing : Nat]
  BY <1>1 DEF HandoffInv, HandoffTypeOK
<1>4. ASSUME NEW w \in Ids
      PROVE  Reader(w)' = Reader(w)
  <2>1. w \in Nat /\ w <= Len(handoff_input)
    BY PairsTyped DEF HandoffInv
  <2>2. parent.w > w /\ ~(parent.w = w) /\ ~(parent.w < w)
    BY <1>1, <1>2, <2>1
  <2>3. Reader(w) = [at |-> "wait", msg |-> 2, missing |-> 0]
    BY <2>2 DEF Reader
  <2>4. Reader(w)' = [at |-> "wait", msg |-> 2, missing |-> 0]
    BY <1>3, <2>2 DEF Reader
  <2>. QED
    BY <2>3, <2>4
<1>5. HandoffTypeOK' /\ PairsTalk'
  BY <1>1, <1>3, <1>4, PairsStay
<1>6. [w \in Ids |-> arrays[w][2]] = [w \in Ids |-> Sorted(handoff_input[w])]
  BY <1>1, AllRead
<1>7. total_array' = FlattenSeq([w \in Ids |-> Sorted(handoff_input[w])])'
  <2>1. [w \in Ids |-> Sorted(handoff_input[w])]' = [w \in Ids |-> Sorted(handoff_input[w])]
    BY <1>1 DEF Ids
  <2>2. total_array' = FlattenSeq([w \in Ids |-> Sorted(handoff_input[w])])
    BY <1>1, <1>6
  <2>. QED
    BY <2>1, <2>2
<1>8. ParentInOrder'
  BY <1>1, <1>2, <1>3, <1>7 DEF HandoffInv, ParentInOrder
<1>. QED
  BY <1>5, <1>8 DEF HandoffInv


\* In the beginning the first message is to be read and to be sent.
LEMMA HandoffInitially == HandoffInit => HandoffInv
<1>. SUFFICES ASSUME HandoffInit PROVE HandoffInv
  OBVIOUS
<1>1. /\ channel \in {"memory", "pipe"} /\ handoff_input \in Seq(Seq(Nat))
      /\ mem = [w \in Ids |-> [readable |-> FALSE, writable |-> TRUE, buf |-> [k \in 1 .. ROOM |-> 0]]]
      /\ pipes = [w \in Ids |-> [data |-> <<>>, open |-> TRUE]]
      /\ workers = [w \in Ids |-> [at |-> "copy", msg |-> 1, src |-> Messages(w)[1]]]
      /\ arrays = [w \in Ids |-> <<<<>>, <<>>>>]
      /\ parent = [at |-> "copy", w |-> 1, msg |-> 1, missing |-> 1]
  BY HandoffAssumption DEF HandoffInit
<1>2. Len(handoff_input) \in Nat
  BY <1>1, LenProperties
<1>3. \A w \in Ids : /\ Messages(w) \in Pairs /\ Messages(w)[1] \in Seq(Numbers)
                     /\ Len(Messages(w)[1]) = 1 /\ Messages(w)[1][1] = Len(Messages(w)[2])
                     /\ Len(Messages(w)[2]) \in Nat
  BY <1>1, MessagesTyped, LenProperties DEF Pairs
<1>4. <<<<>>, <<>>>> \in Pairs
  <2>1. ASSUME NEW x \in Seq(Numbers), NEW y \in Seq(Numbers)
        PROVE  <<x, y>> \in [1 .. 2 -> Seq(Numbers)]
    BY <2>1
  <2>2. <<>> \in Seq(Numbers)
    OBVIOUS
  <2>. QED
    BY <2>1, <2>2 DEF Pairs
<1>5. HandoffTypeOK
  <2>1. mem \in [Ids -> Memories]
    <3>1. 0 \in Numbers
      BY DEF Numbers
    <3>2. [readable |-> FALSE, writable |-> TRUE, buf |-> [k \in 1 .. ROOM |-> 0]] \in Memories
      BY <3>1 DEF Memories
    <3>. QED
      BY <1>1, <3>2
  <2>2. pipes \in [Ids -> Pipes]
    <3>1. [data |-> <<>>, open |-> TRUE] \in Pipes
      BY DEF Pipes
    <3>. QED
      BY <1>1, <3>1
  <2>3. workers \in [Ids -> WorkerStates]
    <3>1. \A w \in Ids : [at |-> "copy", msg |-> 1, src |-> Messages(w)[1]] \in WorkerStates
      BY <1>3 DEF WorkerStates
    <3>. QED
      BY <1>1, <3>1
  <2>4. arrays \in [Ids -> Pairs]
    BY <1>1, <1>4
  <2>5. parent \in [at : {"copy", "unset", "set", "wait", "end"}, w : Nat \ {0}, msg : {1, 2}, missing : Nat]
    BY <1>1
  <2>. QED
    BY ONLY <1>1, <2>1, <2>2, <2>3, <2>4, <2>5 DEF HandoffTypeOK
<1>6. ParentInOrder
  BY <1>1, <1>2 DEF ParentInOrder
<1>7. PairsTalk
  <2>. SUFFICES ASSUME NEW w \in Ids
                PROVE  PairTalks(Reader(w), mem[w], pipes[w], workers[w], arrays[w], Messages(w))
    BY DEF PairsTalk
  <2>. DEFINE r == Reader(w)
              f == mem[w]
              p == pipes[w]
              v == workers[w]
              a == arrays[w]
              m == Messages(w)
  <2>1. r = [at |-> "copy", msg |-> 1, missing |-> 1]
    <3>1. w \in Nat /\ w > 0
      BY <1>5, <1>6, PairsTyped
    <3>2. CASE w = 1
      BY <1>1, <3>2 DEF Reader
    <3>3. CASE w > 1
      <4>1. parent.w = 1 /\ ~(1 = w) /\ ~(1 > w) /\ 1 < w
        BY <1>1, <3>1, <3>3
      <4>. QED
        BY <4>1 DEF Reader
    <3>. QED
      BY <3>1, <3>2, <3>3
  <2>2. r.at = "copy" /\ r.msg = 1 /\ r.missing = 1
    BY <2>1
  <2>3. /\ ~f.readable /\ f.writable /\ p.open /\ p.data = <<>>
        /\ v.at = "copy" /\ v.msg = 1 /\ v.src = m[1]
        /\ a[1] = <<>> /\ a[2] = <<>>
    BY <1>1
  <2>4. /\ Len(m[1]) = 1 /\ m[1][1] = Len(m[2]) /\ Len(m[2]) \in Nat
        /\ m[1] \in Seq(Numbers)
    BY <1>3
  <2>. HIDE DEF r, f, p, v, a, m
  <2>5. Len(a[1]) = 0 /\ Len(a[2]) = 0 /\ Len(p.data) = 0 /\ Len(v.src) = 1
    BY <2>3, <2>4
  <2>6. Ends(v.src, m[v.msg])
    BY <2>3, <2>4, EndsWhole
  <2>7. Starts(a[1], m[1]) /\ Starts(a[2], m[2])
    BY <2>4, <2>5 DEF Starts
  <2>8. Talk(r, v, a, m)
    BY <2>2, <2>3, <2>4, <2>5, <2>6, <2>7 DEF Talk
  <2>9. ~Full(r, f, v)
    BY <2>3 DEF Full
  <2>10. MemoryTalk(r, f, v, a, m)
    BY <2>2, <2>3, <2>5, <2>9 DEF MemoryTalk
  <2>11. PipeTalk(r, p, v, a, m)
    BY <2>2, <2>3, <2>5 DEF PipeTalk
  <2>. QED
    BY <2>8, <2>10, <2>11 DEF PairTalks, r, f, p, v, a, m
<1>. QED
  BY <1>5, <1>6, <1>7 DEF HandoffInv

\* Every step of the example keeps the invariant.
LEMMA HandoffStep == HandoffInv /\ [HandoffNext]_handoff_vars => HandoffInv'
<1>. SUFFICES ASSUME HandoffInv, [HandoffNext]_handoff_vars PROVE HandoffInv'
  OBVIOUS
<1>1. CASE UNCHANGED handoff_vars
  <2>1. UNCHANGED <<channel, handoff_input, mem, pipes, workers, arrays, parent, total_array>>
    BY <1>1 DEF handoff_vars
  <2>2. /\ parent'.w \in Nat \ {0} /\ \A w \in Ids : Reader(w)' = Reader(w)
        /\ parent' \in [at : {"copy", "unset", "set", "wait", "end"}, w : Nat \ {0}, msg : {1, 2}, missing : Nat]
    BY <2>1 DEF Reader, HandoffInv, HandoffTypeOK
  <2>3. HandoffTypeOK' /\ PairsTalk'
    BY <2>1, <2>2, PairsStay
  <2>4. ParentInOrder'
    BY <2>1 DEF HandoffInv, ParentInOrder, Ids
  <2>. QED
    BY <2>3, <2>4 DEF HandoffInv
<1>2. CASE ParentStep
  BY <1>2, ReadingKeeps, WaitWorkerKeeps, ConcatenateKeeps DEF ParentStep
<1>3. CASE \E w \in Ids : WorkerStep(w)
  BY <1>3, WorkerStepKeeps
<1>. QED
  BY <1>1, <1>2, <1>3 DEF HandoffNext

\* What is the beginning of a message number by number is its prefix.
LEMMA StartsPrefix ==
  ASSUME NEW V, NEW s \in Seq(V), NEW m \in Seq(V), Starts(s, m)
  PROVE  IsPrefix(s, m)
<1>1. Len(s) \in Nat /\ Len(m) \in Nat /\ Len(s) <= Len(m)
  BY LenProperties DEF Starts
<1>2. Len(s) \in 0 .. Len(s) /\ Len(s) \in 0 .. Len(m)
  BY <1>1
<1>3. /\ SubSeq(s, 1, Len(s)) \in Seq(V) /\ Len(SubSeq(s, 1, Len(s))) = Len(s)
      /\ \A k \in 1 .. Len(s) : SubSeq(s, 1, Len(s))[k] = s[k]
  BY <1>2, FirstProperties
<1>4. /\ SubSeq(m, 1, Len(s)) \in Seq(V) /\ Len(SubSeq(m, 1, Len(s))) = Len(s)
      /\ \A k \in 1 .. Len(s) : SubSeq(m, 1, Len(s))[k] = m[k]
  BY <1>2, FirstProperties
<1>5. \A k \in 1 .. Len(s) : s[k] = m[k]
  BY DEF Starts
<1>6. SubSeq(s, 1, Len(s)) = SubSeq(m, 1, Len(s))
  <2>. DEFINE x == SubSeq(s, 1, Len(s))
              y == SubSeq(m, 1, Len(s))
  <2>1. x \in Seq(V) /\ y \in Seq(V) /\ Len(x) = Len(y)
    BY <1>3, <1>4
  <2>2. \A k \in 1 .. Len(x) : x[k] = y[k]
    BY <1>3, <1>4, <1>5
  <2>. HIDE DEF x, y
  <2>3. x = y
    BY <2>1, <2>2, SeqEqual
  <2>. QED
    BY <2>3 DEF x, y
<1>. QED
  BY <1>1, <1>6 DEF IsPrefix

\* The property is what the invariant says of the arrays.
LEMMA HandoffFromInv == HandoffInv => HandoffSound
<1>. SUFFICES ASSUME HandoffInv PROVE HandoffSound
  OBVIOUS
<1>1. ASSUME NEW w \in Ids, NEW m \in 1 .. 2
      PROVE  IsPrefix(arrays[w][m], Messages(w)[m])
  <2>1. Starts(arrays[w][1], Messages(w)[1]) /\ Starts(arrays[w][2], Messages(w)[2])
    BY DEF HandoffInv, PairsTalk, PairTalks, Talk
  <2>2. Starts(arrays[w][m], Messages(w)[m])
    BY <2>1
  <2>3. arrays[w][m] \in Seq(Numbers) /\ Messages(w)[m] \in Seq(Numbers)
    BY MessagesTyped DEF HandoffInv, HandoffTypeOK, Pairs
  <2>. QED
    BY <2>2, <2>3, StartsPrefix
<1>. QED
  BY <1>1 DEF HandoffSound, HandoffInv, ParentInOrder

\* Of any number of files of any length, and any room in the memory or the
\* pipe: what the parent has of a message is its beginning, and in the end it
\* has the sorted numbers of all files.
THEOREM HandoffCorrect == Spec => []HandoffSound
<1>1. Init => HandoffInv
  BY HandoffInitially DEF Init
<1>2. HandoffInv /\ [Next]_sync_vars => HandoffInv'
  BY StepOfOne, HandoffStep
<1>3. HandoffInv => HandoffSound
  BY HandoffFromInv
<1> QED
  BY <1>1, <1>2, <1>3, PTL DEF Spec

-----------------------------------------------------------------------------
(* Waiting for a signal *)

\* The signal is blocked until the mask is restored, and has been handled
\* once when it is.
WakeupInv ==
  /\ wait_by \in {"pause", "sigsuspend"}
  /\ received \in Nat /\ signals_sent \in Nat
  /\ wait_by = "sigsuspend" =>
       /\ wait_at # "end" => blocked
       /\ wait_at \in {"test", "suspend", "restore", "end"}
       /\ wait_at = "suspend" => received = 0
       /\ wait_at = "restore" => received = 1
       /\ wait_at # "end" => received <= 1
       /\ signals_sent > 0 => pending \/ received > 0

\* A step of a program that waits for a signal keeps the invariant.
LEMMA WakeupStep ==
  ASSUME WakeupInv, [WakeupNext]_wakeup_vars
  PROVE  WakeupInv'
<1> USE WakeupAssumption DEF WakeupInv, Then
<1>1. CASE SendSignal
  BY <1>1 DEF SendSignal
<1>2. CASE on_new_signal
  BY <1>2 DEF on_new_signal
<1>3. CASE TestReceived
  BY <1>3 DEF TestReceived
<1>4. CASE Pause
  BY <1>4 DEF Pause
<1>5. CASE TestFinished
  BY <1>5 DEF TestFinished
<1>6. CASE Sigsuspend
  BY <1>6 DEF Sigsuspend
<1>7. CASE RestoreMask
  BY <1>7 DEF RestoreMask
<1>8. CASE UNCHANGED wakeup_vars
  BY <1>8 DEF wakeup_vars
<1> QED
  BY <1>1, <1>2, <1>3, <1>4, <1>5, <1>6, <1>7, <1>8 DEF WakeupNext, WaiterRuns

(* A signal that comes between the test and sigsuspend() is not missed, and *)
(* the handler has run exactly once when the mask is restored               *)
(* (9_sigsuspend.c), however many signals come and when.                    *)
THEOREM WakeupCorrect == Spec => []WakeupSound
<1>1. Init => WakeupInv
  <2> SUFFICES ASSUME WakeupInit PROVE WakeupInv
    BY DEF Init
  <2>1. wait_by = "sigsuspend" => blocked
    BY Zenon DEF WakeupInit, BlockedBy
  <2> QED
    BY <2>1 DEF WakeupInit, WakeupInv
<1>2. WakeupInv /\ [Next]_sync_vars => WakeupInv'
  BY StepOfOne, WakeupStep
<1>3. WakeupInv => WakeupSound
  BY DEF WakeupInv, WakeupSound
<1> QED
  BY <1>1, <1>2, <1>3, PTL DEF Spec

-----------------------------------------------------------------------------
(* Condition variables *)

InsideCondvar == {w \in Waiters : wpc[w] \notin {"begin", "done"}}

\* The mutex is held by exactly who is between taking it and giving it back.
MutexHeld ==
  /\ event_lock \in Waiters \cup {MAIN_THREAD, FREE}
  /\ event_lock = MAIN_THREAD <=> signaller \in {"idle", "set", "unlock", "reset"}
  /\ \A w \in Waiters : event_lock = w <=> wpc[w] \in {"check", "leave", "done", "retry"}

\* An event is set when it has been sent and nobody has taken it.
EventsCounted ==
  /\ is_event_set => sent > taken /\ signaller \in {"unlock", "spin", "lock", "reset"}
  /\ taken <= sent
  /\ sent <= signals /\ (signaller = "set" => sent < signals) /\ signals <= MAX_SIGNALS
  /\ cv_kind = "counted" =>
       /\ signaller \in {"idle", "set", "lock", "reset"} => ~is_event_set
       /\ ~is_event_set => taken = sent
       /\ sent <= taken + 1

\* The waiter that has come after an event was set is about to take it.
EventSeen == is_event_set /\ entered => \E w \in Waiters : wpc[w] = "check"

\* The count is of those who are waiting, and one of them stays while the
\* signaller, which found it not to be zero, holds the mutex.
WaitersCounted ==
  cv_kind = "counted" =>
    /\ wait_count = Cardinality(InsideCondvar)
    /\ signaller = "set" => wait_count > 0

CondvarInv ==
  /\ cv_kind \in {"simple", "counted"}
  /\ wpc \in [Waiters -> {"begin", "try", "check", "retry", "leave", "done"}]
  /\ signaller \in {"idle", "set", "unlock", "spin", "lock", "reset"}
  /\ wait_count \in Nat /\ signals \in Nat /\ sent \in Nat /\ taken \in Nat
  /\ MutexHeld /\ EventsCounted /\ EventSeen /\ WaitersCounted

\* Those who are counted are finitely many.
LEMMA InsideFinite == IsFiniteSet(InsideCondvar) /\ Cardinality(InsideCondvar) \in Nat
<1>1. InsideCondvar \subseteq Waiters
  BY DEF InsideCondvar
<1> QED
  BY <1>1, CondvarAssumption, FS_Subset, FS_CardinalityType

\* A step of condvar_signal() keeps the invariant.
LEMMA SignallerInv ==
  ASSUME CondvarInv, SignallerStep
  PROVE  CondvarInv'
<1> DEFINE Signaller == {"idle", "set", "unlock", "spin", "lock", "reset"}
<1>1. cv_kind' = cv_kind /\ wpc' = wpc /\ wait_count' = wait_count /\ taken' = taken
  BY DEF SignallerStep, CountWaiters, SetEvent, UnlockEvent, SpinOnEvent, LockAgain, ResetEvent
<1>2. InsideCondvar' = InsideCondvar
  BY <1>1 DEF InsideCondvar
<1>3. /\ signaller' \in Signaller /\ signals' \in Nat /\ sent' \in Nat
  BY DEF CondvarInv, SignallerStep, CountWaiters, SetEvent, UnlockEvent, SpinOnEvent, LockAgain,
         ResetEvent, Signals
<1>4. MutexHeld'
  BY <1>1, CondvarAssumption
  DEF CondvarInv, MutexHeld, SignallerStep, CountWaiters, SetEvent, UnlockEvent, SpinOnEvent,
      LockAgain, ResetEvent, Signals, MAIN_THREAD, FREE
<1>5. EventsCounted'
  <2> USE <1>1, CondvarAssumption DEF CondvarInv, EventsCounted, Signals
  <2>1. CASE CountWaiters
    BY <2>1 DEF CountWaiters
  <2>2. CASE SetEvent
    BY <2>2 DEF SetEvent
  <2>3. CASE UnlockEvent
    BY <2>3 DEF UnlockEvent
  <2>4. CASE SpinOnEvent
    BY <2>4 DEF SpinOnEvent
  <2>5. CASE LockAgain
    BY <2>5 DEF LockAgain
  <2>6. CASE ResetEvent
    BY <2>6 DEF ResetEvent
  <2> QED
    BY <2>1, <2>2, <2>3, <2>4, <2>5, <2>6 DEF SignallerStep
<1>6. WaitersCounted'
  BY <1>1, <1>2
  DEF CondvarInv, WaitersCounted, SignallerStep, CountWaiters, SetEvent, UnlockEvent, SpinOnEvent,
      LockAgain, ResetEvent, Signals
<1>7. EventSeen'
  BY <1>1
  DEF CondvarInv, EventSeen, EventsCounted, SignallerStep, CountWaiters, SetEvent, UnlockEvent,
      SpinOnEvent, LockAgain, ResetEvent
<1> QED
  BY <1>1, <1>3, <1>4, <1>5, <1>6, <1>7 DEF CondvarInv

\* A step of condvar_wait() keeps the invariant.
LEMMA WaiterInv ==
  ASSUME CondvarInv, NEW w \in Waiters, WaiterStep(w)
  PROVE  CondvarInv'
<1>1. cv_kind' = cv_kind /\ signaller' = signaller /\ signals' = signals /\ sent' = sent
  BY DEF WaiterStep, BeginWait, LockEvent, CheckEvent, LeaveCount, UnlockWaiter
<1>2. wpc' \in [Waiters -> {"begin", "try", "check", "retry", "leave", "done"}]
  BY DEF CondvarInv, WaiterStep, BeginWait, LockEvent, CheckEvent, LeaveCount, UnlockWaiter, Waits
<1>3. MutexHeld'
  BY <1>1, CondvarAssumption
  DEF CondvarInv, MutexHeld, WaiterStep, BeginWait, LockEvent, CheckEvent, LeaveCount, UnlockWaiter,
      Waits, MAIN_THREAD, FREE
<1>4. taken' \in Nat /\ EventsCounted'
  <2>1. CASE CheckEvent(w) /\ is_event_set
    <3>1. ~is_event_set' /\ taken' = taken + 1
      BY <2>1, Zenon DEF CheckEvent, TakesEvent
    <3> QED
      BY <1>1, <2>1, <3>1 DEF CondvarInv, EventsCounted
  <2>2. CASE ~(CheckEvent(w) /\ is_event_set)
    <3>1. is_event_set' = is_event_set /\ taken' = taken
      BY <2>2 DEF WaiterStep, BeginWait, LockEvent, CheckEvent, LeaveCount, UnlockWaiter
    <3> QED
      BY <1>1, <3>1 DEF CondvarInv, EventsCounted
  <2> QED
    BY <2>1, <2>2
<1>5. wait_count' \in Nat /\ WaitersCounted'
  <2>1. CASE BeginWait(w)
    <3>1. InsideCondvar' = InsideCondvar \cup {w} /\ w \notin InsideCondvar
      BY <2>1 DEF BeginWait, InsideCondvar, CondvarInv, Waits
    <3>2. Cardinality(InsideCondvar') = Cardinality(InsideCondvar) + 1
      BY <3>1, InsideFinite, FS_AddElement
    <3> QED
      BY <1>1, <2>1, <3>2, InsideFinite DEF BeginWait, WaitersCounted, CondvarInv
  <2>2. CASE LeaveCount(w)
    <3>1. InsideCondvar' = InsideCondvar \ {w} /\ w \in InsideCondvar
      BY <2>2 DEF LeaveCount, InsideCondvar, CondvarInv, Waits
    <3>2. Cardinality(InsideCondvar') = Cardinality(InsideCondvar) - 1
      BY <3>1, InsideFinite, FS_RemoveElement
    <3>3. Cardinality(InsideCondvar) # 0
      BY <3>1, InsideFinite, FS_EmptySet
    <3>4. signaller # "set"
      BY <2>2, CondvarAssumption DEF LeaveCount, Waits, CondvarInv, MutexHeld, MAIN_THREAD
    <3> QED
      BY <1>1, <2>2, <3>2, <3>3, <3>4, InsideFinite DEF LeaveCount, WaitersCounted, CondvarInv
  <2>3. CASE LockEvent(w) \/ CheckEvent(w) \/ UnlockWaiter(w)
    <3>1. InsideCondvar' = InsideCondvar /\ wait_count' = wait_count
      BY <2>3 DEF LockEvent, CheckEvent, UnlockWaiter, InsideCondvar, CondvarInv, Waits
    <3> QED
      BY <1>1, <3>1 DEF WaitersCounted, CondvarInv
  <2> QED
    BY <2>1, <2>2, <2>3 DEF WaiterStep
<1>6. EventSeen'
  <2> SUFFICES ASSUME is_event_set', entered' PROVE \E u \in Waiters : wpc'[u] = "check"
    BY DEF EventSeen
  <2>1. CASE LockEvent(w)
    BY <2>1 DEF LockEvent, Waits, CondvarInv
  <2>2. CASE CheckEvent(w)
    <3>1. ~is_event_set
      BY <2>2, Zenon DEF CheckEvent, TakesEvent
    <3> QED
      BY <2>2, <3>1 DEF CheckEvent
  <2>3. CASE BeginWait(w) \/ LeaveCount(w) \/ UnlockWaiter(w)
    <3>1. is_event_set /\ entered /\ wpc[w] # "check"
      BY <2>3 DEF BeginWait, LeaveCount, UnlockWaiter, Waits
    <3>2. \A u \in Waiters : u # w => wpc'[u] = wpc[u]
      BY <2>3 DEF BeginWait, LeaveCount, UnlockWaiter, Waits, CondvarInv
    <3> QED
      BY <3>1, <3>2 DEF CondvarInv, EventSeen
  <2> QED
    BY <2>1, <2>2, <2>3 DEF WaiterStep
<1> QED
  BY <1>1, <1>2, <1>3, <1>4, <1>5, <1>6 DEF CondvarInv

\* Every step of a condition variable's users keeps the invariant.
LEMMA CondvarStep ==
  ASSUME CondvarInv, [CondvarNext]_condvar_vars
  PROVE  CondvarInv'
<1>1. CASE UNCHANGED condvar_vars
  BY <1>1 DEF condvar_vars, CondvarInv, MutexHeld, EventsCounted, EventSeen, WaitersCounted, InsideCondvar
<1> QED
  BY <1>1, SignallerInv, WaiterInv DEF CondvarNext

(* No event is taken twice; one that nobody takes is lost only when no      *)
(* waiter had the mutex since it was set (13_simple_condvar.c), and with a  *)
(* count of waiters none is lost but those for which nobody waited          *)
(* (14_condvar.c), for any number of waiters and signals.                   *)
THEOREM CondvarCorrect == Spec => []CondvarSound
<1>1. Init => CondvarInv
  <2> SUFFICES ASSUME CondvarInit PROVE CondvarInv
    BY DEF Init
  <2>1. InsideCondvar = {} /\ ~is_event_set
    BY Zenon DEF CondvarInit, InsideCondvar
  <2>2. MutexHeld
    BY CondvarAssumption DEF CondvarInit, MutexHeld, MAIN_THREAD, FREE
  <2>3. WaitersCounted
    BY <2>1, FS_EmptySet DEF CondvarInit, WaitersCounted
  <2> QED
    BY <2>1, <2>2, <2>3, CondvarAssumption DEF CondvarInit, CondvarInv, EventsCounted, EventSeen
<1>2. CondvarInv /\ [Next]_sync_vars => CondvarInv'
  BY StepOfOne, CondvarStep
<1>3. CondvarInv => CondvarSound
  BY CondvarAssumption
  DEF CondvarInv, MutexHeld, EventsCounted, EventSeen, WaitersCounted, InsideCondvar, CondvarSound
<1> QED
  BY <1>1, <1>2, <1>3, PTL DEF Spec

-----------------------------------------------------------------------------
(* Events and semaphores *)

Inside(c) == place[c] = "locked"
KilledNone == \A c \in Consumers : place[c] # "ended"

\* A message goes before its event.
Sent(i) == IF place[i] = "sent" THEN 1 ELSE 0

EventsTyped ==
  /\ sems \in [Sems -> Nat]
  /\ semadj \in [Processes -> [Sems -> Int]]
  /\ messages \in [Sources -> Nat]
  /\ place \in [Processes -> {"start", "created", "getline", "sent", "unlocked", "locked", "ended"}]
  /\ \A i \in Sources : place[i] \notin {"unlocked", "locked"}
  /\ \A c \in Consumers : place[c] \in {"unlocked", "locked", "ended"}
  /\ reading \in [Consumers -> 1 .. LOCK]

\* The semaphores have not been set to their first values.
Fresh == (\A i \in Sources : place[i] = "start") \/ (\E i \in Sources : place[i] = "created")

\* One source sets them, and until then the lock is not given.
CreatedOnce ==
  /\ \A i, k \in Sources : place[i] = "created" /\ place[k] = "created" => i = k
  /\ Fresh => sems[LOCK] = 0 /\ \A c \in Consumers : ~Inside(c)

\* What the end of a process takes back, or gives.
AdjustmentsKnown ==
  /\ \A i \in Sources : semadj[i][LOCK] = 0 /\ \A s \in Sems : semadj[i][s] <= 0
  /\ \A c \in Consumers : semadj[c][LOCK] = IF Inside(c) THEN 1 ELSE 0

LockedOnce ==
  /\ sems[LOCK] <= 1
  /\ \A c \in Consumers : Inside(c) => sems[LOCK] = 0
  /\ \A c, d \in Consumers : Inside(c) /\ Inside(d) => c = d

\* Each event, taken or not, has its message as long as it is not read.
EventsBacked ==
  KilledNone =>
    \A i \in Sources :
      /\ sems[i] + Sent(i) <= messages[i]
      /\ \A c \in Consumers : Inside(c) /\ reading[c] <= i => sems[i] + 1 + Sent(i) <= messages[i]

EventsInv == EventsTyped /\ CreatedOnce /\ AdjustmentsKnown /\ LockedOnce /\ EventsBacked

\* What the numbers of sources, semaphores and the lock are.
LEMMA SourceIsNoConsumer ==
  /\ EVENTS \in Nat \ {0} /\ LOCK \in Nat /\ LOCK \in Sems /\ LOCK \notin Sources
  /\ Sources \subseteq Sems /\ Sources \subseteq Nat
  /\ \A i \in Sources : i \in Processes /\ i \notin Consumers /\ i < LOCK
  /\ \A c \in Consumers : c \in Processes /\ c \notin Sources
BY SemEventsAssumption DEF LOCK, Sems, Sources, Processes

\* sem_get_or_create() keeps the invariant.
LEMMA CreateInv ==
  ASSUME EventsInv, NEW i \in Sources, sem_get_or_create(i)
  PROVE  EventsInv'
<1> USE SourceIsNoConsumer DEF sem_get_or_create, Moves, EventsInv, EventsTyped
<1>1. EventsTyped'
  OBVIOUS
<1>2. CreatedOnce'
  BY DEF CreatedOnce, Fresh, Inside
<1>3. AdjustmentsKnown'
  BY DEF AdjustmentsKnown, Inside
<1>4. LockedOnce'
  BY DEF LockedOnce, Inside
<1>5. EventsBacked'
  BY DEF EventsBacked, Inside, KilledNone, Sent
<1> QED
  BY <1>1, <1>2, <1>3, <1>4, <1>5

\* Setting the first values keeps the invariant: no lock is given before.
LEMMA SetAllInv ==
  ASSUME EventsInv, NEW i \in Sources, SetAll(i)
  PROVE  EventsInv'
<1> USE SourceIsNoConsumer DEF SetAll, Moves, EventsInv, EventsTyped, NONE
<1>1. EventsTyped'
  OBVIOUS
<1>2. ~Fresh' /\ \A c \in Consumers : ~Inside(c)'
  BY DEF CreatedOnce, Fresh, Inside
<1>3. CreatedOnce'
  BY <1>2 DEF CreatedOnce
<1>4. AdjustmentsKnown'
  BY <1>2 DEF AdjustmentsKnown
<1>5. LockedOnce'
  BY <1>2 DEF LockedOnce
<1>6. EventsBacked'
  BY <1>2 DEF EventsBacked, KilledNone, Sent
<1> QED
  BY <1>1, <1>3, <1>4, <1>5, <1>6

\* send_msg() keeps the invariant.
LEMMA SendInv ==
  ASSUME EventsInv, NEW i \in Sources, send_msg(i)
  PROVE  EventsInv'
<1> USE SourceIsNoConsumer DEF send_msg, Moves, EventsInv, EventsTyped
<1>1. EventsTyped'
  OBVIOUS
<1>2. CreatedOnce'
  BY DEF CreatedOnce, Fresh, Inside
<1>3. AdjustmentsKnown'
  BY DEF AdjustmentsKnown, Inside
<1>4. LockedOnce'
  BY DEF LockedOnce, Inside
<1>5. EventsBacked'
  BY DEF EventsBacked, Inside, KilledNone, Sent
<1> QED
  BY <1>1, <1>2, <1>3, <1>4, <1>5

\* sem_inc() keeps the invariant: its message is there.
LEMMA IncInv ==
  ASSUME EventsInv, NEW i \in Sources, sem_inc(i)
  PROVE  EventsInv'
<1> USE SourceIsNoConsumer DEF sem_inc, SemOp, NONE, Moves, EventsInv, EventsTyped
<1>1. EventsTyped'
  OBVIOUS
<1>2. CreatedOnce'
  BY DEF CreatedOnce, Fresh, Inside
<1>3. AdjustmentsKnown'
  BY DEF AdjustmentsKnown, Inside
<1>4. LockedOnce'
  BY DEF LockedOnce, Inside
<1>5. EventsBacked'
  BY DEF EventsBacked, Inside, KilledNone, Sent
<1> QED
  BY <1>1, <1>2, <1>3, <1>4, <1>5

\* lock_events() keeps the invariant.
LEMMA LockInv ==
  ASSUME EventsInv, NEW c \in Consumers, lock_events(c)
  PROVE  EventsInv'
<1> USE SourceIsNoConsumer DEF lock_events, SemOp, Moves, EventsInv, EventsTyped
<1>1. EventsTyped'
  OBVIOUS
<1>2. sems[LOCK] = 1 /\ sems'[LOCK] = 0 /\ \A d \in Consumers : ~Inside(d) /\ (Inside(d)' => d = c)
  BY DEF LockedOnce, Inside
<1>3. CreatedOnce'
  BY <1>2 DEF CreatedOnce, Fresh, Inside
<1>4. AdjustmentsKnown'
  BY <1>2 DEF AdjustmentsKnown, Inside
<1>5. LockedOnce'
  BY <1>2 DEF LockedOnce
<1>6. EventsBacked'
  BY <1>2 DEF EventsBacked, KilledNone, Sent
<1> QED
  BY <1>1, <1>3, <1>4, <1>5, <1>6

\* Reading a message keeps the invariant.
LEMMA RecvInv ==
  ASSUME EventsInv, NEW c \in Consumers, recv_msg(c)
  PROVE  EventsInv'
<1> USE SourceIsNoConsumer DEF recv_msg, EventsInv, EventsTyped
<1>1. EventsTyped'
  <2>1. reading[c] + 1 \in 1 .. LOCK
    BY ONLY reading[c] \in Sources, SemEventsAssumption DEF Sources, LOCK, recv_msg
  <2>2. messages[reading[c]] - 1 \in Nat
    OBVIOUS
  <2> QED
    BY <2>1, <2>2
<1>2. CreatedOnce'
  BY DEF CreatedOnce, Fresh, Inside
<1>3. AdjustmentsKnown'
  BY DEF AdjustmentsKnown, Inside
<1>4. LockedOnce'
  BY DEF LockedOnce, Inside
<1>5. EventsBacked'
  BY SMTT(30) DEF EventsBacked, LockedOnce, Inside, KilledNone, Sent
<1> QED
  BY <1>1, <1>2, <1>3, <1>4, <1>5

\* unlock_events() keeps the invariant.
LEMMA UnlockInv ==
  ASSUME EventsInv, NEW c \in Consumers, unlock_events(c)
  PROVE  EventsInv'
<1> USE SourceIsNoConsumer DEF unlock_events, SemOp, NONE, Moves, EventsInv, EventsTyped
<1>1. EventsTyped'
  OBVIOUS
<1>2. sems'[LOCK] = 1 /\ ~Fresh /\ \A d \in Consumers : ~Inside(d)'
  BY DEF LockedOnce, CreatedOnce, Inside
<1>3. CreatedOnce'
  BY <1>2 DEF CreatedOnce, Fresh
<1>4. AdjustmentsKnown'
  <2>1. semadj[c][LOCK] = 1 /\ semadj'[c][LOCK] = 0
    BY DEF AdjustmentsKnown, Inside
  <2>2. \A q \in Processes \ {c} : semadj'[q] = semadj[q] /\ (Inside(q)' <=> Inside(q))
    BY DEF Inside
  <2> QED
    BY <1>2, <2>1, <2>2, ZenonT(40) DEF AdjustmentsKnown
<1>5. LockedOnce'
  BY <1>2 DEF LockedOnce
<1>6. EventsBacked'
  BY <1>2 DEF EventsBacked, KilledNone, Sent
<1> QED
  BY <1>1, <1>3, <1>4, <1>5, <1>6

\* The end of a process, with what the kernel undoes, keeps the invariant.
LEMMA EndInv ==
  ASSUME EventsInv, NEW p \in Processes, End(p)
  PROVE  EventsInv'
<1> USE SourceIsNoConsumer DEF End, EventsInv, EventsTyped
<1>1. EventsTyped'
  BY DEF Undone, NONE
<1>2. CASE p \in Sources
  <2>1. \A s \in Sems : sems'[s] <= sems[s]
    BY <1>2 DEF Undone, AdjustmentsKnown
  <2>2. sems'[LOCK] = sems[LOCK] /\ \A c \in Consumers : place'[c] = place[c]
    BY <1>2 DEF Undone, AdjustmentsKnown
  <2>3. CreatedOnce'
    BY <1>2, <2>2 DEF CreatedOnce, Fresh, Inside
  <2>4. AdjustmentsKnown'
    BY <1>2, <2>2 DEF AdjustmentsKnown, Inside, NONE
  <2>5. LockedOnce'
    BY <2>2 DEF LockedOnce, Inside
  <2>6. EventsBacked'
    BY <1>1, <2>1, <2>2 DEF EventsBacked, Inside, KilledNone, Sent
  <2> QED
    BY <1>1, <2>3, <2>4, <2>5, <2>6
<1>3. CASE p \in Consumers
  <2>1. sems'[LOCK] = sems[LOCK] + (IF Inside(p) THEN 1 ELSE 0)
    BY <1>3 DEF Undone, AdjustmentsKnown
  <2>2. ~Inside(p)' /\ \A q \in Processes \ {p} : place'[q] = place[q] /\ semadj'[q] = semadj[q]
    BY DEF Inside
  <2>3. CreatedOnce'
    BY <1>3, <2>1, <2>2 DEF CreatedOnce, Fresh, Inside
  <2>4. AdjustmentsKnown'
    BY <1>3, <2>2 DEF AdjustmentsKnown, Inside, NONE
  <2>5. LockedOnce'
    BY <1>3, <2>1, <2>2 DEF LockedOnce, Inside
  <2>6. ~KilledNone'
    BY <1>3 DEF KilledNone
  <2> QED
    BY <1>1, <2>3, <2>4, <2>5, <2>6 DEF EventsBacked
<1> QED
  BY <1>2, <1>3 DEF Processes

\* Every step of sources and consumers keeps the invariant.
LEMMA EventsStep ==
  ASSUME EventsInv, [EventsNext]_events_vars
  PROVE  EventsInv'
<1>1. CASE UNCHANGED events_vars
  BY <1>1 DEF events_vars, EventsInv, EventsTyped, CreatedOnce, Fresh, Inside, AdjustmentsKnown,
              LockedOnce, EventsBacked, KilledNone, Sent
<1>2. CASE EventsNext
  BY <1>2, CreateInv, SetAllInv, SendInv, IncInv, LockInv, RecvInv, UnlockInv, EndInv DEF EventsNext
<1> QED
  BY <1>1, <1>2

(* One consumer at most is between lock_events() and unlock_events(), and   *)
(* while none was killed there is a message for each event it has taken     *)
(* (9_sem_event_source.c, 9_sem_event_cons.c), for any number of sources    *)
(* and consumers, wherever one of them ends.                                *)
THEOREM EventsCorrect == Spec => []EventsSound
<1>1. Init => EventsInv
  <2> SUFFICES ASSUME EventsInit PROVE EventsInv
    BY DEF Init
  <2> USE SourceIsNoConsumer DEF EventsInit, NONE
  <2>1. EventsTyped
    BY DEF EventsTyped, LOCK
  <2>2. CreatedOnce /\ LockedOnce
    BY <2>1 DEF EventsTyped, CreatedOnce, LockedOnce, Inside
  <2>3. AdjustmentsKnown
    BY DEF AdjustmentsKnown, Inside
  <2>4. EventsBacked
    BY DEF EventsBacked, Inside, Sent
  <2> QED
    BY <2>1, <2>2, <2>3, <2>4 DEF EventsInv
<1>2. EventsInv /\ [Next]_sync_vars => EventsInv'
  BY StepOfOne, EventsStep
<1>3. EventsInv => EventsSound
  <2> SUFFICES ASSUME EventsInv PROVE EventsSound
    OBVIOUS
  <2> DEFINE inside == {c \in Consumers : place[c] = "locked"}
             due(i) == Cardinality({c \in inside : reading[c] <= i})
  <2>1. CASE inside = {}
    <3>1. Cardinality(inside) = 0 /\ \A i \in Sources : due(i) = 0
      <4>1. \A i \in Sources : {c \in inside : reading[c] <= i} = {}
        BY <2>1
      <4> QED
        BY <2>1, <4>1, FS_EmptySet
    <3>2. sems[LOCK] + Cardinality(inside) <= 1
      BY <3>1, SourceIsNoConsumer DEF EventsInv, EventsTyped, LockedOnce
    <3>3. KilledNone => \A i \in Sources : sems[i] + due(i) <= messages[i]
      BY <3>1, SourceIsNoConsumer DEF EventsInv, EventsTyped, EventsBacked, Sent
    <3> QED
      BY <3>2, <3>3 DEF EventsSound, KilledNone
  <2>2. CASE inside # {}
    <3>1. PICK c \in inside : TRUE
      BY <2>2
    <3>2. inside = {c} /\ Cardinality(inside) = 1
      <4>1. inside = {c}
        BY <3>1 DEF EventsInv, LockedOnce, Inside
      <4> QED
        BY <4>1, FS_Singleton
    <3>3. sems[LOCK] + Cardinality(inside) <= 1
      BY <3>1, <3>2 DEF EventsInv, LockedOnce, Inside
    <3>4. ASSUME KilledNone, NEW i \in Sources PROVE sems[i] + due(i) <= messages[i]
      <4>1. CASE reading[c] <= i
        <5>1. {d \in inside : reading[d] <= i} = {c}
          BY <3>2, <4>1
        <5>2. due(i) = 1
          BY <5>1, FS_Singleton
        <5> QED
          BY <3>1, <3>4, <4>1, <5>2, SourceIsNoConsumer
          DEF EventsInv, EventsTyped, EventsBacked, Sent, Inside
      <4>2. CASE ~(reading[c] <= i)
        <5>1. {d \in inside : reading[d] <= i} = {}
          BY <3>2, <4>2
        <5>2. due(i) = 0
          BY <5>1, FS_EmptySet
        <5> QED
          BY <3>4, <5>2, SourceIsNoConsumer DEF EventsInv, EventsTyped, EventsBacked, Sent
      <4> QED
        BY <4>1, <4>2
    <3> QED
      BY <3>3, <3>4 DEF EventsSound, KilledNone
  <2> QED
    BY <2>1, <2>2
<1> QED
  BY <1>1, <1>2, <1>3, PTL DEF Spec
=============================================================================
