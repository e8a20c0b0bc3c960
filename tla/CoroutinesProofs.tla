-------------------------- MODULE CoroutinesProofs --------------------------
(***************************************************************************)
(* Proofs about Coroutines: the points of return of coro_jmp.h and the list *)
(* of libcoro, for any number of coroutines, of calls and of yields, and    *)
(* that no step of the three programs breaks what Coop promises.            *)
(***************************************************************************)
EXTENDS Coroutines, SequenceLemmas, FiniteSetTheorems

-----------------------------------------------------------------------------
(* coro_jmp.h *)

Points == {"main", "my_coroutine", "recursion"}

Places ==
  {"coro_init", "first yield", "second yield", "other_function", "recursion", "my_coroutine",
   "coro_wait_all"}

JmpType ==
  [exec_point : Places, ret_points : Seq(Points), ret_capacity : Nat, is_finished : BOOLEAN,
   deep : Nat]

\* What other_function() has saved when it has called itself n times.
Stack(n) == <<"main", "my_coroutine">> \o [d \in 1 .. n |-> "recursion"]

\* What a coroutine has saved at a place: other_function() calls itself up
\* to the depth MAX_DEEP and only then returns from all its calls.
SavedAt(c, place) ==
  \/ place = "coro_init" /\ c.ret_points = <<>> /\ c.deep = 0 /\ ~c.is_finished
  \/ /\ place \in {"first yield", "second yield"}
     /\ c.ret_points = <<"main">> /\ c.deep = 0 /\ ~c.is_finished
  \/ /\ place = "other_function" /\ c.deep < MAX_DEEP
     /\ c.ret_points = Stack(c.deep) /\ ~c.is_finished
  \/ /\ place = "recursion" /\ c.deep = MAX_DEEP /\ ~c.is_finished
     /\ \E n \in 0 .. MAX_DEEP - 2 : c.ret_points = Stack(n)
  \/ /\ place = "my_coroutine"
     /\ c.ret_points = <<"main">> /\ c.deep = MAX_DEEP /\ ~c.is_finished
  \/ /\ place \in {"coro_wait_all", "main"}
     /\ c.ret_points = <<"main">> /\ c.deep = MAX_DEEP /\ c.is_finished

JmpOK(c, place) ==
  c \in JmpType /\ Len(c.ret_points) <= c.ret_capacity /\ SavedAt(c, place)

AllFinished == \A i \in JmpIds : jmp_coros[i].is_finished

\* What a step does not do that only moves control or returns from a call.
NoneFinishes ==
  at' # "main" /\ \A i \in JmpIds : jmp_coros'[i].is_finished = jmp_coros[i].is_finished

JmpInv ==
  /\ jmp_coros \in [JmpIds -> JmpType]
  /\ curr_coro_i \in JmpIds /\ at \in Places \cup {"main"}
  /\ \A i \in JmpIds : JmpOK(jmp_coros[i], Place(i))
  /\ at = "main" => AllFinished

\* The points that a deep recursion has saved.
LEMMA StackIs ==
  ASSUME NEW n \in Nat
  PROVE  /\ Stack(n) \in Seq(Points) /\ Len(Stack(n)) = n + 2
         /\ Stack(n)[1] = "main" /\ Stack(n)[2] = "my_coroutine"
         /\ \A i \in 3 .. n + 2 : Stack(n)[i] = "recursion"
<1> DEFINE head == <<"main", "my_coroutine">>
           rest == [d \in 1 .. n |-> "recursion"]
<1>1. head \in Seq(Points) /\ Len(head) = 2 /\ head[1] = "main" /\ head[2] = "my_coroutine"
  BY DEF Points
<1>2. rest \in Seq(Points) /\ Len(rest) = n /\ \A i \in 1 .. n : rest[i] = "recursion"
  BY DEF Points
<1>3. Stack(n) = head \o rest
  BY DEF Stack
<1> HIDE DEF head, rest
<1>4. /\ head \o rest \in Seq(Points) /\ Len(head \o rest) = 2 + n
      /\ \A i \in 1 .. 2 + n : (head \o rest)[i] = IF i <= 2 THEN head[i] ELSE rest[i - 2]
  <2>1. /\ head \o rest \in Seq(Points) /\ Len(head \o rest) = Len(head) + Len(rest)
        /\ \A i \in 1 .. Len(head) + Len(rest) :
             (head \o rest)[i] = IF i <= Len(head) THEN head[i] ELSE rest[i - Len(head)]
    BY ONLY <1>1, <1>2, ConcatProperties, Zenon
  <2> QED BY ONLY <1>1, <1>2, <2>1, Zenon
<1>5. 1 \in 1 .. 2 + n /\ 2 \in 1 .. 2 + n
  OBVIOUS
<1>6. \A i \in 3 .. n + 2 : i \in 1 .. 2 + n /\ ~(i <= 2) /\ i - 2 \in 1 .. n
  OBVIOUS
<1> QED BY <1>1, <1>2, <1>3, <1>4, <1>5, <1>6

\* A call saves one more point, and a return takes the last one off.
LEMMA StackGrows ==
  /\ Append(<<"main">>, "my_coroutine") = Stack(0)
  /\ Front(Stack(0)) = <<"main">> /\ Last(Stack(0)) = "my_coroutine"
  /\ \A n \in Nat : /\ Append(Stack(n), "recursion") = Stack(n + 1)
                    /\ Front(Stack(n + 1)) = Stack(n) /\ Last(Stack(n + 1)) = "recursion"
<1>1. \A n \in Nat :
        /\ Stack(n) \in Seq(Points) /\ Len(Stack(n)) = n + 2
        /\ Stack(n)[1] = "main" /\ Stack(n)[2] = "my_coroutine"
        /\ \A i \in 3 .. n + 2 : Stack(n)[i] = "recursion"
  BY StackIs, Zenon
<1>2. <<"main">> \in Seq(Points) /\ <<"main", "my_coroutine">> \in Seq(Points)
  BY DEF Points
<1>3. Stack(0) = <<"main", "my_coroutine">>
  <2>1. 0 \in Nat /\ 0 + 2 = 2
    OBVIOUS
  <2>2. Stack(0) \in Seq(Points) /\ Len(Stack(0)) = 2
        /\ Stack(0)[1] = "main" /\ Stack(0)[2] = "my_coroutine"
    BY ONLY <1>1, <2>1
  <2> QED BY ONLY <2>2
<1>4. Append(<<"main">>, "my_coroutine") = <<"main", "my_coroutine">>
  <2> PICK s \in Seq(Points) : s = <<"main">>
    BY <1>2
  <2> PICK t \in Seq(Points) : t = <<"main", "my_coroutine">>
    BY <1>2
  <2>1. Len(s) = 1 /\ s[1] = "main" /\ Len(t) = 2 /\ t[1] = "main" /\ t[2] = "my_coroutine"
    OBVIOUS
  <2>2. "my_coroutine" \in Points
    BY DEF Points
  <2> PICK u \in Seq(Points) : u = Append(s, "my_coroutine")
    BY ONLY <2>2, s \in Seq(Points), AppendProperties, Zenon
  <2>3. Len(u) = Len(s) + 1 /\ u[Len(s) + 1] = "my_coroutine" /\ \A i \in 1 .. Len(s) : u[i] = s[i]
    <3>1. /\ Len(Append(s, "my_coroutine")) = Len(s) + 1
          /\ Append(s, "my_coroutine")[Len(s) + 1] = "my_coroutine"
          /\ \A i \in 1 .. Len(s) : Append(s, "my_coroutine")[i] = s[i]
      BY ONLY <2>2, s \in Seq(Points), AppendProperties
    <3> QED BY ONLY <3>1, u = Append(s, "my_coroutine")
  <2>4. Len(u) = 2 /\ u[2] = "my_coroutine" /\ u[1] = "main"
    BY ONLY <2>1, <2>3
  <2>5. Len(u) = Len(t) /\ \A i \in 1 .. Len(u) : u[i] = t[i]
    BY ONLY <2>1, <2>4
  <2>6. u = t
    BY ONLY <2>5, u \in Seq(Points), t \in Seq(Points), SeqEqual, Zenon
  <2> QED BY ONLY <2>6, u = Append(s, "my_coroutine"), s = <<"main">>, t = <<"main", "my_coroutine">>, Zenon
<1>5. ASSUME NEW n \in Nat
      PROVE  Append(Stack(n), "recursion") = Stack(n + 1)
  <2> PICK s \in Seq(Points) : s = Stack(n)
    BY <1>1
  <2> PICK t \in Seq(Points) : t = Stack(n + 1)
    BY <1>1
  <2>1. /\ Len(s) = n + 2 /\ Len(t) = n + 3
        /\ \A i \in 1 .. n + 2 : t[i] = s[i]
        /\ t[n + 3] = "recursion"
    <3>1. n + 1 \in Nat /\ n + 3 \in 3 .. n + 1 + 2 /\ n + 1 + 2 = n + 3
      OBVIOUS
    <3>2. \A i \in 1 .. n + 2 : i = 1 \/ i = 2 \/ (i \in 3 .. n + 2 /\ i \in 3 .. n + 3)
      OBVIOUS
    <3> QED BY <1>1, <3>1, <3>2
  <2>2. "recursion" \in Points
    BY DEF Points
  <2>3. /\ Append(s, "recursion") \in Seq(Points)
        /\ Len(Append(s, "recursion")) = n + 3
        /\ \A i \in 1 .. n + 3 : Append(s, "recursion")[i] = t[i]
    BY ONLY <2>1, <2>2, s \in Seq(Points), n \in Nat
  <2> QED BY ONLY <2>1, <2>3, s = Stack(n), t = Stack(n + 1), t \in Seq(Points), SeqEqual, Zenon
<1>6. ASSUME NEW n \in Nat
      PROVE  Front(Stack(n + 1)) = Stack(n) /\ Last(Stack(n + 1)) = "recursion"
  <2> PICK s \in Seq(Points) : s = Stack(n)
    BY <1>1
  <2>1. Stack(n + 1) = Append(s, "recursion")
    BY <1>5
  <2>2. "recursion" \in Points
    BY DEF Points
  <2>3. Front(Append(s, "recursion")) = s /\ Last(Append(s, "recursion")) = "recursion"
    BY ONLY <2>2, s \in Seq(Points) DEF Front, Last
  <2> QED BY <2>1, <2>3
<1>7. Front(<<"main", "my_coroutine">>) = <<"main">> /\ Last(<<"main", "my_coroutine">>) = "my_coroutine"
  <2> PICK s \in Seq(Points) : s = <<"main">>
    BY <1>2
  <2>1. "my_coroutine" \in Points
    BY DEF Points
  <2>2. Front(Append(s, "my_coroutine")) = s /\ Last(Append(s, "my_coroutine")) = "my_coroutine"
    BY ONLY <2>1, s \in Seq(Points) DEF Front, Last
  <2> QED BY ONLY <2>2, <1>4, s = <<"main">>, Zenon
<1> QED BY <1>3, <1>4, <1>5, <1>6, <1>7

-----------------------------------------------------------------------------
(* The steps of coro_jmp.h *)

\* A coroutine yields at a place where it can be resumed, with what it has
\* saved there, and the next one goes on where it has yielded.
LEMMA YieldKeeps ==
  ASSUME JmpInv, NEW c, NEW place \in Places, JmpOK(c, place), coro_yield_at(c, place),
         c.is_finished = this.is_finished
  PROVE  JmpInv' /\ NoneFinishes
<1> USE CoroJmpAssumption
<1>1. PICK next \in JmpIds : next = next_coro(curr_coro_i)
  BY DEF JmpInv, JmpIds, next_coro
<1>2. PICK new : new = [c EXCEPT !.exec_point = place]
  OBVIOUS
<1>3. /\ new \in JmpType /\ new.exec_point = place /\ new.is_finished = c.is_finished
      /\ new.ret_points = c.ret_points /\ new.ret_capacity = c.ret_capacity /\ new.deep = c.deep
  BY <1>2 DEF JmpOK, JmpType
<1>4. JmpOK(new, place)
  BY <1>3 DEF JmpOK, SavedAt
<1>5. /\ jmp_coros' = [jmp_coros EXCEPT ![curr_coro_i] = new]
      /\ curr_coro_i' = next /\ at' = jmp_coros'[next].exec_point
  BY <1>1, <1>2 DEF coro_yield_at
<1>6. jmp_coros' \in [JmpIds -> JmpType] /\ at' \in Places
  BY <1>3, <1>5 DEF JmpInv, JmpType
<1>7. ASSUME NEW i \in JmpIds
      PROVE  JmpOK(jmp_coros[i], Place(i))'
  <2>1. Place(i)' = jmp_coros'[i].exec_point
    BY <1>5 DEF Place
  <2>2. CASE i = curr_coro_i
    BY <1>3, <1>4, <1>5, <2>1, <2>2 DEF JmpInv
  <2>3. CASE i # curr_coro_i
    BY <1>5, <2>1, <2>3 DEF JmpInv, Place
  <2> QED BY <2>2, <2>3
<1>8. at' # "main"
  BY <1>6 DEF Places
<1>9. \A i \in JmpIds : jmp_coros'[i].is_finished = jmp_coros[i].is_finished
  BY <1>3, <1>5 DEF JmpInv, this
<1> QED BY <1>1, <1>5, <1>6, <1>7, <1>8, <1>9 DEF JmpInv, NoneFinishes

\* A coroutine returns to the last point that it has saved.
LEMMA ReturnKeeps ==
  ASSUME JmpInv, NEW c \in JmpType, coro_return(c),
         c.is_finished = this.is_finished,
         NEW place \in Places, place = Last(c.ret_points),
         JmpOK([c EXCEPT !.ret_points = Front(@)], place)
  PROVE  JmpInv' /\ NoneFinishes
<1>1. PICK new : new = [c EXCEPT !.ret_points = Front(@)]
  OBVIOUS
<1>2. /\ jmp_coros' = [jmp_coros EXCEPT ![curr_coro_i] = new]
      /\ at' = place /\ curr_coro_i' = curr_coro_i
  BY <1>1 DEF coro_return
<1>3. JmpOK(new, place) /\ new \in JmpType
  BY <1>1 DEF JmpOK
<1>4. jmp_coros' \in [JmpIds -> JmpType]
  BY <1>2, <1>3 DEF JmpInv
<1>5. ASSUME NEW i \in JmpIds
      PROVE  JmpOK(jmp_coros[i], Place(i))'
  BY <1>2, <1>3 DEF JmpInv, Place
<1>6. at' # "main"
  BY <1>2 DEF Places
<1>7. new.is_finished = c.is_finished
  BY <1>1 DEF JmpType
<1>8. \A i \in JmpIds : jmp_coros'[i].is_finished = jmp_coros[i].is_finished
  BY <1>2, <1>7 DEF JmpInv, this
<1> QED BY <1>2, <1>4, <1>5, <1>6, <1>8 DEF JmpInv, NoneFinishes

\* The point to return to is saved in memory that holds it.
LEMMA CallSaves ==
  ASSUME NEW c \in JmpType, Len(c.ret_points) <= c.ret_capacity, NEW place \in Points
  PROVE  /\ coro_call(c, place) \in JmpType
         /\ coro_call(c, place).ret_points = Append(c.ret_points, place)
         /\ Len(coro_call(c, place).ret_points) <= coro_call(c, place).ret_capacity
         /\ coro_call(c, place).deep = c.deep /\ coro_call(c, place).is_finished = c.is_finished
<1>1. PICK points \in Seq(Points), capacity \in Nat : points = c.ret_points /\ capacity = c.ret_capacity
  BY DEF JmpType
<1>2. PICK n \in Nat : n = Len(points)
  BY LenProperties
<1>3. PICK more : more = Append(points, place)
  OBVIOUS
<1>4. more \in Seq(Points) /\ Len(more) = n + 1
  BY ONLY <1>2, <1>3, points \in Seq(Points), place \in Points, AppendProperties, Zenon
<1>5. PICK room \in Nat : /\ room = IF Grows(c) THEN (capacity + 1) * 2 ELSE capacity
                          /\ n + 1 <= room
  <2>1. Grows(c) <=> n + 1 > capacity
    BY <1>1, <1>2 DEF Grows
  <2>2. n <= capacity
    BY <1>1, <1>2
  <2>3. CASE Grows(c)
    BY <2>1, <2>2, <2>3
  <2>4. CASE ~Grows(c)
    BY <2>1, <2>2, <2>4
  <2> QED BY <2>3, <2>4
<1>6. coro_call(c, place) = [c EXCEPT !.ret_points = more, !.ret_capacity = room]
  BY <1>1, <1>3, <1>5 DEF coro_call
<1>7. PICK new : new = [c EXCEPT !.ret_points = more, !.ret_capacity = room]
  OBVIOUS
<1>8. /\ new \in JmpType /\ new.ret_points = more /\ new.ret_capacity = room
      /\ new.deep = c.deep /\ new.is_finished = c.is_finished
  BY ONLY <1>4, <1>7, c \in JmpType, room \in Nat DEF JmpType
<1> QED BY <1>1, <1>3, <1>4, <1>5, <1>6, <1>7, <1>8

\* The coroutine that runs is the one at the place at.
LEMMA ThisIs ==
  ASSUME JmpInv
  PROVE  this \in JmpType /\ JmpOK(this, at)
BY DEF JmpInv, this, Place

\* main() calls my_coroutine(), which yields twice.
LEMMA StartKeeps ==
  ASSUME JmpInv, Start \/ Again
  PROVE  JmpInv' /\ NoneFinishes
<1>1. CASE Start
  <2> DEFINE c == coro_call(this, "main")
  <2>1. this.ret_points = <<>> /\ this.deep = 0 /\ ~this.is_finished
    BY <1>1, ThisIs DEF Start, JmpOK, SavedAt
  <2>2. /\ c \in JmpType /\ c.ret_points = Append(<<>>, "main") /\ Len(c.ret_points) <= c.ret_capacity
        /\ c.deep = 0 /\ ~c.is_finished
    <3>1. this \in JmpType /\ Len(this.ret_points) <= this.ret_capacity /\ "main" \in Points
      BY ThisIs DEF JmpOK, Points
    <3> HIDE DEF this
    <3> QED BY ONLY <2>1, <3>1, CallSaves, Zenon
  <2> HIDE DEF c
  <2>3. Append(<<>>, "main") = <<"main">>
    OBVIOUS
  <2>4. JmpOK(c, "first yield")
    BY <2>2, <2>3 DEF JmpOK, SavedAt
  <2>5. coro_yield_at(c, "first yield") /\ "first yield" \in Places /\ c.is_finished = this.is_finished
    BY <1>1, <2>1, <2>2, ThisIs DEF c, Start, Places, JmpType
  <2> QED BY ONLY JmpInv, <2>4, <2>5, YieldKeeps, Zenon
<1>2. CASE Again
  <2>1. JmpOK(this, "second yield")
    BY <1>2, ThisIs DEF Again, JmpOK, SavedAt
  <2>2. coro_yield_at(this, "second yield") /\ "second yield" \in Places
    BY <1>2 DEF Again, Places
  <2> QED BY ONLY JmpInv, <2>1, <2>2, YieldKeeps, Zenon
<1> QED BY <1>1, <1>2

\* my_coroutine() calls other_function(), which yields.
LEMMA CallOtherKeeps ==
  ASSUME JmpInv, CallOther
  PROVE  JmpInv' /\ NoneFinishes
<1> USE CoroJmpAssumption
<1> DEFINE c == coro_call(this, "my_coroutine")
<1>1. this.ret_points = <<"main">> /\ this.deep = 0 /\ ~this.is_finished
  BY ThisIs DEF CallOther, JmpOK, SavedAt
<1>2. /\ c \in JmpType /\ c.ret_points = Append(<<"main">>, "my_coroutine")
      /\ Len(c.ret_points) <= c.ret_capacity /\ c.deep = 0 /\ c.is_finished = this.is_finished
  <2>1. this \in JmpType /\ Len(this.ret_points) <= this.ret_capacity /\ "my_coroutine" \in Points
    BY ThisIs DEF JmpOK, Points
  <2> QED BY ONLY <1>1, <2>1, CallSaves, Zenon
<1> HIDE DEF c
<1>3. c.ret_points = Stack(c.deep)
  BY ONLY <1>2, StackGrows, Zenon
<1>4. JmpOK(c, "other_function")
  BY <1>1, <1>2, <1>3 DEF JmpOK, SavedAt
<1>5. coro_yield_at(c, "other_function") /\ "other_function" \in Places
  BY DEF c, CallOther, Places
<1> QED BY ONLY JmpInv, <1>2, <1>4, <1>5, YieldKeeps, Zenon

\* The points are taken off, and the last one was a call of other_function()
\* by itself or by my_coroutine().
LEMMA ReturnFrom ==
  ASSUME JmpInv, NEW c \in JmpType, coro_return(c), NEW n \in 0 .. MAX_DEEP - 1,
         c.ret_points = Stack(n), c.deep = MAX_DEEP, ~c.is_finished, ~this.is_finished,
         Len(c.ret_points) <= c.ret_capacity
  PROVE  JmpInv' /\ NoneFinishes
<1> USE CoroJmpAssumption
<1>1. PICK points : points = Front(Stack(n))
  OBVIOUS
<1>2. PICK place : place = Last(Stack(n))
  OBVIOUS
<1>3. PICK new : new = [c EXCEPT !.ret_points = points]
  OBVIOUS
<1>4. [c EXCEPT !.ret_points = Front(@)] = new
  BY <1>1, <1>3
<1>8. c.is_finished = this.is_finished
  BY ThisIs DEF JmpType
<1>5. n + 2 <= c.ret_capacity /\ c.ret_capacity \in Nat
  BY StackIs DEF JmpType
<1>6. CASE n = 0
  <2>1. points = <<"main">> /\ place = "my_coroutine"
    BY ONLY <1>1, <1>2, <1>6, StackGrows
  <2>2. points \in Seq(Points) /\ Len(points) = 1
    BY <2>1 DEF Points
  <2>3. /\ new \in JmpType /\ new.ret_points = points /\ new.ret_capacity = c.ret_capacity
        /\ new.deep = c.deep /\ new.is_finished = c.is_finished
    BY ONLY <1>3, <2>2, c \in JmpType DEF JmpType
  <2>4. JmpOK(new, place)
    BY <1>5, <1>6, <2>1, <2>2, <2>3 DEF JmpOK, SavedAt
  <2>5. place \in Places
    BY <2>1 DEF Places
  <2> QED BY <1>2, <1>4, <1>8, <2>4, <2>5, ReturnKeeps
<1>7. CASE n # 0
  <2>1. PICK m \in 0 .. MAX_DEEP - 2 : n = m + 1
    BY <1>7
  <2>2. points = Stack(m) /\ place = "recursion"
    BY ONLY <1>1, <1>2, <2>1, StackGrows
  <2>3. points \in Seq(Points) /\ Len(points) = m + 2
    BY <2>2, StackIs
  <2>4. /\ new \in JmpType /\ new.ret_points = points /\ new.ret_capacity = c.ret_capacity
        /\ new.deep = c.deep /\ new.is_finished = c.is_finished
    BY ONLY <1>3, <2>3, c \in JmpType DEF JmpType
  <2>5. m + 2 <= c.ret_capacity
    BY <1>5, <2>1
  <2>6. JmpOK(new, place)
    BY <2>2, <2>3, <2>4, <2>5 DEF JmpOK, SavedAt
  <2>7. place \in Places
    BY <2>2 DEF Places
  <2> QED BY <1>2, <1>4, <1>8, <2>6, <2>7, ReturnKeeps
<1> QED BY <1>6, <1>7

\* other_function() calls itself or returns.
LEMMA OtherKeeps ==
  ASSUME JmpInv, Other \/ OtherEnds
  PROVE  JmpInv' /\ NoneFinishes
<1> USE CoroJmpAssumption
<1>1. CASE Other
  <2>1. PICK n \in Nat : n = this.deep
    BY ThisIs DEF JmpType
  <2>2. n < MAX_DEEP /\ this.ret_points = Stack(n) /\ ~this.is_finished
    BY <1>1, <2>1, ThisIs DEF Other, JmpOK, SavedAt
  <2>3. PICK deeper : deeper = [this EXCEPT !.deep = n + 1]
    OBVIOUS
  <2>4. /\ deeper \in JmpType /\ deeper.ret_points = this.ret_points /\ deeper.deep = n + 1
        /\ deeper.ret_capacity = this.ret_capacity /\ deeper.is_finished = this.is_finished
    <3>1. this \in JmpType
      BY ThisIs
    <3> HIDE DEF this
    <3> QED BY ONLY <2>3, <3>1, n \in Nat DEF JmpType
  <2>5. Len(deeper.ret_points) <= deeper.ret_capacity
    BY <2>4, ThisIs DEF JmpOK
  <2>6. IF n + 1 < MAX_DEEP
          THEN coro_yield_at(coro_call(deeper, "recursion"), "other_function")
          ELSE coro_return(deeper)
    BY <1>1, <2>1, <2>3, <2>4 DEF Other
  <2>7. CASE n + 1 < MAX_DEEP
    <3> PICK c : c = coro_call(deeper, "recursion")
      OBVIOUS
    <3>1. "recursion" \in Points
      BY DEF Points
    <3>2. /\ c \in JmpType /\ c.ret_points = Append(Stack(n), "recursion")
          /\ Len(c.ret_points) <= c.ret_capacity /\ c.deep = n + 1
          /\ c.is_finished = this.is_finished
      <4>1. /\ c \in JmpType /\ c.ret_points = Append(deeper.ret_points, "recursion")
            /\ Len(c.ret_points) <= c.ret_capacity /\ c.deep = deeper.deep
            /\ c.is_finished = deeper.is_finished
        BY ONLY <2>4, <2>5, <3>1, CallSaves, c = coro_call(deeper, "recursion"), Zenon
      <4> QED BY ONLY <2>2, <2>4, <4>1
    <3>3. c.ret_points = Stack(n + 1)
      BY ONLY <3>2, StackGrows, n \in Nat, Zenon
    <3>4. JmpOK(c, "other_function")
      BY <2>2, <2>7, <3>2, <3>3 DEF JmpOK, SavedAt
    <3>5. coro_yield_at(c, "other_function") /\ "other_function" \in Places
      BY <2>6, <2>7 DEF Places
    <3> QED BY ONLY JmpInv, <3>2, <3>4, <3>5, YieldKeeps, Zenon
  <2>8. CASE ~(n + 1 < MAX_DEEP)
    <3>1. n \in 0 .. MAX_DEEP - 1 /\ n + 1 = MAX_DEEP
      BY <2>2, <2>8
    <3> QED BY <2>2, <2>4, <2>5, <2>6, <2>8, <3>1, ReturnFrom
  <2> QED BY <2>7, <2>8
<1>2. CASE OtherEnds
  <2>1. PICK n \in 0 .. MAX_DEEP - 2 : this.ret_points = Stack(n)
    BY <1>2, ThisIs DEF OtherEnds, JmpOK, SavedAt
  <2>2. this.deep = MAX_DEEP /\ ~this.is_finished
    BY <1>2, ThisIs DEF OtherEnds, JmpOK, SavedAt
  <2>3. this \in JmpType /\ Len(this.ret_points) <= this.ret_capacity
    BY ThisIs DEF JmpOK
  <2>4. n \in 0 .. MAX_DEEP - 1 /\ coro_return(this)
    BY <1>2 DEF OtherEnds
  <2> QED BY ONLY JmpInv, <2>1, <2>2, <2>3, <2>4, ReturnFrom, Zenon
<1> QED BY <1>1, <1>2

\* A coroutine finishes.
LEMMA FinishKeeps ==
  ASSUME JmpInv, coro_finish
  PROVE  /\ JmpInv' /\ curr_coro_i' = curr_coro_i /\ at' # "main"
         /\ ~this.is_finished /\ this'.is_finished
         /\ \A i \in JmpIds :
              jmp_coros'[i].is_finished = (i = curr_coro_i \/ jmp_coros[i].is_finished)
<1>1. PICK new : new = [this EXCEPT !.is_finished = TRUE]
  OBVIOUS
<1>2. this \in JmpType /\ JmpOK(this, "my_coroutine")
  BY ThisIs DEF coro_finish
<1>3. JmpOK(new, "coro_wait_all") /\ new \in JmpType
  <2>1. /\ new \in JmpType /\ new.ret_points = this.ret_points /\ new.is_finished
        /\ new.ret_capacity = this.ret_capacity /\ new.deep = this.deep
    <3> HIDE DEF this
    <3> QED BY ONLY <1>1, <1>2 DEF JmpType
  <2> QED BY <1>2, <2>1 DEF JmpOK, SavedAt
<1>4. /\ jmp_coros' = [jmp_coros EXCEPT ![curr_coro_i] = new]
      /\ curr_coro_i' = curr_coro_i /\ at' = "coro_wait_all"
  BY <1>1 DEF coro_finish, this, JmpInv
<1>5. jmp_coros' \in [JmpIds -> JmpType]
  BY <1>3, <1>4 DEF JmpInv
<1>6. ASSUME NEW i \in JmpIds
      PROVE  JmpOK(jmp_coros[i], Place(i))'
  BY <1>3, <1>4 DEF JmpInv, Place
<1>7. new.is_finished /\ ~this.is_finished
  BY <1>2, <1>3 DEF JmpOK, SavedAt
<1>8. this' = new
  BY <1>4 DEF this, JmpInv
<1>9. \A i \in JmpIds :
        jmp_coros'[i].is_finished = (i = curr_coro_i \/ jmp_coros[i].is_finished)
  BY <1>3, <1>4, <1>7 DEF JmpInv, JmpType
<1>10. JmpInv'
  BY <1>4, <1>5, <1>6 DEF JmpInv, Places
<1> QED BY <1>4, <1>7, <1>8, <1>9, <1>10

\* A coroutine that has finished goes on only when all have.
LEMMA WaitAllKeeps ==
  ASSUME JmpInv, coro_wait_all
  PROVE  /\ JmpInv'
         /\ \/ NoneFinishes
            \/ AllFinished /\ at' = "main" /\ UNCHANGED <<jmp_coros, curr_coro_i>>
<1>1. CASE AllFinished
  <2>1. at' = "main" /\ UNCHANGED <<jmp_coros, curr_coro_i>>
    BY <1>1 DEF coro_wait_all, AllFinished
  <2>2. JmpOK(this, "coro_wait_all")
    BY ThisIs DEF coro_wait_all
  <2>3. JmpOK(this, "main")
    BY <2>2 DEF JmpOK, SavedAt
  <2>4. \A i \in JmpIds : JmpOK(jmp_coros[i], Place(i))'
    BY <2>1, <2>3 DEF JmpInv, Place, this
  <2> QED BY <1>1, <2>1, <2>4 DEF JmpInv, AllFinished
<1>2. CASE ~AllFinished
  <2>1. coro_yield_at(this, "coro_wait_all") /\ "coro_wait_all" \in Places
    BY <1>2 DEF coro_wait_all, AllFinished, Places
  <2>2. JmpOK(this, "coro_wait_all")
    BY ThisIs DEF coro_wait_all
  <2> QED BY ONLY JmpInv, <2>1, <2>2, YieldKeeps, Zenon
<1> QED BY <1>1, <1>2

\* Every step of 1/coro_jmp.h keeps its invariant.
LEMMA JmpNextKeeps ==
  ASSUME JmpInv, [JmpNext]_jmp_vars
  PROVE  JmpInv'
<1>1. CASE UNCHANGED jmp_vars
  BY <1>1 DEF jmp_vars, JmpInv, Place, AllFinished
<1> QED BY <1>1, StartKeeps, CallOtherKeeps, OtherKeeps, FinishKeeps, WaitAllKeeps DEF JmpNext

\* It holds when no coroutine has started.
LEMMA JmpInitKeeps ==
  ASSUME JmpInit
  PROVE  JmpInv
<1> USE CoroJmpAssumption
<1>1. << >> \in Seq(Points) /\ Len(<< >>) = 0
  OBVIOUS
<1>2. PICK c : c = [exec_point |-> "coro_init", ret_points |-> <<>>, ret_capacity |-> 0,
                    is_finished |-> FALSE, deep |-> 0]
  OBVIOUS
<1>3. c \in JmpType /\ c.exec_point = "coro_init"
  BY <1>1, <1>2 DEF JmpType, Places
<1>4. JmpOK(c, "coro_init")
  BY <1>1, <1>2, <1>3 DEF JmpOK, SavedAt
<1>5. jmp_coros = [i \in JmpIds |-> c] /\ curr_coro_i = 0 /\ at = "coro_init"
  BY <1>2 DEF JmpInit
<1>6. jmp_coros \in [JmpIds -> JmpType] /\ curr_coro_i \in JmpIds /\ at \in Places
  BY <1>3, <1>5 DEF JmpIds, Places
<1>7. \A i \in JmpIds : JmpOK(jmp_coros[i], Place(i))
  BY <1>3, <1>4, <1>5 DEF Place
<1> QED BY <1>5, <1>6, <1>7 DEF JmpInv

\* The invariant says what JmpSound does.
LEMMA JmpFromInv ==
  ASSUME JmpInv
  PROVE  JmpSound
<1> USE CoroJmpAssumption
<1>1. ASSUME NEW i \in JmpIds, NEW c, c = jmp_coros[i], NEW place, place = Place(i)
      PROVE  /\ c.ret_points = Calls(c, place)
             /\ place = "recursion" => /\ Len(c.ret_points) \in 2 .. MAX_DEEP
                                       /\ IsPrefix(c.ret_points, Calls(c, "other_function"))
             /\ Len(c.ret_points) <= c.ret_capacity
             /\ c.is_finished => c.deep = MAX_DEEP
  <2>1. c \in JmpType /\ Len(c.ret_points) <= c.ret_capacity /\ SavedAt(c, place)
    BY <1>1 DEF JmpInv, JmpOK
  <2>2. c.is_finished => c.deep = MAX_DEEP
    BY <2>1 DEF SavedAt
  <2>3. CASE place # "recursion"
    BY <2>1, <2>2, <2>3 DEF SavedAt, Calls, Stack
  <2>4. CASE place = "recursion"
    <3>1. PICK n \in 0 .. MAX_DEEP - 2 : c.ret_points = Stack(n)
      BY <2>1, <2>4 DEF SavedAt
    <3>2. c.deep = MAX_DEEP
      BY <2>1, <2>4 DEF SavedAt
    <3>3. /\ Stack(n) \in Seq(Points) /\ Len(Stack(n)) = n + 2
          /\ Stack(MAX_DEEP) \in Seq(Points) /\ Len(Stack(MAX_DEEP)) = MAX_DEEP + 2
          /\ \A k \in 1 .. n + 2 : Stack(n)[k] = Stack(MAX_DEEP)[k]
      <4>1. \A m \in Nat :
              /\ Stack(m) \in Seq(Points) /\ Len(Stack(m)) = m + 2
              /\ Stack(m)[1] = "main" /\ Stack(m)[2] = "my_coroutine"
              /\ \A k \in 3 .. m + 2 : Stack(m)[k] = "recursion"
        BY StackIs, Zenon
      <4>2. n \in Nat /\ MAX_DEEP \in Nat
        OBVIOUS
      <4>3. ASSUME NEW k \in 1 .. n + 2
            PROVE  k = 1 \/ k = 2 \/ (k \in 3 .. n + 2 /\ k \in 3 .. MAX_DEEP + 2)
        OBVIOUS
      <4> QED BY ONLY <4>1, <4>2, <4>3
    <3>4. /\ SubSeq(Stack(n), 1, n + 2) \in Seq(Points)
          /\ Len(SubSeq(Stack(n), 1, n + 2)) = n + 2
          /\ \A k \in 1 .. n + 2 : SubSeq(Stack(n), 1, n + 2)[k] = Stack(n)[k]
      BY <3>3, SubSeqProperties
    <3>5. /\ SubSeq(Stack(MAX_DEEP), 1, n + 2) \in Seq(Points)
          /\ Len(SubSeq(Stack(MAX_DEEP), 1, n + 2)) = n + 2
          /\ \A k \in 1 .. n + 2 : SubSeq(Stack(MAX_DEEP), 1, n + 2)[k] = Stack(MAX_DEEP)[k]
      BY <3>3, SubSeqProperties
    <3>6. SubSeq(Stack(n), 1, n + 2) = Stack(n)
      BY <3>3, <3>4, SeqEqual
    <3>7. SubSeq(Stack(n), 1, n + 2) = SubSeq(Stack(MAX_DEEP), 1, n + 2)
      BY <3>3, <3>4, <3>5, SeqEqual
    <3>8. IsPrefix(Stack(n), Stack(MAX_DEEP))
      BY <3>3, <3>7 DEF IsPrefix
    <3>9. Calls(c, "other_function") = Stack(MAX_DEEP)
      BY <3>2 DEF Calls, Stack
    <3>10. Calls(c, place) = Stack(n)
      BY <2>4, <3>1, <3>3, <3>6 DEF Calls
    <3> QED BY <2>1, <2>2, <3>1, <3>3, <3>8, <3>9, <3>10
  <2> QED BY <2>3, <2>4
<1>2. at = "main" => \A i \in JmpIds : jmp_coros[i].is_finished
  BY DEF JmpInv, AllFinished
<1> QED BY <1>1, <1>2 DEF JmpSound

-----------------------------------------------------------------------------
(* libcoro *)

Ids == LibIds \cup {NULL}

CoroType ==
  [memory : {"none", "used", "returned", "freed"}, is_finished : BOOLEAN, next : Ids, prev : Ids,
   ctx : Ids, yields : Nat]

LibTypeOK ==
  /\ coros \in [LibIds -> CoroType]
  /\ coro_list \in Ids /\ is_sched_waiting \in BOOLEAN
  /\ control \in LibIds \cup {SCHED} /\ coro_this_ptr = control
  /\ sched \in {"user", "waiting", "ended"}

Used == {c \in LibIds : coros[c].memory = "used"}
UsedFinished == {c \in Used : coros[c].is_finished}

\* l is linked both ways and has each coroutine once that was created and
\* not returned.
Chain(l) ==
  /\ l \in Seq(LibIds) /\ Links(l)
  /\ \A i \in 1 .. Len(l) : coros[l[i]].prev = IF i = 1 THEN NULL ELSE l[i - 1]
  /\ \A i, k \in 1 .. Len(l) : l[i] = l[k] => i = k
  /\ \A c \in LibIds : c \in Used <=> \E i \in 1 .. Len(l) : l[i] = c

\* A coroutine resumes as itself, and what it was is known when it is gone.
CorosMarked ==
  \A c \in LibIds :
    /\ c \in Used => coros[c].ctx = c
    /\ coros[c].memory = "none" => ~coros[c].is_finished
    /\ coros[c].memory \in {"returned", "freed"} => coros[c].is_finished

\* While a coroutine runs the scheduler waits and none in the list has
\* finished; one at most has when the scheduler goes on.
SchedulerKnows ==
  /\ control # SCHED =>
       control \in Used /\ is_sched_waiting /\ sched = "waiting" /\ UsedFinished = {}
  /\ sched # "waiting" => UsedFinished = {}
  /\ sched = "ended" => coro_list = NULL
  /\ \A c, d \in UsedFinished : c = d

LibInv == LibTypeOK /\ CorosMarked /\ SchedulerKnows /\ \E l : Chain(l)

\* The smallest of some positions in a sequence.
LEMMA FirstOf ==
  ASSUME NEW T \in SUBSET Nat, T # {}
  PROVE  Min(T) \in T /\ \A i \in T : Min(T) <= i
BY LeastElement DEF Min

\* The pointers lead along one list only: as far as one goes the other does.
LEMMA SameLinks ==
  ASSUME NEW l \in Seq(LibIds), NEW m \in Seq(LibIds), Links(l), Links(m)
  PROVE  \A i \in 1 .. Len(l) : i <= Len(m) /\ m[i] = l[i]
<1> USE LibCoroAssumption
<1> PICK n \in Nat : n = Len(l)
  BY LenProperties
<1> PICK k \in Nat : k = Len(m)
  BY LenProperties
<1> DEFINE Same(i) == i <= k /\ m[i] = l[i]
           apart == {i \in 1 .. n : ~Same(i)}
<1> SUFFICES ASSUME apart # {}
             PROVE  FALSE
  BY DEF apart
<1>1. PICK i \in apart : \A j \in apart : i <= j
  <2>1. apart \in SUBSET Nat
    OBVIOUS
  <2> HIDE DEF apart
  <2> QED BY <2>1, FirstOf
<1>2. i \in 1 .. n /\ ~Same(i)
  BY <1>1
<1>3. \A j \in 1 .. n : l[j] \in LibIds
  BY ElementOfSeq
<1>4. coro_list = (IF n = 0 THEN NULL ELSE l[1]) /\ coro_list = (IF k = 0 THEN NULL ELSE m[1])
  BY DEF Links
<1>5. /\ \A j \in 1 .. n : coros[l[j]].next = IF j = n THEN NULL ELSE l[j + 1]
      /\ \A j \in 1 .. k : coros[m[j]].next = IF j = k THEN NULL ELSE m[j + 1]
  <2>1. DOMAIN l = 1 .. n /\ DOMAIN m = 1 .. k
    BY LenProperties
  <2> QED BY ONLY <2>1, n = Len(l), k = Len(m), Links(l), Links(m) DEF Links
<1>6. CASE i = 1
  BY <1>2, <1>3, <1>4, <1>6
<1>7. CASE i # 1
  <2>1. PICK j \in 1 .. n : i = j + 1 /\ j # n
    BY <1>2, <1>7
  <2>2. Same(j)
    BY <1>1, <2>1
  <2>3. coros[l[j]].next = l[i] /\ l[i] \in LibIds
    BY <1>2, <1>3, <1>5, <2>1
  <2>4. j # k
    BY <1>5, <2>2, <2>3
  <2>5. j + 1 <= k /\ coros[m[j]].next = m[j + 1]
    BY <1>5, <2>2, <2>4
  <2> QED BY <1>2, <2>1, <2>2, <2>3, <2>5
<1> QED BY <1>6, <1>7

\* List is what the invariant speaks of.
LEMMA ListIs ==
  ASSUME NEW l, Chain(l)
  PROVE  List = l /\ l \in Lists
<1> USE LibCoroAssumption
<1>1. PICK n \in Nat : n = Len(l) /\ l \in [1 .. n -> LibIds]
  BY LenProperties DEF Chain
<1>2. \A i, k \in 1 .. n : l[i] = l[k] => i = k
  BY <1>1 DEF Chain
<1>3. l \in Injection(1 .. n, LibIds)
  BY <1>1, <1>2 DEF Injection, IsInjective
<1>4. Cardinality(1 .. n) <= Cardinality(LibIds) /\ Cardinality(LibIds) \in Nat
  BY <1>3, FS_Injection, FS_CardinalityType
<1>5. Cardinality(1 .. n) = n
  BY FS_Interval
<1>6. l \in Lists
  BY <1>1, <1>4, <1>5 DEF Lists
<1>7. ASSUME NEW m \in Lists, Links(m)
      PROVE  m = l
  <2>1. PICK k \in Nat : m \in [1 .. k -> LibIds]
    BY <1>4, <1>7 DEF Lists
  <2>2. m \in Seq(LibIds) /\ Len(m) = k /\ l \in Seq(LibIds) /\ Links(l)
    BY <2>1 DEF Chain
  <2>3. \A i \in 1 .. n : i <= k /\ m[i] = l[i]
    BY <1>1, <1>7, <2>2, SameLinks
  <2>4. \A i \in 1 .. k : i <= n
    BY <1>1, <1>7, <2>2, SameLinks
  <2>5. n = k
    BY <2>3, <2>4
  <2> QED BY <1>1, <2>2, <2>3, <2>5, SeqEqual
<1>8. List \in Lists /\ Links(List)
  BY <1>6, Zenon DEF List, Chain
<1> QED BY <1>6, <1>7, <1>8
\* A step that moves no links and creates or returns none keeps the list.
LEMMA ChainStays ==
  ASSUME LibTypeOK, NEW l, Chain(l), coros' \in [LibIds -> CoroType],
         \A c \in LibIds : /\ coros'[c].next = coros[c].next /\ coros'[c].prev = coros[c].prev
                           /\ coros'[c].memory = "used" <=> coros[c].memory = "used",
         UNCHANGED coro_list
  PROVE  Chain(l)'
<1>1. l \in Seq(LibIds) /\ \A i \in 1 .. Len(l) : l[i] \in LibIds
  BY ElementOfSeq DEF Chain
<1>2. DOMAIN l = 1 .. Len(l)
  BY <1>1
<1>3. Links(l)'
  BY <1>1, <1>2 DEF Chain, Links
<1>4. \A i \in 1 .. Len(l) : coros'[l[i]].prev = IF i = 1 THEN NULL ELSE l[i - 1]
  BY <1>1 DEF Chain
<1>5. Used' = Used
  BY DEF Used
<1>6. /\ \A i, k \in 1 .. Len(l) : l[i] = l[k] => i = k
      /\ \A c \in LibIds : c \in Used <=> \E i \in 1 .. Len(l) : l[i] = c
  BY DEF Chain
<1>7. \A c \in LibIds : c \in Used' <=> \E i \in 1 .. Len(l) : l[i] = c
  BY ONLY <1>5, <1>6
<1> QED BY ONLY <1>1, <1>3, <1>4, <1>6, <1>7 DEF Chain

\* A coroutine that is created is the first of the list.
LEMMA ChainGrows ==
  ASSUME LibTypeOK, NEW l, Chain(l), NEW c \in LibIds, coro_new(c)
  PROVE  /\ coros' \in [LibIds -> CoroType] /\ Used' = Used \cup {c}
         /\ coros'[c].ctx = c
         /\ \A d \in LibIds : d # c => coros'[d].ctx = coros[d].ctx /\ coros'[d].memory = coros[d].memory
         /\ \A d \in LibIds : coros'[d].is_finished = coros[d].is_finished
         /\ \E m : Chain(m)'
<1> USE LibCoroAssumption
<1>1. PICK n \in Nat : n = Len(l) /\ l \in [1 .. n -> LibIds]
  BY LenProperties DEF Chain
<1>2. PICK cs \in [LibIds -> CoroType] : cs = [coros EXCEPT ![c].memory = "used", ![c].ctx = c]
  <2>1. coros \in [LibIds -> CoroType] /\ coros[c] \in CoroType /\ c \in Ids
    BY DEF LibTypeOK, Ids
  <2> PICK co : co = [coros[c] EXCEPT !.memory = "used", !.ctx = c]
    OBVIOUS
  <2>2. co \in CoroType
    BY ONLY <2>1, co = [coros[c] EXCEPT !.memory = "used", !.ctx = c] DEF CoroType
  <2>3. [coros EXCEPT ![c] = co] \in [LibIds -> CoroType]
    BY ONLY <2>1, <2>2
  <2>4. [coros EXCEPT ![c].memory = "used", ![c].ctx = c] = [coros EXCEPT ![c] = co]
    BY ONLY <2>1, c \in LibIds, co = [coros[c] EXCEPT !.memory = "used", !.ctx = c]
  <2> QED BY ONLY <2>3, <2>4
<1>3. /\ cs[c] = [coros[c] EXCEPT !.memory = "used", !.ctx = c]
      /\ \A d \in LibIds : d # c => cs[d] = coros[d]
  BY <1>2 DEF LibTypeOK
<1>4. /\ cs[c].memory = "used" /\ cs[c].ctx = c /\ cs[c].is_finished = coros[c].is_finished
  BY <1>3 DEF LibTypeOK, CoroType
<1>5. coros' = coro_list_add(cs, c) /\ coro_list' = c
  BY <1>2 DEF coro_new
<1>6. ASSUME NEW d \in LibIds
      PROVE  /\ coros'[d] \in CoroType
             /\ coros'[d].next = (IF d = c THEN coro_list ELSE coros[d].next)
             /\ coros'[d].prev = (IF d = c THEN NULL ELSE IF d = coro_list THEN c ELSE coros[d].prev)
             /\ coros'[d].memory = cs[d].memory /\ coros'[d].ctx = cs[d].ctx
             /\ coros'[d].is_finished = cs[d].is_finished
  <2>1. coros'[d] = IF d = c THEN [cs[d] EXCEPT !.next = coro_list, !.prev = NULL]
                    ELSE IF d = coro_list THEN [cs[d] EXCEPT !.prev = c] ELSE cs[d]
    BY <1>5 DEF coro_list_add
  <2>2. cs[d] \in CoroType /\ coro_list \in Ids /\ NULL \in Ids /\ c \in Ids
    BY DEF LibTypeOK, Ids
  <2>3. d # c => cs[d].next = coros[d].next /\ cs[d].prev = coros[d].prev
    BY <1>3
  <2> PICK x \in CoroType : x = cs[d]
    BY <2>2
  <2>4. CASE d = c
    BY <2>1, <2>2, <2>3, <2>4 DEF CoroType
  <2>5. CASE d # c /\ d = coro_list
    BY <2>1, <2>2, <2>3, <2>5 DEF CoroType
  <2>6. CASE d # c /\ d # coro_list
    BY <2>1, <2>2, <2>3, <2>6 DEF CoroType
  <2> QED BY <2>4, <2>5, <2>6
<1>7. coros' \in [LibIds -> CoroType]
  <2>1. \E f : coros' = [d \in LibIds |-> f[d]]
    <3> DEFINE f == [d \in LibIds |->
                       IF d = c THEN [cs[d] EXCEPT !.next = coro_list, !.prev = NULL]
                       ELSE IF d = coro_list THEN [cs[d] EXCEPT !.prev = c] ELSE cs[d]]
    <3>1. coros' = f /\ f = [d \in LibIds |-> f[d]]
      BY <1>5 DEF coro_list_add
    <3> QED BY <3>1, Zenon
  <2> QED BY <1>6, <2>1
<1>8. Used' = Used \cup {c} /\ c \notin Used
  <2>1. coros[c].memory = "none"
    BY DEF coro_new
  <2>2. \A d \in LibIds : coros'[d].memory = "used" <=> d = c \/ coros[d].memory = "used"
    BY <1>3, <1>4, <1>6
  <2>3. Used' = {d \in LibIds : coros'[d].memory = "used"}
    BY DEF Used
  <2> QED BY <2>1, <2>2, <2>3 DEF Used
<1>9. PICK m : m = [i \in 1 .. n + 1 |-> IF i = 1 THEN c ELSE l[i - 1]]
  OBVIOUS
<1>10. /\ m \in [1 .. n + 1 -> LibIds] /\ m[1] = c
       /\ \A i \in 1 .. n : i + 1 \in 1 .. n + 1 /\ m[i + 1] = l[i]
       /\ \A i \in 1 .. n + 1 : i = 1 \/ \E k \in 1 .. n : i = k + 1
  <2>1. \A i \in 1 .. n + 1 : i = 1 \/ i - 1 \in 1 .. n
    OBVIOUS
  <2>2. \A i \in 1 .. n : i + 1 \in 1 .. n + 1 /\ i + 1 # 1 /\ i + 1 - 1 = i
    OBVIOUS
  <2>3. m \in [1 .. n + 1 -> LibIds] /\ m[1] = c
    BY <1>1, <1>9, <2>1
  <2>4. \A i \in 1 .. n + 1 : i = 1 \/ \E k \in 1 .. n : i = k + 1
    BY <2>1
  <2> QED BY <1>9, <2>2, <2>3, <2>4
<1>11. m \in Seq(LibIds) /\ Len(m) = n + 1 /\ DOMAIN m = 1 .. n + 1
  BY <1>10
<1>12. \A i \in 1 .. n : l[i] \in Used /\ l[i] \in LibIds /\ l[i] # c
  BY <1>1, <1>8 DEF Chain
<1>13. /\ coro_list = (IF n = 0 THEN NULL ELSE l[1])
       /\ \A i \in 1 .. n : coros[l[i]].next = IF i = n THEN NULL ELSE l[i + 1]
       /\ \A i \in 1 .. n : coros[l[i]].prev = IF i = 1 THEN NULL ELSE l[i - 1]
       /\ \A i, k \in 1 .. n : l[i] = l[k] => i = k
  <2>1. DOMAIN l = 1 .. n /\ (l = <<>> <=> n = 0)
    BY <1>1
  <2>2. Links(l)
    BY DEF Chain
  <2>3. coro_list = IF n = 0 THEN NULL ELSE l[1]
    BY ONLY <2>1, <2>2 DEF Links
  <2>4. \A i \in 1 .. n : coros[l[i]].next = IF i = n THEN NULL ELSE l[i + 1]
    BY ONLY <1>1, <2>1, <2>2 DEF Links
  <2> QED BY <1>1, <2>3, <2>4 DEF Chain
<1>14. \A i \in 1 .. n + 1 : coros'[m[i]].next = IF i = n + 1 THEN NULL ELSE m[i + 1]
  <2>1. CASE n = 0
    BY <1>6, <1>10, <1>13, <2>1
  <2>2. CASE n # 0
    <3>1. coros'[m[1]].next = m[1 + 1]
      BY <1>6, <1>10, <1>13, <2>2
    <3>2. ASSUME NEW i \in 1 .. n
          PROVE  coros'[m[i + 1]].next = IF i + 1 = n + 1 THEN NULL ELSE m[i + 1 + 1]
      <4>1. coros'[m[i + 1]].next = coros[l[i]].next
        BY <1>6, <1>10, <1>12
      <4>2. CASE i = n
        BY <1>13, <4>1, <4>2
      <4>3. CASE i # n
        <5>1. i + 1 \in 1 .. n /\ i + 1 # n + 1
          BY <4>3
        <5>2. m[i + 1 + 1] = l[i + 1]
          BY <1>10, <5>1
        <5> QED BY <1>13, <4>1, <4>3, <5>1, <5>2
      <4> QED BY <4>2, <4>3
    <3> QED BY <1>10, <2>2, <3>1, <3>2
  <2> QED BY <2>1, <2>2
<1>15. \A i \in 1 .. n + 1 : coros'[m[i]].prev = IF i = 1 THEN NULL ELSE m[i - 1]
  <2>1. coros'[m[1]].prev = NULL
    BY <1>6, <1>10
  <2>2. ASSUME NEW i \in 1 .. n
        PROVE  coros'[m[i + 1]].prev = m[i]
    <3>1. CASE i = 1
      BY <1>6, <1>10, <1>12, <1>13, <3>1
    <3>2. CASE i # 1
      <4>1. PICK k \in 1 .. n : i = k + 1
        BY <3>2
      <4>2. l[i] # coro_list /\ l[i] # c /\ l[i] \in LibIds
        BY <1>12, <1>13, <3>2
      <4>3. coros'[l[i]].prev = l[k]
        BY <1>6, <1>13, <3>2, <4>1, <4>2
      <4> QED BY <1>10, <4>1, <4>3
    <3> QED BY <3>1, <3>2
  <2>3. \A i \in 1 .. n : i + 1 # 1 /\ i + 1 - 1 = i
    OBVIOUS
  <2> QED BY <1>10, <2>1, <2>2, <2>3
<1>16. \A i, k \in 1 .. n + 1 : m[i] = m[k] => i = k
  <2>1. \A i, k \in 1 .. n : m[i + 1] = m[k + 1] => i = k
    BY <1>10, <1>13
  <2>2. \A i \in 1 .. n : m[i + 1] # m[1]
    BY <1>10, <1>12
  <2>3. ASSUME NEW i \in 1 .. n + 1, NEW k \in 1 .. n + 1, m[i] = m[k]
        PROVE  i = k
    <3>1. i = 1 \/ \E j \in 1 .. n : i = j + 1
      BY <1>10
    <3>2. k = 1 \/ \E j \in 1 .. n : k = j + 1
      BY <1>10
    <3> QED BY <2>1, <2>2, <2>3, <3>1, <3>2
  <2> QED BY <2>3
<1>17. \A d \in LibIds : d \in Used' <=> \E i \in 1 .. n + 1 : m[i] = d
  <2>1. \A d \in LibIds : d \in Used <=> \E i \in 1 .. n : l[i] = d
    BY <1>1 DEF Chain
  <2>2. 1 \in 1 .. n + 1
    OBVIOUS
  <2>3. ASSUME NEW d \in LibIds, d \in Used'
        PROVE  \E i \in 1 .. n + 1 : m[i] = d
    <3>1. CASE d = c
      BY <1>10, <2>2, <3>1
    <3>2. CASE d # c
      <4>1. PICK i \in 1 .. n : l[i] = d
        BY <1>8, <2>1, <2>3, <3>2
      <4> QED BY <1>10, <4>1
    <3> QED BY <3>1, <3>2
  <2>4. ASSUME NEW i \in 1 .. n + 1
        PROVE  m[i] \in Used'
    <3>1. CASE i = 1
      BY <1>8, <1>10, <3>1
    <3>2. CASE i # 1
      <4>1. PICK k \in 1 .. n : i = k + 1
        BY <1>10, <3>2
      <4> QED BY <1>8, <1>10, <1>12, <4>1
    <3> QED BY <3>1, <3>2
  <2> QED BY <2>3, <2>4
<1>18. Links(m)'
  BY <1>5, <1>10, <1>11, <1>14 DEF Links
<1>19. Chain(m)'
  BY <1>11, <1>15, <1>16, <1>17, <1>18 DEF Chain
<1> QED BY <1>3, <1>4, <1>6, <1>7, <1>8, <1>19
\* A coroutine that the scheduler returns is taken off the list, from
\* wherever it is in it.
LEMMA ChainShrinks ==
  ASSUME LibTypeOK, NEW l, Chain(l), NEW k \in 1 .. Len(l), NEW c, c = l[k],
         coros' = [coro_list_delete(coros, c) EXCEPT ![c].memory = "returned"],
         coro_list' = IF coros[c].prev = NULL THEN coros[c].next ELSE coro_list
  PROVE  /\ coros' \in [LibIds -> CoroType] /\ coro_list' \in Ids /\ Used' = Used \ {c}
         /\ coros'[c].memory = "returned"
         /\ \A d \in LibIds : /\ coros'[d].ctx = coros[d].ctx
                              /\ coros'[d].is_finished = coros[d].is_finished
                              /\ d # c => coros'[d].memory = coros[d].memory
         /\ \E m : Chain(m)'
<1> USE LibCoroAssumption
<1>1. PICK n \in Nat : n = Len(l) /\ l \in [1 .. n -> LibIds]
  BY LenProperties DEF Chain
<1>2. DOMAIN l = 1 .. n /\ (l = <<>> <=> n = 0) /\ k \in 1 .. n /\ c \in LibIds
  BY <1>1
<1>3. /\ coro_list = l[1]
      /\ \A i \in 1 .. n : coros[l[i]].next = IF i = n THEN NULL ELSE l[i + 1]
      /\ \A i \in 1 .. n : coros[l[i]].prev = IF i = 1 THEN NULL ELSE l[i - 1]
      /\ \A i, j \in 1 .. n : l[i] = l[j] => i = j
      /\ \A d \in LibIds : d \in Used <=> \E i \in 1 .. n : l[i] = d
  <2>1. Links(l)
    BY DEF Chain
  <2>2. coro_list = l[1]
    BY ONLY <1>2, <2>1 DEF Links
  <2>3. \A i \in 1 .. n : coros[l[i]].next = IF i = n THEN NULL ELSE l[i + 1]
    BY ONLY <1>1, <1>2, <2>1 DEF Links
  <2> QED BY <1>1, <2>2, <2>3 DEF Chain
<1>4. /\ coros[c].next = (IF k = n THEN NULL ELSE l[k + 1])
      /\ coros[c].prev = (IF k = 1 THEN NULL ELSE l[k - 1])
      /\ coros[c].next \in Ids /\ coros[c].prev \in Ids
  BY <1>2, <1>3 DEF LibTypeOK, CoroType
<1>5. ASSUME NEW d \in LibIds
      PROVE  /\ coros'[d] \in CoroType
             /\ coros'[d].next = (IF d = coros[c].prev THEN coros[c].next ELSE coros[d].next)
             /\ coros'[d].prev = (IF d # coros[c].prev /\ d = coros[c].next THEN coros[c].prev
                                  ELSE coros[d].prev)
             /\ coros'[d].memory = (IF d = c THEN "returned" ELSE coros[d].memory)
             /\ coros'[d].ctx = coros[d].ctx /\ coros'[d].is_finished = coros[d].is_finished
  <2> PICK x \in CoroType : x = coros[d]
    BY DEF LibTypeOK
  <2> PICK next \in Ids, prev \in Ids : next = coros[c].next /\ prev = coros[c].prev
    BY <1>4
  <2> PICK y : y = IF d = prev THEN [x EXCEPT !.next = next]
                   ELSE IF d = next THEN [x EXCEPT !.prev = prev] ELSE x
    OBVIOUS
  <2>1. /\ y \in CoroType /\ y.memory = x.memory /\ y.ctx = x.ctx /\ y.is_finished = x.is_finished
        /\ y.next = (IF d = prev THEN next ELSE x.next)
        /\ y.prev = (IF d # prev /\ d = next THEN prev ELSE x.prev)
    <3>1. CASE d = prev
      BY <3>1 DEF CoroType
    <3>2. CASE d # prev /\ d = next
      BY <3>2 DEF CoroType
    <3>3. CASE d # prev /\ d # next
      BY <3>3 DEF CoroType
    <3> QED BY <3>1, <3>2, <3>3
  <2>2. coros'[d] = IF d = c THEN [y EXCEPT !.memory = "returned"] ELSE y
    <3>1. coro_list_delete(coros, c)[d] = y
      BY DEF coro_list_delete
    <3> QED BY <1>2, <3>1 DEF coro_list_delete
  <2>3. CASE d = c
    BY <2>1, <2>2, <2>3 DEF CoroType
  <2>4. CASE d # c
    BY <2>1, <2>2, <2>4
  <2> QED BY <2>3, <2>4
<1>6. coros' \in [LibIds -> CoroType]
  <2>1. PICK f : f = coro_list_delete(coros, c)
    OBVIOUS
  <2>2. f = [d \in LibIds |-> f[d]]
    BY <2>1 DEF coro_list_delete
  <2>3. DOMAIN coros' = LibIds /\ coros' = [d \in LibIds |-> coros'[d]]
    BY <2>1, <2>2
  <2> QED BY <1>5, <2>3
<1>7. Used' = Used \ {c}
  <2>1. \A d \in LibIds : coros'[d].memory = "used" <=> d # c /\ coros[d].memory = "used"
    BY <1>5
  <2>2. Used' = {d \in LibIds : coros'[d].memory = "used"}
    BY DEF Used
  <2> QED BY <2>1, <2>2 DEF Used
<1>8. PICK m : m = [i \in 1 .. n - 1 |-> IF i < k THEN l[i] ELSE l[i + 1]]
  OBVIOUS
<1>9. \A i \in 1 .. n - 1 : i \in 1 .. n /\ i + 1 \in 1 .. n
  BY <1>2
<1>10. m \in [1 .. n - 1 -> LibIds] /\ \A i \in 1 .. n - 1 : m[i] = IF i < k THEN l[i] ELSE l[i + 1]
  BY <1>1, <1>8, <1>9
<1>11. n - 1 \in Nat /\ m \in Seq(LibIds) /\ Len(m) = n - 1 /\ DOMAIN m = 1 .. n - 1
  <2>1. n - 1 \in Nat
    BY <1>2
  <2> QED BY <1>10, <2>1
<1>12. \A i \in 1 .. n : (l[i] = coros[c].prev <=> i + 1 = k) /\ (l[i] = coros[c].next <=> i = k + 1)
  <2>1. ASSUME NEW i \in 1 .. n
        PROVE  l[i] = coros[c].prev <=> i + 1 = k
    <3>1. CASE k = 1
      BY <1>1, <1>4, <2>1, <3>1
    <3>2. CASE k # 1
      <4>1. k - 1 \in 1 .. n /\ (i = k - 1 <=> i + 1 = k)
        BY <1>2, <3>2
      <4> QED BY <1>3, <1>4, <3>2, <4>1
    <3> QED BY <3>1, <3>2
  <2>2. ASSUME NEW i \in 1 .. n
        PROVE  l[i] = coros[c].next <=> i = k + 1
    <3>1. CASE k = n
      BY <1>1, <1>4, <2>2, <3>1
    <3>2. CASE k # n
      <4>1. k + 1 \in 1 .. n
        BY <1>2, <3>2
      <4> QED BY <1>3, <1>4, <3>2, <4>1
    <3> QED BY <3>1, <3>2
  <2> QED BY <2>1, <2>2
<1>13. \A i \in 1 .. n :
         /\ coros'[l[i]].next = (IF i + 1 = k THEN coros[c].next ELSE coros[l[i]].next)
         /\ coros'[l[i]].prev = (IF i = k + 1 THEN coros[c].prev ELSE coros[l[i]].prev)
  <2>1. \A i \in 1 .. n : i = k + 1 => ~(i + 1 = k)
    BY <1>2
  <2> QED BY <1>1, <1>5, <1>12, <2>1
<1>14. \A i \in 1 .. n - 1 : coros'[m[i]].next = IF i = n - 1 THEN NULL ELSE m[i + 1]
  <2> SUFFICES ASSUME NEW i \in 1 .. n - 1
               PROVE  coros'[m[i]].next = IF i = n - 1 THEN NULL ELSE m[i + 1]
    OBVIOUS
  <2>1. i # n - 1 => i + 1 \in 1 .. n - 1
    OBVIOUS
  <2>2. CASE i + 1 < k
    <3>1. i < k /\ i # n - 1 /\ i # n /\ i \in 1 .. n
      BY <1>2, <2>2
    <3> QED BY <1>3, <1>10, <1>13, <2>1, <2>2, <3>1
  <2>3. CASE i + 1 = k
    <3>1. i < k /\ i \in 1 .. n /\ (i = n - 1 <=> k = n) /\ ~(i + 1 < k)
      BY <1>2, <2>3
    <3>2. coros'[m[i]].next = coros[c].next
      BY <1>10, <1>13, <2>3, <3>1
    <3> QED BY <1>4, <1>10, <2>1, <2>3, <3>1, <3>2
  <2>4. CASE i >= k
    <3>1. /\ ~(i < k) /\ ~(i + 1 < k) /\ i + 1 \in 1 .. n /\ ~(i + 1 + 1 = k)
          /\ (i = n - 1 <=> i + 1 = n)
      BY <1>2, <2>4
    <3>2. coros'[m[i]].next = coros[l[i + 1]].next
      BY <1>10, <1>13, <3>1
    <3> QED BY <1>3, <1>10, <2>1, <3>1, <3>2
  <2> QED BY <1>2, <2>2, <2>3, <2>4
<1>15. \A i \in 1 .. n - 1 : coros'[m[i]].prev = IF i = 1 THEN NULL ELSE m[i - 1]
  <2> SUFFICES ASSUME NEW i \in 1 .. n - 1
               PROVE  coros'[m[i]].prev = IF i = 1 THEN NULL ELSE m[i - 1]
    OBVIOUS
  <2>1. i # 1 => i - 1 \in 1 .. n - 1
    OBVIOUS
  <2>2. CASE i < k
    <3>1. i \in 1 .. n /\ ~(i = k + 1) /\ (i # 1 => i - 1 < k)
      BY <1>2, <2>2
    <3> QED BY <1>3, <1>10, <1>13, <2>1, <2>2, <3>1
  <2>3. CASE i = k
    <3>1. i + 1 \in 1 .. n /\ ~(i < k) /\ i + 1 = k + 1 /\ (i # 1 => i - 1 < k)
      BY <1>2, <2>3
    <3>2. coros'[m[i]].prev = coros[c].prev
      BY <1>10, <1>13, <3>1
    <3> QED BY <1>4, <1>10, <2>1, <2>3, <3>1, <3>2
  <2>4. CASE i > k
    <3>1. /\ i + 1 \in 1 .. n /\ ~(i < k) /\ ~(i + 1 = k + 1) /\ i # 1 /\ ~(i - 1 < k)
          /\ i + 1 # 1 /\ i + 1 - 1 = i /\ i - 1 + 1 = i
      BY <1>2, <2>4
    <3>2. coros'[m[i]].prev = coros[l[i + 1]].prev
      BY <1>10, <1>13, <3>1
    <3> QED BY <1>3, <1>10, <2>1, <3>1, <3>2, SMTT(30)
  <2> QED BY <1>2, <2>2, <2>3, <2>4
<1>16. \A i, j \in 1 .. n - 1 : m[i] = m[j] => i = j
  <2>1. ASSUME NEW i \in 1 .. n - 1, NEW j \in 1 .. n - 1, m[i] = m[j]
        PROVE  i = j
    <3>1. PICK p \in 1 .. n : m[i] = l[p] /\ p = IF i < k THEN i ELSE i + 1
      BY <1>9, <1>10
    <3>2. PICK q \in 1 .. n : m[j] = l[q] /\ q = IF j < k THEN j ELSE j + 1
      BY <1>9, <1>10
    <3>3. \A e, f \in 1 .. n : l[e] = l[f] => e = f
      BY <1>3
    <3>4. p = q
      BY ONLY <2>1, <3>1, <3>2, <3>3
    <3> QED BY <1>2, <3>1, <3>2, <3>4
  <2> QED BY <2>1
<1>17. \A d \in LibIds : d \in Used' <=> \E i \in 1 .. n - 1 : m[i] = d
  <2>1. ASSUME NEW d \in LibIds, d \in Used'
        PROVE  \E i \in 1 .. n - 1 : m[i] = d
    <3>1. PICK p \in 1 .. n : l[p] = d /\ p # k
      BY <1>3, <1>7, <2>1
    <3>2. CASE p < k
      <4>1. p \in 1 .. n - 1
        BY <1>2, <3>2
      <4> QED BY <1>10, <3>1, <3>2, <4>1
    <3>3. CASE p > k
      <4>1. PICK i \in 1 .. n - 1 : p = i + 1 /\ ~(i < k)
        <5>1. p - 1 \in 1 .. n - 1 /\ p = p - 1 + 1 /\ ~(p - 1 < k)
          BY <1>2, <3>3
        <5> QED BY <5>1
      <4> QED BY <1>10, <3>1, <4>1
    <3> QED BY <1>2, <3>1, <3>2, <3>3
  <2>2. ASSUME NEW i \in 1 .. n - 1
        PROVE  m[i] \in Used'
    <3>1. PICK p \in 1 .. n : m[i] = l[p] /\ p = IF i < k THEN i ELSE i + 1
      BY <1>9, <1>10
    <3>2. p # k
      BY <1>2, <3>1
    <3> QED BY <1>1, <1>2, <1>3, <1>7, <3>1, <3>2
  <2> QED BY <2>1, <2>2
<1>18. coro_list' = (IF n - 1 = 0 THEN NULL ELSE m[1]) /\ coro_list' \in Ids
  <2>1. CASE k = 1
    <3>1. coro_list' = (IF n = 1 THEN NULL ELSE l[2])
      BY <1>4, <2>1
    <3>2. n # 1 => 1 \in 1 .. n - 1 /\ m[1] = l[2] /\ 2 \in 1 .. n
      BY <1>2, <1>10, <2>1
    <3> QED BY <1>1, <1>2, <3>1, <3>2 DEF Ids
  <2>2. CASE k # 1
    <3>1. k - 1 \in 1 .. n /\ n # 1 /\ 1 \in 1 .. n - 1 /\ 1 < k
      BY <1>2, <2>2
    <3>2. coro_list' = coro_list
      BY <1>1, <1>4, <2>2, <3>1
    <3> QED BY <1>2, <1>3, <1>10, <3>1, <3>2 DEF LibTypeOK
  <2> QED BY <2>1, <2>2
<1>19. Links(m)'
  <2>1. m = <<>> <=> n - 1 = 0
    BY <1>11
  <2> QED BY <1>11, <1>14, <1>18, <2>1 DEF Links
<1>20. Chain(m)'
  BY <1>11, <1>15, <1>16, <1>17, <1>19 DEF Chain
<1> QED BY <1>2, <1>5, <1>6, <1>7, <1>18, <1>20
\* Every step of libcoro keeps the invariant.
LEMMA NewKeeps ==
  ASSUME LibInv, NEW c \in LibIds, coro_new(c)
  PROVE  LibInv'
<1>1. PICK l : Chain(l)
  BY DEF LibInv
<1>2. /\ coros' \in [LibIds -> CoroType] /\ Used' = Used \cup {c}
      /\ coros'[c].ctx = c
      /\ \A d \in LibIds : d # c => coros'[d].ctx = coros[d].ctx /\ coros'[d].memory = coros[d].memory
      /\ \A d \in LibIds : coros'[d].is_finished = coros[d].is_finished
      /\ \E m : Chain(m)'
  BY <1>1, ChainGrows DEF LibInv
<1>3. coro_list' = c /\ UNCHANGED <<coro_this_ptr, is_sched_waiting, control, sched>>
  BY DEF coro_new
<1>4. coros[c].memory = "none" /\ ~coros[c].is_finished /\ (control # SCHED \/ sched = "user")
  BY DEF coro_new, LibInv, CorosMarked
<1>5. LibTypeOK'
  BY <1>2, <1>3 DEF LibTypeOK, LibInv, Ids
<1>6. coros'[c].memory = "used"
  BY <1>2 DEF Used
<1>7. CorosMarked'
  <2>1. ASSUME NEW d \in LibIds
        PROVE  /\ d \in Used' => coros'[d].ctx = d
               /\ coros'[d].memory = "none" => ~coros'[d].is_finished
               /\ coros'[d].memory \in {"returned", "freed"} => coros'[d].is_finished
    <3>1. CASE d = c
      BY <1>2, <1>6, <3>1
    <3>2. CASE d # c
      BY <1>2, <3>2 DEF LibInv, CorosMarked
    <3> QED BY <3>1, <3>2
  <2> QED BY <2>1 DEF CorosMarked
<1>8. UsedFinished' = UsedFinished
  <2>1. \A d \in LibIds : d \in Used' /\ coros'[d].is_finished <=> d \in Used /\ coros[d].is_finished
    BY <1>2, <1>4
  <2>2. UsedFinished' = {d \in Used' : coros'[d].is_finished}
    BY DEF UsedFinished
  <2>3. Used \subseteq LibIds
    BY DEF Used
  <2> QED BY <1>2, <2>1, <2>2, <2>3 DEF UsedFinished
<1>9. SchedulerKnows'
  BY <1>2, <1>3, <1>4, <1>8 DEF LibInv, SchedulerKnows
<1> QED BY <1>2, <1>5, <1>7, <1>9 DEF LibInv

\* The one that runs yields to the next of the list or to the scheduler.
LEMMA CoroYieldKeeps ==
  ASSUME LibInv, coro_yield
  PROVE  /\ LibInv' /\ UsedFinished = {} /\ control' \in Used \cup {SCHED} /\ sched' = sched
         /\ \A d \in LibIds : /\ coros'[d].memory = coros[d].memory
                              /\ coros'[d].is_finished = coros[d].is_finished
<1> USE LibCoroAssumption
<1>1. PICK l : Chain(l)
  BY DEF LibInv
<1>2. PICK from \in LibIds : from = control /\ from \in Used /\ coro_this_ptr = from
  BY DEF coro_yield, LibInv, LibTypeOK, SchedulerKnows, Used
<1>3. PICK to : to = IF coros[from].next = NULL THEN SCHED ELSE coros[from].next
  OBVIOUS
<1>4. PICK cs : cs = [coros EXCEPT ![from].ctx = from, ![from].yields = @ + 1]
  OBVIOUS
<1>5. coros' = cs /\ Jump(cs, to) /\ UNCHANGED <<coro_list, is_sched_waiting, sched>>
  BY <1>2, <1>3, <1>4 DEF coro_yield
<1>6. to \in Used \cup {SCHED}
  <2>1. PICK i \in 1 .. Len(l) : l[i] = from
    BY <1>1, <1>2 DEF Chain
  <2>2. coros[from].next = IF i = Len(l) THEN NULL ELSE l[i + 1]
    <3>1. DOMAIN l = 1 .. Len(l)
      BY <1>1 DEF Chain
    <3>2. Links(l)
      BY <1>1 DEF Chain
    <3> QED BY ONLY <2>1, <3>1, <3>2 DEF Links
  <2>3. i # Len(l) => i + 1 \in 1 .. Len(l)
    BY <1>1 DEF Chain
  <2>4. \A d \in LibIds : d \in Used <=> \E j \in 1 .. Len(l) : l[j] = d
    BY <1>1 DEF Chain
  <2>5. \A j \in 1 .. Len(l) : l[j] \in LibIds
    BY <1>1, ElementOfSeq DEF Chain
  <2> QED BY <1>3, <2>2, <2>3, <2>4, <2>5
<1>7. ASSUME NEW d \in LibIds
      PROVE  /\ coros'[d] \in CoroType
             /\ coros'[d].memory = coros[d].memory /\ coros'[d].is_finished = coros[d].is_finished
             /\ coros'[d].next = coros[d].next /\ coros'[d].prev = coros[d].prev
             /\ coros'[d].ctx = (IF d = from THEN from ELSE coros[d].ctx)
  <2> PICK x \in CoroType : x = coros[d]
    BY DEF LibInv, LibTypeOK
  <2> PICK n \in Nat : n = x.yields + 1
    BY DEF CoroType
  <2>1. coros'[d] = IF d = from THEN [x EXCEPT !.ctx = from, !.yields = n] ELSE x
    BY <1>4, <1>5 DEF LibInv, LibTypeOK
  <2>2. CASE d = from
    <3>1. from \in Ids
      BY DEF Ids
    <3> QED BY <2>1, <2>2, <3>1 DEF CoroType
  <2>3. CASE d # from
    BY <2>1, <2>3
  <2> QED BY <2>2, <2>3
<1>8. coros' \in [LibIds -> CoroType]
  <2>1. DOMAIN coros' = LibIds /\ coros' = [d \in LibIds |-> coros'[d]]
    BY <1>4, <1>5 DEF LibInv, LibTypeOK
  <2> QED BY <1>7, <2>1
<1>9. Chain(l)'
  BY <1>1, <1>5, <1>7, <1>8, ChainStays DEF LibInv
<1>10. Used' = Used /\ UsedFinished' = UsedFinished
  BY <1>7 DEF Used, UsedFinished
<1>11. UsedFinished = {} /\ sched = "waiting" /\ is_sched_waiting
  BY <1>2 DEF LibInv, SchedulerKnows
<1>12. CorosMarked'
  BY <1>7, <1>10 DEF LibInv, CorosMarked
<1>13. control' = to /\ coro_this_ptr' = to
  <2>1. control' = to /\ coro_this_ptr' = IF to = SCHED THEN SCHED ELSE cs[to].ctx
    BY <1>5 DEF Jump
  <2>2. CASE to = SCHED
    BY <2>1, <2>2
  <2>3. CASE to # SCHED
    <3>1. to \in Used' /\ to \in LibIds
      BY <1>6, <1>10, <2>3 DEF Used
    <3> QED BY <1>5, <1>12, <2>1, <2>3, <3>1 DEF CorosMarked
  <2> QED BY <2>2, <2>3
<1>14. LibTypeOK'
  BY <1>5, <1>6, <1>8, <1>11, <1>13 DEF LibInv, LibTypeOK, Used
<1>15. SchedulerKnows'
  BY <1>5, <1>6, <1>10, <1>11, <1>13 DEF LibInv, SchedulerKnows
<1>16. LibInv'
  BY <1>9, <1>12, <1>14, <1>15 DEF LibInv
<1> QED BY <1>5, <1>6, <1>7, <1>11, <1>13, <1>16

\* The one that runs ends, and the scheduler goes on.
LEMMA CoroEndKeeps ==
  ASSUME LibInv, coro_end
  PROVE  /\ LibInv' /\ control' = SCHED /\ sched' = sched
         /\ control \in Used /\ ~coros[control].is_finished
         /\ \A d \in LibIds : /\ coros'[d].memory = coros[d].memory
                              /\ coros'[d].is_finished = (d = control \/ coros[d].is_finished)
<1> USE LibCoroAssumption
<1>1. PICK l : Chain(l)
  BY DEF LibInv
<1>2. PICK c \in LibIds : c = control /\ c \in Used /\ UsedFinished = {}
  BY DEF coro_end, LibInv, LibTypeOK, SchedulerKnows, Used
<1>3. is_sched_waiting /\ sched = "waiting"
  BY <1>2 DEF coro_end, LibInv, SchedulerKnows
<1>4. /\ coros' = [coros EXCEPT ![c].is_finished = TRUE]
      /\ control' = SCHED /\ coro_this_ptr' = SCHED
      /\ UNCHANGED <<coro_list, is_sched_waiting, sched>>
  BY <1>2, <1>3 DEF coro_end, Jump
<1>5. ASSUME NEW d \in LibIds
      PROVE  /\ coros'[d] \in CoroType
             /\ coros'[d].memory = coros[d].memory
             /\ coros'[d].is_finished = (d = c \/ coros[d].is_finished)
             /\ coros'[d].next = coros[d].next /\ coros'[d].prev = coros[d].prev
             /\ coros'[d].ctx = coros[d].ctx
  <2> PICK x \in CoroType : x = coros[d]
    BY DEF LibInv, LibTypeOK
  <2>1. coros'[d] = IF d = c THEN [x EXCEPT !.is_finished = TRUE] ELSE x
    BY <1>4 DEF LibInv, LibTypeOK
  <2>2. CASE d = c
    BY <2>1, <2>2 DEF CoroType
  <2>3. CASE d # c
    BY <2>1, <2>3 DEF CoroType
  <2> QED BY <2>2, <2>3
<1>6. coros' \in [LibIds -> CoroType]
  <2>1. DOMAIN coros' = LibIds /\ coros' = [d \in LibIds |-> coros'[d]]
    BY <1>4 DEF LibInv, LibTypeOK
  <2> QED BY <1>5, <2>1
<1>7. Chain(l)'
  BY <1>1, <1>4, <1>5, <1>6, ChainStays DEF LibInv
<1>8. Used' = Used
  BY <1>5 DEF Used
<1>9. UsedFinished' = {c}
  <2>1. UsedFinished' = {d \in Used : coros'[d].is_finished}
    BY <1>8 DEF UsedFinished
  <2>2. \A d \in Used : d \in LibIds /\ ~coros[d].is_finished
    BY <1>2 DEF Used, UsedFinished
  <2> QED BY <1>2, <1>5, <2>1, <2>2
<1>10. CorosMarked'
  <2>1. coros[c].memory = "used"
    BY <1>2 DEF Used
  <2>2. CorosMarked
    BY DEF LibInv
  <2>3. ASSUME NEW d \in LibIds
        PROVE  /\ d \in Used' => coros'[d].ctx = d
               /\ coros'[d].memory = "none" => ~coros'[d].is_finished
               /\ coros'[d].memory \in {"returned", "freed"} => coros'[d].is_finished
    <3>1. /\ d \in Used => coros[d].ctx = d
          /\ coros[d].memory = "none" => ~coros[d].is_finished
          /\ coros[d].memory \in {"returned", "freed"} => coros[d].is_finished
      BY ONLY <2>2, d \in LibIds DEF CorosMarked
    <3>2. /\ coros'[d].memory = coros[d].memory /\ coros'[d].ctx = coros[d].ctx
          /\ coros'[d].is_finished = (d = c \/ coros[d].is_finished)
      BY <1>5
    <3> QED BY ONLY <1>8, <2>1, <3>1, <3>2
  <2> QED BY ONLY <2>3 DEF CorosMarked
<1>11. LibTypeOK'
  BY <1>4, <1>6 DEF LibInv, LibTypeOK
<1>12. SchedulerKnows'
  BY <1>3, <1>4, <1>9 DEF SchedulerKnows
<1>13. LibInv'
  BY <1>7, <1>10, <1>11, <1>12 DEF LibInv
<1>14. ~coros[c].is_finished
  BY <1>2 DEF UsedFinished
<1>15. \A d \in LibIds : /\ coros'[d].memory = coros[d].memory
                         /\ coros'[d].is_finished = (d = control \/ coros[d].is_finished)
  BY ONLY <1>2, <1>5, Zenon
<1> QED BY ONLY <1>2, <1>4, <1>13, <1>14, <1>15, Zenon
\* The scheduler returns one that has finished, or goes through the list
\* from its head, which has not.
LEMMA SchedWaitKeeps ==
  ASSUME LibInv, coro_sched_wait
  PROVE  /\ LibInv'
         /\ \/ Used = {} /\ sched' = "ended" /\ UNCHANGED <<coros, control>>
            \/ /\ sched' = "user" /\ UNCHANGED control
               /\ \A d \in LibIds : /\ coros'[d].memory = "none" <=> coros[d].memory = "none"
                                    /\ coros'[d].is_finished = coros[d].is_finished
            \/ /\ sched' = "waiting" /\ control' \in Used /\ UsedFinished = {}
               /\ UNCHANGED coros
<1> USE LibCoroAssumption
<1>1. PICK l : Chain(l)
  BY DEF LibInv
<1>2. List = l /\ DOMAIN l = 1 .. Len(l) /\ Len(l) \in Nat /\ \A i \in 1 .. Len(l) : l[i] \in LibIds
  BY <1>1, ListIs, ElementOfSeq DEF Chain
<1>3. \A c \in LibIds : c \in Used <=> \E i \in 1 .. Len(l) : l[i] = c
  BY <1>1 DEF Chain
<1> DEFINE ends == {i \in DOMAIN List : coros[List[i]].is_finished}
           done == List[Min(ends)]
<1>4. control = SCHED /\ coro_this_ptr = SCHED
  BY DEF coro_sched_wait, LibInv, LibTypeOK
<1>5. CASE coro_list = NULL
  <2>1. /\ sched' = "ended" /\ is_sched_waiting' = FALSE
        /\ UNCHANGED <<coros, coro_list, control, coro_this_ptr>>
    BY <1>5 DEF coro_sched_wait
  <2>2. LibTypeOK' /\ CorosMarked' /\ Used' = Used /\ UsedFinished' = UsedFinished
    BY <2>1 DEF LibInv, LibTypeOK, CorosMarked, Used, UsedFinished
  <2>3. Used = {}
    <3>1. Links(l)
      BY <1>1 DEF Chain
    <3>2. l = <<>>
      <4>1. l # <<>> => coro_list = l[1] /\ 1 \in 1 .. Len(l)
        <5>1. l # <<>> => coro_list = l[1]
          BY ONLY <3>1 DEF Links
        <5>2. l # <<>> => Len(l) # 0
          BY <1>1 DEF Chain
        <5> QED BY <1>2, <5>1, <5>2
      <4> QED BY <1>2, <1>5, <4>1
    <3> QED BY <1>3, <3>2 DEF Used
  <2>4. UsedFinished = {}
    BY <2>3 DEF UsedFinished
  <2>5. Chain(l)'
    BY <1>1, <2>1, <2>2, ChainStays DEF LibInv, LibTypeOK
  <2>6. SchedulerKnows'
    BY <1>4, <1>5, <2>1, <2>2, <2>4 DEF SchedulerKnows
  <2>7. LibInv'
    BY <2>2, <2>5, <2>6 DEF LibInv
  <2> QED BY <2>1, <2>3, <2>7
<1>6. CASE coro_list # NULL /\ ends # {}
  <2>1. /\ coros' = [coro_list_delete(coros, done) EXCEPT ![done].memory = "returned"]
        /\ coro_list' = IF coros[done].prev = NULL THEN coros[done].next ELSE coro_list
        /\ sched' = "user" /\ is_sched_waiting' = FALSE
        /\ UNCHANGED <<control, coro_this_ptr>>
    BY <1>6, Zenon DEF coro_sched_wait
  <2>2. PICK k \in 1 .. Len(l) : k = Min(ends) /\ coros[l[k]].is_finished
    <3>1. ends \in SUBSET Nat
      BY <1>2
    <3>2. Min(ends) \in ends
      BY <1>6, <3>1, FirstOf, Zenon
    <3> QED BY <1>2, <3>2
  <2> PICK c \in LibIds : c = l[k]
    BY <1>2
  <2>3. c = done /\ c \in UsedFinished
    <3>1. c \in Used
      BY <1>3
    <3>2. coros[c].is_finished
      BY <2>2
    <3>3. c = done
      BY <1>2, <2>2
    <3> QED BY <3>1, <3>2, <3>3 DEF UsedFinished
  <2> HIDE DEF done
  <2>4. /\ coros' = [coro_list_delete(coros, c) EXCEPT ![c].memory = "returned"]
        /\ coro_list' = IF coros[c].prev = NULL THEN coros[c].next ELSE coro_list
    BY ONLY <2>1, <2>3
  <2>5. /\ coros' \in [LibIds -> CoroType] /\ coro_list' \in Ids /\ Used' = Used \ {c}
        /\ coros'[c].memory = "returned"
        /\ \A d \in LibIds : /\ coros'[d].ctx = coros[d].ctx
                             /\ coros'[d].is_finished = coros[d].is_finished
                             /\ d # c => coros'[d].memory = coros[d].memory
        /\ \E m : Chain(m)'
    BY <1>1, <2>4, ChainShrinks DEF LibInv
  <2>6. UsedFinished' = {}
    <3>1. \A d \in UsedFinished : d = c
      BY <2>3 DEF LibInv, SchedulerKnows
    <3>2. UsedFinished' = {d \in Used \ {c} : coros'[d].is_finished}
      BY <2>5 DEF UsedFinished
    <3>3. \A d \in Used : coros'[d].is_finished = coros[d].is_finished
      BY <2>5 DEF Used
    <3> QED BY <3>1, <3>2, <3>3 DEF UsedFinished
  <2>7. CorosMarked'
    <3>1. ASSUME NEW d \in LibIds
          PROVE  /\ d \in Used' => coros'[d].ctx = d
                 /\ coros'[d].memory = "none" => ~coros'[d].is_finished
                 /\ coros'[d].memory \in {"returned", "freed"} => coros'[d].is_finished
      <4>1. CASE d = c
        BY <2>3, <2>5, <4>1 DEF UsedFinished
      <4>2. CASE d # c
        BY <2>5, <4>2 DEF LibInv, CorosMarked
      <4> QED BY <4>1, <4>2
    <3> QED BY <3>1 DEF CorosMarked
  <2>8. LibTypeOK'
    BY <2>1, <2>5 DEF LibInv, LibTypeOK
  <2>9. SchedulerKnows'
    BY <1>4, <2>1, <2>6 DEF SchedulerKnows
  <2>10. LibInv'
    BY <2>5, <2>7, <2>8, <2>9 DEF LibInv
  <2>11. coros[c].memory = "used"
    BY <2>3 DEF UsedFinished, Used
  <2> QED BY <2>1, <2>5, <2>10, <2>11
<1>7. CASE coro_list # NULL /\ ends = {}
  <2>1. /\ is_sched_waiting' = TRUE /\ sched' = "waiting"
        /\ Jump(coros, coro_list)
        /\ UNCHANGED <<coros, coro_list>>
    BY <1>7, Zenon DEF coro_sched_wait
  <2>2. coro_list \in Used /\ coro_list \in LibIds
    <3>1. Links(l)
      BY <1>1 DEF Chain
    <3>2. l # <<>> /\ coro_list = l[1]
      BY ONLY <1>7, <3>1 DEF Links
    <3>3. 1 \in 1 .. Len(l)
      BY <1>1, <1>2, <3>2 DEF Chain
    <3> QED BY <1>2, <1>3, <3>2, <3>3
  <2>3. control' = coro_list /\ coro_this_ptr' = coro_list
    <3>1. coro_list # SCHED /\ coros[coro_list].ctx = coro_list
      BY <2>2 DEF LibInv, CorosMarked
    <3> QED BY <2>1, <3>1 DEF Jump
  <2>4. UsedFinished = {}
    BY <1>2, <1>3, <1>7 DEF UsedFinished, Used
  <2>5. /\ LibTypeOK' /\ CorosMarked' /\ Used' = Used /\ UsedFinished' = UsedFinished
    BY <2>1, <2>2, <2>3 DEF LibInv, LibTypeOK, CorosMarked, Used, UsedFinished
  <2>6. Chain(l)'
    BY <1>1, <2>1, <2>5, ChainStays DEF LibInv, LibTypeOK
  <2>7. SchedulerKnows'
    BY <2>1, <2>2, <2>3, <2>4, <2>5 DEF SchedulerKnows
  <2>8. LibInv'
    BY <2>5, <2>6, <2>7 DEF LibInv
  <2> QED BY <2>1, <2>2, <2>3, <2>4, <2>8
<1> QED BY <1>5, <1>6, <1>7

\* What is freed has been returned and is not in the list.
LEMMA CoroDeleteKeeps ==
  ASSUME LibInv, NEW c \in LibIds, coro_delete(c)
  PROVE  LibInv'
<1>1. PICK l : Chain(l)
  BY DEF LibInv
<1>2. ASSUME NEW d \in LibIds
      PROVE  /\ coros'[d] \in CoroType
             /\ coros'[d].memory = (IF d = c THEN "freed" ELSE coros[d].memory)
             /\ coros'[d].is_finished = coros[d].is_finished
             /\ coros'[d].next = coros[d].next /\ coros'[d].prev = coros[d].prev
             /\ coros'[d].ctx = coros[d].ctx
  <2> PICK x \in CoroType : x = coros[d]
    BY DEF LibInv, LibTypeOK
  <2>1. coros'[d] = IF d = c THEN [x EXCEPT !.memory = "freed"] ELSE x
    BY DEF coro_delete, LibInv, LibTypeOK
  <2>2. CASE d = c
    BY <2>1, <2>2 DEF CoroType
  <2>3. CASE d # c
    BY <2>1, <2>3
  <2> QED BY <2>2, <2>3
<1>3. coros' \in [LibIds -> CoroType]
  <2>1. DOMAIN coros' = LibIds /\ coros' = [d \in LibIds |-> coros'[d]]
    BY DEF coro_delete, LibInv, LibTypeOK
  <2> QED BY <1>2, <2>1
<1>4. /\ UNCHANGED <<coro_this_ptr, coro_list, is_sched_waiting, control, sched>>
      /\ coros[c].memory = "returned"
  BY DEF coro_delete
<1>5. \A d \in LibIds : coros'[d].memory = "used" <=> coros[d].memory = "used"
  BY <1>2, <1>4
<1>6. Chain(l)'
  BY <1>1, <1>2, <1>3, <1>4, <1>5, ChainStays DEF LibInv
<1>7. Used' = Used /\ UsedFinished' = UsedFinished
  <2>1. Used' = Used
    BY <1>5 DEF Used
  <2> QED BY <1>2, <2>1 DEF UsedFinished, Used
<1>8. CorosMarked'
  BY <1>2, <1>4, <1>7 DEF LibInv, CorosMarked
<1>9. LibTypeOK' /\ SchedulerKnows'
  BY <1>3, <1>4, <1>7 DEF LibInv, LibTypeOK, SchedulerKnows
<1> QED BY <1>6, <1>8, <1>9 DEF LibInv

\* Every step of 12_libcoro.c keeps its invariant.
LEMMA LibNextKeeps ==
  ASSUME LibInv, [LibNext]_lib_vars
  PROVE  LibInv'
<1>1. CASE UNCHANGED lib_vars
  <2>1. PICK l : Chain(l)
    BY DEF LibInv
  <2>2. LibTypeOK' /\ CorosMarked' /\ SchedulerKnows' /\ Used' = Used
    BY <1>1 DEF lib_vars, LibInv, LibTypeOK, CorosMarked, SchedulerKnows, Used, UsedFinished
  <2>3. UNCHANGED <<coros, coro_list>>
    BY <1>1 DEF lib_vars
  <2>4. Chain(l)'
    BY <2>1, <2>2, <2>3, ChainStays DEF LibInv, LibTypeOK
  <2> QED BY <2>2, <2>4 DEF LibInv
<1> QED BY <1>1, NewKeeps, CoroYieldKeeps, CoroEndKeeps, SchedWaitKeeps, CoroDeleteKeeps DEF LibNext

\* It holds after coro_sched_init().
LEMMA LibInitKeeps ==
  ASSUME LibInit
  PROVE  LibInv
<1> USE LibCoroAssumption
<1>1. NoCoro \in CoroType /\ NoCoro.memory = "none" /\ ~NoCoro.is_finished
  BY DEF NoCoro, CoroType, Ids
<1>2. coros = [c \in LibIds |-> NoCoro]
  BY DEF LibInit
<1>3. Used = {} /\ UsedFinished = {}
  BY <1>1, <1>2 DEF Used, UsedFinished
<1>4. LibTypeOK
  BY <1>1 DEF LibInit, LibTypeOK, Ids
<1>5. CorosMarked
  BY <1>1, <1>2, <1>3 DEF CorosMarked
<1>6. SchedulerKnows
  BY <1>3 DEF SchedulerKnows, LibInit
<1>7. Chain(<<>>)
  <2>1. <<>> \in Seq(LibIds) /\ Len(<<>>) = 0
    OBVIOUS
  <2>2. Links(<<>>)
    BY DEF Links, LibInit
  <2> QED BY <1>3, <2>1, <2>2 DEF Chain
<1> QED BY <1>4, <1>5, <1>6, <1>7 DEF LibInv

\* The invariant says what LibSound does.
LEMMA LibFromInv ==
  ASSUME LibInv
  PROVE  LibSound
<1> USE LibCoroAssumption
<1>1. PICK l : Chain(l)
  BY DEF LibInv
<1>2. List = l /\ l \in Lists /\ DOMAIN l = 1 .. Len(l)
  BY <1>1, ListIs DEF Chain
<1>3. \A i \in 1 .. Len(l) : l[i] \in LibIds
  BY <1>1, ElementOfSeq DEF Chain
<1>4. {l[i] : i \in 1 .. Len(l)} = Used
  <2>1. \A c \in LibIds : c \in Used <=> \E i \in 1 .. Len(l) : l[i] = c
    BY <1>1 DEF Chain
  <2>2. Used \subseteq LibIds
    BY DEF Used
  <2> QED BY <1>3, <2>1, <2>2
<1>5. Cardinality(UsedFinished) <= 1
  <2>1. CASE UsedFinished = {}
    BY <2>1, FS_EmptySet
  <2>2. CASE UsedFinished # {}
    <3>1. PICK c : UsedFinished = {c}
      BY <2>2 DEF LibInv, SchedulerKnows
    <3> QED BY <3>1, FS_Singleton
  <2> QED BY <2>1, <2>2
<1>6. {c \in LibIds : coros[c].memory = "used" /\ coros[c].is_finished} = UsedFinished
  BY DEF UsedFinished, Used
<1>7. control # SCHED => /\ coros[control].memory = "used" /\ ~coros[control].is_finished
                         /\ is_sched_waiting
  BY DEF LibInv, SchedulerKnows, UsedFinished, Used
<1>8. coro_this_ptr = control /\ sched # "no place to return"
  BY DEF LibInv, LibTypeOK
<1>9. /\ \E m \in Lists : Links(m)
      /\ \A i, k \in 1 .. Len(l) : l[i] = l[k] => i = k
      /\ \A i \in 1 .. Len(l) : coros[l[i]].prev = IF i = 1 THEN NULL ELSE l[i - 1]
  BY <1>1, <1>2 DEF Chain
<1>10. {c \in LibIds : coros[c].memory = "used"} = Used
  BY DEF Used
<1>11. {List[i] : i \in DOMAIN List} = {c \in LibIds : coros[c].memory = "used"}
  BY ONLY <1>2, <1>4, <1>10
<1>12. Cardinality({c \in LibIds : coros[c].memory = "used" /\ coros[c].is_finished}) <= 1
  BY ONLY <1>5, <1>6
<1>13. /\ \A i, k \in DOMAIN List : List[i] = List[k] => i = k
       /\ \A i \in DOMAIN List : coros[List[i]].prev = IF i = 1 THEN NULL ELSE List[i - 1]
  BY ONLY <1>2, <1>9
<1> QED BY ONLY <1>7, <1>8, <1>9, <1>11, <1>12, <1>13, Zenon DEF LibSound

-----------------------------------------------------------------------------
(* 1/main.c *)

\* A context of data[], of whose other fields nothing is said here.
IsContext(d) ==
  DOMAIN d = {"pc", "pos", "buf", "calls", "finished"} /\ d.finished \in BOOLEAN

Files == DOMAIN data

\* One that has not finished runs until all have, and then main() does, or
\* nobody does when uc_link was read too early.
SortInv ==
  /\ sort_input \in SortInputs /\ Files = DOMAIN sort_input
  /\ data = [n \in Files |-> data[n]] /\ \A n \in Files : IsContext(data[n])
  /\ uctx \in Files => sort_main = "coros" /\ ~data[uctx].finished
  /\ uctx \notin Files => \/ uctx = UCTX_MAIN /\ \A n \in Files : data[n].finished
                          \/ uctx = LOST /\ LinkRead # "end" /\ sort_main = "coros"

\* The contexts are counted from 1.
LEMMA FilesAre ==
  ASSUME SortInv
  PROVE  Files \subseteq Nat \ {0} /\ UCTX_MAIN \notin Files
<1>1. sort_input \in Seq(Seq(0 .. INT_MAX))
  BY CoroSortAssumption DEF SortInv
<1>2. DOMAIN sort_input \subseteq Nat \ {0}
  BY <1>1, LenProperties
<1> QED BY <1>2 DEF SortInv, UCTX_MAIN

\* The loops of swap() and terminate() find another one that has not
\* finished if there is one.
LEMMA NextAliveIs ==
  ASSUME SortInv, NEW n \in Files
  PROVE  \/ NextAlive(n) \in Files /\ NextAlive(n) # n /\ ~data[NextAlive(n)].finished
         \/ NextAlive(n) = n /\ \A i \in Files : i = n \/ data[i].finished
<1> DEFINE alive == {i \in Files : i # n /\ ~data[i].finished}
           later == {i \in alive : i > n}
<1>1. NextAlive(n) = IF later # {} THEN Min(later) ELSE IF alive # {} THEN Min(alive) ELSE n
  BY Zenon DEF NextAlive, Files
<1>2. alive \in SUBSET Nat /\ later \in SUBSET Nat /\ later \subseteq alive
  BY FilesAre
<1>3. \A i \in alive : i \in Files /\ i # n /\ ~data[i].finished
  OBVIOUS
<1>4. alive = {} => \A i \in Files : i = n \/ data[i].finished
  OBVIOUS
<1> HIDE DEF alive, later
<1>5. CASE later # {}
  BY <1>1, <1>2, <1>3, <1>5, FirstOf
<1>6. CASE later = {} /\ alive # {}
  BY <1>1, <1>2, <1>3, <1>6, FirstOf
<1>7. CASE later = {} /\ alive = {}
  BY <1>1, <1>4, <1>7
<1> QED BY <1>5, <1>6, <1>7

\* What a coroutine does to its own context, and whom it gives control.
SortMove(n) ==
  /\ n \in Files /\ uctx = n /\ uctx' \in Files /\ ~data[uctx'].finished
  /\ UNCHANGED <<sort_input, sort_main>> /\ Files' = Files
  /\ \A i \in Files : data'[i].finished = data[i].finished

\* A step of a coroutine that puts new for its context.
LEMMA ContextMoves ==
  ASSUME SortInv, NEW n \in Files, uctx = n, NEW new, IsContext(new),
         new.finished = data[n].finished,
         data' = [data EXCEPT ![n] = new], uctx' \in {n, NextAlive(n)},
         UNCHANGED <<sort_input, sort_main>>
  PROVE  SortInv' /\ SortMove(n)
<1>1. Files' = Files /\ data' = [i \in Files |-> data'[i]]
  BY DEF SortInv, Files
<1>2. \A i \in Files : data'[i] = IF i = n THEN new ELSE data[i]
  BY DEF SortInv
<1>3. \A i \in Files : IsContext(data'[i]) /\ data'[i].finished = data[i].finished
  BY <1>2 DEF SortInv
<1>4. uctx' \in Files /\ ~data[uctx'].finished
  BY NextAliveIs DEF SortInv
<1>5. SortInv'
  BY <1>1, <1>3, <1>4 DEF SortInv
<1> QED BY <1>1, <1>3, <1>4, <1>5 DEF SortMove

\* One of the other fields of a context changes.
LEMMA OtherFields ==
  ASSUME NEW d, IsContext(d), NEW x
  PROVE  /\ IsContext([d EXCEPT !.calls = x]) /\ [d EXCEPT !.calls = x].finished = d.finished
         /\ IsContext([d EXCEPT !.pc = x]) /\ [d EXCEPT !.pc = x].finished = d.finished
         /\ IsContext([d EXCEPT !.pos = x]) /\ [d EXCEPT !.pos = x].finished = d.finished
BY DEF IsContext

\* Goes() is such a step.
LEMMA GoesMoves ==
  ASSUME SortInv, NEW n \in Files, uctx = n, NEW new, IsContext(new),
         new.finished = data[n].finished, Goes(n, new)
  PROVE  SortInv' /\ SortMove(n)
BY ContextMoves DEF Goes, swap

\* A coroutine that does not end keeps control or gives it to one that has
\* not finished.
LEMMA SortStepMoves ==
  ASSUME SortInv, NEW n \in Files, SortStep(n), ~EndFile(n)
  PROVE  SortInv' /\ SortMove(n)
<1>1. PICK d : d = data[n] /\ IsContext(d)
  BY DEF SortInv
<1>2. CASE ReadNumber(n)
  <2>1. uctx = n /\ \E x, y : \/ Goes(n, [d EXCEPT !.buf = x, !.pos = y])
                              \/ Goes(n, [d EXCEPT !.pc = x, !.calls = y])
    BY <1>1, <1>2, Zenon DEF ReadNumber
  <2>2. PICK x, y : \/ Goes(n, [d EXCEPT !.buf = x, !.pos = y])
                    \/ Goes(n, [d EXCEPT !.pc = x, !.calls = y])
    BY <2>1
  <2>3. CASE Goes(n, [d EXCEPT !.buf = x, !.pos = y])
    <3>1. PICK new : new = [d EXCEPT !.buf = x, !.pos = y]
      OBVIOUS
    <3>2. IsContext(new) /\ new.finished = data[n].finished
      BY ONLY <1>1, <3>1 DEF IsContext
    <3>3. Goes(n, new)
      BY ONLY <2>3, <3>1
    <3> QED BY ONLY SortInv, n \in Files, <2>1, <3>2, <3>3, GoesMoves
  <2>4. CASE Goes(n, [d EXCEPT !.pc = x, !.calls = y])
    <3>1. PICK new : new = [d EXCEPT !.pc = x, !.calls = y]
      OBVIOUS
    <3>2. IsContext(new) /\ new.finished = data[n].finished
      BY ONLY <1>1, <3>1 DEF IsContext
    <3>3. Goes(n, new)
      BY ONLY <2>4, <3>1
    <3> QED BY ONLY SortInv, n \in Files, <2>1, <3>2, <3>3, GoesMoves
  <2> QED BY <2>2, <2>3, <2>4
<1>3. CASE QuickSortPart(n)
  <2>1. uctx = n /\ \E x, y : Goes(n, [d EXCEPT !.buf = x, !.calls = y])
    BY <1>1, <1>3, Zenon DEF QuickSortPart, Sorting
  <2>2. PICK x, y : Goes(n, [d EXCEPT !.buf = x, !.calls = y])
    BY <2>1
  <2>3. PICK new : new = [d EXCEPT !.buf = x, !.calls = y]
    OBVIOUS
  <2>4. IsContext(new) /\ new.finished = data[n].finished
    BY ONLY <1>1, <2>3 DEF IsContext
  <2>5. Goes(n, new)
    BY ONLY <2>2, <2>3
  <2> QED BY ONLY SortInv, n \in Files, <2>1, <2>4, <2>5, GoesMoves
<1>4. CASE QuickSortNothing(n)
  <2>1. PICK x : x = Front(d.calls)
    OBVIOUS
  <2>2. /\ uctx = n /\ UNCHANGED <<sort_input, sort_files, uctx, sort_main, sort_out>>
        /\ data' = [data EXCEPT ![n] = [d EXCEPT !.calls = x]]
    BY <1>1, <1>4, <2>1 DEF QuickSortNothing, Sorting, SortInv
  <2>3. IsContext([d EXCEPT !.calls = x]) /\ [d EXCEPT !.calls = x].finished = d.finished
    BY <1>1, OtherFields
  <2> QED BY <1>1, <2>2, <2>3, ContextMoves
<1>5. CASE QuickSortLeft(n) \/ QuickSortRight(n)
  <2>1. uctx = n /\ \E x : Goes(n, [d EXCEPT !.calls = x])
    BY <1>1, <1>5, Zenon DEF QuickSortLeft, QuickSortRight, Sorting
  <2> QED BY <1>1, <2>1, OtherFields, GoesMoves
<1>6. CASE Rewind(n)
  <2>1. uctx = n /\ \E x, y : \/ Goes(n, [d EXCEPT !.pc = x])
                              \/ Goes(n, [d EXCEPT !.pc = x, !.pos = y])
    BY <1>1, <1>6, Zenon DEF Rewind
  <2>2. PICK x, y : \/ Goes(n, [d EXCEPT !.pc = x])
                    \/ Goes(n, [d EXCEPT !.pc = x, !.pos = y])
    BY <2>1
  <2>3. CASE Goes(n, [d EXCEPT !.pc = x])
    BY <1>1, <2>1, <2>3, OtherFields, GoesMoves
  <2>4. CASE Goes(n, [d EXCEPT !.pc = x, !.pos = y])
    <3>1. PICK new : new = [d EXCEPT !.pc = x, !.pos = y]
      OBVIOUS
    <3>2. IsContext(new) /\ new.finished = data[n].finished
      BY ONLY <1>1, <3>1 DEF IsContext
    <3>3. Goes(n, new)
      BY ONLY <2>4, <3>1
    <3> QED BY ONLY SortInv, n \in Files, <2>1, <3>2, <3>3, GoesMoves
  <2> QED BY <2>2, <2>3, <2>4
<1>7. CASE WriteNumber(n)
  <2>1. CASE Goes(n, [d EXCEPT !.pc = "close"]) /\ uctx = n
    BY <1>1, <2>1, OtherFields, GoesMoves
  <2>2. CASE ~(Goes(n, [d EXCEPT !.pc = "close"]) /\ uctx = n)
    <3>1. PICK x : x = d.pos + 1
      OBVIOUS
    <3>2. uctx = n /\ data' = [data EXCEPT ![n].pos = @ + 1] /\ swap(n)
          /\ UNCHANGED <<sort_input, sort_main, sort_out>>
      BY <1>1, <1>7, <2>2, Zenon DEF WriteNumber
    <3>3. data' = [data EXCEPT ![n] = [d EXCEPT !.pos = x]]
      BY <1>1, <3>1, <3>2 DEF SortInv
    <3>4. IsContext([d EXCEPT !.pos = x]) /\ [d EXCEPT !.pos = x].finished = d.finished
      BY <1>1, OtherFields
    <3> QED BY <1>1, <3>2, <3>3, <3>4, ContextMoves DEF swap
  <2> QED BY <2>1, <2>2
<1> QED BY <1>2, <1>3, <1>4, <1>5, <1>6, <1>7 DEF SortStep

\* The coroutine that ends is followed by another that has not, or by main()
\* when there is none, if the C library reads uc_link at the end.
LEMMA EndFileMoves ==
  ASSUME SortInv, NEW n \in Files, EndFile(n), LinkRead = "end"
  PROVE  /\ SortInv' /\ uctx = n /\ ~data[n].finished /\ Files' = Files
         /\ UNCHANGED <<sort_input, sort_main>>
         /\ \A i \in Files : data'[i].finished = (i = n \/ data[i].finished)
         /\ uctx' \in Files \cup {UCTX_MAIN}
         /\ uctx' \in Files => uctx' # n /\ ~data[uctx'].finished
<1>1. PICK d : d = data[n] /\ IsContext(d)
  BY DEF SortInv
<1>2. PICK new : new = [d EXCEPT !.finished = TRUE, !.pc = "over"]
  OBVIOUS
<1>3. IsContext(new) /\ new.finished = TRUE
  BY <1>1, <1>2 DEF IsContext
<1>4. /\ uctx = n /\ data' = [data EXCEPT ![n] = new] /\ uctx' = Link(n)
      /\ UNCHANGED <<sort_input, sort_main>>
  BY <1>1, <1>2 DEF EndFile, terminate, SortInv
<1>5. Files' = Files /\ data' = [i \in Files |-> data'[i]]
  BY <1>4 DEF SortInv, Files
<1>6. \A i \in Files : data'[i] = IF i = n THEN new ELSE data[i]
  BY <1>4 DEF SortInv
<1>7. \A i \in Files : IsContext(data'[i]) /\ data'[i].finished = (i = n \/ data[i].finished)
  BY <1>3, <1>6 DEF SortInv, IsContext
<1>8. sort_main = "coros" /\ ~data[n].finished
  BY <1>4 DEF SortInv
<1>9. CASE NextAlive(n) \in Files /\ NextAlive(n) # n /\ ~data[NextAlive(n)].finished
  <2>1. uctx' = NextAlive(n)
    BY <1>4, <1>9 DEF Link
  <2>2. SortInv'
    BY <1>4, <1>5, <1>7, <1>8, <1>9, <2>1 DEF SortInv
  <2> QED BY <1>4, <1>5, <1>7, <1>8, <1>9, <2>1, <2>2
<1>10. CASE NextAlive(n) = n /\ \A i \in Files : i = n \/ data[i].finished
  <2>1. uctx' = UCTX_MAIN /\ UCTX_MAIN \notin Files
    BY <1>4, <1>10, FilesAre DEF Link
  <2>2. \A i \in Files : data'[i].finished
    BY <1>7, <1>10
  <2>3. SortInv'
    BY <1>4, <1>5, <1>7, <2>1, <2>2 DEF SortInv
  <2> QED BY <1>4, <1>5, <1>7, <1>8, <2>1, <2>3
<1> QED BY <1>9, <1>10, NextAliveIs

\* Otherwise the thread ends with the first of them.
LEMMA EndFileLost ==
  ASSUME SortInv, NEW n \in Files, EndFile(n), LinkRead # "end"
  PROVE  SortInv'
<1>1. PICK d : d = data[n] /\ IsContext(d)
  BY DEF SortInv
<1>2. PICK new : new = [d EXCEPT !.finished = TRUE, !.pc = "over"]
  OBVIOUS
<1>3. IsContext(new)
  BY <1>1, <1>2 DEF IsContext
<1>4. /\ uctx = n /\ data' = [data EXCEPT ![n] = new] /\ uctx' = LOST
      /\ UNCHANGED <<sort_input, sort_main>>
  BY <1>1, <1>2 DEF EndFile, terminate, SortInv
<1>5. Files' = Files /\ data' = [i \in Files |-> data'[i]]
  BY <1>4 DEF SortInv, Files
<1>6. \A i \in Files : IsContext(data'[i])
  BY <1>3, <1>4 DEF SortInv
<1>7. sort_main = "coros" /\ uctx' \notin Files
  BY <1>4, FilesAre DEF SortInv, LOST
<1> QED BY <1>4, <1>5, <1>6, <1>7 DEF SortInv

\* main() merges only what all coroutines have sorted.
LEMMA MainMoves ==
  ASSUME SortInv, StartMerge \/ Merge
  PROVE  /\ SortInv' /\ uctx = UCTX_MAIN /\ uctx' = uctx /\ Files' = Files
         /\ \A i \in Files : data[i].finished /\ data'[i].finished
         /\ sort_main' # "coros"
<1>1. UCTX_MAIN \notin Files
  BY FilesAre
<1>2. uctx = UCTX_MAIN /\ uctx' = uctx /\ UNCHANGED sort_input /\ \A i \in Files : data[i].finished
  <2>1. uctx = UCTX_MAIN /\ uctx' = uctx /\ UNCHANGED sort_input
    BY DEF StartMerge, Merge
  <2>2. UCTX_MAIN # LOST
    BY DEF UCTX_MAIN, LOST
  <2>3. \A i \in Files : data[i].finished
    BY <1>1, <2>1, <2>2 DEF SortInv
  <2> QED BY <2>1, <2>3
<1>3. sort_main' # "coros"
  BY DEF StartMerge, Merge
<1>4. CASE UNCHANGED data
  BY <1>1, <1>2, <1>3, <1>4 DEF SortInv, Files
<1>5. CASE ~UNCHANGED data
  <2>1. PICK flag : data' = [data EXCEPT ![flag].buf = Tail(@)]
    BY <1>5, Zenon DEF StartMerge, Merge
  <2>2. Files' = Files /\ data' = [i \in Files |-> data'[i]]
    BY <2>1 DEF SortInv, Files
  <2>3. ASSUME NEW i \in Files
        PROVE  IsContext(data'[i]) /\ data'[i].finished = data[i].finished
    <3>1. PICK x : x = Tail(data[i].buf)
      OBVIOUS
    <3>2. data'[i] = data[i] \/ data'[i] = [data[i] EXCEPT !.buf = x]
      BY <2>1, <3>1 DEF SortInv
    <3>3. IsContext(data[i])
      BY DEF SortInv
    <3> QED BY <3>2, <3>3 DEF IsContext
  <2>4. SortInv'
    BY <1>1, <1>2, <2>2, <2>3 DEF SortInv
  <2> QED BY <1>2, <1>3, <2>2, <2>3, <2>4
<1> QED BY <1>4, <1>5

\* Every step of 1/main.c keeps its invariant.
LEMMA SortNextKeeps ==
  ASSUME SortInv, [SortNext]_sort_vars
  PROVE  SortInv'
<1>1. CASE UNCHANGED sort_vars
  BY <1>1 DEF sort_vars, SortInv, Files
<1>2. CASE \E n \in Files : SortStep(n)
  BY <1>2, SortStepMoves, EndFileMoves, EndFileLost
<1>3. CASE StartMerge \/ Merge
  BY <1>3, MainMoves
<1> QED BY <1>1, <1>2, <1>3 DEF SortNext, Files

\* It holds when main() has made the contexts.
LEMMA SortInitKeeps ==
  ASSUME SortInit
  PROVE  SortInv
<1>1. sort_input \in SortInputs /\ sort_input \in Seq(Seq(0 .. INT_MAX)) /\ sort_input # <<>>
  BY CoroSortAssumption DEF SortInit
<1>2. 1 \in DOMAIN sort_input
  BY <1>1, EmptySeq, LenProperties
<1>3. IsContext(Context) /\ ~Context.finished
  BY DEF IsContext, Context
<1>4. Files = DOMAIN sort_input /\ data = [n \in Files |-> Context]
  BY DEF SortInit, Files
<1>5. uctx = 1 /\ sort_main = "coros"
  BY DEF SortInit
<1> QED BY <1>1, <1>2, <1>3, <1>4, <1>5 DEF SortInv

-----------------------------------------------------------------------------
(* How many of a number there are *)

Numbers == 0 .. INT_MAX

\* Where v is in s.
Holding(s, v) == {i \in DOMAIN s : s[i] = v}

\* There are so many of a number.
LEMMA CountIs ==
  ASSUME NEW s \in Seq(Numbers), NEW v
  PROVE  IsFiniteSet(Holding(s, v)) /\ Count(s, v) = Cardinality(Holding(s, v)) /\ Count(s, v) \in Nat
<1> PICK n \in Nat : n = Len(s)
  OBVIOUS
<1>1. Holding(s, v) \subseteq 1 .. n
  BY DEF Holding
<1>2. IsFiniteSet(1 .. n)
  BY FS_Interval
<1>3. IsFiniteSet(Holding(s, v))
  BY <1>1, <1>2, FS_Subset
<1>4. Count(s, v) = Cardinality(Holding(s, v))
  BY DEF Count, Holding
<1> QED BY <1>3, <1>4, FS_CardinalityType

\* Between positions that are exchanged one for one as many hold a number.
LEMMA CountMoved ==
  ASSUME NEW s \in Seq(Numbers), NEW t \in Seq(Numbers), Len(s) = Len(t),
         NEW move \in [1 .. Len(s) -> 1 .. Len(s)],
         \A i \in 1 .. Len(s) : move[move[i]] = i /\ t[move[i]] = s[i],
         NEW v
  PROVE  Count(t, v) = Count(s, v)
<1> PICK n \in Nat : n = Len(s)
  OBVIOUS
<1> PICK f : f = [i \in Holding(s, v) |-> move[i]]
  OBVIOUS
<1>1. /\ \A i \in 1 .. n : (i \in Holding(s, v)) = (s[i] = v)
      /\ \A i \in 1 .. n : (i \in Holding(t, v)) = (t[i] = v)
      /\ Holding(s, v) \subseteq 1 .. n /\ Holding(t, v) \subseteq 1 .. n
  BY DEF Holding
<1>2. f \in [Holding(s, v) -> Holding(t, v)]
  BY <1>1
<1>3. \A i, k \in Holding(s, v) : f[i] = f[k] => i = k
  BY <1>1
<1>4. ASSUME NEW i \in Holding(t, v) PROVE \E k \in Holding(s, v) : f[k] = i
  <2>1. i \in 1 .. n /\ t[i] = v
    BY <1>1
  <2>2. PICK k \in 1 .. n : k = move[i]
    BY <2>1
  <2>3. move[k] = i
    BY <2>1, <2>2
  <2>4. s[k] = v
    BY <2>1, <2>3
  <2>5. k \in Holding(s, v)
    BY <1>1, <2>4
  <2> QED BY <2>3, <2>5
<1>5. ExistsBijection(Holding(s, v), Holding(t, v))
  <2>1. f \in Bijection(Holding(s, v), Holding(t, v))
    BY <1>2, <1>3, <1>4 DEF Bijection, Injection, Surjection, IsInjective
  <2> QED BY <2>1 DEF ExistsBijection
<1> QED BY <1>5, CountIs, FS_Bijection

\* As many of each in both.
SameCounts(s, t) == \A v \in Numbers : Count(s, v) = Count(t, v)

\* Two numbers change places: there are as many of each.
LEMMA SwapIs ==
  ASSUME NEW s \in Seq(Numbers), NEW i \in 1 .. Len(s), NEW k \in 1 .. Len(s)
  PROVE  /\ Swapped(s, i, k) \in Seq(Numbers) /\ Len(Swapped(s, i, k)) = Len(s)
         /\ \A x \in 1 .. Len(s) : Swapped(s, i, k)[x] = IF x = k THEN s[i] ELSE IF x = i THEN s[k] ELSE s[x]
         /\ SameCounts(Swapped(s, i, k), s)
<1> PICK n \in Nat : n = Len(s)
  OBVIOUS
<1> PICK t : t = Swapped(s, i, k)
  OBVIOUS
<1> PICK u : u = [s EXCEPT ![i] = s[k]]
  OBVIOUS
<1>0. s[i] \in Numbers /\ s[k] \in Numbers
  BY ElementOfSeq
<1>1. /\ u \in Seq(Numbers) /\ Len(u) = n
      /\ \A x \in 1 .. n : u[x] = IF x = i THEN s[k] ELSE s[x]
  BY <1>0, ExceptSeq
<1>2. t = [u EXCEPT ![k] = s[i]]
  BY DEF Swapped
<1>3. /\ t \in Seq(Numbers) /\ Len(t) = n
      /\ \A x \in 1 .. n : t[x] = IF x = k THEN s[i] ELSE u[x]
  BY <1>0, <1>1, <1>2, ExceptSeq
<1>4. \A x \in 1 .. n : t[x] = IF x = k THEN s[i] ELSE IF x = i THEN s[k] ELSE s[x]
  BY <1>1, <1>3
<1> PICK move : move = [x \in 1 .. n |-> IF x = k THEN i ELSE IF x = i THEN k ELSE x]
  OBVIOUS
<1>5. move \in [1 .. n -> 1 .. n] /\ \A x \in 1 .. n : move[move[x]] = x /\ t[move[x]] = s[x]
  <2>1. i \in 1 .. n /\ k \in 1 .. n
    OBVIOUS
  <2>2. move \in [1 .. n -> 1 .. n]
    BY ONLY <2>1, move = [x \in 1 .. n |-> IF x = k THEN i ELSE IF x = i THEN k ELSE x]
  <2>3. \A x \in 1 .. n : move[x] = IF x = k THEN i ELSE IF x = i THEN k ELSE x
    BY ONLY move = [x \in 1 .. n |-> IF x = k THEN i ELSE IF x = i THEN k ELSE x]
  <2>4. ASSUME NEW x \in 1 .. n PROVE move[move[x]] = x /\ t[move[x]] = s[x]
    BY ONLY <2>1, <2>3, <2>4, <1>4
  <2> QED BY ONLY <2>2, <2>4
<1>6. ASSUME NEW v \in Numbers PROVE Count(t, v) = Count(s, v)
  <2>1. s \in Seq(Numbers) /\ t \in Seq(Numbers) /\ Len(s) = Len(t)
    BY ONLY s \in Seq(Numbers), n = Len(s), <1>3
  <2>2. move \in [1 .. Len(s) -> 1 .. Len(s)]
    BY ONLY <1>5, n = Len(s)
  <2>3. \A x \in 1 .. Len(s) : move[move[x]] = x /\ t[move[x]] = s[x]
    BY ONLY <1>5, n = Len(s)
  <2> QED BY ONLY <2>1, <2>2, <2>3, CountMoved, Zenon
<1> QED BY <1>3, <1>4, <1>6 DEF SameCounts

\* The numbers of one sequence and those of another.
LEMMA CountJoined ==
  ASSUME NEW s \in Seq(Numbers), NEW t \in Seq(Numbers), NEW v
  PROVE  Count(s \o t, v) = Count(s, v) + Count(t, v)
<1> PICK n \in Nat : n = Len(s)
  OBVIOUS
<1> PICK m \in Nat : m = Len(t)
  OBVIOUS
<1> PICK st : st = s \o t
  OBVIOUS
<1> PICK last : last = {n + i : i \in Holding(t, v)}
  OBVIOUS
<1>1. /\ st \in Seq(Numbers) /\ Len(st) = n + m
      /\ \A i \in 1 .. n + m : st[i] = IF i <= n THEN s[i] ELSE t[i - n]
  BY ConcatProperties
<1>2. Holding(s, v) \subseteq 1 .. n /\ Holding(t, v) \subseteq 1 .. m
  BY DEF Holding
<1>3. Holding(s, v) \cap last = {}
  BY <1>2
<1>4. Holding(st, v) = Holding(s, v) \cup last
  <2>1. ASSUME NEW i \in Holding(st, v) PROVE i \in Holding(s, v) \cup last
    <3>1. i \in 1 .. n + m /\ st[i] = v
      BY <1>1 DEF Holding
    <3>2. CASE i <= n
      <4>1. i \in DOMAIN s /\ s[i] = v
        BY <1>1, <3>1, <3>2
      <4> QED BY <4>1 DEF Holding
    <3>3. CASE ~(i <= n)
      <4>1. i - n \in 1 .. m /\ n + (i - n) = i
        BY <3>1, <3>3
      <4>2. i - n \in DOMAIN t /\ t[i - n] = v
        BY <1>1, <3>1, <3>3, <4>1
      <4>3. i - n \in Holding(t, v)
        BY <4>2 DEF Holding
      <4> QED BY <4>1, <4>3
    <3> QED BY <3>2, <3>3
  <2>2. ASSUME NEW i \in Holding(s, v) PROVE i \in Holding(st, v)
    <3>1. i \in 1 .. n /\ s[i] = v
      BY DEF Holding
    <3>2. i \in 1 .. n + m /\ st[i] = v
      BY <1>1, <3>1
    <3> QED BY <1>1, <3>2 DEF Holding
  <2>3. ASSUME NEW i \in Holding(t, v) PROVE n + i \in Holding(st, v)
    <3>1. i \in 1 .. m /\ t[i] = v
      BY DEF Holding
    <3>2. n + i \in 1 .. n + m /\ st[n + i] = v
      <4>1. n + i \in 1 .. n + m /\ ~(n + i <= n) /\ n + i - n = i
        BY <3>1
      <4> QED BY <1>1, <3>1, <4>1
    <3> QED BY <1>1, <3>2 DEF Holding
  <2> QED BY <2>1, <2>2, <2>3
<1>5. IsFiniteSet(last) /\ Cardinality(last) = Cardinality(Holding(t, v))
  <2> PICK f : f = [i \in Holding(t, v) |-> n + i]
    OBVIOUS
  <2>1. f \in Bijection(Holding(t, v), last)
    <3>1. f \in [Holding(t, v) -> last]
      OBVIOUS
    <3>2. \A i, k \in Holding(t, v) : f[i] = f[k] => i = k
      BY <1>2
    <3>3. \A k \in last : \E i \in Holding(t, v) : f[i] = k
      OBVIOUS
    <3> QED BY <3>1, <3>2, <3>3 DEF Bijection, Injection, Surjection, IsInjective
  <2>2. ExistsBijection(Holding(t, v), last)
    BY <2>1 DEF ExistsBijection
  <2> QED BY <2>2, CountIs, FS_Bijection
<1>6. Cardinality(Holding(s, v) \cup last)
        = Cardinality(Holding(s, v)) + Cardinality(last) - Cardinality(Holding(s, v) \cap last)
  BY <1>5, CountIs, FS_Union
<1>7. Cardinality(Holding(s, v) \cap last) = 0
  BY <1>3, FS_EmptySet
<1>8. /\ Count(st, v) = Cardinality(Holding(st, v)) /\ Count(s, v) = Cardinality(Holding(s, v))
      /\ Count(t, v) = Cardinality(Holding(t, v)) /\ Count(s, v) \in Nat /\ Count(t, v) \in Nat
  BY <1>1, CountIs
<1> QED BY <1>4, <1>5, <1>6, <1>7, <1>8

\* In an empty sequence there is none.
LEMMA CountNothing == \A v : Count(<<>>, v) = 0
<1>1. \A v : Holding(<<>>, v) = {}
  BY DEF Holding
<1>2. Cardinality({}) = 0
  BY FS_EmptySet
<1> QED BY <1>1, <1>2 DEF Count, Holding

\* A sequence of one number.
LEMMA CountOne ==
  ASSUME NEW x \in Numbers, NEW v
  PROVE  /\ <<x>> \in Seq(Numbers) /\ Count(<<x>>, v) = IF x = v THEN 1 ELSE 0
<1>1. Holding(<<x>>, v) = IF x = v THEN {1} ELSE {}
  BY DEF Holding
<1>3. Cardinality({1}) = 1 /\ Cardinality({}) = 0
  BY FS_Singleton, FS_EmptySet
<1>4. <<x>> \in Seq(Numbers)
  OBVIOUS
<1>5. Count(<<x>>, v) = Cardinality(Holding(<<x>>, v))
  BY DEF Count, Holding
<1> QED BY <1>1, <1>3, <1>4, <1>5

\* One number more at the end.
LEMMA CountAppended ==
  ASSUME NEW s \in Seq(Numbers), NEW x \in Numbers, NEW v
  PROVE  Count(Append(s, x), v) = Count(s, v) + IF x = v THEN 1 ELSE 0
<1>1. Append(s, x) = s \o <<x>>
  BY AppendIsConcat
<1>2. <<x>> \in Seq(Numbers) /\ Count(<<x>>, v) = IF x = v THEN 1 ELSE 0
  BY CountOne
<1> PICK one \in Seq(Numbers) : one = <<x>>
  BY <1>2
<1>3. Count(s \o one, v) = Count(s, v) + Count(one, v)
  BY ONLY s \in Seq(Numbers), one \in Seq(Numbers), CountJoined
<1> QED BY <1>1, <1>2, <1>3

\* One less at the beginning.
LEMMA CountTail ==
  ASSUME NEW s \in Seq(Numbers), s # <<>>, NEW v
  PROVE  Count(s, v) = Count(Tail(s), v) + IF s[1] = v THEN 1 ELSE 0
<1>1. Tail(s) \in Seq(Numbers) /\ s[1] \in Numbers /\ Len(Tail(s)) = Len(s) - 1
      /\ \A i \in 1 .. Len(Tail(s)) : Tail(s)[i] = s[i + 1]
  BY HeadTailProperties
<1>2. Len(s) \in Nat \ {0}
  BY EmptySeq
<1>7. <<s[1]>> \in Seq(Numbers) /\ Count(<<s[1]>>, v) = IF s[1] = v THEN 1 ELSE 0
  BY <1>1, CountOne
<1> PICK one \in Seq(Numbers) : one = <<s[1]>>
  BY <1>7
<1> PICK rest \in Seq(Numbers) : rest = Tail(s)
  BY <1>1
<1> PICK t : t = one \o rest
  OBVIOUS
<1>3. /\ t \in Seq(Numbers) /\ Len(one) = 1 /\ Len(t) = Len(s)
      /\ \A i \in 1 .. Len(s) : t[i] = IF i <= 1 THEN one[i] ELSE rest[i - 1]
  BY <1>1, <1>2, ConcatProperties
<1>4. \A i \in 1 .. Len(s) : t[i] = s[i]
  BY <1>1, <1>2, <1>3
<1>5. s = t
  BY <1>3, <1>4, SeqEqual
<1>6. Count(one \o rest, v) = Count(one, v) + Count(rest, v)
  BY ONLY one \in Seq(Numbers), rest \in Seq(Numbers), CountJoined
<1>8. Count(rest, v) \in Nat
  BY CountIs
<1>9. Count(s, v) = Count(one, v) + Count(rest, v)
  BY ONLY <1>5, <1>6, t = one \o rest
<1> QED BY <1>7, <1>8, <1>9

\* Of the sequences only that at f differs, and has d more of v.
HasMore(more, seqs, f, d, v) ==
  \A i \in 1 .. Len(seqs) : Count(more[i], v) = Count(seqs[i], v) + IF i = f THEN d ELSE 0

\* When one of some sequences gets d more of a number, so do all together.
LEMMA CountFlat ==
  ASSUME NEW seqs \in Seq(Seq(Numbers)), NEW more \in Seq(Seq(Numbers)), Len(seqs) = Len(more),
         NEW f \in 1 .. Len(seqs), NEW d \in Nat, NEW v, HasMore(more, seqs, f, d, v)
  PROVE  Count(FlattenSeq(more), v) = Count(FlattenSeq(seqs), v) + d
<1> PICK n \in Nat : n = Len(seqs)
  OBVIOUS
<1>1. PICK joined \in [0 .. n -> Seq(Numbers)] :
        joined[0] = <<>> /\ \A i \in 1 .. n : joined[i] = joined[i - 1] \o seqs[i]
  BY Joins
<1>2. PICK longer \in [0 .. n -> Seq(Numbers)] :
        longer[0] = <<>> /\ \A i \in 1 .. n : longer[i] = longer[i - 1] \o more[i]
  BY ONLY more \in Seq(Seq(Numbers)), Len(more) = n, Joins
<1>3. FlattenSeq(seqs) = joined[n] /\ FlattenSeq(more) = longer[n]
  <2>1. FlattenSeq(seqs) = joined[n]
    BY ONLY seqs \in Seq(Seq(Numbers)), n = Len(seqs), joined \in [0 .. n -> Seq(Numbers)], <1>1, FlattenIs
  <2>2. FlattenSeq(more) = longer[n]
    BY ONLY more \in Seq(Seq(Numbers)), Len(more) = n, longer \in [0 .. n -> Seq(Numbers)], <1>2, FlattenIs
  <2> QED BY ONLY <2>1, <2>2
<1> PICK S : S = {i \in 0 .. n : Count(longer[i], v) = Count(joined[i], v) + IF f <= i THEN d ELSE 0}
  OBVIOUS
<1>4. 0 \in S
  <2>1. Count(<<>>, v) = 0
    BY CountNothing
  <2> QED BY <1>1, <1>2, <2>1
<1>5. ASSUME NEW i \in 0 .. n - 1, i \in S PROVE i + 1 \in S
  <2>1. i + 1 \in 1 .. n /\ i + 1 \in 0 .. n /\ i + 1 - 1 = i /\ i \in 0 .. n
    OBVIOUS
  <2>2. /\ joined[i] \in Seq(Numbers) /\ longer[i] \in Seq(Numbers)
        /\ seqs[i + 1] \in Seq(Numbers) /\ more[i + 1] \in Seq(Numbers)
    <3>1. joined[i] \in Seq(Numbers) /\ longer[i] \in Seq(Numbers)
      BY ONLY <2>1, joined \in [0 .. n -> Seq(Numbers)], longer \in [0 .. n -> Seq(Numbers)]
    <3>2. seqs[i + 1] \in Seq(Numbers)
      BY ONLY <2>1, n = Len(seqs), seqs \in Seq(Seq(Numbers)), ElementOfSeq
    <3>3. more[i + 1] \in Seq(Numbers)
      BY ONLY <2>1, n = Len(more), more \in Seq(Seq(Numbers)), ElementOfSeq
    <3> QED BY ONLY <3>1, <3>2, <3>3
  <2> PICK k \in 1 .. n : k = i + 1 /\ k - 1 = i
    BY <2>1
  <2>9. joined[k] = joined[k - 1] \o seqs[k] /\ longer[k] = longer[k - 1] \o more[k]
    BY <1>1, <1>2
  <2>3. joined[i + 1] = joined[i] \o seqs[i + 1] /\ longer[i + 1] = longer[i] \o more[i + 1]
    BY ONLY <2>9, k = i + 1 /\ k - 1 = i
  <2>4. /\ Count(joined[i + 1], v) = Count(joined[i], v) + Count(seqs[i + 1], v)
        /\ Count(longer[i + 1], v) = Count(longer[i], v) + Count(more[i + 1], v)
    <3> PICK p, q, r, t : p = joined[i] /\ q = seqs[i + 1] /\ r = longer[i] /\ t = more[i + 1]
      OBVIOUS
    <3>1. p \in Seq(Numbers) /\ q \in Seq(Numbers) /\ r \in Seq(Numbers) /\ t \in Seq(Numbers)
      BY <2>2
    <3>2. Count(p \o q, v) = Count(p, v) + Count(q, v) /\ Count(r \o t, v) = Count(r, v) + Count(t, v)
      BY ONLY <3>1, CountJoined
    <3> QED BY <2>3, <3>2
  <2>5. Count(joined[i], v) \in Nat /\ Count(seqs[i + 1], v) \in Nat
    BY <2>2, CountIs
  <2>6. Count(more[i + 1], v) = Count(seqs[i + 1], v) + IF i + 1 = f THEN d ELSE 0
    BY <2>1 DEF HasMore
  <2>7. Count(longer[i], v) = Count(joined[i], v) + IF f <= i THEN d ELSE 0
    BY <1>5
  <2>8. Count(longer[i + 1], v) = Count(joined[i + 1], v) + IF f <= i + 1 THEN d ELSE 0
    <3> PICK a \in Nat, b \in Nat : a = Count(joined[i], v) /\ b = Count(seqs[i + 1], v)
      BY <2>5
    <3>1. CASE i + 1 = f
      <4>1. ~(f <= i) /\ f <= i + 1 /\ i + 1 = f
        BY <3>1
      <4>2. Count(longer[i], v) = a /\ Count(more[i + 1], v) = b + d
        BY ONLY <2>6, <2>7, <4>1, a = Count(joined[i], v), b = Count(seqs[i + 1], v), a \in Nat, b \in Nat
      <4>3. Count(longer[i + 1], v) = Count(joined[i + 1], v) + d
        BY ONLY <2>4, <4>2, a = Count(joined[i], v), b = Count(seqs[i + 1], v), a \in Nat, b \in Nat, d \in Nat
      <4> QED BY ONLY <4>1, <4>3
    <3>2. CASE f <= i
      <4>1. f <= i /\ f <= i + 1 /\ i + 1 # f
        BY <3>2
      <4>2. Count(longer[i], v) = a + d /\ Count(more[i + 1], v) = b
        BY ONLY <2>6, <2>7, <4>1, a = Count(joined[i], v), b = Count(seqs[i + 1], v), a \in Nat, b \in Nat
      <4>3. Count(longer[i + 1], v) = Count(joined[i + 1], v) + d
        BY ONLY <2>4, <4>2, a = Count(joined[i], v), b = Count(seqs[i + 1], v), a \in Nat, b \in Nat, d \in Nat
      <4> QED BY ONLY <4>1, <4>3
    <3>3. CASE i + 1 # f /\ ~(f <= i)
      <4>1. ~(f <= i) /\ ~(f <= i + 1) /\ i + 1 # f
        BY <3>3
      <4>2. Count(longer[i], v) = a /\ Count(more[i + 1], v) = b
        BY ONLY <2>6, <2>7, <4>1, a = Count(joined[i], v), b = Count(seqs[i + 1], v), a \in Nat, b \in Nat
      <4>3. Count(longer[i + 1], v) = Count(joined[i + 1], v) + 0
        BY ONLY <2>4, <4>2, a = Count(joined[i], v), b = Count(seqs[i + 1], v), a \in Nat, b \in Nat, d \in Nat
      <4> QED BY ONLY <4>1, <4>3
    <3> QED BY <3>1, <3>2, <3>3
  <2> QED BY <2>1, <2>8
<1>6. n \in S
  <2>1. 0 .. n \subseteq S
    BY ONLY n \in Nat, <1>4, <1>5, UpTo
  <2>2. n \in 0 .. n
    BY ONLY n \in Nat
  <2> QED BY ONLY <2>1, <2>2
<1>7. f <= n
  OBVIOUS
<1>8. Count(longer[n], v) = Count(joined[n], v) + IF f <= n THEN d ELSE 0
  BY ONLY <1>6, S = {i \in 0 .. n : Count(longer[i], v) = Count(joined[i], v) + IF f <= i THEN d ELSE 0}
<1> QED BY ONLY <1>3, <1>7, <1>8

\* Nothing comes of sequences that are all empty.
LEMMA NothingFlat ==
  ASSUME NEW S, NEW seqs \in Seq(Seq(S)), \A i \in 1 .. Len(seqs) : seqs[i] = <<>>
  PROVE  FlattenSeq(seqs) = <<>>
<1> PICK n \in Nat : n = Len(seqs)
  OBVIOUS
<1>1. PICK joined \in [0 .. n -> Seq(S)] :
        joined[0] = <<>> /\ \A i \in 1 .. n : joined[i] = joined[i - 1] \o seqs[i]
  BY Joins
<1>2. FlattenSeq(seqs) = joined[n]
  BY <1>1, FlattenIs
<1> PICK T : T = {i \in 0 .. n : joined[i] = <<>>}
  OBVIOUS
<1>3. 0 \in T
  BY <1>1
<1>4. ASSUME NEW i \in 0 .. n - 1, i \in T PROVE i + 1 \in T
  <2>1. i + 1 \in 1 .. n /\ i + 1 \in 0 .. n /\ i + 1 - 1 = i
    OBVIOUS
  <2> PICK k \in 1 .. n : k = i + 1 /\ k - 1 = i
    BY <2>1
  <2>2. joined[k] = joined[k - 1] \o seqs[k]
    BY <1>1
  <2>3. joined[k - 1] = <<>> /\ seqs[k] = <<>>
    BY <1>4
  <2>4. <<>> \in Seq(S)
    OBVIOUS
  <2>5. joined[k] = <<>>
    BY ONLY <2>2, <2>3, <2>4, ConcatEmptySeq
  <2> QED BY <2>1, <2>5
<1>5. 0 .. n \subseteq T
  BY ONLY n \in Nat, <1>3, <1>4, UpTo
<1> QED BY <1>2, <1>5

-----------------------------------------------------------------------------
(* part() *)

\* The greatest of some positions up to n.
LEMMA LastOf ==
  ASSUME NEW n \in Nat, NEW T \in SUBSET (1 .. n), T # {}
  PROVE  Max(T) \in T /\ \A i \in T : Max(T) >= i
<1> PICK above : above = {m \in Nat : \A i \in T : m >= i}
  OBVIOUS
<1>1. n \in above /\ above \subseteq Nat
  OBVIOUS
<1>2. PICK m \in above : \A k \in above : m <= k
  BY ONLY <1>1, LeastElement
<1>3. m \in T
  <2> SUFFICES ASSUME m \notin T PROVE FALSE
    OBVIOUS
  <2>1. PICK i \in T : TRUE
    OBVIOUS
  <2>2. m >= i /\ m \in Nat /\ i \in Nat /\ i >= 1
    BY <1>2
  <2>3. m - 1 \in Nat /\ \A k \in T : m - 1 >= k
    BY <1>2, <2>2
  <2>4. m - 1 \in above
    BY <2>3
  <2> QED BY <1>2, <2>2, <2>4
<1>4. m \in T /\ \A i \in T : m >= i
  BY <1>2, <1>3
<1> QED BY ONLY <1>4 DEF Max

\* b is a with the numbers from l to r in another order.
Shuffled(b, a, l, r) ==
  /\ b \in Seq(Numbers) /\ Len(b) = Len(a) /\ SameCounts(b, a)
  /\ \A x \in 1 .. Len(a) : x \notin l .. r => b[x] = a[x]
  /\ \A x \in l .. r : \E m \in l .. r : b[x] = a[m]

\* c is b with the numbers at i and k exchanged, from l to r.
Exchanged(c, b, i, k, l, r) ==
  \A x \in l .. r : c[x] = IF x = k THEN b[i] ELSE IF x = i THEN b[k] ELSE b[x]

\* Two of them change places.
LEMMA ShuffledMore ==
  ASSUME NEW a \in Seq(Numbers), NEW l \in 1 .. Len(a), NEW r \in 1 .. Len(a), NEW b,
         Shuffled(b, a, l, r), NEW i \in l .. r, NEW k \in l .. r
  PROVE  Shuffled(Swapped(b, i, k), a, l, r) /\ Exchanged(Swapped(b, i, k), b, i, k, l, r)
<1> PICK n \in Nat : n = Len(a)
  OBVIOUS
<1> PICK c : c = Swapped(b, i, k)
  OBVIOUS
<1>1. /\ b \in Seq(Numbers) /\ Len(b) = n /\ SameCounts(b, a)
      /\ \A x \in 1 .. n : x \notin l .. r => b[x] = a[x]
      /\ \A x \in l .. r : \E m \in l .. r : b[x] = a[m]
  BY DEF Shuffled
<1>2. i \in 1 .. Len(b) /\ k \in 1 .. Len(b)
  BY <1>1
<1>3. /\ c \in Seq(Numbers) /\ Len(c) = n /\ SameCounts(c, b)
      /\ \A x \in 1 .. n : c[x] = IF x = k THEN b[i] ELSE IF x = i THEN b[k] ELSE b[x]
  <2>1. b \in Seq(Numbers)
    BY <1>1
  <2>2. /\ Swapped(b, i, k) \in Seq(Numbers) /\ Len(Swapped(b, i, k)) = Len(b)
        /\ \A x \in 1 .. Len(b) : Swapped(b, i, k)[x] = IF x = k THEN b[i] ELSE IF x = i THEN b[k] ELSE b[x]
        /\ SameCounts(Swapped(b, i, k), b)
    BY ONLY <2>1, <1>2, SwapIs, Zenon
  <2> QED BY <1>1, <2>2
<1>4. SameCounts(c, a)
  BY <1>1, <1>3 DEF SameCounts
<1>5. \A x \in l .. r : c[x] = IF x = k THEN b[i] ELSE IF x = i THEN b[k] ELSE b[x]
  BY <1>3
<1>6. \A x \in 1 .. n : x \notin l .. r => c[x] = a[x]
  BY <1>1, <1>3
<1>7. \A x \in l .. r : \E m \in l .. r : c[x] = a[m]
  BY <1>1, <1>5
<1> QED BY <1>3, <1>4, <1>5, <1>6, <1>7 DEF Shuffled, Exchanged

\* Where the loops of part() are: what lies before i is not greater than the
\* pivot, what lies behind j is, and i may grow in the next iteration.
Cut(s, a, l, r) ==
  /\ s \in [a : Seq(Numbers), i : Nat, j : Nat]
  /\ Shuffled(s.a, a, l, r) /\ s.i \in l .. r + 1 /\ s.j \in l .. r
  /\ s.a[l] = a[l]
  /\ \A x \in l .. r : x < s.i => s.a[x] <= a[l]
  /\ \A x \in l .. r : x > s.j => s.a[x] > a[l]
  /\ IF s.i < s.j THEN s.a[s.i] <= a[l] ELSE s.a[s.j] <= a[l]

\* The numbers of a sequence can be compared.
LEMMA NumbersAreInts ==
  ASSUME NEW b \in Seq(Numbers)
  PROVE  \A x \in 1 .. Len(b) : b[x] \in Int
<1>1. Numbers \subseteq Int
  BY CoroSortAssumption DEF Numbers
<1>2. \A x \in 1 .. Len(b) : b[x] \in Numbers
  BY ONLY b \in Seq(Numbers), ElementOfSeq
<1> QED BY ONLY <1>1, <1>2

\* The two loops inside the loop.
LEMMA ScanIs ==
  ASSUME NEW b \in Seq(Numbers), NEW v \in Numbers, NEW l \in 1 .. Len(b), NEW r \in l .. Len(b),
         b[l] <= v, NEW i \in l .. r, NEW j \in l .. r
  PROVE  /\ ScanRight(b, v, i, r) \in i .. r + 1
         /\ \A x \in i .. r : x < ScanRight(b, v, i, r) => b[x] <= v
         /\ ScanRight(b, v, i, r) <= r => b[ScanRight(b, v, i, r)] > v
         /\ ScanLeft(b, v, j) \in l .. j /\ b[ScanLeft(b, v, j)] <= v
         /\ \A x \in l .. j : x > ScanLeft(b, v, j) => b[x] > v
<1> PICK R : R = {k \in i .. r + 1 : k = r + 1 \/ b[k] > v}
  OBVIOUS
<1> PICK L : L = {k \in 1 .. j : b[k] <= v}
  OBVIOUS
<1>1. \A x \in 1 .. Len(b) : b[x] \in Int
  BY ONLY b \in Seq(Numbers), NumbersAreInts
<1>2. v \in Int
  BY CoroSortAssumption DEF Numbers
<1>3. R \in SUBSET Nat /\ r + 1 \in R
  OBVIOUS
<1>4. Min(R) \in R /\ \A k \in R : Min(R) <= k
  BY <1>3, FirstOf
<1>5. L \in SUBSET (1 .. j) /\ l \in L /\ j \in Nat
  OBVIOUS
<1>6. Max(L) \in L /\ \A k \in L : Max(L) >= k
  BY <1>5, LastOf
<1>7. ScanRight(b, v, i, r) = Min(R) /\ ScanLeft(b, v, j) = Max(L)
  BY DEF ScanRight, ScanLeft
<1> PICK x \in R, y \in L : x = Min(R) /\ y = Max(L)
  BY <1>4, <1>6
<1>8. x \in i .. r + 1 /\ (x <= r => b[x] > v)
  OBVIOUS
<1>9. ASSUME NEW k \in i .. r, k < x PROVE b[k] <= v
  <2>1. k \notin R
    BY <1>4, <1>8, <1>9
  <2>2. ~(b[k] > v) /\ k \in 1 .. Len(b)
    BY <2>1
  <2> QED BY <1>1, <1>2, <2>2
<1>10. y \in l .. j /\ b[y] <= v
  BY <1>5, <1>6
<1>11. ASSUME NEW k \in l .. j, k > y PROVE b[k] > v
  <2>1. k \notin L
    BY <1>6, <1>10, <1>11
  <2>2. ~(b[k] <= v) /\ k \in 1 .. Len(b)
    BY <2>1
  <2> QED BY <1>1, <1>2, <2>2
<1> QED BY <1>7, <1>8, <1>9, <1>10, <1>11

\* One iteration of part().
LEMMA RoundKeeps ==
  ASSUME NEW a \in Seq(Numbers), NEW l \in 1 .. Len(a), NEW r \in l .. Len(a), NEW s,
         Cut(s, a, l, r)
  PROVE  /\ Cut(Round(r, a[l])[s], a, l, r)
         /\ IF s.i < s.j THEN Round(r, a[l])[s].i > s.i ELSE Round(r, a[l])[s] = s
<1> PICK v \in Numbers : v = a[l]
  BY ElementOfSeq
<1> PICK b \in Seq(Numbers) : b = s.a
  BY DEF Cut
<1> PICK si \in Nat, sj \in Nat : si = s.i /\ sj = s.j
  BY DEF Cut
<1> PICK i : i = ScanRight(b, v, si, r)
  OBVIOUS
<1> PICK j : j = ScanLeft(b, v, sj)
  OBVIOUS
<1> PICK n \in Nat : n = Len(a)
  OBVIOUS
<1>1. /\ Shuffled(b, a, l, r) /\ si \in l .. r + 1 /\ sj \in l .. r /\ b[l] = v
      /\ \A x \in l .. r : x < si => b[x] <= v
      /\ \A x \in l .. r : x > sj => b[x] > v
      /\ IF si < sj THEN b[si] <= v ELSE b[sj] <= v
  BY DEF Cut
<1>2. Len(b) = n
  BY <1>1 DEF Shuffled
<1>3. \A x \in 1 .. n : b[x] \in Int
  BY ONLY b \in Seq(Numbers), <1>2, NumbersAreInts
<1>4. v \in Int
  BY CoroSortAssumption DEF Numbers
<1>5. s \in [a : Seq(Nat), i : Nat, j : Nat]
  <2>1. Numbers \subseteq Nat
    BY CoroSortAssumption DEF Numbers
  <2>4. b \in [1 .. n -> Numbers]
    BY <1>2
  <2>2. b \in [1 .. n -> Nat]
    BY <2>1, <2>4
  <2>3. b \in Seq(Nat)
    BY <2>2
  <2> QED BY <2>3 DEF Cut
<1>6. Round(r, v)[s] = IF si < sj
                         THEN [a |-> IF i < j THEN Swapped(b, i, j) ELSE b, i |-> i, j |-> j]
                         ELSE s
  BY <1>5 DEF Round
<1>7. CASE ~(si < sj)
  BY <1>6, <1>7
<1>8. CASE si < sj
  <2>1. si \in l .. r /\ sj \in l .. r /\ l \in 1 .. Len(b) /\ r \in l .. Len(b) /\ b[l] <= v
    BY <1>1, <1>2, <1>4, <1>8
  <2>2. /\ i \in si .. r + 1 /\ \A x \in si .. r : x < i => b[x] <= v
        /\ i <= r => b[i] > v
        /\ j \in l .. sj /\ b[j] <= v /\ \A x \in l .. sj : x > j => b[x] > v
    BY <2>1, ScanIs
  <2>3. i # si
    <3>1. b[si] <= v /\ b[si] \in Int /\ si <= r
      BY <1>1, <1>2, <1>3, <1>8, <2>1
    <3> QED BY <1>4, <2>2, <3>1
  <2>4. i > si /\ i \in l .. r + 1 /\ j \in l .. r
    BY <2>1, <2>2, <2>3
  <2>5. \A x \in l .. r : x < i => b[x] <= v
    BY <1>1, <2>1, <2>2
  <2>6. \A x \in l .. r : x > j => b[x] > v
    BY <1>1, <2>1, <2>2
  <2>7. CASE i < j
    <3> PICK c : c = Swapped(b, i, j)
      OBVIOUS
    <3>1. i \in l .. r /\ i > l /\ j > l
      BY <2>1, <2>4, <2>7
    <3>2. /\ Shuffled(c, a, l, r)
          /\ \A x \in l .. r : c[x] = IF x = j THEN b[i] ELSE IF x = i THEN b[j] ELSE b[x]
      <4>1. l \in 1 .. Len(a) /\ r \in 1 .. Len(a) /\ j \in l .. r
        BY <2>4
      <4>2. Shuffled(Swapped(b, i, j), a, l, r) /\ Exchanged(Swapped(b, i, j), b, i, j, l, r)
        <5>1. Shuffled(b, a, l, r) /\ i \in l .. r
          BY <1>1, <3>1
        <5> QED BY ONLY a \in Seq(Numbers), <4>1, <5>1, ShuffledMore
      <4> QED BY <4>2 DEF Exchanged
    <3>3. c[l] = v /\ c[i] <= v
      BY <1>1, <2>2, <2>7, <3>1, <3>2
    <3>4. \A x \in l .. r : x < i => c[x] <= v
      BY <2>4, <2>5, <2>7, <3>2
    <3>5. \A x \in l .. r : x > j => c[x] > v
      BY <2>4, <2>6, <2>7, <3>1, <3>2
    <3> PICK t : t = [a |-> c, i |-> i, j |-> j]
      OBVIOUS
    <3>6. c \in Seq(Numbers) /\ i \in Nat /\ j \in Nat
      BY <2>4, <3>2 DEF Shuffled
    <3>7. t \in [a : Seq(Numbers), i : Nat, j : Nat] /\ t.a = c /\ t.i = i /\ t.j = j
      BY <3>6
    <3>8. Cut(t, a, l, r)
      BY ONLY <2>4, <2>7, <3>2, <3>3, <3>4, <3>5, <3>7, v = a[l] DEF Cut
    <3> QED BY <1>6, <1>8, <2>4, <2>7, <3>7, <3>8
  <2>8. CASE ~(i < j)
    <3> PICK t : t = [a |-> b, i |-> i, j |-> j]
      OBVIOUS
    <3>6. i \in Nat /\ j \in Nat
      BY <2>4
    <3>7. t \in [a : Seq(Numbers), i : Nat, j : Nat] /\ t.a = b /\ t.i = i /\ t.j = j
      BY <3>6
    <3>8. Cut(t, a, l, r)
      BY ONLY <1>1, <2>2, <2>4, <2>5, <2>6, <2>8, <3>7, v = a[l] DEF Cut
    <3> QED BY <1>6, <1>8, <2>4, <2>8, <3>7, <3>8
  <2> QED BY <2>7, <2>8
<1> QED BY <1>7, <1>8

\* cut is what part() makes of a from l to r: smaller numbers before p and
\* greater ones behind it.
Divided(cut, a, l, r) ==
  /\ cut.p \in l .. r /\ Shuffled(cut.a, a, l, r)
  /\ \A x \in l .. r : x < cut.p => cut.a[x] <= cut.a[cut.p]
  /\ \A x \in l .. r : x > cut.p => cut.a[cut.p] <= cut.a[x]

\* The loop ends within r - l + 1 iterations.
LEMMA LoopIs ==
  ASSUME NEW a \in Seq(Numbers), NEW l \in 1 .. Len(a), NEW r \in l + 1 .. Len(a), NEW loop,
         loop = CHOOSE f : f = [n \in 0 .. r - l + 1 |->
                                  IF n = 0 THEN [a |-> a, i |-> l, j |-> r]
                                  ELSE Round(r, a[l])[f[n - 1]]]
  PROVE  Cut(loop[r - l + 1], a, l, r) /\ ~(loop[r - l + 1].i < loop[r - l + 1].j)
<1> PICK m \in Nat : m = r - l + 1
  OBVIOUS
<1> PICK first : first = [a |-> a, i |-> l, j |-> r]
  OBVIOUS
<1> PICK round : round = Round(r, a[l])
  OBVIOUS
<1> PICK V : V = {s \in [a : Seq(Numbers), i : Nat, j : Nat] : Cut(s, a, l, r)}
  OBVIOUS
<1>1. \A s : s \in V <=> Cut(s, a, l, r)
  BY DEF Cut
<1>2. first \in V
  <2>1. first \in [a : Seq(Numbers), i : Nat, j : Nat] /\ first.a = a /\ first.i = l /\ first.j = r
    OBVIOUS
  <2>2. Shuffled(a, a, l, r)
    BY DEF Shuffled, SameCounts
  <2>3. a[l] \in Numbers /\ a[l] <= a[l]
    BY ElementOfSeq, CoroSortAssumption DEF Numbers
  <2>4. Cut(first, a, l, r)
    BY <2>1, <2>2, <2>3 DEF Cut
  <2> QED BY <1>1, <2>4
<1>3. ASSUME NEW s \in V
      PROVE  round[s] \in V /\ IF s.i < s.j THEN round[s].i > s.i ELSE round[s] = s
  <2>1. Cut(s, a, l, r) /\ r \in l .. Len(a)
    BY <1>1
  <2>2. /\ Cut(Round(r, a[l])[s], a, l, r)
        /\ IF s.i < s.j THEN Round(r, a[l])[s].i > s.i ELSE Round(r, a[l])[s] = s
    BY ONLY a \in Seq(Numbers), l \in 1 .. Len(a), <2>1, RoundKeeps
  <2> QED BY <1>1, <2>2
<1>4. PICK g \in [0 .. m -> V] : g[0] = first /\ \A n \in 1 .. m : g[n] = round[g[n - 1]]
  <2> PICK step : step = [n \in 1 .. m |-> [s \in V |-> round[s]]]
    OBVIOUS
  <2>1. step \in [1 .. m -> [V -> V]]
    BY <1>3
  <2>2. PICK g \in [0 .. m -> V] : Recurs(m, first, step, g)
    BY ONLY m \in Nat, <1>2, <2>1, Recursion
  <2>3. \A n \in 1 .. m : n - 1 \in 0 .. m
    OBVIOUS
  <2>4. g[0] = first /\ \A n \in 1 .. m : g[n] = round[g[n - 1]]
    BY <2>2, <2>3 DEF Recurs
  <2> QED BY <2>4
<1>5. g = [n \in 0 .. m |-> IF n = 0 THEN first ELSE round[g[n - 1]]]
  BY <1>4
<1>6. loop = [n \in 0 .. m |-> IF n = 0 THEN first ELSE round[loop[n - 1]]]
  <2>1. loop = CHOOSE f : f = [n \in 0 .. m |-> IF n = 0 THEN first ELSE round[f[n - 1]]]
    OBVIOUS
  <2> QED BY ONLY <1>5, <2>1, Zenon
<1>12. \A n \in 0 .. m : loop[n] = IF n = 0 THEN first ELSE round[loop[n - 1]]
  <2> PICK h : h = [n \in 0 .. m |-> IF n = 0 THEN first ELSE round[loop[n - 1]]]
    OBVIOUS
  <2>1. \A n \in 0 .. m : h[n] = IF n = 0 THEN first ELSE round[loop[n - 1]]
    BY ONLY h = [n \in 0 .. m |-> IF n = 0 THEN first ELSE round[loop[n - 1]]]
  <2>2. loop = h
    BY ONLY <1>6, h = [n \in 0 .. m |-> IF n = 0 THEN first ELSE round[loop[n - 1]]], Zenon
  <2> QED BY ONLY <2>1, <2>2
<1> PICK S : S = {n \in 0 .. m : loop[n] \in V /\ (loop[n].i < loop[n].j => loop[n].i >= l + n)}
  OBVIOUS
<1>7. 0 \in S
  <2>1. loop[0] = first /\ first.i = l
    BY <1>12
  <2> QED BY <1>2, <2>1
<1>8. ASSUME NEW n \in 0 .. m - 1, n \in S PROVE n + 1 \in S
  <2>1. n + 1 \in 0 .. m /\ n + 1 # 0 /\ n + 1 - 1 = n /\ n \in Nat
    OBVIOUS
  <2> PICK s \in V : s = loop[n] /\ (s.i < s.j => s.i >= l + n)
    BY <1>8
  <2> PICK t : t = loop[n + 1]
    OBVIOUS
  <2>2. t = round[s]
    <3>1. loop[n + 1] = round[loop[n + 1 - 1]]
      BY ONLY <1>12, <2>1
    <3> QED BY ONLY <2>1, <3>1, s = loop[n], t = loop[n + 1]
  <2>3. t \in V /\ IF s.i < s.j THEN t.i > s.i ELSE t = s
    BY <1>3, <2>2
  <2>4. s.i \in Nat /\ t.i \in Nat
    BY <2>3
  <2>6. (t.i > s.i /\ s.i < s.j) \/ (t = s /\ ~(s.i < s.j))
    BY ONLY <2>3
  <2>7. s.i < s.j => s.i >= l + n
    OBVIOUS
  <2>8. l \in Nat /\ n \in Nat
    OBVIOUS
  <2>5. t.i < t.j => t.i >= l + (n + 1)
    BY ONLY <2>4, <2>6, <2>7, <2>8
  <2> QED BY <2>1, <2>3, <2>5
<1>9. m \in S
  <2>1. 0 .. m \subseteq S
    BY ONLY m \in Nat, <1>7, <1>8, UpTo
  <2>2. m \in 0 .. m
    OBVIOUS
  <2> QED BY ONLY <2>1, <2>2
<1>10. Cut(loop[m], a, l, r) /\ (loop[m].i < loop[m].j => loop[m].i >= l + m)
  BY <1>1, <1>9
<1>11. loop[m].i \in Nat /\ loop[m].j \in l .. r
  BY <1>10 DEF Cut
<1>13. r \in Nat /\ l \in Nat /\ m = r - l + 1
  OBVIOUS
<1>14. ~(loop[m].i < loop[m].j)
  BY ONLY <1>10, <1>11, <1>13
<1> QED BY ONLY <1>10, <1>13, <1>14

\* What follows the loop.
LEMMA PartedIs ==
  ASSUME NEW a \in Seq(Numbers), NEW l \in 1 .. Len(a), NEW r \in l + 1 .. Len(a)
  PROVE  Divided(Parted(a, l, r), a, l, r)
<1> DEFINE loop[n \in 0 .. r - l + 1] ==
             IF n = 0 THEN [a |-> a, i |-> l, j |-> r] ELSE Round(r, a[l])[loop[n - 1]]
           end == loop[r - l + 1]
<1>1. Parted(a, l, r) = [a |-> Swapped(end.a, end.j, l), p |-> end.j]
  BY DEF Parted
<1>2. loop = CHOOSE f : f = [n \in 0 .. r - l + 1 |->
                               IF n = 0 THEN [a |-> a, i |-> l, j |-> r]
                               ELSE Round(r, a[l])[f[n - 1]]]
  OBVIOUS
<1> HIDE DEF loop
<1>3. Cut(end, a, l, r) /\ ~(end.i < end.j)
  BY <1>2, LoopIs
<1> PICK b, i, j : b = end.a /\ i = end.i /\ j = end.j
  OBVIOUS
<1> PICK v \in Numbers : v = a[l]
  BY ElementOfSeq
<1>4. /\ b \in Seq(Numbers) /\ i \in Nat /\ Shuffled(b, a, l, r) /\ i \in l .. r + 1 /\ j \in l .. r
      /\ b[l] = v /\ ~(i < j) /\ b[j] <= v
      /\ \A x \in l .. r : x < i => b[x] <= v
      /\ \A x \in l .. r : x > j => b[x] > v
  BY <1>3 DEF Cut
<1> PICK c : c = Swapped(b, j, l)
  OBVIOUS
<1>5. Shuffled(c, a, l, r) /\ Exchanged(c, b, j, l, l, r)
  <2>1. r \in 1 .. Len(a) /\ l \in l .. r
    OBVIOUS
  <2> QED BY ONLY a \in Seq(Numbers), l \in 1 .. Len(a), <1>4, <2>1, c = Swapped(b, j, l), ShuffledMore
<1>6. \A x \in l .. r : c[x] = IF x = l THEN b[j] ELSE IF x = j THEN b[l] ELSE b[x]
  BY <1>5 DEF Exchanged
<1>7. \A x \in l .. r : b[x] \in Int
  <2>1. Len(b) = Len(a)
    BY <1>4 DEF Shuffled
  <2>2. \A x \in l .. r : x \in 1 .. Len(b)
    BY <2>1
  <2>3. \A x \in 1 .. Len(b) : b[x] \in Numbers
    BY <1>4, ElementOfSeq
  <2>4. \A x \in l .. r : b[x] \in Numbers
    BY ONLY <2>2, <2>3
  <2>5. Numbers \subseteq Int
    BY CoroSortAssumption DEF Numbers
  <2> QED BY ONLY <2>4, <2>5
<1>8. v \in Int
  BY CoroSortAssumption DEF Numbers
<1>9. c[j] = v
  BY <1>4, <1>6
<1>14. l \in Nat /\ r \in Nat /\ j \in l .. r /\ i \in Nat /\ ~(i < j)
  BY <1>4, LenProperties
<1>10. \A x \in l .. r : x < j => c[x] <= v
  <2> SUFFICES ASSUME NEW x \in l .. r, x < j PROVE c[x] <= v
    OBVIOUS
  <2>1. x < i /\ x # j /\ c[x] = IF x = l THEN b[j] ELSE b[x]
    BY ONLY x \in l .. r, x < j, <1>6, <1>14
  <2>2. b[x] <= v /\ b[j] <= v
    BY ONLY x \in l .. r, <1>4, <2>1
  <2> QED BY ONLY <2>1, <2>2
<1>11. \A x \in l .. r : x > j => v <= c[x]
  <2> SUFFICES ASSUME NEW x \in l .. r, x > j PROVE v <= c[x]
    OBVIOUS
  <2>1. x # l /\ x # j
    BY ONLY x \in l .. r, x > j, <1>14
  <2>2. c[x] = b[x]
    BY ONLY x \in l .. r, <2>1, <1>6
  <2>3. b[x] > v /\ b[x] \in Int
    BY ONLY x \in l .. r, x > j, <1>4, <1>7
  <2> QED BY ONLY <2>2, <2>3, <1>8
<1> PICK cut : cut = [a |-> c, p |-> j]
  OBVIOUS
<1>12. cut.a = c /\ cut.p = j
  OBVIOUS
<1>13. Divided(cut, a, l, r)
  BY ONLY <1>4, <1>5, <1>9, <1>10, <1>11, <1>12 DEF Divided
<1> QED BY <1>1, <1>13

\* part(), whichever pivot was drawn.
LEMMA PartIs ==
  ASSUME NEW a \in Seq(Numbers), NEW l \in 1 .. Len(a), NEW r \in l + 1 .. Len(a), NEW v \in l .. r
  PROVE  Divided(part(a, l, r, v), a, l, r)
<1> PICK n \in Nat : n = Len(a)
  OBVIOUS
<1> PICK b : b = Swapped(a, l, v)
  OBVIOUS
<1>1. Shuffled(a, a, l, r)
  BY DEF Shuffled, SameCounts
<1>2. Shuffled(b, a, l, r)
  <2>1. r \in 1 .. Len(a) /\ l \in l .. r
    OBVIOUS
  <2> QED BY ONLY a \in Seq(Numbers), l \in 1 .. Len(a), v \in l .. r, <1>1, <2>1, b = Swapped(a, l, v),
             ShuffledMore
<1>3. b \in Seq(Numbers) /\ Len(b) = n
  BY <1>2 DEF Shuffled
<1> PICK cut : cut = Parted(b, l, r)
  OBVIOUS
<1>4. Divided(cut, b, l, r)
  BY <1>3, PartedIs
<1>5. part(a, l, r, v) = cut
  BY DEF part
<1>6. Shuffled(cut.a, a, l, r)
  <2>1. Shuffled(cut.a, b, l, r)
    BY <1>4 DEF Divided
  <2> PICK c : c = cut.a
    OBVIOUS
  <2>2. c \in Seq(Numbers) /\ Len(c) = n /\ SameCounts(c, a)
    BY <1>2, <1>3, <2>1 DEF Shuffled, SameCounts
  <2>3. \A x \in 1 .. n : x \notin l .. r => c[x] = a[x]
    BY <1>2, <1>3, <2>1 DEF Shuffled
  <2>5. \A x \in l .. r : \E k \in l .. r : c[x] = b[k]
    BY <2>1 DEF Shuffled
  <2>6. \A x \in l .. r : \E k \in l .. r : b[x] = a[k]
    BY <1>2 DEF Shuffled
  <2>4. \A x \in l .. r : \E k \in l .. r : c[x] = a[k]
    BY ONLY <2>5, <2>6
  <2>7. Shuffled(c, a, l, r)
    BY ONLY <2>2, <2>3, <2>4, n = Len(a) DEF Shuffled
  <2> QED BY ONLY <2>7, c = cut.a
<1> QED BY <1>4, <1>5, <1>6 DEF Divided

-----------------------------------------------------------------------------
(* The calls of quick_sort() that have not returned *)

CallType == [l : Nat, r : Nat, p : Nat, at : {"begin", "left", "right"}]

\* What a call of quick_sort() still has to sort itself: the call it waits
\* for has the rest.
Unsorted(call) ==
  IF call.at = "begin" THEN call.l .. call.r
  ELSE IF call.at = "left" THEN call.p + 1 .. call.r ELSE {}

\* It is an interval.
LEMMA UnsortedIs ==
  ASSUME NEW call \in CallType
  PROVE  /\ Unsorted(call) \subseteq Nat
         /\ \A x, z \in Unsorted(call), y \in Nat \ Unsorted(call) : x < y <=> z < y
BY DEF CallType, Unsorted

\* The numbers are in order but for those that one of n calls has to sort.
SortedBut(b, calls, m, n) ==
  /\ \A k \in 1 .. n : Unsorted(calls[k]) \subseteq 1 .. m
  /\ \A k, i \in 1 .. n : k # i => Unsorted(calls[k]) \cap Unsorted(calls[i]) = {}
  /\ \A x, y \in 1 .. m :
       x < y => b[x] <= b[y] \/ \E k \in 1 .. n : {x, y} \subseteq Unsorted(calls[k])

CallsOK(b, calls) == calls \in Seq(CallType) /\ SortedBut(b, calls, Len(b), Len(calls))

\* What is left when the innermost call returns, and that call.
LEMMA FrontIs ==
  ASSUME NEW calls \in Seq(CallType), calls # <<>>
  PROVE  /\ Front(calls) \in Seq(CallType) /\ Len(Front(calls)) = Len(calls) - 1
         /\ \A k \in 1 .. Len(calls) - 1 : Front(calls)[k] = calls[k]
         /\ Last(calls) \in CallType /\ Last(calls) = calls[Len(calls)] /\ Len(calls) \in Nat \ {0}
<1> PICK n \in Nat \ {0} : n = Len(calls)
  BY EmptySeq
<1>1. \A k \in 1 .. n : calls[k] \in CallType
  BY ElementOfSeq
<1>2. Front(calls) = SubSeq(calls, 1, n - 1)
  BY DEF Front
<1>3. /\ SubSeq(calls, 1, n - 1) \in Seq(CallType)
      /\ Len(SubSeq(calls, 1, n - 1)) = IF 1 <= n - 1 THEN n - 1 - 1 + 1 ELSE 0
      /\ \A k \in 1 .. n - 1 - 1 + 1 : SubSeq(calls, 1, n - 1)[k] = calls[1 + k - 1]
  <2>1. \A k \in 1 .. n - 1 : calls[k] \in CallType
    BY <1>1
  <2>2. 1 \in Int /\ n - 1 \in Int
    OBVIOUS
  <2> QED BY ONLY <2>1, <2>2, SubSeqProperties
<1>4. n - 1 - 1 + 1 = n - 1 /\ (IF 1 <= n - 1 THEN n - 1 - 1 + 1 ELSE 0) = n - 1
      /\ \A k \in 1 .. n - 1 : 1 + k - 1 = k
  OBVIOUS
<1>5. Last(calls) = calls[n]
  BY DEF Last
<1> QED BY <1>1, <1>2, <1>3, <1>4, <1>5

\* A call that has nothing to sort returns.
LEMMA CallsReturn ==
  ASSUME NEW b \in Seq(Numbers), NEW calls, calls # <<>>, CallsOK(b, calls),
         \A x, y \in Unsorted(Last(calls)) : x = y
  PROVE  CallsOK(b, Front(calls))
<1>1. calls \in Seq(CallType)
  BY DEF CallsOK
<1> PICK n \in Nat \ {0} : n = Len(calls)
  BY <1>1, FrontIs
<1> PICK rest \in Seq(CallType) : rest = Front(calls)
  BY <1>1, FrontIs
<1>2. Len(rest) = n - 1 /\ (\A k \in 1 .. n - 1 : rest[k] = calls[k]) /\ Last(calls) = calls[n]
  BY <1>1, FrontIs
<1> PICK m \in Nat : m = Len(b)
  OBVIOUS
<1>3. /\ \A k \in 1 .. n : Unsorted(calls[k]) \subseteq 1 .. m
      /\ \A k, i \in 1 .. n : k # i => Unsorted(calls[k]) \cap Unsorted(calls[i]) = {}
      /\ \A x, y \in 1 .. m :
           x < y => b[x] <= b[y] \/ \E k \in 1 .. n : {x, y} \subseteq Unsorted(calls[k])
  <2>1. SortedBut(b, calls, m, n)
    BY DEF CallsOK
  <2> QED BY ONLY <2>1, Zenon DEF SortedBut
<1>4. \A k \in 1 .. n - 1 : k \in 1 .. n
  OBVIOUS
<1>5. /\ \A k \in 1 .. n - 1 : Unsorted(rest[k]) \subseteq 1 .. m
      /\ \A k, i \in 1 .. n - 1 : k # i => Unsorted(rest[k]) \cap Unsorted(rest[i]) = {}
  BY ONLY <1>2, <1>3, <1>4
<1>6. ASSUME NEW x \in 1 .. m, NEW y \in 1 .. m, x < y
      PROVE  b[x] <= b[y] \/ \E k \in 1 .. n - 1 : {x, y} \subseteq Unsorted(rest[k])
  <2>1. CASE b[x] <= b[y]
    BY <2>1
  <2>2. CASE \E k \in 1 .. n : {x, y} \subseteq Unsorted(calls[k])
    <3>1. PICK k \in 1 .. n : {x, y} \subseteq Unsorted(calls[k])
      BY <2>2
    <3>2. x # y
      BY <1>6
    <3>3. k # n
      BY ONLY <1>2, <3>1, <3>2, \A i, j \in Unsorted(Last(calls)) : i = j
    <3>4. k \in 1 .. n - 1
      BY <3>3
    <3> QED BY <1>2, <3>1, <3>4
  <2> QED BY <1>3, <1>6, <2>1, <2>2
<1>7. CallsOK(b, rest)
  <2>1. SortedBut(b, rest, m, n - 1)
    BY ONLY <1>5, <1>6, Zenon DEF SortedBut
  <2> QED BY ONLY <1>2, <2>1, rest \in Seq(CallType), m = Len(b) DEF CallsOK
<1> QED BY <1>7

\* Two calls f and g sort what one had to, and its numbers are put in
\* another order.
Splits(b, c, call, f, g) ==
  /\ c \in Seq(Numbers) /\ Len(c) = Len(b)
  /\ \A x \in 1 .. Len(b) : x \notin Unsorted(call) => c[x] = b[x]
  /\ \A x \in Unsorted(call) : \E k \in Unsorted(call) : c[x] = b[k]
  /\ f \in CallType /\ g \in CallType
  /\ Unsorted(f) \cup Unsorted(g) \subseteq Unsorted(call) /\ Unsorted(f) \cap Unsorted(g) = {}
  /\ \A x, y \in Unsorted(call) :
       x < y => c[x] <= c[y] \/ {x, y} \subseteq Unsorted(f) \/ {x, y} \subseteq Unsorted(g)

\* Then all is in order but for what the calls have to sort now.
LEMMA CallsSplit ==
  ASSUME NEW b \in Seq(Numbers), NEW calls, calls # <<>>, CallsOK(b, calls),
         NEW c, NEW f, NEW g, Splits(b, c, Last(calls), f, g)
  PROVE  CallsOK(c, Front(calls) \o <<f, g>>)
<1>1. calls \in Seq(CallType)
  BY DEF CallsOK
<1> PICK n \in Nat \ {0} : n = Len(calls)
  BY <1>1, FrontIs
<1> PICK rest \in Seq(CallType) : rest = Front(calls)
  BY <1>1, FrontIs
<1>2. Len(rest) = n - 1 /\ (\A k \in 1 .. n - 1 : rest[k] = calls[k]) /\ Last(calls) = calls[n]
  BY <1>1, FrontIs
<1> PICK m \in Nat : m = Len(b)
  OBVIOUS
<1> PICK top : top = Last(calls)
  OBVIOUS
<1> PICK U : U = Unsorted(top)
  OBVIOUS
<1>3. /\ \A k \in 1 .. n : Unsorted(calls[k]) \subseteq 1 .. m
      /\ \A k, i \in 1 .. n : k # i => Unsorted(calls[k]) \cap Unsorted(calls[i]) = {}
      /\ \A x, y \in 1 .. m :
           x < y => b[x] <= b[y] \/ \E k \in 1 .. n : {x, y} \subseteq Unsorted(calls[k])
  <2>1. SortedBut(b, calls, m, n)
    BY DEF CallsOK
  <2> QED BY ONLY <2>1, Zenon DEF SortedBut
<1>4. /\ c \in Seq(Numbers) /\ Len(c) = m /\ f \in CallType /\ g \in CallType
      /\ \A x \in 1 .. m : x \notin U => c[x] = b[x]
      /\ \A x \in U : \E k \in U : c[x] = b[k]
      /\ Unsorted(f) \subseteq U /\ Unsorted(g) \subseteq U /\ Unsorted(f) \cap Unsorted(g) = {}
      /\ \A x, y \in U : x < y => c[x] <= c[y] \/ {x, y} \subseteq Unsorted(f) \/ {x, y} \subseteq Unsorted(g)
  BY DEF Splits
<1>12. <<f, g>> \in Seq(CallType) /\ Len(<<f, g>>) = 2 /\ <<f, g>>[1] = f /\ <<f, g>>[2] = g
  BY ONLY <1>4
<1> PICK two \in Seq(CallType) : two = <<f, g>>
  BY <1>12
<1> PICK new : new = rest \o two
  OBVIOUS
<1>5. /\ new \in Seq(CallType) /\ Len(new) = n + 1
      /\ (\A k \in 1 .. n - 1 : new[k] = calls[k]) /\ new[n] = f /\ new[n + 1] = g
  <2>1. /\ new \in Seq(CallType) /\ Len(new) = n - 1 + 2
        /\ \A k \in 1 .. n - 1 + 2 : new[k] = IF k <= n - 1 THEN rest[k] ELSE two[k - (n - 1)]
    BY <1>2, ConcatProperties
  <2>2. n \in 1 .. n - 1 + 2 /\ n + 1 \in 1 .. n - 1 + 2 /\ n - (n - 1) = 1 /\ n + 1 - (n - 1) = 2
    OBVIOUS
  <2>3. \A k \in 1 .. n - 1 : k \in 1 .. n - 1 + 2 /\ k <= n - 1
    OBVIOUS
  <2>4. new[n] = two[n - (n - 1)] /\ new[n + 1] = two[n + 1 - (n - 1)]
    BY ONLY n \in Nat \ {0}, <2>1, <2>2
  <2>5. two[1] = f /\ two[2] = g
    BY <1>12
  <2>6. \A k \in 1 .. n - 1 : new[k] = calls[k]
    BY ONLY <1>2, <2>1, <2>3
  <2>7. n - 1 + 2 = n + 1
    OBVIOUS
  <2> QED BY ONLY <2>1, <2>2, <2>4, <2>5, <2>6, <2>7
<1>6. /\ n \in 1 .. n /\ U = Unsorted(calls[n]) /\ U \subseteq 1 .. m
      /\ \A k \in 1 .. n - 1 : k \in 1 .. n /\ k # n
  BY <1>2, <1>3
<1>13. \A x, z \in U, y \in (1 .. m) \ U : x < y <=> z < y
  <2>1. top \in CallType
    BY <1>1, FrontIs
  <2> QED BY <2>1, UnsortedIs
<1>7. \A k \in 1 .. n + 1 : k \in 1 .. n - 1 \/ k = n \/ k = n + 1
  OBVIOUS
<1>8. \A k \in 1 .. n + 1 : Unsorted(new[k]) \subseteq 1 .. m
  BY ONLY <1>3, <1>4, <1>5, <1>6, <1>7
<1>9. ASSUME NEW k \in 1 .. n + 1, NEW i \in 1 .. n + 1, k # i
      PROVE  Unsorted(new[k]) \cap Unsorted(new[i]) = {}
  <2>1. \A j \in 1 .. n - 1 : Unsorted(calls[j]) \cap U = {}
    BY <1>3, <1>6
  <2>2. \A j \in 1 .. n - 1 : Unsorted(new[j]) \cap Unsorted(f) = {} /\ Unsorted(new[j]) \cap Unsorted(g) = {}
    BY <1>4, <1>5, <2>1
  <2>3. \A j, h \in 1 .. n - 1 : j # h => Unsorted(new[j]) \cap Unsorted(new[h]) = {}
    <3>1. \A j \in 1 .. n - 1 : new[j] = calls[j] /\ j \in 1 .. n
      BY <1>5, <1>6
    <3>2. \A j, h \in 1 .. n : j # h => Unsorted(calls[j]) \cap Unsorted(calls[h]) = {}
      BY <1>3
    <3> QED BY ONLY <3>1, <3>2
  <2> QED BY ONLY <1>4, <1>5, <1>7, <1>9, <2>2, <2>3
<1>10. ASSUME NEW x \in 1 .. m, NEW y \in 1 .. m, x < y
       PROVE  c[x] <= c[y] \/ \E k \in 1 .. n + 1 : {x, y} \subseteq Unsorted(new[k])
  <2>1. n \in 1 .. n + 1 /\ n + 1 \in 1 .. n + 1 /\ \A k \in 1 .. n - 1 : k \in 1 .. n + 1
    OBVIOUS
  <2>2. CASE x \in U /\ y \in U
    <3>1. c[x] <= c[y] \/ {x, y} \subseteq Unsorted(f) \/ {x, y} \subseteq Unsorted(g)
      BY <1>4, <1>10, <2>2
    <3> QED BY ONLY <1>5, <2>1, <3>1
  <2>3. CASE x \notin U /\ y \notin U
    <3>1. c[x] = b[x] /\ c[y] = b[y]
      BY <1>4, <2>3
    <3>2. CASE \E k \in 1 .. n : {x, y} \subseteq Unsorted(calls[k])
      <4>1. PICK k \in 1 .. n : {x, y} \subseteq Unsorted(calls[k])
        BY <3>2
      <4>2. k \in 1 .. n - 1
        <5>1. k # n
          BY <1>6, <2>3, <4>1
        <5> QED BY <5>1
      <4> QED BY <1>5, <2>1, <4>1, <4>2
    <3>3. CASE ~\E k \in 1 .. n : {x, y} \subseteq Unsorted(calls[k])
      <4>1. b[x] <= b[y]
        BY ONLY <1>3, <1>10, <3>3, x \in 1 .. m, y \in 1 .. m
      <4> QED BY ONLY <3>1, <4>1
    <3> QED BY ONLY <3>2, <3>3
  <2>4. CASE x \in U /\ y \notin U
    <3>1. PICK z \in U : c[x] = b[z]
      BY <1>4, <2>4
    <3>2. c[y] = b[y]
      BY <1>4, <2>4
    <3>3. ~\E k \in 1 .. n : {z, y} \subseteq Unsorted(calls[k])
      BY <1>3, <1>6, <2>4, <3>1
    <3>4. z < y /\ z \in 1 .. m
      BY <1>6, <1>10, <1>13, <2>4
    <3> QED BY <1>3, <3>1, <3>2, <3>3, <3>4
  <2>5. CASE x \notin U /\ y \in U
    <3>1. PICK z \in U : c[y] = b[z]
      BY <1>4, <2>5
    <3>2. c[x] = b[x]
      BY <1>4, <2>5
    <3>3. ~\E k \in 1 .. n : {x, z} \subseteq Unsorted(calls[k])
      BY <1>3, <1>6, <2>5, <3>1
    <3>4. x < z /\ z \in 1 .. m
      BY <1>6, <1>10, <1>13, <2>5
    <3> QED BY <1>3, <3>1, <3>2, <3>3, <3>4
  <2> QED BY <2>2, <2>3, <2>4, <2>5
<1>11. CallsOK(c, new)
  <2>1. SortedBut(c, new, m, n + 1)
    BY ONLY <1>8, <1>9, <1>10, Zenon DEF SortedBut
  <2> QED BY ONLY <1>4, <1>5, <2>1 DEF CallsOK
<1> QED BY <1>11, <1>12

-----------------------------------------------------------------------------
(* A context of data[] and its file *)

ContextType ==
  [pc : {"read", "sort", "rewind", "write", "close", "over"}, pos : Nat, buf : Seq(Numbers),
   calls : Seq(CallType), finished : BOOLEAN]

Rising(s) == \A x, y \in 1 .. Len(s) : x < y => s[x] <= s[y]

\* The buffer holds the numbers of the file as it was, in some order.
HasRead(d, input) == Len(d.buf) = Len(input) /\ SameCounts(d.buf, input)

\* What is true of a context of data[], of its file and of the file as it
\* was, wherever the coroutine has been switched.
ContextOK(d, file, input) ==
  /\ d \in ContextType /\ file \in Seq(Numbers) /\ (d.finished <=> d.pc = "over")
  /\ \/ /\ d.pc = "read" /\ file = input
        /\ d.pos = Len(d.buf) /\ d.pos <= Len(input) /\ \A i \in 1 .. d.pos : d.buf[i] = input[i]
     \/ d.pc = "sort" /\ file = input /\ HasRead(d, input) /\ CallsOK(d.buf, d.calls)
     \/ d.pc = "rewind" /\ file = input /\ HasRead(d, input) /\ Rising(d.buf)
     \/ /\ d.pc = "write" /\ Len(file) = Len(input) /\ HasRead(d, input) /\ Rising(d.buf)
        /\ d.pos <= Len(d.buf) /\ \A i \in 1 .. d.pos : file[i] = d.buf[i]
     \/ d.pc = "close" /\ file = d.buf /\ HasRead(d, input) /\ Rising(d.buf)
     \/ d.pc = "over" /\ Rising(file) /\ SameCounts(file, input)

\* It reads the next number, or there is none.
LEMMA ReadOne ==
  ASSUME NEW input \in Seq(Numbers), NEW file, NEW d, ContextOK(d, file, input),
         d.pc = "read", d.pos < Len(file)
  PROVE  ContextOK([d EXCEPT !.buf = Append(@, file[d.pos + 1]), !.pos = @ + 1], file, input)
<1> PICK k \in Nat : k = d.pos
  BY DEF ContextOK, ContextType
<1> PICK b \in Seq(Numbers) : b = d.buf
  BY DEF ContextOK, ContextType
<1>1. /\ d \in ContextType /\ file = input /\ k = Len(b) /\ ~d.finished
      /\ \A i \in 1 .. k : b[i] = input[i]
  BY DEF ContextOK
<1> PICK x \in Numbers : x = input[k + 1]
  <2>1. k + 1 \in 1 .. Len(input)
    BY <1>1
  <2> QED BY <2>1, ElementOfSeq
<1> PICK c : c = Append(b, x)
  OBVIOUS
<1>2. c \in Seq(Numbers) /\ Len(c) = k + 1 /\ c[k + 1] = x /\ \A i \in 1 .. k : c[i] = b[i]
  BY <1>1, AppendProperties
<1> PICK new : new = [d EXCEPT !.buf = c, !.pos = k + 1]
  OBVIOUS
<1>3. /\ new \in ContextType /\ new.buf = c /\ new.pos = k + 1 /\ new.pc = "read" /\ ~new.finished
  <2>1. d \in ContextType /\ c \in Seq(Numbers) /\ k + 1 \in Nat /\ d.pc = "read" /\ ~d.finished
    BY <1>1, <1>2
  <2> QED BY ONLY <2>1, new = [d EXCEPT !.buf = c, !.pos = k + 1] DEF ContextType
<1>4. \A i \in 1 .. k + 1 : c[i] = input[i]
  BY <1>1, <1>2
<1>5. k + 1 <= Len(input)
  BY <1>1
<1>6. ContextOK(new, file, input)
  BY <1>1, <1>2, <1>3, <1>4, <1>5 DEF ContextOK
<1>7. [d EXCEPT !.buf = Append(@, file[d.pos + 1]), !.pos = @ + 1] = new
  BY <1>1
<1> QED BY <1>6, <1>7

\* It has read all numbers: it sorts all of them.
LEMMA ReadAll ==
  ASSUME NEW input \in Seq(Numbers), NEW file, NEW d, ContextOK(d, file, input),
         d.pc = "read", ~(d.pos < Len(file))
  PROVE  ContextOK([d EXCEPT !.pc = "sort", !.calls = <<Call(1, Len(d.buf))>>], file, input)
<1> PICK b \in Seq(Numbers) : b = d.buf
  BY DEF ContextOK, ContextType
<1> PICK m \in Nat : m = Len(b)
  OBVIOUS
<1>1. /\ d \in ContextType /\ file = input /\ d.pos = m /\ m <= Len(input) /\ ~d.finished
      /\ \A i \in 1 .. m : b[i] = input[i]
  BY DEF ContextOK
<1>2. m = Len(input)
  BY <1>1
<1>3. b = input
  BY <1>1, <1>2, SeqEqual
<1> PICK call : call = Call(1, m)
  OBVIOUS
<1>4. call \in CallType /\ Unsorted(call) = 1 .. m
  BY DEF Call, CallType, Unsorted
<1> PICK calls : calls = <<call>>
  OBVIOUS
<1>5. calls \in Seq(CallType) /\ Len(calls) = 1 /\ calls[1] = call
  BY <1>4
<1>6. CallsOK(b, calls)
  <2>1. SortedBut(b, calls, m, 1)
    BY ONLY <1>4, <1>5 DEF SortedBut
  <2> QED BY <1>5, <2>1 DEF CallsOK
<1> PICK new : new = [d EXCEPT !.pc = "sort", !.calls = calls]
  OBVIOUS
<1>7. new \in ContextType /\ new.pc = "sort" /\ new.calls = calls /\ new.buf = b /\ ~new.finished
  BY <1>1, <1>5 DEF ContextType
<1>8. HasRead(new, input)
  BY <1>3, <1>7 DEF HasRead, SameCounts
<1>9. ContextOK(new, file, input)
  BY <1>1, <1>3, <1>6, <1>7, <1>8 DEF ContextOK
<1> QED BY <1>9

\* It sorts on, with other calls and its numbers in another order.
LEMMA SortsOn ==
  ASSUME NEW input \in Seq(Numbers), NEW file, NEW d, ContextOK(d, file, input), d.pc = "sort",
         NEW b \in Seq(Numbers), Len(b) = Len(d.buf), SameCounts(b, d.buf),
         NEW calls, CallsOK(b, calls), NEW new, new = [d EXCEPT !.buf = b, !.calls = calls]
  PROVE  ContextOK(new, file, input)
<1>1. d \in ContextType /\ file \in Seq(Numbers) /\ file = input /\ HasRead(d, input) /\ ~d.finished
  BY DEF ContextOK
<1>2. calls \in Seq(CallType)
  BY DEF CallsOK
<1>3. new \in ContextType /\ new.pc = "sort" /\ new.calls = calls /\ new.buf = b /\ ~new.finished
  BY <1>1, <1>2 DEF ContextType
<1>4. HasRead(new, input)
  BY <1>1, <1>3 DEF HasRead, SameCounts
<1> QED BY <1>1, <1>3, <1>4 DEF ContextOK

\* part() leaves a call for each side.
LEMMA PartSplits ==
  ASSUME NEW b \in Seq(Numbers), NEW call \in CallType, call.at = "begin", call.l < call.r,
         Unsorted(call) \subseteq 1 .. Len(b), NEW cut, Divided(cut, b, call.l, call.r)
  PROVE  Splits(b, cut.a, call, [call EXCEPT !.p = cut.p, !.at = "left"], Call(call.l, cut.p - 1))
<1> PICK l \in Nat, r \in Nat : l = call.l /\ r = call.r
  BY DEF CallType
<1> PICK c, p : c = cut.a /\ p = cut.p
  OBVIOUS
<1> PICK f : f = [call EXCEPT !.p = p, !.at = "left"]
  OBVIOUS
<1> PICK g : g = Call(l, p - 1)
  OBVIOUS
<1>1. /\ p \in l .. r /\ Shuffled(c, b, l, r)
      /\ \A x \in l .. r : x < p => c[x] <= c[p]
      /\ \A x \in l .. r : x > p => c[p] <= c[x]
  BY DEF Divided
<1>2. Unsorted(call) = l .. r
  BY DEF Unsorted
<1>3. l \in 1 .. Len(b) /\ r \in 1 .. Len(b)
  BY <1>2
<1>4. p \in Nat /\ p - 1 \in Nat
  BY <1>1, <1>3
<1>5. f \in CallType /\ g \in CallType /\ Unsorted(f) = p + 1 .. r /\ Unsorted(g) = l .. p - 1
  <2>1. f \in CallType /\ f.at = "left" /\ f.p = p /\ f.r = r
    BY <1>4 DEF CallType
  <2>2. g \in CallType /\ g.at = "begin" /\ g.l = l /\ g.r = p - 1
    BY <1>4 DEF CallType, Call
  <2> QED BY <2>1, <2>2 DEF Unsorted
<1>6. /\ c \in Seq(Numbers) /\ Len(c) = Len(b)
      /\ \A x \in 1 .. Len(b) : x \notin l .. r => c[x] = b[x]
      /\ \A x \in l .. r : \E k \in l .. r : c[x] = b[k]
  BY <1>1 DEF Shuffled
<1>7. ASSUME NEW x \in l .. r, NEW y \in l .. r, x < y
      PROVE  c[x] <= c[y] \/ {x, y} \subseteq p + 1 .. r \/ {x, y} \subseteq l .. p - 1
  <2>1. CASE x < p /\ y < p
    <3>1. x \in l .. p - 1 /\ y \in l .. p - 1
      BY <1>1, <2>1
    <3> QED BY <3>1
  <2>2. CASE x > p
    <3>1. x \in p + 1 .. r /\ y \in p + 1 .. r
      BY <1>1, <1>7, <2>2
    <3> QED BY <3>1
  <2>3. CASE x <= p /\ p <= y
    <3>1. x \in 1 .. Len(c) /\ y \in 1 .. Len(c) /\ p \in 1 .. Len(c)
      <4>1. l .. r \subseteq 1 .. Len(b)
        BY ONLY <1>2, Unsorted(call) \subseteq 1 .. Len(b)
      <4>2. p \in l .. r /\ Len(c) = Len(b)
        BY <1>1, <1>6
      <4> QED BY ONLY <4>1, <4>2, x \in l .. r, y \in l .. r
    <3>2. c[x] \in Numbers /\ c[y] \in Numbers /\ c[p] \in Numbers
      BY ONLY <1>6, <3>1, ElementOfSeq
    <3>3. c[x] \in Int /\ c[y] \in Int /\ c[p] \in Int
      BY <3>2, CoroSortAssumption DEF Numbers
    <3>4. c[x] <= c[p] /\ c[p] <= c[y]
      BY <1>1, <2>3, <3>3
    <3> QED BY <3>3, <3>4
  <2> QED BY <1>1, <1>7, <2>1, <2>2, <2>3
<1>8. (p + 1 .. r) \cup (l .. p - 1) \subseteq l .. r /\ (p + 1 .. r) \cap (l .. p - 1) = {}
  BY <1>1
<1>9. Splits(b, c, call, f, g)
  BY ONLY <1>2, <1>5, <1>6, <1>7, <1>8 DEF Splits
<1> QED BY <1>9

\* What the call has left is given to another.
LEMMA LeftSplits ==
  ASSUME NEW b \in Seq(Numbers), NEW call \in CallType, call.at = "left"
  PROVE  Splits(b, b, call, [call EXCEPT !.at = "right"], Call(call.p + 1, call.r))
<1> PICK f : f = [call EXCEPT !.at = "right"]
  OBVIOUS
<1> PICK g : g = Call(call.p + 1, call.r)
  OBVIOUS
<1>1. f \in CallType /\ f.at = "right"
  BY DEF CallType
<1>2. g \in CallType /\ g.at = "begin" /\ g.l = call.p + 1 /\ g.r = call.r
  BY DEF CallType, Call
<1>3. Unsorted(f) = {} /\ Unsorted(g) = Unsorted(call)
  BY <1>1, <1>2 DEF Unsorted
<1>4. Splits(b, b, call, f, g)
  BY ONLY <1>1, <1>2, <1>3, b \in Seq(Numbers) DEF Splits
<1> QED BY <1>4

\* Only its calls are others.
LEMMA CallsOn ==
  ASSUME NEW input \in Seq(Numbers), NEW file, NEW d, ContextOK(d, file, input), d.pc = "sort",
         NEW calls, CallsOK(d.buf, calls)
  PROVE  ContextOK([d EXCEPT !.calls = calls], file, input)
<1> PICK b \in Seq(Numbers) : b = d.buf
  BY DEF ContextOK, ContextType
<1>1. d \in ContextType
  BY DEF ContextOK
<1> PICK new : new = [d EXCEPT !.buf = b, !.calls = calls]
  OBVIOUS
<1>2. [d EXCEPT !.calls = calls] = new
  BY <1>1 DEF ContextType
<1>3. SameCounts(b, d.buf)
  BY DEF SameCounts
<1>4. ContextOK(new, file, input)
  BY <1>3, SortsOn
<1> QED BY <1>2, <1>4

\* The innermost of the calls.
LEMMA TopIs ==
  ASSUME NEW input, NEW file, NEW d, ContextOK(d, file, input), d.pc = "sort", d.calls # <<>>
  PROVE  /\ Last(d.calls) \in CallType /\ CallsOK(d.buf, d.calls) /\ d.buf \in Seq(Numbers)
         /\ Unsorted(Last(d.calls)) \subseteq 1 .. Len(d.buf)
<1>1. CallsOK(d.buf, d.calls) /\ d.buf \in Seq(Numbers)
  BY DEF ContextOK, ContextType
<1> PICK calls \in Seq(CallType) : calls = d.calls
  BY <1>1 DEF CallsOK
<1>2. Last(calls) \in CallType /\ Last(calls) = calls[Len(calls)] /\ Len(calls) \in Nat \ {0}
  BY FrontIs
<1>3. SortedBut(d.buf, calls, Len(d.buf), Len(calls))
  BY <1>1 DEF CallsOK
<1>4. Unsorted(calls[Len(calls)]) \subseteq 1 .. Len(d.buf)
  <2>1. Len(calls) \in 1 .. Len(calls)
    BY <1>2
  <2> QED BY ONLY <1>3, <2>1 DEF SortedBut
<1> QED BY <1>1, <1>2, <1>4

\* part() and the call for the left side.
LEMMA PartStep ==
  ASSUME NEW input \in Seq(Numbers), NEW file, NEW d, ContextOK(d, file, input), d.pc = "sort",
         d.calls # <<>>, NEW top, top = Last(d.calls), top.at = "begin", top.l < top.r,
         NEW v \in top.l .. top.r, NEW cut, cut = part(d.buf, top.l, top.r, v)
  PROVE  ContextOK([d EXCEPT !.buf = cut.a,
                             !.calls = Front(@) \o <<[top EXCEPT !.p = cut.p, !.at = "left"],
                                                     Call(top.l, cut.p - 1)>>], file, input)
<1>1. /\ top \in CallType /\ CallsOK(d.buf, d.calls) /\ d.buf \in Seq(Numbers)
      /\ Unsorted(top) \subseteq 1 .. Len(d.buf)
  BY TopIs
<1> PICK b \in Seq(Numbers) : b = d.buf
  BY <1>1
<1> PICK l \in Nat, r \in Nat : l = top.l /\ r = top.r
  BY <1>1 DEF CallType
<1>2. Unsorted(top) = l .. r
  BY DEF Unsorted
<1>3. l \in 1 .. Len(b) /\ r \in l + 1 .. Len(b) /\ v \in l .. r
  <2>1. l \in l .. r /\ r \in l .. r /\ l .. r \subseteq 1 .. Len(b)
    BY <1>1, <1>2
  <2> QED BY <2>1
<1>4. Divided(cut, b, l, r)
  BY <1>3, PartIs
<1> PICK f : f = [top EXCEPT !.p = cut.p, !.at = "left"]
  OBVIOUS
<1> PICK g : g = Call(top.l, cut.p - 1)
  OBVIOUS
<1>5. Splits(b, cut.a, top, f, g)
  BY <1>1, <1>4, PartSplits
<1> PICK c : c = cut.a
  OBVIOUS
<1>6. c \in Seq(Numbers) /\ Len(c) = Len(b) /\ SameCounts(c, b)
  BY <1>4 DEF Divided, Shuffled
<1> PICK calls : calls = Front(d.calls) \o <<f, g>>
  OBVIOUS
<1>7. CallsOK(c, calls)
  BY ONLY <1>1, <1>5, b \in Seq(Numbers), b = d.buf, c = cut.a, d.calls # <<>>, top = Last(d.calls),
     calls = Front(d.calls) \o <<f, g>>, CallsSplit
<1> PICK new : new = [d EXCEPT !.buf = c, !.calls = calls]
  OBVIOUS
<1>8. ContextOK(new, file, input)
  BY <1>6, <1>7, SortsOn
<1> QED BY <1>8

\* The call for the right side.
LEMMA LeftStep ==
  ASSUME NEW input \in Seq(Numbers), NEW file, NEW d, ContextOK(d, file, input), d.pc = "sort",
         d.calls # <<>>, NEW top, top = Last(d.calls), top.at = "left"
  PROVE  ContextOK([d EXCEPT !.calls = Front(@) \o <<[top EXCEPT !.at = "right"],
                                                     Call(top.p + 1, top.r)>>], file, input)
<1>1. top \in CallType /\ CallsOK(d.buf, d.calls) /\ d.buf \in Seq(Numbers)
  BY TopIs
<1> PICK f : f = [top EXCEPT !.at = "right"]
  OBVIOUS
<1> PICK g : g = Call(top.p + 1, top.r)
  OBVIOUS
<1>2. Splits(d.buf, d.buf, top, f, g)
  BY <1>1, LeftSplits
<1> PICK calls : calls = Front(d.calls) \o <<f, g>>
  OBVIOUS
<1>3. CallsOK(d.buf, calls)
  BY ONLY <1>1, <1>2, d.calls # <<>>, top = Last(d.calls), calls = Front(d.calls) \o <<f, g>>,
     CallsSplit
<1>4. ContextOK([d EXCEPT !.calls = calls], file, input)
  BY ONLY <1>3, input \in Seq(Numbers), ContextOK(d, file, input), d.pc = "sort", CallsOn
<1> QED BY <1>4

\* A call returns: there was nothing to sort, or both sides have been.
LEMMA ReturnStep ==
  ASSUME NEW input \in Seq(Numbers), NEW file, NEW d, ContextOK(d, file, input), d.pc = "sort",
         d.calls # <<>>, NEW top, top = Last(d.calls),
         (top.at = "begin" /\ top.l >= top.r) \/ top.at = "right"
  PROVE  ContextOK([d EXCEPT !.calls = Front(@)], file, input)
<1>1. top \in CallType /\ CallsOK(d.buf, d.calls) /\ d.buf \in Seq(Numbers)
  BY TopIs
<1>2. \A x, y \in Unsorted(top) : x = y
  <2> PICK l \in Nat, r \in Nat : l = top.l /\ r = top.r
    BY <1>1 DEF CallType
  <2>1. Unsorted(top) = IF top.at = "begin" THEN l .. r ELSE {}
    BY DEF Unsorted
  <2>2. top.at = "begin" => l >= r
    OBVIOUS
  <2> QED BY <2>1, <2>2
<1> PICK calls : calls = Front(d.calls)
  OBVIOUS
<1>3. CallsOK(d.buf, calls)
  BY ONLY <1>1, <1>2, d.calls # <<>>, top = Last(d.calls), calls = Front(d.calls), CallsReturn
<1>4. ContextOK([d EXCEPT !.calls = calls], file, input)
  BY ONLY <1>3, input \in Seq(Numbers), ContextOK(d, file, input), d.pc = "sort", CallsOn
<1> QED BY <1>4

\* All is sorted.
LEMMA SortsEnd ==
  ASSUME NEW input \in Seq(Numbers), NEW file, NEW d, ContextOK(d, file, input), d.pc = "sort",
         d.calls = <<>>
  PROVE  ContextOK([d EXCEPT !.pc = "rewind"], file, input)
<1> PICK b \in Seq(Numbers) : b = d.buf
  BY DEF ContextOK, ContextType
<1>1. d \in ContextType /\ file = input /\ HasRead(d, input) /\ CallsOK(b, <<>>) /\ ~d.finished
  BY DEF ContextOK
<1>2. Rising(b)
  <2>1. SortedBut(b, <<>>, Len(b), 0)
    BY <1>1, EmptySeq DEF CallsOK
  <2>2. ~\E k \in 1 .. 0 : TRUE
    OBVIOUS
  <2> QED BY ONLY <2>1, <2>2, Zenon DEF SortedBut, Rising
<1> PICK new : new = [d EXCEPT !.pc = "rewind"]
  OBVIOUS
<1>3. new \in ContextType /\ new.pc = "rewind" /\ new.buf = b /\ ~new.finished
  BY <1>1 DEF ContextType
<1>4. HasRead(new, input)
  BY <1>1, <1>3 DEF HasRead
<1>5. ContextOK(new, file, input)
  BY <1>1, <1>2, <1>3, <1>4 DEF ContextOK
<1> QED BY <1>5

\* The file is rewound, to be written from its beginning.
LEMMA Rewound ==
  ASSUME NEW input \in Seq(Numbers), NEW file, NEW d, ContextOK(d, file, input), d.pc = "rewind"
  PROVE  ContextOK([d EXCEPT !.pc = "write", !.pos = 0], file, input)
<1> PICK b \in Seq(Numbers) : b = d.buf
  BY DEF ContextOK, ContextType
<1>1. d \in ContextType /\ file = input /\ HasRead(d, input) /\ Rising(b) /\ ~d.finished
  BY DEF ContextOK
<1> PICK new : new = [d EXCEPT !.pc = "write", !.pos = 0]
  OBVIOUS
<1>3. new \in ContextType /\ new.pc = "write" /\ new.pos = 0 /\ new.buf = b /\ ~new.finished
  BY <1>1 DEF ContextType
<1>4. HasRead(new, input)
  BY <1>1, <1>3 DEF HasRead
<1>5. ContextOK(new, file, input)
  BY <1>1, <1>3, <1>4 DEF ContextOK
<1> QED BY <1>5

\* It writes the next number, or there is none.
LEMMA WriteOne ==
  ASSUME NEW input \in Seq(Numbers), NEW file, NEW d, ContextOK(d, file, input), d.pc = "write",
         d.pos < Len(d.buf)
  PROVE  ContextOK([d EXCEPT !.pos = @ + 1], [file EXCEPT ![d.pos + 1] = d.buf[d.pos + 1]], input)
<1> PICK b \in Seq(Numbers) : b = d.buf
  BY DEF ContextOK, ContextType
<1> PICK k \in Nat : k = d.pos
  BY DEF ContextOK, ContextType
<1>1. /\ d \in ContextType /\ file \in Seq(Numbers) /\ Len(file) = Len(input) /\ HasRead(d, input)
      /\ Rising(b) /\ ~d.finished /\ \A i \in 1 .. k : file[i] = b[i]
  BY DEF ContextOK
<1>2. Len(b) = Len(input) /\ k + 1 \in 1 .. Len(file) /\ k + 1 \in 1 .. Len(b)
  BY <1>1 DEF HasRead
<1> PICK x \in Numbers : x = b[k + 1]
  BY <1>2, ElementOfSeq
<1> PICK f : f = [file EXCEPT ![k + 1] = x]
  OBVIOUS
<1>3. /\ f \in Seq(Numbers) /\ Len(f) = Len(file)
      /\ \A i \in 1 .. Len(file) : f[i] = IF i = k + 1 THEN x ELSE file[i]
  BY <1>1, <1>2, ExceptSeq
<1>4. \A i \in 1 .. k + 1 : f[i] = b[i]
  BY <1>1, <1>2, <1>3
<1> PICK new : new = [d EXCEPT !.pos = k + 1]
  OBVIOUS
<1>5. new \in ContextType /\ new.pc = "write" /\ new.pos = k + 1 /\ new.buf = b /\ ~new.finished
  <2>1. d \in ContextType /\ k + 1 \in Nat /\ d.pc = "write" /\ b = d.buf /\ ~d.finished
    BY <1>1
  <2> QED BY ONLY <2>1, new = [d EXCEPT !.pos = k + 1] DEF ContextType
<1>6. HasRead(new, input)
  BY <1>1, <1>5 DEF HasRead
<1>7. k + 1 <= Len(b)
  BY <1>2
<1>8. ContextOK(new, f, input)
  BY <1>1, <1>3, <1>4, <1>5, <1>6, <1>7 DEF ContextOK
<1> QED BY <1>8

\* It has written all numbers: the file holds them.
LEMMA WriteAll ==
  ASSUME NEW input \in Seq(Numbers), NEW file, NEW d, ContextOK(d, file, input), d.pc = "write",
         ~(d.pos < Len(d.buf))
  PROVE  ContextOK([d EXCEPT !.pc = "close"], file, input)
<1> PICK b \in Seq(Numbers) : b = d.buf
  BY DEF ContextOK, ContextType
<1> PICK k \in Nat : k = d.pos
  BY DEF ContextOK, ContextType
<1>1. /\ d \in ContextType /\ file \in Seq(Numbers) /\ Len(file) = Len(input) /\ HasRead(d, input)
      /\ Rising(b) /\ ~d.finished /\ k <= Len(b) /\ \A i \in 1 .. k : file[i] = b[i]
  BY DEF ContextOK
<1>2. Len(b) = Len(file) /\ k = Len(b)
  BY <1>1 DEF HasRead
<1>3. file = b
  BY <1>1, <1>2, SeqEqual
<1> PICK new : new = [d EXCEPT !.pc = "close"]
  OBVIOUS
<1>4. new \in ContextType /\ new.pc = "close" /\ new.buf = b /\ ~new.finished
  BY <1>1 DEF ContextType
<1>5. HasRead(new, input)
  BY <1>1, <1>4 DEF HasRead
<1>6. ContextOK(new, file, input)
  BY <1>1, <1>3, <1>4, <1>5 DEF ContextOK
<1> QED BY <1>6

\* It ends.
LEMMA Ended ==
  ASSUME NEW input \in Seq(Numbers), NEW file, NEW d, ContextOK(d, file, input), d.pc = "close"
  PROVE  /\ ContextOK([d EXCEPT !.finished = TRUE, !.pc = "over"], file, input)
         /\ [d EXCEPT !.finished = TRUE, !.pc = "over"].buf = file
<1>1. /\ d \in ContextType /\ file \in Seq(Numbers) /\ file = d.buf /\ HasRead(d, input)
      /\ Rising(d.buf)
  BY DEF ContextOK
<1> PICK new : new = [d EXCEPT !.finished = TRUE, !.pc = "over"]
  OBVIOUS
<1>2. new \in ContextType /\ new.pc = "over" /\ new.buf = d.buf /\ new.finished = TRUE
  BY <1>1 DEF ContextType
<1>3. ContextOK(new, file, input)
  BY <1>1, <1>2 DEF ContextOK, HasRead
<1> QED BY <1>1, <1>2, <1>3

-----------------------------------------------------------------------------
(* All files, and the merge *)

Buffers == [n \in 1 .. Len(sort_input) |-> data[n].buf]

\* While main() merges, nothing that is left is smaller than what out.txt
\* has, and together they are what the files had.
Merging ==
  /\ \A n \in Files : data[n].finished /\ Rising(data[n].buf)
  /\ Rising(sort_out)
  /\ \A n \in Files : \A x \in 1 .. Len(sort_out), y \in 1 .. Len(data[n].buf) :
       sort_out[x] <= data[n].buf[y]
  /\ \A v \in Numbers :
       Count(sort_out, v) + Count(FlattenSeq(Buffers), v) = Count(FlattenSeq(sort_input), v)
  /\ sort_main = "end" => \A n \in Files : data[n].buf = <<>>

DataInv ==
  /\ sort_files \in Seq(Seq(Numbers)) /\ Len(sort_files) = Len(sort_input)
  /\ sort_out \in Seq(Numbers)
  /\ \A n \in Files : ContextOK(data[n], sort_files[n], sort_input[n])
  /\ \/ /\ sort_main = "coros" /\ sort_out = <<>>
        /\ \A n \in Files : data[n].finished => data[n].buf = sort_files[n]
     \/ sort_main \in {"merge", "end"} /\ Merging

\* The files as they were.
LEMMA InputIs ==
  ASSUME SortInv
  PROVE  /\ sort_input \in Seq(Seq(Numbers)) /\ Files = 1 .. Len(sort_input)
         /\ Len(sort_input) \in Nat \ {0} /\ \A n \in Files : sort_input[n] \in Seq(Numbers)
<1>1. sort_input \in Seq(Seq(Numbers)) /\ sort_input # <<>>
  BY CoroSortAssumption DEF SortInv, Numbers
<1>2. Files = 1 .. Len(sort_input)
  BY <1>1, LenProperties DEF SortInv
<1>3. Len(sort_input) \in Nat \ {0}
  BY <1>1, EmptySeq
<1> QED BY <1>1, <1>2, <1>3, ElementOfSeq

\* A step of a coroutine that leaves its context and its file in order.
LEMMA DataMoves ==
  ASSUME SortInv, DataInv, NEW n \in Files, uctx = n, NEW new, NEW file,
         ContextOK(new, file, sort_input[n]), new.finished => new.buf = file,
         data' = [data EXCEPT ![n] = new], sort_files' = [sort_files EXCEPT ![n] = file],
         UNCHANGED <<sort_input, sort_main, sort_out>>
  PROVE  DataInv'
<1>1. /\ sort_main = "coros" /\ sort_out = <<>> /\ data = [i \in Files |-> data[i]]
      /\ \A i \in Files : data[i].finished => data[i].buf = sort_files[i]
  BY DEF SortInv, DataInv
<1>2. Files' = Files
  BY <1>1 DEF Files
<1>3. \A i \in Files : data'[i] = IF i = n THEN new ELSE data[i]
  BY <1>1
<1>4. /\ file \in Seq(Numbers) /\ sort_files \in Seq(Seq(Numbers)) /\ n \in 1 .. Len(sort_files)
      /\ Files = 1 .. Len(sort_files)
  BY InputIs DEF DataInv, ContextOK
<1>5. /\ sort_files' \in Seq(Seq(Numbers)) /\ Len(sort_files') = Len(sort_files)
      /\ \A i \in Files : sort_files'[i] = IF i = n THEN file ELSE sort_files[i]
  BY <1>4, ExceptSeq
<1>6. \A i \in Files : ContextOK(data'[i], sort_files'[i], sort_input[i])
  BY <1>3, <1>5 DEF DataInv
<1>7. \A i \in Files : data'[i].finished => data'[i].buf = sort_files'[i]
  BY <1>1, <1>3, <1>5
<1> QED BY <1>1, <1>2, <1>5, <1>6, <1>7 DEF DataInv

\* Its file stays as it is.
LEMMA DataStays ==
  ASSUME SortInv, DataInv, NEW n \in Files, uctx = n, NEW new,
         ContextOK(new, sort_files[n], sort_input[n]), new.finished => new.buf = sort_files[n],
         data' = [data EXCEPT ![n] = new], UNCHANGED <<sort_files, sort_input, sort_main, sort_out>>
  PROVE  DataInv'
<1> PICK file : file = sort_files[n]
  OBVIOUS
<1>1. sort_files' = [sort_files EXCEPT ![n] = file]
  BY DEF DataInv
<1> QED BY <1>1, DataMoves

\* It does not end.
LEMMA GoesOn ==
  ASSUME SortInv, DataInv, NEW n \in Files, uctx = n, NEW new,
         ContextOK(new, sort_files[n], sort_input[n]), new.finished = data[n].finished, Goes(n, new)
  PROVE  DataInv'
<1>1. ~new.finished
  BY DEF SortInv
<1> QED BY <1>1, DataStays DEF Goes

\* What is known of the one that runs.
LEMMA Runs ==
  ASSUME SortInv, DataInv, NEW n \in Files, uctx = n
  PROVE  /\ ContextOK(data[n], sort_files[n], sort_input[n]) /\ sort_input[n] \in Seq(Numbers)
         /\ data[n] \in ContextType
BY InputIs DEF DataInv, ContextOK

\* Every step of a coroutine.
LEMMA SortStepData ==
  ASSUME SortInv, DataInv, NEW n \in Files, SortStep(n)
  PROVE  DataInv'
<1>0. uctx = n
  BY Zenon DEF SortStep, ReadNumber, QuickSortPart, QuickSortNothing, QuickSortLeft, QuickSortRight,
     Rewind, WriteNumber, EndFile, Sorting
<1> PICK d : d = data[n]
  OBVIOUS
<1> PICK file : file = sort_files[n]
  OBVIOUS
<1> PICK input : input = sort_input[n]
  OBVIOUS
<1>1. /\ ContextOK(d, file, input) /\ input \in Seq(Numbers) /\ d \in ContextType
      /\ Last(d.calls) = Top(n)
  BY <1>0, Runs DEF Top
<1>2. ASSUME NEW new, ContextOK(new, file, input), new.finished = d.finished, Goes(n, new)
      PROVE  DataInv'
  <2>1. ContextOK(new, sort_files[n], sort_input[n]) /\ new.finished = data[n].finished
    BY <1>2
  <2> QED BY ONLY SortInv, DataInv, n \in Files, <1>0, <1>2, <2>1, GoesOn
<1>3. CASE ReadNumber(n)
  <2>1. CASE d.pc = "read" /\ d.pos < Len(file)
    <3>1. PICK new : new = [d EXCEPT !.buf = Append(@, file[d.pos + 1]), !.pos = @ + 1]
      OBVIOUS
    <3>2. Goes(n, new)
      BY <1>3, <2>1, <3>1, Zenon DEF ReadNumber
    <3>3. ContextOK(new, file, input)
      BY ONLY <1>1, <2>1, <3>1, ReadOne
    <3>4. new.finished = d.finished
      BY ONLY <1>1, <3>1 DEF ContextType
    <3> QED BY <1>2, <3>2, <3>3, <3>4
  <2>2. CASE d.pc = "read" /\ ~(d.pos < Len(file))
    <3>1. PICK new : new = [d EXCEPT !.pc = "sort", !.calls = <<Call(1, Len(d.buf))>>]
      OBVIOUS
    <3>2. Goes(n, new)
      BY <1>3, <2>2, <3>1, Zenon DEF ReadNumber
    <3>3. ContextOK(new, file, input)
      BY ONLY <1>1, <2>2, <3>1, ReadAll
    <3>4. new.finished = d.finished
      BY ONLY <1>1, <3>1 DEF ContextType
    <3> QED BY <1>2, <3>2, <3>3, <3>4
  <2> QED BY <1>3, <2>1, <2>2 DEF ReadNumber
<1>4. CASE QuickSortPart(n)
  <2> PICK top : top = Last(d.calls)
    OBVIOUS
  <2>1. d.pc = "sort" /\ d.calls # <<>> /\ top.at = "begin" /\ top.l < top.r
    BY <1>1, <1>4, Zenon DEF QuickSortPart, Sorting
  <2>2. PICK v \in top.l .. top.r :
          LET cut == part(d.buf, top.l, top.r, v)
          IN  Goes(n, [d EXCEPT !.buf = cut.a,
                                !.calls = Front(@) \o <<[top EXCEPT !.p = cut.p, !.at = "left"],
                                                        Call(top.l, cut.p - 1)>>])
    BY <1>1, <1>4, Zenon DEF QuickSortPart
  <2> PICK cut : cut = part(d.buf, top.l, top.r, v)
    OBVIOUS
  <2> PICK new : new = [d EXCEPT !.buf = cut.a,
                                 !.calls = Front(@) \o <<[top EXCEPT !.p = cut.p, !.at = "left"],
                                                         Call(top.l, cut.p - 1)>>]
    OBVIOUS
  <2>3. ContextOK(new, file, input)
    BY ONLY <1>1, <2>1, v \in top.l .. top.r, cut = part(d.buf, top.l, top.r, v),
       top = Last(d.calls), PartStep,
       new = [d EXCEPT !.buf = cut.a,
                       !.calls = Front(@) \o <<[top EXCEPT !.p = cut.p, !.at = "left"],
                                               Call(top.l, cut.p - 1)>>]
  <2>4. new.finished = d.finished
    BY <1>1 DEF ContextType
  <2> QED BY <1>2, <2>2, <2>3, <2>4
<1>5. CASE QuickSortNothing(n) \/ QuickSortRight(n)
  <2> PICK top : top = Last(d.calls)
    OBVIOUS
  <2> PICK new : new = [d EXCEPT !.calls = Front(@)]
    OBVIOUS
  <2>1. /\ d.pc = "sort" /\ d.calls # <<>>
        /\ (top.at = "begin" /\ top.l >= top.r) \/ top.at = "right"
    BY <1>1, <1>5 DEF QuickSortNothing, QuickSortRight, Sorting
  <2>2. ContextOK(new, file, input)
    BY ONLY <1>1, <2>1, top = Last(d.calls), new = [d EXCEPT !.calls = Front(@)], ReturnStep
  <2>3. new.finished = d.finished
    BY <1>1 DEF ContextType
  <2>4. CASE QuickSortNothing(n)
    <3>1. /\ data' = [data EXCEPT ![n] = new]
          /\ UNCHANGED <<sort_files, sort_input, sort_main, sort_out>>
      BY <1>1, <2>4 DEF QuickSortNothing, SortInv
    <3>2. ~new.finished
      BY <1>0, <2>3 DEF SortInv
    <3> QED BY <1>0, <2>2, <3>1, <3>2, DataStays
  <2>5. CASE QuickSortRight(n)
    <3>1. Goes(n, new)
      BY <2>5 DEF QuickSortRight
    <3> QED BY <1>2, <2>2, <2>3, <3>1
  <2> QED BY <1>5, <2>4, <2>5
<1>6. CASE QuickSortLeft(n)
  <2> PICK top : top = Last(d.calls)
    OBVIOUS
  <2> PICK new : new = [d EXCEPT !.calls = Front(@) \o <<[top EXCEPT !.at = "right"],
                                                         Call(top.p + 1, top.r)>>]
    OBVIOUS
  <2>1. d.pc = "sort" /\ d.calls # <<>> /\ top.at = "left" /\ Goes(n, new)
    BY <1>1, <1>6, Zenon DEF QuickSortLeft, Sorting
  <2>2. ContextOK(new, file, input)
    BY ONLY <1>1, <2>1, top = Last(d.calls), LeftStep,
       new = [d EXCEPT !.calls = Front(@) \o <<[top EXCEPT !.at = "right"],
                                               Call(top.p + 1, top.r)>>]
  <2>3. new.finished = d.finished
    BY <1>1 DEF ContextType
  <2> QED BY <1>2, <2>1, <2>2, <2>3
<1>7. CASE Rewind(n)
  <2>1. CASE d.pc = "sort" /\ d.calls = <<>> /\ Goes(n, [d EXCEPT !.pc = "rewind"])
    <3>1. ContextOK([d EXCEPT !.pc = "rewind"], file, input)
      BY ONLY <1>1, <2>1, SortsEnd
    <3>2. [d EXCEPT !.pc = "rewind"].finished = d.finished
      BY <1>1 DEF ContextType
    <3> QED BY <1>2, <2>1, <3>1, <3>2
  <2>2. CASE d.pc = "rewind" /\ Goes(n, [d EXCEPT !.pc = "write", !.pos = 0])
    <3>1. ContextOK([d EXCEPT !.pc = "write", !.pos = 0], file, input)
      BY ONLY <1>1, <2>2, Rewound
    <3>2. [d EXCEPT !.pc = "write", !.pos = 0].finished = d.finished
      BY <1>1 DEF ContextType
    <3> QED BY <1>2, <2>2, <3>1, <3>2
  <2> QED BY <1>7, <2>1, <2>2, Zenon DEF Rewind
<1>8. CASE WriteNumber(n)
  <2>1. CASE d.pc = "write" /\ d.pos < Len(d.buf)
    <3> PICK new : new = [d EXCEPT !.pos = @ + 1]
      OBVIOUS
    <3> PICK written : written = [file EXCEPT ![d.pos + 1] = d.buf[d.pos + 1]]
      OBVIOUS
    <3>1. ContextOK(new, written, sort_input[n])
      BY ONLY <1>1, <2>1, new = [d EXCEPT !.pos = @ + 1], input = sort_input[n],
         written = [file EXCEPT ![d.pos + 1] = d.buf[d.pos + 1]], WriteOne
    <3>2. /\ sort_files' = [sort_files EXCEPT ![n] = written] /\ data' = [data EXCEPT ![n] = new]
          /\ UNCHANGED <<sort_input, sort_main, sort_out>>
      <4>1. /\ sort_files' = [sort_files EXCEPT ![n][d.pos + 1] = d.buf[d.pos + 1]]
            /\ data' = [data EXCEPT ![n].pos = @ + 1]
            /\ UNCHANGED <<sort_input, sort_main, sort_out>>
        BY <1>8, <2>1, Zenon DEF WriteNumber
      <4> QED BY <4>1
    <3>3. ~new.finished
      BY <1>0, <1>1 DEF ContextType, SortInv
    <3> QED BY <1>0, <3>1, <3>2, <3>3, DataMoves
  <2>2. CASE d.pc = "write" /\ ~(d.pos < Len(d.buf))
    <3>1. ContextOK([d EXCEPT !.pc = "close"], file, input)
      BY ONLY <1>1, <2>2, WriteAll
    <3>2. [d EXCEPT !.pc = "close"].finished = d.finished
      BY <1>1 DEF ContextType
    <3>3. Goes(n, [d EXCEPT !.pc = "close"])
      BY <1>8, <2>2, Zenon DEF WriteNumber
    <3> QED BY <1>2, <3>1, <3>2, <3>3
  <2> QED BY <1>8, <2>1, <2>2 DEF WriteNumber
<1>9. CASE EndFile(n)
  <2> PICK new : new = [d EXCEPT !.finished = TRUE, !.pc = "over"]
    OBVIOUS
  <2>1. d.pc = "close"
    BY <1>9 DEF EndFile
  <2>2. ContextOK(new, file, input) /\ new.buf = file
    BY ONLY <1>1, <2>1, new = [d EXCEPT !.finished = TRUE, !.pc = "over"], Ended
  <2>3. /\ data' = [data EXCEPT ![n] = new]
        /\ UNCHANGED <<sort_files, sort_input, sort_main, sort_out>>
    BY <1>9 DEF EndFile, terminate
  <2> QED BY <1>0, <2>2, <2>3, DataStays
<1> QED BY <1>3, <1>4, <1>5, <1>6, <1>7, <1>8, <1>9 DEF SortStep

\* What Merging and Buffers say of one file.
LEMMA BufferIs ==
  ASSUME SortInv, DataInv
  PROVE  /\ Buffers \in Seq(Seq(Numbers)) /\ Len(Buffers) = Len(sort_input)
         /\ \A n \in Files : /\ Buffers[n] = data[n].buf /\ data[n].buf \in Seq(Numbers)
                             /\ data[n] \in ContextType
<1>1. Files = 1 .. Len(sort_input) /\ Len(sort_input) \in Nat
  BY InputIs
<1>2. \A n \in Files : data[n] \in ContextType /\ data[n].buf \in Seq(Numbers)
  BY DEF DataInv, ContextOK, ContextType
<1>3. Buffers \in Seq(Seq(Numbers)) /\ Len(Buffers) = Len(sort_input)
  BY <1>1, <1>2 DEF Buffers
<1> QED BY <1>1, <1>2, <1>3 DEF Buffers

\* What the coroutines have left is what there was.
LEMMA StartMergeData ==
  ASSUME SortInv, DataInv, StartMerge
  PROVE  DataInv'
<1>1. /\ uctx = UCTX_MAIN /\ sort_main = "coros" /\ sort_main' = "merge"
      /\ UNCHANGED <<sort_input, sort_files, data, sort_out>>
  BY DEF StartMerge
<1>2. \A n \in Files : data[n].finished
  BY <1>1, MainMoves
<1>3. sort_out = <<>> /\ \A n \in Files : data[n].buf = sort_files[n]
  BY <1>1, <1>2 DEF DataInv
<1>4. \A n \in Files : Rising(data[n].buf) /\ SameCounts(data[n].buf, sort_input[n])
  <2> SUFFICES ASSUME NEW n \in Files
               PROVE  Rising(data[n].buf) /\ SameCounts(data[n].buf, sort_input[n])
    OBVIOUS
  <2>1. ContextOK(data[n], sort_files[n], sort_input[n])
    BY DEF DataInv
  <2>2. data[n].pc = "over"
    BY <1>2, <2>1 DEF ContextOK
  <2>3. Rising(sort_files[n]) /\ SameCounts(sort_files[n], sort_input[n])
    BY <2>1, <2>2 DEF ContextOK
  <2> QED BY <1>3, <2>3
<1>5. ASSUME NEW v \in Numbers
      PROVE  Count(sort_out, v) + Count(FlattenSeq(Buffers), v) = Count(FlattenSeq(sort_input), v)
  <2> PICK bufs \in Seq(Seq(Numbers)) : bufs = Buffers /\ Len(bufs) = Len(sort_input)
    BY BufferIs
  <2> PICK input \in Seq(Seq(Numbers)) : input = sort_input /\ Files = 1 .. Len(input)
    BY InputIs
  <2>1. 1 \in 1 .. Len(input) /\ Len(input) = Len(bufs)
    BY InputIs
  <2>2. \A i \in 1 .. Len(input) : Count(bufs[i], v) = Count(input[i], v)
    BY <1>4, BufferIs DEF SameCounts
  <2>3. \A i \in 1 .. Len(input) : input[i] \in Seq(Numbers)
    BY ElementOfSeq
  <2>4. \A i \in 1 .. Len(input) : Count(input[i], v) \in Nat
    BY <2>3, CountIs
  <2>5. \A i \in 1 .. Len(input) : Count(bufs[i], v) = Count(input[i], v) + IF i = 1 THEN 0 ELSE 0
    BY <2>2, <2>4
  <2>6. Count(FlattenSeq(bufs), v) = Count(FlattenSeq(input), v) + 0
    <3>1. HasMore(bufs, input, 1, 0, v)
      BY <2>5 DEF HasMore
    <3> QED BY ONLY <2>1, <3>1, bufs \in Seq(Seq(Numbers)), input \in Seq(Seq(Numbers)), 0 \in Nat,
               CountFlat
  <2>7. Count(FlattenSeq(input), v) \in Nat
    BY FlattenType, CountIs
  <2>8. Count(sort_out, v) = 0
    BY <1>3, CountNothing
  <2> QED BY <2>6, <2>7, <2>8
<1>6. Rising(sort_out) /\ \A n \in Files : \A x \in 1 .. Len(sort_out) : FALSE
  BY <1>3, EmptySeq DEF Rising
<1>7. Merging'
  <2>1. Files' = Files /\ Buffers' = Buffers
    BY <1>1 DEF Files, Buffers
  <2> QED BY <1>1, <1>2, <1>4, <1>5, <1>6, <2>1 DEF Merging
<1>8. Files' = Files
  BY <1>1 DEF Files
<1> QED BY <1>1, <1>7, <1>8 DEF DataInv

\* All numbers have been merged.
LEMMA MergeEndsData ==
  ASSUME SortInv, DataInv, Merge, Unmerged = {}
  PROVE  DataInv'
<1>1. /\ sort_main = "merge" /\ sort_main' = "end"
      /\ UNCHANGED <<sort_input, sort_files, data, sort_out>>
  BY DEF Merge
<1>2. Files' = Files /\ Buffers' = Buffers
  BY <1>1 DEF Files, Buffers
<1>3. ASSUME NEW n \in Files PROVE data[n].buf = <<>>
  <2> SUFFICES ASSUME data[n].buf # <<>> PROVE FALSE
    OBVIOUS
  <2> PICK b \in Seq(Numbers) : b = data[n].buf
    BY BufferIs
  <2>1. 1 \in 1 .. Len(b)
    BY EmptySeq
  <2>2. b[1] <= INT_MAX
    BY <2>1, ElementOfSeq, CoroSortAssumption DEF Numbers
  <2> QED BY <2>2 DEF Unmerged, Files
<1>4. Merging
  BY <1>1 DEF DataInv
<1>5. Merging'
  BY <1>1, <1>2, <1>3, <1>4 DEF Merging
<1> QED BY <1>1, <1>2, <1>5 DEF DataInv

\* The smallest of the first numbers is chosen.
LEMMA FlagIs ==
  ASSUME SortInv, DataInv, Unmerged # {}, NEW flag,
         flag = Max({i \in Unmerged : \A k \in Unmerged : data[i].buf[1] <= data[k].buf[1]})
  PROVE  /\ flag \in Files /\ data[flag].buf # <<>>
         /\ \A n \in Files : data[n].buf # <<>> => data[flag].buf[1] <= data[n].buf[1]
<1> PICK rest : rest = Unmerged
  OBVIOUS
<1> PICK low : low = {i \in rest : \A k \in rest : data[i].buf[1] <= data[k].buf[1]}
  OBVIOUS
<1>1. ASSUME NEW n \in Files, data[n].buf # <<>> PROVE data[n].buf[1] \in Numbers /\ n \in rest
  <2> PICK b \in Seq(Numbers) : b = data[n].buf
    BY BufferIs
  <2>1. 1 \in 1 .. Len(b)
    BY <1>1, EmptySeq
  <2>2. b[1] \in Numbers /\ b[1] <= INT_MAX
    BY <2>1, ElementOfSeq, CoroSortAssumption DEF Numbers
  <2> QED BY <1>1, <2>2 DEF Unmerged, Files
<1>2. rest \subseteq Files /\ \A n \in rest : data[n].buf # <<>>
  BY DEF Unmerged, Files
<1> PICK firsts : firsts = {data[i].buf[1] : i \in rest}
  OBVIOUS
<1>3. firsts \subseteq Nat /\ firsts # {}
  BY <1>1, <1>2, CoroSortAssumption DEF Numbers
<1>4. PICK x \in firsts : \A y \in firsts : x <= y
  BY ONLY <1>3, LeastElement
<1>5. low # {}
  <2>1. PICK i \in rest : x = data[i].buf[1]
    OBVIOUS
  <2>2. i \in low
    BY <1>4, <2>1
  <2> QED BY <2>2
<1>6. low \in SUBSET (1 .. Len(sort_input)) /\ Len(sort_input) \in Nat
  BY <1>2, InputIs
<1>7. Max(low) \in low
  BY ONLY <1>5, <1>6, LastOf
<1>8. flag \in low
  BY <1>7
<1> QED BY <1>1, <1>2, <1>8

\* What is in order is when a number comes that is not smaller.
LEMMA RisesOn ==
  ASSUME NEW s \in Seq(Numbers), Rising(s), NEW x \in Numbers, \A i \in 1 .. Len(s) : s[i] <= x
  PROVE  Rising(Append(s, x))
<1> PICK n \in Nat : n = Len(s)
  OBVIOUS
<1> PICK t : t = Append(s, x)
  OBVIOUS
<1>1. Len(t) = n + 1 /\ t[n + 1] = x /\ \A i \in 1 .. n : t[i] = s[i]
  BY AppendProperties
<1>2. \A i, k \in 1 .. n : i < k => s[i] <= s[k]
  BY DEF Rising
<1>3. ASSUME NEW i \in 1 .. n + 1, NEW k \in 1 .. n + 1, i < k PROVE t[i] <= t[k]
  <2>1. i \in 1 .. n
    BY <1>3
  <2>2. k \in 1 .. n \/ k = n + 1
    OBVIOUS
  <2> QED BY ONLY <1>1, <1>2, <1>3, <2>1, <2>2, n = Len(s), \A j \in 1 .. Len(s) : s[j] <= x
<1>4. Rising(t)
  BY ONLY <1>1, <1>3 DEF Rising
<1> QED BY <1>4

\* What is left is in order when the first one goes.
LEMMA TailRises ==
  ASSUME NEW s \in Seq(Numbers), Rising(s), s # <<>>
  PROVE  Rising(Tail(s))
<1> PICK n \in Nat \ {0} : n = Len(s)
  BY EmptySeq
<1> PICK t : t = Tail(s)
  OBVIOUS
<1>1. Len(t) = n - 1 /\ \A i \in 1 .. n - 1 : t[i] = s[i + 1]
  BY HeadTailProperties
<1>2. \A i, k \in 1 .. n : i < k => s[i] <= s[k]
  BY DEF Rising
<1>3. ASSUME NEW i \in 1 .. n - 1, NEW k \in 1 .. n - 1, i < k PROVE t[i] <= t[k]
  <2>1. i + 1 \in 1 .. n /\ k + 1 \in 1 .. n /\ i + 1 < k + 1
    BY <1>3
  <2> QED BY ONLY <1>1, <1>2, <2>1, i \in 1 .. n - 1, k \in 1 .. n - 1
<1>4. Rising(t)
  BY ONLY <1>1, <1>3 DEF Rising
<1> QED BY <1>4

\* What is not greater than the first number is not greater than any.
LEMMA FirstRises ==
  ASSUME NEW s \in Seq(Numbers), Rising(s), NEW x \in Numbers, s # <<>> => x <= s[1],
         NEW i \in 1 .. Len(s)
  PROVE  x <= s[i]
<1> PICK n \in Nat : n = Len(s)
  OBVIOUS
<1>1. 1 \in 1 .. n
  OBVIOUS
<1>2. s # <<>>
  BY <1>1, EmptySeq
<1>3. s[1] \in Numbers /\ s[i] \in Numbers
  BY <1>1, ElementOfSeq
<1>4. x \in Int /\ s[1] \in Int /\ s[i] \in Int
  BY <1>3, CoroSortAssumption DEF Numbers
<1>5. s[1] <= s[i]
  <2>1. CASE i = 1
    BY <1>4, <2>1
  <2>2. CASE i # 1
    BY <1>1, <2>2 DEF Rising
  <2> QED BY <2>1, <2>2
<1> QED BY <1>2, <1>4, <1>5

\* A buffer with a number that is not greater than any gives it to out.txt.
Takes(flag) ==
  /\ data[flag].buf # <<>>
  /\ \A n \in Files : data[n].buf # <<>> => data[flag].buf[1] <= data[n].buf[1]
  /\ sort_main = "merge" /\ sort_main' = "merge"
  /\ sort_out' = Append(sort_out, data[flag].buf[1])
  /\ data' = [data EXCEPT ![flag].buf = Tail(@)]
  /\ UNCHANGED <<sort_input, sort_files>>

\* Then out.txt and what is left are in order, and nothing is lost.
LEMMA TakesData ==
  ASSUME SortInv, DataInv, NEW flag \in Files, Takes(flag)
  PROVE  DataInv'
<1>1. /\ flag \in Files /\ data[flag].buf # <<>>
      /\ \A n \in Files : data[n].buf # <<>> => data[flag].buf[1] <= data[n].buf[1]
  BY DEF Takes
<1>2. /\ sort_main = "merge" /\ sort_main' = "merge"
      /\ sort_out' = Append(sort_out, data[flag].buf[1])
      /\ data' = [data EXCEPT ![flag].buf = Tail(@)]
      /\ UNCHANGED <<sort_input, sort_files>>
  BY DEF Takes
<1>3. Merging /\ sort_out \in Seq(Numbers)
  BY <1>2 DEF DataInv
<1> PICK b \in Seq(Numbers) : b = data[flag].buf
  BY <1>1, BufferIs
<1> PICK x \in Numbers : x = b[1]
  <2>1. 1 \in 1 .. Len(b)
    BY <1>1, EmptySeq
  <2> QED BY <2>1, ElementOfSeq
<1> PICK t \in Seq(Numbers) : t = Tail(b)
  BY <1>1, HeadTailProperties
<1>4. /\ Len(b) \in Nat \ {0} /\ Len(t) = Len(b) - 1
      /\ \A i \in 1 .. Len(t) : t[i] = b[i + 1]
  BY <1>1, EmptySeq, HeadTailProperties
<1> PICK d \in ContextType : d = data[flag]
  BY <1>1, BufferIs
<1> PICK new : new = [d EXCEPT !.buf = t]
  OBVIOUS
<1>5. Files' = Files /\ \A n \in Files : data'[n] = IF n = flag THEN new ELSE data[n]
  <2>1. data = [n \in Files |-> data[n]]
    BY DEF SortInv
  <2> QED BY <1>2, <2>1 DEF Files
<1>6. new \in ContextType /\ new.buf = t /\ new.pc = d.pc /\ new.finished = d.finished
  BY DEF ContextType
<1>7. \A n \in Files : data[n].finished /\ data'[n].finished
  BY <1>3, <1>5, <1>6 DEF Merging
<1>8. \A n \in Files : ContextOK(data'[n], sort_files[n], sort_input[n])
  <2> SUFFICES ASSUME NEW n \in Files PROVE ContextOK(data'[n], sort_files[n], sort_input[n])
    OBVIOUS
  <2>1. ContextOK(data[n], sort_files[n], sort_input[n])
    BY DEF DataInv
  <2>2. CASE n = flag
    <3>1. data'[n] = new /\ d.finished /\ ContextOK(d, sort_files[n], sort_input[n])
      BY <1>5, <1>7, <2>1, <2>2
    <3>2. ContextOK(new, sort_files[n], sort_input[n])
      BY <1>6, <3>1 DEF ContextOK
    <3> QED BY <3>1, <3>2
  <2>3. CASE n # flag
    BY <1>5, <2>1, <2>3
  <2> QED BY <2>2, <2>3
<1> PICK out \in Seq(Numbers) : out = sort_out
  BY <1>3
<1> PICK more : more = Append(out, x)
  OBVIOUS
<1> PICK o \in Nat : o = Len(out)
  BY ONLY out \in Seq(Numbers), LenProperties
<1>9. /\ more = sort_out' /\ more \in Seq(Numbers) /\ Len(more) = o + 1
      /\ more[o + 1] = x /\ \A i \in 1 .. o : more[i] = out[i]
  <2>1. /\ more \in Seq(Numbers) /\ Len(more) = Len(out) + 1
        /\ more[Len(out) + 1] = x /\ \A i \in 1 .. Len(out) : more[i] = out[i]
    BY ONLY out \in Seq(Numbers), x \in Numbers, more = Append(out, x), AppendProperties
  <2>2. more = sort_out'
    BY <1>2
  <2> QED BY ONLY <2>1, <2>2, o = Len(out)
<1>11. Rising(b) /\ Rising(out) /\ \A i \in 1 .. Len(out) : out[i] <= x
  <2>1. 1 \in 1 .. Len(b)
    BY ONLY <1>4
  <2> QED BY <1>1, <1>3, <2>1 DEF Merging
<1>12. Rising(t)
  BY <1>1, <1>11, TailRises
<1>13. Rising(more)
  BY <1>11, RisesOn
<1>14. \A n \in Files : Rising(data'[n].buf)
  BY <1>3, <1>5, <1>6, <1>12 DEF Merging
<1>15. ASSUME NEW n \in Files, NEW i \in 1 .. o + 1, NEW k \in 1 .. Len(data'[n].buf)
       PROVE  more[i] <= data'[n].buf[k]
  <2> PICK c \in Seq(Numbers) : c = data[n].buf
    BY BufferIs
  <2>1. PICK y \in 1 .. Len(c) : data'[n].buf[k] = c[y]
    <3>1. CASE n = flag
      <4>1. data'[n].buf = t /\ c = b
        BY <1>5, <1>6, <3>1
      <4>2. k \in 1 .. Len(t) /\ k + 1 \in 1 .. Len(b)
        BY ONLY <1>4, <4>1, k \in 1 .. Len(data'[n].buf)
      <4> QED BY <1>4, <4>1, <4>2
    <3>2. CASE n # flag
      <4>1. data'[n].buf = c
        BY <1>5, <3>2
      <4> QED BY <4>1
    <3> QED BY <3>1, <3>2
  <2>2. CASE i \in 1 .. o
    <3>1. out[i] <= c[y]
      BY <1>3, <2>2 DEF Merging
    <3> QED BY <1>9, <2>1, <2>2, <3>1
  <2>3. CASE i = o + 1
    <3>1. Rising(c) /\ (c # <<>> => x <= c[1])
      BY <1>1, <1>3 DEF Merging
    <3>2. x <= c[y]
      BY ONLY <3>1, c \in Seq(Numbers), x \in Numbers, y \in 1 .. Len(c), FirstRises
    <3> QED BY <1>9, <2>1, <2>3, <3>2
  <2>4. i \in 1 .. o \/ i = o + 1
    BY ONLY o \in Nat, i \in 1 .. o + 1
  <2> QED BY <2>2, <2>3, <2>4
<1>16. ASSUME NEW v \in Numbers
       PROVE  Count(more, v) + Count(FlattenSeq(Buffers'), v) = Count(FlattenSeq(sort_input), v)
  <2> PICK bufs \in Seq(Seq(Numbers)) : bufs = Buffers /\ Len(bufs) = Len(sort_input)
    BY BufferIs
  <2>1. Files = 1 .. Len(bufs) /\ flag \in 1 .. Len(bufs)
    BY <1>1, InputIs
  <2> PICK rest : rest = [bufs EXCEPT ![flag] = t]
    OBVIOUS
  <2>2. /\ rest \in Seq(Seq(Numbers)) /\ Len(rest) = Len(bufs)
        /\ \A i \in 1 .. Len(bufs) : rest[i] = IF i = flag THEN t ELSE bufs[i]
    BY ONLY bufs \in Seq(Seq(Numbers)), t \in Seq(Numbers), <2>1, rest = [bufs EXCEPT ![flag] = t],
       ExceptSeq
  <2>3. Buffers' = rest
    <3>1. Buffers' = [n \in Files |-> data'[n].buf]
      BY <1>2, <1>5, <2>1 DEF Buffers
    <3>2. \A n \in Files : data'[n].buf = rest[n]
      <4> SUFFICES ASSUME NEW n \in Files PROVE data'[n].buf = rest[n]
        OBVIOUS
      <4>1. rest[n] = IF n = flag THEN t ELSE bufs[n]
        BY ONLY <2>1, <2>2, n \in Files
      <4>2. bufs[n] = data[n].buf
        BY BufferIs
      <4>3. data'[n] = IF n = flag THEN new ELSE data[n]
        BY <1>5
      <4> QED BY ONLY <1>6, <4>1, <4>2, <4>3
    <3>3. rest = [n \in Files |-> rest[n]]
      <4>1. rest = [n \in 1 .. Len(rest) |-> rest[n]]
        BY ONLY <2>2
      <4> QED BY ONLY <2>1, <2>2, <4>1
    <3> QED BY <3>1, <3>2, <3>3
  <2> PICK one \in Nat : one = IF x = v THEN 1 ELSE 0
    OBVIOUS
  <2>4. Count(b, v) = Count(t, v) + one
    BY <1>1, CountTail
  <2>5. ASSUME NEW i \in 1 .. Len(rest)
        PROVE  Count(bufs[i], v) = Count(rest[i], v) + IF i = flag THEN one ELSE 0
    <3>1. i \in Files /\ rest[i] = IF i = flag THEN t ELSE bufs[i]
      BY ONLY <2>1, <2>2, i \in 1 .. Len(rest)
    <3>2. bufs[i] = data[i].buf /\ bufs[i] \in Seq(Numbers)
      BY <3>1, BufferIs
    <3>3. CASE i = flag
      <4>1. bufs[i] = b /\ rest[i] = t
        BY <3>1, <3>2, <3>3
      <4> QED BY ONLY <2>4, <3>3, <4>1
    <3>4. CASE i # flag
      <4>1. rest[i] = bufs[i] /\ Count(bufs[i], v) \in Nat
        BY <3>1, <3>2, <3>4, CountIs
      <4> QED BY ONLY <3>4, <4>1
    <3> QED BY ONLY <3>3, <3>4
  <2>6. Count(FlattenSeq(bufs), v) = Count(FlattenSeq(rest), v) + one
    <3>1. flag \in 1 .. Len(rest) /\ Len(rest) = Len(bufs) /\ rest \in Seq(Seq(Numbers))
      BY <2>1, <2>2
    <3>2. HasMore(bufs, rest, flag, one, v)
      BY <2>5 DEF HasMore
    <3> QED BY ONLY <3>1, <3>2, bufs \in Seq(Seq(Numbers)), one \in Nat, CountFlat
  <2>7. Count(more, v) = Count(out, v) + one
    <3>1. Count(Append(out, x), v) = Count(out, v) + IF x = v THEN 1 ELSE 0
      BY ONLY out \in Seq(Numbers), x \in Numbers, CountAppended
    <3> QED BY ONLY <3>1, more = Append(out, x), one = IF x = v THEN 1 ELSE 0
  <2>8. Count(out, v) + Count(FlattenSeq(bufs), v) = Count(FlattenSeq(sort_input), v)
    BY <1>3 DEF Merging
  <2>9. Count(out, v) \in Nat /\ Count(FlattenSeq(rest), v) \in Nat
    BY <2>2, FlattenType, CountIs
  <2> QED BY ONLY <2>3, <2>6, <2>7, <2>8, <2>9, one \in Nat
<1>17. Merging'
  <2>1. UNCHANGED sort_input
    BY <1>2
  <2>2. Len(sort_out') = o + 1
    BY <1>9
  <2> QED BY ONLY <1>2, <1>5, <1>7, <1>9, <1>13, <1>14, <1>15, <1>16, <2>1, <2>2 DEF Merging
<1>18. /\ sort_files' \in Seq(Seq(Numbers)) /\ Len(sort_files') = Len(sort_input')
       /\ sort_out' \in Seq(Numbers) /\ sort_main' = "merge"
       /\ \A n \in Files' : ContextOK(data'[n], sort_files'[n], sort_input'[n])
  BY <1>2, <1>5, <1>8, <1>9 DEF DataInv
<1> QED BY <1>17, <1>18 DEF DataInv

\* merge_files() takes such a number.
LEMMA MergeOneData ==
  ASSUME SortInv, DataInv, Merge, Unmerged # {}
  PROVE  DataInv'
<1>1. PICK flag :
        flag = Max({i \in Unmerged : \A k \in Unmerged : data[i].buf[1] <= data[k].buf[1]})
  OBVIOUS
<1>2. /\ flag \in Files /\ data[flag].buf # <<>>
      /\ \A n \in Files : data[n].buf # <<>> => data[flag].buf[1] <= data[n].buf[1]
  BY <1>1, FlagIs
<1>3. Takes(flag)
  BY <1>1, <1>2 DEF Merge, Takes
<1> QED BY <1>2, <1>3, TakesData

\* Every step of 1/main.c.
LEMMA SortNextData ==
  ASSUME SortInv, DataInv, [SortNext]_sort_vars
  PROVE  DataInv'
<1>1. CASE UNCHANGED sort_vars
  <2>1. UNCHANGED <<sort_input, sort_files, data, sort_main, sort_out>>
    BY <1>1 DEF sort_vars
  <2>2. Files' = Files /\ Buffers' = Buffers
    BY <2>1 DEF Files, Buffers
  <2>3. Merging' = Merging
    BY <2>1, <2>2 DEF Merging
  <2> QED BY <2>1, <2>2, <2>3 DEF DataInv
<1>2. CASE \E n \in Files : SortStep(n)
  BY <1>2, SortStepData
<1>3. CASE StartMerge \/ Merge
  BY <1>3, StartMergeData, MergeEndsData, MergeOneData
<1> QED BY <1>1, <1>2, <1>3 DEF SortNext, Files

\* It holds when main() has made the contexts.
LEMMA SortInitData ==
  ASSUME SortInit, SortInv
  PROVE  DataInv
<1>1. /\ sort_files = sort_input /\ sort_main = "coros" /\ sort_out = <<>>
      /\ data = [n \in DOMAIN sort_input |-> Context]
  BY DEF SortInit
<1>2. /\ Context \in ContextType /\ Context.pc = "read" /\ Context.pos = 0 /\ Context.buf = <<>>
      /\ ~Context.finished
  BY DEF Context, ContextType
<1>3. \A n \in Files : data[n] = Context /\ sort_input[n] \in Seq(Numbers)
  BY <1>1, InputIs DEF Files
<1>4. ASSUME NEW input \in Seq(Numbers) PROVE ContextOK(Context, input, input)
  <2>1. Len(Context.buf) = 0 /\ 0 <= Len(input) /\ \A i \in 1 .. 0 : FALSE
    BY <1>2, EmptySeq
  <2> QED BY <1>2, <2>1 DEF ContextOK
<1>5. \A n \in Files : ContextOK(data[n], sort_files[n], sort_input[n])
  BY <1>1, <1>3, <1>4
<1> QED BY <1>1, <1>2, <1>3, <1>5, InputIs, EmptySeq DEF DataInv

\* As many of each number means as many of those that there are.
LEMMA SameIs ==
  ASSUME NEW s \in Seq(Numbers), NEW t \in Seq(Numbers), SameCounts(s, t)
  PROVE  SameNumbers(s, t)
<1>1. \A v \in Range(s) \cup Range(t) : v \in Numbers
  BY ElementOfSeq, LenProperties DEF Range
<1> QED BY <1>1 DEF SameNumbers, SameCounts

\* In order at any two positions means at neighbouring ones.
LEMMA SortedIs ==
  ASSUME NEW s \in Seq(Numbers), Rising(s)
  PROVE  Sorted(s)
<1> SUFFICES ASSUME NEW i \in 1 .. Len(s) - 1 PROVE s[i] <= s[i + 1]
  BY DEF Sorted
<1>1. i \in 1 .. Len(s) /\ i + 1 \in 1 .. Len(s) /\ i < i + 1
  OBVIOUS
<1> QED BY <1>1 DEF Rising

\* At the end all is sorted.
LEMMA SortedFromInv ==
  ASSUME SortInv, DataInv
  PROVE  SortedOut
<1> SUFFICES ASSUME sort_main = "end"
             PROVE  /\ \A n \in DOMAIN sort_files :
                         Sorted(sort_files[n]) /\ SameNumbers(sort_files[n], sort_input[n])
                    /\ Sorted(sort_out) /\ SameNumbers(sort_out, FlattenSeq(sort_input))
  BY DEF SortedOut
<1>1. Merging /\ sort_out \in Seq(Numbers)
  BY DEF DataInv
<1>2. DOMAIN sort_files = Files
  BY InputIs, LenProperties DEF DataInv
<1>3. ASSUME NEW n \in Files
      PROVE  Sorted(sort_files[n]) /\ SameNumbers(sort_files[n], sort_input[n])
  <2>1. ContextOK(data[n], sort_files[n], sort_input[n]) /\ data[n].finished
    BY <1>1 DEF DataInv, Merging
  <2>2. data[n].pc = "over"
    BY <2>1 DEF ContextOK
  <2>3. /\ sort_files[n] \in Seq(Numbers) /\ Rising(sort_files[n])
        /\ SameCounts(sort_files[n], sort_input[n])
    BY <2>1, <2>2 DEF ContextOK
  <2> QED BY <2>3, InputIs, SameIs, SortedIs
<1>4. Sorted(sort_out)
  BY <1>1, SortedIs DEF Merging
<1>5. FlattenSeq(Buffers) = <<>>
  <2>1. \A i \in 1 .. Len(Buffers) : Buffers[i] = <<>>
    BY <1>1, BufferIs, InputIs DEF Merging
  <2>2. Buffers \in Seq(Seq(Numbers))
    BY BufferIs
  <2> QED BY ONLY <2>1, <2>2, NothingFlat
<1>6. SameCounts(sort_out, FlattenSeq(sort_input))
  <2> SUFFICES ASSUME NEW v \in Numbers PROVE Count(sort_out, v) = Count(FlattenSeq(sort_input), v)
    BY DEF SameCounts
  <2>1. Count(sort_out, v) + Count(<<>>, v) = Count(FlattenSeq(sort_input), v)
    BY <1>1, <1>5 DEF Merging
  <2>2. Count(sort_out, v) \in Nat /\ Count(<<>>, v) = 0
    BY <1>1, CountIs, CountNothing
  <2> QED BY <2>1, <2>2
<1>7. FlattenSeq(sort_input) \in Seq(Numbers)
  BY InputIs, FlattenType
<1>8. SameNumbers(sort_out, FlattenSeq(sort_input))
  BY ONLY <1>1, <1>6, <1>7, SameIs
<1> QED BY <1>2, <1>3, <1>4, <1>8


-----------------------------------------------------------------------------
(* The invariants of the three programs *)

\* Each coroutine of 1/coro_jmp.h returns to its own callers, from memory
\* that holds all points of return (JmpSound), for any number of coroutines
\* and any depth of the recursion of 1/example_jmp.c.
THEOREM JmpCorrect == Spec => []JmpSound
<1>1. Init => JmpInv
  BY JmpInitKeeps DEF Init
<1>2. JmpInv /\ [Next]_coroutines_vars => JmpInv'
  <2> SUFFICES ASSUME JmpInv, [Next]_coroutines_vars PROVE JmpInv'
    OBVIOUS
  <2>1. [JmpNext]_jmp_vars
    BY DEF Next, coroutines_vars
  <2> QED BY <2>1, JmpNextKeeps
<1>3. JmpInv => JmpSound
  BY JmpFromInv
<1> QED BY <1>1, <1>2, <1>3, PTL DEF Spec

\* The list of 12_libcoro.c holds what may run and nothing that may be freed
\* (LibSound), for any number of coroutines and of yields.
THEOREM LibCorrect == Spec => []LibSound
<1>1. Init => LibInv
  BY LibInitKeeps DEF Init
<1>2. LibInv /\ [Next]_coroutines_vars => LibInv'
  <2> SUFFICES ASSUME LibInv, [Next]_coroutines_vars PROVE LibInv'
    OBVIOUS
  <2>1. [LibNext]_lib_vars
    BY DEF Next, coroutines_vars
  <2> QED BY <2>1, LibNextKeeps
<1>3. LibInv => LibSound
  BY LibFromInv
<1> QED BY <1>1, <1>2, <1>3, PTL DEF Spec

\* For any files, any switches between the coroutines and any pivots, each
\* file ends sorted and out.txt is the sorted merge of all of them
\* (SortedOut).
THEOREM FilesSorted == Spec => []SortedOut
<1>1. Init => SortInv /\ DataInv
  BY SortInitKeeps, SortInitData DEF Init
<1>2. SortInv /\ DataInv /\ [Next]_coroutines_vars => (SortInv /\ DataInv)'
  <2> SUFFICES ASSUME SortInv, DataInv, [Next]_coroutines_vars PROVE SortInv' /\ DataInv'
    OBVIOUS
  <2>1. [SortNext]_sort_vars
    BY DEF Next, coroutines_vars
  <2> QED BY <2>1, SortNextKeeps, SortNextData
<1>3. SortInv /\ DataInv => SortedOut
  BY SortedFromInv
<1> QED BY <1>1, <1>2, <1>3, PTL DEF Spec

-----------------------------------------------------------------------------
(* The steps of the three programs are those of Coop *)

\* The mapping, for 1/coro_jmp.h.
LEMMA JmpMapped ==
  ASSUME program = "jmp", program' = program
  PROVE  /\ created = JmpIds /\ created' = JmpIds
         /\ finished = {i \in JmpIds : jmp_coros[i].is_finished}
         /\ finished' = {i \in JmpIds : jmp_coros'[i].is_finished}
         /\ running = IF this.is_finished THEN MAIN ELSE curr_coro_i
         /\ running' = IF this'.is_finished THEN MAIN ELSE curr_coro_i'
         /\ ended = (at = "main") /\ ended' = (at' = "main")
BY DEF created, finished, running, ended

\* A step of 1/coro_jmp.h is one of Coop.
LEMMA JmpCooperates ==
  ASSUME JmpInv, JmpNext, program = "jmp", program' = program
  PROVE  Promise!Next
<1>1. ~ended /\ JmpIds \subseteq AllCoros
  BY JmpMapped DEF JmpNext, Start, Again, CallOther, Other, OtherEnds, coro_finish, coro_wait_all,
     AllCoros
<1>2. curr_coro_i \in JmpIds
  BY DEF JmpInv
<1>3. CASE JmpInv' /\ NoneFinishes
  <2>1. curr_coro_i' \in JmpIds
    BY <1>3 DEF JmpInv
  <2>2. created' = created /\ finished' = finished /\ ended' = ended
    BY <1>1, <1>3, JmpMapped DEF NoneFinishes
  <2>3. running' \in (created \ finished) \cup {MAIN}
    BY <1>3, <2>1, JmpMapped DEF NoneFinishes, this
  <2>4. running' \in AllCoros \cup {MAIN}
    BY <1>1, <2>3, JmpMapped
  <2> QED BY <1>1, <2>2, <2>3, <2>4 DEF Promise!Next, Promise!Resume, Promise!Alive
<1>4. CASE coro_finish
  <2>1. /\ curr_coro_i' = curr_coro_i /\ at' # "main" /\ ~this.is_finished /\ this'.is_finished
        /\ \A i \in JmpIds :
             jmp_coros'[i].is_finished = (i = curr_coro_i \/ jmp_coros[i].is_finished)
    BY <1>4, FinishKeeps
  <2>2. running = curr_coro_i /\ running \in created \ finished
    BY <1>2, <2>1, JmpMapped DEF this
  <2>3. created' = created /\ ended' = ended /\ running' = MAIN
    BY <1>1, <2>1, JmpMapped
  <2>4. finished' = finished \cup {running}
    BY <1>2, <2>1, <2>2, JmpMapped
  <2> QED BY <1>1, <2>2, <2>3, <2>4 DEF Promise!Next, Promise!Finish, Promise!Alive
<1>5. CASE AllFinished /\ at' = "main" /\ UNCHANGED <<jmp_coros, curr_coro_i>>
  <2>1. created' = created /\ finished' = finished /\ running' = running /\ ended' = TRUE
    BY <1>5, JmpMapped DEF this
  <2>2. running = MAIN /\ finished = created
    BY <1>2, <1>5, JmpMapped DEF AllFinished, this
  <2> QED BY <1>1, <2>1, <2>2 DEF Promise!Next, Promise!End
<1> QED BY <1>3, <1>4, <1>5, StartKeeps, CallOtherKeeps, OtherKeeps, WaitAllKeeps DEF JmpNext

\* The mapping, for 12_libcoro.c.
LEMMA LibMapped ==
  ASSUME program = "libcoro", program' = program
  PROVE  /\ created = {c \in LibIds : coros[c].memory # "none"}
         /\ created' = {c \in LibIds : coros'[c].memory # "none"}
         /\ finished = {c \in LibIds : coros[c].is_finished}
         /\ finished' = {c \in LibIds : coros'[c].is_finished}
         /\ running = IF control = SCHED THEN MAIN ELSE control
         /\ running' = IF control' = SCHED THEN MAIN ELSE control'
         /\ ended = (sched = "ended") /\ ended' = (sched' = "ended")
BY DEF created, finished, running, ended

\* What a new coroutine changes in memory.
LEMMA NewMarks ==
  ASSUME LibInv, NEW c \in LibIds, coro_new(c)
  PROVE  /\ coros[c].memory = "none" /\ control' = control /\ sched' = sched
         /\ \A d \in LibIds : /\ coros'[d].memory = (IF d = c THEN "used" ELSE coros[d].memory)
                              /\ coros'[d].is_finished = coros[d].is_finished
<1>1. /\ coros[c].memory = "none" /\ control' = control /\ sched' = sched
      /\ coros' = coro_list_add([coros EXCEPT ![c].memory = "used", ![c].ctx = c], c)
  BY DEF coro_new
<1>2. PICK cs : cs = [coros EXCEPT ![c].memory = "used", ![c].ctx = c]
  OBVIOUS
<1>3. \A d \in LibIds : /\ cs[d] \in CoroType
                        /\ cs[d].memory = (IF d = c THEN "used" ELSE coros[d].memory)
                        /\ cs[d].is_finished = coros[d].is_finished
  BY <1>2 DEF LibInv, LibTypeOK, CoroType, Ids
<1>4. \A d \in LibIds :
        coros'[d] = IF d = c THEN [cs[d] EXCEPT !.next = coro_list, !.prev = NULL]
                    ELSE IF d = coro_list THEN [cs[d] EXCEPT !.prev = c] ELSE cs[d]
  <2>1. coros' = coro_list_add(cs, c)
    BY ONLY <1>1, <1>2
  <2> QED BY ONLY <2>1 DEF coro_list_add
<1>5. ASSUME NEW d \in LibIds
      PROVE  /\ coros'[d].memory = cs[d].memory /\ coros'[d].is_finished = cs[d].is_finished
  <2> PICK x \in CoroType : x = cs[d]
    BY <1>3
  <2> QED BY <1>4 DEF CoroType
<1> QED BY <1>1, <1>3, <1>5

\* What it changes to free one.
LEMMA DeleteMarks ==
  ASSUME LibInv, NEW c \in LibIds, coro_delete(c)
  PROVE  /\ coros[c].memory = "returned" /\ control' = control /\ sched' = sched
         /\ \A d \in LibIds : /\ coros'[d].memory = (IF d = c THEN "freed" ELSE coros[d].memory)
                              /\ coros'[d].is_finished = coros[d].is_finished
BY DEF coro_delete, LibInv, LibTypeOK, CoroType

\* A step of 12_libcoro.c is one of Coop, or one that Coop does not see.
LEMMA LibCooperates ==
  ASSUME LibInv, LibNext, program = "libcoro", program' = program
  PROVE  Promise!Next \/ UNCHANGED <<created, finished, running, ended>>
<1> USE LibCoroAssumption
<1>1. /\ ~ended /\ LibIds \subseteq AllCoros
  BY LibMapped DEF LibNext, coro_new, coro_yield, coro_end, coro_sched_wait, coro_delete,
     AllCoros, LibInv, SchedulerKnows
<1>2. \A c \in LibIds : coros[c].is_finished => c \in created
  BY LibMapped DEF LibInv, CorosMarked
<1>3. \A c \in LibIds : c \in created /\ c \notin Used => coros[c].is_finished
  BY LibMapped DEF LibInv, LibTypeOK, CoroType, CorosMarked, Used
<1>4. Used \subseteq created /\ Used \subseteq LibIds
  BY LibMapped DEF Used
<1>5. CASE \E c \in LibIds : coro_new(c)
  <2>1. PICK c \in LibIds : coro_new(c)
    BY <1>5
  <2>2. /\ coros[c].memory = "none" /\ control' = control /\ sched' = sched
        /\ \A d \in LibIds : /\ coros'[d].memory = (IF d = c THEN "used" ELSE coros[d].memory)
                             /\ coros'[d].is_finished = coros[d].is_finished
    BY <2>1, NewMarks
  <2>3. c \notin created /\ created' = created \cup {c}
    BY <2>2, LibMapped
  <2>4. finished' = finished /\ running' = running /\ ended' = ended
    BY <2>2, LibMapped
  <2> QED BY <1>1, <2>3, <2>4 DEF Promise!Next, Promise!New
<1>6. CASE coro_yield
  <2>1. /\ UsedFinished = {} /\ control' \in Used \cup {SCHED} /\ sched' = sched
        /\ \A d \in LibIds : /\ coros'[d].memory = coros[d].memory
                             /\ coros'[d].is_finished = coros[d].is_finished
    BY <1>6, CoroYieldKeeps
  <2>2. created' = created /\ finished' = finished /\ ended' = ended
    BY <2>1, LibMapped
  <2>3. running' \in (created \ finished) \cup {MAIN}
    BY <1>4, <2>1, LibMapped DEF UsedFinished
  <2>4. running' \in AllCoros \cup {MAIN}
    BY <1>1, <2>3, LibMapped
  <2> QED BY <1>1, <2>2, <2>3, <2>4 DEF Promise!Next, Promise!Resume, Promise!Alive
<1>7. CASE coro_end
  <2>1. /\ control' = SCHED /\ sched' = sched /\ control \in Used /\ ~coros[control].is_finished
        /\ \A d \in LibIds : /\ coros'[d].memory = coros[d].memory
                             /\ coros'[d].is_finished = (d = control \/ coros[d].is_finished)
    BY <1>7, CoroEndKeeps
  <2>2. running = control /\ running \in created \ finished
    BY <1>4, <2>1, LibMapped
  <2>3. created' = created /\ ended' = ended /\ running' = MAIN
    BY <2>1, LibMapped
  <2>4. finished' = finished \cup {running}
    BY <1>4, <2>1, <2>2, LibMapped
  <2> QED BY <1>1, <2>2, <2>3, <2>4 DEF Promise!Next, Promise!Finish, Promise!Alive
<1>8. CASE coro_sched_wait
  <2>1. CASE Used = {} /\ sched' = "ended" /\ UNCHANGED <<coros, control>>
    <3>1. created' = created /\ finished' = finished /\ running' = running /\ ended' = TRUE
      BY <2>1, LibMapped
    <3>2. finished = created
      BY <1>2, <1>3, <2>1, LibMapped
    <3>3. running = MAIN
      BY <1>8, LibMapped DEF coro_sched_wait
    <3> QED BY <1>1, <3>1, <3>2, <3>3 DEF Promise!Next, Promise!End
  <2>2. CASE /\ sched' = "user" /\ UNCHANGED control
             /\ \A d \in LibIds : /\ coros'[d].memory = "none" <=> coros[d].memory = "none"
                                  /\ coros'[d].is_finished = coros[d].is_finished
    BY <1>1, <2>2, LibMapped
  <2>3. CASE sched' = "waiting" /\ control' \in Used /\ UsedFinished = {} /\ UNCHANGED coros
    <3>1. created' = created /\ finished' = finished /\ ended' = ended
      BY <1>1, <2>3, LibMapped
    <3>2. running' \in (created \ finished) \cup {MAIN}
      BY <1>4, <2>3, LibMapped DEF UsedFinished
    <3>3. running' \in AllCoros \cup {MAIN}
      BY <1>1, <3>2, LibMapped
    <3> QED BY <1>1, <3>1, <3>2, <3>3 DEF Promise!Next, Promise!Resume, Promise!Alive
  <2> QED BY <1>8, <2>1, <2>2, <2>3, SchedWaitKeeps
<1>9. CASE \E c \in LibIds : coro_delete(c)
  <2>1. PICK c \in LibIds : coro_delete(c)
    BY <1>9
  <2>2. /\ coros[c].memory = "returned" /\ control' = control /\ sched' = sched
        /\ \A d \in LibIds : /\ coros'[d].memory = (IF d = c THEN "freed" ELSE coros[d].memory)
                             /\ coros'[d].is_finished = coros[d].is_finished
    BY <2>1, DeleteMarks
  <2> QED BY <2>2, LibMapped
<1> QED BY <1>5, <1>6, <1>7, <1>8, <1>9 DEF LibNext

\* The mapping, for 1/main.c.
LEMMA SortMapped ==
  ASSUME program = "sort", program' = program
  PROVE  /\ created = Files /\ created' = Files'
         /\ finished = {n \in Files : data[n].finished}
         /\ finished' = {n \in Files' : data'[n].finished}
         /\ running = IF uctx = UCTX_MAIN THEN MAIN ELSE uctx
         /\ running' = IF uctx' = UCTX_MAIN THEN MAIN ELSE uctx'
         /\ ended = (sort_main # "coros") /\ ended' = (sort_main' # "coros")
BY DEF created, finished, running, ended, Files

\* A step of 1/main.c is one of Coop, or one of the merge, which Coop does
\* not see.
LEMMA SortCooperates ==
  ASSUME SortInv, SortNext, LinkRead = "end", program = "sort", program' = program
  PROVE  Promise!Next \/ UNCHANGED <<created, finished, running, ended>>
<1>1. Files \subseteq AllCoros /\ UCTX_MAIN \notin Files
  BY FilesAre DEF SortInv, AllCoros
<1>2. CASE StartMerge \/ Merge
  <2>1. /\ uctx = UCTX_MAIN /\ uctx' = uctx /\ Files' = Files
        /\ \A i \in Files : data[i].finished /\ data'[i].finished
        /\ sort_main' # "coros"
    BY <1>2, MainMoves
  <2>2. created' = created /\ finished' = created /\ finished = created
        /\ running = MAIN /\ running' = MAIN /\ ended' = TRUE
    BY <2>1, SortMapped
  <2>3. ended \in BOOLEAN
    BY SortMapped
  <2> QED BY <2>2, <2>3 DEF Promise!Next, Promise!End
<1>3. CASE \E n \in Files : EndFile(n)
  <2>1. PICK n \in Files : EndFile(n)
    BY <1>3
  <2>2. /\ uctx = n /\ ~data[n].finished /\ Files' = Files /\ UNCHANGED sort_main
        /\ \A i \in Files : data'[i].finished = (i = n \/ data[i].finished)
        /\ uctx' \in Files \cup {UCTX_MAIN}
        /\ uctx' \in Files => uctx' # n /\ ~data[uctx'].finished
    BY <2>1, EndFileMoves
  <2>3. running = n /\ running \in created \ finished /\ ~ended
    BY <1>1, <2>2, SortMapped DEF SortInv
  <2>4. created' = created /\ ended' = ended
    BY <2>2, SortMapped
  <2>5. finished' = finished \cup {running}
    BY <2>2, <2>3, SortMapped
  <2>6. running' \in ((created \ finished) \ {running}) \cup {MAIN}
    BY <1>1, <2>2, <2>3, SortMapped
  <2>7. running' \in AllCoros \cup {MAIN}
    BY <1>1, <2>6, SortMapped
  <2> QED BY <2>3, <2>4, <2>5, <2>6, <2>7 DEF Promise!Next, Promise!Finish, Promise!Alive
<1>4. CASE \E n \in Files : SortStep(n) /\ ~EndFile(n)
  <2>1. PICK n \in Files : SortMove(n)
    BY <1>4, SortStepMoves
  <2>2. created' = created /\ finished' = finished /\ ended' = ended /\ ~ended
    BY <2>1, SortMapped DEF SortMove, SortInv
  <2>3. running' \in (created \ finished) \cup {MAIN}
    BY <2>1, SortMapped DEF SortMove
  <2>4. running' \in AllCoros \cup {MAIN}
    BY <1>1, <2>3, SortMapped
  <2> QED BY <2>2, <2>3, <2>4 DEF Promise!Next, Promise!Resume, Promise!Alive
<1> QED BY <1>2, <1>3, <1>4 DEF SortNext, Files

\* The invariants of all three; the sort's is that of its own behaviours,
\* and its contexts stay as they are in those of the others.
CoopInv == JmpInv /\ LibInv /\ SortInv

\* Every behaviour of each of the three programs is, step by step, one that
\* Coop allows: control is given only to coroutines that have not finished,
\* and main() goes on when all of them have, for every number of coroutines
\* and every input.  The C library reads uc_link when a coroutine ends, as
\* 1/main.c takes for granted.  This is the safety part of Cooperates.
THEOREM StepsCooperate ==
  ASSUME LinkRead = "end"
  PROVE  Spec => Promise!Init /\ [][Promise!Next]_<<created, finished, running, ended>>
<1>1. Init => CoopInv
  BY JmpInitKeeps, LibInitKeeps, SortInitKeeps DEF Init, CoopInv
<1>2. CoopInv /\ [Next]_coroutines_vars => CoopInv'
  <2> SUFFICES ASSUME CoopInv, [Next]_coroutines_vars PROVE CoopInv'
    OBVIOUS
  <2>1. [JmpNext]_jmp_vars /\ [LibNext]_lib_vars /\ [SortNext]_sort_vars
    BY DEF Next, coroutines_vars
  <2> QED BY <2>1, JmpNextKeeps, LibNextKeeps, SortNextKeeps DEF CoopInv
<1>3. Init => Promise!Init
  <2> SUFFICES ASSUME Init PROVE Promise!Init
    OBVIOUS
  <2>1. CoopInv
    BY <1>1
  <2>2. CASE program = "jmp"
    <3>1. /\ created = JmpIds /\ finished = {i \in JmpIds : jmp_coros[i].is_finished}
          /\ running = (IF this.is_finished THEN MAIN ELSE curr_coro_i) /\ ended = (at = "main")
      BY <2>2 DEF created, finished, running, ended
    <3>2. JmpInit /\ curr_coro_i \in JmpIds
      BY <2>1 DEF CoopInv, JmpInv, Init
    <3>3. finished = {} /\ ~ended
      BY <3>1, <3>2 DEF JmpInit
    <3>4. created \subseteq AllCoros /\ running \in created \cup {MAIN}
      BY <3>1, <3>2 DEF AllCoros
    <3> QED BY <3>3, <3>4 DEF Promise!Init
  <2>3. CASE program = "libcoro"
    <3>1. /\ created = {c \in LibIds : coros[c].memory # "none"}
          /\ finished = {c \in LibIds : coros[c].is_finished}
          /\ running = (IF control = SCHED THEN MAIN ELSE control) /\ ended = (sched = "ended")
      BY <2>3 DEF created, finished, running, ended
    <3>2. LibInit
      BY DEF Init
    <3>3. finished = {} /\ ~ended /\ running = MAIN
      BY <3>1, <3>2 DEF LibInit, NoCoro
    <3>4. created \subseteq AllCoros
      BY <3>1 DEF AllCoros
    <3> QED BY <3>3, <3>4 DEF Promise!Init
  <2>4. CASE program = "sort"
    <3>1. /\ created = Files /\ finished = {n \in Files : data[n].finished}
          /\ running = (IF uctx = UCTX_MAIN THEN MAIN ELSE uctx) /\ ended = (sort_main # "coros")
      BY <2>4 DEF created, finished, running, ended, Files
    <3>2. SortInit /\ SortInv
      BY <2>1 DEF Init, CoopInv
    <3>3. Files = DOMAIN sort_input /\ uctx \in Files \cup {UCTX_MAIN} /\ sort_input \in SortInputs
      BY <3>2 DEF SortInv
    <3>4. finished = {} /\ ~ended
      BY <3>1, <3>2, <3>3 DEF SortInit, Context
    <3>5. created \subseteq AllCoros /\ running \in created \cup {MAIN}
      BY <3>1, <3>3 DEF AllCoros
    <3> QED BY <3>4, <3>5 DEF Promise!Init
  <2> QED BY <2>2, <2>3, <2>4 DEF Init
<1>4. CoopInv /\ [Next]_coroutines_vars
        => [Promise!Next]_<<created, finished, running, ended>>
  <2> SUFFICES ASSUME CoopInv, [Next]_coroutines_vars
               PROVE  Promise!Next \/ UNCHANGED <<created, finished, running, ended>>
    OBVIOUS
  <2>1. CASE UNCHANGED coroutines_vars
    BY <2>1 DEF coroutines_vars, sort_vars, lib_vars, jmp_vars, created, finished, running, ended,
       this
  <2>2. CASE program = "jmp" /\ JmpNext /\ UNCHANGED program
    BY <2>2, JmpCooperates DEF CoopInv
  <2>3. CASE program = "libcoro" /\ LibNext /\ UNCHANGED program
    BY <2>3, LibCooperates DEF CoopInv
  <2>4. CASE program = "sort" /\ SortNext /\ UNCHANGED program
    BY <2>4, SortCooperates DEF CoopInv
  <2> QED BY <2>1, <2>2, <2>3, <2>4 DEF Next
<1> QED BY <1>1, <1>2, <1>3, <1>4, PTL DEF Spec
=============================================================================
