--------------------------- MODULE SequenceLemmas ---------------------------
(***************************************************************************)
(* Induction and recursion in a form that the provers can instantiate, with *)
(* sets and functions in the place of operators, and what the recursive    *)
(* operators on sequences compute that the models use.                      *)
(***************************************************************************)
EXTENDS SequencesExt, Integers, SequenceTheorems, WellFoundedInduction, TLAPS

-----------------------------------------------------------------------------
(* Induction *)

\* A set of natural numbers has a least element.
LEMMA LeastElement ==
  ASSUME NEW S, S \subseteq Nat, S # {}
  PROVE  \E m \in S : \A n \in S : m <= n
<1>1. PICK less : IsWellFoundedOn(less, Nat) /\ \A n, m \in Nat : n < m => <<n, m>> \in less
  <2>1. \A n, m \in Nat : n < m => <<n, m>> \in OpToRel(<, Nat)
    BY DEF OpToRel
  <2>2. IsWellFoundedOn(OpToRel(<, Nat), Nat)
    BY ONLY NatLessThanWellFounded, Zenon
  <2> QED BY ONLY <2>1, <2>2, Zenon
<1>2. PICK m \in S : \A n \in S : ~(<<n, m>> \in less)
  <2>1. IsWellFoundedOn(less, Nat)
    BY ONLY <1>1, Zenon
  <2>2. \E m \in S : \A n \in S : ~(<<n, m>> \in less)
    BY ONLY <2>1, S \subseteq Nat, S # {}, WFMin, Zenon
  <2> QED BY ONLY <2>2, Zenon
<1>3. \A n \in S : ~(n < m)
  BY <1>1, <1>2
<1> QED BY <1>3

\* The natural numbers up to n are in a set that 0 is in, and with each of
\* them the next one.
LEMMA UpTo ==
  ASSUME NEW n \in Nat, NEW S, 0 \in S, \A i \in 0 .. n - 1 : i \in S => i + 1 \in S
  PROVE  0 .. n \subseteq S
<1> PICK T : T = (0 .. n) \ S
  OBVIOUS
<1> SUFFICES ASSUME T # {} PROVE FALSE
  OBVIOUS
<1>1. PICK m \in T : \A i \in T : m <= i
  <2>1. T \subseteq Nat
    OBVIOUS
  <2> QED BY ONLY <2>1, T # {}, LeastElement
<1>2. m \in 0 .. n /\ m \notin S /\ m # 0
  OBVIOUS
<1>3. m - 1 \in 0 .. n - 1 /\ m - 1 \in 0 .. n /\ m - 1 + 1 = m
  BY <1>2
<1>4. m - 1 \notin T
  BY <1>1, <1>3
<1> QED BY <1>2, <1>3, <1>4

\* g is what a recursion over 0 .. n computes that begins with first.
Recurs(n, first, step, g) ==
  g[0] = first /\ \A i \in 1 .. n : g[i] = step[i][g[i - 1]]

\* There is such a function.
LEMMA Recursion ==
  ASSUME NEW n \in Nat, NEW V, NEW first \in V, NEW step \in [1 .. n -> [V -> V]]
  PROVE  \E g \in [0 .. n -> V] : Recurs(n, first, step, g)
<1> DEFINE Is(m, g) == g[0] = first /\ \A i \in 1 .. m : g[i] = step[i][g[i - 1]]
<1> PICK S : S = {m \in 0 .. n : \E g \in [0 .. m -> V] : Is(m, g)}
  OBVIOUS
<1>1. 0 \in S
  <2> PICK g : g = [i \in 0 .. 0 |-> first]
    OBVIOUS
  <2>1. g \in [0 .. 0 -> V] /\ Is(0, g)
    OBVIOUS
  <2> QED BY <2>1
<1>2. ASSUME NEW m \in 0 .. n - 1, m \in S
      PROVE  m + 1 \in S
  <2>1. m \in Nat /\ m + 1 \in 1 .. n
    OBVIOUS
  <2>2. PICK g \in [0 .. m -> V] : Is(m, g)
    BY <1>2
  <2> PICK x \in V : x = step[m + 1][g[m]]
    BY <2>1
  <2> PICK h : h = [i \in 0 .. m + 1 |-> IF i <= m THEN g[i] ELSE x]
    OBVIOUS
  <2>3. h \in [0 .. m + 1 -> V]
    BY <2>1
  <2>4. h[0] = first /\ h[m + 1] = x /\ h[m] = g[m]
    BY <2>1, <2>2
  <2>5. ASSUME NEW i \in 1 .. m + 1 PROVE h[i] = step[i][h[i - 1]]
    <3>1. CASE i = m + 1
      BY <2>1, <2>4, <3>1
    <3>2. CASE i # m + 1
      <4>1. i \in 1 .. m /\ i \in 0 .. m /\ i - 1 \in 0 .. m
        BY <2>1, <3>2
      <4>2. h[i] = g[i] /\ h[i - 1] = g[i - 1]
        BY <2>1, <4>1
      <4> QED BY <2>2, <4>1, <4>2
    <3> QED BY <3>1, <3>2
  <2>6. Is(m + 1, h)
    BY <2>4, <2>5
  <2>7. \E f \in [0 .. m + 1 -> V] : Is(m + 1, f)
    BY ONLY <2>3, <2>6
  <2> HIDE DEF Is
  <2>8. m + 1 \in 0 .. n
    BY <2>1
  <2> QED BY ONLY <2>7, <2>8, S = {k \in 0 .. n : \E f \in [0 .. k -> V] : Is(k, f)}
<1>3. 0 .. n \subseteq S
  BY ONLY n \in Nat, <1>1, <1>2, UpTo
<1>4. n \in S
  BY <1>3
<1> QED BY <1>4 DEF Recurs

\* Of two functions on 0 .. n: they agree at 0 and, if at a place, at the next.
Agree(n, g, h) ==
  g[0] = h[0] /\ \A i \in 1 .. n : g[i - 1] = h[i - 1] => g[i] = h[i]

\* Then they agree everywhere.
LEMMA SameRecursion ==
  ASSUME NEW n \in Nat, NEW g, NEW h, Agree(n, g, h)
  PROVE  \A i \in 0 .. n : g[i] = h[i]
<1> PICK S : S = {i \in 0 .. n : g[i] = h[i]}
  OBVIOUS
<1> USE DEF Agree
<1>1. 0 \in S
  OBVIOUS
<1>2. ASSUME NEW i \in 0 .. n - 1, i \in S PROVE i + 1 \in S
  <2>1. i + 1 \in 1 .. n /\ i + 1 \in 0 .. n /\ i + 1 - 1 = i
    OBVIOUS
  <2> QED BY <1>2, <2>1
<1>3. 0 .. n \subseteq S
  BY ONLY n \in Nat, <1>1, <1>2, UpTo
<1> QED BY <1>3

-----------------------------------------------------------------------------
(* FlattenSeq *)

\* Its recursion from 0, where nothing has been joined yet.
LEMMA Joins ==
  ASSUME NEW S, NEW seqs \in Seq(Seq(S))
  PROVE  \E part \in [0 .. Len(seqs) -> Seq(S)] :
           part[0] = <<>> /\ \A i \in 1 .. Len(seqs) : part[i] = part[i - 1] \o seqs[i]
<1> PICK n \in Nat : n = Len(seqs)
  OBVIOUS
<1> PICK V : V = Seq(S)
  OBVIOUS
<1> PICK step : step = [i \in 1 .. n |-> [s \in V |-> s \o seqs[i]]]
  OBVIOUS
<1>1. \A i \in 1 .. n, s \in V : s \o seqs[i] \in V
  BY ConcatProperties
<1>2. step \in [1 .. n -> [V -> V]]
  BY <1>1
<1>3. <<>> \in V
  OBVIOUS
<1> PICK nothing \in V : nothing = <<>>
  BY <1>3
<1>7. PICK part \in [0 .. n -> V] : Recurs(n, nothing, step, part)
  BY ONLY n \in Nat, <1>2, nothing \in V, Recursion
<1>4. part[0] = <<>> /\ \A i \in 1 .. n : part[i] = step[i][part[i - 1]]
  BY <1>7 DEF Recurs
<1>5. \A i \in 1 .. n : i - 1 \in 0 .. n
  OBVIOUS
<1>6. \A i \in 1 .. n : part[i] = part[i - 1] \o seqs[i]
  BY <1>4, <1>5
<1> QED BY <1>4, <1>6

\* What it computes: the last of the parts.
LEMMA FlattenIs ==
  ASSUME NEW S, NEW seqs \in Seq(Seq(S)), NEW part \in [0 .. Len(seqs) -> Seq(S)],
         part[0] = <<>>, \A i \in 1 .. Len(seqs) : part[i] = part[i - 1] \o seqs[i]
  PROVE  FlattenSeq(seqs) = part[Len(seqs)]
<1> PICK n \in Nat : n = Len(seqs)
  OBVIOUS
<1>1. CASE n = 0
  <2>1. seqs = <<>>
    BY ONLY <1>1, n = Len(seqs), seqs \in Seq(Seq(S)), EmptySeq
  <2> QED BY <1>1, <2>1 DEF FlattenSeq
<1>2. CASE n # 0
  <2> DEFINE flatten[i \in 1 .. Len(seqs)] == IF i = 1 THEN seqs[i] ELSE flatten[i - 1] \o seqs[i]
  <2>1. FlattenSeq(seqs) = flatten[Len(seqs)]
    BY <1>2, Zenon DEF FlattenSeq
  <2>2. flatten = CHOOSE g : g = [i \in 1 .. Len(seqs) |->
                                    IF i = 1 THEN seqs[i] ELSE g[i - 1] \o seqs[i]]
    OBVIOUS
  <2> HIDE DEF flatten
  <2> PICK h : h = [i \in 1 .. n |-> part[i]]
    OBVIOUS
  <2>3. ASSUME NEW i \in 1 .. n
        PROVE  part[i] = IF i = 1 THEN seqs[i] ELSE h[i - 1] \o seqs[i]
    <3>1. CASE i = 1
      <4>1. seqs[1] \in Seq(S) /\ part[1] = part[0] \o seqs[1]
        <5>1. 1 \in 1 .. Len(seqs) /\ 1 - 1 = 0
          BY <3>1
        <5>2. part[1] = part[1 - 1] \o seqs[1]
          BY <5>1
        <5> QED BY <5>1, <5>2
      <4> QED BY <3>1, <4>1, ConcatEmptySeq
    <3>2. CASE i # 1
      <4>1. i - 1 \in 1 .. n
        BY <3>2
      <4> QED BY <3>2, <4>1
    <3> QED BY <3>1, <3>2
  <2>4. h = [i \in 1 .. Len(seqs) |-> IF i = 1 THEN seqs[i] ELSE h[i - 1] \o seqs[i]]
    BY <2>3
  <2>5. flatten = [i \in 1 .. Len(seqs) |->
                     IF i = 1 THEN seqs[i] ELSE flatten[i - 1] \o seqs[i]]
    BY ONLY <2>2, <2>4, Zenon
  <2> PICK f : f = [i \in 0 .. n |-> IF i = 0 THEN <<>> ELSE flatten[i]]
    OBVIOUS
  <2>6. \A i \in 0 .. n : f[i] = part[i]
    <3>1. f[0] = part[0]
      OBVIOUS
    <3>2. ASSUME NEW i \in 1 .. n, f[i - 1] = part[i - 1] PROVE f[i] = part[i]
      <4>1. f[i] = flatten[i] /\ i - 1 \in 0 .. n
        OBVIOUS
      <4>2. CASE i = 1
        <5>1. flatten[1] = seqs[1]
          BY <2>5, <4>2
        <5>2. part[1] = h[1] /\ h[1] = seqs[1]
          BY <2>3, <4>2
        <5> QED BY <4>1, <4>2, <5>1, <5>2
      <4>3. CASE i # 1
        <5>1. i - 1 \in 1 .. n /\ f[i - 1] = flatten[i - 1]
          BY <4>3
        <5>2. flatten[i] = flatten[i - 1] \o seqs[i]
          BY <2>5, <4>3
        <5> QED BY <3>2, <4>1, <5>1, <5>2
      <4> QED BY <4>2, <4>3
    <3>3. Agree(n, f, part)
      BY <3>1, <3>2 DEF Agree
    <3> QED BY ONLY n \in Nat, <3>3, SameRecursion
  <2>7. n \in 0 .. n /\ f[n] = flatten[n]
    BY <1>2
  <2> QED BY <2>1, <2>6, <2>7
<1> QED BY <1>1, <1>2

\* It is a sequence of what the sequences are made of.
LEMMA FlattenType ==
  ASSUME NEW S, NEW seqs \in Seq(Seq(S))
  PROVE  FlattenSeq(seqs) \in Seq(S)
<1>1. PICK part \in [0 .. Len(seqs) -> Seq(S)] :
        part[0] = <<>> /\ \A i \in 1 .. Len(seqs) : part[i] = part[i - 1] \o seqs[i]
  BY Joins
<1>2. FlattenSeq(seqs) = part[Len(seqs)]
  BY <1>1, FlattenIs
<1> QED BY <1>2

\* One sequence more is joined at its end.
LEMMA FlattenAppend ==
  ASSUME NEW S, NEW seqs \in Seq(Seq(S)), NEW s \in Seq(S)
  PROVE  FlattenSeq(Append(seqs, s)) = FlattenSeq(seqs) \o s
<1>1. PICK part \in [0 .. Len(seqs) -> Seq(S)] :
        part[0] = <<>> /\ \A i \in 1 .. Len(seqs) : part[i] = part[i - 1] \o seqs[i]
  BY Joins
<1>2. FlattenSeq(seqs) = part[Len(seqs)]
  BY <1>1, FlattenIs
<1> PICK n \in Nat : n = Len(seqs)
  OBVIOUS
<1> PICK more : more = Append(seqs, s)
  OBVIOUS
<1>3. /\ more \in Seq(Seq(S)) /\ Len(more) = n + 1 /\ more[n + 1] = s
      /\ \A i \in 1 .. n : more[i] = seqs[i]
  OBVIOUS
<1> PICK x \in Seq(S) : x = part[n] \o s
  <2>1. part[n] \in Seq(S)
    OBVIOUS
  <2> QED BY <2>1, ConcatProperties
<1> PICK longer : longer = [i \in 0 .. n + 1 |-> IF i <= n THEN part[i] ELSE x]
  OBVIOUS
<1>4. longer \in [0 .. Len(more) -> Seq(S)]
  BY <1>3
<1>5. longer[0] = <<>> /\ longer[n + 1] = x
  BY <1>1
<1>6. ASSUME NEW i \in 1 .. Len(more) PROVE longer[i] = longer[i - 1] \o more[i]
  <2>1. CASE i = n + 1
    <3>1. longer[n] = part[n] /\ i - 1 = n
      BY <2>1
    <3> QED BY <1>3, <1>5, <2>1, <3>1
  <2>2. CASE i # n + 1
    <3>1. i \in 1 .. n /\ i - 1 \in 0 .. n
      BY <1>3, <2>2
    <3>2. longer[i] = part[i] /\ longer[i - 1] = part[i - 1]
      BY <3>1
    <3> QED BY <1>1, <1>3, <3>1, <3>2
  <2> QED BY <2>1, <2>2
<1>7. FlattenSeq(more) = longer[Len(more)]
  BY ONLY <1>3, <1>4, <1>5, <1>6, FlattenIs
<1> QED BY <1>2, <1>3, <1>5, <1>7

\* Nothing comes of no sequences.
LEMMA FlattenNothing == FlattenSeq(<<>>) = <<>>
  BY DEF FlattenSeq
=============================================================================
