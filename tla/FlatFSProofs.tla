---------------------------- MODULE FlatFSProofs ----------------------------
(***************************************************************************)
(* UserFS without ufs_resize implements FlatFS: every step of the code is,  *)
(* through the mapping of UserFSFlat, one that FlatFS allows, for any       *)
(* names, files, blocks, buffers and sizes of a block.                      *)
(***************************************************************************)
EXTENDS UserFSFlat, UserFSProofs, SequenceTheorems

-----------------------------------------------------------------------------
(* Where the bytes are *)

\* The bytes before block number i.
BlockStart(i) == (i - 1) * BLOCK_SIZE

\* What Contents says of a list of blocks and what is in them.
Size(list, bs) ==
  IF Len(list) = 0 THEN 0 ELSE BlockStart(Len(list)) + bs[list[Len(list)]].occupied
Text(list, bs) ==
  [x \in 1 .. Size(list, bs) |->
     bs[list[(x - 1) \div BLOCK_SIZE + 1]].memory[(x - 1) % BLOCK_SIZE]]

\* All blocks but the last are full.
Full(list, bs) == \A i \in 1 .. Len(list) - 1 : bs[list[i]].occupied = BLOCK_SIZE

\* Blocks follow one another.
LEMMA BlockStarts ==
  ASSUME NEW i \in Nat \ {0}
  PROVE  /\ BlockStart(i) \in Nat /\ BlockStart(1) = 0
         /\ BlockStart(i + 1) = BlockStart(i) + BLOCK_SIZE
         /\ \A k \in Nat \ {0} : k < i => BlockStart(k) + BLOCK_SIZE <= BlockStart(i)
<1> PICK B \in Nat : B = BLOCK_SIZE
  BY BlockSizePositive
<1>1. \A k \in Nat \ {0} : /\ (k - 1) * B \in Nat
                           /\ (k + 1 - 1) * B = (k - 1) * B + B
  OBVIOUS
<1>2. ASSUME NEW k \in Nat \ {0}, k < i
      PROVE  (k - 1) * B + B <= (i - 1) * B
  <2>1. k \in Nat /\ i - 1 \in Nat /\ k <= i - 1
    BY <1>2
  <2>2. k * B <= (i - 1) * B
    BY <2>1, FewerBytes
  <2>3. k * B = (k - 1) * B + B
    BY <1>1
  <2> QED BY <2>2, <2>3
<1>3. (1 - 1) * B = 0
  OBVIOUS
<1> QED BY <1>1, <1>2, <1>3 DEF BlockStart

\* Every byte has its place in a block,
LEMMA Address ==
  ASSUME NEW x \in Nat \ {0}
  PROVE  /\ (x - 1) \div BLOCK_SIZE + 1 \in Nat \ {0} /\ (x - 1) % BLOCK_SIZE \in Offsets
         /\ x = BlockStart((x - 1) \div BLOCK_SIZE + 1) + ((x - 1) % BLOCK_SIZE) + 1
<1> PICK B \in Nat : B = BLOCK_SIZE /\ B > 0
  BY BlockSizePositive
<1> PICK n \in Nat : n = x - 1
  BY x - 1 \in Nat
<1> PICK q : q = n \div B
  OBVIOUS
<1> PICK r : r = n % B
  OBVIOUS
<1>1. q \in Int /\ r \in 0 .. B - 1 /\ n = B * q + r
  OBVIOUS
<1>2. q >= 0
  BY <1>1
<1>3. BlockStart(q + 1) = B * q
  BY <1>1 DEF BlockStart
<1> QED BY <1>1, <1>2, <1>3 DEF Offsets

\* and no other.
LEMMA AddressIs ==
  ASSUME NEW i \in Nat \ {0}, NEW j \in Offsets, NEW x, x = BlockStart(i) + j + 1
  PROVE  (x - 1) \div BLOCK_SIZE + 1 = i /\ (x - 1) % BLOCK_SIZE = j
<1> PICK s \in Nat : s = BlockStart(i)
  BY BlockStarts
<1>1. j \in Nat /\ j < BLOCK_SIZE /\ BLOCK_SIZE \in Nat
  BY BlockSizePositive DEF Offsets
<1>2. x \in Nat \ {0}
  BY <1>1
<1> PICK q \in Nat \ {0} : q = (x - 1) \div BLOCK_SIZE + 1
  BY <1>2, Address
<1> PICK r \in Offsets : r = (x - 1) % BLOCK_SIZE
  BY <1>2, Address
<1> PICK t \in Nat : t = BlockStart(q)
  BY BlockStarts
<1>3. r \in Nat /\ r < BLOCK_SIZE
  BY <1>1 DEF Offsets
<1>4. s + j + 1 = t + r + 1
  BY <1>2, Address
<1>5. q < i => t + BLOCK_SIZE <= s
  BY BlockStarts
<1>6. i < q => s + BLOCK_SIZE <= t
  BY BlockStarts
<1>7. q = i
  BY <1>1, <1>3, <1>4, <1>5, <1>6
<1> QED BY <1>1, <1>3, <1>4, <1>7

\* The bytes of a list of blocks are those of its blocks, one after the other.
LEMMA TextIs ==
  ASSUME NEW list \in Seq(BlockIds), NEW bs \in [BlockIds -> Block], Full(list, bs)
  PROVE  /\ Size(list, bs) \in Nat
         /\ Text(list, bs) \in Seq(Data) /\ Len(Text(list, bs)) = Size(list, bs)
         /\ DOMAIN Text(list, bs) = 1 .. Size(list, bs)
         /\ \A i \in 1 .. Len(list) : \A j \in 0 .. bs[list[i]].occupied - 1 :
              /\ BlockStart(i) + j + 1 \in 1 .. Size(list, bs)
              /\ Text(list, bs)[BlockStart(i) + j + 1] = bs[list[i]].memory[j]
         /\ \A x \in 1 .. Size(list, bs) :
              \E i \in 1 .. Len(list) : \E j \in 0 .. bs[list[i]].occupied - 1 :
                x = BlockStart(i) + j + 1
<1> PICK n \in Nat : n = Len(list)
  OBVIOUS
<1> PICK B \in Nat : B = BLOCK_SIZE /\ B > 0
  BY BlockSizePositive
<1>1. \A i \in 1 .. n : /\ list[i] \in BlockIds /\ bs[list[i]] \in Block
                        /\ bs[list[i]].occupied \in 0 .. B
                        /\ i < n => bs[list[i]].occupied = B
  BY DEF Block, Full
<1>2. \A i \in 1 .. n : i \in Nat \ {0} /\ BlockStart(i) \in Nat
  <2>1. \A i \in 1 .. n : i \in Nat \ {0}
    OBVIOUS
  <2> QED BY <2>1, BlockStarts
<1> PICK z : z = Size(list, bs)
  OBVIOUS
<1>3. /\ z \in Nat
      /\ n = 0 => z = 0
      /\ n > 0 => z = BlockStart(n) + bs[list[n]].occupied
  <2>1. CASE n = 0
    BY <2>1 DEF Size
  <2>2. CASE n > 0
    BY <1>1, <1>2, <2>2 DEF Size
  <2> QED BY <2>1, <2>2
<1>4. ASSUME NEW i \in 1 .. n, NEW j \in 0 .. bs[list[i]].occupied - 1
      PROVE  BlockStart(i) + j + 1 \in 1 .. z /\ j \in Offsets
  <2> PICK o \in 0 .. B : o = bs[list[i]].occupied
    BY <1>1
  <2> PICK s \in Nat : s = BlockStart(i)
    BY <1>2
  <2>1. j \in 0 .. o - 1
    OBVIOUS
  <2>2. CASE i = n
    BY <1>3, <2>1, <2>2, SMTT(30) DEF Offsets
  <2>3. CASE i < n
    <3> PICK t \in Nat : t = BlockStart(n)
      BY <1>2, <2>3
    <3>1. s + B <= t
      BY <1>2, <2>3, BlockStarts
    <3>2. n \in 1 .. n /\ n > 0
      BY <2>3
    <3> PICK p \in 0 .. B : p = bs[list[n]].occupied
      BY <1>1, <3>2
    <3>3. z = t + p
      BY <1>3, <3>2
    <3>4. j \in Nat /\ j < B
      BY <2>1
    <3>5. p \in Nat /\ s \in Nat /\ t \in Nat /\ B \in Nat
      OBVIOUS
    <3>7. s + j + 1 <= t + p
      BY ONLY <3>1, <3>4, <3>5
    <3>6. s + j + 1 \in 1 .. z
      BY ONLY <1>3, <3>3, <3>4, <3>5, <3>7
    <3> QED BY <3>4, <3>6 DEF Offsets
  <2> QED BY <2>2, <2>3
<1>5. ASSUME NEW x \in 1 .. z
      PROVE  \E i \in 1 .. n : \E j \in 0 .. bs[list[i]].occupied - 1 :
               /\ j \in Offsets /\ x = BlockStart(i) + j + 1
               /\ Text(list, bs)[x] = bs[list[i]].memory[j]
  <2>1. x \in Nat \ {0}
    BY <1>3
  <2> PICK i \in Nat \ {0} : i = (x - 1) \div BLOCK_SIZE + 1
    BY <2>1, Address
  <2> PICK j \in Offsets : j = (x - 1) % BLOCK_SIZE
    BY <2>1, Address
  <2> PICK s \in Nat : s = BlockStart(i)
    BY BlockStarts
  <2>2. x = s + j + 1
    BY <2>1, Address
  <2>3. n > 0 /\ n \in 1 .. n
    BY <1>3
  <2> PICK t \in Nat : t = BlockStart(n)
    BY <1>2, <2>3
  <2> PICK p \in 0 .. B : p = bs[list[n]].occupied
    BY <1>1, <2>3
  <2>4. z = t + p
    BY <1>3, <2>3
  <2>5. j \in Nat /\ j < B
    BY DEF Offsets
  <2>6. n < i => t + B <= s
    BY <1>2, <2>3, BlockStarts
  <2>7. i <= n
    <3>1. x <= z /\ x \in Nat
      BY <2>1
    <3>2. s + j + 1 <= t + p
      BY <2>2, <2>4, <3>1
    <3>3. n < i => t + B <= t + p - j - 1
      BY ONLY <2>5, <2>6, <3>2, s \in Nat, t \in Nat, B \in Nat, p \in 0 .. B
    <3>4. ~(n < i)
      BY ONLY <2>5, <3>3, t \in Nat, B \in Nat, p \in 0 .. B
    <3> QED BY ONLY <3>4, n \in Nat, i \in Nat \ {0}
  <2>8. i \in 1 .. n
    BY <2>7
  <2> PICK o \in 0 .. B : o = bs[list[i]].occupied
    BY <1>1, <2>8
  <2>9. j \in 0 .. o - 1
    <3>1. CASE i < n
      <4>1. o = B
        BY <1>1, <2>8, <3>1
      <4> QED BY <2>5, <4>1
    <3>2. CASE i = n
      <4>1. s = t /\ o = p
        BY <3>2
      <4>2. x <= z /\ x \in Nat
        BY <2>1
      <4>3. t + j + 1 <= t + o
        BY <2>2, <2>4, <4>1, <4>2
      <4>4. j \in Nat /\ t \in Nat /\ o \in Nat
        BY <2>5
      <4> QED BY ONLY <4>3, <4>4
    <3> QED BY <2>7, <3>1, <3>2
  <2>10. Text(list, bs)[x] = bs[list[i]].memory[j]
    BY DEF Text
  <2> QED BY <2>2, <2>8, <2>9, <2>10
<1>6. ASSUME NEW i \in 1 .. n, NEW j \in 0 .. bs[list[i]].occupied - 1
      PROVE  Text(list, bs)[BlockStart(i) + j + 1] = bs[list[i]].memory[j]
  <2>1. PICK x \in 1 .. z : x = BlockStart(i) + j + 1 /\ j \in Offsets
    BY <1>4
  <2>2. (x - 1) \div BLOCK_SIZE + 1 = i /\ (x - 1) % BLOCK_SIZE = j
    BY <1>2, <2>1, AddressIs
  <2> QED BY <2>1, <2>2 DEF Text
<1>7. \A x \in 1 .. z : Text(list, bs)[x] \in Data
  <2> SUFFICES ASSUME NEW x \in 1 .. z PROVE Text(list, bs)[x] \in Data
    OBVIOUS
  <2>1. PICK i \in 1 .. n, j \in Offsets : Text(list, bs)[x] = bs[list[i]].memory[j]
    BY <1>5
  <2> QED BY <1>1, <2>1 DEF Block
<1>8. DOMAIN Text(list, bs) = 1 .. z
  BY DEF Text
<1>9. Text(list, bs) = [x \in 1 .. z |-> Text(list, bs)[x]]
  BY DEF Text
<1>10. Text(list, bs) \in [1 .. z -> Data]
  BY <1>7, <1>9
<1>11. Text(list, bs) \in Seq(Data) /\ Len(Text(list, bs)) = z
  <2> PICK s : s = Text(list, bs)
    OBVIOUS
  <2>1. s \in [1 .. z -> Data] /\ z \in Nat
    BY <1>3, <1>10
  <2> QED BY ONLY <2>1, s = Text(list, bs)
<1>12. \A x \in 1 .. z : \E i \in 1 .. n : \E j \in 0 .. bs[list[i]].occupied - 1 :
         x = BlockStart(i) + j + 1
  BY <1>5
<1> QED BY <1>3, <1>4, <1>6, <1>8, <1>11, <1>12

\* The bytes of one block in them.
LEMMA TextOfBlock ==
  ASSUME NEW list \in Seq(BlockIds), NEW bs \in [BlockIds -> Block], Full(list, bs),
         NEW i \in 1 .. Len(list), NEW j \in 0 .. bs[list[i]].occupied - 1
  PROVE  Text(list, bs)[BlockStart(i) + j + 1] = bs[list[i]].memory[j]
BY TextIs

\* A sequence is the bytes of a list when it agrees with each of its blocks.
LEMMA TextEquals ==
  ASSUME NEW list \in Seq(BlockIds), NEW bs \in [BlockIds -> Block], Full(list, bs),
         NEW s \in Seq(Data), Len(s) = Size(list, bs),
         \A i \in 1 .. Len(list) : \A j \in 0 .. bs[list[i]].occupied - 1 :
           s[BlockStart(i) + j + 1] = bs[list[i]].memory[j]
  PROVE  s = Text(list, bs)
<1>1. \A x \in 1 .. Len(s) : s[x] = Text(list, bs)[x]
  <2> SUFFICES ASSUME NEW x \in 1 .. Len(s) PROVE s[x] = Text(list, bs)[x]
    OBVIOUS
  <2>1. x \in 1 .. Size(list, bs)
    OBVIOUS
  <2>2. PICK i \in 1 .. Len(list) : \E j \in 0 .. bs[list[i]].occupied - 1 : x = BlockStart(i) + j + 1
    BY <2>1, TextIs
  <2>3. PICK j \in 0 .. bs[list[i]].occupied - 1 : x = BlockStart(i) + j + 1
    BY <2>2
  <2>4. Text(list, bs)[x] = bs[list[i]].memory[j]
    BY <2>3, TextIs
  <2> QED BY <2>3, <2>4
<1>2. Text(list, bs) \in Seq(Data) /\ Len(Text(list, bs)) = Len(s)
  BY TextIs
<1> QED BY <1>1, <1>2, SeqEqual

\* The bytes are the same when the blocks in the list are.
LEMMA TextSame ==
  ASSUME NEW list \in Seq(BlockIds), NEW bs \in [BlockIds -> Block], Full(list, bs),
         NEW new \in [BlockIds -> Block],
         \A i \in 1 .. Len(list) : new[list[i]] = bs[list[i]]
  PROVE  Text(list, new) = Text(list, bs) /\ Full(list, new)
<1>1. Full(list, new)
  BY DEF Full
<1>2. Size(list, new) = Size(list, bs)
  <2>1. CASE Len(list) = 0
    BY <2>1 DEF Size
  <2>2. CASE Len(list) # 0
    <3>1. Len(list) \in 1 .. Len(list)
      BY <2>2
    <3> QED BY <3>1 DEF Size
  <2> QED BY <2>1, <2>2
<1>3. PICK s \in Seq(Data) : s = Text(list, bs)
  BY TextIs
<1>4. Len(s) = Size(list, new)
  BY <1>2, <1>3, TextIs
<1>5. \A i \in 1 .. Len(list) : \A j \in 0 .. new[list[i]].occupied - 1 :
        s[BlockStart(i) + j + 1] = new[list[i]].memory[j]
  <2>1. \A i \in 1 .. Len(list) : \A j \in 0 .. bs[list[i]].occupied - 1 :
          Text(list, bs)[BlockStart(i) + j + 1] = bs[list[i]].memory[j]
    BY TextIs
  <2> QED BY <1>3, <2>1
<1>6. s = Text(list, new)
  BY <1>1, <1>4, <1>5, TextEquals
<1> QED BY <1>1, <1>3, <1>6

\* A block that is added behind a full one has no bytes.
LEMMA TextExtended ==
  ASSUME NEW list \in Seq(BlockIds), NEW bs \in [BlockIds -> Block], Full(list, bs),
         NEW b \in BlockIds, NEW new \in [BlockIds -> Block], new[b].occupied = 0,
         \A i \in 1 .. Len(list) : new[list[i]] = bs[list[i]],
         Len(list) > 0 => bs[list[Len(list)]].occupied = BLOCK_SIZE
  PROVE  Text(Append(list, b), new) = Text(list, bs) /\ Full(Append(list, b), new)
<1> PICK n \in Nat : n = Len(list)
  OBVIOUS
<1>0. /\ Append(list, b) \in Seq(BlockIds) /\ Len(Append(list, b)) = Len(list) + 1
      /\ \A i \in 1 .. Len(list) : Append(list, b)[i] = list[i]
      /\ Append(list, b)[Len(list) + 1] = b
  BY ONLY list \in Seq(BlockIds), b \in BlockIds, AppendProperties
<1> PICK longer \in Seq(BlockIds) : longer = Append(list, b)
  BY <1>0
<1>1. Len(longer) = n + 1 /\ longer[n + 1] = b /\ \A i \in 1 .. n : longer[i] = list[i]
  BY <1>0
<1>2. Full(longer, new)
  <2> SUFFICES ASSUME NEW i \in 1 .. n PROVE new[longer[i]].occupied = BLOCK_SIZE
    BY <1>1 DEF Full
  <2>1. CASE i = n
    BY <1>1, <2>1
  <2>2. CASE i # n
    <3>1. i \in 1 .. Len(list) - 1
      BY <2>2
    <3> QED BY <1>1, <3>1 DEF Full
  <2> QED BY <2>1, <2>2
<1>3. Size(longer, new) = BlockStart(n + 1)
  <2>1. n + 1 \in Nat \ {0}
    OBVIOUS
  <2>2. BlockStart(n + 1) \in Nat
    BY <2>1, BlockStarts
  <2> QED BY <1>1, <2>2 DEF Size
<1>4. Size(list, bs) = BlockStart(n + 1)
  <2>1. CASE n = 0
    <3>1. 1 \in Nat \ {0} /\ n + 1 = 1
      BY <2>1
    <3> QED BY <2>1, <3>1, BlockStarts DEF Size
  <2>2. CASE n # 0
    <3>1. n \in Nat \ {0}
      BY <2>2
    <3>2. BlockStart(n + 1) = BlockStart(n) + BLOCK_SIZE
      BY <3>1, BlockStarts
    <3> QED BY <3>1, <3>2 DEF Size
  <2> QED BY <2>1, <2>2
<1>5. PICK s \in Seq(Data) : s = Text(list, bs) /\ Len(s) = Size(longer, new)
  BY <1>3, <1>4, TextIs
<1>6. ASSUME NEW i \in 1 .. n + 1, NEW j \in 0 .. new[longer[i]].occupied - 1
      PROVE  s[BlockStart(i) + j + 1] = new[longer[i]].memory[j]
  <2>1. i # n + 1
    <3> SUFFICES ASSUME i = n + 1 PROVE FALSE
      OBVIOUS
    <3>1. new[longer[i]].occupied = 0
      BY <1>1
    <3> QED BY <3>1
  <2>2. i \in 1 .. Len(list)
    BY <2>1
  <2>3. longer[i] = list[i] /\ new[longer[i]] = bs[list[i]]
    BY <1>1, <2>2
  <2>4. \A l \in 0 .. bs[list[i]].occupied - 1 :
          Text(list, bs)[BlockStart(i) + l + 1] = bs[list[i]].memory[l]
    BY <2>2, TextIs, ZenonT(40)
  <2> QED BY <1>5, <2>3, <2>4
<1>7. s = Text(longer, new)
  <2>1. \A i \in 1 .. Len(longer) : \A j \in 0 .. new[longer[i]].occupied - 1 :
          s[BlockStart(i) + j + 1] = new[longer[i]].memory[j]
    BY <1>1, <1>6
  <2> QED BY ONLY <1>2, <1>5, <2>1, longer \in Seq(BlockIds), new \in [BlockIds -> Block],
                  TextEquals, Zenon
<1> QED BY <1>2, <1>5, <1>7

\* A part of a sequence.
LEMMA PartOf ==
  ASSUME NEW V, NEW s \in Seq(V), NEW m \in Nat \ {0}, NEW n \in Nat, n <= Len(s)
  PROVE  /\ SubSeq(s, m, n) \in Seq(V)
         /\ Len(SubSeq(s, m, n)) = IF m <= n THEN n - m + 1 ELSE 0
         /\ \A i \in 1 .. Len(SubSeq(s, m, n)) : SubSeq(s, m, n)[i] = s[m + i - 1]
<1>1. \A i \in m .. n : s[i] \in V
  <2> SUFFICES ASSUME NEW i \in m .. n PROVE s[i] \in V
    OBVIOUS
  <2>1. i \in 1 .. Len(s)
    OBVIOUS
  <2> QED BY <2>1, ElementOfSeq
<1>2. /\ SubSeq(s, m, n) \in Seq(V)
      /\ Len(SubSeq(s, m, n)) = IF m <= n THEN n - m + 1 ELSE 0
      /\ \A i \in 1 .. n - m + 1 : SubSeq(s, m, n)[i] = s[m + i - 1]
  <2>1. m \in Int /\ n \in Int
    OBVIOUS
  <2> QED BY ONLY <1>1, <2>1, SubSeqProperties
<1>3. \A i \in 1 .. Len(SubSeq(s, m, n)) : i \in 1 .. n - m + 1
  BY <1>2
<1> QED BY <1>2, <1>3

\* What is overwritten, byte by byte.
LEMMA OverwrittenIs ==
  ASSUME NEW V, NEW s \in Seq(V), NEW t \in Seq(V), NEW pos \in 0 .. Len(s)
  PROVE  LET new == Flat!Overwritten(s, pos, t)
         IN  /\ new \in Seq(V) /\ Len(new) = Larger(Len(s), pos + Len(t))
             /\ \A y \in 1 .. Len(new) :
                  new[y] = IF y <= pos THEN s[y] ELSE IF y <= pos + Len(t) THEN t[y - pos] ELSE s[y]
<1> PICK n \in Nat : n = Len(s)
  OBVIOUS
<1> PICK k \in Nat : k = Len(t)
  OBVIOUS
<1>1. PICK a \in Seq(V) : /\ a = SubSeq(s, 1, pos) /\ Len(a) = pos
                         /\ \A y \in 1 .. pos : a[y] = s[y]
  <2>0. 1 \in Nat \ {0} /\ pos \in Nat /\ pos <= Len(s)
    OBVIOUS
  <2> PICK a \in Seq(V) : a = SubSeq(s, 1, pos)
    BY <2>0, PartOf
  <2>1. /\ Len(a) = IF 1 <= pos THEN pos - 1 + 1 ELSE 0
        /\ \A i \in 1 .. Len(a) : a[i] = s[1 + i - 1]
    BY <2>0, PartOf
  <2>2. Len(a) = pos /\ \A i \in 1 .. Len(a) : 1 + i - 1 = i
    BY <2>1
  <2> QED BY <2>1, <2>2
<1>2. PICK ab \in Seq(V) : /\ ab = a \o t /\ Len(ab) = pos + k
                          /\ \A y \in 1 .. pos + k : ab[y] = IF y <= pos THEN a[y] ELSE t[y - pos]
  <2>1. /\ a \o t \in Seq(V) /\ Len(a \o t) = Len(a) + Len(t)
        /\ \A y \in 1 .. Len(a) + Len(t) : (a \o t)[y] = IF y <= Len(a) THEN a[y] ELSE t[y - Len(a)]
    BY ONLY a \in Seq(V), t \in Seq(V), ConcatProperties
  <2> PICK ab \in Seq(V) : ab = a \o t
    BY <2>1
  <2>2. Len(ab) = pos + k
    BY <1>1, <2>1
  <2>3. \A y \in 1 .. pos + k : ab[y] = IF y <= pos THEN a[y] ELSE t[y - pos]
    BY <1>1, <2>1
  <2> QED BY <2>2, <2>3
<1>3. PICK c \in Seq(V) : /\ c = SubSeq(s, pos + k + 1, n)
                         /\ Len(c) = (IF pos + k + 1 <= n THEN n - (pos + k) ELSE 0)
                         /\ \A y \in 1 .. Len(c) : c[y] = s[pos + k + y]
  <2> PICK m \in Nat \ {0} : m = pos + k + 1
    OBVIOUS
  <2>0. n <= Len(s)
    OBVIOUS
  <2> PICK c \in Seq(V) : c = SubSeq(s, m, n)
    BY <2>0, PartOf
  <2>1. /\ Len(c) = IF m <= n THEN n - m + 1 ELSE 0
        /\ \A y \in 1 .. Len(c) : c[y] = s[m + y - 1]
    BY <2>0, PartOf
  <2>2. \A y \in 1 .. Len(c) : m + y - 1 = pos + k + y
    BY <2>1
  <2>3. Len(c) = (IF pos + k + 1 <= n THEN n - (pos + k) ELSE 0)
    BY <2>1
  <2>4. \A y \in 1 .. Len(c) : c[y] = s[pos + k + y]
    BY <2>1, <2>2
  <2>5. c = SubSeq(s, pos + k + 1, n)
    OBVIOUS
  <2> QED BY <2>3, <2>4, <2>5
<1>4. PICK new \in Seq(V) : /\ new = ab \o c /\ Len(new) = pos + k + Len(c)
                           /\ \A y \in 1 .. pos + k + Len(c) :
                                new[y] = IF y <= pos + k THEN ab[y] ELSE c[y - (pos + k)]
  <2>1. /\ ab \o c \in Seq(V) /\ Len(ab \o c) = Len(ab) + Len(c)
        /\ \A y \in 1 .. Len(ab) + Len(c) : (ab \o c)[y] = IF y <= Len(ab) THEN ab[y] ELSE c[y - Len(ab)]
    BY ONLY ab \in Seq(V), c \in Seq(V), ConcatProperties
  <2> PICK new \in Seq(V) : new = ab \o c
    BY <2>1
  <2>2. Len(new) = pos + k + Len(c)
    BY <1>2, <2>1
  <2>3. \A y \in 1 .. pos + k + Len(c) :
          new[y] = IF y <= pos + k THEN ab[y] ELSE c[y - (pos + k)]
    BY <1>2, <2>1
  <2> QED BY <2>2, <2>3
<1>0. pos \in Nat /\ Len(c) \in Nat /\ Len(new) = pos + k + Len(c)
  BY <1>4
<1>5. new = Flat!Overwritten(s, pos, t)
  BY <1>1, <1>2, <1>3, <1>4 DEF Flat!Overwritten
<1>6. Len(new) = Larger(n, pos + k)
  <2>1. Len(c) = IF pos + k + 1 <= n THEN n - (pos + k) ELSE 0
    BY <1>3
  <2> QED BY ONLY <1>0, <2>1, n \in Nat, k \in Nat DEF Larger
<1>7. ASSUME NEW y \in 1 .. Len(new)
      PROVE  new[y] = IF y <= pos THEN s[y] ELSE IF y <= pos + k THEN t[y - pos] ELSE s[y]
  <2>1. CASE y <= pos
    <3>1. y \in 1 .. pos /\ y \in 1 .. pos + k /\ y \in 1 .. pos + k + Len(c)
      BY <1>0, <2>1
    <3> QED BY <1>1, <1>2, <1>4, <2>1, <3>1
  <2>2. CASE y > pos /\ y <= pos + k
    <3>1. y \in 1 .. pos + k /\ y \in 1 .. pos + k + Len(c) /\ ~(y <= pos)
      BY <1>0, <2>2
    <3> QED BY <1>2, <1>4, <2>2, <3>1
  <2>3. CASE y > pos + k
    <3> PICK l \in Nat : l = Len(c)
      BY <1>0
    <3>0. y \in Nat /\ y > pos + k /\ y <= pos + k + l
      BY <1>0, <2>3
    <3>1. y - (pos + k) \in 1 .. Len(c) /\ y \in 1 .. pos + k + Len(c)
      BY <1>0, <3>0
    <3>2. pos + k + (y - (pos + k)) = y /\ ~(y <= pos) /\ ~(y <= pos + k)
      BY <2>3
    <3>3. new[y] = c[y - (pos + k)]
      BY <1>4, <3>1, <3>2
    <3>4. c[y - (pos + k)] = s[y]
      BY <1>3, <3>1, <3>2
    <3> QED BY <3>2, <3>3, <3>4
  <2> QED BY <2>1, <2>2, <2>3
<1> QED BY <1>5, <1>6, <1>7

\* The blocks new are the blocks bs after k bytes of buf went to offset pos of
\* the last block of a list of n.
WrittenInLast(list, bs, n, pos, k, buf, from, new) ==
  /\ list \in Seq(BlockIds) /\ n \in Nat \ {0} /\ n = Len(list)
  /\ bs \in [BlockIds -> Block] /\ Full(list, bs)
  /\ pos \in Nat /\ pos <= bs[list[n]].occupied /\ k \in Nat /\ pos + k <= BLOCK_SIZE
  /\ buf \in Seq(Data) /\ from \in Nat /\ from + k <= Len(buf)
  /\ new \in [BlockIds -> Block] /\ new[list[n]] = Filled(bs[list[n]], pos, buf, from, k)
  /\ \A i \in 1 .. n : i < n => new[list[i]] = bs[list[i]]

\* A write into the last block of a list overwrites its bytes from there.
LEMMA TextWrite ==
  ASSUME NEW list, NEW bs, NEW n, NEW pos, NEW k, NEW buf, NEW from, NEW new,
         WrittenInLast(list, bs, n, pos, k, buf, from, new)
  PROVE  /\ Text(list, new) = Flat!Overwritten(Text(list, bs), BlockStart(n) + pos,
                                               SubSeq(buf, from + 1, from + k))
         /\ Full(list, new)
<1> USE DEF WrittenInLast
<1> PICK b \in BlockIds : b = list[n]
  OBVIOUS
<1> PICK block \in Block : block = bs[b]
  OBVIOUS
<1> PICK block2 : block2 = Filled(block, pos, buf, from, k)
  OBVIOUS
<1> PICK B \in Nat : B = BLOCK_SIZE /\ B > 0
  BY BlockSizePositive
<1> PICK o \in 0 .. B : o = block.occupied
  BY DEF Block
<1> PICK o2 : o2 = Larger(o, pos + k)
  OBVIOUS
<1>1. block2 \in Block
  BY FilledType
<1>2. /\ block2.occupied = o2
      /\ \A j \in Offsets : block2.memory[j] = IF j \in pos .. pos + k - 1
                                                 THEN buf[from + 1 + j - pos] ELSE block.memory[j]
  BY DEF Filled
<1>3. /\ pos <= o /\ pos + k <= B /\ o2 \in 0 .. B
      /\ (o2 = o /\ pos + k <= o) \/ (o2 = pos + k /\ o <= pos + k)
  BY DEF Larger
<1>4. /\ new \in [BlockIds -> Block] /\ new[b] = block2
      /\ \A i \in 1 .. n : i < n => new[list[i]] = bs[list[i]]
  BY <1>1
<1>5. Full(list, new)
  BY <1>4, SMTT(30) DEF Full
<1> PICK s \in Nat : s = BlockStart(n)
  BY BlockStarts
<1>6. Size(list, bs) = s + o /\ Size(list, new) = s + o2
  BY <1>2, <1>4 DEF Size
<1> PICK text \in Seq(Data) : text = Text(list, bs) /\ Len(text) = s + o
  BY <1>6, TextIs
<1> PICK part \in Seq(Data) : /\ part = SubSeq(buf, from + 1, from + k) /\ Len(part) = k
                              /\ \A i \in 1 .. k : part[i] = buf[from + i]
  <2> PICK m \in Nat \ {0} : m = from + 1
    OBVIOUS
  <2> PICK e \in Nat : e = from + k
    OBVIOUS
  <2> PICK part \in Seq(Data) : part = SubSeq(buf, m, e)
    BY PartOf
  <2>1. /\ Len(part) = IF m <= e THEN e - m + 1 ELSE 0
        /\ \A i \in 1 .. Len(part) : part[i] = buf[m + i - 1]
    BY PartOf
  <2>2. Len(part) = k
    BY <2>1
  <2>3. \A i \in 1 .. k : part[i] = buf[from + i]
    BY <2>1, <2>2
  <2> QED BY <2>2, <2>3
<1>0. /\ s \in Nat /\ o \in Nat /\ o2 \in Nat /\ pos \in Nat /\ k \in Nat /\ B \in Nat
      /\ from \in Nat /\ pos <= o /\ o <= B /\ o2 <= B /\ pos + k <= B
  BY <1>3
<1> PICK at : at = s + pos
  OBVIOUS
<1>01. at \in Nat /\ at \in 0 .. Len(text) /\ Len(text) = s + o
  BY ONLY <1>0, at = s + pos, Len(text) = s + o
<1> PICK over : over = Flat!Overwritten(text, at, part)
  OBVIOUS
<1>7. /\ over \in Seq(Data) /\ Len(over) = Larger(s + o, at + k)
      /\ \A y \in 1 .. Len(over) :
           over[y] = IF y <= at THEN text[y] ELSE IF y <= at + k THEN part[y - at] ELSE text[y]
  <2>1. LET ov == Flat!Overwritten(text, at, part)
        IN  /\ ov \in Seq(Data) /\ Len(ov) = Larger(Len(text), at + Len(part))
            /\ \A y \in 1 .. Len(ov) :
                 ov[y] = IF y <= at THEN text[y] ELSE IF y <= at + Len(part) THEN part[y - at] ELSE text[y]
    BY ONLY text \in Seq(Data), part \in Seq(Data), <1>01, OverwrittenIs, Zenon
  <2> QED BY ONLY <2>1, <1>01, over = Flat!Overwritten(text, at, part), Len(part) = k
<1>8. Len(over) = s + o2 /\ Len(over) = Size(list, new)
  <2>1. Larger(s + o, at + k) = s + o2
    BY ONLY <1>0, <1>3, at = s + pos DEF Larger
  <2> QED BY ONLY <1>6, <1>7, <2>1
<1>9. \A i \in 1 .. n : \A j \in 0 .. bs[list[i]].occupied - 1 :
        text[BlockStart(i) + j + 1] = bs[list[i]].memory[j]
  <2> SUFFICES ASSUME NEW i \in 1 .. Len(list), NEW j \in 0 .. bs[list[i]].occupied - 1
               PROVE  Text(list, bs)[BlockStart(i) + j + 1] = bs[list[i]].memory[j]
    OBVIOUS
  <2> QED BY ONLY TextOfBlock, Full(list, bs), list \in Seq(BlockIds), bs \in [BlockIds -> Block],
                  i \in 1 .. Len(list), j \in 0 .. bs[list[i]].occupied - 1
<1>10. ASSUME NEW i \in 1 .. n, NEW j \in 0 .. new[list[i]].occupied - 1
       PROVE  over[BlockStart(i) + j + 1] = new[list[i]].memory[j]
  <2>1. CASE i < n
    <3>1. new[list[i]] = bs[list[i]] /\ bs[list[i]].occupied \in 0 .. B
      BY <1>4, <2>1 DEF Block
    <3>2. i \in Nat \ {0} /\ i < n
      BY <2>1
    <3> PICK t \in Nat : t = BlockStart(i)
      BY <3>2, BlockStarts
    <3>3. t + B <= s
      BY <3>2, BlockStarts
    <3> PICK p \in 0 .. B : p = bs[list[i]].occupied
      BY <3>1
    <3>0. j \in 0 .. p - 1
      BY <3>1
    <3>4. j \in Nat /\ j < B
      BY ONLY <3>0, <1>0, p \in 0 .. B
    <3> PICK y : y = t + j + 1
      OBVIOUS
    <3>8. s <= Len(over) /\ Len(over) \in Nat
      BY ONLY <1>0, <1>8
    <3>5. y \in 1 .. Len(over) /\ y <= at
      <4> PICK e \in Nat : e = Len(over)
        BY <3>8
      <4>1. y \in Nat /\ 1 <= y /\ y <= s
        BY ONLY <1>0, <3>3, <3>4, y = t + j + 1, t \in Nat
      <4>2. y <= e /\ y <= at
        BY ONLY <1>0, <3>8, <4>1, at = s + pos, e = Len(over)
      <4> QED BY ONLY <4>1, <4>2, e = Len(over), e \in Nat
    <3>6. over[y] = text[y]
      BY ONLY <1>7, <3>5
    <3>7. text[y] = bs[list[i]].memory[j]
      BY <1>9, <3>0
    <3> QED BY <3>1, <3>6, <3>7
  <2>2. CASE i = n
    <3>1. new[list[i]] = block2 /\ j \in 0 .. o2 - 1
      BY <1>2, <1>4, <2>2
    <3>2. j \in Nat /\ j < o2 /\ j \in Offsets
      BY ONLY <1>0, <3>1, B = BLOCK_SIZE DEF Offsets
    <3> PICK y : y = s + j + 1
      OBVIOUS
    <3>3. y \in 1 .. Len(over)
      BY ONLY <1>0, <1>8, <3>2, y = s + j + 1
    <3>4. ASSUME j < o PROVE text[y] = block.memory[j]
      <4>1. j \in 0 .. o - 1
        BY ONLY <1>0, <3>2, <3>4
      <4>2. n \in 1 .. n /\ bs[list[n]].occupied = o
        OBVIOUS
      <4> QED BY <1>9, <4>1, <4>2
    <3>8. block2.memory[j] = IF j \in pos .. pos + k - 1
                               THEN buf[from + 1 + j - pos] ELSE block.memory[j]
      BY ONLY <1>2, <3>2
    <3>9. over[y] = IF y <= at THEN text[y] ELSE IF y <= at + k THEN part[y - at] ELSE text[y]
      BY ONLY <1>7, <3>3
    <3>5. CASE j < pos
      <4>1. y <= at /\ j < o /\ j \notin pos .. pos + k - 1
        BY ONLY <1>0, <3>2, <3>5, y = s + j + 1, at = s + pos
      <4> QED BY ONLY <2>2, <3>1, <3>4, <3>8, <3>9, <4>1, y = s + j + 1, s = BlockStart(n)
    <3>6. CASE pos <= j /\ j < pos + k
      <4> PICK l : l = j - pos + 1
        OBVIOUS
      <4>4. j \in pos .. pos + k - 1 /\ l \in 1 .. k /\ from + l = from + 1 + j - pos
        BY ONLY <1>0, <3>2, <3>6, l = j - pos + 1
      <4>5. ~(y <= at) /\ y <= at + k /\ y - at = l
        BY ONLY <1>0, <3>2, <3>6, l = j - pos + 1, y = s + j + 1, at = s + pos
      <4>1. /\ ~(y <= at) /\ y <= at + k /\ j \in pos .. pos + k - 1
            /\ y - at = l /\ l \in 1 .. k /\ from + l = from + 1 + j - pos
        BY <4>4, <4>5
      <4>2. over[y] = part[l]
        BY ONLY <3>9, <4>1
      <4>3. part[l] = buf[from + l]
        BY <4>1
      <4> QED BY ONLY <2>2, <3>1, <3>8, <4>1, <4>2, <4>3, y = s + j + 1, s = BlockStart(n)
    <3>7. CASE pos + k <= j
      <4>1. /\ ~(y <= at) /\ ~(y <= at + k) /\ j \notin pos .. pos + k - 1
            /\ o2 > pos + k
        BY ONLY <1>0, <3>2, <3>7, y = s + j + 1, at = s + pos
      <4>2. j < o
        BY ONLY <1>0, <1>3, <3>2, <4>1
      <4> QED BY ONLY <2>2, <3>1, <3>4, <3>8, <3>9, <4>1, <4>2, y = s + j + 1, s = BlockStart(n)
    <3> QED BY ONLY <1>0, <3>2, <3>5, <3>6, <3>7
  <2> QED BY <2>1, <2>2
<1>11. over = Text(list, new)
  <2>1. \A i \in 1 .. Len(list) : \A j \in 0 .. new[list[i]].occupied - 1 :
          over[BlockStart(i) + j + 1] = new[list[i]].memory[j]
    BY <1>10
  <2> QED BY ONLY <1>4, <1>5, <1>7, <1>8, <2>1, list \in Seq(BlockIds), TextEquals, Zenon
<1> QED BY <1>5, <1>11

\* A part of the bytes of a block of a list.
ReadInBlock(list, bs, i, pos, k) ==
  /\ list \in Seq(BlockIds) /\ bs \in [BlockIds -> Block] /\ Full(list, bs)
  /\ i \in 1 .. Len(list) /\ pos \in Nat /\ k \in Nat
  /\ pos + k <= bs[list[i]].occupied

\* The bytes of a part of a block are those of that part of the text.
LEMMA TextRead ==
  ASSUME NEW list, NEW bs, NEW i, NEW pos, NEW k, ReadInBlock(list, bs, i, pos, k)
  PROVE  /\ BlockStart(i) + pos + k <= Size(list, bs)
         /\ SubSeq(Text(list, bs), BlockStart(i) + pos + 1, BlockStart(i) + pos + k)
              = [j \in 1 .. k |-> bs[list[i]].memory[pos + j - 1]]
<1> USE DEF ReadInBlock
<1> PICK block \in Block : block = bs[list[i]]
  OBVIOUS
<1> PICK o \in Nat : o = block.occupied /\ o <= BLOCK_SIZE
  BY BlockSizePositive DEF Block
<1> PICK s \in Nat : s = BlockStart(i)
  BY BlockStarts, i \in Nat \ {0}
<1> PICK z \in Nat : z = Size(list, bs)
  BY TextIs
<1> PICK text \in Seq(Data) : text = Text(list, bs) /\ Len(text) = z
  BY TextIs
<1>1. \A j \in 0 .. o - 1 : s + j + 1 \in 1 .. z /\ text[s + j + 1] = block.memory[j]
  BY TextIs
<1>2. s + o <= z
  <2>1. CASE o = 0
    <3>1. CASE i < Len(list)
      <4>1. i \in 1 .. Len(list) - 1
        BY <3>1
      <4>2. o = BLOCK_SIZE
        BY ONLY <4>1, Full(list, bs), o = block.occupied, block = bs[list[i]] DEF Full
      <4> QED BY ONLY <2>1, <4>2, BlockSizePositive
    <3>2. CASE i = Len(list)
      <4>1. z = s + o
        BY <3>2 DEF Size
      <4> QED BY ONLY <4>1, s \in Nat, o \in Nat
    <3> QED BY <3>1, <3>2
  <2>2. CASE o > 0
    <3>1. o - 1 \in 0 .. o - 1
      BY <2>2
    <3>2. s + (o - 1) + 1 \in 1 .. z
      BY ONLY <1>1, <3>1
    <3> QED BY ONLY <3>2, s \in Nat, o \in Nat, z \in Nat
  <2> QED BY <2>1, <2>2
<1>0. s \in Nat /\ pos \in Nat /\ k \in Nat /\ o \in Nat /\ z \in Nat /\ pos + k <= o
      /\ o <= BLOCK_SIZE /\ BLOCK_SIZE \in Nat
  BY BlockSizePositive
<1>3. s + pos + k <= z
  BY ONLY <1>0, <1>2
<1> PICK m \in Nat \ {0} : m = s + pos + 1
  OBVIOUS
<1> PICK e \in Nat : e = s + pos + k
  OBVIOUS
<1> PICK part : part = SubSeq(text, m, e)
  OBVIOUS
<1>4. part \in Seq(Data) /\ Len(part) = (IF m <= e THEN e - m + 1 ELSE 0)
      /\ \A j \in 1 .. Len(part) : part[j] = text[m + j - 1]
  <2>1. e <= Len(text)
    BY <1>3
  <2> QED BY ONLY SMTT(30), <2>1, text \in Seq(Data), m \in Nat \ {0}, e \in Nat, PartOf,
                  part = SubSeq(text, m, e)
<1>5. Len(part) = k
  BY ONLY <1>0, <1>4, m = s + pos + 1, e = s + pos + k
<1> PICK chunk : chunk = [j \in 1 .. k |-> block.memory[pos + j - 1]]
  OBVIOUS
<1>6. \A j \in 1 .. k : /\ part[j] = chunk[j] /\ block.memory[pos + j - 1] \in Data
  <2> SUFFICES ASSUME NEW j \in 1 .. k
               PROVE  part[j] = chunk[j] /\ block.memory[pos + j - 1] \in Data
    OBVIOUS
  <2>1. pos + j - 1 \in 0 .. o - 1 /\ pos + j - 1 \in Offsets
    BY ONLY <1>0, j \in 1 .. k DEF Offsets
  <2>2. s + (pos + j - 1) + 1 = m + j - 1
    BY ONLY <1>0, j \in 1 .. k, m = s + pos + 1
  <2>3. text[m + j - 1] = block.memory[pos + j - 1]
    BY <1>1, <2>1, <2>2
  <2>4. part[j] = text[m + j - 1]
    BY <1>4, <1>5
  <2> QED BY <2>1, <2>3, <2>4 DEF Block
<1>7. chunk \in Seq(Data) /\ Len(chunk) = k
  <2>1. chunk \in [1 .. k -> Data]
    BY <1>6
  <2> QED BY ONLY <2>1, k \in Nat
<1>8. part = chunk
  BY ONLY <1>4, <1>5, <1>6, <1>7, SeqEqual
<1> QED BY <1>3, <1>8

-----------------------------------------------------------------------------
(* What the mapping sees of a state *)

\* A linked file has a name a caller can pass.
NamedByCallers == \A f \in file_list : files[f].name \in FileNames

\* Nothing is left in a struct file that is not allocated.
FreedEmpty == \A f \in FileIds \ live_files : files[f].num_blocks = 0

\* Only the last block of a file may have room: ufs_write adds a block behind
\* a full one only.
BlocksFull == \A f \in live_files : Full(files[f].block_list, blocks)

\* Calls read and write, and a read has put as many bytes in its buffer as it
\* counts.
CallKnown ==
  /\ call.op \in {"idle", "read", "write"}
  /\ call.op = "read" => call.done = Len(call.buf)

\* The invariant the refinement rests on.
FlatInv ==
  /\ IInv /\ NamesUnique
  /\ NamedByCallers /\ FreedEmpty /\ BlocksFull /\ CallKnown

\* The bytes of a file that is allocated; none of one that is not.
TextOf(f) == IF f \in live_files THEN Text(files[f].block_list, blocks) ELSE <<>>

\* What the three variables of FlatFS are in a state of the code.
ContentView == \A f \in FileIds : Contents(f) = TextOf(f)
LinkedView ==
  \A n \in FileNames : /\ Named(n) = {} => LinkedFile(n) = NULL
                       /\ \A f \in Named(n) : LinkedFile(n) = f
LiveView ==
  \A f \in FileIds : f \in live_files <=> \/ \E n \in FileNames : flat_linked[n] = f
                                          \/ \E i \in DOMAIN flat_opened : flat_opened[i].file = f

\* A file without blocks has no bytes.
LEMMA TextOfNoBlocks ==
  ASSUME NEW bs
  PROVE  Text(<<>>, bs) = <<>> /\ Full(<<>>, bs)
<1>1. Size(<<>>, bs) = 0
  BY DEF Size
<1>2. Text(<<>>, bs) = <<>>
  BY <1>1 DEF Text
<1> QED BY <1>2 DEF Full

\* Contents are the bytes of the blocks in the list.
LEMMA ContentViewHolds == FlatInv => ContentView
<1> SUFFICES ASSUME FlatInv, NEW f \in FileIds PROVE Contents(f) = TextOf(f)
  BY DEF ContentView
<1>1. CASE f \in live_files
  <2> PICK list \in Seq(BlockIds) : list = files[f].block_list
    BY <1>1, FileType DEF FlatInv
  <2>1. /\ files[f].num_blocks = Len(list)
        /\ files[f].last_block = IF list = <<>> THEN NULL ELSE list[Len(list)]
    BY <1>1 DEF FlatInv, IInv, BlocksAccounted
  <2>2. old_size(f) = Size(list, blocks)
    <3>1. CASE list = <<>>
      BY <2>1, <3>1 DEF old_size, Size
    <3>2. CASE list # <<>>
      <4>1. Len(list) # 0
        BY <3>2
      <4> QED BY <2>1, <3>2, <4>1 DEF old_size, Size, BlockStart
    <3> QED BY <3>1, <3>2
  <2>3. Contents(f) = Text(list, blocks)
    BY ONLY <2>2, list = files[f].block_list DEF Contents, Text
  <2> QED BY <1>1, <2>3 DEF TextOf
<1>2. CASE f \notin live_files
  <2>1. old_size(f) = 0
    BY <1>2 DEF FlatInv, FreedEmpty, old_size
  <2>2. Contents(f) = <<>>
    BY <2>1 DEF Contents
  <2> QED BY <1>2, <2>2 DEF TextOf
<1> QED BY <1>1, <1>2

\* A name leads to its file.
LEMMA LinkedViewHolds == FlatInv => LinkedView
<1> SUFFICES ASSUME FlatInv, NEW n \in FileNames
             PROVE  /\ Named(n) = {} => LinkedFile(n) = NULL
                    /\ \A f \in Named(n) : LinkedFile(n) = f
  BY DEF LinkedView
<1>1. Named(n) = {} => LinkedFile(n) = NULL
  BY DEF LinkedFile
<1>2. ASSUME NEW f \in Named(n) PROVE LinkedFile(n) = f
  <2>1. \A g \in Named(n) : g = f
    BY DEF Named, FlatInv, NamesUnique
  <2>2. LinkedFile(n) \in Named(n)
    <3>1. LinkedFile(n) = CHOOSE g \in Named(n) : TRUE
      BY DEF LinkedFile
    <3> QED BY <3>1
  <2> QED BY <2>1, <2>2
<1> QED BY <1>1, <1>2

\* The files that are allocated are those FlatFS keeps the bytes of.
LEMMA LiveViewHolds == FlatInv => LiveView
<1> SUFFICES ASSUME FlatInv, NEW f \in FileIds
             PROVE  f \in live_files <=> \/ \E n \in FileNames : flat_linked[n] = f
                                         \/ \E i \in DOMAIN flat_opened : flat_opened[i].file = f
  BY DEF LiveView
<1>1. ASSUME f \in file_list PROVE \E n \in FileNames : flat_linked[n] = f
  <2> PICK n \in FileNames : n = files[f].name
    BY <1>1 DEF FlatInv, NamedByCallers
  <2>1. f \in Named(n)
    BY <1>1 DEF Named
  <2>2. LinkedFile(n) = f
    BY <2>1, LinkedViewHolds DEF LinkedView
  <2> QED BY <2>2 DEF flat_linked
<1>2. ASSUME f \in live_files, f \notin file_list
      PROVE  \E i \in DOMAIN flat_opened : flat_opened[i].file = f
  <2>1. files[f].refs > 0 /\ files[f].refs = Cardinality(DescriptorsOf(f))
    BY <1>2 DEF FlatInv, IInv, FilesAccounted
  <2>2. DescriptorsOf(f) # {}
    BY <2>1, FS_EmptySet
  <2> PICK i \in OpenSlots : file_descriptors[i].file = f
    BY <2>2 DEF DescriptorsOf
  <2> QED BY DEF flat_opened, FlatFd
<1>3. ASSUME NEW n \in FileNames, flat_linked[n] = f PROVE f \in live_files
  <2>1. LinkedFile(n) = f /\ f # NULL
    BY <1>3, NullAssumption DEF flat_linked
  <2> PICK g \in Named(n) : TRUE
    BY <2>1, LinkedViewHolds DEF LinkedView
  <2>2. g = f
    BY <2>1, LinkedViewHolds DEF LinkedView
  <2> QED BY <2>2 DEF Named, FlatInv, IInv, FilesAccounted
<1>4. ASSUME NEW i \in DOMAIN flat_opened, flat_opened[i].file = f PROVE f \in live_files
  <2>1. i \in OpenSlots /\ file_descriptors[i].file = f
    BY <1>4 DEF flat_opened, FlatFd
  <2> QED BY <2>1 DEF FlatInv, IInv, DescriptorsAnchored, Anchored
<1> QED BY <1>1, <1>2, <1>3, <1>4

\* The views of the state after a step.
LEMMA ViewsHold ==
  ASSUME FlatInv, FlatInv'
  PROVE  /\ ContentView /\ ContentView'
         /\ LinkedView /\ LinkedView'
         /\ LiveView /\ LiveView'
BY ContentViewHolds, LinkedViewHolds, LiveViewHolds, PTL

-----------------------------------------------------------------------------
(* What steps leave in the mapping *)

\* Links that stay.
LEMMA LinkedSame ==
  ASSUME FlatInv, FlatInv', \A n \in FileNames : Named(n)' = Named(n)
  PROVE  flat_linked' = flat_linked
<1>1. \A n \in FileNames : LinkedFile(n)' = LinkedFile(n)
  BY ViewsHold DEF LinkedView
<1> QED BY <1>1 DEF flat_linked

\* Bytes that stay.
LEMMA ContentSame ==
  ASSUME FlatInv, FlatInv', \A f \in FileIds : TextOf(f)' = TextOf(f)
  PROVE  flat_content' = flat_content
<1>1. \A f \in FileIds : Contents(f)' = Contents(f)
  BY ViewsHold DEF ContentView
<1> QED BY <1>1 DEF flat_content

\* Descriptors that stay.
LEMMA OpenedSame ==
  ASSUME OpenSlots' = OpenSlots,
         \A i \in OpenSlots : FlatFd(file_descriptors'[i]) = FlatFd(file_descriptors[i])
  PROVE  flat_opened' = flat_opened
<1>1. \A i \in OpenSlots : FlatFd(file_descriptors[i])' = FlatFd(file_descriptors[i])
  BY DEF FlatFd, Position
<1> QED BY <1>1 DEF flat_opened

\* The bytes of a file are the same after the step.
TextKept(f) ==
  /\ Full(files'[f].block_list, blocks')
  /\ Text(files'[f].block_list, blocks') = Text(files[f].block_list, blocks)

\* They are when its blocks are.
LEMMA TextKeptUntouched ==
  ASSUME FlatInv, IInv', NEW f \in live_files, f \in live_files', Untouched(f),
         Len(files'[f].block_list) = Len(files[f].block_list)
  PROVE  TextKept(f)
<1> PICK list \in Seq(BlockIds) : list = files[f].block_list
  BY FileType DEF FlatInv
<1> PICK list2 \in Seq(BlockIds) : list2 = files'[f].block_list
  BY DEF IInv, TypeOK, File
<1>1. \A j \in 1 .. Len(list) : list2[j] = list[j] /\ blocks'[list[j]] = blocks[list[j]]
  BY DEF Untouched
<1>2. list2 = list
  BY <1>1, SeqEqual
<1>3. blocks \in [BlockIds -> Block] /\ blocks' \in [BlockIds -> Block] /\ Full(list, blocks)
  BY DEF FlatInv, IInv, TypeOK, BlocksFull
<1>4. Text(list, blocks') = Text(list, blocks) /\ Full(list, blocks')
  BY <1>1, <1>3, TextSame
<1> QED BY <1>2, <1>4 DEF TextKept

\* A new block behind the last one, if that is full, changes no bytes.
LEMMA TextKeptExtended ==
  ASSUME FlatInv, IInv', NEW f \in live_files, NEW b \in BlockIds, increase_file(f, b),
         NEW list \in Seq(BlockIds), list = files[f].block_list,
         list # <<>> => blocks[list[Len(list)]].occupied = BLOCK_SIZE
  PROVE  \A g \in live_files : TextKept(g)
<1>1. /\ files'[f].block_list = Append(list, b) /\ blocks'[b].occupied = 0
      /\ live_files' = live_files /\ \A g \in live_files : Untouched(g)
  BY IncreaseFile, UntouchedByIncrease DEF FlatInv
<1>2. blocks \in [BlockIds -> Block] /\ blocks' \in [BlockIds -> Block] /\ Full(list, blocks)
  BY DEF FlatInv, IInv, TypeOK, BlocksFull
<1>3. TextKept(f)
  <2>1. \A i \in 1 .. Len(list) : blocks'[list[i]] = blocks[list[i]]
    BY <1>1 DEF Untouched
  <2>2. Len(list) > 0 => blocks[list[Len(list)]].occupied = BLOCK_SIZE
    OBVIOUS
  <2>3. Text(Append(list, b), blocks') = Text(list, blocks) /\ Full(Append(list, b), blocks')
    BY <1>1, <1>2, <2>1, <2>2, TextExtended
  <2> QED BY <1>1, <2>3 DEF TextKept
<1>4. ASSUME NEW g \in live_files, g # f PROVE TextKept(g)
  <2>1. files'[g] = files[g]
    BY <1>4 DEF increase_file, FlatInv, IInv, TypeOK
  <2> QED BY <1>1, <2>1, TextKeptUntouched
<1> QED BY <1>3, <1>4

\* Freeing a file leaves the bytes of the others.
LEMMA TextKeptDeleted ==
  ASSUME FlatInv, IInv', NEW f \in live_files, delete_file(f)
  PROVE  live_files' = live_files \ {f} /\ \A g \in live_files \ {f} : TextKept(g)
<1>1. live_files' = live_files \ {f} /\ \A g \in live_files \ {f} : files'[g] = files[g]
  BY DeleteFile DEF FlatInv
<1>2. \A c \in BlockIds : c \notin BlocksOf(f) => blocks'[c] = blocks[c]
  BY DEF delete_file, Scrubbed
<1>3. ASSUME NEW g \in live_files \ {f} PROVE TextKept(g)
  <2>1. Untouched(g)
    BY <1>1, <1>2, UntouchedOthers DEF FlatInv
  <2> QED BY <1>1, <2>1, TextKeptUntouched
<1> QED BY <1>1, <1>3

\* Counting descriptors and marking a file deleted leaves all bytes.
LEMMA TextKeptRelabelled ==
  ASSUME FlatInv, IInv', NEW f \in FileIds, UNCHANGED <<live_files, heap>>,
         \/ \E refs \in Int : files' = [files EXCEPT ![f].refs = refs]
         \/ files' = [files EXCEPT ![f].deleted = TRUE]
  PROVE  \A g \in live_files : TextKept(g)
<1> SUFFICES ASSUME NEW g \in live_files PROVE TextKept(g)
  OBVIOUS
<1>1. Untouched(g)
  BY UntouchedByRelabel DEF FlatInv
<1>2. Len(files'[g].block_list) = Len(files[g].block_list)
  BY ListRelabelled DEF FlatInv
<1> QED BY <1>1, <1>2, TextKeptUntouched

-----------------------------------------------------------------------------
(* What each call does to the bytes *)

\* ufs_open of a file that is there leaves the bytes of all files.
LEMMA OpenExistingKeeps ==
  ASSUME FlatInv, IInv', NEW n \in FileNames, NEW flags \in OpenFlags, OpenExisting(n, flags)
  PROVE  live_files' = live_files /\ \A g \in live_files : TextKept(g)
<1> PICK f \in Named(n) : files' = [files EXCEPT ![f].refs = @ + 1]
  BY DEF OpenExisting
<1>1. f \in FileIds /\ files[f].refs + 1 \in Int
  BY DEF Named, FlatInv, IInv, TypeOK, File
<1> PICK refs \in Int : refs = files[f].refs + 1
  BY <1>1
<1>2. files' = [files EXCEPT ![f].refs = refs]
  OBVIOUS
<1>3. UNCHANGED <<live_files, heap>>
  BY DEF OpenExisting
<1> QED BY <1>1, <1>2, <1>3, TextKeptRelabelled

\* ufs_open of a new file adds one without bytes.
LEMMA OpenCreateKeeps ==
  ASSUME FlatInv, IInv', NEW n \in FileNames, NEW flags \in OpenFlags, OpenCreate(n, flags)
  PROVE  \E f \in FileIds \ live_files :
           /\ live_files' = live_files \cup {f} /\ file_list' = file_list \cup {f}
           /\ files'[f].name = n /\ files'[f].block_list = <<>>
           /\ \A g \in FileIds : g # f => files'[g] = files[g]
           /\ \A g \in live_files : TextKept(g)
           /\ insert_fd(new_fd(f, FdFlags(flags)))
<1> PICK f \in FileIds \ live_files :
        /\ files' = [files EXCEPT ![f] = [new_file(n) EXCEPT !.refs = 1]]
        /\ live_files' = live_files \cup {f} /\ file_list' = file_list \cup {f}
        /\ insert_fd(new_fd(f, FdFlags(flags)))
  BY DEF OpenCreate
<1>1. /\ files'[f].name = n /\ files'[f].block_list = <<>>
      /\ \A g \in FileIds : g # f => files'[g] = files[g]
  BY DEF FlatInv, IInv, TypeOK, new_file
<1>2. blocks' = blocks
  BY DEF OpenCreate, heap
<1>3. ASSUME NEW g \in live_files PROVE TextKept(g)
  <2>1. files'[g] = files[g]
    BY <1>1 DEF FlatInv, IInv, TypeOK
  <2> QED BY <1>2, <2>1 DEF TextKept, FlatInv, BlocksFull
<1> QED BY <1>1, <1>3

\* ufs_close frees at most a file nobody can get at; the bytes of the others stay.
LEMMA CloseKeeps ==
  ASSUME FlatInv, IInv', NEW i \in FdArguments, Close(i)
  PROVE  /\ live_files' \subseteq live_files /\ \A g \in live_files' : TextKept(g)
         /\ FreedEmpty'
<1> PICK f \in live_files : f = file_descriptors[i].file
  BY DEF Close, FlatInv, IInv, DescriptorsAnchored, Anchored
<1>1. f \in FileIds /\ files[f].refs - 1 \in Int /\ files \in [FileIds -> File]
  BY SMTT(30) DEF FlatInv, IInv, TypeOK, File
<1>2. CASE IsLastClose(f)
  <2>1. delete_file(f)
    BY <1>2 DEF Close
  <2>2. live_files' = live_files \ {f} /\ \A g \in live_files \ {f} : TextKept(g)
    BY <2>1, TextKeptDeleted
  <2>3. FreedEmpty'
    BY <1>1, <2>1, <2>2 DEF delete_file, FreedFile, new_file, FreedEmpty, FlatInv
  <2> QED BY <2>2, <2>3
<1>3. CASE ~IsLastClose(f)
  <2> PICK refs \in Int : refs = files[f].refs - 1
    BY <1>1
  <2>1. files' = [files EXCEPT ![f].refs = refs] /\ UNCHANGED <<live_files, heap>>
    BY <1>3 DEF Close
  <2>2. \A g \in live_files : TextKept(g)
    BY <1>1, <2>1, TextKeptRelabelled
  <2>3. FreedEmpty'
    BY <2>1, <1>1 DEF FreedEmpty, FlatInv
  <2> QED BY <2>1, <2>2, <2>3
<1> QED BY <1>2, <1>3

\* ufs_delete unlinks the file of the name and frees at most that one.
LEMMA DeleteKeeps ==
  ASSUME FlatInv, IInv', NEW n \in FileNames, Delete(n)
  PROVE  /\ \E f \in Named(n) : file_list' = file_list \ {f}
         /\ live_files' \subseteq live_files /\ \A g \in live_files' : TextKept(g)
         /\ FreedEmpty'
<1> PICK f \in Named(n) : /\ file_list' = file_list \ {f}
                          /\ IF IsClosed(f)
                               THEN delete_file(f)
                               ELSE /\ files' = [files EXCEPT ![f].deleted = TRUE]
                                    /\ UNCHANGED <<live_files, heap>>
  BY DEF Delete
<1>1. f \in FileIds /\ f \in live_files /\ files \in [FileIds -> File]
  BY DEF FlatInv, IInv, TypeOK, FilesAccounted, Named
<1>2. CASE IsClosed(f)
  <2>1. delete_file(f)
    BY <1>2
  <2>2. live_files' = live_files \ {f} /\ \A g \in live_files \ {f} : TextKept(g)
    BY <1>1, <2>1, TextKeptDeleted
  <2>3. FreedEmpty'
    BY <1>1, <2>1, <2>2 DEF delete_file, FreedFile, new_file, FreedEmpty, FlatInv
  <2> QED BY <2>2, <2>3
<1>3. CASE ~IsClosed(f)
  <2>1. files' = [files EXCEPT ![f].deleted = TRUE] /\ UNCHANGED <<live_files, heap>>
    BY <1>3
  <2>2. \A g \in live_files : TextKept(g)
    BY <1>1, <2>1, TextKeptRelabelled
  <2>3. FreedEmpty'
    BY <1>1, <2>1 DEF FreedEmpty, FlatInv
  <2> QED BY <2>1, <2>2, <2>3
<1> QED BY <1>2, <1>3

\* The first block of a file, which ufs_write adds, has no bytes.
LEMMA WriteBeginKeeps ==
  ASSUME FlatInv, IInv', NEW i \in FdArguments, NEW buf \in Buffers, WriteBegin(i, buf)
  PROVE  live_files' = live_files /\ \A g \in live_files : TextKept(g)
<1> PICK f \in live_files : f = file_descriptors[i].file
  BY DEF WriteBegin, FlatInv, IInv, DescriptorsAnchored, Anchored
<1> PICK list \in Seq(BlockIds) : list = files[f].block_list
  BY FileType DEF FlatInv
<1>1. \/ UNCHANGED store
      \/ list = <<>> /\ \E b \in BlockIds : increase_file(f, b)
  BY DEF WriteBegin
<1>2. CASE UNCHANGED store
  BY <1>2 DEF store, heap, TextKept, FlatInv, BlocksFull
<1>3. ASSUME NEW b \in BlockIds, list = <<>>, increase_file(f, b)
      PROVE  live_files' = live_files /\ \A g \in live_files : TextKept(g)
  <2>1. live_files' = live_files
    BY <1>3 DEF increase_file
  <2>2. \A g \in live_files : TextKept(g)
    BY <1>3, TextKeptExtended
  <2> QED BY <2>1, <2>2
<1> QED BY <1>1, <1>2, <1>3

\* ufs_write adds a block at the end of a full one only.
LEMMA WriteNextBlockKeeps ==
  ASSUME FlatInv, IInv', WriteNextBlock
  PROVE  live_files' = live_files /\ \A g \in live_files : TextKept(g)
<1> PICK fd \in FileDesc : fd = file_descriptors[call.fd]
  BY CallDescriptor DEF WriteNextBlock, FlatInv
<1>0. Anchored(fd) /\ InData(fd) /\ fd.curr_block # NULL /\ fd.curr_block \in BlockIds
      /\ blocks[fd.curr_block] \in Block
  BY CallDescriptor DEF WriteNextBlock, FlatInv
<1> PICK f \in live_files : f = fd.file
  BY <1>0 DEF Anchored
<1> PICK list \in Seq(BlockIds) : list = files[f].block_list
  BY FileType DEF FlatInv
<1>1. \/ UNCHANGED store
      \/ /\ NextBlock(f, fd.curr_block) = NULL
         /\ \E b \in BlockIds : increase_file(f, b)
  BY DEF WriteNextBlock
<1>2. CASE UNCHANGED store
  BY <1>2 DEF store, heap, TextKept, FlatInv, BlocksFull
<1>3. ASSUME NEW b \in BlockIds, NextBlock(f, fd.curr_block) = NULL, increase_file(f, b)
      PROVE  live_files' = live_files /\ \A g \in live_files : TextKept(g)
  <2>1. live_files' = live_files
    BY <1>3 DEF increase_file
  <2>2. fd.block_num = Len(list) /\ fd.curr_block = list[Len(list)]
    BY <1>0, <1>3, NextOfAnchored DEF FlatInv, Anchored
  <2>3. fd.block_pos = BLOCK_SIZE
    BY DEF WriteNextBlock
  <2>4. blocks[list[Len(list)]].occupied = BLOCK_SIZE
    <3>1. fd.block_pos <= blocks[fd.curr_block].occupied
      BY ONLY <1>0 DEF InData
    <3>2. blocks[fd.curr_block].occupied \in 0 .. BLOCK_SIZE
      BY ONLY <1>0 DEF Block
    <3>3. blocks[fd.curr_block].occupied = BLOCK_SIZE
      BY ONLY <2>3, <3>1, <3>2, BlockSizePositive
    <3> QED BY ONLY <2>2, <3>3
  <2>5. \A g \in live_files : TextKept(g)
    <3>1. list # <<>> => blocks[list[Len(list)]].occupied = BLOCK_SIZE
      BY ONLY <2>4
    <3> QED
      BY ONLY FlatInv, IInv', f \in live_files, b \in BlockIds, <1>3, list \in Seq(BlockIds),
              list = files[f].block_list, <3>1, TextKeptExtended, Zenon
  <2> QED BY <2>1, <2>5
<1> QED BY <1>1, <1>2, <1>3

\* What a descriptor of the call in progress is.
LEMMA CallFile ==
  ASSUME FlatInv, call.op \in {"read", "write"}
  PROVE  \E fd \in FileDesc, f \in live_files, list \in Seq(BlockIds) :
           /\ call.fd \in OpenSlots /\ fd = file_descriptors[call.fd]
           /\ f = fd.file /\ list = files[f].block_list
           /\ fd.block_num \in 1 .. Len(list) /\ fd.curr_block = list[fd.block_num]
           /\ fd.curr_block \in BlockIds /\ fd.curr_block # NULL
           /\ blocks[fd.curr_block] \in Block /\ Anchored(fd)
           /\ fd.block_pos \in Nat /\ fd.block_pos <= blocks[fd.curr_block].occupied
           /\ Full(list, blocks)
<1> PICK fd \in FileDesc : fd = file_descriptors[call.fd]
  BY CallDescriptor DEF FlatInv
<1>1. /\ Anchored(fd) /\ InData(fd) /\ call.fd \in OpenSlots
      /\ fd.curr_block # NULL /\ fd.curr_block \in BlockIds /\ blocks[fd.curr_block] \in Block
  BY CallDescriptor DEF FlatInv
<1> PICK f \in live_files : f = fd.file
  BY <1>1 DEF Anchored
<1> PICK list \in Seq(BlockIds) : list = files[f].block_list
  BY FileType DEF FlatInv
<1>2. fd.block_num \in 1 .. Len(list) /\ fd.curr_block = list[fd.block_num]
  BY <1>1 DEF Anchored
<1>3. fd.block_pos \in Nat /\ fd.block_pos <= blocks[fd.curr_block].occupied
  BY <1>1, BlockSizePositive DEF InData, FileDesc
<1>4. Full(list, blocks)
  BY DEF FlatInv, BlocksFull
<1> QED BY <1>1, <1>2, <1>3, <1>4

\* A chunk of ufs_write goes into the last block, or has no byte: any other
\* block is full.
LEMMA ChunkInLastBlock ==
  ASSUME FlatInv, WriteChunk,
         NEW fd \in FileDesc, NEW f \in live_files, NEW list \in Seq(BlockIds),
         fd = file_descriptors[call.fd], f = fd.file, list = files[f].block_list,
         NEW k, k = Smaller(call.size, FreeBytes(fd.curr_block))
  PROVE  /\ k \in Nat /\ k <= call.size /\ fd.block_pos + k <= BLOCK_SIZE
         /\ call.done \in Nat /\ call.size \in Nat
         /\ call.done + k <= Len(call.buf) /\ call.buf \in Seq(Data)
         /\ k # 0 => fd.block_num = Len(list)
<1>1. /\ fd.block_num \in 1 .. Len(list) /\ fd.curr_block = list[fd.block_num]
      /\ blocks[fd.curr_block] \in Block
      /\ fd.block_pos \in Nat /\ fd.block_pos <= blocks[fd.curr_block].occupied
      /\ Full(list, blocks)
  BY CallFile DEF WriteChunk
<1>0. blocks[fd.curr_block].occupied \in 0 .. BLOCK_SIZE
  BY <1>1 DEF Block
<1> PICK o \in Nat : o = blocks[fd.curr_block].occupied /\ o <= BLOCK_SIZE
  BY <1>0, BlockSizePositive
<1>2. call.done \in Nat /\ call.size \in Nat /\ call.buf \in Seq(Data)
      /\ call.done + call.size = Len(call.buf)
  BY DEF WriteChunk, FlatInv, IInv, TypeOK, CallAnchored, Call
<1>3. (k = call.size /\ k < BLOCK_SIZE - o) \/ (k = BLOCK_SIZE - o /\ k <= call.size)
  <2> PICK size \in Nat : size = call.size
    BY <1>2
  <2> PICK room : room = BLOCK_SIZE - o
    OBVIOUS
  <2>1. k = Smaller(size, room) /\ room \in Int
    BY BlockSizePositive DEF FreeBytes
  <2> QED BY <2>1 DEF Smaller
<1>4. k \in Nat /\ k <= call.size /\ fd.block_pos + k <= BLOCK_SIZE
  <2> PICK pos \in Nat : pos = fd.block_pos /\ pos <= o
    BY <1>1
  <2> QED BY <1>2, <1>3, BlockSizePositive
<1>5. call.done + k <= Len(call.buf)
  BY <1>2, <1>4
<1>6. ASSUME k # 0 PROVE fd.block_num = Len(list)
  <2> SUFFICES ASSUME fd.block_num # Len(list) PROVE FALSE
    OBVIOUS
  <2> PICK n : n = fd.block_num
    OBVIOUS
  <2>3. n \in 1 .. Len(list) /\ n # Len(list) /\ list[n] = fd.curr_block
    BY <1>1
  <2>1. n \in 1 .. Len(list) - 1
    BY ONLY <2>3, list \in Seq(BlockIds)
  <2>2. o = BLOCK_SIZE
    BY <1>1, <2>1, <2>3 DEF Full
  <2> QED BY <1>2, <1>3, <1>6, <2>2, BlockSizePositive
<1> QED BY <1>2, <1>4, <1>5, <1>6

\* A step of the loop of ufs_write does to the bytes of its file what FlatFS
\* says of the bytes written, and leaves those of the others.
LEMMA WriteChunkKeeps ==
  ASSUME FlatInv, IInv', WriteChunk,
         NEW fd \in FileDesc, NEW f \in live_files, NEW list \in Seq(BlockIds),
         fd = file_descriptors[call.fd], f = fd.file, list = files[f].block_list,
         NEW k, k = Smaller(call.size, FreeBytes(fd.curr_block))
  PROVE  /\ \A g \in live_files : g # f => TextKept(g)
         /\ k = 0 => TextKept(f)
         /\ Full(list, blocks')
         /\ k # 0 => Text(list, blocks') =
              Flat!Overwritten(Text(list, blocks), Position(fd),
                               SubSeq(call.buf, call.done + 1, call.done + k))
<1> PICK b \in BlockIds : b = fd.curr_block
  BY CallFile DEF WriteChunk
<1> PICK pos \in Nat : pos = fd.block_pos
  BY CallFile DEF WriteChunk
<1> PICK n \in Nat \ {0} : n = fd.block_num /\ n \in 1 .. Len(list)
  BY CallFile DEF WriteChunk
<1>1. /\ b = list[n] /\ blocks[b] \in Block /\ pos <= blocks[b].occupied
      /\ Full(list, blocks) /\ blocks \in [BlockIds -> Block]
  BY CallFile DEF WriteChunk, FlatInv, IInv, TypeOK
<1>2. /\ k \in Nat /\ pos + k <= BLOCK_SIZE /\ call.done \in Nat
      /\ call.done + k <= Len(call.buf) /\ call.buf \in Seq(Data)
      /\ k # 0 => n = Len(list)
  BY ChunkInLastBlock
<1> PICK buf \in Seq(Data) : buf = call.buf
  BY <1>2
<1> PICK from \in Nat : from = call.done
  BY <1>2
<1>3. blocks' = [blocks EXCEPT ![b] = Filled(blocks[b], pos, buf, from, k)]
      /\ UNCHANGED <<files, live_files>>
  BY DEF WriteChunk
<1>4. ASSUME NEW g \in live_files, g # f PROVE TextKept(g)
  <2>1. b \in BlocksOf(f)
    <3>1. n \in DOMAIN list
      OBVIOUS
    <3> QED BY <1>1, <3>1 DEF BlocksOf
  <2>2. \A c \in BlockIds : c \notin BlocksOf(f) => blocks'[c] = blocks[c]
    BY <1>1, <1>3, <2>1
  <2>3. Untouched(g)
    BY <1>3, <1>4, <2>2, UntouchedOthers DEF FlatInv
  <2> QED BY <1>3, <2>3, TextKeptUntouched
<1>5. CASE k = 0
  <2> PICK block \in Block : block = blocks[b]
    BY <1>1
  <2>1. Filled(block, pos, buf, from, 0) = block
    <3>0. block.occupied \in 0 .. BLOCK_SIZE /\ pos <= block.occupied
      BY <1>1 DEF Block
    <3> PICK o \in Nat : o = block.occupied /\ pos <= o
      BY <3>0, BlockSizePositive
    <3>1. Larger(o, pos + 0) = o
      BY DEF Larger
    <3>2. [j \in Offsets |-> IF j \in pos .. pos + 0 - 1
                               THEN buf[from + 1 + j - pos] ELSE block.memory[j]] = block.memory
      <4>1. \A j \in Offsets : j \notin pos .. pos + 0 - 1
        BY DEF Offsets
      <4>2. block.memory \in [Offsets -> Data]
        BY DEF Block
      <4> QED BY <4>1, <4>2
    <3> QED BY <3>1, <3>2 DEF Filled, Block
  <2>2. blocks' = blocks
    BY <1>1, <1>3, <1>5, <2>1
  <2>3. TextKept(f) /\ Full(list, blocks')
    BY <1>1, <1>3, <2>2 DEF TextKept
  <2> QED BY <1>4, <1>5, <2>3
<1>6. CASE k # 0
  <2>1. n = Len(list)
    BY <1>2, <1>6
  <2>2. \A i \in 1 .. n : list[i] = list[n] => i = n
    BY <2>1 DEF FlatInv, IInv, BlocksAccounted
  <2>3. /\ Text(list, blocks') = Flat!Overwritten(Text(list, blocks), BlockStart(n) + pos,
                                                  SubSeq(buf, from + 1, from + k))
        /\ Full(list, blocks')
    <3> PICK bs \in [BlockIds -> Block] : bs = blocks
      BY <1>1
    <3> PICK new : new = blocks'
      OBVIOUS
    <3>1. Full(list, bs) /\ pos <= bs[list[n]].occupied
      BY <1>1
    <3>2. k \in Nat /\ pos + k <= BLOCK_SIZE /\ from + k <= Len(buf)
      BY <1>2
    <3>3. new = [bs EXCEPT ![list[n]] = Filled(bs[list[n]], pos, buf, from, k)]
      BY <1>1, <1>3
    <3>5. new \in [BlockIds -> Block]
      BY DEF IInv, TypeOK
    <3>6. /\ new[list[n]] = Filled(bs[list[n]], pos, buf, from, k)
          /\ \A i \in 1 .. n : i < n => new[list[i]] = bs[list[i]]
      <4>1. list[n] \in BlockIds /\ \A i \in 1 .. n : list[i] \in BlockIds
        BY <2>1
      <4>2. \A i \in 1 .. n : i < n => list[i] # list[n]
        BY <2>2
      <4> QED BY ONLY <3>3, <4>1, <4>2, bs \in [BlockIds -> Block]
    <3>7. WrittenInLast(list, bs, n, pos, k, buf, from, new)
      BY <2>1, <3>1, <3>2, <3>5, <3>6 DEF WrittenInLast
    <3>4. /\ Text(list, new) = Flat!Overwritten(Text(list, bs), BlockStart(n) + pos,
                                               SubSeq(buf, from + 1, from + k))
          /\ Full(list, new)
      BY ONLY <3>7, TextWrite
    <3> QED BY <3>4
  <2>4. Position(fd) = BlockStart(n) + pos
    BY DEF Position, BlockStart
  <2> QED BY <1>4, <1>6, <2>3, <2>4
<1> QED BY <1>5, <1>6

\* How many bytes a step of the loop of ufs_read takes, and which.
ChunkSize(fd) == Smaller(call.size, Available(fd.curr_block, fd.block_pos))
ChunkBytes(fd) ==
  [j \in 1 .. ChunkSize(fd) |-> blocks[fd.curr_block].memory[fd.block_pos + j - 1]]

\* They are some bytes of its block.
LEMMA ChunkType ==
  ASSUME FlatInv, ReadChunk, NEW fd, fd = file_descriptors[call.fd],
         NEW k, k = ChunkSize(fd), NEW chunk, chunk = ChunkBytes(fd)
  PROVE  /\ k \in Nat /\ k > 0 /\ k <= call.size /\ call.size \in Nat
         /\ fd.block_pos + k <= blocks[fd.curr_block].occupied
         /\ chunk \in Seq(Data) /\ Len(chunk) = k
<1> PICK block \in Block : block = blocks[fd.curr_block]
  BY CallFile DEF ReadChunk
<1> PICK pos \in Nat : pos = fd.block_pos /\ pos <= block.occupied /\ pos # block.occupied
  BY CallFile DEF ReadChunk
<1>1. block.occupied \in 0 .. BLOCK_SIZE
  BY DEF Block
<1> PICK o \in Nat : o = block.occupied /\ o <= BLOCK_SIZE
  BY <1>1, BlockSizePositive
<1>2. call.size \in Nat /\ call.size > 0
  BY DEF ReadChunk, FlatInv, IInv, TypeOK, Call
<1> PICK size \in Nat : size = call.size /\ size > 0
  BY <1>2
<1>3. k = Smaller(size, o - pos)
  BY DEF Available, ChunkSize
<1>4. k \in Nat /\ k > 0 /\ k <= size /\ pos + k <= o
  <2> PICK room \in Nat : room = o - pos /\ room > 0
    OBVIOUS
  <2>1. (k = size /\ size < room) \/ (k = room /\ room <= size)
    BY <1>3 DEF Smaller
  <2> QED BY ONLY <2>1, size \in Nat, size > 0, o \in Nat, pos \in Nat, room = o - pos, room > 0
<1>5. \A j \in 1 .. k : block.memory[pos + j - 1] \in Data
  <2> SUFFICES ASSUME NEW j \in 1 .. k PROVE block.memory[pos + j - 1] \in Data
    OBVIOUS
  <2>1. pos + j - 1 \in Offsets
    BY <1>4, BlockSizePositive DEF Offsets
  <2> QED BY <2>1 DEF Block
<1>6. chunk \in [1 .. k -> Data]
  BY <1>5 DEF ChunkBytes
<1>7. chunk \in Seq(Data) /\ Len(chunk) = k
  BY ONLY <1>4, <1>6
<1> QED BY <1>4, <1>7

-----------------------------------------------------------------------------
(* The invariant *)

\* The first state satisfies it.
LEMMA InitFlatInv == Init => FlatInv
<1> SUFFICES ASSUME Init PROVE FlatInv
  OBVIOUS
<1>1. IInv
  BY InitIInv
<1>2. NamesUnique /\ NamedByCallers /\ BlocksFull
  BY DEF Init, NamesUnique, NamedByCallers, BlocksFull
<1>3. FreedEmpty
  BY DEF Init, FreedEmpty, FreedFile, new_file
<1>4. CallKnown
  BY DEF Init, CallKnown, Idle
<1> QED BY <1>1, <1>2, <1>3, <1>4 DEF FlatInv

\* Files are made under the names callers pass and keep them.
LEMMA NamedStep == FlatInv /\ IInv' /\ [Next]_vars => NamedByCallers'
<1> SUFFICES ASSUME FlatInv, IInv', [Next]_vars PROVE NamedByCallers'
  OBVIOUS
<1>1. NamesStay => NamedByCallers'
  BY DEF NamesStay, NamedByCallers, FlatInv
<1>2. UNCHANGED vars => NamesStay
  BY DEF vars, store, NamesStay
<1>3. ASSUME NEW n \in FileNames, NEW flags \in OpenFlags, OpenCreate(n, flags)
      PROVE  NamedByCallers'
  <2> PICK f \in FileIds \ live_files :
        /\ file_list' = file_list \cup {f} /\ files'[f].name = n
        /\ \A g \in FileIds : g # f => files'[g] = files[g]
    BY <1>3, OpenCreateKeeps
  <2> QED BY DEF NamedByCallers, FlatInv, IInv, TypeOK
<1>4. Begin => NamedByCallers'
  BY <1>1, <1>3, NamesStayInBegin DEF FlatInv
<1>5. Continue => NamedByCallers'
  BY <1>1, NamesStayInLoops DEF FlatInv
<1> QED BY <1>1, <1>2, <1>4, <1>5 DEF Next

\* What a step that leaves the store leaves.
LEMMA StoreKept ==
  ASSUME FlatInv, UNCHANGED store
  PROVE  /\ live_files' = live_files /\ \A g \in live_files : TextKept(g)
         /\ FreedEmpty'
BY DEF store, heap, TextKept, FlatInv, BlocksFull, FreedEmpty

\* Changing one file that is allocated leaves nothing in the others.
LEMMA FreedKept ==
  ASSUME FlatInv, NEW f \in FileIds, f \in live_files', live_files \subseteq live_files',
         \A g \in FileIds : g # f => files'[g] = files[g]
  PROVE  FreedEmpty'
BY DEF FreedEmpty, FlatInv

\* Every call and every step of a loop leaves all blocks but the last full,
\* and nothing in what is freed.
LEMMA BlocksFullInBegin ==
  ASSUME FlatInv, IInv', NewSizes = {}, Begin
  PROVE  BlocksFull' /\ FreedEmpty'
<1>1. ASSUME live_files' \subseteq live_files, \A g \in live_files' : TextKept(g)
      PROVE  BlocksFull'
  BY <1>1 DEF BlocksFull, TextKept
<1>2. ASSUME UNCHANGED store PROVE BlocksFull' /\ FreedEmpty'
  BY <1>1, <1>2, StoreKept
<1>3. ASSUME NEW n \in FileNames, NEW flags \in OpenFlags, OpenExisting(n, flags)
      PROVE  BlocksFull' /\ FreedEmpty'
  <2>1. live_files' = live_files /\ \A g \in live_files : TextKept(g)
    BY <1>3, OpenExistingKeeps
  <2> PICK f \in Named(n) : files' = [files EXCEPT ![f].refs = @ + 1]
    BY <1>3 DEF OpenExisting
  <2>2. f \in FileIds /\ f \in live_files /\ \A g \in FileIds : g # f => files'[g] = files[g]
    BY DEF Named, FlatInv, IInv, TypeOK, FilesAccounted
  <2> QED BY <1>1, <2>1, <2>2, FreedKept
<1>4. ASSUME NEW n \in FileNames, NEW flags \in OpenFlags, OpenCreate(n, flags)
      PROVE  BlocksFull' /\ FreedEmpty'
  <2> PICK f \in FileIds \ live_files :
        /\ live_files' = live_files \cup {f} /\ files'[f].block_list = <<>>
        /\ \A g \in FileIds : g # f => files'[g] = files[g]
        /\ \A g \in live_files : TextKept(g)
    BY <1>4, OpenCreateKeeps
  <2>1. Full(files'[f].block_list, blocks')
    BY TextOfNoBlocks
  <2>2. BlocksFull'
    BY <2>1 DEF BlocksFull, TextKept
  <2> QED BY <2>2, FreedKept
<1>5. ASSUME NEW i \in FdArguments, Close(i) PROVE BlocksFull' /\ FreedEmpty'
  BY <1>1, <1>5, CloseKeeps
<1>6. ASSUME NEW n \in FileNames, Delete(n) PROVE BlocksFull' /\ FreedEmpty'
  BY <1>1, <1>6, DeleteKeeps
<1>7. ASSUME NEW i \in FdArguments, NEW buf \in Buffers, WriteBegin(i, buf)
      PROVE  BlocksFull' /\ FreedEmpty'
  <2>1. live_files' = live_files /\ \A g \in live_files : TextKept(g)
    BY <1>7, WriteBeginKeeps
  <2>2. FreedEmpty'
    <3> PICK f \in live_files : f = file_descriptors[i].file
      BY <1>7 DEF WriteBegin, FlatInv, IInv, DescriptorsAnchored, Anchored
    <3>1. f \in FileIds
      BY DEF FlatInv, IInv, TypeOK
    <3>2. UNCHANGED files \/ \E b \in BlockIds : increase_file(f, b)
      BY <1>7 DEF WriteBegin, store
    <3>3. \A g \in FileIds : g # f => files'[g] = files[g]
      BY <3>1, <3>2 DEF increase_file, FlatInv, IInv, TypeOK
    <3> QED BY <2>1, <3>1, <3>3, FreedKept
  <2> QED BY <1>1, <2>1, <2>2
<1> QED
  BY <1>2, <1>3, <1>4, <1>5, <1>6, <1>7
  DEF Begin, OpenMissing, Fail, DeleteFails, CloseFails, ReadAtOnce, WriteFails, ReadBegin

\* The same of the loops.
LEMMA BlocksFullInLoops ==
  ASSUME FlatInv, IInv', Continue
  PROVE  BlocksFull' /\ FreedEmpty'
<1>1. ASSUME live_files' \subseteq live_files, \A g \in live_files' : TextKept(g)
      PROVE  BlocksFull'
  BY <1>1 DEF BlocksFull, TextKept
<1>2. ASSUME UNCHANGED store PROVE BlocksFull' /\ FreedEmpty'
  BY <1>1, <1>2, StoreKept
<1>3. CASE WriteNextBlock
  <2>1. live_files' = live_files /\ \A g \in live_files : TextKept(g)
    BY <1>3, WriteNextBlockKeeps
  <2>2. FreedEmpty'
    <3> PICK f \in live_files : f = file_descriptors[call.fd].file
      BY <1>3, CallFile DEF WriteNextBlock
    <3>1. f \in FileIds
      BY DEF FlatInv, IInv, TypeOK
    <3>2. UNCHANGED files \/ \E b \in BlockIds : increase_file(f, b)
      BY <1>3 DEF WriteNextBlock, store
    <3>3. \A g \in FileIds : g # f => files'[g] = files[g]
      BY <3>1, <3>2 DEF increase_file, FlatInv, IInv, TypeOK
    <3> QED BY <2>1, <3>1, <3>3, FreedKept
  <2> QED BY <1>1, <2>1, <2>2
<1>4. CASE WriteChunk
  <2> PICK fd \in FileDesc, f \in live_files, list \in Seq(BlockIds) :
        fd = file_descriptors[call.fd] /\ f = fd.file /\ list = files[f].block_list
    BY <1>4, CallFile DEF WriteChunk
  <2> PICK k : k = Smaller(call.size, FreeBytes(fd.curr_block))
    OBVIOUS
  <2>1. UNCHANGED <<files, live_files>>
    BY <1>4 DEF WriteChunk
  <2>2. Full(list, blocks') /\ \A g \in live_files : g # f => TextKept(g)
    BY <1>4, WriteChunkKeeps
  <2>3. BlocksFull'
    BY <2>1, <2>2 DEF BlocksFull, TextKept
  <2>4. FreedEmpty'
    BY <2>1 DEF FreedEmpty, FlatInv
  <2> QED BY <2>3, <2>4
<1>5. ~GrowBlock /\ ~GrowEnd
  BY DEF GrowBlock, GrowEnd, FlatInv, CallKnown
<1> QED
  BY <1>2, <1>3, <1>4, <1>5
  DEF Continue, WriteEnd, ReadNextBlock, ReadEof, ReadChunk, ReadEnd

\* Only reads and writes are begun, and a read counts the bytes it has.
LEMMA CallKnownStep == FlatInv /\ NewSizes = {} /\ [Next]_vars => CallKnown'
<1> SUFFICES ASSUME FlatInv, NewSizes = {}, [Next]_vars PROVE CallKnown'
  OBVIOUS
<1>1. call' = Idle => CallKnown'
  BY DEF CallKnown, Idle
<1>2. call' = call => CallKnown'
  BY DEF CallKnown, FlatInv
<1>3. ASSUME NEW f, NEW flags, insert_fd(new_fd(f, FdFlags(flags))) PROVE call' = Idle
  BY <1>3 DEF insert_fd, Return
<1>4. ASSUME NEW n \in FileNames, NEW flags \in OpenFlags,
             OpenExisting(n, flags) \/ OpenCreate(n, flags)
      PROVE  call' = Idle
  BY <1>3, <1>4 DEF OpenExisting, OpenCreate
<1>5. ASSUME NEW i \in FdArguments, NEW buf \in Buffers, WriteBegin(i, buf) PROVE CallKnown'
  BY <1>5 DEF WriteBegin, Start, CallKnown
<1>6. ASSUME NEW i \in FdArguments, NEW size \in ReadSizes, ReadBegin(i, size) PROVE CallKnown'
  BY <1>6 DEF ReadBegin, Start, CallKnown
<1>7. Begin => CallKnown'
  BY <1>1, <1>4, <1>5, <1>6
  DEF Begin, OpenMissing, Fail, Return, Delete, DeleteFails, Close, CloseFails, ReadAtOnce, WriteFails
<1>8. WriteChunk => CallKnown'
  <2> SUFFICES ASSUME WriteChunk PROVE CallKnown'
    OBVIOUS
  <2>1. call.op = "write" /\ call'.op = call.op
    BY DEF WriteChunk, FlatInv, IInv, TypeOK, Call
  <2> QED BY <2>1 DEF CallKnown
<1>9. ReadChunk => CallKnown'
  <2> SUFFICES ASSUME ReadChunk PROVE CallKnown'
    OBVIOUS
  <2> PICK fd \in FileDesc, f \in live_files, list \in Seq(BlockIds) :
        fd = file_descriptors[call.fd]
    BY CallFile DEF ReadChunk
  <2> PICK k : k = ChunkSize(fd)
    OBVIOUS
  <2> PICK chunk : chunk = ChunkBytes(fd)
    OBVIOUS
  <2>1. call' = [call EXCEPT !.buf = @ \o chunk, !.size = @ - k, !.done = @ + k]
    BY DEF ReadChunk, ChunkSize, ChunkBytes
  <2>2. call \in Call /\ call.op = "read" /\ call.done = Len(call.buf)
    BY DEF ReadChunk, FlatInv, IInv, TypeOK, CallKnown
  <2>3. call'.op = call.op /\ call'.buf = call.buf \o chunk /\ call'.done = call.done + k
    BY <2>1, <2>2 DEF Call
  <2>4. chunk \in Seq(Data) /\ Len(chunk) = k
    BY ChunkType
  <2>6. call.buf \in Seq(Data)
    BY <2>2 DEF Call
  <2>5. Len(call.buf \o chunk) = Len(call.buf) + Len(chunk)
    BY <2>4, <2>6, ConcatProperties
  <2> QED BY <2>2, <2>3, <2>4, <2>5 DEF CallKnown
<1>10. Continue => CallKnown'
  <2>1. ~GrowBlock /\ ~GrowEnd
    BY DEF GrowBlock, GrowEnd, FlatInv, CallKnown
  <2> QED
    BY <1>1, <1>2, <1>8, <1>9, <2>1
    DEF Continue, WriteNextBlock, WriteEnd, ReadNextBlock, ReadEof, ReadEnd, Return
<1>11. UNCHANGED vars => CallKnown'
  BY <1>2 DEF vars
<1> QED BY <1>7, <1>10, <1>11 DEF Next

\* Every step keeps the invariant.
LEMMA NextFlatInv == FlatInv /\ NewSizes = {} /\ [Next]_vars => FlatInv'
<1> SUFFICES ASSUME FlatInv, NewSizes = {}, [Next]_vars PROVE FlatInv'
  OBVIOUS
<1>1. IInv'
  BY NextIInv DEF FlatInv
<1>2. NamesUnique' /\ NamedByCallers' /\ CallKnown'
  BY <1>1, NamesUniqueStep, NamedStep, CallKnownStep DEF FlatInv
<1>3. BlocksFull' /\ FreedEmpty'
  <2>1. UNCHANGED vars => BlocksFull' /\ FreedEmpty'
    BY DEF vars, store, heap, FlatInv, BlocksFull, FreedEmpty
  <2> QED BY <1>1, <2>1, BlocksFullInBegin, BlocksFullInLoops DEF Next
<1> QED BY <1>1, <1>2, <1>3 DEF FlatInv

-----------------------------------------------------------------------------
(* Every step is one FlatFS allows *)

\* What FlatFS sees of an open descriptor.
LEMMA OpenedIs ==
  ASSUME NEW i \in OpenSlots
  PROVE  /\ i \in DOMAIN flat_opened /\ DOMAIN flat_opened = OpenSlots
         /\ flat_opened[i].file = file_descriptors[i].file
         /\ flat_opened[i].offset = Position(file_descriptors[i])
         /\ flat_opened[i].rw_flags = file_descriptors[i].rw_flags
BY DEF flat_opened, FlatFd

\* A call that adds no link is not the creation of a file.
LEMMA NotCreated ==
  ASSUME IInv, file_list' \subseteq file_list
  PROVE  \A n \in FileNames, flags \in OpenFlags : ~OpenCreate(n, flags)
BY DEF OpenCreate, IInv, FilesAccounted

\* The links stay when the list of files does.
LEMMA LinksStay ==
  ASSUME FlatInv, FlatInv', file_list' = file_list, Begin \/ Continue
  PROVE  flat_linked' = flat_linked
<1>1. NamesStay
  BY NotCreated, NamesStayInBegin, NamesStayInLoops DEF FlatInv
<1>2. \A n \in FileNames : Named(n)' = Named(n)
  BY <1>1 DEF NamesStay, Named
<1> QED BY <1>2, LinkedSame

\* The contents stay when the bytes of all files do.
LEMMA ContentsKept ==
  ASSUME FlatInv, FlatInv', live_files' = live_files, \A g \in live_files : TextKept(g)
  PROVE  flat_content' = flat_content
<1>1. \A f \in FileIds : TextOf(f)' = TextOf(f)
  BY DEF TextOf, TextKept
<1> QED BY <1>1, ContentSame

\* When files are freed, the contents kept are those of the others.
LEMMA ContentsFreed ==
  ASSUME FlatInv, FlatInv', live_files' \subseteq live_files, \A g \in live_files' : TextKept(g)
  PROVE  flat_content' = Flat!Kept(flat_content)
<1>1. \A f \in FileIds : flat_content'[f] = IF f \in live_files' THEN flat_content[f] ELSE <<>>
  <2>1. \A f \in FileIds : Contents(f)' = TextOf(f)' /\ Contents(f) = TextOf(f)
    BY ViewsHold DEF ContentView
  <2>2. \A f \in FileIds : TextOf(f)' = IF f \in live_files' THEN TextOf(f) ELSE <<>>
    BY DEF TextOf, TextKept
  <2> QED BY <2>1, <2>2 DEF flat_content
<1>2. \A f \in FileIds : f \in live_files' <=> \/ \E n \in FileNames : flat_linked'[n] = f
                                               \/ \E i \in DOMAIN flat_opened' : flat_opened'[i].file = f
  BY ViewsHold DEF LiveView
<1>3. flat_content' = [f \in FileIds |-> flat_content'[f]]
  BY DEF flat_content
<1>4. flat_content' = [f \in FileIds |-> IF f \in live_files' THEN flat_content[f] ELSE <<>>]
  BY ONLY <1>1, <1>3
<1> QED BY ONLY <1>2, <1>4 DEF Flat!Kept

\* A step that changes neither files nor descriptors.
LEMMA AllKept ==
  ASSUME FlatInv, FlatInv', UNCHANGED <<store, table>>
  PROVE  flat_linked' = flat_linked /\ flat_content' = flat_content /\ flat_opened' = flat_opened
<1>1. \A n \in FileNames : Named(n)' = Named(n)
  BY DEF Named, store
<1>2. flat_linked' = flat_linked
  BY <1>1, LinkedSame
<1>3. flat_content' = flat_content
  BY StoreKept, ContentsKept
<1>4. flat_opened' = flat_opened
  <2>1. OpenSlots' = OpenSlots
    BY DEF OpenSlots, table
  <2> QED BY <2>1, OpenedSame DEF table
<1> QED BY <1>2, <1>3, <1>4

\* A call that fails changes nothing FlatFS knows of but the result.
LEMMA FailFlat ==
  ASSUME FlatInv, FlatInv', call = Idle, NEW errcode, Fail(errcode)
  PROVE  Flat!Fails
<1>1. flat_linked' = flat_linked /\ flat_content' = flat_content /\ flat_opened' = flat_opened
  BY AllKept DEF Fail
<1>2. call' = Idle /\ ret' = -1
  BY DEF Fail, Return
<1> QED BY <1>1, <1>2 DEF Flat!Fails, Flat!Return, Flat!Idle, Idle

\* insert_fd puts the descriptor in a free slot and returns its number.
LEMMA Inserted ==
  ASSUME IInv, NEW fd \in FileDesc, insert_fd(fd)
  PROVE  /\ ret' \in Nat \ {0} /\ ret' \notin OpenSlots
         /\ OpenSlots' = OpenSlots \cup {ret'} /\ file_descriptors'[ret'] = fd
         /\ \A s \in OpenSlots : file_descriptors'[s] = file_descriptors[s]
         /\ call' = Idle
<1> PICK t : t = RoomyTable
  OBVIOUS
<1> PICK free : free = {i \in DOMAIN t : t[i] = NULL}
  OBVIOUS
<1>1. /\ t \in Seq(FileDesc \cup {NULL})
      /\ {i \in DOMAIN t : t[i] # NULL} = OpenSlots
  BY RoomyTableType
<1>2. OpenSlots' # OpenSlots
  BY InsertFd
<1>3. free # {}
  <2> SUFFICES ASSUME free = {} PROVE FALSE
    OBVIOUS
  <2>1. file_descriptors' = t
    BY DEF insert_fd
  <2>2. OpenSlots' = OpenSlots
    BY <1>1, <2>1 DEF OpenSlots
  <2> QED BY <1>2, <2>2
<1> PICK i \in free : /\ file_descriptors' = [t EXCEPT ![i] = fd] /\ Return(i, "UFS_ERR_NO_ERR")
  BY <1>3 DEF insert_fd
<1>4. ret' = i /\ call' = Idle
  BY DEF Return
<1>5. i \in Nat \ {0} /\ i \notin OpenSlots /\ i \in DOMAIN t
  BY <1>1
<1>6. file_descriptors'[i] = fd /\ fd # NULL
  BY <1>1, <1>5, NullAssumption
<1>7. OpenSlots' = OpenSlots \cup {i}
  BY <1>1, <1>5, <1>6 DEF OpenSlots
<1>8. \A s \in OpenSlots : file_descriptors'[s] = file_descriptors[s]
  BY InsertFd
<1> QED BY <1>4, <1>5, <1>6, <1>7, <1>8

\* What opening a file is to FlatFS, given the file.
LEMMA OpenedFlat ==
  ASSUME FlatInv, NEW f \in FileIds, NEW flags \in OpenFlags,
         insert_fd(new_fd(f, FdFlags(flags)))
  PROVE  /\ call' = Idle /\ ret' > 0 /\ ret' \notin DOMAIN flat_opened
         /\ DOMAIN flat_opened' = DOMAIN flat_opened \cup {ret'}
         /\ \A i \in DOMAIN flat_opened : flat_opened'[i] = flat_opened[i]
         /\ flat_opened'[ret'].file = f /\ flat_opened'[ret'].offset = 0
<1> PICK fd \in FileDesc : fd = new_fd(f, FdFlags(flags))
  BY NewFdType, InputAssumption
<1>1. /\ ret' \in Nat \ {0} /\ ret' \notin OpenSlots
      /\ OpenSlots' = OpenSlots \cup {ret'} /\ file_descriptors'[ret'] = fd
      /\ \A s \in OpenSlots : file_descriptors'[s] = file_descriptors[s]
      /\ call' = Idle
  BY Inserted DEF FlatInv
<1>2. DOMAIN flat_opened = OpenSlots /\ DOMAIN flat_opened' = OpenSlots'
  BY DEF flat_opened
<1>3. \A i \in OpenSlots' : flat_opened'[i] = FlatFd(file_descriptors'[i])
  BY DEF flat_opened, FlatFd, Position
<1>4. \A i \in OpenSlots : flat_opened[i] = FlatFd(file_descriptors[i])
  BY DEF flat_opened
<1>5. FlatFd(fd).file = f /\ FlatFd(fd).offset = 0
  BY DEF FlatFd, Position, new_fd
<1> QED BY <1>1, <1>2, <1>3, <1>4, <1>5

\* ufs_open of a file that is there.
LEMMA OpenExistingFlat ==
  ASSUME FlatInv, FlatInv', NEW n \in FileNames, NEW flags \in OpenFlags,
         OpenExisting(n, flags)
  PROVE  Flat!Open(n)
<1> PICK f \in Named(n) : insert_fd(new_fd(f, FdFlags(flags)))
  BY DEF OpenExisting
<1>1. f \in FileIds /\ call = Idle /\ file_list' = file_list
  BY DEF OpenExisting, Named, FlatInv, IInv, TypeOK
<1>2. flat_linked' = flat_linked
  BY <1>1, LinksStay DEF Begin
<1>3. flat_content' = flat_content
  BY OpenExistingKeeps, ContentsKept DEF FlatInv
<1>4. flat_linked[n] = f
  BY ViewsHold DEF LinkedView, flat_linked
<1>5. flat_linked' = [flat_linked EXCEPT ![n] = f]
  BY <1>2, <1>4 DEF flat_linked
<1>6. /\ call' = Idle /\ ret' > 0 /\ ret' \notin DOMAIN flat_opened
      /\ DOMAIN flat_opened' = DOMAIN flat_opened \cup {ret'}
      /\ \A i \in DOMAIN flat_opened : flat_opened'[i] = flat_opened[i]
      /\ flat_opened'[ret'].file = f /\ flat_opened'[ret'].offset = 0
  BY <1>1, OpenedFlat
<1>7. call = Flat!Idle
  BY <1>1 DEF Flat!Idle, Idle
<1> QED BY <1>1, <1>3, <1>4, <1>5, <1>6, <1>7 DEF Flat!Open

\* ufs_open of a new file: at an address nobody holds.
LEMMA OpenCreateFlat ==
  ASSUME FlatInv, FlatInv', NEW n \in FileNames, NEW flags \in OpenFlags,
         OpenCreate(n, flags)
  PROVE  Flat!Open(n)
<1> PICK f \in FileIds \ live_files :
        /\ live_files' = live_files \cup {f} /\ file_list' = file_list \cup {f}
        /\ files'[f].name = n /\ files'[f].block_list = <<>>
        /\ \A g \in FileIds : g # f => files'[g] = files[g]
        /\ \A g \in live_files : TextKept(g)
        /\ insert_fd(new_fd(f, FdFlags(flags)))
  BY OpenCreateKeeps DEF FlatInv
<1>1. call = Idle /\ Named(n) = {} /\ file_list \subseteq live_files /\ live_files \subseteq FileIds
  BY DEF OpenCreate, FlatInv, IInv, FilesAccounted, TypeOK
<1>2. flat_content' = flat_content
  <2>1. Text(files'[f].block_list, blocks') = <<>>
    BY TextOfNoBlocks
  <2>2. \A g \in FileIds : TextOf(g)' = TextOf(g)
    BY <2>1 DEF TextOf, TextKept
  <2> QED BY <2>2, ContentSame
<1>3. flat_linked[n] = NULL
  BY <1>1, ViewsHold DEF LinkedView, flat_linked
<1>4. flat_linked' = [flat_linked EXCEPT ![n] = f]
  <2>1. f \in Named(n)'
    BY DEF Named
  <2>2. LinkedFile(n)' = f
    BY <2>1, ViewsHold DEF LinkedView
  <2>3. \A m \in FileNames : m # n => Named(m)' = Named(m)
    BY <1>1 DEF Named
  <2>4. \A m \in FileNames : m # n => LinkedFile(m)' = LinkedFile(m)
    BY <2>3, ViewsHold DEF LinkedView
  <2> QED BY <2>2, <2>4 DEF flat_linked
<1>5. /\ \A m \in FileNames : flat_linked[m] # f
      /\ \A i \in DOMAIN flat_opened : flat_opened[i].file # f
  BY ViewsHold DEF LiveView
<1>6. /\ call' = Idle /\ ret' > 0 /\ ret' \notin DOMAIN flat_opened
      /\ DOMAIN flat_opened' = DOMAIN flat_opened \cup {ret'}
      /\ \A i \in DOMAIN flat_opened : flat_opened'[i] = flat_opened[i]
      /\ flat_opened'[ret'].file = f /\ flat_opened'[ret'].offset = 0
  BY OpenedFlat
<1>7. call = Flat!Idle
  BY <1>1 DEF Flat!Idle, Idle
<1> QED BY <1>1, <1>2, <1>3, <1>4, <1>5, <1>6, <1>7 DEF Flat!Open, Flat!FileOf

\* ufs_close.
LEMMA CloseFlat ==
  ASSUME FlatInv, FlatInv', NEW i \in FdArguments, Close(i)
  PROVE  i \in DOMAIN flat_opened /\ Flat!Close(i)
<1>1. call = Idle /\ call' = Idle /\ ret' = 0 /\ i \in OpenSlots /\ file_list' = file_list
  BY DEF Close, Return
<1>2. flat_linked' = flat_linked
  BY <1>1, LinksStay DEF Begin
<1>3. flat_content' = Flat!Kept(flat_content)
  BY CloseKeeps, ContentsFreed DEF FlatInv
<1>4. flat_opened' = [j \in DOMAIN flat_opened \ {i} |-> flat_opened[j]]
  <2>1. OpenSlots' = OpenSlots \ {i} /\ \A s \in OpenSlots' : file_descriptors'[s] = file_descriptors[s]
    BY <1>1, ClearSlot DEF Close, FlatInv
  <2>2. \A s \in OpenSlots' : FlatFd(file_descriptors[s])' = FlatFd(file_descriptors[s])
    BY <2>1 DEF FlatFd, Position
  <2> QED BY <2>1, <2>2 DEF flat_opened
<1>5. i \in DOMAIN flat_opened
  BY <1>1, OpenedIs
<1>6. call = Flat!Idle /\ call' = Flat!Idle
  BY <1>1 DEF Flat!Idle, Idle
<1> QED BY <1>1, <1>2, <1>3, <1>4, <1>5, <1>6 DEF Flat!Close, Flat!Return

\* ufs_delete.
LEMMA DeleteFlat ==
  ASSUME FlatInv, FlatInv', NEW n \in FileNames, Delete(n)
  PROVE  Flat!Delete(n)
<1> PICK f \in Named(n) : file_list' = file_list \ {f}
  BY DEF Delete
<1>1. call = Idle /\ call' = Idle /\ ret' = 0 /\ UNCHANGED table
  BY DEF Delete, Return
<1>2. NamesStay
  BY NotCreated, NamesStayInBegin DEF FlatInv, Begin
<1>3. flat_linked[n] = f /\ f # NULL
  BY ViewsHold, NullAssumption DEF LinkedView, flat_linked, Named, FlatInv, IInv, TypeOK
<1>4. flat_linked' = [flat_linked EXCEPT ![n] = NULL]
  <2>1. Named(n)' = {}
    <3>1. \A g \in Named(n) : g = f
      BY DEF Named, FlatInv, NamesUnique
    <3> QED BY <1>2, <3>1 DEF Named, NamesStay
  <2>2. LinkedFile(n)' = NULL
    BY <2>1, ViewsHold DEF LinkedView
  <2>3. \A m \in FileNames : m # n => Named(m)' = Named(m)
    BY <1>2 DEF Named, NamesStay
  <2>4. \A m \in FileNames : m # n => LinkedFile(m)' = LinkedFile(m)
    BY <2>3, ViewsHold DEF LinkedView
  <2> QED BY <2>2, <2>4 DEF flat_linked
<1>5. flat_content' = Flat!Kept(flat_content)
  BY DeleteKeeps, ContentsFreed DEF FlatInv
<1>6. flat_opened' = flat_opened
  <2>1. OpenSlots' = OpenSlots
    BY <1>1 DEF OpenSlots, table
  <2> QED BY <1>1, <2>1, OpenedSame DEF table
<1>7. call = Flat!Idle /\ call' = Flat!Idle
  BY <1>1 DEF Flat!Idle, Idle
<1> QED BY <1>1, <1>3, <1>4, <1>5, <1>6, <1>7 DEF Flat!Delete, Flat!Return

\* A descriptor without a block and one at the start of the first are one to
\* FlatFS, and so are the end of a block and the start of the next.
LEMMA SamePlace ==
  ASSUME NEW fd \in FileDesc, NEW b \in BlockIds
  PROVE  /\ fd.block_num = 0 /\ fd.block_pos = 0 =>
              AtFirstBlock(fd, b) \in FileDesc /\ FlatFd(AtFirstBlock(fd, b)) = FlatFd(fd)
         /\ fd.block_num # 0 /\ fd.block_pos = BLOCK_SIZE =>
              AtNextBlock(fd, b) \in FileDesc /\ FlatFd(AtNextBlock(fd, b)) = FlatFd(fd)
<1> PICK n \in Nat : n = fd.block_num
  BY DEF FileDesc
<1>1. ASSUME n = 0, fd.block_pos = 0
      PROVE  AtFirstBlock(fd, b) \in FileDesc /\ FlatFd(AtFirstBlock(fd, b)) = FlatFd(fd)
  <2> PICK new : new = AtFirstBlock(fd, b)
    OBVIOUS
  <2>1. /\ new \in FileDesc /\ new.file = fd.file /\ new.rw_flags = fd.rw_flags
        /\ new.block_num = 1 /\ new.block_pos = fd.block_pos
    BY DEF AtFirstBlock, FileDesc
  <2>2. (1 - 1) * BLOCK_SIZE + 0 = 0
    BY BlockSizePositive
  <2>3. Position(new) = 0 /\ Position(fd) = 0
    BY <1>1, <2>1, <2>2 DEF Position
  <2> QED BY <2>1, <2>3 DEF FlatFd
<1>2. ASSUME n # 0, fd.block_pos = BLOCK_SIZE
      PROVE  AtNextBlock(fd, b) \in FileDesc /\ FlatFd(AtNextBlock(fd, b)) = FlatFd(fd)
  <2> PICK new : new = AtNextBlock(fd, b)
    OBVIOUS
  <2> PICK m : m = n + 1
    OBVIOUS
  <2>1. new = [fd EXCEPT !.curr_block = b, !.block_num = m, !.block_pos = 0]
    BY DEF AtNextBlock
  <2>2. /\ new \in FileDesc /\ new.file = fd.file /\ new.rw_flags = fd.rw_flags
        /\ new.block_num = m /\ new.block_pos = 0
    <3>1. m \in Nat /\ 0 \in 0 .. BLOCK_SIZE
      BY BlockSizePositive
    <3> QED BY <2>1, <3>1 DEF FileDesc
  <2>3. Position(new) = BlockStart(m) + 0 /\ Position(fd) = BlockStart(n) + BLOCK_SIZE
    BY <1>2, <2>2 DEF Position, BlockStart
  <2>4. BlockStart(n) \in Nat /\ BlockStart(m) = BlockStart(n) + BLOCK_SIZE
    BY <1>2, n \in Nat \ {0}, BlockStarts
  <2>5. Position(new) = Position(fd)
    BY <2>3, <2>4, BlockSizePositive
  <2> QED BY <2>2, <2>5 DEF FlatFd
<1> QED BY <1>1, <1>2

\* A step that sets a descriptor to the same place.
LEMMA MovedFlat ==
  ASSUME FlatInv, NEW i \in OpenSlots, NEW fd \in FileDesc, SetFd(i, fd),
         FlatFd(fd) = FlatFd(file_descriptors[i])
  PROVE  flat_opened' = flat_opened
<1>1. fd.file = file_descriptors[i].file
  BY DEF FlatFd
<1>2. /\ OpenSlots' = OpenSlots
      /\ \A s \in OpenSlots :
           file_descriptors'[s] = IF s = i THEN fd ELSE file_descriptors[s]
  BY <1>1, SetFdTable DEF FlatInv
<1> QED BY <1>2, OpenedSame

\* A step that moves it on.
LEMMA AdvancedFlat ==
  ASSUME FlatInv, NEW i \in OpenSlots, NEW fd \in FileDesc, fd = file_descriptors[i],
         fd.block_num # 0, NEW k \in Nat, fd.block_pos + k <= BLOCK_SIZE,
         SetFd(i, [fd EXCEPT !.block_pos = @ + k])
  PROVE  flat_opened' = [flat_opened EXCEPT ![i].offset = @ + k]
<1> PICK p : p = fd.block_pos + k
  OBVIOUS
<1> PICK new : new = [fd EXCEPT !.block_pos = p]
  OBVIOUS
<1>1. p \in 0 .. BLOCK_SIZE /\ fd.block_pos \in Nat
  BY BlockSizePositive DEF FileDesc
<1>2. /\ new \in FileDesc /\ new.file = fd.file /\ new.rw_flags = fd.rw_flags
      /\ new.block_num = fd.block_num /\ new.block_pos = p
  BY <1>1 DEF FileDesc
<1>3. SetFd(i, new)
  OBVIOUS
<1>4. /\ OpenSlots' = OpenSlots
      /\ \A s \in OpenSlots :
           file_descriptors'[s] = IF s = i THEN new ELSE file_descriptors[s]
  BY <1>2, <1>3, SetFdTable DEF FlatInv
<1> PICK n \in Nat \ {0} : n = fd.block_num
  BY DEF FileDesc
<1>5. Position(new) = Position(fd) + k
  <2>1. Position(new) = BlockStart(n) + p /\ Position(fd) = BlockStart(n) + fd.block_pos
    BY <1>2 DEF Position, BlockStart
  <2>2. BlockStart(n) \in Nat
    BY BlockStarts
  <2> QED BY <1>1, <2>1, <2>2
<1>6. FlatFd(new) = [FlatFd(fd) EXCEPT !.offset = @ + k]
  BY <1>2, <1>5 DEF FlatFd
<1>7. \A s \in OpenSlots : FlatFd(file_descriptors[s])' = FlatFd(file_descriptors'[s])
  BY DEF FlatFd, Position
<1>8. \A s \in OpenSlots : FlatFd(file_descriptors[s])' =
        IF s = i THEN [FlatFd(fd) EXCEPT !.offset = @ + k] ELSE FlatFd(file_descriptors[s])
  BY <1>4, <1>6, <1>7
<1> QED BY <1>4, <1>8 DEF flat_opened

\* ufs_write up to its loop.
LEMMA WriteBeginFlat ==
  ASSUME FlatInv, FlatInv', NEW i \in FdArguments, NEW buf \in Buffers, WriteBegin(i, buf)
  PROVE  i \in DOMAIN flat_opened /\ Flat!WriteBegin(i, buf)
<1>1. i \in OpenSlots /\ call = Idle /\ Start("write", i, buf, Len(buf))
  BY DEF WriteBegin
<1> PICK fd \in FileDesc : fd = file_descriptors[i]
  BY <1>1, OpenSlotType DEF FlatInv, IInv
<1>2. MayWrite(fd) /\ Anchored(fd) /\ fd.file \in live_files
  BY <1>1 DEF WriteBegin, FlatInv, IInv, DescriptorsAnchored, Anchored
<1>3. file_list' = file_list
  BY DEF WriteBegin, increase_file, store
<1>4. flat_linked' = flat_linked
  BY <1>3, LinksStay DEF Begin
<1>5. flat_content' = flat_content
  BY WriteBeginKeeps, ContentsKept DEF FlatInv
<1>6. flat_opened' = flat_opened
  <2>1. \/ UNCHANGED table
        \/ fd.curr_block = NULL /\ \E b \in BlockIds : SetFd(i, AtFirstBlock(fd, b))
    <3>1. files[fd.file].block_list # <<>> => files[fd.file].block_list[1] \in BlockIds
      BY <1>2, FileType DEF FlatInv
    <3> QED BY <3>1 DEF WriteBegin
  <2>2. CASE UNCHANGED table
    <3>1. OpenSlots' = OpenSlots
      BY <2>2 DEF OpenSlots, table
    <3> QED BY <2>2, <3>1, OpenedSame DEF table
  <2>3. ASSUME NEW b \in BlockIds, fd.curr_block = NULL, SetFd(i, AtFirstBlock(fd, b))
        PROVE  flat_opened' = flat_opened
    <3>1. fd.block_num = 0 /\ fd.block_pos = 0
      BY <1>2, <2>3 DEF Anchored
    <3>2. AtFirstBlock(fd, b) \in FileDesc /\ FlatFd(AtFirstBlock(fd, b)) = FlatFd(fd)
      BY <3>1, SamePlace
    <3> QED BY <1>1, <2>3, <3>2, MovedFlat
  <2> QED BY <2>1, <2>2, <2>3
<1>7. /\ call = Flat!Idle /\ ret' = ret
      /\ call' = [op |-> "write", fd |-> i, buf |-> buf, size |-> Len(buf), done |-> 0]
  BY <1>1 DEF Flat!Idle, Idle, Start, result
<1>8. flat_opened[i].rw_flags \cap {"UFS_WRITE_ONLY", "UFS_READ_WRITE"} # {}
  BY <1>1, <1>2, OpenedIs DEF MayWrite
<1>9. i \in DOMAIN flat_opened
  BY <1>1, OpenedIs
<1> QED BY <1>4, <1>5, <1>6, <1>7, <1>8, <1>9 DEF Flat!WriteBegin, Flat!Begin

\* ufs_read up to its loop.
LEMMA ReadBeginFlat ==
  ASSUME FlatInv, FlatInv', NEW i \in FdArguments, NEW size \in ReadSizes, ReadBegin(i, size)
  PROVE  i \in DOMAIN flat_opened /\ Flat!ReadBegin(i, size)
<1>1. i \in OpenSlots /\ call = Idle /\ Start("read", i, <<>>, size) /\ UNCHANGED store
  BY DEF ReadBegin
<1> PICK fd \in FileDesc : fd = file_descriptors[i]
  BY <1>1, OpenSlotType DEF FlatInv, IInv
<1>2. MayRead(fd) /\ Anchored(fd) /\ fd.file \in live_files
  BY <1>1 DEF ReadBegin, FlatInv, IInv, DescriptorsAnchored, Anchored
<1>4. flat_linked' = flat_linked
  BY <1>1, LinksStay DEF Begin, store
<1>5. flat_content' = flat_content
  BY <1>1, StoreKept, ContentsKept
<1>6. flat_opened' = flat_opened
  <2>1. \/ UNCHANGED table
        \/ fd.curr_block = NULL /\ \E b \in BlockIds : SetFd(i, AtFirstBlock(fd, b))
    <3>1. files[fd.file].block_list # <<>> => files[fd.file].block_list[1] \in BlockIds
      BY <1>2, FileType DEF FlatInv
    <3> QED BY <3>1 DEF ReadBegin
  <2>2. CASE UNCHANGED table
    <3>1. OpenSlots' = OpenSlots
      BY <2>2 DEF OpenSlots, table
    <3> QED BY <2>2, <3>1, OpenedSame DEF table
  <2>3. ASSUME NEW b \in BlockIds, fd.curr_block = NULL, SetFd(i, AtFirstBlock(fd, b))
        PROVE  flat_opened' = flat_opened
    <3>1. fd.block_num = 0 /\ fd.block_pos = 0
      BY <1>2, <2>3 DEF Anchored
    <3>2. AtFirstBlock(fd, b) \in FileDesc /\ FlatFd(AtFirstBlock(fd, b)) = FlatFd(fd)
      BY <3>1, SamePlace
    <3> QED BY <1>1, <2>3, <3>2, MovedFlat
  <2> QED BY <2>1, <2>2, <2>3
<1>7. /\ call = Flat!Idle /\ ret' = ret
      /\ call' = [op |-> "read", fd |-> i, buf |-> <<>>, size |-> size, done |-> 0]
  BY <1>1 DEF Flat!Idle, Idle, Start, result
<1>8. flat_opened[i].rw_flags \cap {"UFS_READ_ONLY", "UFS_READ_WRITE"} # {}
  BY <1>1, <1>2, OpenedIs DEF MayRead
<1>9. i \in DOMAIN flat_opened
  BY <1>1, OpenedIs
<1> QED BY <1>4, <1>5, <1>6, <1>7, <1>8, <1>9 DEF Flat!ReadBegin, Flat!Begin

\* The loops go from the end of a block to the start of the next, in place.
LEMMA NextBlockFlat ==
  ASSUME FlatInv, FlatInv', WriteNextBlock \/ ReadNextBlock
  PROVE  UNCHANGED Flat!vars
<1>0. call.op \in {"read", "write"} /\ Continue
  BY DEF WriteNextBlock, ReadNextBlock, Continue
<1> PICK fd \in FileDesc, f \in live_files, list \in Seq(BlockIds) :
      /\ call.fd \in OpenSlots /\ fd = file_descriptors[call.fd]
      /\ f = fd.file /\ fd.block_num \in 1 .. Len(list)
      /\ fd.curr_block # NULL /\ Anchored(fd)
  BY <1>0, CallFile
<1>1. \E b \in BlockIds : SetFd(call.fd, AtNextBlock(fd, b))
  <2>1. NextBlock(f, fd.curr_block) # NULL => NextBlock(f, fd.curr_block) \in BlockIds
    BY NextOfAnchored DEF FlatInv
  <2> QED BY <2>1 DEF WriteNextBlock, ReadNextBlock
<1>2. fd.block_pos = BLOCK_SIZE /\ fd.block_num # 0
  BY DEF WriteNextBlock, ReadNextBlock
<1>3. flat_opened' = flat_opened
  BY <1>1, <1>2, SamePlace, MovedFlat
<1>4. flat_linked' = flat_linked
  <2>1. file_list' = file_list
    BY DEF WriteNextBlock, ReadNextBlock, increase_file, store
  <2> QED BY <1>0, <2>1, LinksStay
<1>5. flat_content' = flat_content
  <2>1. CASE WriteNextBlock
    BY <2>1, WriteNextBlockKeeps, ContentsKept DEF FlatInv
  <2>2. CASE ReadNextBlock
    BY <2>2, StoreKept, ContentsKept DEF ReadNextBlock
  <2> QED BY <2>1, <2>2
<1>6. call' = call /\ ret' = ret
  BY DEF WriteNextBlock, ReadNextBlock, result
<1> QED BY <1>3, <1>4, <1>5, <1>6 DEF Flat!vars

\* The offset of a descriptor is a number.
LEMMA PositionType ==
  ASSUME NEW fd \in FileDesc
  PROVE  Position(fd) \in Nat
<1> PICK n \in Nat : n = fd.block_num
  BY DEF FileDesc
<1> PICK pos \in Nat : pos = fd.block_pos
  BY BlockSizePositive DEF FileDesc
<1>1. CASE n = 0
  BY <1>1 DEF Position
<1>2. CASE n # 0
  <2>1. BlockStart(n) \in Nat
    BY <1>2, n \in Nat \ {0}, BlockStarts
  <2> QED BY <1>2, <2>1 DEF Position, BlockStart
<1> QED BY <1>1, <1>2

\* A step of the loop of ufs_write: some bytes at the descriptor's offset, or
\* nothing at all when the descriptor stands inside a full block.
LEMMA WriteChunkFlat ==
  ASSUME FlatInv, FlatInv', WriteChunk
  PROVE  UNCHANGED Flat!vars \/ \E k \in 1 .. call.size : Flat!WriteSome(k)
<1>0. call.op = "write" /\ Continue
  BY DEF WriteChunk, Continue
<1> PICK fd \in FileDesc, f \in live_files, list \in Seq(BlockIds) :
      /\ call.fd \in OpenSlots /\ fd = file_descriptors[call.fd]
      /\ f = fd.file /\ list = files[f].block_list
      /\ fd.block_num \in 1 .. Len(list)
  BY <1>0, CallFile
<1> PICK k : k = Smaller(call.size, FreeBytes(fd.curr_block))
  OBVIOUS
<1>1. k \in Nat /\ k <= call.size /\ fd.block_pos + k <= BLOCK_SIZE /\ call.size \in Nat
  BY ChunkInLastBlock
<1>2. /\ SetFd(call.fd, [fd EXCEPT !.block_pos = @ + k])
      /\ call' = [call EXCEPT !.size = @ - k, !.done = @ + k]
      /\ ret' = ret /\ file_list' = file_list /\ UNCHANGED <<files, live_files>>
  BY DEF WriteChunk, result
<1>3. flat_linked' = flat_linked
  BY <1>0, <1>2, LinksStay
<1>4. flat_opened' = [flat_opened EXCEPT ![call.fd].offset = @ + k]
  <2>1. fd.block_num # 0
    OBVIOUS
  <2> QED BY <1>1, <1>2, <2>1, AdvancedFlat
<1>5. /\ \A g \in live_files : g # f => TextKept(g)
      /\ k = 0 => TextKept(f)
      /\ k # 0 => Text(list, blocks') =
           Flat!Overwritten(Text(list, blocks), Position(fd),
                            SubSeq(call.buf, call.done + 1, call.done + k))
  BY WriteChunkKeeps DEF FlatInv
<1>6. CASE k = 0
  <2>1. flat_content' = flat_content
    BY <1>2, <1>5, <1>6, ContentsKept
  <2>2. flat_opened' = flat_opened
    <3>1. \A i \in OpenSlots : flat_opened[i] = FlatFd(file_descriptors[i])
      BY DEF flat_opened
    <3>2. \A i \in OpenSlots : Position(file_descriptors[i]) \in Int
      BY OpenSlotType, BlockSizePositive, PositionType DEF FlatInv, IInv
    <3>3. FlatFd(fd) = [FlatFd(fd) EXCEPT !.offset = @ + 0]
      BY <3>2 DEF FlatFd
    <3>4. flat_opened[call.fd] = [flat_opened[call.fd] EXCEPT !.offset = @ + 0]
      BY <3>1, <3>3
    <3>5. flat_opened = [i \in OpenSlots |-> flat_opened[i]]
      BY DEF flat_opened
    <3> QED BY <1>4, <1>6, <3>4, <3>5
  <2>3. call' = call
    <3>1. call \in Call /\ call.size - 0 = call.size /\ call.done + 0 = call.done
      BY DEF FlatInv, IInv, TypeOK, Call
    <3> QED BY <1>2, <1>6, <3>1 DEF Call
  <2> QED BY <1>2, <1>3, <2>1, <2>2, <2>3 DEF Flat!vars
<1>7. CASE k # 0
  <2>1. k \in 1 .. call.size
    BY <1>1, <1>7
  <2> PICK part : part = SubSeq(call.buf, call.done + 1, call.done + k)
    OBVIOUS
  <2>2. \A g \in FileIds : TextOf(g)' =
          IF g = f THEN Flat!Overwritten(TextOf(g), Position(fd), part) ELSE TextOf(g)
    BY <1>2, <1>5, <1>7 DEF TextOf, TextKept
  <2>3. \A g \in FileIds : flat_content[g] = TextOf(g) /\ flat_content'[g] = TextOf(g)'
    BY ViewsHold DEF ContentView, flat_content
  <2>4. flat_content' = [flat_content EXCEPT ![f] = Flat!Overwritten(@, Position(fd), part)]
    <3>1. flat_content' = [g \in FileIds |-> flat_content'[g]]
          /\ flat_content = [g \in FileIds |-> flat_content[g]]
      BY DEF flat_content
    <3> QED BY <2>2, <2>3, <3>1
  <2>5. flat_opened[call.fd].file = f /\ flat_opened[call.fd].offset = Position(fd)
    BY OpenedIs
  <2>6. Flat!WriteSome(k)
    BY <1>0, <1>2, <1>3, <1>4, <2>4, <2>5 DEF Flat!WriteSome, Flat!Advance, Flat!FileOf, Flat!OffsetOf
  <2> QED BY <2>1, <2>6
<1> QED BY <1>6, <1>7

\* A step of the loop of ufs_read: some bytes from the descriptor's offset.
LEMMA ReadChunkFlat ==
  ASSUME FlatInv, FlatInv', ReadChunk
  PROVE  \E k \in 1 .. call.size : Flat!ReadSome(k)
<1>0. call.op = "read" /\ Continue
  BY DEF ReadChunk, Continue
<1> PICK fd \in FileDesc, f \in live_files, list \in Seq(BlockIds) :
      /\ call.fd \in OpenSlots /\ fd = file_descriptors[call.fd]
      /\ f = fd.file /\ list = files[f].block_list
      /\ fd.block_num \in 1 .. Len(list) /\ fd.curr_block = list[fd.block_num]
      /\ blocks[fd.curr_block] \in Block /\ fd.block_pos \in Nat /\ Full(list, blocks)
  BY <1>0, CallFile
<1> PICK k : k = ChunkSize(fd)
  OBVIOUS
<1> PICK chunk : chunk = ChunkBytes(fd)
  OBVIOUS
<1> PICK n \in 1 .. Len(list) : n = fd.block_num
  OBVIOUS
<1> PICK pos \in Nat : pos = fd.block_pos
  OBVIOUS
<1> PICK bs \in [BlockIds -> Block] : bs = blocks
  BY DEF FlatInv, IInv, TypeOK
<1>1. /\ k \in Nat /\ k > 0 /\ k <= call.size /\ call.size \in Nat
      /\ pos + k <= bs[list[n]].occupied
  BY ChunkType
<1>2. /\ SetFd(call.fd, [fd EXCEPT !.block_pos = @ + k])
      /\ call' = [call EXCEPT !.buf = @ \o chunk, !.size = @ - k, !.done = @ + k]
      /\ ret' = ret /\ UNCHANGED store
  BY DEF ReadChunk, result, ChunkSize, ChunkBytes
<1>3. flat_linked' = flat_linked /\ flat_content' = flat_content
  BY <1>0, <1>2, LinksStay, StoreKept, ContentsKept DEF store
<1>4. flat_opened' = [flat_opened EXCEPT ![call.fd].offset = @ + k]
  <2>1. fd.block_num # 0
    OBVIOUS
  <2>2. pos + k <= BLOCK_SIZE
    <3>1. bs[list[n]].occupied \in 0 .. BLOCK_SIZE
      BY DEF Block
    <3> QED BY ONLY <1>1, <3>1, BlockSizePositive, pos \in Nat
  <2> QED BY <1>1, <1>2, <2>1, <2>2, AdvancedFlat
<1> PICK text : text = Text(list, bs)
  OBVIOUS
<1>5. flat_content[f] = text
  BY ViewsHold DEF ContentView, TextOf, flat_content, FlatInv, IInv, TypeOK
<1>6. flat_opened[call.fd].file = f /\ flat_opened[call.fd].offset = Position(fd)
  BY OpenedIs
<1> PICK here \in Nat : here = Position(fd) /\ here = BlockStart(n) + pos
  <2>1. Position(fd) = BlockStart(n) + pos
    BY ONLY n = fd.block_num, pos = fd.block_pos DEF Position, BlockStart
  <2>3. n \in Nat \ {0} /\ pos \in Nat
    BY ONLY n \in 1 .. Len(list), list \in Seq(BlockIds), pos \in Nat
  <2>2. BlockStart(n) \in Nat
    BY ONLY <2>3, BlockStarts
  <2> QED BY ONLY <2>1, <2>2, <2>3
<1>7. BlockStart(n) + pos + k <= Size(list, bs)
      /\ SubSeq(text, BlockStart(n) + pos + 1, BlockStart(n) + pos + k)
           = [j \in 1 .. k |-> bs[list[n]].memory[pos + j - 1]]
  <2>1. Full(list, bs)
    OBVIOUS
  <2>2. ReadInBlock(list, bs, n, pos, k)
    BY ONLY <2>1, <1>1, list \in Seq(BlockIds), bs \in [BlockIds -> Block],
            n \in 1 .. Len(list), pos \in Nat DEF ReadInBlock
  <2>3. /\ BlockStart(n) + pos + k <= Size(list, bs)
        /\ SubSeq(Text(list, bs), BlockStart(n) + pos + 1, BlockStart(n) + pos + k)
             = [j \in 1 .. k |-> bs[list[n]].memory[pos + j - 1]]
    BY ONLY <2>2, TextRead
  <2> QED BY ONLY <2>3, text = Text(list, bs)
<1>8. here + k <= Len(text)
  BY <1>7, TextIs
<1>9. SubSeq(text, here + 1, here + k) = chunk
  BY <1>7 DEF ChunkBytes
<1>10. k \in 1 .. call.size
  BY ONLY <1>1
<1>11. Flat!ReadSome(k)
  BY <1>0, <1>2, <1>3, <1>4, <1>5, <1>6, <1>8, <1>9
  DEF Flat!ReadSome, Flat!Advance, Flat!FileOf, Flat!OffsetOf
<1> QED BY <1>10, <1>11

\* ufs_read ends where FlatFS says the file does: at the end of its last block.
LEMMA ReadEofFlat ==
  ASSUME FlatInv, FlatInv', ReadEof
  PROVE  Flat!ReadEnd
<1>0. call.op = "read" /\ call' = Idle /\ ret' = call.done /\ UNCHANGED <<store, table>>
  BY DEF ReadEof, Return
<1> PICK fd \in FileDesc, f \in live_files, list \in Seq(BlockIds) :
      /\ call.fd \in OpenSlots /\ fd = file_descriptors[call.fd]
      /\ f = fd.file /\ list = files[f].block_list
      /\ fd.block_num \in 1 .. Len(list) /\ fd.curr_block = list[fd.block_num]
      /\ blocks[fd.curr_block] \in Block /\ fd.block_pos \in Nat /\ Full(list, blocks)
      /\ fd.block_pos <= blocks[fd.curr_block].occupied /\ Anchored(fd) /\ fd.curr_block # NULL
  BY <1>0, CallFile
<1> PICK o \in Nat : o = blocks[fd.curr_block].occupied /\ o <= BLOCK_SIZE
  <2>1. blocks[fd.curr_block].occupied \in 0 .. BLOCK_SIZE
    BY ONLY blocks[fd.curr_block] \in Block DEF Block
  <2> QED BY ONLY <2>1, BlockSizePositive
<1> PICK n \in 1 .. Len(list) : n = fd.block_num
  OBVIOUS
<1>1. fd.block_pos = o /\ n = Len(list)
  <2>1. CASE fd.block_pos = BLOCK_SIZE
    <3>1. NextBlock(fd.file, fd.curr_block) = NULL
      BY <2>1 DEF ReadEof
    <3>2. n = Len(list)
      BY <3>1, NextOfAnchored DEF FlatInv
    <3> QED
      BY ONLY <2>1, <3>2, BlockSizePositive, o \in Nat, o <= BLOCK_SIZE,
              fd.block_pos <= blocks[fd.curr_block].occupied,
              o = blocks[fd.curr_block].occupied
  <2>2. CASE fd.block_pos # BLOCK_SIZE
    <3>1. fd.block_pos = o
      BY <2>2 DEF ReadEof
    <3>2. n = Len(list)
      <4> SUFFICES ASSUME n # Len(list) PROVE FALSE
        OBVIOUS
      <4>1. n \in 1 .. Len(list) - 1
        BY ONLY n \in 1 .. Len(list), n # Len(list), list \in Seq(BlockIds)
      <4>2. o = BLOCK_SIZE
        BY <4>1 DEF Full
      <4> QED BY <2>2, <3>1, <4>2
    <3> QED BY <3>1, <3>2
  <2> QED BY <2>1, <2>2
<1>2. Position(fd) = Len(Text(list, blocks))
  <2>1. Position(fd) = BlockStart(n) + o
    <3>1. n # 0
      BY ONLY n \in 1 .. Len(list), list \in Seq(BlockIds)
    <3> QED BY ONLY <1>1, <3>1, n = fd.block_num DEF Position, BlockStart
  <2>2. Size(list, blocks) = BlockStart(n) + o
    <3>1. Len(list) # 0
      BY ONLY n \in 1 .. Len(list), list \in Seq(BlockIds)
    <3>2. o = blocks[list[n]].occupied
      OBVIOUS
    <3> QED BY ONLY <1>1, <3>1, <3>2 DEF Size, BlockStart
  <2>3. Len(Text(list, blocks)) = Size(list, blocks)
    BY TextIs DEF FlatInv, IInv, TypeOK
  <2> QED BY <2>1, <2>2, <2>3
<1>3. Flat!AtEnd(call.fd)
  <2>1. flat_content[f] = Text(list, blocks)
    BY ViewsHold DEF ContentView, TextOf, flat_content, FlatInv, IInv, TypeOK
  <2>2. flat_opened[call.fd].file = f /\ flat_opened[call.fd].offset = Position(fd)
    BY OpenedIs
  <2> QED BY <1>2, <2>1, <2>2 DEF Flat!AtEnd, Flat!FileOf, Flat!OffsetOf
<1>4. flat_linked' = flat_linked /\ flat_content' = flat_content /\ flat_opened' = flat_opened
  BY <1>0, AllKept
<1>5. call' = Flat!Idle /\ ret' = Len(call.buf)
  BY <1>0 DEF Flat!Idle, Idle, FlatInv, CallKnown
<1> QED BY <1>0, <1>3, <1>4, <1>5 DEF Flat!ReadEnd, Flat!Return

\* The loops end when there is nothing left to do, with the bytes done.
LEMMA EndsFlat ==
  ASSUME FlatInv, FlatInv'
  PROVE  /\ WriteEnd => Flat!WriteEnd
         /\ ReadEnd => Flat!ReadEnd
<1>1. ASSUME WriteEnd PROVE Flat!WriteEnd
  <2>1. /\ call.op = "write" /\ call.size = 0 /\ call' = Idle /\ ret' = call.done
        /\ UNCHANGED <<store, table>>
    BY <1>1 DEF WriteEnd, Return
  <2>2. call.done = Len(call.buf)
    BY <2>1 DEF FlatInv, IInv, TypeOK, Call, CallAnchored
  <2>3. flat_linked' = flat_linked /\ flat_content' = flat_content /\ flat_opened' = flat_opened
    BY <2>1, AllKept
  <2> QED BY <2>1, <2>2, <2>3 DEF Flat!WriteEnd, Flat!Return, Flat!Idle, Idle
<1>2. ASSUME ReadEnd PROVE Flat!ReadEnd
  <2>1. /\ call.op = "read" /\ call.size = 0 /\ call' = Idle /\ ret' = call.done
        /\ UNCHANGED <<store, table>>
    BY <1>2 DEF ReadEnd, Return
  <2>2. call.done = Len(call.buf)
    BY <2>1 DEF FlatInv, CallKnown
  <2>3. flat_linked' = flat_linked /\ flat_content' = flat_content /\ flat_opened' = flat_opened
    BY <2>1, AllKept
  <2> QED BY <2>1, <2>2, <2>3 DEF Flat!ReadEnd, Flat!Return, Flat!Idle, Idle
<1> QED BY <1>1, <1>2

\* ufs_read that returns at once has failed, or found a file without bytes.
LEMMA ReadAtOnceFlat ==
  ASSUME FlatInv, FlatInv', NEW i \in FdArguments, ReadAtOnce(i)
  PROVE  Flat!Fails \/ (i \in DOMAIN flat_opened /\ Flat!ReadNothing(i))
<1>1. CASE \E errcode : Fail(errcode)
  BY <1>1, FailFlat DEF ReadAtOnce
<1>2. CASE ~ \E errcode : Fail(errcode)
  <2>1. i \in OpenSlots /\ call = Idle
    BY <1>2 DEF ReadAtOnce
  <2> PICK fd : fd = file_descriptors[i]
    OBVIOUS
  <2>2. /\ files[fd.file].block_list = <<>> /\ call' = Idle /\ ret' = 0
        /\ UNCHANGED <<store, table>>
    BY <1>2, <2>1 DEF ReadAtOnce, Return
  <2> PICK f \in live_files : f = fd.file
    BY <2>1 DEF FlatInv, IInv, DescriptorsAnchored, Anchored
  <2>3. flat_content[f] = <<>>
    <3>1. flat_content[f] = Text(files[f].block_list, blocks)
      BY ViewsHold DEF ContentView, TextOf, flat_content, FlatInv, IInv, TypeOK
    <3> QED BY <2>2, <3>1, TextOfNoBlocks
  <2>4. flat_linked' = flat_linked /\ flat_content' = flat_content /\ flat_opened' = flat_opened
    BY <2>2, AllKept
  <2>5. i \in DOMAIN flat_opened /\ flat_opened[i].file = f
    BY <2>1, OpenedIs
  <2> QED BY <2>1, <2>2, <2>3, <2>4, <2>5
          DEF Flat!ReadNothing, Flat!Return, Flat!FileOf, Flat!Idle, Idle
<1> QED BY <1>1, <1>2

\* Every step of the code is one of FlatFS.
LEMMA NextFlat ==
  ASSUME FlatInv, FlatInv', NewSizes = {}, [Next]_vars
  PROVE  [Flat!Next]_(Flat!vars)
<1>1. ASSUME UNCHANGED vars PROVE UNCHANGED Flat!vars
  <2>1. UNCHANGED <<store, table>> /\ call' = call /\ ret' = ret
    BY <1>1 DEF vars, result
  <2> QED BY <2>1, AllKept DEF Flat!vars
<1>2. ASSUME Begin PROVE Flat!Next
  <2>1. ASSUME call = Idle, NEW errcode, Fail(errcode) PROVE Flat!Next
    BY <2>1, FailFlat DEF Flat!Next
  <2>2. ASSUME NEW n \in FileNames, NEW flags \in OpenFlags,
               OpenExisting(n, flags) \/ OpenCreate(n, flags)
        PROVE  Flat!Next
    BY <2>2, OpenExistingFlat, OpenCreateFlat DEF Flat!Next
  <2>3. ASSUME NEW n \in FileNames, Delete(n) PROVE Flat!Next
    BY <2>3, DeleteFlat DEF Flat!Next
  <2>4. ASSUME NEW i \in FdArguments, Close(i) PROVE Flat!Next
    BY <2>4, CloseFlat DEF Flat!Next
  <2>5. ASSUME NEW i \in FdArguments, ReadAtOnce(i) PROVE Flat!Next
    BY <2>5, ReadAtOnceFlat DEF Flat!Next
  <2>6. ASSUME NEW i \in FdArguments, NEW buf \in Buffers, WriteBegin(i, buf) PROVE Flat!Next
    BY <2>6, WriteBeginFlat DEF Flat!Next
  <2>7. ASSUME NEW i \in FdArguments, NEW size \in ReadSizes, ReadBegin(i, size) PROVE Flat!Next
    BY <2>7, ReadBeginFlat DEF Flat!Next
  <2> QED
    BY <1>2, <2>1, <2>2, <2>3, <2>4, <2>5, <2>6, <2>7
    DEF Begin, OpenMissing, DeleteFails, CloseFails, WriteFails
<1>3. ASSUME Continue PROVE Flat!Next \/ UNCHANGED Flat!vars
  <2>1. ~GrowBlock /\ ~GrowEnd
    BY DEF GrowBlock, GrowEnd, FlatInv, CallKnown
  <2>2. WriteChunk => Flat!Next \/ UNCHANGED Flat!vars
    BY WriteChunkFlat DEF Flat!Next
  <2>3. ReadChunk => Flat!Next
    BY ReadChunkFlat DEF Flat!Next
  <2>4. ReadEof \/ WriteEnd \/ ReadEnd => Flat!Next
    BY ReadEofFlat, EndsFlat DEF Flat!Next
  <2> QED BY <1>3, <2>1, <2>2, <2>3, <2>4, NextBlockFlat DEF Continue
<1> QED BY <1>1, <1>2, <1>3 DEF Next

\* So is the first state.
LEMMA InitFlat == Init => Flat!Init
<1> SUFFICES ASSUME Init PROVE Flat!Init
  OBVIOUS
<1>1. FlatInv
  BY InitFlatInv
<1>2. flat_linked = [n \in FileNames |-> NULL]
  BY DEF Init, flat_linked, LinkedFile, Named
<1>3. flat_content = [f \in FileIds |-> <<>>]
  BY <1>1, ContentViewHolds DEF ContentView, TextOf, flat_content, Init
<1>4. flat_opened = <<>>
  <2>1. OpenSlots = {}
    BY DEF Init, OpenSlots
  <2> QED BY <2>1 DEF flat_opened
<1> QED BY <1>2, <1>3, <1>4 DEF Init, Flat!Init, Flat!Idle, Idle

\* Without ufs_resize, what callers see of ufs_open, ufs_close, ufs_delete,
\* ufs_read and ufs_write is what FlatFS allows, whatever the size of a block
\* and however many files, blocks, names and descriptors there are.
THEOREM Refinement ==
  ASSUME NewSizes = {}
  PROVE  Spec => ImplementsFlatFS
<1>1. Init => FlatInv /\ Flat!Init
  BY InitFlatInv, InitFlat
<1>2. FlatInv /\ [Next]_vars => FlatInv'
  BY NextFlatInv
<1>3. FlatInv /\ FlatInv' /\ [Next]_vars => [Flat!Next]_(Flat!vars)
  BY NextFlat
<1> QED BY <1>1, <1>2, <1>3, PTL DEF Spec, ImplementsFlatFS, Flat!Spec
=============================================================================
