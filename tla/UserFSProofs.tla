---------------------------- MODULE UserFSProofs ----------------------------
(***************************************************************************)
(* The structural invariants of UserFS, for every value of its constants.  *)
(***************************************************************************)
EXTENDS UserFS, FiniteSetTheorems, TLAPS

\* The inductive invariant.  No part is inductive without the others: that
\* memory a descriptor refers to is not freed needs the counts of references,
\* that block_pos stays inside a block needs the block to belong to the file.
IInv ==
  /\ TypeOK
  /\ DescriptorsAnchored
  /\ PositionsInData
  /\ FilesAccounted
  /\ BlocksAccounted
  /\ TableAccounted
  /\ CallAnchored

-----------------------------------------------------------------------------
(* Types *)

\* A block has at least one byte.
LEMMA BlockSizePositive == BLOCK_SIZE \in Nat /\ BLOCK_SIZE > 0
  BY BlockSizeAssumption

\* malloc()ed records have their types.
LEMMA NewRecords ==
  /\ new_block \in Block
  /\ new_block.occupied = 0
  /\ \A n \in FileNames \cup {NULL} : new_file(n) \in File
  /\ \A n : new_file(n).block_list = << >>
  BY BlockSizePositive
  DEF new_block, new_file, Block, File, Data

\* An open slot holds a descriptor.
LEMMA OpenSlotType ==
  ASSUME TypeOK, NEW i \in OpenSlots
  PROVE  /\ i \in 1 .. Len(file_descriptors)
         /\ i \in DOMAIN file_descriptors
         /\ file_descriptors[i] \in FileDesc
  BY DEF TypeOK, OpenSlots

\* The used slots of the array are finitely many, no more than it has slots.
LEMMA OpenSlotsFinite ==
  ASSUME TypeOK
  PROVE  /\ IsFiniteSet(OpenSlots)
         /\ Cardinality(OpenSlots) <= capacity
         /\ \A f : IsFiniteSet(DescriptorsOf(f))
<1>1. OpenSlots \subseteq 1 .. capacity /\ capacity \in Nat
  BY DEF TypeOK, OpenSlots, capacity
<1>2. IsFiniteSet(1 .. capacity) /\ Cardinality(1 .. capacity) = capacity
  BY <1>1, FS_Interval
<1>3. IsFiniteSet(OpenSlots) /\ Cardinality(OpenSlots) <= capacity
  BY <1>1, <1>2, FS_Subset
<1>4. \A f : DescriptorsOf(f) \subseteq OpenSlots
  BY DEF DescriptorsOf
<1>5. \A f : IsFiniteSet(DescriptorsOf(f))
  BY <1>3, <1>4, FS_Subset
<1> QED BY <1>3, <1>5

-----------------------------------------------------------------------------
(* The initial state *)

\* The file system starts in the invariant: nothing is open, nothing allocated.
LEMMA InitIInv == Init => IInv
<1> SUFFICES ASSUME Init PROVE IInv
  OBVIOUS
<1>1. OpenSlots = {} /\ capacity = 0
  BY DEF Init, OpenSlots, capacity
<1>2. TypeOK
  BY NewRecords, BlockSizePositive
  DEF Init, TypeOK, Idle, Call, ErrorCodes, FreedFile
<1>3. Cardinality(OpenSlots) = 0
  BY <1>1, FS_EmptySet
<1> QED
  BY <1>1, <1>2, <1>3
  DEF Init, IInv, DescriptorsAnchored, PositionsInData, FilesAccounted,
      BlocksAccounted, TableAccounted, CallAnchored, Idle

-----------------------------------------------------------------------------
(* What the helpers of the model do to the state *)

\* A step that touches neither the files nor the descriptors.
LEMMA FrameIInv ==
  ASSUME IInv, UNCHANGED <<store, table>>,
         call' \in Call, CallAnchored', ufs_errcode' \in ErrorCodes, ret' \in Int
  PROVE  IInv'
<1>1. /\ UNCHANGED <<file_list, files, live_files, blocks, live_blocks>>
      /\ UNCHANGED <<file_descriptors, file_descriptor_count>>
  BY DEF store, heap, table
<1>2. OpenSlots' = OpenSlots /\ \A f : DescriptorsOf(f)' = DescriptorsOf(f)
  BY <1>1 DEF OpenSlots, DescriptorsOf
<1>3. TypeOK' /\ TableAccounted'
  BY <1>1, <1>2 DEF IInv, TypeOK, TableAccounted, capacity
<1>4. DescriptorsAnchored' /\ PositionsInData'
  BY <1>1, <1>2 DEF IInv, DescriptorsAnchored, PositionsInData, Anchored, InData
<1>5. FilesAccounted'
  BY <1>1, <1>2 DEF IInv, FilesAccounted
<1>6. BlocksAccounted'
  <2>1. \A f : BlocksOf(f)' = BlocksOf(f)
    BY <1>1 DEF BlocksOf
  <2> QED BY <1>1, <2>1 DEF IInv, BlocksAccounted
<1> QED BY <1>3, <1>4, <1>5, <1>6 DEF IInv

\* A call that returns leaves no call in progress.
LEMMA ReturnTypes ==
  ASSUME NEW value \in Int, NEW errcode \in ErrorCodes, Return(value, errcode)
  PROVE  /\ call' \in Call /\ CallAnchored'
         /\ ufs_errcode' \in ErrorCodes /\ ret' \in Int
  BY DEF Return, Idle, Call, CallAnchored

\* A call that fails keeps the invariant: it only sets ufs_errcode.
LEMMA FailIInv ==
  ASSUME IInv, NEW errcode \in ErrorCodes, Fail(errcode)
  PROVE  IInv'
  BY FrameIInv, ReturnTypes DEF Fail

\* Writing one open descriptor changes no other, nor the file of any.
LEMMA SetFdTable ==
  ASSUME IInv, NEW i \in OpenSlots, NEW fd \in FileDesc,
         fd.file = file_descriptors[i].file, SetFd(i, fd)
  PROVE  /\ OpenSlots' = OpenSlots
         /\ \A s \in OpenSlots :
              file_descriptors'[s] = IF s = i THEN fd ELSE file_descriptors[s]
         /\ \A f : DescriptorsOf(f)' = DescriptorsOf(f)
         /\ file_descriptors' \in Seq(FileDesc \cup {NULL})
         /\ file_descriptor_count' \in Nat
         /\ TableAccounted'
<1>1. /\ DOMAIN file_descriptors' = DOMAIN file_descriptors
      /\ Len(file_descriptors') = Len(file_descriptors)
      /\ file_descriptors' \in Seq(FileDesc \cup {NULL})
  BY OpenSlotType DEF IInv, TypeOK, SetFd
<1>2. \A s \in DOMAIN file_descriptors :
        file_descriptors'[s] = IF s = i THEN fd ELSE file_descriptors[s]
  BY OpenSlotType DEF IInv, TypeOK, SetFd
<1>3. fd # NULL
  BY NullAssumption
<1>4. OpenSlots' = OpenSlots
  BY <1>1, <1>2, <1>3 DEF OpenSlots
<1>5. \A s \in OpenSlots :
        file_descriptors'[s] = IF s = i THEN fd ELSE file_descriptors[s]
  BY <1>2 DEF OpenSlots
<1>6. \A f : DescriptorsOf(f)' = DescriptorsOf(f)
  BY <1>4, <1>5 DEF DescriptorsOf
<1>7. file_descriptor_count' \in Nat /\ TableAccounted'
  BY <1>1, <1>4 DEF IInv, TypeOK, TableAccounted, capacity, SetFd
<1> QED BY <1>1, <1>4, <1>5, <1>6, <1>7

\* A step that moves one descriptor inside its file and nothing else.
LEMMA MoveIInv ==
  ASSUME IInv, NEW i \in OpenSlots, NEW fd \in FileDesc,
         fd.file = file_descriptors[i].file, SetFd(i, fd),
         Anchored(fd), InData(fd), UNCHANGED store,
         call' \in Call, CallAnchored', ufs_errcode' \in ErrorCodes, ret' \in Int
  PROVE  IInv'
<1>1. TypeOK'
  BY SetFdTable DEF IInv, TypeOK, store, heap
<1>2. DescriptorsAnchored' /\ PositionsInData'
  BY SetFdTable
  DEF IInv, DescriptorsAnchored, PositionsInData, Anchored, InData, store, heap
<1>3. FilesAccounted'
  BY SetFdTable DEF IInv, FilesAccounted, store
<1>4. BlocksAccounted'
  <2>1. files' = files /\ live_files' = live_files /\ live_blocks' = live_blocks
    BY DEF store, heap
  <2>2. \A f : BlocksOf(f)' = BlocksOf(f)
    BY <2>1 DEF BlocksOf
  <2> QED BY <2>1, <2>2 DEF IInv, BlocksAccounted
<1> QED BY <1>1, <1>2, <1>3, <1>4, SetFdTable DEF IInv

\* An allocated file has its type, and num_blocks counts its list of blocks.
LEMMA FileType ==
  ASSUME IInv, NEW f \in live_files
  PROVE  /\ f \in FileIds /\ files[f] \in File
         /\ files[f].block_list \in Seq(BlockIds)
         /\ files[f].num_blocks = Len(files[f].block_list)
         /\ \A j \in DOMAIN files[f].block_list :
              /\ files[f].block_list[j] \in BlockIds
              /\ files[f].block_list[j] \in BlocksOf(f)
              /\ files[f].block_list[j] # NULL
<1>1. f \in FileIds /\ files[f] \in File
  BY DEF IInv, TypeOK
<1>2. files[f].block_list \in Seq(BlockIds)
  BY <1>1 DEF File
<1> QED
  BY <1>1, <1>2, NullAssumption DEF IInv, BlocksAccounted, BlocksOf

\* The `next' pointer of the block of a descriptor: the CHOOSE in NextBlock has
\* one candidate, because no list holds a block twice.
LEMMA NextOfAnchored ==
  ASSUME IInv, NEW fd \in FileDesc, Anchored(fd), fd.curr_block # NULL
  PROVE  LET list == files[fd.file].block_list
             next == NextBlock(fd.file, fd.curr_block)
         IN /\ fd.block_num \in 1 .. Len(list)
            /\ fd.curr_block \in BlockIds
            /\ next = NULL <=> fd.block_num = Len(list)
            /\ next # NULL => /\ fd.block_num + 1 \in DOMAIN list
                              /\ next = list[fd.block_num + 1]
                              /\ next \in BlockIds
<1> DEFINE list == files[fd.file].block_list
           i == IndexOf(list, fd.curr_block)
<1>1. fd.file \in live_files /\ fd.block_num \in DOMAIN list
      /\ fd.curr_block = list[fd.block_num]
  BY DEF Anchored
<1>2. list \in Seq(BlockIds) /\ \A j \in DOMAIN list : list[j] \in BlockIds /\ list[j] # NULL
  BY <1>1, FileType
<1>3. \A j, k \in DOMAIN list : list[j] = list[k] => j = k
  BY <1>1 DEF IInv, BlocksAccounted
<1>4. i \in DOMAIN list /\ list[i] = fd.curr_block
  BY <1>1 DEF IndexOf
<1>5. i = fd.block_num
  BY <1>1, <1>3, <1>4
<1>6. NextBlock(fd.file, fd.curr_block) =
        IF fd.block_num = Len(list) THEN NULL ELSE list[fd.block_num + 1]
  BY <1>5 DEF NextBlock
<1>7. fd.block_num \in 1 .. Len(list)
  BY <1>1, <1>2
<1>8. fd.block_num # Len(list) => fd.block_num + 1 \in DOMAIN list
  BY <1>2, <1>7
<1> QED BY <1>1, <1>2, <1>6, <1>7, <1>8

\* An open descriptor that has no block may be set on the first one.
LEMMA FirstBlockOfAnchored ==
  ASSUME IInv, NEW i \in OpenSlots, file_descriptors[i].curr_block = NULL,
         files[file_descriptors[i].file].block_list # << >>
  PROVE  LET fd == file_descriptors[i]
             new == AtFirstBlock(fd, files[fd.file].block_list[1])
         IN /\ new \in FileDesc /\ new.file = fd.file
            /\ Anchored(new) /\ InData(new) /\ new.curr_block # NULL
<1> DEFINE fd == file_descriptors[i]
           list == files[fd.file].block_list
           new == AtFirstBlock(fd, list[1])
<1>1. fd \in FileDesc /\ Anchored(fd)
  BY OpenSlotType DEF IInv, DescriptorsAnchored
<1>2. fd.file \in live_files /\ fd.block_pos = 0
  BY <1>1 DEF Anchored
<1>3. list \in Seq(BlockIds) /\ \A j \in DOMAIN list : list[j] \in BlockIds /\ list[j] # NULL
  BY <1>2, FileType
<1>4. 1 \in DOMAIN list
  BY <1>3
<1>5. new \in FileDesc /\ new.file = fd.file /\ new.block_num = 1
      /\ new.block_pos = 0 /\ new.curr_block = list[1]
  BY <1>1, <1>2, <1>3, <1>4 DEF AtFirstBlock, FileDesc
<1>6. Anchored(new)
  BY <1>2, <1>3, <1>4, <1>5 DEF Anchored
<1>7. InData(new)
  BY <1>3, <1>4, <1>5 DEF InData, IInv, TypeOK, Block
<1> QED BY <1>3, <1>4, <1>5, <1>6, <1>7

\* The descriptor of the call in progress.
LEMMA CallDescriptor ==
  ASSUME IInv, call.op \in {"read", "write"}
  PROVE  LET fd == file_descriptors[call.fd] IN
         /\ call.fd \in OpenSlots /\ fd \in FileDesc
         /\ Anchored(fd) /\ InData(fd)
         /\ fd.curr_block # NULL /\ fd.curr_block \in BlockIds
         /\ blocks[fd.curr_block] \in Block
<1>1. call.fd \in OpenSlots
  BY DEF IInv, CallAnchored
<1>2. file_descriptors[call.fd] \in FileDesc
      /\ Anchored(file_descriptors[call.fd]) /\ InData(file_descriptors[call.fd])
  BY <1>1, OpenSlotType DEF IInv, DescriptorsAnchored, PositionsInData
<1>3. file_descriptors[call.fd].curr_block # NULL
  BY DEF IInv, CallAnchored
<1>4. file_descriptors[call.fd].curr_block \in BlockIds
  BY <1>2, <1>3 DEF FileDesc
<1> QED BY <1>1, <1>2, <1>3, <1>4 DEF IInv, TypeOK

\* Appending a fresh block to a file keeps the accounts of blocks, and every
\* descriptor's place.
LEMMA IncreaseFile ==
  ASSUME IInv, NEW f \in live_files, NEW b \in BlockIds, increase_file(f, b)
  PROVE  /\ files' \in [FileIds -> File]
         /\ blocks' \in [BlockIds -> Block] /\ live_blocks' \subseteq BlockIds
         /\ UNCHANGED <<file_list, live_files>>
         /\ \A g \in FileIds : /\ files'[g].refs = files[g].refs
                               /\ files'[g].deleted = files[g].deleted
                               /\ files'[g].name = files[g].name
         /\ files'[f].block_list = Append(files[f].block_list, b)
         /\ blocks'[b].occupied = 0
         /\ BlocksAccounted'
         /\ \A fd \in FileDesc :
              Anchored(fd) /\ InData(fd) => Anchored(fd)' /\ InData(fd)'
<1> DEFINE list == files[f].block_list
<1>1. /\ f \in FileIds /\ files[f] \in File /\ list \in Seq(BlockIds)
      /\ files[f].num_blocks = Len(list)
      /\ \A g \in live_files : \A j \in DOMAIN files[g].block_list :
           files[g].block_list[j] \in BlockIds /\ files[g].block_list[j] \in live_blocks
  BY FileType DEF IInv, BlocksAccounted
<1>2. b \notin live_blocks
  BY DEF increase_file, FreshBlocks
<1>3. /\ files'[f].block_list = Append(list, b)
      /\ files'[f].last_block = b
      /\ files'[f].num_blocks = Len(list) + 1
      /\ files'[f].refs = files[f].refs /\ files'[f].deleted = files[f].deleted
      /\ files'[f].name = files[f].name
      /\ files'[f] \in File
  <2>1. files'[f] = Extended(files[f], b)
    BY <1>1 DEF increase_file, IInv, TypeOK
  <2>2. Append(list, b) \in Seq(BlockIds)
    BY <1>1
  <2>3. Len(list) + 1 \in Nat
    BY <1>1
  <2> QED BY <1>1, <2>1, <2>2, <2>3 DEF Extended, File
<1>4. \A g \in FileIds : g # f => files'[g] = files[g]
  BY DEF increase_file, IInv, TypeOK
<1>5. files' \in [FileIds -> File]
  BY <1>1, <1>3 DEF increase_file, IInv, TypeOK
<1>6. /\ blocks'[b] = new_block /\ blocks' \in [BlockIds -> Block]
      /\ \A c \in BlockIds : c # b => blocks'[c] = blocks[c]
      /\ live_blocks' = live_blocks \cup {b} /\ live_blocks' \subseteq BlockIds
  BY NewRecords DEF increase_file, IInv, TypeOK
<1>7. /\ Append(list, b) \in Seq(BlockIds)
      /\ DOMAIN Append(list, b) = 1 .. Len(list) + 1
      /\ Len(Append(list, b)) = Len(list) + 1
      /\ DOMAIN list = 1 .. Len(list) /\ Len(list) \in Nat
      /\ \A j \in DOMAIN list : Append(list, b)[j] = list[j]
      /\ Append(list, b)[Len(list) + 1] = b
  BY <1>1
<1>8. \A g \in live_files : BlocksOf(g)' = IF g = f THEN BlocksOf(f) \cup {b} ELSE BlocksOf(g)
  <2>1. BlocksOf(f)' = BlocksOf(f) \cup {b}
    BY <1>3, <1>7 DEF BlocksOf
  <2>2. \A g \in live_files : g # f => BlocksOf(g)' = BlocksOf(g)
    BY <1>4 DEF BlocksOf, IInv, TypeOK
  <2> QED BY <2>1, <2>2
<1>9. \A g \in live_files : b \notin BlocksOf(g)
  BY <1>1, <1>2 DEF BlocksOf
<1>10. UNCHANGED <<file_list, live_files>>
  BY DEF increase_file
<1>11. BlocksAccounted'
  <2>1. \A c \in BlockIds : c \in live_blocks' <=> \E g \in live_files' : c \in BlocksOf(g)'
    BY <1>6, <1>8, <1>10 DEF IInv, BlocksAccounted
  <2>2. \A g \in live_files' :
          LET l == files'[g].block_list IN
            /\ files'[g].num_blocks = Len(l)
            /\ files'[g].last_block = IF l = << >> THEN NULL ELSE l[Len(l)]
            /\ \A j, k \in DOMAIN l : l[j] = l[k] => j = k
    <3> SUFFICES ASSUME NEW g \in live_files
                 PROVE LET l == files'[g].block_list IN
                       /\ files'[g].num_blocks = Len(l)
                       /\ files'[g].last_block = IF l = << >> THEN NULL ELSE l[Len(l)]
                       /\ \A j, k \in DOMAIN l : l[j] = l[k] => j = k
      BY <1>10
    <3>1. CASE g # f
      <4>1. files'[g] = files[g]
        BY <3>1, <1>4 DEF IInv, TypeOK
      <4> QED BY <4>1 DEF IInv, BlocksAccounted
    <3>2. CASE g = f
      <4>1. \A j, k \in DOMAIN list : list[j] = list[k] => j = k
        BY DEF IInv, BlocksAccounted
      <4>2. \A j \in DOMAIN list : list[j] # b
        BY <1>1, <1>2
      <4>3. \A j, k \in 1 .. Len(list) + 1 :
              Append(list, b)[j] = Append(list, b)[k] => j = k
        BY <1>7, <4>1, <4>2
      <4>4. Append(list, b) # << >>
        BY <1>7
      <4> QED BY <3>2, <4>3, <4>4, <1>3, <1>7
    <3> QED BY <3>1, <3>2
  <2>3. \A g, h \in live_files' : g # h => BlocksOf(g)' \cap BlocksOf(h)' = {}
    BY <1>8, <1>9, <1>10 DEF IInv, BlocksAccounted
  <2> QED BY <2>1, <2>2, <2>3 DEF BlocksAccounted
<1>12. ASSUME NEW fd \in FileDesc, Anchored(fd), InData(fd)
       PROVE  Anchored(fd)' /\ InData(fd)'
  <2>1. fd.file \in live_files' /\ fd.file \in FileIds
    BY <1>10, <1>12 DEF Anchored, FileDesc
  <2>2. CASE fd.curr_block = NULL
    BY <1>12, <2>1, <2>2 DEF Anchored, InData
  <2>3. CASE fd.curr_block # NULL
    <3>1. /\ fd.file \in live_files
          /\ fd.block_num \in DOMAIN files[fd.file].block_list
          /\ fd.curr_block = files[fd.file].block_list[fd.block_num]
      BY <1>12, <2>3 DEF Anchored
    <3>2. fd.curr_block \in BlockIds /\ fd.curr_block # b
      BY <1>1, <1>2, <3>1
    <3>3. /\ fd.block_num \in DOMAIN files'[fd.file].block_list
          /\ fd.curr_block = files'[fd.file].block_list[fd.block_num]
      <4>1. CASE fd.file = f
        BY <4>1, <3>1, <1>3, <1>7
      <4>2. CASE fd.file # f
        BY <4>2, <3>1, <2>1, <1>4
      <4> QED BY <4>1, <4>2
    <3>4. Anchored(fd)'
      BY <2>1, <2>3, <3>3 DEF Anchored
    <3>5. InData(fd)'
      BY <1>12, <1>6, <3>2 DEF InData
    <3> QED BY <3>4, <3>5
  <2> QED BY <2>2, <2>3
<1>13. blocks'[b].occupied = 0
  BY <1>6, NewRecords
<1>14. \A g \in FileIds : /\ files'[g].refs = files[g].refs
                          /\ files'[g].deleted = files[g].deleted
                          /\ files'[g].name = files[g].name
  BY <1>3, <1>4
<1> QED BY <1>3, <1>5, <1>6, <1>10, <1>11, <1>12, <1>13, <1>14

\* A step that appends a block to the file of open descriptor i and sets the
\* descriptor on it.
LEMMA MoveToNewBlockIInv ==
  ASSUME IInv, NEW i \in OpenSlots, NEW b \in BlockIds, NEW fd \in FileDesc,
         fd.file = file_descriptors[i].file,
         fd.curr_block = b, fd.block_pos = 0,
         fd.block_num = Len(files[fd.file].block_list) + 1,
         increase_file(fd.file, b), SetFd(i, fd),
         call' \in Call, CallAnchored', ufs_errcode' \in ErrorCodes, ret' \in Int
  PROVE  IInv'
<1>1. fd.file \in live_files /\ fd.file \in FileIds
  BY OpenSlotType DEF IInv, DescriptorsAnchored, Anchored, FileDesc
<1>2. TypeOK'
  BY <1>1, SetFdTable, IncreaseFile DEF IInv, TypeOK
<1>3. files[fd.file].block_list \in Seq(BlockIds)
  BY <1>1, FileType
<1>4. Anchored(fd)'
  <2>1. /\ files'[fd.file].block_list = Append(files[fd.file].block_list, b)
        /\ live_files' = live_files
    BY <1>1, IncreaseFile
  <2> DEFINE list == files[fd.file].block_list
  <2>2. list \in Seq(BlockIds)
    BY <1>3
  <2> HIDE DEF list
  <2>3. Len(list) + 1 \in DOMAIN Append(list, b) /\ Append(list, b)[Len(list) + 1] = b
    BY <2>2
  <2>4. fd.curr_block # NULL
    BY NullAssumption
  <2>5. /\ fd.block_num \in DOMAIN files'[fd.file].block_list
        /\ fd.curr_block = files'[fd.file].block_list[fd.block_num]
    BY <2>1, <2>3 DEF list
  <2> QED BY <1>1, <2>1, <2>4, <2>5 DEF Anchored
<1>5. InData(fd)'
  BY <1>1, IncreaseFile DEF InData
<1>6. DescriptorsAnchored' /\ PositionsInData'
  <2> SUFFICES ASSUME NEW s \in OpenSlots'
               PROVE  Anchored(file_descriptors[s])' /\ InData(file_descriptors[s])'
    BY DEF DescriptorsAnchored, PositionsInData
  <2>1. s \in OpenSlots
    BY SetFdTable
  <2>2. CASE s = i
    <3>1. file_descriptors'[s] = fd
      BY <2>1, <2>2, SetFdTable
    <3> QED BY <3>1, <1>4, <1>5 DEF Anchored, InData
  <2>3. CASE s # i
    <3>1. file_descriptors'[s] = file_descriptors[s] /\ file_descriptors[s] \in FileDesc
      BY <2>1, <2>3, SetFdTable, OpenSlotType DEF IInv
    <3>2. Anchored(file_descriptors[s]) /\ InData(file_descriptors[s])
      BY <2>1 DEF IInv, DescriptorsAnchored, PositionsInData
    <3>3. \A d \in FileDesc : Anchored(d) /\ InData(d) => Anchored(d)' /\ InData(d)'
      BY <1>1, IncreaseFile
    <3> QED BY <3>1, <3>2, <3>3 DEF Anchored, InData
  <2> QED BY <2>2, <2>3
<1>7. FilesAccounted'
  <2>1. UNCHANGED <<file_list, live_files>> /\ live_files \subseteq FileIds
        /\ \A g \in FileIds : files'[g].refs = files[g].refs
                              /\ files'[g].deleted = files[g].deleted
    BY <1>1, IncreaseFile DEF IInv, TypeOK
  <2> QED BY <2>1, SetFdTable DEF IInv, FilesAccounted
<1>8. BlocksAccounted'
  BY <1>1, IncreaseFile
<1> QED BY <1>2, <1>6, <1>7, <1>8, SetFdTable DEF IInv

-----------------------------------------------------------------------------
(* ufs_read and ufs_write *)

\* The record of a call that has just begun.
LEMMA StartTypes ==
  ASSUME IInv, NEW op \in {"read", "write", "grow"}, NEW i \in Nat,
         NEW buf \in Seq(Data), NEW size \in Nat, Start(op, i, buf, size)
  PROVE  /\ call' \in Call /\ ufs_errcode' \in ErrorCodes /\ ret' \in Int
         /\ call'.op = op /\ call'.fd = i /\ call'.buf = buf
         /\ call'.size = size /\ call'.done = 0
  BY DEF Start, Call, IInv, TypeOK, result

\* ufs_write up to its loop keeps the invariant, whether the descriptor had a
\* block, takes the file's first one, or gives the file one.
LEMMA WriteBeginIInv ==
  ASSUME IInv, NEW i \in FdArguments, NEW buf \in Buffers, WriteBegin(i, buf)
  PROVE  IInv'
<1> DEFINE fd == file_descriptors[i]
           list == files[fd.file].block_list
<1>1. i \in OpenSlots /\ fd \in FileDesc /\ Anchored(fd) /\ InData(fd) /\ i \in Nat
  BY OpenSlotType DEF WriteBegin, IInv, DescriptorsAnchored, PositionsInData
<1>2. buf \in Seq(Data) /\ Len(buf) \in Nat
  <2>1. buf \in Seq(Bytes)
    BY InputAssumption
  <2> QED BY <2>1 DEF Data
<1>3. /\ call' \in Call /\ ufs_errcode' \in ErrorCodes /\ ret' \in Int
      /\ call'.op = "write" /\ call'.fd = i /\ call'.done + call'.size = Len(call'.buf)
  BY <1>1, <1>2, StartTypes DEF WriteBegin
<1>4. CASE fd.curr_block # NULL /\ UNCHANGED <<store, table>>
  <2>1. CallAnchored'
    BY <1>1, <1>3, <1>4 DEF CallAnchored, OpenSlots, table
  <2> QED BY <1>3, <1>4, <2>1, FrameIInv
<1>5. CASE fd.curr_block = NULL /\ list # << >>
           /\ SetFd(i, AtFirstBlock(fd, list[1])) /\ UNCHANGED store
  <2> DEFINE new == AtFirstBlock(fd, list[1])
  <2>1. /\ new \in FileDesc /\ new.file = fd.file
        /\ Anchored(new) /\ InData(new) /\ new.curr_block # NULL
    BY <1>1, <1>5, FirstBlockOfAnchored
  <2>2. CallAnchored'
    <3>1. OpenSlots' = OpenSlots /\ file_descriptors'[i] = new
      BY <1>1, <1>5, <2>1, SetFdTable
    <3> QED BY <1>1, <1>3, <2>1, <3>1 DEF CallAnchored
  <2> QED BY <1>1, <1>3, <1>5, <2>1, <2>2, MoveIInv
<1>6. CASE fd.curr_block = NULL /\ list = << >>
           /\ \E b \in BlockIds :
                increase_file(fd.file, b) /\ SetFd(i, AtFirstBlock(fd, b))
  <2>1. PICK b \in BlockIds : increase_file(fd.file, b) /\ SetFd(i, AtFirstBlock(fd, b))
    BY <1>6
  <2> DEFINE new == AtFirstBlock(fd, b)
  <2>2. /\ new \in FileDesc /\ new.file = fd.file /\ new.curr_block = b
        /\ new.block_num = Len(files[new.file].block_list) + 1 /\ new.block_pos = 0
    <3>1. fd.block_pos = 0
      BY <1>1, <1>6 DEF Anchored
    <3>2. /\ new \in FileDesc /\ new.file = fd.file /\ new.curr_block = b
          /\ new.block_num = 1 /\ new.block_pos = fd.block_pos
      BY <1>1 DEF AtFirstBlock, FileDesc
    <3>3. Len(list) = 0
      BY <1>6
    <3> QED BY <3>1, <3>2, <3>3
  <2>3. CallAnchored'
    <3>1. OpenSlots' = OpenSlots /\ file_descriptors'[i] = new
      BY <1>1, <2>1, <2>2, SetFdTable
    <3> QED BY <1>1, <1>3, <2>2, <3>1, NullAssumption DEF CallAnchored
  <2> QED BY <1>1, <1>3, <2>1, <2>2, <2>3, MoveToNewBlockIInv
<1> QED BY <1>4, <1>5, <1>6 DEF WriteBegin

\* ufs_read up to its loop keeps the invariant: the descriptor takes the
\* file's first block if it had none.
LEMMA ReadBeginIInv ==
  ASSUME IInv, NEW i \in FdArguments, NEW size \in ReadSizes, ReadBegin(i, size)
  PROVE  IInv'
<1> DEFINE fd == file_descriptors[i]
           list == files[fd.file].block_list
<1>1. i \in OpenSlots /\ fd \in FileDesc /\ i \in Nat /\ size \in Nat
  BY OpenSlotType, InputAssumption DEF ReadBegin, IInv
<1>2. /\ call' \in Call /\ ufs_errcode' \in ErrorCodes /\ ret' \in Int
      /\ call'.op = "read" /\ call'.fd = i
  <2>1. << >> \in Seq(Data) /\ Start("read", i, << >>, size)
    BY DEF ReadBegin
  <2> QED BY <1>1, <2>1, StartTypes
<1>3. UNCHANGED store
  BY DEF ReadBegin
<1>4. CASE fd.curr_block # NULL /\ UNCHANGED table
  <2>1. CallAnchored'
    BY <1>1, <1>2, <1>4 DEF CallAnchored, OpenSlots, table
  <2> QED BY <1>2, <1>3, <1>4, <2>1, FrameIInv
<1>5. CASE fd.curr_block = NULL /\ list # << >> /\ SetFd(i, AtFirstBlock(fd, list[1]))
  <2> DEFINE new == AtFirstBlock(fd, list[1])
  <2>1. /\ new \in FileDesc /\ new.file = fd.file
        /\ Anchored(new) /\ InData(new) /\ new.curr_block # NULL
    BY <1>1, <1>5, FirstBlockOfAnchored
  <2>2. CallAnchored'
    <3>1. OpenSlots' = OpenSlots /\ file_descriptors'[i] = new
      BY <1>1, <1>5, <2>1, SetFdTable
    <3> QED BY <1>1, <1>2, <2>1, <3>1 DEF CallAnchored
  <2> QED BY <1>1, <1>2, <1>3, <1>5, <2>1, <2>2, MoveIInv
<1> QED BY <1>4, <1>5 DEF ReadBegin

\* A descriptor set on another block is a descriptor.
LEMMA AtNextBlockType ==
  ASSUME NEW fd \in FileDesc, NEW b \in BlockIds
  PROVE  LET new == AtNextBlock(fd, b) IN
         /\ new \in FileDesc /\ new.file = fd.file /\ new.curr_block = b
         /\ new.block_num = fd.block_num + 1 /\ new.block_pos = 0
<1>1. fd.block_num + 1 \in Nat /\ 0 \in 0 .. BLOCK_SIZE
  BY BlockSizePositive DEF FileDesc
<1>2. AtNextBlock(fd, b) =
        [fd EXCEPT !.curr_block = b, !.block_num = fd.block_num + 1, !.block_pos = 0]
  BY DEF AtNextBlock, FileDesc
<1> QED BY <1>1, <1>2 DEF FileDesc

\* A descriptor on a block that has a next one may be set on that.
LEMMA NextBlockOfAnchored ==
  ASSUME IInv, NEW fd \in FileDesc, Anchored(fd), fd.curr_block # NULL,
         NextBlock(fd.file, fd.curr_block) # NULL
  PROVE  LET new == AtNextBlock(fd, NextBlock(fd.file, fd.curr_block))
         IN /\ new \in FileDesc /\ new.file = fd.file
            /\ Anchored(new) /\ InData(new) /\ new.curr_block # NULL
<1> DEFINE next == NextBlock(fd.file, fd.curr_block)
           list == files[fd.file].block_list
           new == AtNextBlock(fd, next)
<1>1. /\ fd.block_num + 1 \in DOMAIN list /\ next = list[fd.block_num + 1]
      /\ next \in BlockIds /\ fd.block_num \in Nat
  BY NextOfAnchored DEF FileDesc
<1>2. /\ new \in FileDesc /\ new.file = fd.file /\ new.curr_block = next
      /\ new.block_num = fd.block_num + 1 /\ new.block_pos = 0
  BY <1>1, AtNextBlockType
<1>3. Anchored(new)
  BY <1>1, <1>2, NullAssumption DEF Anchored
<1>4. InData(new)
  BY <1>1, <1>2 DEF InData, IInv, TypeOK, Block
<1> QED BY <1>1, <1>2, <1>3, <1>4, NullAssumption

\* Going to the next block in ufs_write, one added if missing, keeps the
\* invariant.
LEMMA WriteNextBlockIInv ==
  ASSUME IInv, WriteNextBlock
  PROVE  IInv'
<1> DEFINE fd == file_descriptors[call.fd]
           next == NextBlock(fd.file, fd.curr_block)
<1>1. /\ call.fd \in OpenSlots /\ fd \in FileDesc /\ Anchored(fd)
      /\ fd.curr_block # NULL
  BY CallDescriptor DEF WriteNextBlock
<1>2. UNCHANGED call /\ call \in Call /\ ufs_errcode' \in ErrorCodes /\ ret' \in Int
  BY DEF WriteNextBlock, result, IInv, TypeOK
<1>3. ASSUME NEW new \in FileDesc, new.file = fd.file, new.curr_block # NULL,
             SetFd(call.fd, new)
      PROVE  CallAnchored'
  <2>1. OpenSlots' = OpenSlots /\ file_descriptors'[call.fd] = new
    BY <1>1, <1>3, SetFdTable
  <2> QED BY <1>2, <1>3, <2>1 DEF IInv, CallAnchored
<1>4. CASE next # NULL /\ SetFd(call.fd, AtNextBlock(fd, next)) /\ UNCHANGED store
  <2> DEFINE new == AtNextBlock(fd, next)
  <2>1. /\ new \in FileDesc /\ new.file = fd.file
        /\ Anchored(new) /\ InData(new) /\ new.curr_block # NULL
    BY <1>1, <1>4, NextBlockOfAnchored
  <2> QED BY <1>1, <1>2, <1>3, <1>4, <2>1, MoveIInv
<1>5. CASE next = NULL
           /\ \E b \in BlockIds :
                increase_file(fd.file, b) /\ SetFd(call.fd, AtNextBlock(fd, b))
  <2>1. PICK b \in BlockIds : increase_file(fd.file, b) /\ SetFd(call.fd, AtNextBlock(fd, b))
    BY <1>5
  <2> DEFINE new == AtNextBlock(fd, b)
  <2>2. fd.block_num = Len(files[fd.file].block_list) /\ fd.block_num \in Nat
    BY <1>1, <1>5, NextOfAnchored DEF FileDesc
  <2>3. /\ new \in FileDesc /\ new.file = fd.file /\ new.curr_block = b
        /\ new.block_num = fd.block_num + 1 /\ new.block_pos = 0
    BY <1>1, AtNextBlockType
  <2>4. new.curr_block # NULL
    BY <2>3, NullAssumption
  <2> QED BY <1>1, <1>2, <1>3, <2>1, <2>2, <2>3, <2>4, MoveToNewBlockIInv
<1> QED BY <1>4, <1>5 DEF WriteNextBlock

\* Going to the next block in ufs_read keeps the invariant.
LEMMA ReadNextBlockIInv ==
  ASSUME IInv, ReadNextBlock
  PROVE  IInv'
<1> DEFINE fd == file_descriptors[call.fd]
           new == AtNextBlock(fd, NextBlock(fd.file, fd.curr_block))
<1>1. /\ call.fd \in OpenSlots /\ fd \in FileDesc /\ Anchored(fd)
      /\ fd.curr_block # NULL
  BY CallDescriptor DEF ReadNextBlock
<1>2. /\ UNCHANGED call /\ call \in Call /\ ufs_errcode' \in ErrorCodes
      /\ ret' \in Int /\ UNCHANGED store /\ SetFd(call.fd, new)
  BY DEF ReadNextBlock, result, IInv, TypeOK
<1>3. /\ new \in FileDesc /\ new.file = fd.file
      /\ Anchored(new) /\ InData(new) /\ new.curr_block # NULL
  BY <1>1, NextBlockOfAnchored DEF ReadNextBlock
<1>4. OpenSlots' = OpenSlots /\ file_descriptors'[call.fd] = new
  BY <1>1, <1>2, <1>3, SetFdTable
<1>5. CallAnchored'
  BY <1>2, <1>3, <1>4 DEF IInv, CallAnchored
<1> QED BY <1>1, <1>2, <1>3, <1>5, MoveIInv

\* Copying bytes out of a block keeps the invariant: block_pos stays within
\* the bytes the block holds.
LEMMA ReadChunkIInv ==
  ASSUME IInv, ReadChunk
  PROVE  IInv'
<1> DEFINE fd == file_descriptors[call.fd]
           b == fd.curr_block
           pos == fd.block_pos
           k == Smaller(call.size, Available(b, pos))
           chunk == [j \in 1 .. k |-> blocks[b].memory[pos + j - 1]]
           new == [fd EXCEPT !.block_pos = @ + k]
<1>1. /\ call.fd \in OpenSlots /\ fd \in FileDesc /\ Anchored(fd) /\ InData(fd)
      /\ b # NULL /\ blocks[b] \in Block
  BY CallDescriptor DEF ReadChunk
<1>2. /\ SetFd(call.fd, new) /\ UNCHANGED store
      /\ ufs_errcode' \in ErrorCodes /\ ret' \in Int
      /\ call' = [call EXCEPT !.buf = @ \o chunk, !.size = @ - k, !.done = @ + k]
      /\ call.op = "read" /\ call \in Call
  BY DEF ReadChunk, result, IInv, TypeOK
<1>3. /\ pos \in Nat /\ pos <= blocks[b].occupied /\ blocks[b].occupied \in 0 .. BLOCK_SIZE
      /\ call.size \in Nat /\ call.done \in Nat /\ call.buf \in Seq(Data)
  BY <1>1, <1>2 DEF InData, Block, FileDesc, Call
<1> HIDE DEF fd, b, pos
<1>4. k \in Nat /\ k <= call.size /\ pos + k <= blocks[b].occupied
  BY <1>3, BlockSizePositive DEF Smaller, Available
<1> HIDE DEF k
<1>5. chunk \in Seq(Data)
  <2>1. blocks[b].memory \in [Offsets -> Data]
    BY <1>1 DEF Block
  <2>2. \A j \in 1 .. k : pos + j - 1 \in Offsets
    <3> SUFFICES ASSUME NEW j \in 1 .. k
                 PROVE  pos + j - 1 \in Offsets
      OBVIOUS
    <3> QED BY <1>3, <1>4, BlockSizePositive DEF Offsets
  <2>3. \A j \in 1 .. k : blocks[b].memory[pos + j - 1] \in Data
    BY <2>1, <2>2
  <2> QED BY <1>4, <2>3
<1>6. /\ new \in FileDesc /\ new.file = fd.file /\ new.curr_block = b
      /\ new.block_num = fd.block_num /\ new.block_pos = pos + k
  <2>1. pos + k \in 0 .. BLOCK_SIZE
    BY <1>3, <1>4, BlockSizePositive
  <2> QED BY <1>1, <2>1 DEF FileDesc, b, pos
<1>7. Anchored(new) /\ InData(new)
  <2>1. Anchored(new)
    BY <1>1, <1>6 DEF Anchored, b
  <2>2. InData(new)
    BY <1>1, <1>4, <1>6 DEF InData
  <2> QED BY <2>1, <2>2
<1>8. call' \in Call /\ call'.op = "read" /\ call'.fd = call.fd
  <2> HIDE DEF chunk
  <2>1. call.buf \o chunk \in Seq(Data)
    BY <1>3, <1>5
  <2>2. call.size - k \in Nat /\ call.done + k \in Nat
    BY <1>3, <1>4
  <2> QED BY <1>2, <2>1, <2>2 DEF Call
<1> HIDE DEF new
<1>9. CallAnchored'
  <2>1. OpenSlots' = OpenSlots /\ file_descriptors'[call.fd] = new
    BY <1>1, <1>2, <1>6, SetFdTable DEF fd
  <2> QED BY <1>1, <1>6, <1>8, <2>1 DEF CallAnchored
<1>10. new.file = file_descriptors[call.fd].file
  BY <1>6 DEF fd
<1> QED BY <1>1, <1>2, <1>6, <1>7, <1>8, <1>9, <1>10, MoveIInv

\* memcpy() inside the block: the copy keeps to the block and to the buffer.
LEMMA FilledType ==
  ASSUME NEW block \in Block, NEW pos \in Nat, NEW k \in Nat, pos + k <= BLOCK_SIZE,
         NEW buf \in Seq(Data), NEW from \in Nat, from + k <= Len(buf)
  PROVE  LET new == Filled(block, pos, buf, from, k) IN
         /\ new \in Block
         /\ new.occupied >= block.occupied /\ new.occupied >= pos + k
<1> DEFINE memory == [j \in Offsets |-> IF j \in pos .. pos + k - 1
                                          THEN buf[from + 1 + j - pos]
                                          ELSE block.memory[j]]
           occupied == Larger(block.occupied, pos + k)
<1>1. block.occupied \in 0 .. BLOCK_SIZE /\ block.memory \in [Offsets -> Data]
  BY DEF Block
<1>2. \A j \in pos .. pos + k - 1 : from + 1 + j - pos \in 1 .. Len(buf)
  OBVIOUS
<1>3. \A j \in pos .. pos + k - 1 : buf[from + 1 + j - pos] \in Data
  BY <1>2
<1>4. memory \in [Offsets -> Data]
  BY <1>1, <1>3
<1>5. /\ occupied \in 0 .. BLOCK_SIZE
      /\ occupied >= block.occupied /\ occupied >= pos + k
  BY <1>1, BlockSizePositive DEF Larger
<1>6. Filled(block, pos, buf, from, k) = [occupied |-> occupied, memory |-> memory]
  BY DEF Filled
<1> HIDE DEF memory, occupied
<1> QED BY <1>4, <1>5, <1>6 DEF Block

\* Copying bytes into a block keeps the invariant: block_pos goes no further
\* than occupied, and occupied no further than BLOCK_SIZE.
LEMMA WriteChunkIInv ==
  ASSUME IInv, WriteChunk
  PROVE  IInv'
<1> DEFINE fd == file_descriptors[call.fd]
           b == fd.curr_block
           pos == fd.block_pos
           k == Smaller(call.size, FreeBytes(b))
           new == [fd EXCEPT !.block_pos = @ + k]
           filled == Filled(blocks[b], pos, call.buf, call.done, k)
<1>1. /\ call.fd \in OpenSlots /\ fd \in FileDesc /\ Anchored(fd) /\ InData(fd)
      /\ b # NULL /\ b \in BlockIds /\ blocks[b] \in Block
  BY CallDescriptor DEF WriteChunk
<1>2. /\ SetFd(call.fd, new) /\ blocks' = [blocks EXCEPT ![b] = filled]
      /\ UNCHANGED <<file_list, files, live_files, live_blocks>>
      /\ ufs_errcode' \in ErrorCodes /\ ret' \in Int
      /\ call' = [call EXCEPT !.size = @ - k, !.done = @ + k]
      /\ call.op = "write" /\ call \in Call
  BY DEF WriteChunk, result, IInv, TypeOK
<1>3. /\ pos \in Nat /\ pos <= blocks[b].occupied /\ blocks[b].occupied \in 0 .. BLOCK_SIZE
      /\ call.size \in Nat /\ call.done \in Nat /\ call.buf \in Seq(Data)
      /\ call.done + call.size = Len(call.buf)
  BY <1>1, <1>2 DEF InData, Block, FileDesc, Call, IInv, CallAnchored
<1>4. k \in Nat /\ k <= call.size /\ pos + k <= BLOCK_SIZE
  <2> HIDE DEF pos, b
  <2> QED BY <1>3, BlockSizePositive DEF Smaller, FreeBytes
<1>5. /\ new \in FileDesc /\ new.file = fd.file /\ new.curr_block = b
      /\ new.block_num = fd.block_num /\ new.block_pos = pos + k
  <2>1. fd.block_pos + k \in 0 .. BLOCK_SIZE
    <3> HIDE DEF k, fd
    <3> QED BY <1>3, <1>4, BlockSizePositive
  <2> HIDE DEF k, fd
  <2> QED BY <1>1, <2>1 DEF FileDesc
<1>6. /\ filled \in Block /\ filled.occupied >= blocks[b].occupied
      /\ filled.occupied >= pos + k
  <2>1. call.done + k <= Len(call.buf)
    BY <1>3, <1>4
  <2> HIDE DEF k
  <2>2. /\ pos \in Nat /\ k \in Nat /\ call.buf \in Seq(Data) /\ call.done \in Nat
        /\ blocks[b] \in Block
    BY <1>1, <1>3, <1>4
  <2> QED BY <2>1, <2>2, <1>4, FilledType
<1>7. call' \in Call /\ call'.op = "write" /\ call'.fd = call.fd
      /\ call'.done + call'.size = Len(call'.buf)
  <2>1. /\ call.size - k \in Nat /\ call.done + k \in Nat
        /\ (call.done + k) + (call.size - k) = Len(call.buf)
    BY <1>3, <1>4
  <2> HIDE DEF k
  <2>2. /\ call'.op = call.op /\ call'.fd = call.fd /\ call'.buf = call.buf
        /\ call'.size = call.size - k /\ call'.done = call.done + k
    BY <1>2 DEF Call
  <2>3. call' \in Call
    BY <1>2, <2>1 DEF Call
  <2> QED BY <1>2, <2>1, <2>2, <2>3
<1> HIDE DEF k, filled, new
<1>8. /\ OpenSlots' = OpenSlots
      /\ \A s \in OpenSlots :
           file_descriptors'[s] = IF s = call.fd THEN new ELSE file_descriptors[s]
  BY <1>1, <1>2, <1>5, SetFdTable
<1>9. /\ blocks' \in [BlockIds -> Block] /\ blocks'[b] = filled
      /\ \A c \in BlockIds : c # b => blocks'[c] = blocks[c]
  BY <1>1, <1>2, <1>6 DEF IInv, TypeOK
<1>10. TypeOK'
  BY <1>1, <1>2, <1>5, <1>7, <1>9, SetFdTable DEF IInv, TypeOK
<1>11. DescriptorsAnchored'
  BY <1>1, <1>2, <1>5, <1>8 DEF IInv, DescriptorsAnchored, Anchored
<1>12. PositionsInData'
  <2> SUFFICES ASSUME NEW s \in OpenSlots, file_descriptors'[s].curr_block # NULL
               PROVE  file_descriptors'[s].block_pos
                        <= blocks'[file_descriptors'[s].curr_block].occupied
    BY <1>8 DEF PositionsInData, InData
  <2>1. CASE s = call.fd
    BY <2>1, <1>1, <1>5, <1>6, <1>8, <1>9
  <2>2. CASE s # call.fd
    <3> DEFINE d == file_descriptors[s]
    <3>1. /\ file_descriptors'[s] = d /\ d \in FileDesc /\ d.curr_block # NULL
          /\ d.block_pos <= blocks[d.curr_block].occupied
      BY <2>2, <1>8, OpenSlotType DEF IInv, PositionsInData, InData
    <3>2. d.curr_block \in BlockIds /\ d.block_pos \in Int
      BY <3>1 DEF FileDesc
    <3>3. CASE d.curr_block = b
      BY <3>1, <3>2, <3>3, <1>1, <1>3, <1>6, <1>9 DEF Block
    <3>4. CASE d.curr_block # b
      BY <3>1, <3>2, <3>4, <1>9
    <3> QED BY <3>3, <3>4
  <2> QED BY <2>1, <2>2
<1>13. FilesAccounted'
  BY <1>1, <1>2, <1>5, SetFdTable DEF IInv, FilesAccounted
<1>14. BlocksAccounted'
  <2>1. \A f : BlocksOf(f)' = BlocksOf(f)
    BY <1>2 DEF BlocksOf
  <2> QED BY <1>2, <2>1 DEF IInv, BlocksAccounted
<1>15. CallAnchored'
  BY <1>1, <1>5, <1>7, <1>8 DEF CallAnchored
<1>16. TableAccounted'
  BY <1>1, <1>2, <1>5, SetFdTable
<1> QED BY <1>10, <1>11, <1>12, <1>13, <1>14, <1>15, <1>16 DEF IInv

\* The ends of the loops, and the calls that return at once.
LEMMA ReturnsIInv ==
  ASSUME IInv, \/ WriteEnd \/ ReadEnd \/ ReadEof \/ GrowEnd
               \/ \E i \in FdArguments : ReadAtOnce(i) \/ CloseFails(i)
               \/ \E i \in FdArguments, buf \in Buffers : WriteFails(i, buf)
               \/ \E i \in FdArguments, size \in NewSizes : ResizeFails(i, size)
               \/ \E n \in FileNames : DeleteFails(n)
               \/ \E n \in FileNames, flags \in OpenFlags : OpenMissing(n, flags)
  PROVE  IInv'
<1>1. \A v \in Int, e \in ErrorCodes :
        Return(v, e) /\ UNCHANGED <<store, table>> => IInv'
  BY FrameIInv, ReturnTypes
<1>2. \A e \in ErrorCodes : Fail(e) => IInv'
  BY FailIInv
<1>3. /\ ufs_errcode \in ErrorCodes /\ call.done \in Int
      /\ {"UFS_ERR_NO_ERR", "UFS_ERR_NO_FILE", "UFS_ERR_NO_MEM",
          "UFS_ERR_NO_PERMISSION"} = ErrorCodes
  BY DEF IInv, TypeOK, Call, ErrorCodes
<1>4. CASE WriteEnd
  BY <1>1, <1>3, <1>4 DEF WriteEnd
<1>5. CASE ReadEnd
  BY <1>1, <1>3, <1>5 DEF ReadEnd
<1>6. CASE ReadEof
  BY <1>1, <1>3, <1>6 DEF ReadEof
<1>7. CASE GrowEnd
  BY <1>1, <1>3, <1>7 DEF GrowEnd
<1>8. CASE \E i \in FdArguments : ReadAtOnce(i) \/ CloseFails(i)
  BY <1>1, <1>2, <1>3, <1>8 DEF ReadAtOnce, CloseFails
<1>9. CASE \E i \in FdArguments, buf \in Buffers : WriteFails(i, buf)
  BY <1>2, <1>3, <1>9 DEF WriteFails
<1>10. CASE \E i \in FdArguments, size \in NewSizes : ResizeFails(i, size)
  BY <1>2, <1>3, <1>10 DEF ResizeFails
<1>11. CASE \E n \in FileNames : DeleteFails(n)
  BY <1>2, <1>3, <1>11 DEF DeleteFails
<1>12. CASE \E n \in FileNames, flags \in OpenFlags : OpenMissing(n, flags)
  BY <1>2, <1>3, <1>12 DEF OpenMissing
<1> QED BY <1>4, <1>5, <1>6, <1>7, <1>8, <1>9, <1>10, <1>11, <1>12

-----------------------------------------------------------------------------
(* ufs_resize: growing, and the crash *)

\* The number of blocks for a size is a natural number.
LEMMA NewNumBlocksType ==
  ASSUME NEW n \in Nat
  PROVE  new_num_blocks(n) \in Nat
<1>1. n \div BLOCK_SIZE \in Nat
  BY BlockSizePositive
<1> QED BY <1>1 DEF new_num_blocks

\* ufs_resize to a larger size keeps the invariant up to its loop.
LEMMA GrowBeginIInv ==
  ASSUME IInv, NEW i \in FdArguments, NEW new_size \in NewSizes, GrowBegin(i, new_size)
  PROVE  IInv'
<1> DEFINE n == new_num_blocks(new_size)
<1>1. i \in OpenSlots /\ i \in Nat
  BY OpenSlotType DEF GrowBegin, Resizable, IInv
<1>2. n \in Nat /\ << >> \in Seq(Data)
  BY InputAssumption, NewNumBlocksType
<1>3. Start("grow", i, << >>, n) /\ UNCHANGED <<store, table>>
  BY DEF GrowBegin
<1> HIDE DEF n
<1>4. /\ call' \in Call /\ ufs_errcode' \in ErrorCodes /\ ret' \in Int
      /\ call'.op = "grow" /\ call'.fd = i
  BY <1>1, <1>2, <1>3, StartTypes
<1>5. CallAnchored'
  BY <1>1, <1>3, <1>4 DEF CallAnchored, OpenSlots, table
<1> QED BY <1>3, <1>4, <1>5, FrameIInv

\* Adding one block in the growing ufs_resize keeps the invariant.
LEMMA GrowBlockIInv ==
  ASSUME IInv, GrowBlock
  PROVE  IInv'
<1> DEFINE f == file_descriptors[call.fd].file
<1>1. PICK b \in BlockIds : increase_file(f, b)
  BY DEF GrowBlock
<1>2. f \in live_files
  BY DEF GrowBlock, IInv, CallAnchored, DescriptorsAnchored, Anchored
<1>3. UNCHANGED <<file_descriptors, file_descriptor_count, ufs_errcode, ret, call>>
  BY DEF GrowBlock, table, result
<1>4. OpenSlots' = OpenSlots /\ \A g : DescriptorsOf(g)' = DescriptorsOf(g)
  BY <1>3 DEF OpenSlots, DescriptorsOf
<1>5. TypeOK'
  BY <1>1, <1>2, <1>3, IncreaseFile DEF IInv, TypeOK
<1>6. DescriptorsAnchored' /\ PositionsInData'
  <2>1. \A d \in FileDesc : Anchored(d) /\ InData(d) => Anchored(d)' /\ InData(d)'
    BY <1>1, <1>2, IncreaseFile
  <2>2. \A s \in OpenSlots : file_descriptors[s] \in FileDesc
    BY OpenSlotType DEF IInv
  <2>3. \A s \in OpenSlots :
          Anchored(file_descriptors[s])' /\ InData(file_descriptors[s])'
    <3> TAKE s \in OpenSlots
    <3>1. Anchored(file_descriptors[s]) /\ InData(file_descriptors[s])
      BY DEF IInv, DescriptorsAnchored, PositionsInData
    <3>2. file_descriptors'[s] = file_descriptors[s]
      BY <1>3
    <3> QED BY <2>1, <2>2, <3>1, <3>2 DEF Anchored, InData
  <2> QED BY <1>4, <2>3 DEF DescriptorsAnchored, PositionsInData
<1>7. FilesAccounted'
  <2>1. UNCHANGED <<file_list, live_files>> /\ live_files \subseteq FileIds
        /\ \A g \in FileIds : files'[g].refs = files[g].refs
                              /\ files'[g].deleted = files[g].deleted
    BY <1>1, <1>2, IncreaseFile DEF IInv, TypeOK
  <2> QED BY <2>1, <1>4 DEF IInv, FilesAccounted
<1>8. BlocksAccounted'
  BY <1>1, <1>2, IncreaseFile
<1>9. TableAccounted' /\ CallAnchored'
  BY <1>3, <1>4 DEF IInv, TableAccounted, CallAnchored, capacity
<1> QED BY <1>5, <1>6, <1>7, <1>8, <1>9 DEF IInv

\* The crash of ufs_resize to 0 leaves memory as it was.
LEMMA ShrinkToNothingIInv ==
  ASSUME IInv, NEW i \in FdArguments, NEW new_size \in NewSizes,
         ShrinkToNothing(i, new_size)
  PROVE  IInv'
<1>1. /\ UNCHANGED <<store, table>> /\ call' = [Idle EXCEPT !.op = "crashed"]
      /\ ufs_errcode' \in ErrorCodes /\ ret' \in Int
  BY DEF ShrinkToNothing, result, IInv, TypeOK
<1>2. call' \in Call /\ CallAnchored'
  <2>1. call' = [op |-> "crashed", fd |-> 0, buf |-> << >>, size |-> 0, done |-> 0]
    BY <1>1 DEF Idle
  <2> QED BY <2>1 DEF Call, CallAnchored
<1> QED BY <1>1, <1>2, FrameIInv

-----------------------------------------------------------------------------
(* ufs_close and ufs_delete *)

\* Freeing a file frees no block of another, and leaves the descriptors of
\* other files in place.
LEMMA DeleteFile ==
  ASSUME IInv, NEW f \in live_files, delete_file(f)
  PROVE  /\ files' \in [FileIds -> File] /\ blocks' \in [BlockIds -> Block]
         /\ live_blocks' \subseteq BlockIds /\ live_files' = live_files \ {f}
         /\ \A g \in live_files' : files'[g] = files[g]
         /\ BlocksAccounted'
         /\ \A fd \in FileDesc : fd.file # f /\ Anchored(fd) /\ InData(fd)
              => Anchored(fd)' /\ InData(fd)'
<1>1. /\ f \in FileIds /\ live_files \subseteq FileIds /\ live_blocks \subseteq BlockIds
      /\ live_files' = live_files \ {f} /\ live_blocks' = live_blocks \ BlocksOf(f)
  BY DEF delete_file, IInv, TypeOK
<1>2. files' \in [FileIds -> File] /\ \A g \in FileIds : g # f => files'[g] = files[g]
  BY NewRecords DEF delete_file, FreedFile, IInv, TypeOK
<1>3. /\ blocks' \in [BlockIds -> Block]
      /\ \A c \in BlockIds : c \notin BlocksOf(f) => blocks'[c] = blocks[c]
  BY NewRecords DEF delete_file, Scrubbed, IInv, TypeOK
<1>4. \A g \in live_files' : g \in live_files /\ g # f /\ files'[g] = files[g]
                             /\ BlocksOf(g)' = BlocksOf(g)
  BY <1>1, <1>2 DEF BlocksOf
<1>5. BlocksAccounted'
  <2>1. \A c \in BlockIds : c \in live_blocks' <=> \E g \in live_files' : c \in BlocksOf(g)'
    BY <1>1, <1>4 DEF IInv, BlocksAccounted
  <2>2. \A g \in live_files' :
          LET l == files'[g].block_list IN
            /\ files'[g].num_blocks = Len(l)
            /\ files'[g].last_block = IF l = << >> THEN NULL ELSE l[Len(l)]
            /\ \A j, k \in DOMAIN l : l[j] = l[k] => j = k
    BY <1>4 DEF IInv, BlocksAccounted
  <2>3. \A g, h \in live_files' : g # h => BlocksOf(g)' \cap BlocksOf(h)' = {}
    BY <1>4 DEF IInv, BlocksAccounted
  <2> QED BY <2>1, <2>2, <2>3 DEF BlocksAccounted
<1>6. ASSUME NEW fd \in FileDesc, fd.file # f, Anchored(fd), InData(fd)
      PROVE  Anchored(fd)' /\ InData(fd)'
  <2>1. fd.file \in live_files' /\ files'[fd.file] = files[fd.file]
    BY <1>1, <1>4, <1>6 DEF Anchored
  <2>2. Anchored(fd)'
    BY <1>6, <2>1 DEF Anchored
  <2>3. ASSUME fd.curr_block # NULL
        PROVE  fd.curr_block \in BlockIds /\ fd.curr_block \notin BlocksOf(f)
    <3>1. fd.file \in live_files /\ fd.curr_block \in BlocksOf(fd.file)
      BY <1>6, <2>3 DEF Anchored, BlocksOf
    <3> QED BY <3>1, <1>6, <2>3 DEF IInv, BlocksAccounted, FileDesc
  <2>4. InData(fd)'
    BY <1>3, <1>6, <2>3 DEF InData
  <2> QED BY <2>2, <2>4
<1> QED BY <1>1, <1>2, <1>3, <1>4, <1>5, <1>6

\* Changing the name, refs or deleted of a file moves no block and no descriptor.
LEMMA RelabelFile ==
  ASSUME IInv, NEW f \in live_files, NEW file \in File,
         file.block_list = files[f].block_list,
         file.num_blocks = files[f].num_blocks,
         file.last_block = files[f].last_block,
         files' = [files EXCEPT ![f] = file],
         UNCHANGED <<live_files, heap>>
  PROVE  /\ files' \in [FileIds -> File]
         /\ blocks' \in [BlockIds -> Block] /\ live_blocks' \subseteq BlockIds
         /\ live_files' \subseteq FileIds
         /\ files'[f] = file /\ \A g \in FileIds : g # f => files'[g] = files[g]
         /\ BlocksAccounted'
         /\ \A fd \in FileDesc :
              Anchored(fd) /\ InData(fd) => Anchored(fd)' /\ InData(fd)'
<1>1. /\ f \in FileIds /\ live_files \subseteq FileIds
      /\ UNCHANGED <<live_files, blocks, live_blocks>>
  BY DEF IInv, TypeOK, heap
<1>2. /\ files' \in [FileIds -> File]
      /\ files'[f] = file /\ \A g \in FileIds : g # f => files'[g] = files[g]
  BY <1>1 DEF IInv, TypeOK
<1>3. \A g \in FileIds : /\ files'[g].block_list = files[g].block_list
                         /\ files'[g].num_blocks = files[g].num_blocks
                         /\ files'[g].last_block = files[g].last_block
  BY <1>2
<1>4. \A g \in live_files : BlocksOf(g)' = BlocksOf(g)
  BY <1>1, <1>3 DEF BlocksOf
<1>5. BlocksAccounted'
  BY <1>1, <1>3, <1>4 DEF IInv, BlocksAccounted
<1>6. \A fd \in FileDesc :
        Anchored(fd) /\ InData(fd) => Anchored(fd)' /\ InData(fd)'
  BY <1>1, <1>3 DEF Anchored, InData, FileDesc
<1> QED BY <1>1, <1>2, <1>5, <1>6 DEF IInv, TypeOK

\* An array of descriptors has finitely many used slots.
LEMMA UsedSlotsFinite ==
  ASSUME NEW t \in Seq(FileDesc \cup {NULL})
  PROVE  /\ IsFiniteSet({i \in DOMAIN t : t[i] # NULL})
         /\ Cardinality({i \in DOMAIN t : t[i] # NULL}) <= Len(t)
         /\ Cardinality({i \in DOMAIN t : t[i] # NULL}) \in Nat
         /\ Cardinality({i \in DOMAIN t : t[i] # NULL}) = Len(t)
              => \A i \in DOMAIN t : t[i] # NULL
<1> DEFINE used == {i \in DOMAIN t : t[i] # NULL}
<1>1. used \subseteq 1 .. Len(t) /\ Len(t) \in Nat /\ DOMAIN t = 1 .. Len(t)
  OBVIOUS
<1>2. IsFiniteSet(1 .. Len(t)) /\ Cardinality(1 .. Len(t)) = Len(t)
  <2>1. PICK n \in Nat : n = Len(t)
    BY <1>1
  <2>2. IsFiniteSet(1 .. n) /\ Cardinality(1 .. n) = n
    BY FS_Interval
  <2> QED BY <2>1, <2>2
<1>3. /\ IsFiniteSet(used) /\ Cardinality(used) <= Cardinality(1 .. Len(t))
      /\ (Cardinality(used) = Cardinality(1 .. Len(t)) => used = 1 .. Len(t))
  BY <1>1, <1>2, FS_Subset
<1> QED BY <1>1, <1>2, <1>3, FS_CardinalityType

\* Clearing a slot: what is left of the table.
LEMMA ClearSlot ==
  ASSUME IInv, NEW i \in OpenSlots,
         file_descriptors' = [file_descriptors EXCEPT ![i] = NULL],
         file_descriptor_count' = file_descriptor_count - 1
  PROVE  /\ OpenSlots' = OpenSlots \ {i}
         /\ \A s \in OpenSlots' : file_descriptors'[s] = file_descriptors[s]
         /\ \A g : DescriptorsOf(g)' = DescriptorsOf(g) \ {i}
         /\ file_descriptors' \in Seq(FileDesc \cup {NULL})
         /\ file_descriptor_count' \in Nat
         /\ TableAccounted'
<1>1. /\ file_descriptors \in Seq(FileDesc \cup {NULL}) /\ file_descriptor_count \in Nat
      /\ i \in DOMAIN file_descriptors
  BY OpenSlotType DEF IInv, TypeOK
<1>2. /\ file_descriptors' \in Seq(FileDesc \cup {NULL})
      /\ DOMAIN file_descriptors' = DOMAIN file_descriptors
      /\ Len(file_descriptors') = Len(file_descriptors)
      /\ file_descriptors'[i] = NULL
      /\ \A s \in DOMAIN file_descriptors : s # i => file_descriptors'[s] = file_descriptors[s]
  BY <1>1
<1>3. OpenSlots' = OpenSlots \ {i}
  BY <1>1, <1>2 DEF OpenSlots
<1>4. \A s \in OpenSlots' : s # i /\ file_descriptors'[s] = file_descriptors[s]
  BY <1>2, <1>3 DEF OpenSlots
<1>5. \A g : DescriptorsOf(g)' = DescriptorsOf(g) \ {i}
  BY <1>3, <1>4 DEF DescriptorsOf
<1>6. /\ Cardinality(OpenSlots') = Cardinality(OpenSlots) - 1
      /\ Cardinality(OpenSlots') \in Nat
  BY <1>3, FS_RemoveElement, FS_CardinalityType, OpenSlotsFinite DEF IInv
<1>7. TableAccounted' /\ file_descriptor_count' \in Nat
  BY <1>1, <1>2, <1>6 DEF IInv, TableAccounted, capacity
<1> QED BY <1>2, <1>3, <1>4, <1>5, <1>7

\* ufs_close keeps the invariant, whether or not it frees the file.
LEMMA CloseIInv ==
  ASSUME IInv, NEW i \in FdArguments, Close(i)
  PROVE  IInv'
<1>0. PICK f \in FileIds : f = file_descriptors[i].file
  BY OpenSlotType DEF Close, IInv, FileDesc
<1>1. /\ i \in OpenSlots
      /\ file_descriptors' = [file_descriptors EXCEPT ![i] = NULL]
      /\ file_descriptor_count' = file_descriptor_count - 1
      /\ UNCHANGED file_list
  BY DEF Close
<1>2. f \in live_files /\ f \in FileIds /\ files[f] \in File /\ i \in DescriptorsOf(f)
  BY <1>0, <1>1, FileType DEF IInv, DescriptorsAnchored, Anchored, DescriptorsOf
<1>3. call' \in Call /\ CallAnchored' /\ ufs_errcode' \in ErrorCodes /\ ret' \in Int
  BY ReturnTypes DEF Close, ErrorCodes
<1>4. \A g : /\ g # f => DescriptorsOf(g)' = DescriptorsOf(g)
             /\ IsFiniteSet(DescriptorsOf(g))
  BY <1>0, <1>1, ClearSlot, OpenSlotsFinite DEF DescriptorsOf, IInv
<1>5. /\ files[f].refs = Cardinality(DescriptorsOf(f)) /\ files[f].refs \in Int
      /\ Cardinality(DescriptorsOf(f)') = files[f].refs - 1
      /\ Cardinality(DescriptorsOf(f)') \in Nat
      /\ IsFiniteSet(DescriptorsOf(f)')
  <2>1. DescriptorsOf(f)' = DescriptorsOf(f) \ {i}
    BY <1>1, ClearSlot
  <2>2. files[f].refs = Cardinality(DescriptorsOf(f))
    BY <1>2 DEF IInv, FilesAccounted
  <2> QED BY <1>2, <1>4, <2>1, <2>2, FS_RemoveElement, FS_CardinalityType
<1>6. CASE IsLastClose(f) /\ delete_file(f)
  <2>1. DescriptorsOf(f)' = {}
    BY <1>5, <1>6, FS_EmptySet DEF IsLastClose
  <2>2. f \notin file_list
    BY <1>2, <1>6 DEF IInv, FilesAccounted, IsLastClose
  <2>3. TypeOK'
    BY <1>1, <1>2, <1>3, <1>6, ClearSlot, DeleteFile DEF IInv, TypeOK
  <2>4. DescriptorsAnchored' /\ PositionsInData'
    <3> SUFFICES ASSUME NEW s \in OpenSlots'
                 PROVE  Anchored(file_descriptors[s])' /\ InData(file_descriptors[s])'
      BY DEF DescriptorsAnchored, PositionsInData
    <3>1. s \in OpenSlots /\ file_descriptors'[s] = file_descriptors[s]
      BY <1>1, ClearSlot
    <3>2. /\ file_descriptors[s] \in FileDesc
          /\ Anchored(file_descriptors[s]) /\ InData(file_descriptors[s])
      BY <3>1, OpenSlotType DEF IInv, DescriptorsAnchored, PositionsInData
    <3>3. file_descriptors[s].file # f
      BY <2>1, <3>1 DEF DescriptorsOf
    <3>4. \A d \in FileDesc : d.file # f /\ Anchored(d) /\ InData(d)
            => Anchored(d)' /\ InData(d)'
      BY <1>2, <1>6, DeleteFile
    <3> QED BY <3>1, <3>2, <3>3, <3>4 DEF Anchored, InData
  <2>5. FilesAccounted'
    <3>1. live_files' = live_files \ {f} /\ \A g \in live_files' : files'[g] = files[g]
      BY <1>2, <1>6, DeleteFile
    <3> QED BY <1>1, <1>4, <2>2, <3>1 DEF IInv, FilesAccounted
  <2>6. BlocksAccounted'
    BY <1>2, <1>6, DeleteFile
  <2> QED BY <1>1, <1>3, <2>3, <2>4, <2>5, <2>6, ClearSlot DEF IInv
<1>7. CASE /\ ~IsLastClose(f) /\ files' = [files EXCEPT ![f].refs = @ - 1]
           /\ UNCHANGED <<live_files, heap>>
  <2> DEFINE file == [files[f] EXCEPT !.refs = @ - 1]
  <2>1. /\ file \in File /\ file.refs = files[f].refs - 1
        /\ file.deleted = files[f].deleted /\ file.block_list = files[f].block_list
        /\ file.num_blocks = files[f].num_blocks
        /\ file.last_block = files[f].last_block
    BY <1>2, <1>5 DEF File
  <2>2. files' = [files EXCEPT ![f] = file]
    BY <1>7
  <2> HIDE DEF file
  <2>3. /\ TypeOK' /\ files'[f] = file
        /\ \A g \in FileIds : g # f => files'[g] = files[g]
        /\ UNCHANGED live_files /\ live_files \subseteq FileIds
    BY <1>1, <1>2, <1>3, <1>7, <2>1, <2>2, RelabelFile, ClearSlot DEF IInv, TypeOK
  <2>4. DescriptorsAnchored' /\ PositionsInData'
    <3> SUFFICES ASSUME NEW s \in OpenSlots'
                 PROVE  Anchored(file_descriptors[s])' /\ InData(file_descriptors[s])'
      BY DEF DescriptorsAnchored, PositionsInData
    <3>1. s \in OpenSlots /\ file_descriptors'[s] = file_descriptors[s]
      BY <1>1, ClearSlot
    <3>2. /\ file_descriptors[s] \in FileDesc
          /\ Anchored(file_descriptors[s]) /\ InData(file_descriptors[s])
      BY <3>1, OpenSlotType DEF IInv, DescriptorsAnchored, PositionsInData
    <3>3. \A d \in FileDesc : Anchored(d) /\ InData(d) => Anchored(d)' /\ InData(d)'
      BY <1>2, <1>7, <2>1, <2>2, RelabelFile
    <3> QED BY <3>1, <3>2, <3>3 DEF Anchored, InData
  <2>5. FilesAccounted'
    <3>1. f \in file_list \/ files'[f].refs > 0
      <4>1. f \notin file_list => files[f].deleted
        BY <1>2 DEF IInv, FilesAccounted
      <4>2. files[f].refs # 1 => files[f].refs - 1 > 0
        BY <1>5
      <4> QED BY <1>7, <2>1, <2>3, <4>1, <4>2 DEF IsLastClose
    <3>2. files'[f].refs = Cardinality(DescriptorsOf(f)')
      BY <1>5, <2>1, <2>3
    <3>3. \A g \in live_files' : g # f =>
            /\ files'[g].refs = Cardinality(DescriptorsOf(g)')
            /\ files'[g].deleted = (g \notin file_list')
            /\ g \in file_list' \/ files'[g].refs > 0
      BY <1>1, <1>4, <2>3 DEF IInv, FilesAccounted
    <3> QED BY <1>1, <1>2, <2>1, <2>3, <3>1, <3>2, <3>3 DEF IInv, FilesAccounted
  <2>6. BlocksAccounted'
    BY <1>2, <1>7, <2>1, <2>2, RelabelFile
  <2> QED BY <1>1, <1>3, <2>3, <2>4, <2>5, <2>6, ClearSlot DEF IInv
<1> QED BY <1>0, <1>6, <1>7 DEF Close

\* ufs_delete keeps the invariant, whether it frees the file or leaves that to
\* the last ufs_close.
LEMMA DeleteIInv ==
  ASSUME IInv, NEW filename \in FileNames, Delete(filename)
  PROVE  IInv'
<1>1. PICK f \in Named(filename) :
        /\ file_list' = file_list \ {f}
        /\ IF IsClosed(f)
             THEN delete_file(f)
             ELSE /\ files' = [files EXCEPT ![f].deleted = TRUE]
                  /\ UNCHANGED <<live_files, heap>>
  BY DEF Delete
<1>2. f \in file_list /\ f \in live_files /\ f \in FileIds /\ files[f] \in File
  BY FileType DEF Named, IInv, FilesAccounted
<1>3. call' \in Call /\ CallAnchored' /\ ufs_errcode' \in ErrorCodes /\ ret' \in Int
  BY ReturnTypes DEF Delete, ErrorCodes
<1>4. /\ UNCHANGED <<file_descriptors, file_descriptor_count>>
      /\ OpenSlots' = OpenSlots /\ \A g : DescriptorsOf(g)' = DescriptorsOf(g)
  BY DEF Delete, table, OpenSlots, DescriptorsOf
<1>5. TableAccounted'
  BY <1>4 DEF IInv, TableAccounted, capacity
<1>6. \A s \in OpenSlots : /\ file_descriptors[s] \in FileDesc
                           /\ Anchored(file_descriptors[s]) /\ InData(file_descriptors[s])
  BY OpenSlotType DEF IInv, DescriptorsAnchored, PositionsInData
<1>7. files[f].refs = Cardinality(DescriptorsOf(f)) /\ IsFiniteSet(DescriptorsOf(f))
      /\ Cardinality(DescriptorsOf(f)) \in Nat
  BY <1>2, OpenSlotsFinite, FS_CardinalityType DEF IInv, FilesAccounted
<1>8. CASE IsClosed(f) /\ delete_file(f)
  <2>1. DescriptorsOf(f) = {}
    BY <1>7, <1>8, FS_EmptySet DEF IsClosed
  <2>2. TypeOK'
    BY <1>1, <1>2, <1>3, <1>4, <1>8, DeleteFile DEF IInv, TypeOK
  <2>3. DescriptorsAnchored' /\ PositionsInData'
    <3>1. \A d \in FileDesc : d.file # f /\ Anchored(d) /\ InData(d)
            => Anchored(d)' /\ InData(d)'
      BY <1>2, <1>8, DeleteFile
    <3>2. \A s \in OpenSlots : file_descriptors[s].file # f
      BY <2>1 DEF DescriptorsOf
    <3>3. \A s \in OpenSlots :
            Anchored(file_descriptors[s])' /\ InData(file_descriptors[s])'
      BY <1>4, <1>6, <3>1, <3>2 DEF Anchored, InData
    <3> QED BY <1>4, <3>3 DEF DescriptorsAnchored, PositionsInData
  <2>4. FilesAccounted'
    <3>1. live_files' = live_files \ {f} /\ \A g \in live_files' : files'[g] = files[g]
      BY <1>2, <1>8, DeleteFile
    <3> QED BY <1>1, <1>4, <3>1 DEF IInv, FilesAccounted
  <2>5. BlocksAccounted'
    BY <1>2, <1>8, DeleteFile
  <2> QED BY <1>3, <1>5, <2>2, <2>3, <2>4, <2>5 DEF IInv
<1>9. CASE /\ ~IsClosed(f) /\ files' = [files EXCEPT ![f].deleted = TRUE]
           /\ UNCHANGED <<live_files, heap>>
  <2> DEFINE file == [files[f] EXCEPT !.deleted = TRUE]
  <2>1. /\ file \in File /\ file.refs = files[f].refs
        /\ file.deleted = TRUE /\ file.block_list = files[f].block_list
        /\ file.num_blocks = files[f].num_blocks
        /\ file.last_block = files[f].last_block
    BY <1>2 DEF File
  <2>2. files' = [files EXCEPT ![f] = file]
    BY <1>9
  <2> HIDE DEF file
  <2>3. /\ TypeOK' /\ files'[f] = file
        /\ \A g \in FileIds : g # f => files'[g] = files[g]
        /\ UNCHANGED live_files /\ live_files \subseteq FileIds
    BY <1>1, <1>2, <1>3, <1>4, <1>9, <2>1, <2>2, RelabelFile DEF IInv, TypeOK
  <2>4. DescriptorsAnchored' /\ PositionsInData'
    <3>1. \A d \in FileDesc : Anchored(d) /\ InData(d) => Anchored(d)' /\ InData(d)'
      BY <1>2, <1>9, <2>1, <2>2, RelabelFile
    <3>2. \A s \in OpenSlots :
            Anchored(file_descriptors[s])' /\ InData(file_descriptors[s])'
      BY <1>4, <1>6, <3>1 DEF Anchored, InData
    <3> QED BY <1>4, <3>2 DEF DescriptorsAnchored, PositionsInData
  <2>5. FilesAccounted'
    <3>1. /\ files'[f].refs = Cardinality(DescriptorsOf(f)')
          /\ files'[f].deleted = TRUE /\ f \notin file_list' /\ files'[f].refs > 0
      BY <1>1, <1>4, <1>7, <1>9, <2>1, <2>3 DEF IsClosed
    <3>2. \A g \in live_files' : g # f =>
            /\ files'[g].refs = Cardinality(DescriptorsOf(g)')
            /\ files'[g].deleted = (g \notin file_list')
            /\ g \in file_list' \/ files'[g].refs > 0
      BY <1>1, <1>4, <2>3 DEF IInv, FilesAccounted
    <3> QED BY <1>1, <2>3, <3>1, <3>2 DEF IInv, FilesAccounted
  <2>6. BlocksAccounted'
    BY <1>2, <1>9, <2>1, <2>2, RelabelFile
  <2> QED BY <1>3, <1>5, <2>3, <2>4, <2>5, <2>6 DEF IInv
<1> QED BY <1>1, <1>8, <1>9

\* insert_fd enlarges a full array and leaves its slots as they are.
LEMMA RoomyTableType ==
  ASSUME IInv
  PROVE  /\ RoomyTable \in Seq(FileDesc \cup {NULL})
         /\ {i \in DOMAIN RoomyTable : RoomyTable[i] # NULL} = OpenSlots
         /\ \A i \in OpenSlots : RoomyTable[i] = file_descriptors[i]
         /\ file_descriptor_count < Len(RoomyTable)
<1>1. /\ file_descriptors \in Seq(FileDesc \cup {NULL})
      /\ file_descriptor_count \in Nat /\ capacity \in Nat
      /\ file_descriptor_count <= capacity /\ capacity = Len(file_descriptors)
  BY DEF IInv, TypeOK, TableAccounted, capacity
<1>2. CASE file_descriptor_count # capacity
  BY <1>1, <1>2 DEF RoomyTable, OpenSlots
<1>3. CASE file_descriptor_count = capacity
  <2> DEFINE m == NewCapacity(capacity) - capacity
             more == [i \in 1 .. m |-> NULL]
  <2>1. m \in Nat /\ m > 0
    BY <1>1 DEF NewCapacity
  <2> HIDE DEF m
  <2>2. more \in Seq(FileDesc \cup {NULL}) /\ Len(more) = m
        /\ \A i \in 1 .. m : more[i] = NULL
    BY <2>1
  <2> HIDE DEF more
  <2>3. RoomyTable = file_descriptors \o more
    BY <1>3 DEF RoomyTable, m, more
  <2>4. /\ RoomyTable \in Seq(FileDesc \cup {NULL})
        /\ Len(RoomyTable) = capacity + m
        /\ \A i \in 1 .. capacity : RoomyTable[i] = file_descriptors[i]
        /\ \A i \in capacity + 1 .. capacity + m : RoomyTable[i] = NULL
    <3> PICK c \in Nat : c = capacity
      BY <1>1
    <3>0. RoomyTable \in Seq(FileDesc \cup {NULL})
      <4>1. \A S : \A a, b \in Seq(S) : a \o b \in Seq(S)
        OBVIOUS
      <4> QED BY <4>1, <1>1, <2>2, <2>3
    <3>1. RoomyTable \in Seq(FileDesc \cup {NULL}) /\ Len(RoomyTable) = c + m
      <4>1. \A S : \A a, b \in Seq(S) : Len(a \o b) = Len(a) + Len(b)
        OBVIOUS
      <4> QED BY <4>1, <1>1, <2>2, <2>3, <3>0
    <3>2. \A i \in 1 .. c : RoomyTable[i] = file_descriptors[i]
      BY <1>1, <2>1, <2>2, <2>3
    <3>3. ASSUME NEW i \in c + 1 .. c + m
          PROVE  RoomyTable[i] = NULL
      <4>1. i - c \in 1 .. m /\ RoomyTable[i] = more[i - c]
        BY <1>1, <2>1, <2>2, <2>3
      <4> QED BY <2>2, <4>1
    <3> QED BY <3>1, <3>2, <3>3
  <2>5. DOMAIN file_descriptors = 1 .. capacity /\ DOMAIN RoomyTable = 1 .. capacity + m
    BY <1>1, <2>1, <2>4
  <2>6. \A i \in DOMAIN RoomyTable : i \in 1 .. capacity \/ i \in capacity + 1 .. capacity + m
    BY <1>1, <2>1, <2>5
  <2>7. DOMAIN file_descriptors \subseteq DOMAIN RoomyTable
    BY <1>1, <2>1, <2>5
  <2>8. {i \in DOMAIN RoomyTable : RoomyTable[i] # NULL} = OpenSlots
    BY <2>4, <2>5, <2>6, <2>7 DEF OpenSlots
  <2>9. \A i \in OpenSlots : RoomyTable[i] = file_descriptors[i]
    BY <2>4, <2>5 DEF OpenSlots
  <2> QED BY <1>1, <1>3, <2>1, <2>4, <2>8, <2>9
<1> QED BY <1>2, <1>3

\* insert_fd finds a free slot, and changes no other.
LEMMA InsertFd ==
  ASSUME IInv, NEW fd \in FileDesc, insert_fd(fd)
  PROVE  /\ \E i \in Nat :
              /\ i \notin OpenSlots /\ OpenSlots' = OpenSlots \cup {i}
              /\ file_descriptors'[i] = fd
              /\ DescriptorsOf(fd.file)' = DescriptorsOf(fd.file) \cup {i}
         /\ \A s \in OpenSlots : file_descriptors'[s] = file_descriptors[s]
         /\ \A g : g # fd.file => DescriptorsOf(g)' = DescriptorsOf(g)
         /\ file_descriptors' \in Seq(FileDesc \cup {NULL})
         /\ file_descriptor_count' \in Nat
         /\ TableAccounted'
         /\ call' \in Call /\ CallAnchored'
         /\ ufs_errcode' \in ErrorCodes /\ ret' \in Int
<1> DEFINE t == RoomyTable
           free == {i \in DOMAIN t : t[i] = NULL}
<1>1. /\ t \in Seq(FileDesc \cup {NULL})
      /\ {i \in DOMAIN t : t[i] # NULL} = OpenSlots
      /\ \A i \in OpenSlots : t[i] = file_descriptors[i]
      /\ file_descriptor_count < Len(t)
  BY RoomyTableType
<1>2. file_descriptor_count = Cardinality(OpenSlots) /\ file_descriptor_count \in Nat
  BY DEF IInv, TypeOK, TableAccounted
<1>3. Cardinality(OpenSlots) <= Len(t) /\ Cardinality(OpenSlots) \in Nat
      /\ IsFiniteSet(OpenSlots)
  BY <1>1, UsedSlotsFinite
<1>4. free # {}
  <2>1. ~ \A i \in DOMAIN t : i \in OpenSlots
    <3> SUFFICES ASSUME \A i \in DOMAIN t : i \in OpenSlots PROVE FALSE
      OBVIOUS
    <3>1. OpenSlots = DOMAIN t
      BY <1>1
    <3>2. PICK n \in Nat : n = Len(t) /\ DOMAIN t = 1 .. n
      BY <1>1
    <3>3. Cardinality(1 .. n) = n
      BY FS_Interval
    <3> QED BY <1>1, <1>2, <3>1, <3>2, <3>3
  <2> QED BY <1>1, <2>1
<1>5. PICK i \in free :
        /\ file_descriptors' = [t EXCEPT ![i] = fd]
        /\ file_descriptor_count' = file_descriptor_count + 1
        /\ Return(i, "UFS_ERR_NO_ERR")
  <2> HIDE DEF free, t
  <2> QED BY <1>4 DEF insert_fd, free, t
<1>6. i \in DOMAIN t /\ t[i] = NULL /\ i \in Nat /\ i \notin OpenSlots
  BY <1>1, <1>5
<1> HIDE DEF free, t
<1>7. /\ file_descriptors' \in Seq(FileDesc \cup {NULL})
      /\ DOMAIN file_descriptors' = DOMAIN t /\ Len(file_descriptors') = Len(t)
      /\ file_descriptors'[i] = fd
      /\ \A s \in DOMAIN t : s # i => file_descriptors'[s] = t[s]
  BY <1>1, <1>5, <1>6
<1>8. fd # NULL
  BY NullAssumption
<1>9. OpenSlots' = OpenSlots \cup {i}
  BY <1>1, <1>6, <1>7, <1>8 DEF OpenSlots
<1>10. \A s \in OpenSlots : s # i /\ file_descriptors'[s] = file_descriptors[s]
  BY <1>1, <1>6, <1>7
<1>11. DescriptorsOf(fd.file)' = DescriptorsOf(fd.file) \cup {i}
  <2> PICK f : f = fd.file
    OBVIOUS
  <2>1. DescriptorsOf(f)' = DescriptorsOf(f) \cup {i}
    BY <1>7, <1>9, <1>10 DEF DescriptorsOf
  <2> QED BY <2>1 DEF DescriptorsOf
<1>12. \A g : g # fd.file => DescriptorsOf(g)' = DescriptorsOf(g)
  BY <1>7, <1>9, <1>10 DEF DescriptorsOf
<1>13. Cardinality(OpenSlots') = Cardinality(OpenSlots) + 1
  BY <1>3, <1>6, <1>9, FS_AddElement
<1>14. TableAccounted' /\ file_descriptor_count' \in Nat
  <2>1. capacity' = Len(t)
    BY <1>7 DEF capacity
  <2> QED BY <1>1, <1>2, <1>3, <1>5, <1>13, <2>1 DEF TableAccounted
<1>15. i \in Int /\ "UFS_ERR_NO_ERR" \in ErrorCodes
  BY <1>6 DEF ErrorCodes
<1>16. /\ call' \in Call /\ CallAnchored'
       /\ ufs_errcode' \in ErrorCodes /\ ret' \in Int
  BY <1>5, <1>15, ReturnTypes
<1> QED BY <1>6, <1>7, <1>9, <1>10, <1>11, <1>12, <1>14, <1>16

\* A new descriptor has its type and no block.
LEMMA NewFdType ==
  ASSUME NEW f \in FileIds, NEW flags \in SUBSET Flags
  PROVE  LET fd == new_fd(f, FdFlags(flags)) IN
         /\ fd \in FileDesc /\ fd.file = f /\ InData(fd)' /\ fd.curr_block = NULL
         /\ (f \in live_files' => Anchored(fd)')
<1>1. FdFlags(flags) \in SUBSET RwFlags
  BY DEF FdFlags, RwFlags
<1>2. 0 \in 0 .. BLOCK_SIZE
  BY BlockSizePositive
<1> QED BY <1>1, <1>2 DEF new_fd, FileDesc, InData, Anchored

\* ufs_open of a file that is there keeps the invariant.
LEMMA OpenExistingIInv ==
  ASSUME IInv, NEW filename \in FileNames, NEW flags \in OpenFlags,
         OpenExisting(filename, flags)
  PROVE  IInv'
<1>1. PICK f \in Named(filename) :
        /\ files' = [files EXCEPT ![f].refs = @ + 1]
        /\ insert_fd(new_fd(f, FdFlags(flags)))
  BY DEF OpenExisting
<1>2. UNCHANGED <<file_list, live_files, heap>>
  BY DEF OpenExisting
<1>3. f \in file_list /\ f \in live_files /\ f \in FileIds /\ files[f] \in File
  BY FileType DEF Named, IInv, FilesAccounted
<1> DEFINE file == [files[f] EXCEPT !.refs = @ + 1]
           fd == new_fd(f, FdFlags(flags))
<1>4. /\ file \in File /\ file.refs = files[f].refs + 1
      /\ file.deleted = files[f].deleted /\ file.block_list = files[f].block_list
      /\ file.num_blocks = files[f].num_blocks
      /\ file.last_block = files[f].last_block
  BY <1>3 DEF File
<1>5. files' = [files EXCEPT ![f] = file]
  BY <1>1
<1>6. fd \in FileDesc /\ fd.file = f /\ InData(fd)' /\ Anchored(fd)'
  <2>1. f \in live_files'
    BY <1>2, <1>3
  <2> QED BY <1>3, <2>1, NewFdType, InputAssumption
<1>7. insert_fd(fd)
  BY <1>1
<1> HIDE DEF file, fd
<1>8. PICK i \in Nat : /\ i \notin OpenSlots /\ OpenSlots' = OpenSlots \cup {i}
                       /\ file_descriptors'[i] = fd
                       /\ DescriptorsOf(f)' = DescriptorsOf(f) \cup {i}
  <2>1. \E i \in Nat : /\ i \notin OpenSlots /\ OpenSlots' = OpenSlots \cup {i}
                       /\ file_descriptors'[i] = fd
                       /\ DescriptorsOf(fd.file)' = DescriptorsOf(fd.file) \cup {i}
    BY <1>6, <1>7, InsertFd
  <2> QED BY <1>6, <2>1
<1>9. /\ TableAccounted' /\ CallAnchored'
      /\ \A s \in OpenSlots : file_descriptors'[s] = file_descriptors[s]
      /\ \A g : g # f => DescriptorsOf(g)' = DescriptorsOf(g)
  BY <1>6, <1>7, InsertFd
<1>10. /\ TypeOK' /\ files'[f] = file
       /\ \A g \in FileIds : g # f => files'[g] = files[g]
       /\ BlocksAccounted'
       /\ \A d \in FileDesc : Anchored(d) /\ InData(d) => Anchored(d)' /\ InData(d)'
  <2>1. /\ files' \in [FileIds -> File]
        /\ blocks' \in [BlockIds -> Block] /\ live_blocks' \subseteq BlockIds
        /\ live_files' \subseteq FileIds
        /\ files'[f] = file /\ \A g \in FileIds : g # f => files'[g] = files[g]
        /\ BlocksAccounted'
        /\ \A d \in FileDesc : Anchored(d) /\ InData(d) => Anchored(d)' /\ InData(d)'
    BY <1>2, <1>3, <1>4, <1>5, RelabelFile
  <2>2. /\ file_descriptors' \in Seq(FileDesc \cup {NULL})
        /\ file_descriptor_count' \in Nat /\ call' \in Call
        /\ ufs_errcode' \in ErrorCodes /\ ret' \in Int
    BY <1>6, <1>7, InsertFd
  <2> QED BY <1>2, <2>1, <2>2 DEF IInv, TypeOK
<1>11. DescriptorsAnchored' /\ PositionsInData'
  <2>1. ASSUME NEW s \in OpenSlots'
        PROVE  Anchored(file_descriptors[s])' /\ InData(file_descriptors[s])'
    <3>1. CASE s = i
      BY <1>6, <1>8, <3>1 DEF Anchored, InData
    <3>2. CASE s \in OpenSlots
      <4>1. /\ file_descriptors[s] \in FileDesc
            /\ Anchored(file_descriptors[s]) /\ InData(file_descriptors[s])
        BY <3>2, OpenSlotType DEF IInv, DescriptorsAnchored, PositionsInData
      <4> QED BY <1>9, <1>10, <3>2, <4>1 DEF Anchored, InData
    <3> QED BY <1>8, <3>1, <3>2
  <2> QED BY <2>1 DEF DescriptorsAnchored, PositionsInData
<1>12. FilesAccounted'
  <2>1. /\ files[f].refs = Cardinality(DescriptorsOf(f))
        /\ IsFiniteSet(DescriptorsOf(f)) /\ i \notin DescriptorsOf(f)
    BY <1>3, <1>8, OpenSlotsFinite DEF IInv, FilesAccounted, DescriptorsOf
  <2>2. files'[f].refs = Cardinality(DescriptorsOf(f)')
    BY <1>4, <1>8, <1>10, <2>1, FS_AddElement
  <2>3. \A g \in live_files' : g # f =>
          /\ files'[g].refs = Cardinality(DescriptorsOf(g)')
          /\ files'[g].deleted = (g \notin file_list')
          /\ g \in file_list' \/ files'[g].refs > 0
    BY <1>2, <1>9, <1>10 DEF IInv, TypeOK, FilesAccounted
  <2> QED BY <1>2, <1>3, <1>4, <1>10, <2>2, <2>3 DEF IInv, FilesAccounted
<1> QED BY <1>9, <1>10, <1>11, <1>12 DEF IInv

\* A new file takes no block, and no descriptor refers to it yet.
LEMMA OpenCreateIInv ==
  ASSUME IInv, NEW filename \in FileNames, NEW flags \in OpenFlags,
         OpenCreate(filename, flags)
  PROVE  IInv'
<1>1. PICK f \in FileIds \ live_files :
        /\ files' = [files EXCEPT ![f] = [new_file(filename) EXCEPT !.refs = 1]]
        /\ live_files' = live_files \cup {f}
        /\ file_list' = file_list \cup {f}
        /\ insert_fd(new_fd(f, FdFlags(flags)))
  BY DEF OpenCreate
<1>2. UNCHANGED <<blocks, live_blocks>>
  BY DEF OpenCreate, heap
<1> DEFINE file == [new_file(filename) EXCEPT !.refs = 1]
           fd == new_fd(f, FdFlags(flags))
<1>3. /\ file \in File /\ file.refs = 1 /\ file.deleted = FALSE
      /\ file.block_list = << >> /\ file.num_blocks = 0 /\ file.last_block = NULL
  <2> DEFINE new == new_file(filename)
  <2>1. /\ new \in File /\ new.deleted = FALSE /\ new.block_list = << >>
        /\ new.num_blocks = 0 /\ new.last_block = NULL
    BY NewRecords DEF new_file
  <2>2. file = [new EXCEPT !.refs = 1]
    OBVIOUS
  <2> HIDE DEF new, file
  <2> QED BY <2>1, <2>2 DEF File
<1>4. /\ files' \in [FileIds -> File] /\ files'[f] = file
      /\ \A g \in FileIds : g # f => files'[g] = files[g]
  BY <1>1, <1>3 DEF IInv, TypeOK
<1>5. fd \in FileDesc /\ fd.file = f /\ InData(fd)' /\ Anchored(fd)'
  <2>1. f \in live_files'
    BY <1>1
  <2> QED BY <1>1, <2>1, NewFdType, InputAssumption
<1>6. insert_fd(fd)
  BY <1>1
<1> HIDE DEF file, fd
<1>7. DescriptorsOf(f) = {}
  BY <1>1 DEF IInv, DescriptorsAnchored, Anchored, DescriptorsOf
<1>8. PICK i \in Nat : /\ i \notin OpenSlots /\ OpenSlots' = OpenSlots \cup {i}
                       /\ file_descriptors'[i] = fd
                       /\ DescriptorsOf(f)' = {i}
  <2>1. \E i \in Nat : /\ i \notin OpenSlots /\ OpenSlots' = OpenSlots \cup {i}
                       /\ file_descriptors'[i] = fd
                       /\ DescriptorsOf(fd.file)' = DescriptorsOf(fd.file) \cup {i}
    BY <1>5, <1>6, InsertFd
  <2> QED BY <1>5, <1>7, <2>1
<1>9. /\ TableAccounted' /\ CallAnchored'
      /\ \A s \in OpenSlots : file_descriptors'[s] = file_descriptors[s]
      /\ \A g : g # f => DescriptorsOf(g)' = DescriptorsOf(g)
  BY <1>5, <1>6, InsertFd
<1>10. TypeOK'
  <2>1. /\ file_descriptors' \in Seq(FileDesc \cup {NULL})
        /\ file_descriptor_count' \in Nat /\ call' \in Call
        /\ ufs_errcode' \in ErrorCodes /\ ret' \in Int
    BY <1>5, <1>6, InsertFd
  <2> QED BY <1>1, <1>2, <1>4, <2>1 DEF IInv, TypeOK
<1>11. DescriptorsAnchored' /\ PositionsInData'
  <2>1. ASSUME NEW s \in OpenSlots'
        PROVE  Anchored(file_descriptors[s])' /\ InData(file_descriptors[s])'
    <3>1. CASE s = i
      BY <1>5, <1>8, <3>1 DEF Anchored, InData
    <3>2. CASE s \in OpenSlots
      <4>1. /\ file_descriptors[s] \in FileDesc
            /\ Anchored(file_descriptors[s]) /\ InData(file_descriptors[s])
        BY <3>2, OpenSlotType DEF IInv, DescriptorsAnchored, PositionsInData
      <4>2. file_descriptors[s].file \in live_files /\ file_descriptors[s].file \in FileIds
        BY <4>1 DEF Anchored, FileDesc
      <4>3. files'[file_descriptors[s].file] = files[file_descriptors[s].file]
        BY <1>1, <1>4, <4>2
      <4> QED BY <1>1, <1>2, <1>9, <3>2, <4>1, <4>2, <4>3 DEF Anchored, InData
    <3> QED BY <1>8, <3>1, <3>2
  <2> QED BY <2>1 DEF DescriptorsAnchored, PositionsInData
<1>12. FilesAccounted'
  <2>1. files'[f].refs = Cardinality(DescriptorsOf(f)')
    BY <1>3, <1>4, <1>8, FS_Singleton
  <2>2. \A g \in live_files : g # f /\ g \in FileIds
    BY <1>1 DEF IInv, TypeOK
  <2>3. \A g \in live_files :
          /\ files'[g].refs = Cardinality(DescriptorsOf(g)')
          /\ files'[g].deleted = (g \notin file_list')
          /\ g \in file_list' \/ files'[g].refs > 0
    BY <1>1, <1>4, <1>9, <2>2 DEF IInv, FilesAccounted
  <2>4. f \in file_list' /\ file_list' \subseteq live_files'
    BY <1>1 DEF IInv, FilesAccounted
  <2>5. files'[f].deleted = (f \notin file_list')
    <3>1. (f \notin file_list') = FALSE
      BY <2>4
    <3> QED BY <1>3, <1>4, <3>1
  <2> QED BY <1>1, <2>1, <2>3, <2>4, <2>5 DEF FilesAccounted
<1>13. BlocksAccounted'
  <2>1. BlocksOf(f)' = {}
    BY <1>3, <1>4 DEF BlocksOf
  <2>2. \A g \in live_files : g # f /\ files'[g] = files[g]
    BY <1>1, <1>4 DEF IInv, TypeOK
  <2>3. \A g \in live_files : BlocksOf(g)' = BlocksOf(g)
    BY <2>2 DEF BlocksOf
  <2>4. \A b \in BlockIds : b \in live_blocks' <=> \E g \in live_files' : b \in BlocksOf(g)'
    BY <1>1, <1>2, <2>1, <2>3 DEF IInv, BlocksAccounted
  <2>5. \A g \in live_files' :
          LET list == files'[g].block_list IN
            /\ files'[g].num_blocks = Len(list)
            /\ files'[g].last_block = IF list = << >> THEN NULL ELSE list[Len(list)]
            /\ \A j, k \in DOMAIN list : list[j] = list[k] => j = k
    <3> SUFFICES ASSUME NEW g \in live_files'
                 PROVE  LET list == files'[g].block_list IN
                        /\ files'[g].num_blocks = Len(list)
                        /\ files'[g].last_block = IF list = << >> THEN NULL ELSE list[Len(list)]
                        /\ \A j, k \in DOMAIN list : list[j] = list[k] => j = k
      OBVIOUS
    <3>1. CASE g = f
      BY <1>3, <1>4, <3>1
    <3>2. CASE g \in live_files
      BY <2>2, <3>2 DEF IInv, BlocksAccounted
    <3> QED BY <1>1, <3>1, <3>2
  <2>6. \A g, h \in live_files' : g # h => BlocksOf(g)' \cap BlocksOf(h)' = {}
    BY <1>1, <2>1, <2>3 DEF IInv, BlocksAccounted
  <2> QED BY <2>4, <2>5, <2>6 DEF BlocksAccounted
<1> QED BY <1>9, <1>10, <1>11, <1>12, <1>13 DEF IInv

-----------------------------------------------------------------------------
(* ufs_resize: shrinking *)

\* A size has as many blocks as bytes / BLOCK_SIZE, rounded up.
LEMMA NewNumBlocksBound ==
  ASSUME NEW s \in Nat, NEW m \in Nat, s < m * BLOCK_SIZE
  PROVE  /\ new_num_blocks(s) \in Nat /\ new_num_blocks(s) <= m
         /\ new_block_pos(s) \in 0 .. BLOCK_SIZE
<1> PICK B \in Nat : B = BLOCK_SIZE /\ B > 0
  BY BlockSizePositive
<1> PICK q : q = s \div B
  OBVIOUS
<1> PICK r : r = s % B
  OBVIOUS
<1>1. q \in Int /\ r \in 0 .. B - 1 /\ s = B * q + r
  OBVIOUS
<1>2. q >= 0
  BY <1>1
<1>3. q < m
  <2> SUFFICES ASSUME q >= m PROVE FALSE
    BY <1>1
  <2>1. PICK d \in Nat : q = m + d
    <3> WITNESS q - m \in Nat
    <3> QED BY <1>1
  <2>2. B * q = B * m + B * d
    BY <2>1
  <2>3. B * d >= 0 /\ B * m = m * B
    OBVIOUS
  <2> QED BY <1>1, <2>2, <2>3
<1> QED BY <1>1, <1>2, <1>3 DEF new_num_blocks, new_block_pos

\* A smaller size leaves a file no more blocks than it had, and a position
\* within the last of them.
LEMMA ShrinkBounds ==
  ASSUME IInv, NEW f \in live_files, NEW s \in Nat, s < old_size(f)
  PROVE  /\ new_num_blocks(s) \in Nat
         /\ new_num_blocks(s) <= Len(files[f].block_list)
         /\ new_block_pos(s) \in 0 .. BLOCK_SIZE
<1>1. PICK m \in Nat : m = Len(files[f].block_list)
  BY FileType
<1>2. files[f].num_blocks = m /\ files[f].block_list \in Seq(BlockIds)
  BY <1>1, FileType
<1>3. m # 0
  BY <1>2 DEF old_size
<1>4. PICK b \in BlockIds : b = files[f].last_block
  <2>1. files[f].block_list # << >>
    BY <1>1, <1>2, <1>3
  <2>2. files[f].last_block = files[f].block_list[m]
    BY <1>1, <2>1 DEF IInv, BlocksAccounted
  <2> QED BY <1>1, <1>2, <1>3, <2>2
<1>5. PICK o \in 0 .. BLOCK_SIZE : o = blocks[b].occupied
  BY DEF IInv, TypeOK, Block
<1>6. old_size(f) = (m - 1) * BLOCK_SIZE + o
  BY <1>2, <1>3, <1>4, <1>5 DEF old_size
<1>7. (m - 1) * BLOCK_SIZE + o <= m * BLOCK_SIZE
  <2>1. PICK B \in Nat : B = BLOCK_SIZE
    BY BlockSizePositive
  <2>2. (m - 1) * B = m * B - B
    OBVIOUS
  <2> QED BY <1>5, <2>1, <2>2
<1>8. s < m * BLOCK_SIZE
  <2>1. PICK B \in Nat : B = BLOCK_SIZE
    BY BlockSizePositive
  <2>2. m * B \in Int /\ (m - 1) * B \in Int
    OBVIOUS
  <2> QED BY <1>5, <1>6, <1>7, <2>1, <2>2
<1> QED BY <1>1, <1>8, NewNumBlocksBound

\* Cutting file f to its first n blocks frees the others and no more.
\* Descriptors of other files stay anchored, and so do those of f at a kept
\* block: of these, the ones in the last may now stand behind its data.
LEMMA CutFile ==
  ASSUME IInv, NEW f \in live_files, NEW pos \in 0 .. BLOCK_SIZE,
         NEW list \in Seq(BlockIds), list = files[f].block_list,
         NEW n \in 1 .. Len(list),
         cut_file(f, n, pos)
  PROVE  /\ UNCHANGED <<file_list, live_files>>
         /\ files' \in [FileIds -> File] /\ blocks' \in [BlockIds -> Block]
         /\ live_blocks' \subseteq BlockIds
         /\ \A g \in FileIds : /\ files'[g].refs = files[g].refs
                               /\ files'[g].deleted = files[g].deleted
         /\ n \in DOMAIN files'[f].block_list /\ files'[f].block_list[n] = list[n]
         /\ blocks'[list[n]].occupied = pos /\ list[n] \in BlockIds
         /\ BlocksAccounted'
         /\ \A fd \in FileDesc :
              /\ Anchored(fd) /\ InData(fd)
              /\ fd.file # f \/ fd.block_num < n
              => Anchored(fd)' /\ InData(fd)'
<1> DEFINE kept == SubSeq(list, 1, n)
           rest == Beyond(list, n)
<1>0. /\ file_list' = file_list /\ live_files' = live_files
      /\ live_blocks' = live_blocks \ rest
      /\ files' = [files EXCEPT ![f] = Cut(@, n)]
      /\ blocks' = [Scrubbed(rest) EXCEPT ![list[n]].occupied = pos]
  BY DEF cut_file
<1>1. /\ f \in FileIds /\ files[f] \in File /\ live_files \subseteq FileIds
      /\ files[f].num_blocks = Len(list)
      /\ \A j \in DOMAIN list : list[j] \in BlockIds /\ list[j] \in BlocksOf(f)
  BY FileType DEF IInv, TypeOK
<1>2. \A j, k \in DOMAIN list : list[j] = list[k] => j = k
  BY DEF IInv, BlocksAccounted
<1>3. /\ kept \in Seq(BlockIds) /\ Len(kept) = n /\ DOMAIN kept = 1 .. n
      /\ \A j \in 1 .. n : j \in DOMAIN list /\ kept[j] = list[j]
      /\ n \in Nat /\ n > 0 /\ DOMAIN list = 1 .. Len(list)
  <2>1. n \in Nat /\ n > 0 /\ n <= Len(list) /\ Len(list) \in Nat
        /\ DOMAIN list = 1 .. Len(list)
    OBVIOUS
  <2>2. \A j \in 1 .. n : j \in 1 .. Len(list)
    BY <2>1
  <2>3. kept \in Seq(BlockIds)
    BY <2>1, <2>2
  <2>4. Len(kept) = n /\ DOMAIN kept = 1 .. n
    BY <2>1
  <2>5. \A j \in 1 .. n : kept[j] = list[j]
    BY <2>1
  <2> QED BY <2>1, <2>2, <2>3, <2>4, <2>5
<1>4. /\ files'[f].block_list = kept /\ files'[f].num_blocks = n
      /\ files'[f].last_block = list[n]
      /\ files'[f].refs = files[f].refs /\ files'[f].deleted = files[f].deleted
      /\ files'[f] \in File
  <2> DEFINE old == files[f]
             new == [old EXCEPT !.block_list = kept, !.last_block = list[n], !.num_blocks = n]
  <2>1. files'[f] = new
    <3>1. files'[f] = Cut(files[f], n)
      BY <1>0, <1>1 DEF IInv, TypeOK
    <3> QED BY <3>1 DEF Cut
  <2>2. list[n] \in BlockIds
    BY <1>1, <1>3
  <2>3. old \in File
    BY <1>1
  <2> HIDE DEF kept, old
  <2>4. /\ new.block_list = kept /\ new.num_blocks = n /\ new.last_block = list[n]
        /\ new.refs = old.refs /\ new.deleted = old.deleted /\ new \in File
    BY <1>3, <2>2, <2>3 DEF File
  <2> QED BY <2>1, <2>4 DEF old
<1>5. \A g \in FileIds : g # f => files'[g] = files[g]
  BY <1>0 DEF IInv, TypeOK
<1>6. files' \in [FileIds -> File]
  BY <1>0, <1>1, <1>4, <1>5 DEF IInv, TypeOK
<1>7. /\ rest \subseteq BlocksOf(f)
      /\ BlocksOf(f)' = BlocksOf(f) \ rest
      /\ \A j \in 1 .. n : list[j] \notin rest
      /\ list[n] \in BlocksOf(f)
  <2>1. \A j \in n + 1 .. Len(list) : j \in DOMAIN list /\ j \notin 1 .. n
    BY <1>3
  <2>2. \A j \in DOMAIN list : j \in 1 .. n \/ j \in n + 1 .. Len(list)
    BY <1>3
  <2>3. BlocksOf(f)' = {list[j] : j \in 1 .. n}
    <3>1. BlocksOf(f)' = {kept[j] : j \in DOMAIN kept}
      BY <1>4 DEF BlocksOf
    <3> QED BY <1>3, <3>1
  <2>4. BlocksOf(f) = {list[j] : j \in DOMAIN list}
    BY DEF BlocksOf
  <2>5. rest = {list[j] : j \in n + 1 .. Len(list)}
    BY DEF Beyond
  <2>6. \A j \in 1 .. n : list[j] \notin rest
    <3> SUFFICES ASSUME NEW j \in 1 .. n, NEW m \in n + 1 .. Len(list)
                 PROVE  list[j] # list[m]
      BY <2>5
    <3>1. j \in DOMAIN list /\ m \in DOMAIN list /\ j # m
      BY <1>3, <2>1
    <3> QED BY <1>2, <3>1
  <2> HIDE DEF rest
  <2>7. n \in 1 .. n
    BY <1>3
  <2> QED BY <1>3, <2>1, <2>2, <2>3, <2>4, <2>5, <2>6, <2>7
<1> HIDE DEF kept
<1>8. /\ blocks' \in [BlockIds -> Block]
      /\ blocks'[list[n]].occupied = pos
      /\ \A c \in BlockIds : c \notin rest /\ c # list[n] => blocks'[c] = blocks[c]
  <2> DEFINE s == Scrubbed(rest)
  <2>1. s \in [BlockIds -> Block] /\ \A c \in BlockIds : c \notin rest => s[c] = blocks[c]
    BY NewRecords DEF Scrubbed, IInv, TypeOK
  <2>2. list[n] \in BlockIds
    BY <1>1, <1>3
  <2>3. blocks' = [s EXCEPT ![list[n]].occupied = pos]
    BY <1>0
  <2> HIDE DEF s, rest
  <2>4. [s[list[n]] EXCEPT !.occupied = pos] \in Block
    <3> PICK old \in Block : old = s[list[n]]
      BY <2>1, <2>2
    <3>1. [old EXCEPT !.occupied = pos] \in Block
      BY DEF Block
    <3> QED BY <3>1
  <2>5. blocks'[list[n]].occupied = pos
    <3> PICK old \in Block : old = s[list[n]]
      BY <2>1, <2>2
    <3>1. blocks'[list[n]] = [old EXCEPT !.occupied = pos]
      BY <2>1, <2>2, <2>3
    <3>2. [old EXCEPT !.occupied = pos].occupied = pos
      BY DEF Block
    <3> QED BY <3>1, <3>2
  <2>6. blocks' \in [BlockIds -> Block]
    <3>1. blocks' = [s EXCEPT ![list[n]] = [s[list[n]] EXCEPT !.occupied = pos]]
      BY <2>3
    <3> QED BY <2>1, <2>2, <2>4, <3>1
  <2>7. \A c \in BlockIds : c # list[n] => blocks'[c] = s[c]
    BY <2>1, <2>3
  <2> QED BY <2>1, <2>2, <2>5, <2>6, <2>7
<1> HIDE DEF rest
<1>9. live_blocks' = live_blocks \ rest
  BY <1>0
<1>10. \A g \in live_files : g # f => files'[g] = files[g] /\ BlocksOf(g)' = BlocksOf(g)
                                      /\ BlocksOf(g) \cap BlocksOf(f) = {}
  <2>1. \A g \in live_files : g # f => files'[g] = files[g]
    BY <1>1, <1>5
  <2>2. \A g \in live_files : g # f => BlocksOf(g)' = BlocksOf(g)
    BY <2>1 DEF BlocksOf
  <2>3. \A g \in live_files : g # f => BlocksOf(g) \cap BlocksOf(f) = {}
    BY DEF IInv, BlocksAccounted
  <2> QED BY <2>1, <2>2, <2>3
<1>11. BlocksAccounted'
  <2>1. \A c \in BlockIds : c \in live_blocks' <=> \E g \in live_files' : c \in BlocksOf(g)'
    <3>1. \A c \in BlockIds : c \in live_blocks <=> \E g \in live_files : c \in BlocksOf(g)
      BY DEF IInv, BlocksAccounted
    <3>2. \A c \in BlocksOf(f) : c \in live_blocks' <=> c \in BlocksOf(f)'
      <4>1. BlocksOf(f) \cap BlockIds \subseteq live_blocks
        BY <3>1
      <4>2. BlocksOf(f) \subseteq BlockIds
        BY <1>1 DEF BlocksOf
      <4> QED BY <1>7, <1>9, <4>1, <4>2
    <3>3. ASSUME NEW c \in BlockIds
          PROVE  c \in live_blocks' <=> \E g \in live_files : c \in BlocksOf(g)'
      <4>1. CASE c \in BlocksOf(f)
        BY <1>7, <1>10, <3>2, <4>1
      <4>2. CASE c \notin BlocksOf(f)
        BY <1>7, <1>9, <1>10, <3>1, <4>2
      <4> QED BY <4>1, <4>2
    <3> QED BY <1>0, <3>3
  <2>2. \A g \in live_files' :
          LET l == files'[g].block_list IN
            /\ files'[g].num_blocks = Len(l)
            /\ files'[g].last_block = IF l = << >> THEN NULL ELSE l[Len(l)]
            /\ \A j, k \in DOMAIN l : l[j] = l[k] => j = k
    <3> SUFFICES ASSUME NEW g \in live_files
                 PROVE  LET l == files'[g].block_list IN
                        /\ files'[g].num_blocks = Len(l)
                        /\ files'[g].last_block = IF l = << >> THEN NULL ELSE l[Len(l)]
                        /\ \A j, k \in DOMAIN l : l[j] = l[k] => j = k
      BY <1>0
    <3>1. CASE g # f
      <4>1. files'[g] = files[g]
        BY <1>10, <3>1
      <4> QED BY <4>1 DEF IInv, BlocksAccounted
    <3>2. CASE g = f
      <4>1. kept # << >> /\ kept[n] = list[n]
        BY <1>3
      <4>2. \A j, k \in DOMAIN kept : kept[j] = kept[k] => j = k
        BY <1>2, <1>3
      <4>3. files'[f].last_block = kept[Len(kept)] /\ files'[f].num_blocks = Len(kept)
        BY <1>3, <1>4, <4>1
      <4> QED BY <1>4, <3>2, <4>1, <4>2, <4>3
    <3> QED BY <3>1, <3>2
  <2>3. \A g, h \in live_files' : g # h => BlocksOf(g)' \cap BlocksOf(h)' = {}
    <3>1. \A g, h \in live_files : g # h => BlocksOf(g) \cap BlocksOf(h) = {}
      BY DEF IInv, BlocksAccounted
    <3>2. \A g \in live_files : BlocksOf(g)' \subseteq BlocksOf(g)
      BY <1>7, <1>10
    <3> QED BY <1>0, <3>1, <3>2
  <2> QED BY <2>1, <2>2, <2>3 DEF BlocksAccounted
<1>12. ASSUME NEW fd \in FileDesc, Anchored(fd), InData(fd),
              fd.file # f \/ fd.block_num < n
       PROVE  Anchored(fd)' /\ InData(fd)'
  <2>1. fd.file \in live_files /\ fd.block_num \in Nat
    BY <1>12 DEF Anchored, FileDesc
  <2>2. CASE fd.curr_block = NULL
    BY <1>0, <1>12, <2>1, <2>2 DEF Anchored, InData
  <2>3. CASE fd.curr_block # NULL
    <3>1. /\ fd.block_num \in DOMAIN files[fd.file].block_list
          /\ fd.curr_block = files[fd.file].block_list[fd.block_num]
          /\ fd.curr_block \in BlocksOf(fd.file) /\ fd.curr_block \in BlockIds
      BY <1>12, <2>3 DEF Anchored, BlocksOf, FileDesc
    <3>2. CASE fd.file # f
      <4>1. files'[fd.file] = files[fd.file] /\ BlocksOf(fd.file) \cap BlocksOf(f) = {}
        BY <1>10, <2>1, <3>2
      <4>2. blocks'[fd.curr_block] = blocks[fd.curr_block]
        BY <1>7, <1>8, <3>1, <4>1
      <4> QED BY <1>0, <1>12, <2>1, <2>3, <3>1, <4>1, <4>2 DEF Anchored, InData
    <3>3. CASE fd.file = f /\ fd.block_num < n
      <4>1. fd.block_num \in 1 .. n /\ fd.block_num # n
        BY <1>3, <2>1, <3>1, <3>3
      <4>2. fd.curr_block = kept[fd.block_num] /\ fd.curr_block # list[n]
        BY <1>2, <1>3, <3>1, <3>3, <4>1
      <4>3. blocks'[fd.curr_block] = blocks[fd.curr_block]
        BY <1>7, <1>8, <3>1, <3>3, <4>1, <4>2
      <4>4. files'[fd.file].block_list = kept
        BY <1>4, <3>3
      <4> QED BY <1>0, <1>3, <1>12, <2>1, <2>3, <4>1, <4>2, <4>3, <4>4 DEF Anchored, InData
    <3> QED BY <1>12, <3>2, <3>3
  <2> QED BY <2>2, <2>3
<1>13. /\ live_blocks' \subseteq BlockIds
       /\ \A g \in FileIds : /\ files'[g].refs = files[g].refs
                             /\ files'[g].deleted = files[g].deleted
       /\ n \in DOMAIN files'[f].block_list /\ files'[f].block_list[n] = list[n]
       /\ list[n] \in BlockIds
  BY <1>1, <1>3, <1>4, <1>5, <1>9 DEF IInv, TypeOK
<1> QED BY <1>0, <1>6, <1>8, <1>11, <1>12, <1>13

\* A shrink keeps the invariant: every descriptor that loses its block, and
\* every one in the new last block, is moved to the end of that block.
LEMMA ShrinkIInv ==
  ASSUME IInv, NEW i \in FdArguments, NEW new_size \in NewSizes, Shrink(i, new_size)
  PROVE  IInv'
<1>0. i \in OpenSlots
  BY DEF Shrink, Resizable
<1>1. PICK f \in FileIds : f = file_descriptors[i].file
  BY <1>0, OpenSlotType DEF IInv, FileDesc
<1>2. f \in live_files
  BY <1>0, <1>1 DEF IInv, DescriptorsAnchored, Anchored
<1>3. PICK list \in Seq(BlockIds) : list = files[f].block_list
  BY <1>2, FileType
<1>4. new_size \in Nat /\ new_size < old_size(f)
  BY <1>1, InputAssumption DEF Shrink
<1>5. PICK n \in 1 .. Len(list) : n = new_num_blocks(new_size)
  BY <1>1, <1>2, <1>3, <1>4, ShrinkBounds DEF Shrink
<1>6. PICK pos \in 0 .. BLOCK_SIZE : pos = new_block_pos(new_size)
  BY <1>2, <1>4, ShrinkBounds
<1>7. /\ cut_file(f, n, pos) /\ UNCHANGED file_descriptor_count
      /\ Return(0, "UFS_ERR_NO_ERR")
  BY <1>1, <1>3, <1>5, <1>6 DEF Shrink
<1>8. file_descriptors' =
        [s \in DOMAIN file_descriptors |->
           IF s \in OpenSlots /\ IsMoved(file_descriptors[s], f, n)
             THEN MovedTo(file_descriptors[s], list[n], n, pos) ELSE file_descriptors[s]]
  BY <1>1, <1>3, <1>5, <1>6 DEF Shrink
<1>9. call' \in Call /\ CallAnchored' /\ ufs_errcode' \in ErrorCodes /\ ret' \in Int
  BY <1>7, ReturnTypes DEF ErrorCodes
<1>10. /\ UNCHANGED <<file_list, live_files>>
       /\ files' \in [FileIds -> File] /\ blocks' \in [BlockIds -> Block]
       /\ live_blocks' \subseteq BlockIds
       /\ \A g \in FileIds : /\ files'[g].refs = files[g].refs
                             /\ files'[g].deleted = files[g].deleted
       /\ n \in DOMAIN files'[f].block_list /\ files'[f].block_list[n] = list[n]
       /\ blocks'[list[n]].occupied = pos /\ list[n] \in BlockIds
       /\ BlocksAccounted'
       /\ \A fd \in FileDesc :
            /\ Anchored(fd) /\ InData(fd)
            /\ fd.file # f \/ fd.block_num < n
            => Anchored(fd)' /\ InData(fd)'
  BY <1>2, <1>3, <1>7, CutFile
<1>11. \A fd \in FileDesc : fd.file = f =>
         LET moved == MovedTo(fd, list[n], n, pos) IN
         /\ moved \in FileDesc /\ moved.file = f
         /\ moved.block_num = n /\ moved.curr_block = list[n]
         /\ moved.block_pos = pos
  <2>1. \A b \in BlockIds, fd \in FileDesc :
          LET moved == MovedTo(fd, b, n, pos) IN
          /\ moved \in FileDesc /\ moved.file = fd.file
          /\ moved.block_num = n /\ moved.curr_block = b
          /\ moved.block_pos = pos
    <3>1. n \in Nat
      BY <1>5
    <3> HIDE DEF FileDesc
    <3> QED BY <3>1 DEF MovedTo, FileDesc
  <2> QED BY <1>10, <2>1
<1>12. \A s \in OpenSlots :
         /\ s \in DOMAIN file_descriptors /\ file_descriptors[s] \in FileDesc
         /\ file_descriptors'[s] =
              IF IsMoved(file_descriptors[s], f, n)
                THEN MovedTo(file_descriptors[s], list[n], n, pos) ELSE file_descriptors[s]
         /\ file_descriptors'[s] \in FileDesc
         /\ file_descriptors'[s].file = file_descriptors[s].file
         /\ file_descriptors'[s] # NULL
  <2> TAKE s \in OpenSlots
  <2>1. s \in DOMAIN file_descriptors /\ file_descriptors[s] \in FileDesc
    BY OpenSlotType DEF IInv
  <2>2. file_descriptors'[s] =
          IF IsMoved(file_descriptors[s], f, n)
            THEN MovedTo(file_descriptors[s], list[n], n, pos) ELSE file_descriptors[s]
    BY <1>8, <2>1
  <2>3. IsMoved(file_descriptors[s], f, n) => file_descriptors[s].file = f
    BY DEF IsMoved
  <2> QED BY <1>11, <2>1, <2>2, <2>3, NullAssumption
<1>13. /\ DOMAIN file_descriptors' = DOMAIN file_descriptors
       /\ \A s \in DOMAIN file_descriptors : s \notin OpenSlots =>
            file_descriptors'[s] = NULL
  BY <1>8 DEF OpenSlots
<1>14. OpenSlots' = OpenSlots
  BY <1>12, <1>13 DEF OpenSlots
<1>15. \A g : DescriptorsOf(g)' = DescriptorsOf(g)
  BY <1>12, <1>14 DEF DescriptorsOf
<1>16. /\ file_descriptors' \in Seq(FileDesc \cup {NULL})
       /\ Len(file_descriptors') = Len(file_descriptors)
  <2>1. PICK c \in Nat : DOMAIN file_descriptors = 1 .. c /\ Len(file_descriptors) = c
    BY DEF IInv, TypeOK
  <2>2. \A s \in 1 .. c : file_descriptors'[s] \in FileDesc \cup {NULL}
    BY <1>12, <1>13, <2>1
  <2>3. file_descriptors' \in [1 .. c -> FileDesc \cup {NULL}]
    BY <1>8, <2>1, <2>2
  <2> QED BY <2>1, <2>3
<1>17. TypeOK'
  BY <1>7, <1>9, <1>10, <1>16 DEF IInv, TypeOK
<1>18. DescriptorsAnchored' /\ PositionsInData'
  <2>1. ASSUME NEW s \in OpenSlots
        PROVE  Anchored(file_descriptors[s])' /\ InData(file_descriptors[s])'
    <3>1. PICK fd \in FileDesc : fd = file_descriptors[s]
      BY <1>12
    <3>2. Anchored(fd) /\ InData(fd)
      BY <3>1 DEF IInv, DescriptorsAnchored, PositionsInData
    <3>3. CASE fd.file = f /\ fd.block_num >= n
      <4>1. file_descriptors'[s] = MovedTo(fd, list[n], n, pos)
        BY <1>12, <3>1, <3>3 DEF IsMoved
      <4>2. f \in live_files' /\ list[n] # NULL
        BY <1>2, <1>10, NullAssumption
      <4> QED BY <1>10, <1>11, <3>3, <4>1, <4>2 DEF Anchored, InData
    <3>4. CASE ~(fd.file = f /\ fd.block_num >= n)
      <4>1. file_descriptors'[s] = fd
        BY <1>12, <3>1, <3>4 DEF IsMoved
      <4>2. fd.file # f \/ fd.block_num < n
        BY <3>4 DEF FileDesc
      <4>3. Anchored(fd)' /\ InData(fd)'
        BY <1>10, <3>2, <4>2
      <4> QED BY <4>1, <4>3 DEF Anchored, InData
    <3> QED BY <3>3, <3>4
  <2> QED BY <1>14, <2>1 DEF DescriptorsAnchored, PositionsInData
<1>19. FilesAccounted'
  <2>1. live_files \subseteq FileIds
    BY DEF IInv, TypeOK
  <2> QED BY <1>7, <1>10, <1>15, <2>1 DEF IInv, FilesAccounted
<1>20. TableAccounted'
  BY <1>7, <1>14, <1>16 DEF IInv, TableAccounted, capacity
<1> QED BY <1>9, <1>10, <1>17, <1>18, <1>19, <1>20 DEF IInv

-----------------------------------------------------------------------------
(* Theorems *)

\* Every call, up to its loop if it has one, keeps the invariant.
LEMMA BeginIInv ==
  ASSUME IInv, Begin
  PROVE  IInv'
<1>1. CASE \E filename \in FileNames, flags \in OpenFlags :
             \/ OpenExisting(filename, flags)
             \/ OpenCreate(filename, flags)
             \/ OpenMissing(filename, flags)
  BY <1>1, OpenExistingIInv, OpenCreateIInv, ReturnsIInv
<1>2. CASE \E filename \in FileNames : Delete(filename) \/ DeleteFails(filename)
  BY <1>2, DeleteIInv, ReturnsIInv
<1>3. CASE \E i \in FdArguments : Close(i) \/ CloseFails(i) \/ ReadAtOnce(i)
  BY <1>3, CloseIInv, ReturnsIInv
<1>4. CASE \E i \in FdArguments, buf \in Buffers :
             WriteBegin(i, buf) \/ WriteFails(i, buf)
  BY <1>4, WriteBeginIInv, ReturnsIInv
<1>5. CASE \E i \in FdArguments, size \in ReadSizes : ReadBegin(i, size)
  BY <1>5, ReadBeginIInv
<1>6. CASE \E i \in FdArguments, new_size \in NewSizes :
             \/ ResizeFails(i, new_size)
             \/ GrowBegin(i, new_size)
             \/ Shrink(i, new_size)
             \/ ShrinkToNothing(i, new_size)
  BY <1>6, ReturnsIInv, GrowBeginIInv, ShrinkIInv, ShrinkToNothingIInv
<1> QED BY <1>1, <1>2, <1>3, <1>4, <1>5, <1>6 DEF Begin

\* Every loop iteration and return keeps the invariant.
LEMMA ContinueIInv ==
  ASSUME IInv, Continue
  PROVE  IInv'
  BY WriteNextBlockIInv, WriteChunkIInv, ReadNextBlockIInv, ReadChunkIInv,
     GrowBlockIInv, ReturnsIInv DEF Continue

\* Every step keeps the invariant.
LEMMA NextIInv == IInv /\ [Next]_vars => IInv'
<1> SUFFICES ASSUME IInv, [Next]_vars PROVE IInv'
  OBVIOUS
<1>1. CASE Next
  BY <1>1, BeginIInv, ContinueIInv DEF Next
<1>2. CASE UNCHANGED vars
  <2>1. UNCHANGED <<store, table>> /\ UNCHANGED <<ufs_errcode, ret, call>>
    BY <1>2 DEF vars, result
  <2>2. call' \in Call /\ ufs_errcode' \in ErrorCodes /\ ret' \in Int
    BY <2>1 DEF IInv, TypeOK
  <2>3. CallAnchored'
    BY <2>1 DEF IInv, CallAnchored, OpenSlots, table
  <2> QED BY <2>1, <2>2, <2>3, FrameIInv
<1> QED BY <1>1, <1>2

\* The inductive invariant holds in every state of every behaviour.
THEOREM Invariance == Spec => []IInv
  BY InitIInv, NextIInv, PTL DEF Spec

\* Every variable keeps its type: no call of the library makes block_pos or
\* occupied leave 0 .. BLOCK_SIZE, refs a non-integer, or a list hold NULL.
THEOREM TypeCorrect == Spec => []TypeOK
<1>1. IInv => TypeOK
  BY DEF IInv
<1> QED BY <1>1, Invariance, PTL

\* Memory safety of descriptors: whatever sequence of ufs_open, ufs_close,
\* ufs_delete and ufs_resize, no open descriptor refers to freed memory.
THEOREM DescriptorSafety == Spec => []DescriptorsAnchored
<1>1. IInv => DescriptorsAnchored
  BY DEF IInv
<1> QED BY <1>1, Invariance, PTL

\* No descriptor stands behind the data of its block, so that the counts that
\* ufs_write and ufs_read subtract are never negative.
THEOREM PositionSafety == Spec => []PositionsInData
<1>1. IInv => PositionsInData
  BY DEF IInv
<1> QED BY <1>1, Invariance, PTL

\* refs counts the open descriptors of a file, and a file is allocated exactly
\* while it is linked or open.
THEOREM FileLifetime == Spec => []FilesAccounted
<1>1. IInv => FilesAccounted
  BY DEF IInv
<1> QED BY <1>1, Invariance, PTL

\* Blocks are neither leaked nor freed twice nor shared: ufs_delete, the last
\* ufs_close and a shrinking ufs_resize free exactly what leaves the lists.
THEOREM BlockLifetime == Spec => []BlocksAccounted
<1>1. IInv => BlocksAccounted
  BY DEF IInv
<1> QED BY <1>1, Invariance, PTL

\* file_descriptor_count counts the used slots of the array, so that insert_fd
\* always finds a free one.
THEOREM TableCorrect == Spec => []TableAccounted
<1>1. IInv => TableAccounted
  BY DEF IInv
<1> QED BY <1>1, Invariance, PTL

\* The descriptor of a call in progress stays open and keeps its block.
THEOREM CallSafety == Spec => []CallAnchored
<1>1. IInv => CallAnchored
  BY DEF IInv
<1> QED BY <1>1, Invariance, PTL

-----------------------------------------------------------------------------
(* Names *)

\* Nothing is linked anew and nothing that is linked gets another name.
NamesStay ==
  /\ file_list' \subseteq file_list
  /\ \A f \in file_list' : files'[f].name = files[f].name

\* Adding a block to a file leaves its name.
LEMMA NameOfExtended ==
  ASSUME NEW r \in File, NEW b \in BlockIds
  PROVE  Extended(r, b).name = r.name
<1> DEFINE l == Append(r.block_list, b)
           m == r.num_blocks + 1
<1> HIDE DEF l, m
<1>1. [r EXCEPT !.block_list = l, !.last_block = b, !.num_blocks = m].name = r.name
  BY DEF File
<1> QED
  BY <1>1 DEF Extended, l, m

\* Cutting a file leaves its name.
LEMMA NameOfCut ==
  ASSUME NEW r \in File, NEW n \in Nat
  PROVE  Cut(r, n).name = r.name
<1> DEFINE l == SubSeq(r.block_list, 1, n)
           b == r.block_list[n]
<1> HIDE DEF l, b
<1>1. [r EXCEPT !.block_list = l, !.last_block = b, !.num_blocks = n].name = r.name
  BY DEF File
<1> QED
  BY <1>1 DEF Cut, l, b

\* What a call does to the blocks or the counters of a file leaves its name.
LEMMA NameOfChanged ==
  ASSUME IInv, file_list' = file_list, NEW f \in FileIds,
         \/ UNCHANGED files
         \/ \E b \in BlockIds : files' = [files EXCEPT ![f] = Extended(@, b)]
         \/ \E n \in Nat : files' = [files EXCEPT ![f] = Cut(@, n)]
         \/ \E refs \in Int : files' = [files EXCEPT ![f].refs = refs]
  PROVE  NamesStay
<1>1. files \in [FileIds -> File] /\ file_list \subseteq FileIds /\ files[f] \in File
  BY DEF IInv, TypeOK
<1>2. CASE UNCHANGED files
  BY <1>2 DEF NamesStay
<1>3. ASSUME NEW b \in BlockIds, files' = [files EXCEPT ![f] = Extended(@, b)]
      PROVE  NamesStay
  <2>1. Extended(files[f], b).name = files[f].name
    BY <1>1, NameOfExtended
  <2> QED
    BY <1>1, <1>3, <2>1 DEF NamesStay
<1>4. ASSUME NEW n \in Nat, files' = [files EXCEPT ![f] = Cut(@, n)]
      PROVE  NamesStay
  <2>1. Cut(files[f], n).name = files[f].name
    BY <1>1, NameOfCut
  <2> QED
    BY <1>1, <1>4, <2>1 DEF NamesStay
<1>5. ASSUME NEW refs \in Int, files' = [files EXCEPT ![f].refs = refs]
      PROVE  NamesStay
  <2>1. [files[f] EXCEPT !.refs = refs].name = files[f].name
    BY <1>1 DEF File
  <2> QED
    BY <1>1, <1>5, <2>1 DEF NamesStay
<1> QED
  BY <1>2, <1>3, <1>4, <1>5

\* Every step but the creation of a file leaves names.
LEMMA NamesStayInBegin ==
  ASSUME IInv, Begin,
         \A filename \in FileNames, flags \in OpenFlags : ~OpenCreate(filename, flags)
  PROVE  NamesStay
<1>1. \A i \in OpenSlots : file_descriptors[i] \in FileDesc /\ file_descriptors[i].file \in live_files
                            /\ file_descriptors[i].file \in FileIds
  BY DEF IInv, TypeOK, DescriptorsAnchored, Anchored, OpenSlots, FileDesc
<1>2. ASSUME NEW filename \in FileNames, NEW flags \in OpenFlags, OpenExisting(filename, flags)
      PROVE  NamesStay
  BY <1>2 DEF OpenExisting, Named, NamesStay, IInv, TypeOK, File
<1>3. ASSUME NEW filename \in FileNames, Delete(filename)
      PROVE  NamesStay
  BY <1>3 DEF Delete, Named, delete_file, NamesStay, IInv, TypeOK, File
<1>4. ASSUME NEW i \in FdArguments, Close(i)
      PROVE  NamesStay
  <2> DEFINE f == file_descriptors[i].file
  <2>1. file_list' = file_list /\ f \in live_files /\ f \in FileIds
    BY <1>1, <1>4 DEF Close
  <2>2. CASE IsLastClose(f)
    <3>1. f \notin file_list
      BY <2>1, <2>2, Zenon DEF IsLastClose, IInv, FilesAccounted
    <3> QED
      BY <1>4, <2>1, <2>2, <3>1 DEF Close, delete_file, NamesStay, IInv, TypeOK
  <2>3. CASE ~IsLastClose(f)
    <3>1. files' = [files EXCEPT ![f].refs = files[f].refs - 1]
      BY <1>4, <2>3 DEF Close
    <3>2. files[f].refs - 1 \in Int
      BY <2>1 DEF IInv, TypeOK, File
    <3> QED
      BY <2>1, <3>1, <3>2, NameOfChanged
  <2> QED
    BY <2>2, <2>3
<1>5. ASSUME NEW i \in FdArguments, NEW buf \in Buffers, WriteBegin(i, buf)
      PROVE  NamesStay
  BY <1>1, <1>5, NameOfChanged DEF WriteBegin, increase_file, store
<1>6. ASSUME NEW i \in FdArguments, NEW new_size \in NewSizes, Shrink(i, new_size)
      PROVE  NamesStay
  <2> DEFINE f == file_descriptors[i].file
  <2>1. new_size \in Nat /\ new_num_blocks(new_size) \in Nat
    BY InputAssumption, NewNumBlocksType
  <2>3. f \in FileIds
    BY <1>1, <1>6 DEF Shrink, Resizable
  <2>2. file_list' = file_list /\ files' = [files EXCEPT ![f] = Cut(@, new_num_blocks(new_size))]
    BY <1>6 DEF Shrink, cut_file
  <2> QED
    BY <2>1, <2>2, <2>3, NameOfChanged
<1>7. ASSUME UNCHANGED store
      PROVE  NamesStay
  BY <1>7 DEF store, NamesStay
<1> QED
  BY <1>2, <1>3, <1>4, <1>5, <1>6, <1>7
  DEF Begin, OpenMissing, Fail, DeleteFails, CloseFails, ReadAtOnce, WriteFails, ReadBegin,
      ResizeFails, GrowBegin, ShrinkToNothing

\* The loops leave names.
LEMMA NamesStayInLoops ==
  ASSUME IInv, Continue
  PROVE  NamesStay
<1>1. CASE WriteNextBlock \/ GrowBlock
  <2>1. call.fd \in OpenSlots /\ file_descriptors[call.fd].file \in FileIds
    BY <1>1 DEF WriteNextBlock, GrowBlock, IInv, CallAnchored, TypeOK, OpenSlots, FileDesc
  <2> QED
    BY <1>1, <2>1, NameOfChanged DEF WriteNextBlock, GrowBlock, increase_file, store
<1>2. CASE ~(WriteNextBlock \/ GrowBlock)
  <2>1. UNCHANGED <<file_list, files>>
    BY <1>2 DEF Continue, WriteChunk, WriteEnd, ReadNextBlock, ReadEof, ReadChunk, ReadEnd, GrowEnd, store
  <2> QED
    BY <2>1 DEF NamesStay
<1> QED
  BY <1>1, <1>2

\* A created file has a name that no linked file has.
LEMMA CreatedNamesUnique ==
  ASSUME IInv, NamesUnique, NEW filename \in FileNames, NEW flags \in OpenFlags,
         OpenCreate(filename, flags)
  PROVE  NamesUnique'
<1>1. PICK f \in FileIds \ live_files :
        /\ files' = [files EXCEPT ![f] = [new_file(filename) EXCEPT !.refs = 1]]
        /\ file_list' = file_list \cup {f}
  BY DEF OpenCreate
<1>2. f \notin file_list /\ \A g \in file_list : files'[g] = files[g] /\ files[g].name # filename
  BY <1>1 DEF IInv, FilesAccounted, TypeOK, OpenCreate, Named
<1>3. files'[f].name = filename
  BY <1>1 DEF IInv, TypeOK, new_file
<1> QED
  BY <1>1, <1>2, <1>3 DEF NamesUnique

\* No step gives two linked files one name.
LEMMA NamesUniqueStep == IInv /\ NamesUnique /\ [Next]_vars => NamesUnique'
<1> SUFFICES ASSUME IInv, NamesUnique, [Next]_vars PROVE NamesUnique'
  OBVIOUS
<1>1. NamesStay => NamesUnique'
  BY DEF NamesStay, NamesUnique
<1>2. UNCHANGED vars => NamesStay
  BY DEF vars, store, NamesStay
<1> QED
  BY <1>1, <1>2, NamesStayInBegin, NamesStayInLoops, CreatedNamesUnique DEF Next

\* One linked file at most has a name, whatever is opened, deleted while open,
\* and opened again under the same name (ufs_open, ufs_delete).
THEOREM NamesCorrect == Spec => []NamesUnique
<1>1. Init => NamesUnique
  BY DEF Init, NamesUnique
<1> QED
  BY <1>1, NamesUniqueStep, Invariance, PTL DEF Spec

-----------------------------------------------------------------------------
(* Sizes *)

\* What a call in progress may still add: ufs_write has compared the end of
\* what it writes with MAX_FILE_SIZE and ufs_resize the new size, before their
\* loops.
RoomLeft ==
  /\ call.op = "write" => Position(file_descriptors[call.fd]) + call.size <= MAX_FILE_SIZE
  /\ call.op = "grow" => call.size * BLOCK_SIZE <= MAX_FILE_SIZE

\* No list of blocks gets longer.
ListsShorten ==
  \A f \in live_files' :
    \/ f \in live_files /\ Len(files'[f].block_list) <= Len(files[f].block_list)
    \/ files'[f].block_list = <<>>

\* Fewer blocks have fewer bytes.
LEMMA FewerBytes ==
  ASSUME NEW m \in Nat, NEW n \in Nat, m <= n
  PROVE  m * BLOCK_SIZE <= n * BLOCK_SIZE /\ m * BLOCK_SIZE \in Nat
<1> PICK B \in Nat : B = BLOCK_SIZE
  BY BlockSizePositive
<1>1. PICK d \in Nat : n = m + d
  <2> WITNESS n - m \in Nat
  <2> QED OBVIOUS
<1>2. n * B = m * B + d * B /\ m * B \in Nat /\ d * B \in Nat
  BY <1>1
<1> QED BY <1>2

\* MAX_FILE_SIZE is so many blocks, that a block has room behind any that end
\* before it.
LEMMA RoomForBlock ==
  ASSUME NEW m \in Nat, m * BLOCK_SIZE < MAX_FILE_SIZE
  PROVE  (m + 1) * BLOCK_SIZE <= MAX_FILE_SIZE
<1> PICK B \in Nat : B = BLOCK_SIZE /\ B > 0
  BY BlockSizePositive
<1> PICK M \in Nat : M = MAX_FILE_SIZE /\ M % B = 0
  BY MaxSizeAssumption
<1> PICK q : q = M \div B
  OBVIOUS
<1>1. q \in Nat /\ M = B * q
  OBVIOUS
<1>2. m < q
  <2> SUFFICES ASSUME m >= q PROVE FALSE
    BY <1>1
  <2>1. q * B <= m * B
    BY <1>1, FewerBytes
  <2>2. q * B = B * q /\ m * B \in Nat /\ B * q \in Nat
    BY <1>1
  <2> QED BY <1>1, <2>1, <2>2
<1>3. m + 1 <= q /\ m + 1 \in Nat
  BY <1>1, <1>2
<1>4. (m + 1) * B <= q * B
  BY <1>1, <1>3, FewerBytes
<1>5. q * B = B * q
  BY <1>1
<1> QED BY <1>1, <1>4, <1>5

\* A size that is allowed has no more blocks than are allowed.
LEMMA RoomForSize ==
  ASSUME NEW s \in Nat, s <= MAX_FILE_SIZE
  PROVE  new_num_blocks(s) * BLOCK_SIZE <= MAX_FILE_SIZE
<1> PICK B \in Nat : B = BLOCK_SIZE /\ B > 0
  BY BlockSizePositive
<1> PICK M \in Nat : M = MAX_FILE_SIZE
  BY MaxSizeAssumption
<1> PICK q : q = s \div B
  OBVIOUS
<1> PICK r : r = s % B
  OBVIOUS
<1>1. q \in Nat /\ r \in 0 .. B - 1 /\ s = B * q + r
  OBVIOUS
<1>2. B * q = q * B /\ q * B \in Nat
  BY <1>1
<1>3. CASE r = 0
  BY <1>1, <1>2, <1>3 DEF new_num_blocks
<1>4. CASE r # 0
  <2>1. q * B < M
    BY <1>1, <1>2, <1>4
  <2>2. (q + 1) * B <= M
    BY <1>1, <2>1, RoomForBlock
  <2> QED
    BY <1>4, <2>2 DEF new_num_blocks
<1> QED BY <1>3, <1>4

\* Files stay within the limit when no list gets longer.
LEMMA ShorterBounded ==
  ASSUME IInv, IInv', SizeBounded, ListsShorten
  PROVE  SizeBounded'
<1> SUFFICES ASSUME NEW f \in live_files'
             PROVE  Len(files'[f].block_list) * BLOCK_SIZE <= MAX_FILE_SIZE
  BY DEF SizeBounded
<1> PICK n : n = Len(files'[f].block_list)
  OBVIOUS
<1>1. n \in Nat
  <2>1. files'[f].block_list \in Seq(BlockIds)
    BY DEF IInv, TypeOK, File
  <2> QED BY <2>1
<1> PICK B \in Nat : B = BLOCK_SIZE
  BY BlockSizePositive
<1> PICK M \in Nat : M = MAX_FILE_SIZE
  BY MaxSizeAssumption
<1>2. CASE f \in live_files /\ n <= Len(files[f].block_list)
  <2> PICK m \in Nat : m = Len(files[f].block_list)
    BY <1>2, FileType
  <2>1. m * B <= M
    BY <1>2 DEF SizeBounded
  <2>2. n <= m
    BY <1>2
  <2>3. n * B <= m * B /\ n * B \in Nat /\ m * B \in Nat
    <3>1. n * BLOCK_SIZE <= m * BLOCK_SIZE /\ n * BLOCK_SIZE \in Nat
      BY ONLY <1>1, <2>2, FewerBytes, m \in Nat
    <3>2. m * BLOCK_SIZE \in Nat
      BY ONLY FewerBytes, m \in Nat
    <3> QED BY <3>1, <3>2
  <2> QED BY <2>1, <2>3
<1>3. CASE n = 0
  BY <1>3
<1>4. n = 0 \/ (f \in live_files /\ n <= Len(files[f].block_list))
  BY DEF ListsShorten
<1> QED BY <1>2, <1>3, <1>4

\* Files stay within the limit when one that has room gets a block.
LEMMA LongerBounded ==
  ASSUME IInv, SizeBounded, NEW f \in live_files, NEW b \in BlockIds, increase_file(f, b),
         (Len(files[f].block_list) + 1) * BLOCK_SIZE <= MAX_FILE_SIZE
  PROVE  SizeBounded'
<1>1. /\ live_files' = live_files /\ f \in FileIds /\ files[f] \in File
      /\ files' = [files EXCEPT ![f] = Extended(@, b)]
      /\ files \in [FileIds -> File] /\ live_files \subseteq FileIds
  BY FileType DEF increase_file, IInv, TypeOK
<1>2. Extended(files[f], b).block_list = Append(files[f].block_list, b)
  <2> DEFINE l == Append(files[f].block_list, b)
             m == files[f].num_blocks + 1
             r == files[f]
  <2>1. r \in File /\ Extended(files[f], b) = [r EXCEPT !.block_list = l, !.last_block = b, !.num_blocks = m]
    BY <1>1 DEF Extended, File
  <2> HIDE DEF l, m, r
  <2>2. [r EXCEPT !.block_list = l, !.last_block = b, !.num_blocks = m].block_list = l
    BY <2>1 DEF File
  <2> QED BY <2>1, <2>2 DEF l, m, r
<1>3. files[f].block_list \in Seq(BlockIds)
  BY FileType
<1>4. Len(files'[f].block_list) = Len(files[f].block_list) + 1
  BY <1>1, <1>2, <1>3
<1>5. \A g \in live_files : g # f => files'[g] = files[g]
  BY <1>1
<1> QED BY <1>1, <1>4, <1>5 DEF SizeBounded

\* Cutting a file, or counting its descriptors, makes no list longer.
LEMMA ListsOfChanged ==
  ASSUME IInv, NEW f \in live_files, live_files' \subseteq live_files,
         \/ UNCHANGED files
         \/ \E n \in 0 .. Len(files[f].block_list) : files' = [files EXCEPT ![f] = Cut(@, n)]
         \/ \E refs \in Int : files' = [files EXCEPT ![f].refs = refs]
         \/ files' = [files EXCEPT ![f].deleted = TRUE]
  PROVE  ListsShorten
<1>1. /\ files \in [FileIds -> File] /\ files[f] \in File /\ live_files \subseteq FileIds
      /\ files[f].block_list \in Seq(BlockIds) /\ f \in FileIds
  BY FileType DEF IInv, TypeOK
<1>2. \A g \in live_files : Len(files[g].block_list) \in Nat
  BY FileType
<1>3. SUFFICES Len(files'[f].block_list) <= Len(files[f].block_list)
               /\ \A g \in live_files : g # f => files'[g] = files[g]
  BY <1>2 DEF ListsShorten
<1>4. \A g \in live_files : g # f => files'[g] = files[g]
  BY <1>1
<1>5. CASE UNCHANGED files
  BY <1>2, <1>4, <1>5
<1>6. ASSUME NEW n \in 0 .. Len(files[f].block_list), files' = [files EXCEPT ![f] = Cut(@, n)]
      PROVE  Len(files'[f].block_list) <= Len(files[f].block_list)
  <2> PICK list \in Seq(BlockIds) : list = files[f].block_list
    BY <1>1
  <2> DEFINE l == SubSeq(list, 1, n)
             b == list[n]
             r == files[f]
  <2>1. Len(l) = n /\ n <= Len(list)
    <3>1. n \in Nat /\ n <= Len(list) /\ Len(list) \in Nat
      OBVIOUS
    <3>2. \A j \in 1 .. n : list[j] \in BlockIds
      BY <3>1
    <3> QED BY <3>1, <3>2
  <2> HIDE DEF l, b, r
  <2>2. [r EXCEPT !.block_list = l, !.last_block = b, !.num_blocks = n].block_list = l
    BY <1>1 DEF r, File
  <2>3. files'[f] = Cut(r, n) /\ Cut(r, n) = [r EXCEPT !.block_list = l, !.last_block = b, !.num_blocks = n]
    BY <1>1, <1>6 DEF Cut, r, l, b
  <2> QED BY <2>1, <2>2, <2>3
<1>7. ASSUME NEW refs \in Int, files' = [files EXCEPT ![f].refs = refs]
      PROVE  Len(files'[f].block_list) <= Len(files[f].block_list)
  <2>1. [files[f] EXCEPT !.refs = refs].block_list = files[f].block_list
    BY <1>1 DEF File
  <2>2. files'[f] = [files[f] EXCEPT !.refs = refs]
    BY <1>1, <1>7
  <2> QED BY <1>2, <2>1, <2>2
<1>8. ASSUME files' = [files EXCEPT ![f].deleted = TRUE]
      PROVE  Len(files'[f].block_list) <= Len(files[f].block_list)
  <2>1. [files[f] EXCEPT !.deleted = TRUE].block_list = files[f].block_list
    BY <1>1 DEF File
  <2>2. files'[f] = [files[f] EXCEPT !.deleted = TRUE]
    BY <1>1, <1>8
  <2> QED BY <1>2, <2>1, <2>2
<1> QED BY <1>4, <1>5, <1>6, <1>7, <1>8

\* A step that touches no file, and one that frees a file, make no list longer.
LEMMA ListsOfOthers ==
  ASSUME IInv, \/ UNCHANGED <<files, live_files>>
               \/ \E f \in live_files : delete_file(f)
  PROVE  ListsShorten
<1>1. \A g \in live_files : Len(files[g].block_list) \in Nat
  BY FileType
<1>2. CASE UNCHANGED <<files, live_files>>
  BY <1>1, <1>2 DEF ListsShorten
<1>3. CASE \E f \in live_files : delete_file(f)
  <2>1. PICK f \in live_files : delete_file(f)
    BY <1>3
  <2>2. live_files' = live_files \ {f} /\ \A g \in live_files' : files'[g] = files[g]
    BY <2>1, DeleteFile
  <2> QED BY <1>1, <2>2 DEF ListsShorten
<1> QED BY <1>2, <1>3

\* Of the calls, up to their loops, ufs_write alone makes a list longer.
LEMMA ListsShortenInBegin ==
  ASSUME IInv, Begin,
         \A i \in FdArguments, buf \in Buffers : ~WriteBegin(i, buf)
  PROVE  ListsShorten
<1>1. \A i \in OpenSlots : file_descriptors[i].file \in live_files
  BY DEF IInv, DescriptorsAnchored, Anchored
<1>2. ASSUME NEW filename \in FileNames, NEW flags \in OpenFlags, OpenExisting(filename, flags)
      PROVE  ListsShorten
  <2>1. PICK f \in Named(filename) : files' = [files EXCEPT ![f].refs = @ + 1]
    BY <1>2 DEF OpenExisting
  <2>2. f \in live_files /\ files[f].refs + 1 \in Int
    BY FileType DEF Named, IInv, FilesAccounted, File
  <2>3. live_files' = live_files /\ files' = [files EXCEPT ![f].refs = files[f].refs + 1]
    BY <1>2, <2>1 DEF OpenExisting
  <2> QED BY <2>2, <2>3, ListsOfChanged
<1>3. ASSUME NEW filename \in FileNames, NEW flags \in OpenFlags, OpenCreate(filename, flags)
      PROVE  ListsShorten
  <2>1. PICK f \in FileIds \ live_files :
          /\ files' = [files EXCEPT ![f] = [new_file(filename) EXCEPT !.refs = 1]]
          /\ live_files' = live_files \cup {f}
    BY <1>3 DEF OpenCreate
  <2>2. files'[f].block_list = <<>>
    BY <2>1 DEF IInv, TypeOK, new_file
  <2>3. \A g \in live_files : files'[g] = files[g] /\ Len(files[g].block_list) \in Nat
    BY <2>1, FileType DEF IInv, TypeOK
  <2> QED BY <2>1, <2>2, <2>3 DEF ListsShorten
<1>4. ASSUME NEW filename \in FileNames, Delete(filename)
      PROVE  ListsShorten
  <2>1. PICK f \in Named(filename) :
          IF IsClosed(f)
            THEN delete_file(f)
            ELSE /\ files' = [files EXCEPT ![f].deleted = TRUE]
                 /\ UNCHANGED <<live_files, heap>>
    BY <1>4 DEF Delete
  <2>2. f \in live_files
    BY DEF Named, IInv, FilesAccounted
  <2> QED BY <2>1, <2>2, ListsOfChanged, ListsOfOthers
<1>5. ASSUME NEW i \in FdArguments, Close(i)
      PROVE  ListsShorten
  <2> PICK f \in live_files : f = file_descriptors[i].file
    BY <1>1, <1>5 DEF Close
  <2>1. files[f].refs - 1 \in Int
    BY FileType DEF File
  <2>2. CASE IsLastClose(f)
    <3>1. delete_file(f)
      BY <1>5, <2>2 DEF Close
    <3> QED BY <3>1, ListsOfOthers
  <2>3. CASE ~IsLastClose(f)
    <3>1. files' = [files EXCEPT ![f].refs = files[f].refs - 1] /\ live_files' = live_files
      BY <1>5, <2>3 DEF Close
    <3> QED BY <2>1, <3>1, ListsOfChanged
  <2> QED BY <2>2, <2>3
<1>6. ASSUME NEW i \in FdArguments, NEW new_size \in NewSizes, Shrink(i, new_size)
      PROVE  ListsShorten
  <2> PICK f \in live_files : f = file_descriptors[i].file
    BY <1>1, <1>6 DEF Shrink, Resizable
  <2> PICK n : n = new_num_blocks(new_size)
    OBVIOUS
  <2>1. new_size \in Nat /\ new_size < old_size(f)
    BY <1>6, InputAssumption DEF Shrink
  <2>2. n \in 0 .. Len(files[f].block_list)
    <3>1. n \in Nat /\ n <= Len(files[f].block_list)
      BY <2>1, ShrinkBounds
    <3>2. Len(files[f].block_list) \in Nat
      BY FileType
    <3> QED BY <3>1, <3>2
  <2>3. live_files' = live_files /\ files' = [files EXCEPT ![f] = Cut(@, n)]
    BY <1>6 DEF Shrink, cut_file
  <2> QED BY <2>2, <2>3, ListsOfChanged
<1>7. ASSUME UNCHANGED store
      PROVE  ListsShorten
  BY <1>7, ListsOfOthers DEF store
<1> QED
  BY <1>2, <1>3, <1>4, <1>5, <1>6, <1>7
  DEF Begin, OpenMissing, Fail, DeleteFails, CloseFails, ReadAtOnce, WriteFails, ReadBegin,
      ResizeFails, GrowBegin, ShrinkToNothing

\* Of the loops, ufs_write at the end of the file and the growing ufs_resize
\* alone make a list longer.
LEMMA ListsShortenInLoops ==
  ASSUME IInv, Continue, ~WriteNextBlock, ~GrowBlock
  PROVE  ListsShorten
<1>1. UNCHANGED <<files, live_files>>
  BY DEF Continue, WriteChunk, WriteEnd, ReadNextBlock, ReadEof, ReadChunk, ReadEnd, GrowEnd, store
<1> QED BY <1>1, ListsOfOthers

\* A call that returns needs no room any more.
LEMMA ReturnLeavesRoom ==
  ASSUME NEW value, NEW errcode, Return(value, errcode)
  PROVE  RoomLeft'
  BY DEF Return, Idle, RoomLeft

\* Every call but ufs_write starts with the room it needs.
LEMMA RoomLeftInBegin ==
  ASSUME IInv, Begin,
         \A i \in FdArguments, buf \in Buffers : ~WriteBegin(i, buf)
  PROVE  RoomLeft'
<1>1. \A v, e : Return(v, e) => RoomLeft'
  BY ReturnLeavesRoom
<1>2. ASSUME NEW i \in FdArguments, NEW size \in ReadSizes, ReadBegin(i, size)
      PROVE  RoomLeft'
  BY <1>2 DEF ReadBegin, Start, RoomLeft
<1>3. ASSUME NEW i \in FdArguments, NEW new_size \in NewSizes, GrowBegin(i, new_size)
      PROVE  RoomLeft'
  <2>1. call'.op = "grow" /\ call'.size = new_num_blocks(new_size)
    BY <1>3 DEF GrowBegin, Start
  <2>2. new_size \in Nat /\ new_size <= MAX_FILE_SIZE
    BY <1>3, InputAssumption DEF GrowBegin, Resizable
  <2>3. new_num_blocks(new_size) * BLOCK_SIZE <= MAX_FILE_SIZE
    BY <2>2, RoomForSize
  <2> QED BY <2>1, <2>3 DEF RoomLeft
<1>4. ASSUME NEW i \in FdArguments, NEW new_size \in NewSizes, ShrinkToNothing(i, new_size)
      PROVE  RoomLeft'
  BY <1>4 DEF ShrinkToNothing, Idle, RoomLeft
<1> QED
  BY <1>1, <1>2, <1>3, <1>4
  DEF Begin, OpenExisting, OpenCreate, OpenMissing, Delete, DeleteFails, Close, CloseFails,
      ReadAtOnce, WriteFails, ResizeFails, GrowBegin, Shrink, Fail, insert_fd

\* ufs_write starts with the room it has compared with MAX_FILE_SIZE, and the
\* first block of a file has room.
LEMMA WriteBeginBounded ==
  ASSUME IInv, IInv', SizeBounded, NEW i \in FdArguments, NEW buf \in Buffers, WriteBegin(i, buf)
  PROVE  SizeBounded' /\ RoomLeft'
<1> PICK fd \in FileDesc : fd = file_descriptors[i]
  BY OpenSlotType DEF WriteBegin, IInv
<1> DEFINE list == files[fd.file].block_list
<1>1. i \in OpenSlots /\ Anchored(fd) /\ i \in Nat
  BY OpenSlotType DEF WriteBegin, IInv, DescriptorsAnchored
<1>2. fd.file \in live_files /\ (fd.curr_block = NULL => fd.block_num = 0 /\ fd.block_pos = 0)
  BY <1>1 DEF Anchored
<1>3. call'.op = "write" /\ call'.fd = i /\ call'.size = Len(buf)
  BY DEF WriteBegin, Start
<1>4. Position(fd) + Len(buf) <= MAX_FILE_SIZE
  BY DEF WriteBegin
<1>5. ASSUME Position(file_descriptors'[i]) = Position(fd)
      PROVE  RoomLeft'
  BY <1>3, <1>4, <1>5 DEF RoomLeft, Position
<1>6. ASSUME fd.curr_block = NULL, NEW b, SetFd(i, AtFirstBlock(fd, b))
      PROVE  Position(file_descriptors'[i]) = Position(fd)
  <2>1. i \in DOMAIN file_descriptors
    BY <1>1, OpenSlotType DEF IInv
  <2>2. file_descriptors'[i] = AtFirstBlock(fd, b)
    BY <1>6, <2>1 DEF SetFd
  <2>3. AtFirstBlock(fd, b).block_num = 1 /\ AtFirstBlock(fd, b).block_pos = 0
    BY <1>2, <1>6 DEF AtFirstBlock, FileDesc
  <2>4. (1 - 1) * BLOCK_SIZE + 0 = 0
    BY BlockSizePositive
  <2> QED BY <1>2, <1>6, <2>2, <2>3, <2>4 DEF Position
<1>7. CASE fd.curr_block # NULL /\ UNCHANGED <<store, table>>
  <2>1. file_descriptors'[i] = fd /\ UNCHANGED <<files, live_files>>
    BY <1>7 DEF store, table
  <2> QED BY <1>5, <2>1, ListsOfOthers, ShorterBounded
<1>8. CASE fd.curr_block = NULL /\ list # << >>
           /\ SetFd(i, AtFirstBlock(fd, list[1])) /\ UNCHANGED store
  <2>1. UNCHANGED <<files, live_files>>
    BY <1>8 DEF store
  <2> QED BY <1>5, <1>6, <1>8, <2>1, ListsOfOthers, ShorterBounded
<1>9. CASE fd.curr_block = NULL /\ list = << >>
           /\ \E b \in BlockIds :
                increase_file(fd.file, b) /\ SetFd(i, AtFirstBlock(fd, b))
  <2>1. PICK b \in BlockIds : increase_file(fd.file, b) /\ SetFd(i, AtFirstBlock(fd, b))
    BY <1>9
  <2>2. RoomLeft'
    BY <1>5, <1>6, <1>9, <2>1
  <2>3. (Len(list) + 1) * BLOCK_SIZE <= MAX_FILE_SIZE
    <3>1. Len(list) = 0
      BY <1>9
    <3>2. 0 * BLOCK_SIZE < MAX_FILE_SIZE
      BY BlockSizePositive, MaxSizeAssumption
    <3>3. (0 + 1) * BLOCK_SIZE <= MAX_FILE_SIZE
      BY <3>2, RoomForBlock
    <3> QED BY <3>1, <3>3
  <2>4. SizeBounded'
    BY <1>2, <2>1, <2>3, LongerBounded
  <2> QED BY <2>2, <2>4
<1> QED BY <1>7, <1>8, <1>9 DEF WriteBegin

\* The end of a block is the start of the next one: ufs_write that goes there
\* stays where it was, and adds the block only if it has bytes to put in it.
LEMMA WriteNextBlockBounded ==
  ASSUME IInv, IInv', SizeBounded, RoomLeft, WriteNextBlock
  PROVE  SizeBounded' /\ RoomLeft'
<1> PICK fd \in FileDesc : fd = file_descriptors[call.fd]
  BY CallDescriptor DEF WriteNextBlock
<1> PICK i : i = call.fd
  OBVIOUS
<1> DEFINE next == NextBlock(fd.file, fd.curr_block)
<1>1. i \in OpenSlots /\ Anchored(fd) /\ fd.curr_block # NULL
  BY CallDescriptor DEF WriteNextBlock
<1>2. fd.file \in live_files
  BY <1>1 DEF Anchored
<1> PICK m \in Nat : m = Len(files[fd.file].block_list)
  BY <1>2, FileType
<1> PICK n \in Nat : n = fd.block_num
  BY DEF FileDesc
<1>3. n \in 1 .. m /\ (next = NULL <=> n = m)
  BY <1>1, NextOfAnchored
<1> PICK B \in Nat : B = BLOCK_SIZE /\ B > 0
  BY BlockSizePositive
<1> PICK M \in Nat : M = MAX_FILE_SIZE
  BY MaxSizeAssumption
<1> PICK size \in Nat : size = call.size
  BY DEF IInv, TypeOK, Call
<1>4. (n - 1) * B + B = n * B /\ n * B \in Nat
  OBVIOUS
<1>5. Position(fd) = n * B
  <2>1. fd.block_pos = B
    BY DEF WriteNextBlock
  <2>2. Position(fd) = (n - 1) * B + B
    BY <1>3, <2>1 DEF Position
  <2> QED BY <1>4, <2>2
<1>6. size > 0 /\ n * B + size <= M /\ UNCHANGED call /\ call.op = "write"
  <2>1. Position(fd) + size <= M /\ size > 0 /\ UNCHANGED call /\ call.op = "write"
    BY DEF RoomLeft, WriteNextBlock
  <2> QED BY <1>5, <2>1
<1>7. ASSUME NEW b \in BlockIds, SetFd(call.fd, AtNextBlock(fd, b))
      PROVE  RoomLeft'
  <2>1. i \in DOMAIN file_descriptors
    BY <1>1, OpenSlotType DEF IInv
  <2>2. file_descriptors'[i] = AtNextBlock(fd, b)
    BY <1>7, <2>1 DEF SetFd
  <2>3. AtNextBlock(fd, b).block_num = n + 1 /\ AtNextBlock(fd, b).block_pos = 0
    BY AtNextBlockType
  <2>4. n + 1 - 1 = n /\ n + 1 # 0 /\ n * B + 0 = n * B
    BY <1>4
  <2>5. Position(file_descriptors'[i]) = n * B
    BY <2>2, <2>3, <2>4 DEF Position
  <2>6. call'.op = "write" /\ call'.fd = i /\ call'.size = size
    BY <1>6
  <2> QED BY <1>6, <2>5, <2>6 DEF RoomLeft, Position
<1>8. CASE next # NULL /\ SetFd(call.fd, AtNextBlock(fd, next)) /\ UNCHANGED store
  <2>1. next \in BlockIds
    BY <1>1, <1>8, NextOfAnchored
  <2>2. UNCHANGED <<files, live_files>>
    BY <1>8 DEF store
  <2> QED BY <1>7, <1>8, <2>1, <2>2, ListsOfOthers, ShorterBounded
<1>9. CASE next = NULL
           /\ \E b \in BlockIds :
                increase_file(fd.file, b) /\ SetFd(call.fd, AtNextBlock(fd, b))
  <2>1. PICK b \in BlockIds : increase_file(fd.file, b) /\ SetFd(call.fd, AtNextBlock(fd, b))
    BY <1>9
  <2>2. m * B < M
    <3>1. n = m /\ n * B < M
      BY <1>3, <1>4, <1>6, <1>9
    <3> QED BY <3>1
  <2>3. (m + 1) * BLOCK_SIZE <= MAX_FILE_SIZE
    BY <2>2, RoomForBlock
  <2>4. SizeBounded'
    BY <1>2, <2>1, <2>3, LongerBounded
  <2> QED BY <1>7, <2>1, <2>4
<1> QED BY <1>8, <1>9 DEF WriteNextBlock

\* The growing ufs_resize adds no block beyond the number it has computed.
LEMMA GrowBlockBounded ==
  ASSUME IInv, SizeBounded, RoomLeft, GrowBlock
  PROVE  SizeBounded' /\ RoomLeft'
<1> PICK f : f = file_descriptors[call.fd].file
  OBVIOUS
<1>1. f \in live_files
  BY DEF GrowBlock, IInv, CallAnchored, DescriptorsAnchored, Anchored
<1>2. PICK b \in BlockIds : increase_file(f, b)
  BY DEF GrowBlock
<1> PICK m \in Nat : m = Len(files[f].block_list)
  BY <1>1, FileType
<1> PICK n \in Nat : n = call.size
  BY DEF IInv, TypeOK, Call
<1>3. m + 1 <= n /\ m + 1 \in Nat
  <2>1. files[f].num_blocks = m
    BY <1>1, FileType
  <2>2. files[f].num_blocks < call.size
    BY ONLY GrowBlock, f = file_descriptors[call.fd].file DEF GrowBlock
  <2> QED BY ONLY <2>1, <2>2, m \in Nat, n \in Nat, n = call.size
<1>4. (m + 1) * BLOCK_SIZE <= n * BLOCK_SIZE /\ (m + 1) * BLOCK_SIZE \in Nat
  BY ONLY <1>3, n \in Nat, FewerBytes
<1>5. n * BLOCK_SIZE <= MAX_FILE_SIZE /\ n * BLOCK_SIZE \in Nat
  <2>1. n * BLOCK_SIZE \in Nat
    BY ONLY n \in Nat, FewerBytes
  <2> QED BY <2>1 DEF RoomLeft, GrowBlock
<1>6. (m + 1) * BLOCK_SIZE <= MAX_FILE_SIZE
  BY <1>4, <1>5, MaxSizeAssumption
<1>7. SizeBounded'
  BY <1>1, <1>2, <1>6, LongerBounded
<1>8. RoomLeft'
  BY DEF GrowBlock, RoomLeft
<1> QED BY <1>7, <1>8

\* ufs_write has copied as many bytes as it has moved.
LEMMA WriteChunkLeavesRoom ==
  ASSUME IInv, RoomLeft, WriteChunk
  PROVE  RoomLeft'
<1> PICK fd \in FileDesc : fd = file_descriptors[call.fd]
  BY CallDescriptor DEF WriteChunk
<1> PICK i : i = call.fd
  OBVIOUS
<1>1. /\ i \in OpenSlots /\ Anchored(fd) /\ InData(fd) /\ fd.curr_block # NULL
      /\ blocks[fd.curr_block] \in Block
  BY CallDescriptor DEF WriteChunk
<1> PICK k : k = Smaller(call.size, FreeBytes(fd.curr_block))
  OBVIOUS
<1> PICK size \in Nat : size = call.size
  BY DEF IInv, TypeOK, Call
<1> PICK n \in Nat : n = fd.block_num
  BY DEF FileDesc
<1> PICK pos \in Nat : pos = fd.block_pos
  BY DEF FileDesc
<1> PICK M \in Nat : M = MAX_FILE_SIZE
  BY MaxSizeAssumption
<1>2. k \in Nat
  <2> PICK o \in 0 .. BLOCK_SIZE : o = blocks[fd.curr_block].occupied
    BY <1>1 DEF Block
  <2> QED BY BlockSizePositive DEF Smaller, FreeBytes
<1>3. n > 0
  <2>1. fd.block_num \in 1 .. Len(files[fd.file].block_list)
    BY <1>1, NextOfAnchored
  <2> QED BY <2>1
<1>4. PICK start \in Int : start = (n - 1) * BLOCK_SIZE
  BY BlockSizePositive
<1>5. start + pos + size <= M
  BY <1>3, <1>4 DEF RoomLeft, WriteChunk, Position
<1>6. /\ call.op = "write" /\ call' = [call EXCEPT !.size = @ - k, !.done = @ + k]
      /\ SetFd(call.fd, [fd EXCEPT !.block_pos = @ + k])
  BY DEF WriteChunk
<1>7. call'.op = "write" /\ call'.fd = i /\ call'.size = size - k
  BY <1>6 DEF IInv, TypeOK, Call
<1>8. file_descriptors'[i].block_num = n /\ file_descriptors'[i].block_pos = pos + k
  <2>1. i \in DOMAIN file_descriptors
    BY <1>1, OpenSlotType DEF IInv
  <2>2. file_descriptors'[i] = [fd EXCEPT !.block_pos = pos + k]
    BY <1>6, <2>1 DEF SetFd
  <2> QED BY <2>2 DEF FileDesc
<1>9. Position(file_descriptors'[i]) = start + (pos + k)
  BY <1>3, <1>4, <1>8 DEF Position
<1>10. start + (pos + k) + (size - k) <= M
  BY <1>2, <1>5
<1> QED BY <1>7, <1>9, <1>10 DEF RoomLeft, Position

\* Every other step of a loop leaves the room the call has.
LEMMA RoomLeftInLoops ==
  ASSUME IInv, RoomLeft, Continue, ~WriteNextBlock, ~GrowBlock
  PROVE  RoomLeft'
<1>1. \A v, e : Return(v, e) => RoomLeft'
  BY ReturnLeavesRoom
<1>2. CASE WriteChunk
  BY <1>2, WriteChunkLeavesRoom
<1>3. CASE ReadNextBlock
  BY <1>3 DEF ReadNextBlock, RoomLeft
<1>4. CASE ReadChunk
  <2>1. call.op = "read" /\ call'.op = call.op
    BY <1>4 DEF ReadChunk, IInv, TypeOK, Call
  <2> QED BY <2>1 DEF RoomLeft
<1> QED
  BY <1>1, <1>2, <1>3, <1>4 DEF Continue, WriteEnd, ReadEof, ReadEnd, GrowEnd

\* No sequence of ufs_write and ufs_resize takes a file over MAX_FILE_SIZE
\* bytes: the comparison before each loop bounds what the loop adds.
THEOREM SizeCorrect == Spec => []SizeBounded
<1>1. Init => SizeBounded /\ RoomLeft
  BY DEF Init, SizeBounded, RoomLeft, Idle
<1>2. IInv /\ IInv' /\ SizeBounded /\ RoomLeft /\ [Next]_vars => SizeBounded' /\ RoomLeft'
  <2> SUFFICES ASSUME IInv, IInv', SizeBounded, RoomLeft, [Next]_vars
               PROVE  SizeBounded' /\ RoomLeft'
    OBVIOUS
  <2>1. ASSUME Begin, \A i \in FdArguments, buf \in Buffers : ~WriteBegin(i, buf)
        PROVE  SizeBounded' /\ RoomLeft'
    BY <2>1, ListsShortenInBegin, ShorterBounded, RoomLeftInBegin
  <2>2. ASSUME NEW i \in FdArguments, NEW buf \in Buffers, WriteBegin(i, buf)
        PROVE  SizeBounded' /\ RoomLeft'
    BY <2>2, WriteBeginBounded
  <2>3. ASSUME Continue, ~WriteNextBlock, ~GrowBlock
        PROVE  SizeBounded' /\ RoomLeft'
    BY <2>3, ListsShortenInLoops, ShorterBounded, RoomLeftInLoops
  <2>4. ASSUME UNCHANGED vars
        PROVE  SizeBounded' /\ RoomLeft'
    <3>1. UNCHANGED <<files, live_files, file_descriptors, call>>
      BY <2>4 DEF vars, store, table
    <3>2. SizeBounded'
      BY <3>1, ListsOfOthers, ShorterBounded
    <3>3. RoomLeft'
      BY <3>1 DEF RoomLeft, Position
    <3> QED BY <3>2, <3>3
  <2> QED
    BY <2>1, <2>2, <2>3, <2>4, WriteNextBlockBounded, GrowBlockBounded DEF Next
<1> QED
  BY <1>1, <1>2, Invariance, PTL DEF Spec

-----------------------------------------------------------------------------
(* Steps *)

\* The size of a file that was cut is the size the caller passed.
LEMMA ShrinkShortens ==
  ASSUME IInv, NEW i \in FdArguments, NEW new_size \in NewSizes, Shrink(i, new_size),
         NEW f \in FileIds, f = file_descriptors[i].file
  PROVE  Shortened(f)
<1>0. i \in OpenSlots
  BY DEF Shrink, Resizable
<1>1. f = file_descriptors[i].file
  OBVIOUS
<1>2. f \in live_files
  BY <1>0, <1>1 DEF IInv, DescriptorsAnchored, Anchored
<1>3. PICK list \in Seq(BlockIds) : list = files[f].block_list
  BY <1>2, FileType
<1>4. PICK s \in Nat : s = new_size
  BY InputAssumption
<1>5. s < old_size(f)
  BY <1>1, <1>4 DEF Shrink
<1>6. PICK n \in 1 .. Len(list) : n = new_num_blocks(s)
  BY <1>1, <1>2, <1>3, <1>4, <1>5, ShrinkBounds DEF Shrink
<1>7. PICK pos \in 0 .. BLOCK_SIZE : pos = new_block_pos(s)
  BY <1>2, <1>5, ShrinkBounds
<1>8. cut_file(f, n, pos)
  BY <1>1, <1>3, <1>4, <1>6, <1>7 DEF Shrink
<1>9. live_files' = live_files /\ files' = [files EXCEPT ![f] = Cut(@, n)]
  BY <1>8 DEF cut_file
<1>10. files'[f].num_blocks = n /\ files'[f].last_block = list[n]
  <2> DEFINE l == SubSeq(list, 1, n)
             b == list[n]
             r == files[f]
  <2>1. r \in File /\ files'[f] = Cut(r, n)
    BY <1>9 DEF IInv, TypeOK
  <2>2. Cut(r, n) = [r EXCEPT !.block_list = l, !.last_block = b, !.num_blocks = n]
    BY <1>3 DEF Cut
  <2> HIDE DEF l, b, r
  <2>3. LET c == [r EXCEPT !.block_list = l, !.last_block = b, !.num_blocks = n]
        IN c.num_blocks = n /\ c.last_block = b
    BY <2>1 DEF File
  <2> QED BY <2>1, <2>2, <2>3 DEF b
<1>11. blocks'[list[n]].occupied = pos
  BY <1>2, <1>3, <1>8, CutFile
<1> PICK B \in Nat : B = BLOCK_SIZE /\ B > 0
  BY BlockSizePositive
<1>12. (n - 1) * B + pos = s
  <2> PICK q : q = s \div B
    OBVIOUS
  <2> PICK r : r = s % B
    OBVIOUS
  <2>1. q \in Nat /\ r \in 0 .. B - 1 /\ s = B * q + r
    OBVIOUS
  <2>2. B * q = q * B /\ (q - 1) * B + B = q * B /\ q + 1 - 1 = q
    BY <2>1
  <2>3. CASE r = 0
    <3>1. n = q /\ pos = B
      BY <1>6, <1>7, <2>1, <2>3 DEF new_num_blocks, new_block_pos
    <3> QED BY <2>1, <2>2, <2>3, <3>1
  <2>4. CASE r # 0
    <3>1. n = q + 1 /\ pos = r
      BY <1>6, <1>7, <2>1, <2>4 DEF new_num_blocks, new_block_pos
    <3> QED BY <2>1, <2>2, <3>1
  <2> QED BY <2>3, <2>4
<1>13. old_size(f)' = s
  <2>1. n # 0
    BY <1>6
  <2>2. old_size(f)' = (n - 1) * B + pos
    BY <1>10, <1>11, <2>1 DEF old_size
  <2> QED BY <1>12, <2>2
<1> QED BY <1>1, <1>2, <1>5, <1>9, <1>13 DEF Shortened

\* Setting one descriptor leaves the others.
LEMMA OthersStay ==
  ASSUME IInv, NEW s \in OpenSlots, NEW d,
         file_descriptors' = [file_descriptors EXCEPT ![s] = d]
  PROVE  \A i \in OpenSlots : i # s => file_descriptors'[i] = file_descriptors[i]
  BY OpenSlotType DEF IInv, TypeOK

\* A step of a call moves no descriptor but its own, those of a file it cuts,
\* and the one it closes.
LEMMA DescriptorsStayInBegin ==
  ASSUME IInv, Begin, NEW f \in FileIds, NEW s \in DescriptorsOf(f)
  PROVE  DescriptorStays(f, s)
<1>1. s \in OpenSlots /\ file_descriptors[s].file = f
  BY DEF DescriptorsOf
<1>2. ASSUME NEW filename \in FileNames, NEW flags \in OpenFlags,
             OpenExisting(filename, flags) \/ OpenCreate(filename, flags)
      PROVE  DescriptorStays(f, s)
  <2>1. PICK g \in FileIds : insert_fd(new_fd(g, FdFlags(flags)))
    BY <1>2 DEF OpenExisting, OpenCreate, Named, IInv, TypeOK
  <2>2. new_fd(g, FdFlags(flags)) \in FileDesc
    BY InputAssumption, NewFdType
  <2>3. file_descriptors'[s] = file_descriptors[s]
    BY <1>1, <2>1, <2>2, InsertFd
  <2> QED BY <2>3 DEF DescriptorStays
<1>3. ASSUME NEW i \in FdArguments, Close(i)
      PROVE  DescriptorStays(f, s)
  BY <1>1, <1>3, OthersStay DEF Close, DescriptorStays
<1>4. ASSUME NEW i \in FdArguments, NEW buf \in Buffers, WriteBegin(i, buf)
      PROVE  DescriptorStays(f, s)
  <2>1. call'.op = "write" /\ call'.fd = i /\ i \in OpenSlots
    BY <1>4 DEF WriteBegin, Start
  <2>2. \/ file_descriptors' = file_descriptors
        \/ \E d : file_descriptors' = [file_descriptors EXCEPT ![i] = d]
    BY <1>4 DEF WriteBegin, SetFd, table
  <2> QED BY <1>1, <2>1, <2>2, OthersStay DEF DescriptorStays
<1>5. ASSUME NEW i \in FdArguments, NEW size \in ReadSizes, ReadBegin(i, size)
      PROVE  DescriptorStays(f, s)
  <2>1. call'.op = "read" /\ call'.fd = i /\ i \in OpenSlots
    BY <1>5 DEF ReadBegin, Start
  <2>2. \/ file_descriptors' = file_descriptors
        \/ \E d : file_descriptors' = [file_descriptors EXCEPT ![i] = d]
    BY <1>5 DEF ReadBegin, SetFd, table
  <2> QED BY <1>1, <2>1, <2>2, OthersStay DEF DescriptorStays
<1>6. ASSUME NEW i \in FdArguments, NEW new_size \in NewSizes, Shrink(i, new_size)
      PROVE  DescriptorStays(f, s)
  <2>1. CASE f = file_descriptors[i].file
    BY <1>6, <2>1, ShrinkShortens DEF DescriptorStays
  <2>2. CASE f # file_descriptors[i].file
    <3>1. ~IsMoved(file_descriptors[s], file_descriptors[i].file, new_num_blocks(new_size))
      BY <1>1, <2>2 DEF IsMoved
    <3>2. s \in DOMAIN file_descriptors
      BY <1>1, OpenSlotType DEF IInv
    <3>3. file_descriptors'[s] = file_descriptors[s]
      BY <1>6, <3>1, <3>2 DEF Shrink
    <3> QED BY <3>3 DEF DescriptorStays
  <2> QED BY <2>1, <2>2
<1>7. ASSUME UNCHANGED table
      PROVE  DescriptorStays(f, s)
  BY <1>7 DEF table, DescriptorStays
<1> QED
  BY <1>2, <1>3, <1>4, <1>5, <1>6, <1>7
  DEF Begin, OpenMissing, Fail, Delete, DeleteFails, CloseFails, ReadAtOnce, WriteFails,
      ResizeFails, GrowBegin, ShrinkToNothing

\* The loops move no descriptor but that of the call.
LEMMA DescriptorsStayInLoops ==
  ASSUME IInv, Continue, NEW f \in FileIds, NEW s \in DescriptorsOf(f)
  PROVE  DescriptorStays(f, s)
<1>1. s \in OpenSlots
  BY DEF DescriptorsOf
<1>2. CASE WriteNextBlock \/ WriteChunk \/ ReadNextBlock \/ ReadChunk
  <2>1. call.op \in {"read", "write"} /\ call.fd \in OpenSlots
    BY <1>2 DEF WriteNextBlock, WriteChunk, ReadNextBlock, ReadChunk, IInv, CallAnchored
  <2>2. \E d : file_descriptors' = [file_descriptors EXCEPT ![call.fd] = d]
    BY <1>2 DEF WriteNextBlock, WriteChunk, ReadNextBlock, ReadChunk, SetFd
  <2> QED BY <1>1, <2>1, <2>2, OthersStay DEF DescriptorStays
<1>3. CASE UNCHANGED table
  BY <1>3 DEF table, DescriptorStays
<1> QED
  BY <1>2, <1>3 DEF Continue, WriteEnd, ReadEof, ReadEnd, GrowBlock, GrowEnd

\* No call moves a descriptor of another but by making its file shorter, and
\* none takes it away: not ufs_delete of its file, not ufs_close of another
\* descriptor, not the growth of the array in insert_fd.
THEOREM DescriptorsLeftAlone == Spec => DescriptorsStay
<1>1. IInv /\ [Next]_vars =>
        [\A f \in FileIds : \A i \in DescriptorsOf(f) : DescriptorStays(f, i)]_vars
  BY DescriptorsStayInBegin, DescriptorsStayInLoops DEF Next
<1> QED
  BY <1>1, Invariance, PTL DEF Spec, DescriptorsStay

\* A step that adds a block to a file leaves the bytes there are.
LEMMA UntouchedByIncrease ==
  ASSUME IInv, NEW g \in live_files, NEW b \in BlockIds, increase_file(g, b),
         NEW f \in live_files
  PROVE  Untouched(f)
<1> PICK list \in Seq(BlockIds) : list = files[f].block_list
  BY FileType
<1>1. /\ files'[g].block_list = Append(files[g].block_list, b)
      /\ f # g => files'[f] = files[f]
  BY IncreaseFile DEF increase_file, IInv, TypeOK
<1>2. \A j \in DOMAIN list : j \in DOMAIN files'[f].block_list /\ files'[f].block_list[j] = list[j]
  <2> PICK n \in Nat : n = Len(list)
    OBVIOUS
  <2>1. files[g].block_list \in Seq(BlockIds)
    BY FileType
  <2>2. CASE f = g
    <3>1. files'[f].block_list = Append(list, b)
      BY ONLY <1>1, <2>2, list = files[f].block_list
    <3> QED BY ONLY <3>1, list \in Seq(BlockIds), b \in BlockIds
  <2>3. CASE f # g
    BY ONLY <1>1, <2>3, list = files[f].block_list
  <2> QED BY <2>2, <2>3
<1>3. \A j \in DOMAIN list : list[j] \in BlockIds /\ list[j] \in live_blocks
  BY FileType DEF IInv, BlocksAccounted
<1>4. \A c \in live_blocks : c # b
  BY DEF increase_file, FreshBlocks
<1>5. \A j \in DOMAIN list : blocks'[list[j]] = blocks[list[j]]
  BY <1>3, <1>4 DEF increase_file, IInv, TypeOK
<1> QED BY <1>2, <1>5 DEF Untouched

\* Files share no block: what is done to the blocks of one leaves the bytes of
\* the others.
LEMMA UntouchedOthers ==
  ASSUME IInv, NEW f \in live_files, NEW g \in live_files, f # g, files'[f] = files[f],
         \A b \in BlockIds : b \notin BlocksOf(g) => blocks'[b] = blocks[b]
  PROVE  Untouched(f)
<1>1. \A j \in DOMAIN files[f].block_list :
        files[f].block_list[j] \in BlockIds /\ files[f].block_list[j] \in BlocksOf(f)
  BY FileType
<1>2. BlocksOf(f) \cap BlocksOf(g) = {}
  BY DEF IInv, BlocksAccounted
<1> QED BY <1>1, <1>2 DEF Untouched

\* Counting the descriptors of a file, and marking it deleted, leave its list.
LEMMA ListRelabelled ==
  ASSUME IInv, NEW g \in FileIds, NEW f \in live_files,
         \/ \E refs \in Int : files' = [files EXCEPT ![g].refs = refs]
         \/ files' = [files EXCEPT ![g].deleted = TRUE]
  PROVE  files'[f].block_list = files[f].block_list
<1>1. files \in [FileIds -> File] /\ f \in FileIds /\ files[f] \in File
  BY DEF IInv, TypeOK
<1>2. CASE f # g
  BY <1>1, <1>2
<1>3. ASSUME NEW refs \in Int, f = g, files' = [files EXCEPT ![g].refs = refs]
      PROVE  files'[f].block_list = files[f].block_list
  <2>1. files'[f] = [files[f] EXCEPT !.refs = refs]
    BY <1>1, <1>3
  <2> QED BY <1>1, <2>1 DEF File
<1>4. ASSUME f = g, files' = [files EXCEPT ![g].deleted = TRUE]
      PROVE  files'[f].block_list = files[f].block_list
  <2>1. files'[f] = [files[f] EXCEPT !.deleted = TRUE]
    BY <1>1, <1>4
  <2> QED BY <1>1, <2>1 DEF File
<1> QED BY <1>2, <1>3, <1>4

\* They leave all bytes.
LEMMA UntouchedByRelabel ==
  ASSUME IInv, NEW g \in FileIds, UNCHANGED heap, NEW f \in live_files,
         \/ \E refs \in Int : files' = [files EXCEPT ![g].refs = refs]
         \/ files' = [files EXCEPT ![g].deleted = TRUE]
  PROVE  Untouched(f)
<1>1. UNCHANGED blocks
  BY DEF heap
<1> QED BY <1>1, ListRelabelled DEF Untouched

\* The bytes of an open file survive ufs_open, ufs_delete, ufs_close of a
\* descriptor that is not its last, and the start of the loops.
LEMMA ContentsStayInBegin ==
  ASSUME IInv, Begin, NEW f \in FileIds, DescriptorsOf(f) # {}
  PROVE  Untouched(f) \/ DescriptorsOf(f)' = {} \/ Shortened(f)
<1>1. f \in live_files
  BY DEF DescriptorsOf, IInv, DescriptorsAnchored, Anchored
<1>2. \A i \in OpenSlots : file_descriptors[i].file \in live_files
  BY DEF IInv, DescriptorsAnchored, Anchored
<1>3. live_files \subseteq FileIds /\ file_list \subseteq live_files
  BY DEF IInv, TypeOK, FilesAccounted
<1>4. \A g \in live_files : files[g].refs \in Int
  BY FileType DEF File
<1>5. ASSUME NEW g \in live_files, g # f, delete_file(g)
      PROVE  Untouched(f)
  <2>1. files'[f] = files[f]
    BY <1>1, <1>5, DeleteFile
  <2>2. \A b \in BlockIds : b \notin BlocksOf(g) => blocks'[b] = blocks[b]
    BY <1>5 DEF delete_file, Scrubbed
  <2> QED BY <1>1, <1>5, <2>1, <2>2, UntouchedOthers
<1>6. ASSUME NEW filename \in FileNames, NEW flags \in OpenFlags, OpenExisting(filename, flags)
      PROVE  Untouched(f)
  <2>1. PICK g \in Named(filename) : files' = [files EXCEPT ![g].refs = @ + 1]
    BY <1>6 DEF OpenExisting
  <2>2. g \in live_files /\ UNCHANGED heap
    BY <1>3, <1>6 DEF OpenExisting, Named
  <2>3. files[g].refs + 1 \in Int /\ files' = [files EXCEPT ![g].refs = files[g].refs + 1]
    BY <1>4, <2>1, <2>2
  <2> QED BY <1>1, <1>3, <2>2, <2>3, UntouchedByRelabel
<1>7. ASSUME NEW filename \in FileNames, NEW flags \in OpenFlags, OpenCreate(filename, flags)
      PROVE  Untouched(f)
  <2>1. files'[f] = files[f] /\ UNCHANGED blocks
    BY <1>1, <1>7 DEF OpenCreate, heap, IInv, TypeOK
  <2> QED BY <2>1 DEF Untouched
<1>8. ASSUME NEW filename \in FileNames, Delete(filename)
      PROVE  Untouched(f)
  <2>1. PICK g \in Named(filename) :
          IF IsClosed(g)
            THEN delete_file(g)
            ELSE /\ files' = [files EXCEPT ![g].deleted = TRUE]
                 /\ UNCHANGED <<live_files, heap>>
    BY <1>8 DEF Delete
  <2>2. g \in live_files
    BY <1>3 DEF Named
  <2>3. IsClosed(g) => g # f
    <3>1. files[f].refs = Cardinality(DescriptorsOf(f)) /\ IsFiniteSet(DescriptorsOf(f))
      BY <1>1, OpenSlotsFinite DEF IInv, FilesAccounted
    <3> QED BY <3>1, FS_EmptySet DEF IsClosed
  <2> QED BY <1>1, <1>3, <1>5, <2>1, <2>2, <2>3, UntouchedByRelabel
<1>9. ASSUME NEW i \in FdArguments, Close(i)
      PROVE  Untouched(f) \/ DescriptorsOf(f)' = {}
  <2> PICK g \in live_files : g = file_descriptors[i].file
    BY <1>2, <1>9 DEF Close
  <2>1. CASE IsLastClose(g)
    <3>1. delete_file(g)
      BY <1>9, <2>1 DEF Close
    <3>2. ASSUME g = f PROVE DescriptorsOf(f)' = {}
      <4>1. files[f].refs = Cardinality(DescriptorsOf(f)) /\ IsFiniteSet(DescriptorsOf(f))
        BY <1>1, OpenSlotsFinite DEF IInv, FilesAccounted
      <4>2. Cardinality(DescriptorsOf(f)) = 1
        BY <2>1, <3>2, <4>1 DEF IsLastClose
      <4>3. i \in DescriptorsOf(f) /\ DescriptorsOf(f)' = DescriptorsOf(f) \ {i}
        BY <1>9, <3>2, ClearSlot DEF Close, DescriptorsOf
      <4>4. Cardinality(DescriptorsOf(f) \ {i}) = 0 /\ IsFiniteSet(DescriptorsOf(f) \ {i})
        BY <4>1, <4>2, <4>3, FS_RemoveElement
      <4> QED BY <4>3, <4>4, FS_EmptySet
    <3> QED BY <1>5, <3>1, <3>2
  <2>2. CASE ~IsLastClose(g)
    <3>1. files' = [files EXCEPT ![g].refs = files[g].refs - 1] /\ UNCHANGED heap
      BY <1>9, <2>2 DEF Close
    <3>2. files[g].refs - 1 \in Int /\ g \in FileIds
      BY <1>3, <1>4
    <3> QED BY <1>1, <3>1, <3>2, UntouchedByRelabel
  <2> QED BY <2>1, <2>2
<1>10. ASSUME UNCHANGED store
       PROVE  Untouched(f)
  BY <1>10 DEF store, heap, Untouched
<1>11. ASSUME NEW i \in FdArguments, NEW buf \in Buffers, WriteBegin(i, buf)
       PROVE  Untouched(f)
  <2> PICK g \in live_files : g = file_descriptors[i].file
    BY <1>2, <1>11 DEF WriteBegin
  <2>1. UNCHANGED store \/ \E b \in BlockIds : increase_file(g, b)
    BY <1>11 DEF WriteBegin
  <2> QED BY <1>1, <1>10, <2>1, UntouchedByIncrease
<1>12. ASSUME NEW i \in FdArguments, NEW new_size \in NewSizes, Shrink(i, new_size)
       PROVE  Untouched(f) \/ Shortened(f)
  <2> PICK g \in live_files : g = file_descriptors[i].file
    BY <1>2, <1>12 DEF Shrink, Resizable
  <2>1. CASE g = f
    BY <1>12, <2>1, ShrinkShortens
  <2>2. CASE g # f
    <3> PICK list \in Seq(BlockIds) : list = files[g].block_list
      BY FileType
    <3>1. new_size \in Nat /\ new_size < old_size(g) /\ new_num_blocks(new_size) > 0
      BY <1>12, InputAssumption DEF Shrink
    <3>2. PICK n \in 1 .. Len(list) : n = new_num_blocks(new_size)
      BY <3>1, ShrinkBounds
    <3>3. PICK pos : cut_file(g, n, pos)
      BY <1>12, <3>2 DEF Shrink
    <3>4. files'[f] = files[f]
      BY <1>1, <1>3, <2>2, <3>3 DEF cut_file, IInv, TypeOK
    <3>5. \A j \in DOMAIN list : list[j] \in BlocksOf(g)
      BY DEF BlocksOf
    <3>6. list[n] \in BlocksOf(g) /\ Beyond(list, n) \subseteq BlocksOf(g)
      BY <3>2, <3>5 DEF Beyond
    <3>7. blocks' = [Scrubbed(Beyond(list, n)) EXCEPT ![list[n]].occupied = pos]
      BY <3>3 DEF cut_file
    <3>8. \A b \in BlockIds : b \notin BlocksOf(g) => blocks'[b] = blocks[b]
      BY <3>6, <3>7 DEF Scrubbed
    <3> QED BY <1>1, <2>2, <3>4, <3>8, UntouchedOthers
  <2> QED BY <2>1, <2>2
<1> QED
  BY <1>6, <1>7, <1>8, <1>9, <1>10, <1>11, <1>12
  DEF Begin, OpenMissing, Fail, DeleteFails, CloseFails, ReadAtOnce, WriteFails, ReadBegin,
      ResizeFails, GrowBegin, ShrinkToNothing

\* The bytes of an open file survive the loops, but for the copying of ufs_write
\* through a descriptor of that file.
LEMMA ContentsStayInLoops ==
  ASSUME IInv, Continue, NEW f \in FileIds, DescriptorsOf(f) # {}
  PROVE  Untouched(f) \/ (call.op = "write" /\ call.fd \in DescriptorsOf(f))
<1>1. f \in live_files
  BY DEF DescriptorsOf, IInv, DescriptorsAnchored, Anchored
<1>2. ASSUME call.op \in {"write", "grow"}
      PROVE  call.fd \in OpenSlots /\ file_descriptors[call.fd].file \in live_files
  BY <1>2 DEF IInv, CallAnchored, DescriptorsAnchored, Anchored
<1>3. CASE UNCHANGED store
  BY <1>3 DEF store, heap, Untouched
<1>4. CASE WriteNextBlock \/ GrowBlock
  <2> PICK g \in live_files : g = file_descriptors[call.fd].file
    BY <1>2, <1>4 DEF WriteNextBlock, GrowBlock
  <2>1. UNCHANGED store \/ \E b \in BlockIds : increase_file(g, b)
    BY <1>4 DEF WriteNextBlock, GrowBlock
  <2> QED BY <1>1, <1>3, <2>1, UntouchedByIncrease
<1>5. CASE WriteChunk
  <2>1. call.op = "write"
    BY <1>5 DEF WriteChunk
  <2> PICK g \in live_files : g = file_descriptors[call.fd].file
    BY <1>2, <2>1
  <2>2. CASE g = f
    BY <1>2, <2>1, <2>2 DEF DescriptorsOf
  <2>3. CASE g # f
    <3> PICK b : b = file_descriptors[call.fd].curr_block
      OBVIOUS
    <3>1. Anchored(file_descriptors[call.fd]) /\ b # NULL
      BY <2>1, CallDescriptor
    <3>2. b \in BlocksOf(g)
      BY <3>1 DEF Anchored, BlocksOf
    <3>3. UNCHANGED files /\ \E block : blocks' = [blocks EXCEPT ![b] = block]
      BY <1>5 DEF WriteChunk
    <3>4. \A c \in BlockIds : c \notin BlocksOf(g) => blocks'[c] = blocks[c]
      BY <3>2, <3>3 DEF IInv, TypeOK
    <3> QED BY <1>1, <2>3, <3>3, <3>4, UntouchedOthers
  <2> QED BY <2>2, <2>3
<1> QED
  BY <1>3, <1>4, <1>5 DEF Continue, WriteEnd, ReadNextBlock, ReadChunk, ReadEof, ReadEnd, GrowEnd

\* The bytes an open file has survive whatever is done to other files, to the
\* name of this one, and to the array of descriptors.
THEOREM ContentsLeftAlone == Spec => ContentsStay
<1>1. IInv /\ [Next]_vars =>
        [\A f \in FileIds : DescriptorsOf(f) # {} =>
           \/ Untouched(f)
           \/ call.op = "write" /\ call.fd \in DescriptorsOf(f)
           \/ DescriptorsOf(f)' = {}
           \/ Shortened(f)]_vars
  BY ContentsStayInBegin, ContentsStayInLoops DEF Next
<1> QED
  BY <1>1, Invariance, PTL DEF Spec, ContentsStay
=============================================================================
