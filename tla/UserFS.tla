------------------------------- MODULE UserFS -------------------------------
(***************************************************************************)
(* The in-memory file system of 3/userfs.c.                                *)
(*                                                                         *)
(* The library is sequential: one call of the API at a time.  A call that  *)
(* loops (ufs_write, ufs_read, the growing branch of ufs_resize) is begun  *)
(* by one action and then makes one loop iteration per step, its locals in *)
(* `call`, so that a loop that never ends is a behaviour of the model.     *)
(* Every other call is one step.                                           *)
(*                                                                         *)
(* `struct file' and `struct block' are records at addresses drawn from    *)
(* FileIds and BlockIds; live_files and live_blocks are the addresses      *)
(* malloc() has handed out and free() has not taken back.  The linked      *)
(* block_list of a file is the sequence of its block addresses.  The list  *)
(* of files is searched by name only, so it is kept as a set.              *)
(***************************************************************************)
EXTENDS Integers, Sequences, FiniteSets

CONSTANTS
  FileNames,       \* names that calls pass to ufs_open and ufs_delete
  FileIds,         \* addresses a struct file can have
  BlockIds,        \* addresses a struct block can have
  BLOCK_SIZE,      \* bytes of a block (512 in the code)
  MAX_FILE_SIZE,   \* largest size of a file (2^30 in the code)
  Bytes,           \* values a caller writes
  Garbage,         \* what malloc()ed memory holds before it is written
  NULL,
  Buffers,         \* the buffers calls of ufs_write pass
  ReadSizes,       \* the sizes calls of ufs_read pass
  NewSizes,        \* the sizes calls of ufs_resize pass; {}: no NEED_RESIZE
  OpenFlags,       \* the flag sets calls of ufs_open pass
  MAX_OPEN         \* bound on descriptors open at a time (none in the code)

RwFlags == {"UFS_READ_ONLY", "UFS_WRITE_ONLY", "UFS_READ_WRITE"}
Flags == RwFlags \cup {"UFS_CREATE"}
ErrorCodes == {"UFS_ERR_NO_ERR", "UFS_ERR_NO_FILE", "UFS_ERR_NO_MEM",
               "UFS_ERR_NO_PERMISSION"}

Data == Bytes \cup {Garbage}
Offsets == 0 .. BLOCK_SIZE - 1

Block == [occupied: 0 .. BLOCK_SIZE, memory: [Offsets -> Data]]
File == [name: FileNames \cup {NULL}, block_list: Seq(BlockIds),
         last_block: BlockIds \cup {NULL}, num_blocks: Nat,
         refs: Int, deleted: BOOLEAN]
FileDesc == [file: FileIds, block_num: Nat, block_pos: 0 .. BLOCK_SIZE,
             rw_flags: SUBSET RwFlags, curr_block: BlockIds \cup {NULL}]
Call == [op: {"idle", "write", "read", "grow", "crashed"}, fd: Nat,
         buf: Seq(Data), size: Nat, done: Nat]

ASSUME BlockSizeAssumption == BLOCK_SIZE \in Nat \ {0}
ASSUME MaxSizeAssumption ==
  MAX_FILE_SIZE \in Nat \ {0} /\ MAX_FILE_SIZE % BLOCK_SIZE = 0
ASSUME NullAssumption == NULL \notin BlockIds \cup FileIds /\ NULL \notin FileDesc
ASSUME InputAssumption ==
  /\ Buffers \subseteq Seq(Bytes)
  /\ ReadSizes \subseteq Nat
  /\ NewSizes \subseteq Nat
  /\ OpenFlags \subseteq SUBSET Flags
  /\ MAX_OPEN \in Nat

VARIABLES
  file_list,              \* the files linked under a name
  files,                  \* FileIds -> File
  live_files,             \* allocated struct files
  blocks,                 \* BlockIds -> Block
  live_blocks,            \* allocated struct blocks
  file_descriptors,       \* the array; its length is its capacity
  file_descriptor_count,
  ufs_errcode,
  call,                   \* the call in progress and its locals
  ret                     \* what the last call returned

heap == <<blocks, live_blocks>>
store == <<file_list, files, live_files, heap>>
table == <<file_descriptors, file_descriptor_count>>
result == <<ufs_errcode, ret>>
vars == <<store, table, result, call>>

-----------------------------------------------------------------------------
(* The call in progress *)

Idle == [op |-> "idle", fd |-> 0, buf |-> <<>>, size |-> 0, done |-> 0]

Start(op, i, buf, size) ==
  /\ call' = [op |-> op, fd |-> i, buf |-> buf, size |-> size, done |-> 0]
  /\ UNCHANGED result

Return(value, errcode) == call' = Idle /\ ret' = value /\ ufs_errcode' = errcode

\* A call that fails changes nothing but the error code.
Fail(errcode) == Return(-1, errcode) /\ UNCHANGED <<store, table>>

-----------------------------------------------------------------------------
(* Blocks and files *)

new_block == [occupied |-> 0, memory |-> [j \in Offsets |-> Garbage]]

new_file(filename) ==
  [name |-> filename, block_list |-> <<>>, last_block |-> NULL,
   num_blocks |-> 0, refs |-> 0, deleted |-> FALSE]

\* What free() leaves.
FreedFile == new_file(NULL)
Scrubbed(bs) == [b \in BlockIds |-> IF b \in bs THEN new_block ELSE blocks[b]]

BlocksOf(f) == {files[f].block_list[j] : j \in DOMAIN files[f].block_list}

delete_file(f) ==
  /\ files' = [files EXCEPT ![f] = FreedFile]
  /\ live_files' = live_files \ {f}
  /\ blocks' = Scrubbed(BlocksOf(f))
  /\ live_blocks' = live_blocks \ BlocksOf(f)

\* A file after block b was appended to it.
Extended(file, b) ==
  [file EXCEPT !.block_list = Append(@, b), !.last_block = b, !.num_blocks = @ + 1]

FreshBlocks == BlockIds \ live_blocks

increase_file(f, b) ==
  /\ b \in FreshBlocks
  /\ blocks' = [blocks EXCEPT ![b] = new_block]
  /\ live_blocks' = live_blocks \cup {b}
  /\ files' = [files EXCEPT ![f] = Extended(@, b)]
  /\ UNCHANGED <<file_list, live_files>>

\* The `next' pointer of block b of file f.
IndexOf(list, b) == CHOOSE j \in DOMAIN list : list[j] = b
NextBlock(f, b) ==
  LET list == files[f].block_list
      i == IndexOf(list, b)
  IN IF i = Len(list) THEN NULL ELSE list[i + 1]

-----------------------------------------------------------------------------
(* The table of descriptors *)

capacity == Len(file_descriptors)
OpenSlots == {i \in DOMAIN file_descriptors : file_descriptors[i] # NULL}

\* The identifiers a caller may pass: every slot, and one past each end.
FdArguments == 0 .. capacity + 1

SetFd(i, fd) ==
  /\ file_descriptors' = [file_descriptors EXCEPT ![i] = fd]
  /\ UNCHANGED file_descriptor_count

NewCapacity(c) == (c + 1) * 2

\* Mutant: clears the enlarged array from its start.
RoomyTableCleared ==
  IF file_descriptor_count = capacity
    THEN [i \in 1 .. NewCapacity(capacity) |-> NULL] ELSE file_descriptors

\* The array insert_fd searches, enlarged when every slot is counted as used.
RoomyTable ==
  IF file_descriptor_count = capacity
    THEN file_descriptors \o [i \in 1 .. NewCapacity(capacity) - capacity |-> NULL]
    ELSE file_descriptors

new_fd(f, flags) ==
  [file |-> f, block_num |-> 0, block_pos |-> 0, rw_flags |-> flags,
   curr_block |-> NULL]

\* fd goes to the first free slot, whose number is returned; none free: 0.
insert_fd(fd) ==
  LET t == RoomyTable
      free == {i \in DOMAIN t : t[i] = NULL}
  IN IF free # {}
       THEN \E i \in free :
              /\ \A j \in free : i <= j
              /\ file_descriptors' = [t EXCEPT ![i] = fd]
              /\ file_descriptor_count' = file_descriptor_count + 1
              /\ Return(i, "UFS_ERR_NO_ERR")
       ELSE /\ file_descriptors' = t
            /\ UNCHANGED file_descriptor_count
            /\ Return(0, "UFS_ERR_NO_ERR")

-----------------------------------------------------------------------------
(* ufs_open, ufs_close, ufs_delete *)

FdFlags(flags) ==
  IF flags \cap RwFlags = {} THEN {"UFS_READ_WRITE"} ELSE flags \cap RwFlags

\* Mutant: finds only files that are open.
NamedOpen(filename) ==
  {f \in file_list : files[f].name = filename /\ files[f].refs > 0}

Named(filename) == {f \in file_list : files[f].name = filename}

OpenExisting(filename, flags) ==
  /\ call = Idle /\ file_descriptor_count < MAX_OPEN
  /\ \E f \in Named(filename) :
       /\ files' = [files EXCEPT ![f].refs = @ + 1]
       /\ insert_fd(new_fd(f, FdFlags(flags)))
  /\ UNCHANGED <<file_list, live_files, heap>>

OpenCreate(filename, flags) ==
  /\ call = Idle /\ file_descriptor_count < MAX_OPEN
  /\ Named(filename) = {} /\ "UFS_CREATE" \in flags
  /\ \E f \in FileIds \ live_files :
       /\ files' = [files EXCEPT ![f] = [new_file(filename) EXCEPT !.refs = 1]]
       /\ live_files' = live_files \cup {f}
       /\ file_list' = file_list \cup {f}
       /\ insert_fd(new_fd(f, FdFlags(flags)))
  /\ UNCHANGED heap

OpenMissing(filename, flags) ==
  /\ call = Idle
  /\ Named(filename) = {} /\ "UFS_CREATE" \notin flags
  /\ Fail("UFS_ERR_NO_FILE")

\* Mutant: the last close frees the file though it is still linked.
IsLastCloseOfAny(f) == files[f].refs = 1

\* Does closing a descriptor of file f free the file?
IsLastClose(f) == files[f].refs = 1 /\ files[f].deleted

CloseFails(i) == call = Idle /\ i \notin OpenSlots /\ Fail("UFS_ERR_NO_FILE")

Close(i) ==
  /\ call = Idle /\ i \in OpenSlots
  /\ LET f == file_descriptors[i].file IN
       IF IsLastClose(f)
         THEN delete_file(f)
         ELSE /\ files' = [files EXCEPT ![f].refs = @ - 1]
              /\ UNCHANGED <<live_files, heap>>
  /\ file_descriptors' = [file_descriptors EXCEPT ![i] = NULL]
  /\ file_descriptor_count' = file_descriptor_count - 1
  /\ Return(0, "UFS_ERR_NO_ERR")
  /\ UNCHANGED file_list

\* Mutant: ufs_delete does not look at refs.
IsClosedAlways(f) == TRUE

IsClosed(f) == files[f].refs = 0

DeleteFails(filename) ==
  call = Idle /\ Named(filename) = {} /\ Fail("UFS_ERR_NO_FILE")

Delete(filename) ==
  /\ call = Idle
  /\ \E f \in Named(filename) :
       /\ file_list' = file_list \ {f}
       /\ IF IsClosed(f)
            THEN delete_file(f)
            ELSE /\ files' = [files EXCEPT ![f].deleted = TRUE]
                 /\ UNCHANGED <<live_files, heap>>
  /\ Return(0, "UFS_ERR_NO_ERR")
  /\ UNCHANGED table

-----------------------------------------------------------------------------
(* ufs_write *)

MayWrite(fd) == fd.rw_flags \cap {"UFS_WRITE_ONLY", "UFS_READ_WRITE"} # {}
MayRead(fd) == fd.rw_flags \cap {"UFS_READ_ONLY", "UFS_READ_WRITE"} # {}

\* Mutant: leaves out the offset in the block.
PositionOfBlock(fd) ==
  IF fd.block_num = 0 THEN 0 ELSE (fd.block_num - 1) * BLOCK_SIZE

\* The offset in the file of descriptor fd.
Position(fd) ==
  IF fd.block_num = 0 THEN 0
                      ELSE (fd.block_num - 1) * BLOCK_SIZE + fd.block_pos

\* Mutant: the descriptor does not get the block.
AtFirstBlockNumber(fd, b) == [fd EXCEPT !.block_num = 1]

\* Descriptor fd set on the first block of its file, and on the next one.
AtFirstBlock(fd, b) == [fd EXCEPT !.curr_block = b, !.block_num = 1]
AtNextBlock(fd, b) ==
  [fd EXCEPT !.curr_block = b, !.block_num = @ + 1, !.block_pos = 0]

WriteFails(i, buf) ==
  /\ call = Idle
  /\ IF i \notin OpenSlots THEN Fail("UFS_ERR_NO_FILE")
     ELSE IF ~MayWrite(file_descriptors[i]) THEN Fail("UFS_ERR_NO_PERMISSION")
     ELSE /\ Position(file_descriptors[i]) + Len(buf) > MAX_FILE_SIZE
          /\ Fail("UFS_ERR_NO_MEM")

\* Up to the loop: the descriptor gets a block if it has none.
WriteBegin(i, buf) ==
  /\ call = Idle /\ i \in OpenSlots
  /\ LET fd == file_descriptors[i]
         list == files[fd.file].block_list
     IN /\ MayWrite(fd)
        /\ Position(fd) + Len(buf) <= MAX_FILE_SIZE
        /\ \/ fd.curr_block # NULL /\ UNCHANGED <<store, table>>
           \/ /\ fd.curr_block = NULL /\ list # <<>>
              /\ SetFd(i, AtFirstBlock(fd, list[1]))
              /\ UNCHANGED store
           \/ /\ fd.curr_block = NULL /\ list = <<>>
              /\ \E b \in BlockIds :
                   increase_file(fd.file, b) /\ SetFd(i, AtFirstBlock(fd, b))
  /\ Start("write", i, buf, Len(buf))

\* Top of the loop: from a block's end to the next block, made if missing.
WriteNextBlock ==
  /\ call.op = "write" /\ call.size > 0
  /\ LET fd == file_descriptors[call.fd]
         next == NextBlock(fd.file, fd.curr_block)
     IN /\ fd.block_pos = BLOCK_SIZE
        /\ \/ /\ next # NULL
              /\ SetFd(call.fd, AtNextBlock(fd, next))
              /\ UNCHANGED store
           \/ /\ next = NULL
              /\ \E b \in BlockIds :
                   increase_file(fd.file, b) /\ SetFd(call.fd, AtNextBlock(fd, b))
  /\ UNCHANGED <<result, call>>

\* Mutants: the whole block; one byte less than is free.
FreeBytesOfBlock(b) == BLOCK_SIZE
FreeBytesShort(b) == BLOCK_SIZE - blocks[b].occupied - 1

\* What ufs_write takes for the room left in block b.
FreeBytes(b) == BLOCK_SIZE - blocks[b].occupied

Smaller(m, n) == IF m < n THEN m ELSE n
Larger(m, n) == IF m < n THEN n ELSE m

\* Mutant: occupied follows the last write even when that ends before it.
FilledShort(block, pos, buf, from, k) ==
  [occupied |-> pos + k,
   memory |-> [j \in Offsets |-> IF j \in pos .. pos + k - 1
                                   THEN buf[from + 1 + j - pos]
                                   ELSE block.memory[j]]]

\* A block after memcpy() of k bytes to offset pos, the first from buf[from + 1].
Filled(block, pos, buf, from, k) ==
  [occupied |-> Larger(block.occupied, pos + k),
   memory |-> [j \in Offsets |-> IF j \in pos .. pos + k - 1
                                   THEN buf[from + 1 + j - pos]
                                   ELSE block.memory[j]]]

\* The rest of the loop body: copy as much as FreeBytes allows.
WriteChunk ==
  /\ call.op = "write" /\ call.size > 0
  /\ LET fd == file_descriptors[call.fd]
         b == fd.curr_block
         k == Smaller(call.size, FreeBytes(b))
     IN /\ fd.block_pos # BLOCK_SIZE
        /\ blocks' = [blocks EXCEPT
                        ![b] = Filled(@, fd.block_pos, call.buf, call.done, k)]
        /\ SetFd(call.fd, [fd EXCEPT !.block_pos = @ + k])
        /\ call' = [call EXCEPT !.size = @ - k, !.done = @ + k]
  /\ UNCHANGED <<file_list, files, live_files, live_blocks, result>>

WriteEnd ==
  /\ call.op = "write" /\ call.size = 0
  /\ Return(call.done, "UFS_ERR_NO_ERR")
  /\ UNCHANGED <<store, table>>

-----------------------------------------------------------------------------
(* ufs_read *)

\* Errors, and a file that has no block yet.
ReadAtOnce(i) ==
  /\ call = Idle
  /\ IF i \notin OpenSlots THEN Fail("UFS_ERR_NO_FILE")
     ELSE LET fd == file_descriptors[i] IN
       IF ~MayRead(fd) THEN Fail("UFS_ERR_NO_PERMISSION")
       ELSE /\ fd.curr_block = NULL /\ files[fd.file].block_list = <<>>
            /\ Return(0, "UFS_ERR_NO_ERR") /\ UNCHANGED <<store, table>>

ReadBegin(i, size) ==
  /\ call = Idle /\ i \in OpenSlots
  /\ LET fd == file_descriptors[i]
         list == files[fd.file].block_list
     IN /\ MayRead(fd)
        /\ \/ fd.curr_block # NULL /\ UNCHANGED table
           \/ /\ fd.curr_block = NULL /\ list # <<>>
              /\ SetFd(i, AtFirstBlock(fd, list[1]))
  /\ Start("read", i, <<>>, size)
  /\ UNCHANGED store

ReadNextBlock ==
  /\ call.op = "read" /\ call.size > 0
  /\ LET fd == file_descriptors[call.fd]
         next == NextBlock(fd.file, fd.curr_block)
     IN /\ fd.block_pos = BLOCK_SIZE /\ next # NULL
        /\ SetFd(call.fd, AtNextBlock(fd, next))
  /\ UNCHANGED <<store, result, call>>

\* End of file.  Inside a block that is not full the code returns without
\* touching ufs_errcode.
ReadEof ==
  /\ call.op = "read" /\ call.size > 0
  /\ LET fd == file_descriptors[call.fd] IN
       IF fd.block_pos = BLOCK_SIZE
         THEN /\ NextBlock(fd.file, fd.curr_block) = NULL
              /\ Return(call.done, "UFS_ERR_NO_ERR")
         ELSE /\ fd.block_pos = blocks[fd.curr_block].occupied
              /\ Return(call.done, ufs_errcode)
  /\ UNCHANGED <<store, table>>

\* Mutant: one byte less.
AvailableShort(b, pos) == blocks[b].occupied - pos - 1

\* The bytes of block b from offset pos that hold data.
Available(b, pos) == blocks[b].occupied - pos

ReadChunk ==
  /\ call.op = "read" /\ call.size > 0
  /\ LET fd == file_descriptors[call.fd]
         b == fd.curr_block
         pos == fd.block_pos
         k == Smaller(call.size, Available(b, pos))
         chunk == [j \in 1 .. k |-> blocks[b].memory[pos + j - 1]]
     IN /\ pos # BLOCK_SIZE /\ pos # blocks[b].occupied
        /\ SetFd(call.fd, [fd EXCEPT !.block_pos = @ + k])
        /\ call' = [call EXCEPT !.buf = @ \o chunk, !.size = @ - k, !.done = @ + k]
  /\ UNCHANGED <<store, result>>

ReadEnd ==
  /\ call.op = "read" /\ call.size = 0
  /\ Return(call.done, "UFS_ERR_NO_ERR")
  /\ UNCHANGED <<store, table>>

-----------------------------------------------------------------------------
(* ufs_resize *)

\* The size ufs_resize takes the file to have: its last block decides.
old_size(f) ==
  IF files[f].num_blocks = 0 THEN 0
  ELSE (files[f].num_blocks - 1) * BLOCK_SIZE + blocks[files[f].last_block].occupied

\* Blocks of a file of new_size bytes, and the bytes in the last of them.
new_num_blocks(new_size) ==
  new_size \div BLOCK_SIZE + (IF new_size % BLOCK_SIZE = 0 THEN 0 ELSE 1)
new_block_pos(new_size) ==
  IF new_size % BLOCK_SIZE = 0 THEN BLOCK_SIZE ELSE new_size % BLOCK_SIZE

ResizeFails(i, new_size) ==
  /\ call = Idle
  /\ IF i \notin OpenSlots THEN Fail("UFS_ERR_NO_FILE")
     ELSE new_size > MAX_FILE_SIZE /\ Fail("UFS_ERR_NO_MEM")

Resizable(i, new_size) ==
  call = Idle /\ i \in OpenSlots /\ new_size <= MAX_FILE_SIZE

\* call.size holds the number of blocks to reach.
GrowBegin(i, new_size) ==
  /\ Resizable(i, new_size)
  /\ new_size >= old_size(file_descriptors[i].file)
  /\ Start("grow", i, <<>>, new_num_blocks(new_size))
  /\ UNCHANGED <<store, table>>

GrowBlock ==
  /\ call.op = "grow"
  /\ LET f == file_descriptors[call.fd].file IN
       /\ files[f].num_blocks < call.size
       /\ \E b \in BlockIds : increase_file(f, b)
  /\ UNCHANGED <<table, result, call>>

GrowEnd ==
  /\ call.op = "grow"
  /\ files[file_descriptors[call.fd].file].num_blocks >= call.size
  /\ Return(0, "UFS_ERR_NO_ERR")
  /\ UNCHANGED <<store, table>>

\* Mutants: only descriptors in the last block; only those behind it; those of
\* every file.
IsMovedInLast(fd, f, n) == fd.file = f /\ fd.block_num = n
IsMovedBehind(fd, f, n) == fd.file = f /\ fd.block_num > n
IsMovedAny(fd, f, n) == fd.block_num >= n

\* Does cutting file f to n blocks move this descriptor to the new end?
IsMoved(fd, f, n) == fd.file = f /\ fd.block_num >= n

\* Mutant: skips the first of them.
BeyondNext(list, n) == {list[j] : j \in n + 2 .. Len(list)}

\* The blocks of a list after its first n.
Beyond(list, n) == {list[j] : j \in n + 1 .. Len(list)}

\* A descriptor set to offset pos of block b, number n of its file.
MovedTo(fd, b, n, pos) ==
  [fd EXCEPT !.block_num = n, !.curr_block = b, !.block_pos = pos]

\* A file cut to its first n blocks.
Cut(file, n) ==
  [file EXCEPT !.block_list = SubSeq(@, 1, n), !.last_block = file.block_list[n],
               !.num_blocks = n]

\* File f loses the blocks after its first n; pos bytes of the last one count.
cut_file(f, n, pos) ==
  LET list == files[f].block_list IN
  /\ files' = [files EXCEPT ![f] = Cut(@, n)]
  /\ blocks' = [Scrubbed(Beyond(list, n)) EXCEPT ![list[n]].occupied = pos]
  /\ live_blocks' = live_blocks \ Beyond(list, n)
  /\ UNCHANGED <<file_list, live_files>>

Shrink(i, new_size) ==
  /\ Resizable(i, new_size)
  /\ LET f == file_descriptors[i].file
         list == files[f].block_list
         n == new_num_blocks(new_size)
         pos == new_block_pos(new_size)
     IN /\ new_size < old_size(f) /\ n > 0
        /\ cut_file(f, n, pos)
        /\ file_descriptors' =
             [s \in DOMAIN file_descriptors |->
                IF s \in OpenSlots /\ IsMoved(file_descriptors[s], f, n)
                  THEN MovedTo(file_descriptors[s], list[n], n, pos)
                  ELSE file_descriptors[s]]
  /\ Return(0, "UFS_ERR_NO_ERR")
  /\ UNCHANGED file_descriptor_count

\* To no block at all: new_last_block is NULL, and reading new_last_block->next
\* ends the process.
ShrinkToNothing(i, new_size) ==
  /\ Resizable(i, new_size)
  /\ new_size < old_size(file_descriptors[i].file)
  /\ new_num_blocks(new_size) = 0
  /\ call' = [Idle EXCEPT !.op = "crashed"]
  /\ UNCHANGED <<store, table, result>>

-----------------------------------------------------------------------------
Init ==
  /\ file_list = {} /\ live_files = {} /\ live_blocks = {}
  /\ files = [f \in FileIds |-> FreedFile]
  /\ blocks = [b \in BlockIds |-> new_block]
  /\ file_descriptors = <<>> /\ file_descriptor_count = 0
  /\ ufs_errcode = "UFS_ERR_NO_ERR" /\ call = Idle /\ ret = 0

\* A call begins.
Begin ==
  \/ \E filename \in FileNames, flags \in OpenFlags :
       \/ OpenExisting(filename, flags)
       \/ OpenCreate(filename, flags)
       \/ OpenMissing(filename, flags)
  \/ \E filename \in FileNames : Delete(filename) \/ DeleteFails(filename)
  \/ \E i \in FdArguments : Close(i) \/ CloseFails(i) \/ ReadAtOnce(i)
  \/ \E i \in FdArguments, buf \in Buffers : WriteBegin(i, buf) \/ WriteFails(i, buf)
  \/ \E i \in FdArguments, size \in ReadSizes : ReadBegin(i, size)
  \/ \E i \in FdArguments, new_size \in NewSizes :
       \/ ResizeFails(i, new_size)
       \/ GrowBegin(i, new_size)
       \/ Shrink(i, new_size)
       \/ ShrinkToNothing(i, new_size)

\* A call in progress makes its next step.
Continue ==
  \/ WriteNextBlock \/ WriteChunk \/ WriteEnd
  \/ ReadNextBlock \/ ReadEof \/ ReadChunk \/ ReadEnd
  \/ GrowBlock \/ GrowEnd

Next == Begin \/ Continue

Spec == Init /\ [][Next]_vars

\* Nothing is assumed of callers; a call that has begun goes on running.
FairSpec == Spec /\ WF_vars(Continue)

-----------------------------------------------------------------------------
(* Properties *)

\* Every variable has its type.
TypeOK ==
  /\ file_list \subseteq FileIds /\ live_files \subseteq FileIds
  /\ files \in [FileIds -> File]
  /\ blocks \in [BlockIds -> Block] /\ live_blocks \subseteq BlockIds
  /\ file_descriptors \in Seq(FileDesc \cup {NULL})
  /\ file_descriptor_count \in Nat
  /\ ufs_errcode \in ErrorCodes /\ call \in Call /\ ret \in Int

DescriptorsOf(f) == {i \in OpenSlots : file_descriptors[i].file = f}

Anchored(fd) ==
  LET list == files[fd.file].block_list IN
  /\ fd.file \in live_files
  /\ IF fd.curr_block = NULL
       THEN fd.block_num = 0 /\ fd.block_pos = 0
       ELSE fd.block_num \in DOMAIN list /\ fd.curr_block = list[fd.block_num]

\* Memory safety of descriptors: an open descriptor refers to an allocated
\* file, and to its block number block_num or, before the first read or write,
\* to none.  ufs_delete, ufs_close of another descriptor and a shrinking
\* ufs_resize free memory under descriptors that stay open.
DescriptorsAnchored == \A i \in OpenSlots : Anchored(file_descriptors[i])

InData(fd) ==
  fd.curr_block # NULL => fd.block_pos <= blocks[fd.curr_block].occupied

\* A descriptor never stands behind the bytes its block holds: block_pos <=
\* occupied is what keeps the memcpy() of ufs_write inside the block and the
\* count of ufs_read positive.
PositionsInData == \A i \in OpenSlots : InData(file_descriptors[i])

\* The life of a file: refs counts its open descriptors, a file is allocated
\* exactly while it is linked or open (neither leaked nor freed early), and
\* the deleted files are the ones no longer linked.
FilesAccounted ==
  /\ \A f \in live_files :
       /\ files[f].refs = Cardinality(DescriptorsOf(f))
       /\ files[f].deleted = (f \notin file_list)
       /\ f \in file_list \/ files[f].refs > 0
  /\ file_list \subseteq live_files

\* The life of a block: the allocated blocks are those listed by allocated
\* files, each by one file and once (delete_file and the shrink free what they
\* must and no more); num_blocks and last_block agree with the list.
BlocksAccounted ==
  /\ \A b \in BlockIds : b \in live_blocks <=> \E f \in live_files : b \in BlocksOf(f)
  /\ \A f \in live_files :
       LET list == files[f].block_list IN
         /\ files[f].num_blocks = Len(list)
         /\ files[f].last_block = IF list = <<>> THEN NULL ELSE list[Len(list)]
         /\ \A j, k \in DOMAIN list : list[j] = list[k] => j = k
  /\ \A f, g \in live_files : f # g => BlocksOf(f) \cap BlocksOf(g) = {}

\* A name leads to at most one file, though deleted files of that name live on.
NamesUnique ==
  \A f, g \in file_list : files[f].name = files[g].name => f = g

\* file_descriptor_count counts the used slots, so that insert_fd finds a free
\* slot whenever it does not enlarge the array, and never hands out number 0.
TableAccounted ==
  /\ file_descriptor_count = Cardinality(OpenSlots)
  /\ file_descriptor_count <= capacity

\* What the call in progress relies on from step to step: its descriptor is
\* open and, in the loops of ufs_write and ufs_read, has a block; the bytes
\* done and the bytes left of a write are those of its buffer.
CallAnchored ==
  /\ call.op \in {"write", "read", "grow"} => call.fd \in OpenSlots
  /\ call.op \in {"write", "read"} => file_descriptors[call.fd].curr_block # NULL
  /\ call.op = "write" => call.done + call.size = Len(call.buf)

\* No sequence of writes and resizes takes a file over MAX_FILE_SIZE bytes.
SizeBounded ==
  \A f \in live_files : Len(files[f].block_list) * BLOCK_SIZE <= MAX_FILE_SIZE

\* The step makes file f shorter and does not free it.
Shortened(f) == f \in live_files' /\ old_size(f)' < old_size(f)

\* The step leaves descriptor i of file f where it is, or has a reason to move it.
DescriptorStays(f, i) ==
  \/ file_descriptors'[i] = file_descriptors[i]
  \/ file_descriptors' = [file_descriptors EXCEPT ![i] = NULL]
  \/ call.op \in {"read", "write"} /\ call.fd = i
  \/ call'.op \in {"read", "write"} /\ call'.fd = i
  \/ Shortened(f)

\* A descriptor moves only by a read or write of its own, or when its file
\* gets shorter, and goes only by its own ufs_close: calls on other
\* descriptors, ufs_open and ufs_delete leave it.
DescriptorsStay ==
  [][\A f \in FileIds : \A i \in DescriptorsOf(f) : DescriptorStays(f, i)]_vars

\* The step leaves the bytes of file f.
Untouched(f) ==
  LET list == files[f].block_list IN
  \A j \in DOMAIN list :
    /\ j \in DOMAIN files'[f].block_list
    /\ files'[f].block_list[j] = list[j]
    /\ blocks'[list[j]] = blocks[list[j]]

\* The bytes of an open file survive every step but a write through one of its
\* own descriptors, its last close and a shrink: deleting the file, or making a
\* new one of its name, does not affect the descriptors opened before.
ContentsStay ==
  [][\A f \in FileIds : DescriptorsOf(f) # {} =>
       \/ Untouched(f)
       \/ call.op = "write" /\ call.fd \in DescriptorsOf(f)
       \/ DescriptorsOf(f)' = {}
       \/ Shortened(f)]_vars

-----------------------------------------------------------------------------
(* Statements of userfs.h that the code does not keep *)

\* "If the current size is bigger than new_size, then the blocks are
\* truncated": to every smaller size, 0 included.
ResizeSurvives == call.op # "crashed"

\* "Opened file descriptors behind the new file size should proceed from the
\* new file end": and the ones before it stay where they are.
ResizeMovesOnlyThoseBehind ==
  [][\A f \in FileIds : \A i \in DescriptorsOf(f) :
       Shortened(f) /\ Position(file_descriptors[i]) <= old_size(f)'
         => Position(file_descriptors[i])' = Position(file_descriptors[i])]_vars

\* A write ends with the number of bytes it wrote, or with -1.
EveryWriteReturns == call.op = "write" ~> call.op = "idle"
=============================================================================
