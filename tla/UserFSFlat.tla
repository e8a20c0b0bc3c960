----------------------------- MODULE UserFSFlat -----------------------------
(***************************************************************************)
(* UserFS without ufs_resize implements FlatFS: the refinement mapping.     *)
(***************************************************************************)
EXTENDS UserFS

\* The file a name leads to.
LinkedFile(n) == IF Named(n) = {} THEN NULL ELSE CHOOSE f \in Named(n) : TRUE

\* The bytes of a file: every block but the last is full, so byte j lies in
\* block j \div BLOCK_SIZE.
Contents(f) ==
  [j \in 1 .. old_size(f) |->
     blocks[files[f].block_list[(j - 1) \div BLOCK_SIZE + 1]].memory[(j - 1) % BLOCK_SIZE]]

\* What there is to know of a descriptor.
FlatFd(fd) == [file |-> fd.file, offset |-> Position(fd), rw_flags |-> fd.rw_flags]

flat_linked == [n \in FileNames |-> LinkedFile(n)]
flat_content == [f \in FileIds |-> Contents(f)]
flat_opened == [i \in OpenSlots |-> FlatFd(file_descriptors[i])]

Flat == INSTANCE FlatFS WITH
  linked <- flat_linked, content <- flat_content, opened <- flat_opened

\* What callers see of open, close, delete, read and write is what FlatFS
\* allows: the bytes written, at the offsets they were written, across blocks,
\* descriptors and deleted files.
ImplementsFlatFS == Flat!Spec
=============================================================================
