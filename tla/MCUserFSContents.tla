--------------------------- MODULE MCUserFSContents ---------------------------
(* UserFS without ufs_resize implements FlatFS, and its calls return. *)
EXTENDS UserFSFlat, TLC

CONSTANTS f1, b1, b2, x, y

FlagChoices == {{"UFS_CREATE"}}
BufferChoices == {<<x>>, <<y, x>>}

-----------------------------------------------------------------------------
\* A descriptor at the place where ufs_write copies nothing and loops for ever.
InFullBlock ==
  LET fd == file_descriptors[call.fd] IN
  /\ fd.block_pos < BLOCK_SIZE
  /\ blocks[fd.curr_block].occupied = BLOCK_SIZE

\* Every read comes back, and every write that does not run into a full block
\* it stands inside of.
ReadReturns == call.op = "read" ~> call.op = "idle"
WriteReturns == call.op = "write" ~> (call.op = "idle" \/ InFullBlock)
=============================================================================
