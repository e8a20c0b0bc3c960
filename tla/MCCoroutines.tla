---------------------------- MODULE MCCoroutines ----------------------------
(* Three files of up to two numbers, three in all; two files, of which one  *)
(* is longer to sort; and a single file of four numbers.  The greatest int  *)
(* and equal numbers are among them.                                        *)
EXTENDS Coroutines

MCFiles(lengths, numbers) == UNION {[1 .. n -> numbers] : n \in lengths}
MCSortInputs ==
  {f \in [1 .. 3 -> MCFiles(0 .. 2, {2, INT_MAX})] : Len(f[1]) + Len(f[2]) + Len(f[3]) <= 3}
    \cup {<<a, b>> : a \in MCFiles({3}, 1 .. INT_MAX), b \in {<<>>, <<2>>}}
    \cup {<<a>> : a \in MCFiles({4}, {1, 2, INT_MAX})}
=============================================================================
