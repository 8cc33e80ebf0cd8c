----------------------------- MODULE MCByteArrays -----------------------------
(***************************************************************************)
(* Model-checking instances of ByteArrays.                                 *)
(***************************************************************************)
EXTENDS ByteArrays, TLC

MCIndex == {-1, 2}

Alike == Permutations(Array) \cup Permutations(Buffer)
=============================================================================
