------------------------ MODULE MCSparseMerkleTree ------------------------
(***************************************************************************)
(* A tree of depth four.  8 and 14 are even, 1, 3 and 5 odd; 1 and 5       *)
(* share two bits and part at the last level a proof reaches.              *)
(***************************************************************************)
EXTENDS SparseMerkleTree

MCTreeKeys == {1, 3, 5, 8, 14}
=============================================================================
