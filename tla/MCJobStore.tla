----------------------------- MODULE MCJobStore ------------------------------
(* Records of two blocks, of one and of two again: a shorter record over a  *)
(* longer one, and the other way round.                                     *)
EXTENDS JobStoreFile, TLC

TwoOneTwo == [v \in 1..MaxSaves |-> IF v % 2 = 1 THEN 2 ELSE 1]

InodeSymmetry == Permutations(Inodes)
=============================================================================
