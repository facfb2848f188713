---------------------------- MODULE MCInodeTree ----------------------------
(***************************************************************************)
(* Instances of InodeTree for TLC.                                         *)
(***************************************************************************)
EXTENDS InodeTree, TLC

MCSymmetry == Permutations(Clients) \cup Permutations(Names)

=============================================================================
