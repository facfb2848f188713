---------------------------- MODULE MCFileContent ---------------------------
(***************************************************************************)
(* Model checking of FileContent: two blocks of two bytes.                 *)
(***************************************************************************)
EXTENDS FileContent, TLC

MCSymmetry == Permutations(Writers) \cup Permutations(Hashers)

=============================================================================
