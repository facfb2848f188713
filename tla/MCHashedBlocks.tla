--------------------------- MODULE MCHashedBlocks ---------------------------
(***************************************************************************)
(* Instances of HashedBlocks for TLC.  Addresses are numbers; the snapshot *)
(* copies address 1 to address 3.                                          *)
(***************************************************************************)
EXTENDS HashedBlocks, TLC

MCSnapSource == [a \in SnapAddrs |-> a - 2]

ClientSymmetry == Permutations(Clients) \cup Permutations(Hashes)

=============================================================================
