----------------------------- MODULE MCKeyLock -----------------------------
(***************************************************************************)
(* Model checking of KeyLock: the UUIDs are small numbers.                 *)
(***************************************************************************)
EXTENDS KeyLock

CONSTANT N   \* number of lock objects

MCIds == 1..N

=============================================================================
