---------------------------- MODULE MCClientMux ----------------------------
(***************************************************************************)
(* Model checking of ClientMux with a few tasks and slots.                 *)
(***************************************************************************)
EXTENDS ClientMux

=============================================================================
