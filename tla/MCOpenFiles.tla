---------------------------- MODULE MCOpenFiles -----------------------------
(* Open files of one mount, with the constants of handles.cfg.             *)
EXTENDS OpenFiles
=============================================================================
