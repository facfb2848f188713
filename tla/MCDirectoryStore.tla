-------------------------- MODULE MCDirectoryStore --------------------------
(* Names as bytes: a new entry is called as the hash file of the first one, *)
(* which comes behind all others in the root and before the one in the      *)
(* directory.  A write changes a block that is there or adds two of them.   *)
EXTENDS DirectoryStore

MCNames == {<<Dot, a, Dot, HashEnd>>}
MCSpans == {<<0, 0>>, <<1, 2>>}
MCSnapName == <<b>>
MCUseName == <<d, d>>
MCPrefix == <<9>>
MCSnapshotsName == <<Dot, 8>>
MCOpenedName == <<Dot, 9>>

=============================================================================
