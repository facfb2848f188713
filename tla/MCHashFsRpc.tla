---------------------------- MODULE MCHashFsRpc -----------------------------
(***************************************************************************)
(* Model checking of HashFsRpc: one caller makes any single request, the   *)
(* other one the writing requests of hb_write_data, with and without new   *)
(* blocks.  Every method fails with the errors that are typical for it.    *)
(***************************************************************************)
EXTENDS HashFsRpc, TLC

CONSTANTS any, writer

Rq(m, empty) == [method |-> m, empty |-> empty]
MCPlans ==
    any :> {<<Rq(m, FALSE)>> : m \in Methods}
        @@ writer :>
            {<<Rq("hb_increment_reference_count", e),
               Rq("inode_write_hash_block_to_addresses", e)>> : e \in BOOLEAN}

MCGives ==
    [m \in Methods |->
        CASE m = "meta_static_read" -> {"Ok", "FsNotInitialized", "FsHasInvalidData"}
          [] m \in {"directory_add_child_checked_existing_inode", "directory_add_new_symlink"} ->
                {"Ok", "FileAlreadyExists"}
          [] m \in {"directory_child_get_all_attributes", "directory_rename_child",
                    "directory_remove_child_file", "directory_remove_child_directory"} ->
                {"Ok", "FileNotFound"}
          [] m = "inode_get_all_attributes" -> {"Ok", "FsHasMissingData"}
          [] OTHER -> {"Ok", "Unspecific"}]

=============================================================================
