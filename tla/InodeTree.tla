------------------------------ MODULE InodeTree ------------------------------
(***************************************************************************)
(* The directory tree and the life of inodes.  Every operation is a        *)
(* sequence of optimistic TiKV transactions.  A transaction reads from the *)
(* snapshot taken when it starts and commits unless another transaction    *)
(* has committed one of the keys that it writes in between; what it only   *)
(* read is not checked.  So each transaction is two steps here, Start and  *)
(* the commit, and dirty[c] collects the keys committed since c started.   *)
(***************************************************************************)
EXTENDS Integers, FiniteSets

CONSTANTS
    Clients,     \* operations running at the same time, on any mount
    Names,       \* file names
    Uses,        \* use ids (UUIDs) under which open inodes are published
    NoIno,       \* "no entry"
    MaxIno,      \* bound: the largest inode number handed out
    MaxCrashes,  \* bound: operations that stop half-way
    Fresh        \* TRUE: start from an empty store; FALSE: the root exists

\* key.rs: the pre-defined inode numbers
PARENT_OF_ROOT_INODE == 0
ROOT_INODE == 1
OPENED_INODE_PARENT_INODE == 2
FIRST_DATA_INODE == 10

ASSUME ConstantsAssumption ==
    /\ MaxIno \in Nat /\ MaxIno >= FIRST_DATA_INODE
    /\ NoIno \notin Nat
    /\ MaxCrashes \in Nat
    /\ Fresh \in BOOLEAN
    /\ Clients # {} /\ Names # {}

Inos == {ROOT_INODE} \cup FIRST_DATA_INODE..MaxIno

\* A directory entry key is a parent and a name; open inodes are entries of
\* an invisible parent, named by the use id.
RootPlace == <<PARENT_OF_ROOT_INODE, "">>
TreePlaces == Inos \X Names
OpenPlaces == {OPENED_INODE_PARENT_INODE} \X Uses
Places == {RootPlace} \cup TreePlaces \cup OpenPlaces

VARIABLES
    child,    \* place -> inode: the DirectoryChild keys
    links,    \* <<inode, place>>: the ParentLink keys
    desc,     \* inodes with an InoDescription key
    attrs,    \* inodes with the other InoMetadata keys and block mappings
    typ,      \* inode -> the type written when it was made
    next,     \* MetaMutable.inode_next; 0: the key is missing
    pc, op,   \* client -> its step and its current operation
    snap,     \* client -> what its running transaction reads
    dirty,    \* client -> keys committed by others since it started
    crashes

store == <<child, links, desc, attrs, typ, next>>
vars == <<child, links, desc, attrs, typ, next, pc, op, snap, dirty, crashes>>

Types == {"none", "file", "dir"}
Kinds == {"none", "reserve", "make", "link", "open", "close", "unlink",
          "check", "purge", "rmdir", "rename"}
Operation == [kind : Kinds, p : Places, q : Places,
              i : Inos \cup {NoIno}, typ : Types]
Snapshot == [child : [Places -> Inos \cup {NoIno}],
             links : SUBSET (Inos \X Places),
             desc : SUBSET Inos,
             next : {0} \cup FIRST_DATA_INODE..(MaxIno + 1)]
Keys == ({"child"} \X Places) \cup ({"desc"} \X Inos) \cup {<<"meta">>}

NoOp == [kind |-> "none", p |-> RootPlace, q |-> RootPlace,
         i |-> NoIno, typ |-> "none"]
Current == [child |-> child, links |-> links, desc |-> desc, next |-> next]

\* What a finished client keeps in its transaction variables.
NoSnap == [child |-> [p \in Places |-> NoIno], links |-> {}, desc |-> {}, next |-> 0]

TypeOK ==
    /\ child \in [Places -> Inos \cup {NoIno}]
    /\ links \in SUBSET (Inos \X Places)
    /\ desc \in SUBSET Inos
    /\ attrs \in SUBSET Inos
    /\ typ \in [Inos -> Types]
    /\ next \in {0} \cup FIRST_DATA_INODE..(MaxIno + 1)
    /\ pc \in [Clients -> {"idle", "ready", "run"}]
    /\ op \in [Clients -> Operation]
    /\ snap \in [Clients -> Snapshot]
    /\ dirty \in [Clients -> SUBSET Keys]
    /\ crashes \in 0..MaxCrashes

Init ==
    /\ child = [p \in Places |-> IF ~Fresh /\ p = RootPlace THEN ROOT_INODE ELSE NoIno]
    /\ links = IF Fresh THEN {} ELSE {<<ROOT_INODE, RootPlace>>}
    /\ desc = IF Fresh THEN {} ELSE {ROOT_INODE}
    /\ attrs = desc
    /\ typ = [i \in Inos |-> IF ~Fresh /\ i = ROOT_INODE THEN "dir" ELSE "none"]
    /\ next = IF Fresh THEN 0 ELSE FIRST_DATA_INODE
    /\ pc = [c \in Clients |-> "idle"]
    /\ op = [c \in Clients |-> NoOp]
    /\ snap = [c \in Clients |-> NoSnap]
    /\ dirty = [c \in Clients |-> {}]
    /\ crashes = 0

-----------------------------------------------------------------------------
(***************************************************************************)
(* Transactions.                                                           *)
(***************************************************************************)

\* The client c goes on with the operation o, or is done if o is NoOp.
Continue(c, o) ==
    /\ op' = [op EXCEPT ![c] = o]
    /\ pc' = [pc EXCEPT ![c] = IF o = NoOp THEN "idle" ELSE "ready"]
    /\ snap' = [snap EXCEPT ![c] = NoSnap]

\* MiniTransaction::start: take the snapshot.
Start(c) ==
    /\ pc[c] = "ready"
    /\ op[c].kind # "purge"
    /\ pc' = [pc EXCEPT ![c] = "run"]
    /\ snap' = [snap EXCEPT ![c] = Current]
    /\ dirty' = [dirty EXCEPT ![c] = {}]
    /\ UNCHANGED <<store, op, crashes>>

\* finish: the transaction put the entries `put`, deleted the entries `del`
\* (each with its link in both directions), wrote the descriptions `made` and
\* deleted the descriptions `gone`; no key it writes is dirty.
WrittenKeys(put, del, made, gone) ==
    {<<"child", e[1]>> : e \in put \cup del} \cup {<<"desc", i>> : i \in made \cup gone}

Entry(put, del, p) ==
    IF \E e \in put : e[1] = p THEN (CHOOSE e \in put : e[1] = p)[2]
    ELSE IF \E e \in del : e[1] = p THEN NoIno
    ELSE child[p]

\* Mutant: commit without conflict detection.
MutPublishUnchecked(c, keys) ==
    dirty' = [d \in Clients |->
                 IF d = c THEN {}
                 ELSE IF pc[d] = "run" THEN dirty[d] \cup keys
                 ELSE dirty[d]]

Publish(c, keys) ==
    /\ keys \cap dirty[c] = {}
    /\ dirty' = [d \in Clients |->
                    IF d = c THEN {}
                    ELSE IF pc[d] = "run" THEN dirty[d] \cup keys
                    ELSE dirty[d]]

\* Mutant: the inode's own link stays when an entry is deleted.
MutCommitKeepsLink(c, put, del, made, gone) ==
    /\ Publish(c, WrittenKeys(put, del, made, gone))
    /\ child' = [p \in Places |-> Entry(put, del, p)]
    /\ links' = links \cup {<<e[2], e[1]>> : e \in put}
    /\ desc' = (desc \ gone) \cup made

Commit(c, put, del, made, gone) ==
    /\ Publish(c, WrittenKeys(put, del, made, gone))
    /\ child' = [p \in Places |-> Entry(put, del, p)]
    /\ links' = (links \ {<<e[2], e[1]>> : e \in del}) \cup {<<e[2], e[1]>> : e \in put}
    /\ desc' = (desc \ gone) \cup made

\* The body of the transaction fails, or writes nothing.
Return(c, o) ==
    /\ Continue(c, o)
    /\ dirty' = [dirty EXCEPT ![c] = {}]
    /\ UNCHANGED <<store, crashes>>

\* A conflict, or a lock of another transaction in the way: once more.
Retry(c) ==
    /\ pc[c] = "run"
    /\ dirty[c] # {}
    /\ Return(c, op[c])

Running(c, kind) == pc[c] = "run" /\ op[c].kind = kind

-----------------------------------------------------------------------------
(***************************************************************************)
(* Creating entries.                                                       *)
(***************************************************************************)

\* meta_mutable_reserve_new_ino: the first call on an empty store initialises
\* the metadata and answers the root inode.
Reserve(c) ==
    /\ Running(c, "reserve")
    /\ LET s == snap[c] IN
       /\ s.next <= MaxIno
       /\ Publish(c, {<<"meta">>})
       /\ next' = IF s.next = 0 THEN FIRST_DATA_INODE ELSE s.next + 1
       /\ Continue(c, [op[c] EXCEPT !.kind = "make",
                                    !.i = IF s.next = 0 THEN ROOT_INODE ELSE s.next])
    /\ UNCHANGED <<child, links, desc, attrs, typ, crashes>>

\* directory_add_child_checked_new_inode: neither the parent's description
\* nor its own entry is read.
Make(c) ==
    /\ Running(c, "make")
    /\ LET o == op[c] IN
       \/ /\ snap[c].child[o.p] # NoIno
          /\ Return(c, NoOp)
       \/ /\ snap[c].child[o.p] = NoIno
          /\ Commit(c, {<<o.p, o.i>>}, {}, {o.i}, {})
          /\ attrs' = attrs \cup {o.i}
          /\ typ' = [typ EXCEPT ![o.i] = o.typ]
          /\ Continue(c, NoOp)
          /\ UNCHANGED <<next, crashes>>

\* directory_add_child_checked_existing_inode (link, and open under the
\* invisible parent): the description must exist, the name must be free.
AddExisting(c, kind) ==
    /\ Running(c, kind)
    /\ LET o == op[c] IN
       \/ /\ snap[c].child[o.p] # NoIno \/ o.i \notin snap[c].desc
          /\ Return(c, NoOp)
       \/ /\ snap[c].child[o.p] = NoIno
          /\ o.i \in snap[c].desc
          /\ Commit(c, {<<o.p, o.i>>}, {}, {}, {})
          /\ Continue(c, NoOp)
          /\ UNCHANGED <<attrs, typ, next, crashes>>

-----------------------------------------------------------------------------
(***************************************************************************)
(* Removing and renaming entries.                                          *)
(***************************************************************************)

\* directory_remove_child (unlink, and close under the invisible parent).
\* After an unlink the remaining links are checked in a second transaction;
\* after a close nothing is checked.
Remove(c, kind) ==
    /\ Running(c, kind)
    /\ LET o == op[c]
           i == snap[c].child[o.p]
           allowed == /\ i # NoIno
                      /\ kind = "unlink" => typ[i] # "dir"
                      /\ kind = "close" => i = o.i
       IN \/ /\ ~allowed
             /\ Return(c, NoOp)
          \/ /\ allowed
             /\ Commit(c, {}, {<<o.p, i>>}, {}, {})
             /\ Continue(c, IF kind = "unlink"
                            THEN [NoOp EXCEPT !.kind = "check", !.i = i]
                            ELSE NoOp)
             /\ UNCHANGED <<attrs, typ, next, crashes>>

\* Mutant: the result StillUsed is ignored.
MutCheckIgnoresResult(c) ==
    /\ Running(c, "check")
    /\ LET i == op[c].i
           usages == {l \in snap[c].links : l[1] = i}
       IN \/ /\ usages # {}
             /\ Return(c, [op[c] EXCEPT !.kind = "purge"])
          \/ /\ usages = {}
             /\ Commit(c, {}, {}, {}, {i})
             /\ Continue(c, [op[c] EXCEPT !.kind = "purge"])
             /\ UNCHANGED <<attrs, typ, next, crashes>>

\* Mutant: a last remaining link does not count as a usage.
MutCheckOffByOne(c) ==
    /\ Running(c, "check")
    /\ LET i == op[c].i
           usages == {l \in snap[c].links : l[1] = i}
       IN \/ /\ Cardinality(usages) > 1
             /\ Return(c, NoOp)
          \/ /\ Cardinality(usages) <= 1
             /\ Commit(c, {}, {}, {}, {i})
             /\ Continue(c, [op[c] EXCEPT !.kind = "purge"])
             /\ UNCHANGED <<attrs, typ, next, crashes>>

\* inode_check_for_delete_and_delete_atomically_description
CheckForDelete(c) ==
    /\ Running(c, "check")
    /\ LET i == op[c].i
           usages == {l \in snap[c].links : l[1] = i}
       IN \/ /\ usages # {}
             /\ Return(c, NoOp)
          \/ /\ usages = {}
             /\ Commit(c, {}, {}, {}, {i})
             /\ Continue(c, [op[c] EXCEPT !.kind = "purge"])
             /\ UNCHANGED <<attrs, typ, next, crashes>>

\* directory_remove_child_generic, after the description is gone: clear the
\* blocks and delete every InoMetadata key, unconditionally.
Purge(c) ==
    /\ pc[c] = "ready"
    /\ op[c].kind = "purge"
    /\ attrs' = attrs \ {op[c].i}
    /\ desc' = desc \ {op[c].i}
    /\ dirty' = [d \in Clients |->
                    IF pc[d] = "run" THEN dirty[d] \cup {<<"desc", op[c].i>>} ELSE dirty[d]]
    /\ Continue(c, NoOp)
    /\ UNCHANGED <<child, links, typ, next, crashes>>

\* Mutant: the directory is not checked for children.
MutRemoveDirectoryFull(c) ==
    /\ Running(c, "rmdir")
    /\ LET p == op[c].p
           i == snap[c].child[p]
           allowed == i # NoIno /\ typ[i] = "dir"
       IN \/ /\ ~allowed
             /\ Return(c, NoOp)
          \/ /\ allowed
             /\ Commit(c, {}, {<<p, i>>}, {}, {})
             /\ Continue(c, NoOp)
             /\ UNCHANGED <<attrs, typ, next, crashes>>

\* directory_remove_child_empty_directory: the scan for children is only read.
RemoveDirectory(c) ==
    /\ Running(c, "rmdir")
    /\ LET p == op[c].p
           i == snap[c].child[p]
           allowed == /\ i # NoIno
                      /\ typ[i] = "dir"
                      /\ \A n \in Names : snap[c].child[<<i, n>>] = NoIno
       IN \/ /\ ~allowed
             /\ Return(c, NoOp)
          \/ /\ allowed
             /\ Commit(c, {}, {<<p, i>>}, {}, {})
             /\ Continue(c, NoOp)
             /\ UNCHANGED <<attrs, typ, next, crashes>>

\* directory_rename_child: when the new name exists it is left as it is and
\* the old one is removed all the same.
Rename(c) ==
    /\ Running(c, "rename")
    /\ LET o == op[c]
           i == snap[c].child[o.p]
           exists == snap[c].child[o.q] # NoIno
           fails == i = NoIno \/ (~exists /\ i \notin snap[c].desc)
       IN \/ /\ fails
             /\ Return(c, NoOp)
          \/ /\ ~fails
             /\ Commit(c, IF exists THEN {} ELSE {<<o.q, i>>}, {<<o.p, i>>}, {}, {})
             /\ Continue(c, NoOp)
             /\ UNCHANGED <<attrs, typ, next, crashes>>

-----------------------------------------------------------------------------
(***************************************************************************)
(* Calls, crashes and the next-state relation.                             *)
(***************************************************************************)

\* A place in a directory that the kernel can look up when it calls.
InDirectory(p) ==
    /\ p \in TreePlaces
    /\ typ[p[1]] = "dir"
    /\ \E q \in Places : child[q] = p[1]

\* The bound on inode numbers: a call that needs a new one must fit.
Pending == {c \in Clients : op[c].kind = "reserve"}
FreeNumbers == MaxIno + 1 - (IF next = 0 THEN FIRST_DATA_INODE ELSE next)

Call(c, o) ==
    /\ pc[c] = "idle"
    /\ o.kind = "reserve" => Cardinality(Pending) < FreeNumbers
    /\ Continue(c, o)
    /\ UNCHANGED <<store, dirty, crashes>>

\* init: every mount gets or makes the root directory.
CallMount(c) ==
    Call(c, [NoOp EXCEPT !.kind = "reserve", !.typ = "dir"])

\* create, mknod, symlink, mkdir
CallCreate(c, p, t) ==
    /\ InDirectory(p)
    /\ Call(c, [NoOp EXCEPT !.kind = "reserve", !.p = p, !.typ = t])

CallLink(c, p, i) ==
    /\ InDirectory(p)
    /\ typ[i] = "file"
    /\ Call(c, [NoOp EXCEPT !.kind = "link", !.p = p, !.i = i])

\* inode_open draws a new UUID.
CallOpen(c, p, i) ==
    /\ typ[i] # "none"
    /\ child[p] = NoIno
    /\ \A d \in Clients : op[d].p # p
    /\ Call(c, [NoOp EXCEPT !.kind = "open", !.p = p, !.i = i])

CallClose(c, p) ==
    /\ child[p] # NoIno
    /\ Call(c, [NoOp EXCEPT !.kind = "close", !.p = p, !.i = child[p]])

CallRemove(c, p, kind) ==
    /\ InDirectory(p)
    /\ Call(c, [NoOp EXCEPT !.kind = kind, !.p = p])

CallRename(c, p, q) ==
    /\ InDirectory(p)
    /\ InDirectory(q)
    /\ child[p] # q[1]      \* the kernel refuses to move a directory into itself
    /\ child[p] # child[q]  \* and does not ask for a rename to the same inode
    /\ Call(c, [NoOp EXCEPT !.kind = "rename", !.p = p, !.q = q])

Calls(c) ==
    \/ CallMount(c)
    \/ \E p \in TreePlaces :
          \/ \E t \in {"file", "dir"} : CallCreate(c, p, t)
          \/ \E i \in Inos : CallLink(c, p, i)
          \/ \E kind \in {"unlink", "rmdir"} : CallRemove(c, p, kind)
          \/ \E q \in TreePlaces : CallRename(c, p, q)
    \/ \E p \in OpenPlaces :
          \/ \E i \in Inos : CallOpen(c, p, i)
          \/ CallClose(c, p)

\* The process stops or the retries are exhausted: a transaction that has not
\* committed has no effect, and the rest of the operation never happens.
Crash(c) ==
    /\ pc[c] # "idle"
    /\ crashes < MaxCrashes
    /\ crashes' = crashes + 1
    /\ Continue(c, NoOp)
    /\ dirty' = [dirty EXCEPT ![c] = {}]
    /\ UNCHANGED store

Steps(c) ==
    \/ Start(c)
    \/ Retry(c)
    \/ Reserve(c)
    \/ Make(c)
    \/ AddExisting(c, "link")
    \/ AddExisting(c, "open")
    \/ Remove(c, "unlink")
    \/ Remove(c, "close")
    \/ CheckForDelete(c)
    \/ Purge(c)
    \/ RemoveDirectory(c)
    \/ Rename(c)

Next == \E c \in Clients : Calls(c) \/ Steps(c) \/ Crash(c)

Spec == Init /\ [][Next]_vars

-----------------------------------------------------------------------------

\* The two directions of every link agree: the parent's entry names the inode
\* exactly when the inode's parent link names the entry, although adding,
\* removing and renaming entries only detect conflicts on what they write.
LinkSymmetry ==
    \A i \in Inos, p \in Places : child[p] = i <=> <<i, p>> \in links

\* An inode number is handed out once: nobody is about to make an inode that
\* exists, has existed, or that somebody else is about to make.
InodeNumbersUnique ==
    \A c \in Clients : op[c].kind = "make" =>
        /\ typ[op[c].i] = "none"
        /\ \A d \in Clients \ {c} : op[d].kind = "make" => op[d].i # op[c].i

\* A described inode is complete and stays so: it has its attributes, size and
\* blocks, and no directory_remove_child_generic is about to purge them, many
\* steps after the check that let it.
DescribedIsKept ==
    /\ desc \subseteq attrs
    /\ \A c \in Clients : op[c].kind = "purge" => op[c].i \notin desc

\* A deleted description belonged to an inode whose links were all gone when
\* the deleting transaction started: only a link that was committed while the
\* check was running can be lost.
DeletedWasUnlinked ==
    [][\A i \in Inos : i \in desc /\ i \notin desc' =>
          \E c \in Clients :
              /\ Running(c, "check")
              /\ op[c].i = i
              /\ \A p \in Places : <<i, p>> \in links => <<"child", p>> \in dirty[c]]_vars

\* A removed directory was empty when the removing transaction started: only
\* an entry that was committed during the check of
\* directory_remove_child_empty_directory can be left in it.
RemovedWasEmpty ==
    [][\A c \in Clients :
          LET p == op[c].p IN
          Running(c, "rmdir") /\ pc'[c] # "run" /\ child'[p] # child[p] =>
              \A n \in Names :
                  child[<<child[p], n>>] # NoIno => <<"child", <<child[p], n>>>> \in dirty[c]]_vars

=============================================================================
