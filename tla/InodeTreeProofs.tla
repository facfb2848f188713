-------------------------- MODULE InodeTreeProofs --------------------------
(***************************************************************************)
(* The two directions of every directory link agree under snapshot         *)
(* isolation, inode numbers are handed out once, described inodes are kept *)
(* and only unlinked inodes and empty directories are deleted: for any     *)
(* number of clients, names, inodes and crashes.                           *)
(***************************************************************************)
EXTENDS InodeTree, TLAPS

\* An operation past the choice of its inode has one.
OperandsOK ==
    \A c \in Clients :
        op[c].kind \in {"make", "link", "open", "check", "purge"} => op[c].i \in Inos

\* What conflict detection guarantees: a running transaction's snapshot of an
\* entry is up to date unless the key is dirty.
SnapshotCurrent ==
    \A c \in Clients : pc[c] = "run" =>
        \A p \in Places :
            <<"child", p>> \notin dirty[c] => snap[c].child[p] = child[p]

\* The inductive invariant.
IInv == TypeOK /\ OperandsOK /\ SnapshotCurrent /\ LinkSymmetry

\* The writes of a transaction that follow from what it has read: an entry it
\* puts was free, an entry it deletes named the inode it unlinks.
Justified(c, put, del) ==
    /\ put \subseteq Places \X Inos
    /\ del \subseteq Places \X Inos
    /\ \A e \in put : snap[c].child[e[1]] = NoIno
    /\ \A e \in del : snap[c].child[e[1]] = e[2]
    /\ \A e, f \in put : e[1] = f[1] => e = f

NoInoNotIno == NoIno \notin Inos

-----------------------------------------------------------------------------

\* NoIno is not an inode.
LEMMA NoInoFresh == NoInoNotIno
  BY ConstantsAssumption DEF NoInoNotIno, Inos, ROOT_INODE, FIRST_DATA_INODE

\* The writes of a justified commit meet the entries as they are now.
LEMMA CommitMeetsStore ==
    ASSUME SnapshotCurrent,
           NEW c \in Clients, pc[c] = "run",
           NEW put, NEW del, NEW made, NEW gone,
           Justified(c, put, del),
           Commit(c, put, del, made, gone)
    PROVE  /\ \A e \in put : child[e[1]] = NoIno
           /\ \A e \in del : child[e[1]] = e[2]
<1>1. ASSUME NEW e \in put \cup del
      PROVE  e[1] \in Places /\ snap[c].child[e[1]] = child[e[1]]
  <2>1. <<"child", e[1]>> \in WrittenKeys(put, del, made, gone)
    BY DEF WrittenKeys
  <2>2. <<"child", e[1]>> \notin dirty[c]
    BY <2>1 DEF Commit, Publish
  <2>3. e[1] \in Places
    BY DEF Justified
  <2> QED BY <2>2, <2>3 DEF SnapshotCurrent
<1> QED BY <1>1 DEF Justified

\* A justified commit keeps the two directions of the links in agreement.
LEMMA CommitSymmetry ==
    ASSUME TypeOK, SnapshotCurrent, LinkSymmetry,
           NEW c \in Clients, pc[c] = "run",
           NEW put, NEW del, NEW made, NEW gone,
           Justified(c, put, del),
           Commit(c, put, del, made, gone)
    PROVE  LinkSymmetry'
<1>1. /\ \A e \in put : child[e[1]] = NoIno
      /\ \A e \in del : child[e[1]] = e[2]
  BY CommitMeetsStore
<1> SUFFICES ASSUME NEW i \in Inos, NEW p \in Places
             PROVE  child'[p] = i <=> <<i, p>> \in links'
  BY DEF LinkSymmetry
<1>2. child'[p] = Entry(put, del, p)
  BY DEF Commit
<1>3. links' = (links \ {<<e[2], e[1]>> : e \in del}) \cup {<<e[2], e[1]>> : e \in put}
  BY DEF Commit
<1>4. child[p] = i <=> <<i, p>> \in links
  BY DEF LinkSymmetry
<1>5. CASE \E e \in put : e[1] = p
  <2>1. PICK e \in put : e[1] = p
    BY <1>5
  <2>2. (CHOOSE f \in put : f[1] = p) = e
    BY <2>1 DEF Justified
  <2>3. child'[p] = e[2]
    BY <1>2, <2>1, <2>2 DEF Entry
  <2>4. <<i, p>> \notin links
    BY <1>1, <1>4, <2>1, NoInoFresh DEF NoInoNotIno
  <2>5. <<i, p>> \in links' <=> \E f \in put : <<i, p>> = <<f[2], f[1]>>
    BY <1>3, <2>4
  <2>6. (\E f \in put : <<i, p>> = <<f[2], f[1]>>) <=> e[2] = i
    BY <2>1 DEF Justified
  <2> QED BY <2>3, <2>5, <2>6
<1>6. CASE ~(\E e \in put : e[1] = p) /\ \E e \in del : e[1] = p
  <2>1. PICK e \in del : e[1] = p
    BY <1>6
  <2>2. child'[p] = NoIno
    BY <1>2, <1>6 DEF Entry
  <2>3. child[p] = e[2]
    BY <1>1, <2>1
  <2>4. <<i, p>> \notin links'
    <3>1. <<i, p>> \notin {<<f[2], f[1]>> : f \in put}
      BY <1>6
    <3>2. <<i, p>> \in links => <<i, p>> \in {<<f[2], f[1]>> : f \in del}
      BY <1>4, <2>1, <2>3
    <3> QED BY <1>3, <3>1, <3>2
  <2> QED BY <2>2, <2>4, NoInoFresh DEF NoInoNotIno
<1>7. CASE ~(\E e \in put : e[1] = p) /\ ~(\E e \in del : e[1] = p)
  <2>1. child'[p] = child[p]
    BY <1>2, <1>7 DEF Entry
  <2>2. <<i, p>> \in links' <=> <<i, p>> \in links
    BY <1>3, <1>7
  <2> QED BY <1>4, <2>1, <2>2
<1> QED BY <1>5, <1>6, <1>7

\* After a commit the other running transactions know which of the entries in
\* their snapshots have changed.
LEMMA CommitSnapshots ==
    ASSUME TypeOK, SnapshotCurrent,
           NEW c \in Clients, NEW o,
           NEW put, NEW del, NEW made, NEW gone,
           Commit(c, put, del, made, gone),
           Continue(c, o)
    PROVE  SnapshotCurrent'
<1> SUFFICES ASSUME NEW d \in Clients, pc'[d] = "run", NEW p \in Places,
                    <<"child", p>> \notin dirty'[d]
             PROVE  snap'[d].child[p] = child'[p]
  BY DEF SnapshotCurrent
<1>1. d # c /\ pc[d] = "run" /\ snap'[d] = snap[d]
  BY DEF Continue, TypeOK
<1>2. dirty'[d] = dirty[d] \cup WrittenKeys(put, del, made, gone)
  BY <1>1 DEF Commit, Publish
<1>3. ~(\E e \in put : e[1] = p) /\ ~(\E e \in del : e[1] = p)
  BY <1>2 DEF WrittenKeys
<1>4. child'[p] = child[p]
  BY <1>3 DEF Commit, Entry
<1> QED BY <1>1, <1>2, <1>4 DEF SnapshotCurrent

\* A commit keeps the store within its types.
LEMMA CommitTypes ==
    ASSUME TypeOK, NEW c \in Clients,
           NEW put, NEW del,
           NEW made \in SUBSET Inos, NEW gone \in SUBSET Inos,
           Justified(c, put, del),
           Commit(c, put, del, made, gone)
    PROVE  /\ child' \in [Places -> Inos \cup {NoIno}]
           /\ links' \in SUBSET (Inos \X Places)
           /\ desc' \in SUBSET Inos
           /\ dirty' \in [Clients -> SUBSET Keys]
<1>1. ASSUME NEW p \in Places PROVE Entry(put, del, p) \in Inos \cup {NoIno}
  <2>1. CASE \E e \in put : e[1] = p
    <3>1. (CHOOSE e \in put : e[1] = p) \in put
      BY <2>1
    <3> QED BY <2>1, <3>1 DEF Entry, Justified
  <2>2. CASE ~(\E e \in put : e[1] = p)
    BY <2>2 DEF Entry, TypeOK
  <2> QED BY <2>1, <2>2
<1>2. WrittenKeys(put, del, made, gone) \in SUBSET Keys
  BY DEF WrittenKeys, Keys, Justified
<1>3. links' \in SUBSET (Inos \X Places)
  BY DEF Commit, TypeOK, Justified
<1>4. dirty' \in [Clients -> SUBSET Keys]
  BY <1>2 DEF Commit, Publish, TypeOK
<1> QED BY <1>1, <1>3, <1>4 DEF Commit, TypeOK

-----------------------------------------------------------------------------

\* The operations that carry an inode.
OperandOK(o) ==
    o.kind \in {"make", "link", "open", "check", "purge"} => o.i \in Inos

\* What a finished operation leaves behind is typed.
LEMMA NoOpTypes == NoOp \in Operation /\ OperandOK(NoOp) /\ NoSnap \in Snapshot
  BY DEF NoOp, Operation, OperandOK, NoSnap, Snapshot, Places, RootPlace, Kinds, Types

\* Going on with an operation keeps the client's own state typed.
LEMMA ContinueTypes ==
    ASSUME TypeOK, OperandsOK, NEW c \in Clients,
           NEW o \in Operation, OperandOK(o), Continue(c, o)
    PROVE  /\ op' \in [Clients -> Operation]
           /\ pc' \in [Clients -> {"idle", "ready", "run"}]
           /\ snap' \in [Clients -> Snapshot]
           /\ OperandsOK'
<1>1. op' \in [Clients -> Operation]
  BY DEF Continue, TypeOK
<1>2. pc' \in [Clients -> {"idle", "ready", "run"}]
  BY DEF Continue, TypeOK
<1>3. snap' \in [Clients -> Snapshot]
  BY NoOpTypes DEF Continue, TypeOK
<1>4. ASSUME NEW d \in Clients,
             op'[d].kind \in {"make", "link", "open", "check", "purge"}
      PROVE  op'[d].i \in Inos
  <2>1. CASE d = c
    BY <1>4, <2>1 DEF Continue, TypeOK, OperandOK
  <2>2. CASE d # c
    BY <1>4, <2>2 DEF Continue, TypeOK, OperandsOK
  <2> QED BY <2>1, <2>2
<1> QED BY <1>1, <1>2, <1>3, <1>4 DEF OperandsOK

\* A step that does not touch the entries keeps the snapshots current, as long
\* as keys only become dirty and the client that moves stops running.
LEMMA QuietSnapshots ==
    ASSUME TypeOK, SnapshotCurrent, NEW c \in Clients, NEW o,
           Continue(c, o), child' = child,
           \A d \in Clients \ {c} : pc[d] = "run" => dirty[d] \subseteq dirty'[d]
    PROVE  SnapshotCurrent'
<1> SUFFICES ASSUME NEW d \in Clients, pc'[d] = "run", NEW p \in Places,
                    <<"child", p>> \notin dirty'[d]
             PROVE  snap'[d].child[p] = child'[p]
  BY DEF SnapshotCurrent
<1>1. d # c /\ pc[d] = "run" /\ snap'[d] = snap[d]
  BY DEF Continue, TypeOK
<1>2. <<"child", p>> \notin dirty[d]
  BY <1>1
<1> QED BY <1>1, <1>2 DEF SnapshotCurrent

\* A justified commit after which the client goes on with o.
LEMMA CommitStep ==
    ASSUME IInv, NEW c \in Clients, pc[c] = "run",
           NEW o \in Operation, OperandOK(o),
           NEW put, NEW del,
           NEW made \in SUBSET Inos, NEW gone \in SUBSET Inos,
           Justified(c, put, del),
           Commit(c, put, del, made, gone),
           Continue(c, o),
           attrs' \in SUBSET Inos, typ' \in [Inos -> Types],
           UNCHANGED <<next, crashes>>
    PROVE  IInv'
<1> USE DEF IInv
<1>1. LinkSymmetry'
  BY CommitSymmetry
<1>2. SnapshotCurrent'
  BY CommitSnapshots
<1>3. TypeOK'
  BY CommitTypes, ContinueTypes DEF TypeOK
<1>4. OperandsOK'
  BY ContinueTypes
<1> QED BY <1>1, <1>2, <1>3, <1>4

\* A transaction that ends without an effect.
LEMMA ReturnStep ==
    ASSUME IInv, NEW c \in Clients, NEW o \in Operation, OperandOK(o),
           Continue(c, o), dirty' = [dirty EXCEPT ![c] = {}],
           crashes' \in 0..MaxCrashes, UNCHANGED store
    PROVE  IInv'
<1> USE DEF IInv, store
<1>1. LinkSymmetry'
  BY DEF LinkSymmetry
<1>2. SnapshotCurrent'
  BY QuietSnapshots DEF TypeOK
<1>3. dirty' \in [Clients -> SUBSET Keys]
  BY DEF TypeOK
<1>4. TypeOK' /\ OperandsOK'
  BY <1>3, ContinueTypes DEF TypeOK
<1> QED BY <1>1, <1>2, <1>4

-----------------------------------------------------------------------------
(***************************************************************************)
(* The inductive step, one lemma per group of actions.                     *)
(***************************************************************************)

\* Starting a transaction takes a current snapshot.
LEMMA StartStep ==
    ASSUME IInv, NEW c \in Clients, Start(c)
    PROVE  IInv'
<1> USE DEF IInv, Start, store
<1>1. Current \in Snapshot
  BY DEF Current, Snapshot, TypeOK
<1>2. TypeOK'
  BY <1>1 DEF TypeOK
<1>3. OperandsOK' /\ LinkSymmetry'
  BY DEF OperandsOK, LinkSymmetry
<1>4. SnapshotCurrent'
  <2> SUFFICES ASSUME NEW d \in Clients, pc'[d] = "run", NEW p \in Places,
                      <<"child", p>> \notin dirty'[d]
               PROVE  snap'[d].child[p] = child'[p]
    BY DEF SnapshotCurrent
  <2>1. CASE d = c
    BY <2>1 DEF Current, TypeOK
  <2>2. CASE d # c
    BY <2>2 DEF TypeOK, SnapshotCurrent
  <2> QED BY <2>1, <2>2
<1> QED BY <1>2, <1>3, <1>4

\* A retry starts over with the same operation.
LEMMA RetryStep ==
    ASSUME IInv, NEW c \in Clients, Retry(c)
    PROVE  IInv'
<1>1. op[c] \in Operation /\ OperandOK(op[c])
  BY DEF IInv, TypeOK, OperandsOK, OperandOK
<1>2. crashes' \in 0..MaxCrashes
  BY DEF IInv, TypeOK, Retry, Return
<1> QED BY <1>1, <1>2, ReturnStep DEF Retry, Return

\* A transaction whose body fails or writes nothing finishes the operation.
LEMMA FailStep ==
    ASSUME IInv, NEW c \in Clients, Return(c, NoOp)
    PROVE  IInv'
<1>1. crashes' \in 0..MaxCrashes
  BY DEF IInv, TypeOK, Return
<1> QED BY <1>1, NoOpTypes, ReturnStep DEF Return

\* A crash forgets the operation and its uncommitted transaction.
LEMMA CrashStep ==
    ASSUME IInv, NEW c \in Clients, Crash(c)
    PROVE  IInv'
<1>1. crashes' \in 0..MaxCrashes
  BY ConstantsAssumption DEF IInv, TypeOK, Crash
<1> QED BY <1>1, NoOpTypes, ReturnStep DEF Crash

\* Reserving a number only writes the metadata key.
LEMMA ReserveStep ==
    ASSUME IInv, NEW c \in Clients, Reserve(c)
    PROVE  IInv'
<1> DEFINE o == [op[c] EXCEPT !.kind = "make",
                      !.i = IF snap[c].next = 0 THEN ROOT_INODE ELSE snap[c].next]
<1>1. snap[c].next \in {0} \cup FIRST_DATA_INODE..(MaxIno + 1) /\ snap[c].next <= MaxIno
  BY DEF IInv, TypeOK, Snapshot, Reserve
<1>2. o \in Operation /\ OperandOK(o)
  <2>1. (IF snap[c].next = 0 THEN ROOT_INODE ELSE snap[c].next) \in Inos
    BY <1>1, ConstantsAssumption DEF Inos, FIRST_DATA_INODE
  <2>2. op[c] \in Operation
    BY DEF IInv, TypeOK
  <2> QED BY <2>1, <2>2 DEF Operation, OperandOK, Kinds
<1>3. Continue(c, o) /\ Publish(c, {<<"meta">>})
  BY DEF Reserve
<1>4. next' \in {0} \cup FIRST_DATA_INODE..(MaxIno + 1)
  BY <1>1, ConstantsAssumption DEF Reserve, FIRST_DATA_INODE
<1>5. dirty' \in [Clients -> SUBSET Keys]
  BY <1>3 DEF IInv, TypeOK, Publish, Keys
<1> HIDE DEF o
<1>6. SnapshotCurrent'
  BY <1>3, QuietSnapshots DEF IInv, Reserve, Publish
<1>7. TypeOK' /\ OperandsOK'
  BY <1>2, <1>3, <1>4, <1>5, ContinueTypes DEF IInv, TypeOK, Reserve
<1>8. LinkSymmetry'
  BY DEF IInv, LinkSymmetry, Reserve
<1> QED BY <1>6, <1>7, <1>8 DEF IInv

\* The purge after a deletion touches no entry and no link.
LEMMA PurgeStep ==
    ASSUME IInv, NEW c \in Clients, Purge(c)
    PROVE  IInv'
<1>1. op[c].i \in Inos
  BY DEF IInv, OperandsOK, Purge
<1>2. dirty' \in [Clients -> SUBSET Keys]
  BY <1>1 DEF IInv, TypeOK, Purge, Keys
<1>3. Continue(c, NoOp)
  BY DEF Purge
<1>4. SnapshotCurrent'
  BY <1>3, QuietSnapshots DEF IInv, Purge
<1>5. TypeOK' /\ OperandsOK'
  BY <1>2, <1>3, NoOpTypes, ContinueTypes DEF IInv, TypeOK, Purge
<1>6. LinkSymmetry'
  BY DEF IInv, LinkSymmetry, Purge
<1> QED BY <1>4, <1>5, <1>6 DEF IInv

\* Making an inode puts one entry under a name its snapshot found free.
LEMMA MakeStep ==
    ASSUME IInv, NEW c \in Clients, Make(c)
    PROVE  IInv'
<1> DEFINE o == op[c]
<1>1. CASE Return(c, NoOp)
  BY <1>1, FailStep
<1>2. CASE /\ snap[c].child[o.p] = NoIno
           /\ Commit(c, {<<o.p, o.i>>}, {}, {o.i}, {})
           /\ attrs' = attrs \cup {o.i}
           /\ typ' = [typ EXCEPT ![o.i] = o.typ]
           /\ Continue(c, NoOp)
           /\ UNCHANGED <<next, crashes>>
  <2>1. o.p \in Places /\ o.i \in Inos /\ o.typ \in Types
    BY DEF IInv, TypeOK, OperandsOK, Make, Running, Operation
  <2>2. Justified(c, {<<o.p, o.i>>}, {})
    BY <1>2, <2>1 DEF Justified
  <2>3. attrs' \in SUBSET Inos /\ typ' \in [Inos -> Types]
    BY <1>2, <2>1 DEF IInv, TypeOK
  <2>4. pc[c] = "run"
    BY DEF Make, Running
  <2>5. {o.i} \in SUBSET Inos /\ {} \in SUBSET Inos
    BY <2>1
  <2> HIDE DEF o
  <2> QED BY <1>2, <2>2, <2>3, <2>4, <2>5, NoOpTypes, CommitStep
<1> QED BY <1>1, <1>2 DEF Make

\* Linking or opening an inode puts one entry under a free name.
LEMMA AddExistingStep ==
    ASSUME IInv, NEW c \in Clients, NEW kind \in {"link", "open"}, AddExisting(c, kind)
    PROVE  IInv'
<1> DEFINE o == op[c]
<1>1. CASE Return(c, NoOp)
  BY <1>1, FailStep
<1>2. CASE /\ snap[c].child[o.p] = NoIno
           /\ Commit(c, {<<o.p, o.i>>}, {}, {}, {})
           /\ Continue(c, NoOp)
           /\ UNCHANGED <<attrs, typ, next, crashes>>
  <2>1. o.p \in Places /\ o.i \in Inos
    BY DEF IInv, TypeOK, OperandsOK, AddExisting, Running, Operation
  <2>2. Justified(c, {<<o.p, o.i>>}, {})
    BY <1>2, <2>1 DEF Justified
  <2>3. attrs' \in SUBSET Inos /\ typ' \in [Inos -> Types]
    BY <1>2 DEF IInv, TypeOK
  <2>4. pc[c] = "run"
    BY DEF AddExisting, Running
  <2> HIDE DEF o
  <2> QED BY <1>2, <2>2, <2>3, <2>4, NoOpTypes, CommitStep
<1> QED BY <1>1, <1>2 DEF AddExisting

\* A transaction that deletes the entry p as its snapshot shows it.
LEMMA DeleteStep ==
    ASSUME IInv, NEW c \in Clients, pc[c] = "run",
           NEW p \in Places, NEW o \in Operation, OperandOK(o),
           snap[c].child[p] # NoIno,
           Commit(c, {}, {<<p, snap[c].child[p]>>}, {}, {}),
           Continue(c, o),
           UNCHANGED <<attrs, typ, next, crashes>>
    PROVE  IInv'
<1>1. snap[c].child[p] \in Inos
  BY DEF IInv, TypeOK, Snapshot
<1>2. Justified(c, {}, {<<p, snap[c].child[p]>>})
  BY <1>1 DEF Justified
<1>3. attrs' \in SUBSET Inos /\ typ' \in [Inos -> Types]
  BY DEF IInv, TypeOK
<1> QED BY <1>2, <1>3, CommitStep

\* Unlinking a name or closing a use deletes one entry.
LEMMA RemoveStep ==
    ASSUME IInv, NEW c \in Clients, NEW kind \in {"unlink", "close"}, Remove(c, kind)
    PROVE  IInv'
<1> DEFINE p == op[c].p
           i == snap[c].child[p]
           o == IF kind = "unlink" THEN [NoOp EXCEPT !.kind = "check", !.i = i] ELSE NoOp
<1>1. CASE Return(c, NoOp)
  BY <1>1, FailStep
<1>2. CASE /\ i # NoIno
           /\ Commit(c, {}, {<<p, i>>}, {}, {})
           /\ Continue(c, o)
           /\ UNCHANGED <<attrs, typ, next, crashes>>
  <2>1. p \in Places /\ pc[c] = "run"
    BY DEF IInv, TypeOK, Operation, Remove, Running
  <2>2. i \in Inos
    BY <1>2, <2>1 DEF IInv, TypeOK, Snapshot
  <2>3. o \in Operation /\ OperandOK(o)
    BY <2>2, NoOpTypes DEF Operation, OperandOK, Kinds
  <2> HIDE DEF p, o
  <2> QED BY <1>2, <2>1, <2>3, DeleteStep
<1> QED BY <1>1, <1>2 DEF Remove

\* Removing an empty directory deletes its entry.
LEMMA RemoveDirectoryStep ==
    ASSUME IInv, NEW c \in Clients, RemoveDirectory(c)
    PROVE  IInv'
<1> DEFINE p == op[c].p
           i == snap[c].child[p]
<1>1. CASE Return(c, NoOp)
  BY <1>1, FailStep
<1>2. CASE /\ i # NoIno
           /\ Commit(c, {}, {<<p, i>>}, {}, {})
           /\ Continue(c, NoOp)
           /\ UNCHANGED <<attrs, typ, next, crashes>>
  <2>1. p \in Places /\ pc[c] = "run"
    BY DEF IInv, TypeOK, Operation, RemoveDirectory, Running
  <2> HIDE DEF p
  <2> QED BY <1>2, <2>1, NoOpTypes, DeleteStep
<1> QED BY <1>1, <1>2 DEF RemoveDirectory

\* The deletion of an unlinked inode's description writes no entry.
LEMMA CheckForDeleteStep ==
    ASSUME IInv, NEW c \in Clients, CheckForDelete(c)
    PROVE  IInv'
<1> DEFINE o == [op[c] EXCEPT !.kind = "purge"]
<1>1. CASE Return(c, NoOp)
  BY <1>1, FailStep
<1>2. CASE /\ Commit(c, {}, {}, {}, {op[c].i})
           /\ Continue(c, o)
           /\ UNCHANGED <<attrs, typ, next, crashes>>
  <2>1. op[c].i \in Inos /\ pc[c] = "run" /\ op[c] \in Operation
    BY DEF IInv, TypeOK, OperandsOK, CheckForDelete, Running
  <2>2. o \in Operation /\ OperandOK(o)
    BY <2>1 DEF Operation, OperandOK, Kinds
  <2>3. Justified(c, {}, {})
    BY DEF Justified
  <2>4. attrs' \in SUBSET Inos /\ typ' \in [Inos -> Types]
    BY <1>2 DEF IInv, TypeOK
  <2>5. {op[c].i} \in SUBSET Inos /\ {} \in SUBSET Inos
    BY <2>1
  <2> HIDE DEF o
  <2> QED BY <1>2, <2>1, <2>2, <2>3, <2>4, <2>5, CommitStep
<1> QED BY <1>1, <1>2 DEF CheckForDelete

\* A rename deletes the old entry and puts the new one if that name is free.
LEMMA RenameStep ==
    ASSUME IInv, NEW c \in Clients, Rename(c)
    PROVE  IInv'
<1> DEFINE p == op[c].p
           q == op[c].q
           i == snap[c].child[p]
           put == IF snap[c].child[q] # NoIno THEN {} ELSE {<<q, i>>}
<1>1. CASE Return(c, NoOp)
  BY <1>1, FailStep
<1>2. CASE /\ i # NoIno
           /\ Commit(c, put, {<<p, i>>}, {}, {})
           /\ Continue(c, NoOp)
           /\ UNCHANGED <<attrs, typ, next, crashes>>
  <2>1. p \in Places /\ q \in Places /\ pc[c] = "run"
    BY DEF IInv, TypeOK, Operation, Rename, Running
  <2>2. i \in Inos
    BY <1>2, <2>1 DEF IInv, TypeOK, Snapshot
  <2>3. Justified(c, put, {<<p, i>>})
    BY <2>1, <2>2 DEF Justified
  <2>4. attrs' \in SUBSET Inos /\ typ' \in [Inos -> Types]
    BY <1>2 DEF IInv, TypeOK
  <2> HIDE DEF p, q, i, put
  <2> QED BY <1>2, <2>1, <2>3, <2>4, NoOpTypes, CommitStep
<1> QED BY <1>1, <1>2 DEF Rename

\* A call only gives the client an operation to perform.
LEMMA CallStep ==
    ASSUME IInv, NEW c \in Clients, NEW o \in Operation, OperandOK(o), Call(c, o)
    PROVE  IInv'
<1> USE DEF IInv, store
<1>1. Continue(c, o) /\ UNCHANGED <<store, dirty, crashes>>
  BY DEF Call
<1>2. SnapshotCurrent'
  BY <1>1, QuietSnapshots
<1>3. TypeOK' /\ OperandsOK'
  BY <1>1, ContinueTypes DEF TypeOK
<1>4. LinkSymmetry'
  BY <1>1 DEF LinkSymmetry
<1> QED BY <1>2, <1>3, <1>4

\* Every call asks for a well-formed operation.
LEMMA CallsStep ==
    ASSUME IInv, NEW c \in Clients, Calls(c)
    PROVE  IInv'
<1> USE NoOpTypes DEF Operation, OperandOK, Kinds, Types, Places
<1>1. CASE CallMount(c)
  BY <1>1, CallStep DEF CallMount
<1>2. ASSUME NEW p \in TreePlaces, NEW t \in {"file", "dir"}, CallCreate(c, p, t)
      PROVE  IInv'
  BY <1>2, CallStep DEF CallCreate
<1>3. ASSUME NEW p \in TreePlaces, NEW i \in Inos, CallLink(c, p, i)
      PROVE  IInv'
  BY <1>3, CallStep DEF CallLink
<1>4. ASSUME NEW p \in TreePlaces, NEW kind \in {"unlink", "rmdir"}, CallRemove(c, p, kind)
      PROVE  IInv'
  BY <1>4, CallStep DEF CallRemove
<1>5. ASSUME NEW p \in TreePlaces, NEW q \in TreePlaces, CallRename(c, p, q)
      PROVE  IInv'
  BY <1>5, CallStep DEF CallRename
<1>6. ASSUME NEW p \in OpenPlaces, NEW i \in Inos, CallOpen(c, p, i)
      PROVE  IInv'
  BY <1>6, CallStep DEF CallOpen
<1>7. ASSUME NEW p \in OpenPlaces, CallClose(c, p)
      PROVE  IInv'
  <2>1. child[p] \in Inos
    BY <1>7 DEF CallClose, IInv, TypeOK
  <2> QED BY <1>7, <2>1, CallStep DEF CallClose
<1> QED BY <1>1, <1>2, <1>3, <1>4, <1>5, <1>6, <1>7 DEF Calls

-----------------------------------------------------------------------------

\* The initial store has the root directory or nothing.
LEMMA InitInv == Init => IInv
<1> SUFFICES ASSUME Init PROVE IInv
  OBVIOUS
<1>1. ROOT_INODE \in Inos /\ RootPlace \in Places
  BY DEF Inos, Places
<1>2. TypeOK
  <2>1. next \in {0} \cup FIRST_DATA_INODE..(MaxIno + 1) /\ crashes \in 0..MaxCrashes
    BY ConstantsAssumption DEF Init, FIRST_DATA_INODE
  <2>2. child \in [Places -> Inos \cup {NoIno}] /\ typ \in [Inos -> Types]
    BY <1>1 DEF Init, Types
  <2>3. links \in SUBSET (Inos \X Places) /\ desc \in SUBSET Inos /\ attrs \in SUBSET Inos
    BY <1>1 DEF Init
  <2>4. /\ pc \in [Clients -> {"idle", "ready", "run"}]
        /\ op \in [Clients -> Operation]
        /\ snap \in [Clients -> Snapshot]
        /\ dirty \in [Clients -> SUBSET Keys]
    BY NoOpTypes DEF Init
  <2> QED BY <2>1, <2>2, <2>3, <2>4 DEF TypeOK
<1>3. OperandsOK /\ SnapshotCurrent
  BY DEF Init, OperandsOK, SnapshotCurrent, NoOp
<1>4. LinkSymmetry
  BY <1>1, NoInoFresh DEF Init, LinkSymmetry, NoInoNotIno
<1> QED BY <1>2, <1>3, <1>4 DEF IInv

\* Every step preserves the inductive invariant.
LEMMA NextInv == IInv /\ [Next]_vars => IInv'
<1> SUFFICES ASSUME IInv, [Next]_vars PROVE IInv'
  OBVIOUS
<1>1. ASSUME NEW c \in Clients, Calls(c) PROVE IInv'
  BY <1>1, CallsStep
<1>2. ASSUME NEW c \in Clients, Steps(c) PROVE IInv'
  BY <1>2, StartStep, RetryStep, ReserveStep, MakeStep, AddExistingStep, RemoveStep,
     CheckForDeleteStep, PurgeStep, RemoveDirectoryStep, RenameStep DEF Steps
<1>3. ASSUME NEW c \in Clients, Crash(c) PROVE IInv'
  BY <1>3, CrashStep
<1>4. CASE UNCHANGED vars
  BY <1>4 DEF vars, IInv, TypeOK, OperandsOK, SnapshotCurrent, LinkSymmetry
<1> QED BY <1>1, <1>2, <1>3, <1>4 DEF Next

\* Type correctness of the tree, its transactions and its operations.
THEOREM TreeTypeCorrect == Spec => []TypeOK
<1>1. IInv => TypeOK
  BY DEF IInv
<1> QED BY <1>1, InitInv, NextInv, PTL DEF Spec

\* The parent's entry and the inode's parent link agree in every reachable
\* state, whatever operations run at the same time and wherever they crash.
THEOREM LinksSymmetric == Spec => []LinkSymmetry
<1>1. IInv => LinkSymmetry
  BY DEF IInv
<1> QED BY <1>1, InitInv, NextInv, PTL DEF Spec

-----------------------------------------------------------------------------
(***************************************************************************)
(* Numbers, descriptions and deletions.                                    *)
(***************************************************************************)

\* What else a running transaction knows: the counter is as it read it unless
\* the key is dirty, and its snapshot agrees with itself on every link.
SnapshotMatches ==
    \A c \in Clients : pc[c] = "run" =>
        /\ <<"meta">> \notin dirty[c] => snap[c].next = next
        /\ \A i \in Inos, p \in Places :
               snap[c].child[p] = i <=> <<i, p>> \in snap[c].links

\* Numbers at and above the counter have not been used.
NumbersHanded ==
    /\ \A i \in Inos : typ[i] # "none" => i < next
    /\ \A c \in Clients : op[c].kind = "make" => op[c].i < next

\* An operation on an existing inode has one that was made; an operation that
\* makes an inode knows its type.
OpMade(o) ==
    /\ o.kind \in {"link", "open", "check", "purge"} => typ[o.i] # "none"
    /\ o.kind \in {"reserve", "make"} => o.typ # "none"

\* Entries name inodes that were made.
OnlyMade ==
    /\ \A p \in Places : child[p] # NoIno => typ[child[p]] # "none"
    /\ \A c \in Clients : OpMade(op[c])

\* The second layer of the inductive invariant.
IInvMade ==
    /\ SnapshotMatches
    /\ NumbersHanded
    /\ InodeNumbersUnique
    /\ OnlyMade
    /\ DescribedIsKept

\* A step of c that takes the counter and the types as they are, adds no
\* description and names no inode that was not made.
LEMMA KeepStep ==
    ASSUME IInv, IInvMade, NEW c \in Clients, NEW o \in Operation, Continue(c, o),
           OpMade(o),
           o.kind = "make" => o = op[c],
           o.kind = "purge" => o.i \notin desc',
           desc' \subseteq desc, desc' \subseteq attrs',
           UNCHANGED <<typ, next>>,
           \A p \in Places : child'[p] # NoIno => typ[child'[p]] # "none",
           \A d \in Clients \ {c} : pc[d] = "run" => dirty[d] \subseteq dirty'[d]
    PROVE  IInvMade'
<1>1. \A d \in Clients : op'[d] = IF d = c THEN o ELSE op[d]
  BY DEF Continue, IInv, TypeOK
<1>2. SnapshotMatches'
  <2> SUFFICES ASSUME NEW d \in Clients, pc'[d] = "run"
               PROVE  /\ <<"meta">> \notin dirty'[d] => snap'[d].next = next'
                      /\ \A i \in Inos, p \in Places :
                             snap'[d].child[p] = i <=> <<i, p>> \in snap'[d].links
    BY DEF SnapshotMatches
  <2>1. d # c /\ pc[d] = "run" /\ snap'[d] = snap[d]
    BY DEF Continue, IInv, TypeOK
  <2>2. <<"meta">> \notin dirty'[d] => <<"meta">> \notin dirty[d]
    BY <2>1
  <2> QED BY <2>1, <2>2 DEF IInvMade, SnapshotMatches
<1>3. NumbersHanded'
  BY <1>1 DEF IInvMade, NumbersHanded
<1>4. InodeNumbersUnique'
  BY <1>1 DEF IInvMade, InodeNumbersUnique
<1>5. OnlyMade'
  BY <1>1 DEF IInvMade, OnlyMade, OpMade
<1>6. DescribedIsKept'
  BY <1>1 DEF IInvMade, DescribedIsKept
<1> QED BY <1>2, <1>3, <1>4, <1>5, <1>6 DEF IInvMade

\* A finished operation names no inode.
LEMMA NoOpMade == NoOp \in Operation /\ OpMade(NoOp) /\ NoOp.kind = "none"
  BY NoOpTypes DEF NoOp, OpMade

\* A transaction that ends without an effect, or a call, keeps the second layer.
LEMMA KeepQuiet ==
    ASSUME IInv, IInvMade, NEW c \in Clients, NEW o \in Operation, Continue(c, o),
           OpMade(o), o.kind = "make" => o = op[c], o.kind = "purge" => o.i \notin desc,
           UNCHANGED store,
           \A d \in Clients \ {c} : dirty'[d] = dirty[d]
    PROVE  IInvMade'
<1>1. desc' = desc /\ attrs' = attrs /\ child' = child /\ UNCHANGED <<typ, next>>
  BY DEF store
<1>2. desc' \subseteq attrs'
  BY <1>1 DEF IInvMade, DescribedIsKept
<1>3. \A p \in Places : child'[p] # NoIno => typ[child'[p]] # "none"
  BY <1>1 DEF IInvMade, OnlyMade
<1>4. desc' \subseteq desc /\ (o.kind = "purge" => o.i \notin desc')
  BY <1>1
<1>5. \A d \in Clients \ {c} : pc[d] = "run" => dirty[d] \subseteq dirty'[d]
  OBVIOUS
<1> QED BY <1>1, <1>2, <1>3, <1>4, <1>5, KeepStep

\* A body that fails or writes nothing keeps the second layer.
LEMMA FailMade ==
    ASSUME IInv, IInvMade, NEW c \in Clients, Return(c, NoOp)
    PROVE  IInvMade'
<1>1. \A d \in Clients \ {c} : dirty'[d] = dirty[d]
  BY DEF Return, IInv, TypeOK
<1> QED BY <1>1, NoOpMade, KeepQuiet DEF Return

\* A commit that puts inodes that were made and writes no description.
LEMMA CommitMade ==
    ASSUME IInv, IInvMade, NEW c \in Clients, pc[c] = "run",
           NEW put, NEW del, NEW gone,
           \A e \in put : typ[e[2]] # "none",
           Commit(c, put, del, {}, gone),
           NEW o \in Operation, OpMade(o), Continue(c, o),
           o.kind # "make", o.kind = "purge" => o.i \in gone,
           UNCHANGED <<attrs, typ, next, crashes>>
    PROVE  IInvMade'
<1>1. desc' = desc \ gone
  BY DEF Commit
<1>2. desc' \subseteq desc /\ desc' \subseteq attrs' /\ (o.kind = "purge" => o.i \notin desc')
  BY <1>1 DEF IInvMade, DescribedIsKept
<1>3. ASSUME NEW p \in Places, child'[p] # NoIno PROVE typ[child'[p]] # "none"
  <2>1. child'[p] = Entry(put, del, p)
    BY DEF Commit
  <2>2. CASE \E e \in put : e[1] = p
    <3>1. (CHOOSE e \in put : e[1] = p) \in put
      BY <2>2
    <3> QED BY <2>1, <2>2, <3>1 DEF Entry
  <2>3. CASE ~(\E e \in put : e[1] = p)
    BY <1>3, <2>1, <2>3 DEF Entry, IInvMade, OnlyMade
  <2> QED BY <2>2, <2>3
<1>4. \A d \in Clients \ {c} : pc[d] = "run" => dirty[d] \subseteq dirty'[d]
  BY DEF Commit, Publish
<1> QED BY <1>2, <1>3, <1>4, KeepStep

\* What a transaction that writes the entry p has read there is still there.
LEMMA ReadIsCurrent ==
    ASSUME IInv, NEW c \in Clients, pc[c] = "run",
           NEW put, NEW del, NEW gone, Commit(c, put, del, {}, gone),
           NEW e \in del, e[1] \in Places
    PROVE  snap[c].child[e[1]] = child[e[1]]
<1>1. <<"child", e[1]>> \in WrittenKeys(put, del, {}, gone)
  BY DEF WrittenKeys
<1>2. <<"child", e[1]>> \notin dirty[c]
  BY <1>1 DEF Commit, Publish
<1> QED BY <1>2 DEF IInv, SnapshotCurrent

-----------------------------------------------------------------------------
(***************************************************************************)
(* The second layer is kept, one lemma per action.                         *)
(***************************************************************************)

\* A snapshot is as consistent as the store it is taken of.
LEMMA StartMade ==
    ASSUME IInv, IInvMade, NEW c \in Clients, Start(c)
    PROVE  IInvMade'
<1> USE DEF Start, store
<1>1. SnapshotMatches'
  <2> SUFFICES ASSUME NEW d \in Clients, pc'[d] = "run"
               PROVE  /\ <<"meta">> \notin dirty'[d] => snap'[d].next = next'
                      /\ \A i \in Inos, p \in Places :
                             snap'[d].child[p] = i <=> <<i, p>> \in snap'[d].links
    BY DEF SnapshotMatches
  <2>1. CASE d = c
    <3>1. snap'[d] = Current
      BY <2>1 DEF IInv, TypeOK
    <3>2. snap'[d].next = next /\ snap'[d].child = child /\ snap'[d].links = links
      BY <3>1 DEF Current
    <3> QED BY <3>2 DEF IInv, LinkSymmetry
  <2>2. CASE d # c
    BY <2>2 DEF IInv, TypeOK, IInvMade, SnapshotMatches
  <2> QED BY <2>1, <2>2
<1>2. NumbersHanded' /\ InodeNumbersUnique' /\ OnlyMade' /\ DescribedIsKept'
  BY DEF IInvMade, NumbersHanded, InodeNumbersUnique, OnlyMade, OpMade, DescribedIsKept
<1> QED BY <1>1, <1>2 DEF IInvMade

\* A retry goes on with the same operation.
LEMMA RetryMade ==
    ASSUME IInv, IInvMade, NEW c \in Clients, Retry(c)
    PROVE  IInvMade'
<1>1. op[c] \in Operation /\ OpMade(op[c]) /\ (op[c].kind = "purge" => op[c].i \notin desc)
  BY DEF IInv, TypeOK, IInvMade, OnlyMade, DescribedIsKept
<1>2. \A d \in Clients \ {c} : dirty'[d] = dirty[d]
  BY DEF Retry, Return, IInv, TypeOK
<1> QED BY <1>1, <1>2, KeepQuiet DEF Retry, Return

\* A crash leaves no operation behind.
LEMMA CrashMade ==
    ASSUME IInv, IInvMade, NEW c \in Clients, Crash(c)
    PROVE  IInvMade'
<1>1. \A d \in Clients \ {c} : dirty'[d] = dirty[d]
  BY DEF Crash, IInv, TypeOK
<1> QED BY <1>1, NoOpMade, KeepQuiet DEF Crash

\* The number that is reserved is the counter as it is now, because somebody
\* else's reservation would be a conflict: it has never been handed out.
LEMMA ReserveMade ==
    ASSUME IInv, IInvMade, NEW c \in Clients, Reserve(c)
    PROVE  IInvMade'
<1> DEFINE n == IF snap[c].next = 0 THEN ROOT_INODE ELSE snap[c].next
           o == [op[c] EXCEPT !.kind = "make", !.i = n]
<1>1. snap[c].next = next
  BY DEF Reserve, Running, Publish, IInvMade, SnapshotMatches
<1>2. next \in {0} \cup FIRST_DATA_INODE..(MaxIno + 1) /\ next <= MaxIno
  BY <1>1 DEF IInv, TypeOK, Reserve
<1>3. /\ n \in Inos /\ n < next' /\ next <= next' /\ next' \in Nat
      /\ \A i \in Inos : i < next => i # n
  <2>1. next' = IF next = 0 THEN FIRST_DATA_INODE ELSE next + 1
    BY <1>1 DEF Reserve
  <2>2. Inos \subseteq Nat \ {0}
    BY DEF Inos, ROOT_INODE, FIRST_DATA_INODE
  <2> QED BY <1>1, <1>2, <2>1, <2>2, ConstantsAssumption
          DEF Inos, ROOT_INODE, FIRST_DATA_INODE
<1>4. o.kind = "make" /\ o.i = n /\ o.typ = op[c].typ
  BY DEF IInv, TypeOK, Operation
<1>5. Continue(c, o)
  BY DEF Reserve
<1>6. \A d \in Clients : op'[d] = IF d = c THEN o ELSE op[d]
  BY <1>5 DEF Continue, IInv, TypeOK
<1>7. UNCHANGED <<child, desc, attrs, typ>>
  BY DEF Reserve
<1>8. op[c].kind = "reserve"
  BY DEF Reserve, Running
<1>9. \A d \in Clients : op[d].kind = "make" => op[d].i \in Inos /\ op[d].i < next
  BY DEF IInv, OperandsOK, IInvMade, NumbersHanded
<1> HIDE DEF n, o
<1>10. SnapshotMatches'
  <2> SUFFICES ASSUME NEW d \in Clients, pc'[d] = "run"
               PROVE  /\ <<"meta">> \notin dirty'[d] => snap'[d].next = next'
                      /\ \A i \in Inos, p \in Places :
                             snap'[d].child[p] = i <=> <<i, p>> \in snap'[d].links
    BY DEF SnapshotMatches
  <2>1. d # c /\ pc[d] = "run" /\ snap'[d] = snap[d]
    BY <1>5 DEF Continue, IInv, TypeOK
  <2>2. <<"meta">> \in dirty'[d]
    BY <2>1 DEF Reserve, Publish
  <2> QED BY <2>1, <2>2 DEF IInvMade, SnapshotMatches
<1>11. NumbersHanded'
  <2>1. \A i \in Inos : i \in Nat
    BY DEF Inos, ROOT_INODE, FIRST_DATA_INODE
  <2>2. next \in Nat
    BY <1>2 DEF FIRST_DATA_INODE
  <2>3. \A i \in Inos : i < next => i < next'
    BY <1>3, <2>1, <2>2
  <2>4. \A i \in Inos : typ'[i] # "none" => i < next'
    BY <1>7, <2>3 DEF IInvMade, NumbersHanded
  <2>5. \A d \in Clients : op'[d].kind = "make" => op'[d].i < next'
    BY <1>3, <1>4, <1>6, <1>9, <2>3
  <2> QED BY <2>4, <2>5 DEF NumbersHanded
<1>12. InodeNumbersUnique'
  <2>1. typ[n] = "none"
    BY <1>3 DEF IInvMade, NumbersHanded
  <2>2. \A d \in Clients : op[d].kind = "make" => op[d].i # n
    BY <1>3, <1>9
  <2> QED BY <1>4, <1>6, <1>7, <2>1, <2>2 DEF InodeNumbersUnique, IInvMade
<1>13. OnlyMade' /\ DescribedIsKept'
  BY <1>4, <1>6, <1>7, <1>8 DEF IInvMade, OnlyMade, OpMade, DescribedIsKept
<1> QED BY <1>10, <1>11, <1>12, <1>13 DEF IInvMade

\* The inode that is made has never existed, so no purge waits for it.
LEMMA MakeMade ==
    ASSUME IInv, IInvMade, NEW c \in Clients, Make(c)
    PROVE  IInvMade'
<1> DEFINE o == op[c]
<1>1. CASE Return(c, NoOp)
  BY <1>1, FailMade
<1>2. CASE /\ Commit(c, {<<o.p, o.i>>}, {}, {o.i}, {})
           /\ attrs' = attrs \cup {o.i}
           /\ typ' = [typ EXCEPT ![o.i] = o.typ]
           /\ Continue(c, NoOp)
           /\ UNCHANGED <<next, crashes>>
  <2>1. o.i \in Inos /\ o.kind = "make" /\ o.typ # "none" /\ typ[o.i] = "none"
    BY DEF IInv, OperandsOK, Make, Running, IInvMade, OnlyMade, OpMade, InodeNumbersUnique
  <2>2. \A d \in Clients : op'[d] = IF d = c THEN NoOp ELSE op[d]
    BY <1>2 DEF Continue, IInv, TypeOK
  <2>3. \A i \in Inos : typ'[i] = IF i = o.i THEN o.typ ELSE typ[i]
    BY <1>2 DEF IInv, TypeOK
  <2>4. desc' = desc \cup {o.i}
    BY <1>2 DEF Commit
  <2>5. \A p \in Places : child'[p] = o.i \/ child'[p] = child[p]
    <3> SUFFICES ASSUME NEW p \in Places PROVE child'[p] = o.i \/ child'[p] = child[p]
      OBVIOUS
    <3>1. child'[p] = Entry({<<o.p, o.i>>}, {}, p)
      BY <1>2 DEF Commit
    <3>2. CASE p = o.p
      <4>1. (CHOOSE e \in {<<o.p, o.i>>} : e[1] = p) = <<o.p, o.i>>
        BY <3>2
      <4> QED BY <3>1, <3>2, <4>1 DEF Entry
    <3>3. CASE p # o.p
      BY <3>1, <3>3 DEF Entry
    <3> QED BY <3>2, <3>3
  <2>6. o.i < next
    BY <2>1 DEF IInvMade, NumbersHanded
  <2>7. \A d \in Clients : op[d].kind \in {"make", "link", "open", "check", "purge"} =>
                               op[d].i \in Inos
    BY DEF IInv, OperandsOK
  <2>8. next' = next
    BY <1>2
  <2>9. attrs' = attrs \cup {o.i}
    BY <1>2
  <2>10. SnapshotMatches'
    <3> SUFFICES ASSUME NEW d \in Clients, pc'[d] = "run"
                 PROVE  /\ <<"meta">> \notin dirty'[d] => snap'[d].next = next'
                        /\ \A i \in Inos, p \in Places :
                               snap'[d].child[p] = i <=> <<i, p>> \in snap'[d].links
      BY DEF SnapshotMatches
    <3>1. d # c /\ pc[d] = "run" /\ snap'[d] = snap[d]
      BY <1>2 DEF Continue, IInv, TypeOK
    <3>2. dirty[d] \subseteq dirty'[d]
      BY <1>2, <3>1 DEF Commit, Publish
    <3> QED BY <2>8, <3>1, <3>2 DEF IInvMade, SnapshotMatches
  <2> HIDE DEF o
  <2>11. NumbersHanded'
    BY <2>2, <2>3, <2>6, <2>8, NoOpMade DEF IInvMade, NumbersHanded
  <2>12. InodeNumbersUnique'
    <3>1. \A d \in Clients \ {c} : op[d].kind = "make" => op[d].i # o.i
      BY <2>1 DEF IInvMade, InodeNumbersUnique, o
    <3> QED BY <2>2, <2>3, <2>7, <3>1, NoOpMade DEF IInvMade, InodeNumbersUnique
  <2>13. OnlyMade'
    <3>1. ASSUME NEW p \in Places, child'[p] # NoIno PROVE typ'[child'[p]] # "none"
      <4>1. CASE child'[p] = o.i
        BY <2>1, <2>3, <4>1
      <4>2. CASE child'[p] = child[p]
        <5>1. child[p] \in Inos /\ typ[child[p]] # "none"
          BY <3>1, <4>2 DEF IInv, TypeOK, IInvMade, OnlyMade
        <5> QED BY <2>1, <2>3, <4>2, <5>1
      <4> QED BY <2>5, <4>1, <4>2
    <3>2. ASSUME NEW d \in Clients PROVE OpMade(op[d])'
      BY <2>1, <2>2, <2>3, <2>7, NoOpMade DEF IInvMade, OnlyMade, OpMade
    <3> QED BY <3>1, <3>2 DEF OnlyMade
  <2>14. DescribedIsKept'
    <3>1. \A d \in Clients : op[d].kind = "purge" => op[d].i # o.i
      BY <2>1 DEF IInvMade, OnlyMade, OpMade
    <3> QED BY <2>2, <2>4, <2>9, <3>1, NoOpMade DEF IInvMade, DescribedIsKept
  <2> QED BY <2>10, <2>11, <2>12, <2>13, <2>14 DEF IInvMade
<1> QED BY <1>1, <1>2 DEF Make

\* Linking or opening names an inode that was made.
LEMMA AddExistingMade ==
    ASSUME IInv, IInvMade, NEW c \in Clients, NEW kind \in {"link", "open"},
           AddExisting(c, kind)
    PROVE  IInvMade'
<1> DEFINE o == op[c]
<1>1. CASE Return(c, NoOp)
  BY <1>1, FailMade
<1>2. CASE /\ Commit(c, {<<o.p, o.i>>}, {}, {}, {})
           /\ Continue(c, NoOp)
           /\ UNCHANGED <<attrs, typ, next, crashes>>
  <2>1. typ[o.i] # "none" /\ pc[c] = "run"
    BY DEF AddExisting, Running, IInvMade, OnlyMade, OpMade
  <2>2. \A e \in {<<o.p, o.i>>} : typ[e[2]] # "none"
    BY <2>1
  <2> HIDE DEF o
  <2> QED BY <1>2, <2>1, <2>2, NoOpMade, CommitMade
<1> QED BY <1>1, <1>2 DEF AddExisting

\* The inode whose entry is deleted was made.
LEMMA DeletedMade ==
    ASSUME IInv, IInvMade, NEW c \in Clients, pc[c] = "run", NEW put, NEW p \in Places,
           snap[c].child[p] # NoIno,
           Commit(c, put, {<<p, snap[c].child[p]>>}, {}, {})
    PROVE  child[p] = snap[c].child[p] /\ typ[snap[c].child[p]] # "none"
<1>1. snap[c].child[p] = child[p]
  <2> DEFINE e == <<p, snap[c].child[p]>>
  <2>1. e \in {<<p, snap[c].child[p]>>} /\ e[1] = p
    OBVIOUS
  <2> HIDE DEF e
  <2> QED BY <2>1, ReadIsCurrent
<1> QED BY <1>1 DEF IInvMade, OnlyMade

\* An unlink goes on to check the inode whose entry it deleted.
LEMMA RemoveMade ==
    ASSUME IInv, IInvMade, NEW c \in Clients, NEW kind \in {"unlink", "close"},
           Remove(c, kind)
    PROVE  IInvMade'
<1> DEFINE p == op[c].p
           i == snap[c].child[p]
           o == IF kind = "unlink" THEN [NoOp EXCEPT !.kind = "check", !.i = i] ELSE NoOp
<1>1. CASE Return(c, NoOp)
  BY <1>1, FailMade
<1>2. CASE /\ i # NoIno
           /\ Commit(c, {}, {<<p, i>>}, {}, {})
           /\ Continue(c, o)
           /\ UNCHANGED <<attrs, typ, next, crashes>>
  <2>1. p \in Places /\ pc[c] = "run"
    BY DEF IInv, TypeOK, Operation, Remove, Running
  <2>2. i \in Inos
    BY <1>2, <2>1 DEF IInv, TypeOK, Snapshot
  <2>3. typ[i] # "none"
    <3> HIDE DEF p
    <3> QED BY <1>2, <2>1, DeletedMade
  <2>4. o \in Operation /\ (o = NoOp \/ (o.kind = "check" /\ o.i = i))
    BY <2>2, NoOpTypes DEF Operation, Kinds, NoOp
  <2>5. OpMade(o) /\ o.kind # "make" /\ o.kind # "purge"
    BY <2>3, <2>4, NoOpMade DEF OpMade
  <2> HIDE DEF p, i, o
  <2> QED BY <1>2, <2>1, <2>4, <2>5, CommitMade
<1> QED BY <1>1, <1>2 DEF Remove

\* Removing a directory makes nothing.
LEMMA RemoveDirectoryMade ==
    ASSUME IInv, IInvMade, NEW c \in Clients, RemoveDirectory(c)
    PROVE  IInvMade'
<1> DEFINE p == op[c].p
           i == snap[c].child[p]
<1>1. CASE Return(c, NoOp)
  BY <1>1, FailMade
<1>2. CASE /\ Commit(c, {}, {<<p, i>>}, {}, {})
           /\ Continue(c, NoOp)
           /\ UNCHANGED <<attrs, typ, next, crashes>>
  <2>1. pc[c] = "run"
    BY DEF RemoveDirectory, Running
  <2> HIDE DEF p, i
  <2> QED BY <1>2, <2>1, NoOpMade, CommitMade
<1> QED BY <1>1, <1>2 DEF RemoveDirectory

\* A rename moves the inode it found, which is still there.
LEMMA RenameMade ==
    ASSUME IInv, IInvMade, NEW c \in Clients, Rename(c)
    PROVE  IInvMade'
<1> DEFINE p == op[c].p
           q == op[c].q
           i == snap[c].child[p]
           put == IF snap[c].child[q] # NoIno THEN {} ELSE {<<q, i>>}
<1>1. CASE Return(c, NoOp)
  BY <1>1, FailMade
<1>2. CASE /\ i # NoIno
           /\ Commit(c, put, {<<p, i>>}, {}, {})
           /\ Continue(c, NoOp)
           /\ UNCHANGED <<attrs, typ, next, crashes>>
  <2>1. p \in Places /\ pc[c] = "run"
    BY DEF IInv, TypeOK, Operation, Rename, Running
  <2>2. typ[i] # "none"
    <3> HIDE DEF p, put
    <3> QED BY <1>2, <2>1, DeletedMade
  <2>3. \A e \in put : typ[e[2]] # "none"
    BY <2>2
  <2> HIDE DEF p, q, i, put
  <2> QED BY <1>2, <2>1, <2>3, NoOpMade, CommitMade
<1> QED BY <1>1, <1>2 DEF Rename

\* The inode that will be purged has lost its description.
LEMMA CheckForDeleteMade ==
    ASSUME IInv, IInvMade, NEW c \in Clients, CheckForDelete(c)
    PROVE  IInvMade'
<1> DEFINE o == [op[c] EXCEPT !.kind = "purge"]
<1>1. CASE Return(c, NoOp)
  BY <1>1, FailMade
<1>2. CASE /\ Commit(c, {}, {}, {}, {op[c].i})
           /\ Continue(c, o)
           /\ UNCHANGED <<attrs, typ, next, crashes>>
  <2>1. op[c] \in Operation /\ pc[c] = "run" /\ typ[op[c].i] # "none"
    BY DEF IInv, TypeOK, CheckForDelete, Running, IInvMade, OnlyMade, OpMade
  <2>2. o \in Operation /\ o.kind = "purge" /\ o.i = op[c].i
    BY <2>1 DEF Operation, Kinds
  <2>3. OpMade(o)
    BY <2>1, <2>2 DEF OpMade
  <2> HIDE DEF o
  <2> QED BY <1>2, <2>1, <2>2, <2>3, CommitMade
<1> QED BY <1>1, <1>2 DEF CheckForDelete

\* A purge deletes what has no description any more.
LEMMA PurgeMade ==
    ASSUME IInv, IInvMade, NEW c \in Clients, Purge(c)
    PROVE  IInvMade'
<1>1. desc' \subseteq desc /\ desc' \subseteq attrs'
  BY DEF Purge, IInvMade, DescribedIsKept
<1>2. \A p \in Places : child'[p] # NoIno => typ[child'[p]] # "none"
  BY DEF Purge, IInvMade, OnlyMade
<1>3. \A d \in Clients \ {c} : pc[d] = "run" => dirty[d] \subseteq dirty'[d]
  BY DEF Purge
<1>4. Continue(c, NoOp) /\ UNCHANGED <<typ, next>>
  BY DEF Purge
<1> QED BY <1>1, <1>2, <1>3, <1>4, NoOpMade, KeepStep

\* A call names inodes that were made, and purges nothing.
LEMMA CallMade ==
    ASSUME IInv, IInvMade, NEW c \in Clients, NEW o \in Operation, OpMade(o),
           o.kind # "make", o.kind # "purge", Call(c, o)
    PROVE  IInvMade'
BY KeepQuiet DEF Call

\* Every call keeps the second layer.
LEMMA CallsMade ==
    ASSUME IInv, IInvMade, NEW c \in Clients, Calls(c)
    PROVE  IInvMade'
<1> USE NoOpTypes DEF Operation, OpMade, Kinds, Types, Places
<1>1. CASE CallMount(c)
  BY <1>1, CallMade DEF CallMount
<1>2. ASSUME NEW p \in TreePlaces, NEW t \in {"file", "dir"}, CallCreate(c, p, t)
      PROVE  IInvMade'
  BY <1>2, CallMade DEF CallCreate
<1>3. ASSUME NEW p \in TreePlaces, NEW i \in Inos, CallLink(c, p, i)
      PROVE  IInvMade'
  BY <1>3, CallMade DEF CallLink
<1>4. ASSUME NEW p \in TreePlaces, NEW kind \in {"unlink", "rmdir"}, CallRemove(c, p, kind)
      PROVE  IInvMade'
  BY <1>4, CallMade DEF CallRemove
<1>5. ASSUME NEW p \in TreePlaces, NEW q \in TreePlaces, CallRename(c, p, q)
      PROVE  IInvMade'
  BY <1>5, CallMade DEF CallRename
<1>6. ASSUME NEW p \in OpenPlaces, NEW i \in Inos, CallOpen(c, p, i)
      PROVE  IInvMade'
  BY <1>6, CallMade DEF CallOpen
<1>7. ASSUME NEW p \in OpenPlaces, CallClose(c, p)
      PROVE  IInvMade'
  <2>1. child[p] \in Inos
    BY <1>7 DEF CallClose, IInv, TypeOK
  <2> QED BY <1>7, <2>1, CallMade DEF CallClose
<1> QED BY <1>1, <1>2, <1>3, <1>4, <1>5, <1>6, <1>7 DEF Calls

-----------------------------------------------------------------------------

\* The initial store has used the number of the root directory or none.
LEMMA InitMade == Init => IInvMade
<1> SUFFICES ASSUME Init PROVE IInvMade
  OBVIOUS
<1>1. ROOT_INODE \in Inos /\ ROOT_INODE < FIRST_DATA_INODE
  BY DEF Inos, ROOT_INODE, FIRST_DATA_INODE
<1>2. SnapshotMatches /\ InodeNumbersUnique
  BY DEF Init, SnapshotMatches, InodeNumbersUnique, NoOp
<1>3. NumbersHanded
  BY <1>1 DEF Init, NumbersHanded, NoOp
<1>4. OnlyMade
  <2>1. \A p \in Places : child[p] # NoIno => typ[child[p]] # "none"
    BY <1>1 DEF Init
  <2> QED BY <2>1, NoOpMade DEF Init, OnlyMade
<1>5. DescribedIsKept
  BY DEF Init, DescribedIsKept, NoOp
<1> QED BY <1>2, <1>3, <1>4, <1>5 DEF IInvMade

\* Every step preserves both layers of the inductive invariant.
LEMMA NextMade == IInv /\ IInvMade /\ [Next]_vars => (IInv /\ IInvMade)'
<1> SUFFICES ASSUME IInv, IInvMade, [Next]_vars PROVE (IInv /\ IInvMade)'
  OBVIOUS
<1>1. IInv'
  BY NextInv
<1>2. ASSUME NEW c \in Clients, Calls(c) PROVE IInvMade'
  BY <1>2, CallsMade
<1>3. ASSUME NEW c \in Clients, Steps(c) PROVE IInvMade'
  BY <1>3, StartMade, RetryMade, ReserveMade, MakeMade, AddExistingMade, RemoveMade,
     CheckForDeleteMade, PurgeMade, RemoveDirectoryMade, RenameMade DEF Steps
<1>4. ASSUME NEW c \in Clients, Crash(c) PROVE IInvMade'
  BY <1>4, CrashMade
<1>5. ASSUME UNCHANGED vars PROVE IInvMade'
  BY <1>5 DEF vars, IInvMade, SnapshotMatches, NumbersHanded, InodeNumbersUnique,
     OnlyMade, OpMade, DescribedIsKept
<1> QED BY <1>1, <1>2, <1>3, <1>4, <1>5 DEF Next

\* meta_mutable_reserve_new_ino hands out every inode number once, on an empty
\* store too, however many mounts and creations race for it.
THEOREM NumbersUnique == Spec => []InodeNumbersUnique
<1>1. IInvMade => InodeNumbersUnique
  BY DEF IInvMade
<1> QED BY <1>1, InitInv, InitMade, NextMade, PTL DEF Spec

\* A described inode has its attributes, size and blocks, and nobody is about
\* to purge them.
THEOREM DescribedKept == Spec => []DescribedIsKept
<1>1. IInvMade => DescribedIsKept
  BY DEF IInvMade
<1> QED BY <1>1, InitInv, InitMade, NextMade, PTL DEF Spec

-----------------------------------------------------------------------------
(***************************************************************************)
(* What a deletion may delete.                                             *)
(***************************************************************************)

\* The links that the check for usages did not see were committed while it
\* was running.
LEMMA UncheckedIsDirty ==
    ASSUME IInv, IInvMade, NEW c \in Clients, pc[c] = "run", NEW i \in Inos,
           {l \in snap[c].links : l[1] = i} = {},
           NEW p \in Places, <<i, p>> \in links
    PROVE  <<"child", p>> \in dirty[c]
<1>1. <<i, p>> \notin snap[c].links
  OBVIOUS
<1>2. snap[c].child[p] # i
  BY <1>1 DEF IInvMade, SnapshotMatches
<1>3. child[p] = i
  BY DEF IInv, LinkSymmetry
<1> QED BY <1>2, <1>3 DEF IInv, SnapshotCurrent

\* Only the check for deletion deletes a description.
LEMMA OnlyCheckDeletes ==
    ASSUME IInv, IInvMade, [Next]_vars, NEW i \in Inos, i \in desc, i \notin desc'
    PROVE  \E c \in Clients :
               /\ Running(c, "check") /\ op[c].i = i
               /\ {l \in snap[c].links : l[1] = i} = {}
<1>1. ASSUME NEW c \in Clients, NEW put, NEW del, NEW made, Commit(c, put, del, made, {})
      PROVE  FALSE
  BY <1>1 DEF Commit
<1>2. desc' # desc
  OBVIOUS
<1>3. ASSUME NEW c \in Clients, NEW o, Return(c, o) PROVE FALSE
  BY <1>2, <1>3 DEF Return, store
<1>4. ASSUME NEW c \in Clients, Calls(c) PROVE FALSE
  BY <1>2, <1>4 DEF Calls, CallMount, CallCreate, CallLink, CallOpen, CallClose,
     CallRemove, CallRename, Call, store
<1>5. ASSUME NEW c \in Clients, Crash(c) PROVE FALSE
  BY <1>2, <1>5 DEF Crash, store
<1>6. ASSUME NEW c \in Clients, Start(c) \/ Reserve(c) PROVE FALSE
  BY <1>2, <1>6 DEF Start, Reserve, store
<1>7. ASSUME NEW c \in Clients, Retry(c) \/ Make(c) PROVE FALSE
  BY <1>1, <1>3, <1>7 DEF Retry, Make
<1>8. ASSUME NEW c \in Clients, NEW kind, AddExisting(c, kind) \/ Remove(c, kind)
      PROVE  FALSE
  BY <1>1, <1>3, <1>8 DEF AddExisting, Remove
<1>9. ASSUME NEW c \in Clients, RemoveDirectory(c) \/ Rename(c) PROVE FALSE
  BY <1>1, <1>3, <1>9 DEF RemoveDirectory, Rename
<1>10. ASSUME NEW c \in Clients, Purge(c) PROVE FALSE
  BY <1>10 DEF Purge, IInvMade, DescribedIsKept
<1>11. ASSUME NEW c \in Clients, CheckForDelete(c)
       PROVE  /\ Running(c, "check") /\ op[c].i = i
              /\ {l \in snap[c].links : l[1] = i} = {}
  <2>1. Running(c, "check")
    BY <1>11 DEF CheckForDelete
  <2>2. /\ {l \in snap[c].links : l[1] = op[c].i} = {}
        /\ Commit(c, {}, {}, {}, {op[c].i})
    BY <1>3, <1>11 DEF CheckForDelete
  <2>3. desc' = desc \ {op[c].i}
    BY <2>2 DEF Commit
  <2> QED BY <2>1, <2>2, <2>3
<1>12. PICK c \in Clients : Calls(c) \/ Steps(c) \/ Crash(c)
  BY <1>2 DEF Next, vars
<1>13. CheckForDelete(c)
  BY <1>4, <1>5, <1>6, <1>7, <1>8, <1>9, <1>10, <1>12 DEF Steps
<1> QED BY <1>11, <1>13

\* inode_check_for_delete_and_delete_atomically_description deletes only the
\* description of an inode that had no link when its transaction started.
THEOREM DeletedUnlinked == Spec => DeletedWasUnlinked
<1>1. ASSUME IInv, IInvMade, [Next]_vars,
             NEW i \in Inos, i \in desc /\ i \notin desc'
      PROVE  \E c \in Clients :
                 /\ Running(c, "check")
                 /\ op[c].i = i
                 /\ \A p \in Places : <<i, p>> \in links => <<"child", p>> \in dirty[c]
  <2>1. PICK c \in Clients :
                 /\ Running(c, "check") /\ op[c].i = i
                 /\ {l \in snap[c].links : l[1] = i} = {}
    BY <1>1, OnlyCheckDeletes
  <2>2. pc[c] = "run"
    BY <2>1 DEF Running
  <2>3. \A p \in Places : <<i, p>> \in links => <<"child", p>> \in dirty[c]
    BY <1>1, <2>1, <2>2, UncheckedIsDirty
  <2> QED BY <2>1, <2>3
<1>2. IInv /\ IInvMade /\ [Next]_vars =>
        [\A i \in Inos : i \in desc /\ i \notin desc' =>
          \E c \in Clients :
              /\ Running(c, "check")
              /\ op[c].i = i
              /\ \A p \in Places : <<i, p>> \in links => <<"child", p>> \in dirty[c]]_vars
  BY <1>1
<1> QED BY <1>2, InitInv, InitMade, NextMade, PTL DEF Spec, DeletedWasUnlinked

\* A client that stops running has taken the step itself.
LEMMA OwnStep ==
    ASSUME IInv, [Next]_vars, NEW c \in Clients, Running(c, "rmdir"), pc'[c] # "run"
    PROVE  RemoveDirectory(c) \/ Retry(c) \/ Crash(c)
<1>1. pc[c] = "run" /\ op[c].kind = "rmdir" /\ pc \in [Clients -> {"idle", "ready", "run"}]
  BY DEF Running, IInv, TypeOK
<1>2. PICK d \in Clients : Calls(d) \/ Steps(d) \/ Crash(d)
  BY <1>1 DEF Next, vars
<1>3. ASSUME d # c, NEW o, Continue(d, o) PROVE FALSE
  BY <1>1, <1>3 DEF Continue
<1>4. CASE Calls(d)
  BY <1>1, <1>3, <1>4 DEF Calls, CallMount, CallCreate, CallLink, CallOpen, CallClose,
     CallRemove, CallRename, Call
<1>5. CASE Crash(d)
  BY <1>3, <1>5 DEF Crash
<1>6. CASE Start(d)
  BY <1>1, <1>6 DEF Start
<1>7. CASE Reserve(d) \/ Purge(d) \/ Retry(d)
  BY <1>1, <1>3, <1>7 DEF Reserve, Running, Purge, Retry, Return
<1>8. CASE Make(d) \/ CheckForDelete(d)
  BY <1>1, <1>3, <1>8 DEF Make, CheckForDelete, Running, Return
<1>9. CASE \E kind \in {"link", "open"} : AddExisting(d, kind)
  BY <1>1, <1>3, <1>9 DEF AddExisting, Running, Return
<1>10. CASE \E kind \in {"unlink", "close"} : Remove(d, kind)
  BY <1>1, <1>3, <1>10 DEF Remove, Running, Return
<1>11. CASE RemoveDirectory(d) \/ Rename(d)
  BY <1>1, <1>3, <1>11 DEF RemoveDirectory, Rename, Running, Return
<1> QED BY <1>2, <1>4, <1>5, <1>6, <1>7, <1>8, <1>9, <1>10, <1>11 DEF Steps

\* directory_remove_child_empty_directory removes only a directory that was
\* empty when its transaction started.
THEOREM RemovedEmpty == Spec => RemovedWasEmpty
<1>1. ASSUME IInv, [Next]_vars, NEW c \in Clients,
             Running(c, "rmdir") /\ pc'[c] # "run" /\ child'[op[c].p] # child[op[c].p]
      PROVE  \A n \in Names :
                 child[<<child[op[c].p], n>>] # NoIno =>
                     <<"child", <<child[op[c].p], n>>>> \in dirty[c]
  <2> DEFINE p == op[c].p
             i == snap[c].child[p]
  <2>1. p \in Places /\ pc[c] = "run"
    BY <1>1 DEF IInv, TypeOK, Operation, Running
  <2>2. child' # child
    BY <1>1
  <2>3. RemoveDirectory(c)
    BY <1>1, <2>2, OwnStep DEF Retry, Return, Crash, store
  <2>4. /\ i # NoIno
        /\ \A n \in Names : snap[c].child[<<i, n>>] = NoIno
        /\ Commit(c, {}, {<<p, i>>}, {}, {})
    BY <2>2, <2>3 DEF RemoveDirectory, Return, store
  <2>5. child[p] = i
    <3> DEFINE e == <<p, i>>
    <3>1. e \in {<<p, i>>} /\ e[1] = p
      OBVIOUS
    <3> HIDE DEF e, p
    <3> QED BY <1>1, <2>1, <2>4, <3>1, ReadIsCurrent
  <2>6. i \in Inos
    BY <1>1, <2>1, <2>4 DEF IInv, TypeOK, Snapshot
  <2>7. \A n \in Names : <<i, n>> \in Places
    BY <2>6 DEF Places, TreePlaces
  <2> HIDE DEF p, i
  <2>8. \A n \in Names : child[<<i, n>>] # NoIno => <<"child", <<i, n>>>> \in dirty[c]
    BY <1>1, <2>1, <2>4, <2>7 DEF IInv, SnapshotCurrent
  <2> QED BY <2>5, <2>8 DEF p
<1>2. IInv /\ [Next]_vars =>
        [\A c \in Clients :
          LET p == op[c].p IN
          Running(c, "rmdir") /\ pc'[c] # "run" /\ child'[p] # child[p] =>
              \A n \in Names :
                  child[<<child[p], n>>] # NoIno => <<"child", <<child[p], n>>>> \in dirty[c]]_vars
  BY <1>1
<1> QED BY <1>2, InitInv, NextInv, PTL DEF Spec, RemovedWasEmpty

=============================================================================
