--------------------------- MODULE DirectoryStore ---------------------------
(***************************************************************************)
(* Directories as they lie in the store and as the kernel sees them: a     *)
(* readdir in pages and lookups, beside changes of the tree, and a mkdir   *)
(* in the directory of the snapshots, which copies the tree of the root.   *)
(* All of it works on the keys of StoreKeys.                               *)
(*                                                                         *)
(* A step is a transaction that was committed.  What two transactions that *)
(* overlap do to each other is in InodeTree and HashedBlocks.  An          *)
(* operation whose next request fails for good, or whose mount ends, takes *)
(* no further step.  Programs work in the tree of the root: nothing keeps  *)
(* them from writing into a snapshot (the README of the program says that  *)
(* there is no write-protection yet), but what they do there is not        *)
(* modelled.                                                               *)
(***************************************************************************)
EXTENDS StoreKeys, Functions, TLC

CONSTANTS
    Names,         \* names that programs give to new entries, as bytes
    SnapName,      \* the name of the snapshots that are made
    UseName,       \* the name under which the open file is linked: its use_id
    Dot, HashEnd, HashesEnd,   \* ".", and what follows it in ".@hash", ".@hashes"
    SnapshotsName, OpenedName, \* ".@snapshots" and ".@opened_inodes"
    ScanLimit,     \* MAX_TIKV_SCAN_LIMIT
    MaxPage,       \* bound: entries that fit in the kernel's buffer
    Spans,         \* the first and the last block of the writes that are made
    MaxCalls,      \* bound: changes of the tree by programs, and calls of
                   \* mkdir for a snapshot
    MaxBeside,     \* bound: changes that can still begin when a readdir begins
    MaxHalf,       \* bound: changes that are half done then
    MaxIno,        \* bound: the last inode number that is handed out, far below
                   \* the end of u64
    MaxFaults      \* bound: commits that fail or are unclear

ROOT_INODE == 1
OPENED_INODE_PARENT_INODE == 2
SNAPSHOT_PARENT_INODE == 3
FIRST_DATA_INODE == 10

IsName(name) == name \in Seq(0..(Base - 1))

ASSUME DirectoryStoreAssumption ==
    /\ Base >= 16 /\ MaxIno \in Nat /\ MaxIno + 1 < WordValues /\ Base <= MaxIno
    /\ {Dot, HashEnd, HashesEnd} \subseteq 0..(Base - 1) /\ HashEnd # HashesEnd
    /\ \A name \in Names \cup {SnapName, UseName, SnapshotsName, OpenedName} : IsName(name)
    /\ SnapshotsName # OpenedName
    /\ ScanLimit \in Nat /\ ScanLimit >= 2
    /\ MaxPage \in Nat /\ \A s \in Spans : s \in Nat \X Nat /\ s[2] + 1 < WordValues
    /\ MaxCalls \in Nat /\ MaxBeside \in Nat /\ MaxHalf \in Nat /\ MaxFaults \in Nat

VARIABLES
    store,      \* TiKV: key -> value
    links,      \* the links that were made and not removed
    reserved,   \* inode numbers that a program has reserved for a new entry
    unlinked,   \* items of removed entries, before the check of their inodes
    doomed,     \* items whose inode has lost its description and is cleared
    writing,    \* writes of which the size is still to be put
    snap,       \* the snapshot under way
    taken,      \* finished snapshots: their directory and the store then
    listing,    \* the readdir under way
    changes, snaps, faults

progs == <<reserved, unlinked, doomed, writing>>
vars == <<store, links, progs, snap, taken, listing, changes, snaps, faults>>

Pair(key, value) == [k \in {key} |-> value]
Put(s, pairs) ==
    [k \in DOMAIN s \cup DOMAIN pairs |-> IF k \in DOMAIN pairs THEN pairs[k] ELSE s[k]]
Drop(s, keys) == Restrict(s, DOMAIN s \ keys)
Get(s, key) == IF key \in DOMAIN s THEN {s[key]} ELSE {}
NoPairs == <<>>

\* The pairs of a sequence of puts: the last one for a key counts.
LastPut(S, k) ==
    CHOOSE i \in DOMAIN S : k \in DOMAIN S[i] /\ \A j \in DOMAIN S : k \in DOMAIN S[j] => j <= i
Merge(S) == [k \in UNION {DOMAIN S[i] : i \in DOMAIN S} |-> S[LastPut(S, k)][k]]

Item(ino, typ) == [ino |-> ino, typ |-> typ]
Link(dir, name, ino) == [dir |-> dir, name |-> name, ino |-> ino]

\* directory_add_child_link_unchecked
LinkPairs(dir, name, item) ==
    Put(Pair(parent_link(item.ino, dir, name), <<>>), Pair(directory_child(dir, name), item))

\* directory_remove_child_links_unchecked
LinkEnds(dir, name, item) == {directory_child(dir, name), parent_link(item.ino, dir, name)}

\* What directory_add_child_checked_new_inode puts for a new inode.
InodePairs(ino, typ, attr) ==
    Put(Put(Pair(inode_x(ino, "Description"), Item(ino, typ)),
            Pair(inode_x(ino, "UnixAttributes"), attr)),
        Pair(inode_x(ino, "Size"), 0))

\* directory_scan_for_children
Children(s, dir) ==
    LET keys == Scan(DOMAIN s, directory_child_range(dir), ScanLimit)
    IN [i \in 1..Len(keys) |-> [name |-> parse_directory_child(keys[i]).name,
                                ino |-> s[keys[i]].ino, typ |-> s[keys[i]].typ]]

\* hb_get_block_hash_list_by_block_range: index -> hash
BlockHashes(s, ino, start, end) ==
    LET keys == Scan(DOMAIN s, block_hash_range(ino, start, end), end - start)
        mine == {k \in ToSet(keys) : parse_key_block_address(k).ino = ino}
    IN [i \in {parse_key_block_address(k).index : k \in mine} |-> s[block_hash(ino, i)]]

-----------------------------------------------------------------------------
(***************************************************************************)
(* What the kernel sees                                                    *)
(***************************************************************************)
Kinds == <<"Regular", "Hash", "Hashes">>
LOGICAL_INO_FACTOR == 8

to_raw(ino, kind) == ROOT_INODE + (ino - 1) * LOGICAL_INO_FACTOR + IdOf(Kinds, kind)

from_raw(raw) ==
    LET r == raw - ROOT_INODE
        id == r % LOGICAL_INO_FACTOR
    IN [ino |-> 1 + r \div LOGICAL_INO_FACTOR,
        kind |-> IF HasId(Kinds, id) THEN ById(Kinds, id) ELSE "Regular"]

DirItem(ino, kind, name) == [raw |-> to_raw(ino, kind), name |-> name]

HashName(name, end) == <<Dot>> \o name \o <<Dot, end>>

\* The entries of a child: a file has two hash files beside it.
DirItems(i) ==
    (IF i.typ = "File"
     THEN << DirItem(i.ino, "Hash", HashName(i.name, HashEnd)),
             DirItem(i.ino, "Hashes", HashName(i.name, HashesEnd)) >>
     ELSE <<>>) \o << DirItem(i.ino, "Regular", i.name) >>

\* The two directories that the root shows beside its own entries.
BesideTree == << DirItem(OPENED_INODE_PARENT_INODE, "Regular", OpenedName),
                 DirItem(SNAPSHOT_PARENT_INODE, "Regular", SnapshotsName) >>

read_dir1(s, dir) ==
    LET children == Children(s, dir)
        own == FlattenSeq([i \in 1..Len(children) |-> DirItems(children[i])])
    IN IF dir = ROOT_INODE THEN own \o BesideTree ELSE own

IsHashName(name, end) ==
    /\ Len(name) > 1 /\ name[1] = Dot
    /\ name[Len(name) - 1] = Dot /\ name[Len(name)] = end

\* The two directories beside the tree have no names of hash files.
ASSUME SpecialNamesAssumption ==
    \A name \in {SnapshotsName, OpenedName} : \A end \in {HashEnd, HashesEnd} : ~IsHashName(name, end)

\* The slice 1 .. len - end: a name that is nothing but the end panics.
Inner(name) == IF Len(name) < 3 THEN {} ELSE {SubSeq(name, 2, Len(name) - 2)}

\* Mutant: ".@hashes" is not known.
MutParseFilename(name) ==
    CASE IsHashName(name, HashEnd) -> [names |-> Inner(name), kind |-> "Hash"]
      [] OTHER -> [names |-> {name}, kind |-> "Regular"]

parse_filename(name) ==
    CASE IsHashName(name, HashEnd) -> [names |-> Inner(name), kind |-> "Hash"]
      [] IsHashName(name, HashesEnd) -> [names |-> Inner(name), kind |-> "Hashes"]
      [] OTHER -> [names |-> {name}, kind |-> "Regular"]

\* inode_get_all_attributes: all of them must be there.
AllAttributes(s, ino) ==
    \A m \in {"Description", "UnixAttributes", "Size"} : inode_x(ino, m) \in DOMAIN s

\* lookup: the inode numbers it may answer, none for an error.
lookup(s, dir, name) ==
    IF dir = ROOT_INODE /\ name \in {OpenedName, SnapshotsName}
    THEN {to_raw(IF name = OpenedName THEN OPENED_INODE_PARENT_INODE
                                      ELSE SNAPSHOT_PARENT_INODE, "Regular")}
    ELSE LET parsed == parse_filename(name)
             items == UNION {Get(s, directory_child(dir, n)) : n \in parsed.names}
         IN {to_raw(s[inode_x(i.ino, "Description")].ino, parsed.kind) :
                i \in {j \in items : AllAttributes(s, j.ino)}}

-----------------------------------------------------------------------------
(***************************************************************************)
(* At first the root has a file a, a symlink c and a directory d with      *)
(* another file b.  A program has opened a.  Keys of other kinds are there *)
(* too: the states of two locks, uses of the file, a block of data with    *)
(* its counter.                                                            *)
(***************************************************************************)
Uuids == {[i \in 1..UuidLen |-> 0], [i \in 1..UuidLen |-> Base - 1]}
Hash1 == [i \in 1..HashLen |-> Base - 1]
Hash2 == [i \in 1..HashLen |-> 0]
LockKeys == {hashed_block(Hash1), hashed_block(Hash2)}

a == 5
b == 12
c == 7
d == 8
DirD == FIRST_DATA_INODE
LinkC == DirD + 1
FileB == LinkC + 1
FileA == Base - 1
LiveDirs == {ROOT_INODE, DirD}
TreeDirs == LiveDirs \cup {OPENED_INODE_PARENT_INODE}

InitLinks == { Link(ROOT_INODE, <<a>>, FileA), Link(ROOT_INODE, <<c>>, LinkC),
               Link(ROOT_INODE, <<d>>, DirD), Link(DirD, <<b>>, FileB),
               Link(OPENED_INODE_PARENT_INODE, UseName, FileA) }

OtherPairs ==
    Merge(<< [k \in {key_lock_state(l, u) : l \in LockKeys, u \in Uuids} |-> 0],
             [k \in {opened_inode(FileA, u) : u \in Uuids} |-> 0],
             Pair(meta_static, 0),
             Pair(hashed_block(Hash1), "data"), Pair(hashed_block_exists(Hash1), 0),
             Pair(named_hashed_block_x(Hash1, "CCountedNamedUsages"), 2) >>)

NoSnap == [pc |-> "idle", at |-> NoPairs, ino |-> 0, jobs |-> <<>>, mapping |-> <<>>,
           left |-> {}, todo |-> <<>>, lossy |-> FALSE]
NoListing == [dir |-> 0, offset |-> 0, seen |-> <<>>, kept |-> {},
              added |-> FALSE, removed |-> FALSE, done |-> FALSE]

Init ==
    /\ links = InitLinks
    /\ store = Merge(<< OtherPairs,
                        LinkPairs(ROOT_INODE, <<a>>, Item(FileA, "File")),
                        LinkPairs(ROOT_INODE, <<c>>, Item(LinkC, "Symlink")),
                        LinkPairs(ROOT_INODE, <<d>>, Item(DirD, "Directory")),
                        LinkPairs(DirD, <<b>>, Item(FileB, "File")),
                        LinkPairs(OPENED_INODE_PARENT_INODE, UseName, Item(FileA, "File")),
                        InodePairs(ROOT_INODE, "Directory", "attr"),
                        InodePairs(DirD, "Directory", "attr"),
                        InodePairs(FileA, "File", "attr"),
                        InodePairs(FileB, "File", "attr"),
                        InodePairs(LinkC, "Symlink", "attr"),
                        Pair(inode_x(LinkC, "InlineData"), "target"),
                        Pair(inode_x(FileA, "Size"), 1), Pair(inode_x(FileB, "Size"), 1),
                        Pair(block_hash(FileA, 0), Hash1), Pair(block_hash(FileB, 0), Hash1),
                        Pair(meta, Base) >>)
    /\ reserved = {} /\ unlinked = {} /\ doomed = {} /\ writing = {}
    /\ snap = NoSnap /\ taken = {}
    /\ listing = NoListing
    /\ changes = 0 /\ snaps = 0 /\ faults = 0

-----------------------------------------------------------------------------
(***************************************************************************)
(* Changes of the tree by programs                                         *)
(***************************************************************************)

\* What a readdir that is under way still has to show: not what is gone or
\* beyond the limit of the scan, and not the two directories behind a scan
\* that is cut short, which come earlier when it loses a file by an addition.
Overfull(s, dir) == Cardinality({k \in DOMAIN s : InRange(k, directory_child_range(dir))}) > ScanLimit
Lasting(s, dir) ==
    {e \in ToSet(read_dir1(s, dir)) : Overfull(s, dir) => e \notin ToSet(BesideTree)}

\* What a change is to the readdir that is under way: entries were added to
\* some directories and removed from others.  A removal from a directory
\* beyond the limit lets an entry in that was hidden before.
Observe(adds, dels) ==
    listing' = IF listing.dir \in adds \cup dels /\ ~listing.done
               THEN [listing EXCEPT !.kept = @ \cap Lasting(store', listing.dir),
                                    !.added = \/ @ \/ listing.dir \in adds
                                              \/ listing.dir \in dels /\ Overfull(store, listing.dir),
                                    !.removed = @ \/ listing.dir \in dels]
               ELSE listing

CallsLeft == changes + snaps < MaxCalls
Change == CallsLeft /\ changes' = changes + 1

Writes(pairs) == store' = Put(store, pairs)
Deletes(keys) == store' = Drop(store, keys)

\* Mutant: one inode number is reserved, whatever was asked for.
MutReserve(s, count) == Pair(meta, s[meta] + 1)

\* meta_mutable_reserve_new_inos
Reserve(s, count) == Pair(meta, s[meta] + count)

NumbersLeft == store'[meta] <= MaxIno

\* reserve_new_inos; a commit that was applied and is repeated wastes some.
Reserved(count, ino) ==
    \/ /\ ino = store[meta]
       /\ Writes(Reserve(store, count)) /\ NumbersLeft
       /\ UNCHANGED faults
    \/ /\ faults < MaxFaults /\ faults' = faults + 1
       /\ LET wasted == Put(store, Reserve(store, count)) IN
            ino = wasted[meta] /\ Writes(Reserve(wasted, count)) /\ NumbersLeft

\* mknod, create, mkdir and symlink begin with the number of the new inode.
ReserveNew ==
    /\ Change
    /\ \E ino \in store[meta]..(store[meta] + 1) :
        Reserved(1, ino) /\ reserved' = reserved \cup {ino}
    /\ UNCHANGED <<links, unlinked, doomed, writing, snap, taken, listing, snaps>>

\* directory_add_child_checked_new_inode: the number is wasted when the name
\* is taken.  The target of a symlink is inline data.
AddChild(ino, dir, name, typ) ==
    /\ ino \in reserved /\ reserved' = reserved \ {ino}
    /\ \/ /\ directory_child(dir, name) \in DOMAIN store
          /\ UNCHANGED <<store, links, listing>>
       \/ /\ directory_child(dir, name) \notin DOMAIN store
          /\ store' = Put(Put(Put(store, InodePairs(ino, typ, "new")),
                              IF typ = "Symlink" THEN Pair(inode_x(ino, "InlineData"), "target")
                                                 ELSE NoPairs),
                          LinkPairs(dir, name, Item(ino, typ)))
          /\ links' = links \cup {Link(dir, name, ino)}
          /\ Observe({dir}, {})
    /\ UNCHANGED <<unlinked, doomed, writing, snap, taken, changes, snaps, faults>>

\* link: directory_add_child_checked_existing_inode
HardLink(ino, dir, name) ==
    /\ Change
    /\ directory_child(dir, name) \notin DOMAIN store
    /\ inode_x(ino, "Description") \in DOMAIN store
    /\ Writes(LinkPairs(dir, name, Item(ino, store[inode_x(ino, "Description")].typ)))
    /\ links' = links \cup {Link(dir, name, ino)}
    /\ Observe({dir}, {})
    /\ UNCHANGED <<progs, snap, taken, snaps, faults>>

\* unlink, first transaction: directory_remove_child of a file or a symlink
Unlink(dir, name) ==
    /\ Change
    /\ \E item \in Get(store, directory_child(dir, name)) :
        /\ item.typ \in {"File", "Symlink"}
        /\ Deletes(LinkEnds(dir, name, item))
        /\ links' = links \ {Link(dir, name, item.ino)}
        /\ unlinked' = unlinked \cup {item}
    /\ Observe({}, {dir})
    /\ UNCHANGED <<reserved, doomed, writing, snap, taken, snaps, faults>>

\* inode_check_for_delete_and_delete_atomically_description.  (The checks of
\* one inode are kept once: a second one finds the same and deletes nothing.)
CheckDelete(item) ==
    /\ item \in unlinked /\ unlinked' = unlinked \ {item}
    /\ IF Scan(DOMAIN store, parent_link_scan(item.ino), ScanLimit) = <<>>
       THEN Deletes({inode_x(item.ino, "Description")}) /\ doomed' = doomed \cup {item}
       ELSE UNCHANGED <<store, doomed>>
    /\ UNCHANGED <<links, reserved, writing, snap, taken, listing, changes, snaps, faults>>

\* The blocks below the size of a file, in any order, then the attributes in
\* the order of their ids, each in a transaction of its own.
BlockKeys(item) ==
    IF item.typ = "File"
    THEN UNION {{block_hash(item.ino, i) : i \in 0..(size - 1)} \cap DOMAIN store :
                    size \in Get(store, inode_x(item.ino, "Size"))}
    ELSE {}
MetaLeft(item) == {i \in DOMAIN InoMetadata : inode_x(item.ino, InoMetadata[i]) \in DOMAIN store}

Purge(item) ==
    /\ item \in doomed
    /\ \/ \E k \in BlockKeys(item) : Deletes({k}) /\ UNCHANGED doomed
       \/ /\ BlockKeys(item) = {}
          /\ \E i \in MetaLeft(item) :
                /\ \A j \in MetaLeft(item) : i <= j
                /\ Deletes({inode_x(item.ino, InoMetadata[i])})
          /\ UNCHANGED doomed
       \/ /\ BlockKeys(item) = {} /\ MetaLeft(item) = {}
          /\ doomed' = doomed \ {item} /\ UNCHANGED store
    /\ UNCHANGED <<links, reserved, unlinked, writing, snap, taken, listing, changes, snaps, faults>>

\* rmdir: directory_remove_child_empty_directory; the inode stays.
Rmdir(dir, name) ==
    /\ Change
    /\ \E item \in Get(store, directory_child(dir, name)) :
        /\ item.typ = "Directory"
        /\ Scan(DOMAIN store, directory_child_range(item.ino), 1) = <<>>
        /\ Deletes(LinkEnds(dir, name, item))
        /\ links' = links \ {Link(dir, name, item.ino)}
    /\ Observe({}, {dir})
    /\ UNCHANGED <<progs, snap, taken, snaps, faults>>

\* rename: directory_rename_child.  When the new name is taken, the old one
\* is removed all the same.  (The kernel moves no directory into itself.)
Rename(dir, name, newDir, newName) ==
    /\ Change
    /\ \E item \in Get(store, directory_child(dir, name)) :
        LET old == Link(dir, name, item.ino)
            ends == LinkEnds(dir, name, item)
        IN
        /\ item.ino # newDir
        /\ \/ /\ directory_child(newDir, newName) \in DOMAIN store
              /\ Deletes(ends)
              /\ links' = links \ {old}
              /\ Observe({}, {dir})
           \/ /\ directory_child(newDir, newName) \notin DOMAIN store
              /\ inode_x(item.ino, "Description") \in DOMAIN store
              /\ store' = Drop(Put(store, LinkPairs(newDir, newName,
                                Item(item.ino, store[inode_x(item.ino, "Description")].typ))), ends)
              /\ links' = (links \cup {Link(newDir, newName, item.ino)}) \ {old}
              /\ Observe({newDir}, {dir})
    /\ UNCHANGED <<progs, snap, taken, snaps, faults>>

\* A write of some blocks of the open file: their hashes, and in a later
\* transaction the size.  (Between them FileContent has the full hash, and
\* HashedBlocks has the counters.)
WriteHashes(ino, first, last) ==
    /\ Change
    /\ Writes([k \in {block_hash(ino, i) : i \in first..last} |-> Hash2])
    /\ writing' = writing \cup {[ino |-> ino, size |-> last + 1]}
    /\ UNCHANGED <<links, reserved, unlinked, doomed, snap, taken, listing, snaps, faults>>

WriteSize(w) ==
    /\ w \in writing /\ writing' = writing \ {w}
    /\ Writes(IF w.size > store[inode_x(w.ino, "Size")]
              THEN Pair(inode_x(w.ino, "Size"), w.size) ELSE NoPairs)
    /\ UNCHANGED <<links, reserved, unlinked, doomed, snap, taken, listing, changes, snaps, faults>>

-----------------------------------------------------------------------------
(***************************************************************************)
(* readdir: the kernel asks for page after page until it gets none         *)
(***************************************************************************)
\* (A snapshot writes into no directory of the tree, so that a behaviour
\* with a readdir has none.)
OpenDir(dir) ==
    /\ listing.dir = 0 /\ snaps = 0
    /\ CallsLeft /\ MaxCalls <= changes + MaxBeside
    /\ Cardinality(reserved) + Cardinality(unlinked) + Cardinality(doomed)
        + Cardinality(writing) <= MaxHalf
    /\ listing' = [NoListing EXCEPT !.dir = dir, !.kept = ToSet(read_dir1(store, dir))]
    /\ UNCHANGED <<store, links, progs, snap, taken, changes, snaps, faults>>

\* Mutant: the number of an entry is its own, not that of the next one.
MutEntryOffset(index, offset) == index + offset

\* The offset that comes with the entry at an index (from 0) of the reply.
EntryOffset(index, offset) == index + 1 + offset

\* The entries behind the offset, as many as fit into the reply.
readdir(n) ==
    LET entries == read_dir1(store, listing.dir)
        first == listing.offset + 1
        last == IF listing.offset + n < Len(entries) THEN listing.offset + n ELSE Len(entries)
    IN
    /\ listing.dir # 0 /\ ~listing.done
    /\ listing' =
        IF first > last THEN [listing EXCEPT !.done = TRUE]
        ELSE [listing EXCEPT !.seen = @ \o SubSeq(entries, first, last),
                             !.offset = EntryOffset(last - first, @)]
    /\ UNCHANGED <<store, links, progs, snap, taken, changes, snaps, faults>>

-----------------------------------------------------------------------------
(***************************************************************************)
(* mkdir in the directory of the snapshots: create_snapshot.  It reads the *)
(* tree from src_txn (at), a transaction that sees the store as it was     *)
(* when the snapshot began, and writes in transactions of their own.       *)
(***************************************************************************)
Over == {"idle", "done", "exists", "failed"}
InSnap(step) == snap.pc = step

\* Mutant: the tree is read from the store as it is now.
MutSrcTxn == store

src_txn == snap.at

SnapBegin ==
    /\ snap.pc \in Over /\ listing.dir = 0
    /\ CallsLeft /\ snaps' = snaps + 1
    /\ snap' = [NoSnap EXCEPT !.pc = "reserve", !.at = store]
    /\ UNCHANGED <<store, links, progs, taken, listing, changes, faults>>

SnapReserve ==
    /\ InSnap("reserve")
    /\ \E ino \in store[meta]..(store[meta] + 1) :
        /\ Reserved(1, ino)
        /\ snap' = [snap EXCEPT !.pc = "add", !.ino = ino]
    /\ UNCHANGED <<links, progs, taken, listing, changes, snaps>>

\* directory_add_child_checked_new_inode with the attributes of the root
SnapAdd ==
    /\ InSnap("add")
    /\ IF directory_child(SNAPSHOT_PARENT_INODE, SnapName) \in DOMAIN store
       THEN /\ snap' = [NoSnap EXCEPT !.pc = "exists"]
            /\ UNCHANGED <<store, links, faults>>
       ELSE /\ store' = Put(Put(store, InodePairs(snap.ino, "Directory", "attr")),
                            LinkPairs(SNAPSHOT_PARENT_INODE, SnapName, Item(snap.ino, "Directory")))
            /\ links' = links \cup {Link(SNAPSHOT_PARENT_INODE, SnapName, snap.ino)}
            /\ \/ /\ snap' = [snap EXCEPT !.pc = "scan", !.jobs = <<<<ROOT_INODE, snap.ino>>>>]
                  /\ UNCHANGED faults
               \* The commit is unclear, and its repetition finds the entry.
               \/ /\ faults < MaxFaults /\ faults' = faults + 1
                  /\ snap' = [NoSnap EXCEPT !.pc = "exists"]
    /\ UNCHANGED <<progs, taken, listing, changes, snaps>>

\* The next job of directory_copy_recursive, down to the new inode numbers.
SnapScan ==
    LET children == Children(src_txn, Head(snap.jobs)[1]) IN
    /\ InSnap("scan") /\ snap.jobs # <<>>
    /\ IF children = <<>>
       THEN /\ snap' = [snap EXCEPT !.jobs = Tail(@)]
            /\ UNCHANGED <<store, faults>>
       ELSE \E first \in store[meta]..(store[meta] + Len(children)) :
            /\ Reserved(Len(children), first)
            /\ snap' = [snap EXCEPT !.pc = "link", !.ino = Head(snap.jobs)[2],
                            !.jobs = Tail(@),
                            !.mapping = [i \in 1..Len(children) |->
                                [src |-> children[i], dst |-> first + i - 1]]]
    /\ UNCHANGED <<links, progs, taken, listing, changes, snaps>>

SnapLink ==
    /\ InSnap("link")
    /\ Writes(Merge([i \in 1..Len(snap.mapping) |->
            LET m == snap.mapping[i]
            IN LinkPairs(snap.ino, m.src.name, Item(m.dst, m.src.typ))]))
    /\ links' = links \cup {Link(snap.ino, m.src.name, m.dst) : m \in ToSet(snap.mapping)}
    /\ snap' = [snap EXCEPT !.pc = "attrs", !.left = {m.src.ino : m \in ToSet(snap.mapping)}]
    /\ UNCHANGED <<progs, taken, listing, changes, snaps, faults>>

\* Mutant: inline data is left out.
MutMoved == {"Description", "UnixAttributes", "AccessTime", "ModificationTime"}

\* The attributes that inode_clone_attrs moves out of its maps.
Moved == {"Description", "UnixAttributes", "AccessTime", "ModificationTime", "InlineData"}

\* The copy of an attribute: a description gets the new inode number.
Cloned(m, value, dst) == IF m = "Description" THEN [value EXCEPT !.ino = dst] ELSE value

\* What is put for the i-th entry: only the first of several links to one
\* inode finds its attributes in the maps, the size is left there for all.
ClonePairs(i, left) ==
    LET src == snap.mapping[i].src.ino
        dst == snap.mapping[i].dst
        first == \A j \in 1..(i - 1) : snap.mapping[j].src.ino # src
        metas == {m \in {"Size"} \cup (IF src \in left /\ first THEN Moved ELSE {}) :
                    inode_x(src, m) \in DOMAIN src_txn}
        metaOf == [k \in {inode_x(dst, m) : m \in metas} |-> parse_ino(k).meta]
    IN [k \in DOMAIN metaOf |-> Cloned(metaOf[k], src_txn[inode_x(src, metaOf[k])], dst)]

SnapAttrs ==
    /\ InSnap("attrs")
    /\ Writes(Merge([i \in 1..Len(snap.mapping) |-> ClonePairs(i, snap.left)]))
    /\ snap' = [snap EXCEPT !.pc = "data", !.todo = snap.mapping, !.mapping = <<>>, !.left = {}]
    /\ UNCHANGED <<links, progs, taken, listing, changes, snaps, faults>>

\* The commit fails: what was moved out of the maps is not put again.
SnapAttrsFails ==
    /\ InSnap("attrs")
    /\ faults < MaxFaults /\ faults' = faults + 1
    /\ snap' = [snap EXCEPT !.left = {}, !.lossy = TRUE]
    /\ UNCHANGED <<store, links, progs, taken, listing, changes, snaps>>

\* inode_clone_data copies one block more than the size has.
CloneRangeEnd(size) == 1 + size

ClonedBlocks(src, dst) ==
    LET size == src_txn[inode_x(src, "Size")]
        hashes == BlockHashes(src_txn, src, 0, CloneRangeEnd(size))
    IN IF inode_x(src, "Size") \in DOMAIN src_txn
       THEN [k \in {block_hash(dst, i) : i \in DOMAIN hashes} |->
                hashes[parse_key_block_address(k).index]]
       ELSE NoPairs

\* The next entry: the data of a file is copied, a directory is a new job.
\* The references of the blocks are counted in HashedBlocks.
SnapData ==
    /\ InSnap("data")
    /\ IF snap.todo = <<>>
       THEN /\ snap' = [snap EXCEPT !.pc = "scan"]
            /\ UNCHANGED store
       ELSE LET m == Head(snap.todo) IN
            /\ Writes(IF m.src.typ = "File" THEN ClonedBlocks(m.src.ino, m.dst) ELSE NoPairs)
            /\ snap' = [snap EXCEPT !.todo = Tail(@),
                    !.jobs = IF m.src.typ = "Directory" THEN Append(@, <<m.src.ino, m.dst>>) ELSE @]
    /\ UNCHANGED <<links, progs, taken, listing, changes, snaps, faults>>

SnapDone ==
    /\ InSnap("scan") /\ snap.jobs = <<>>
    /\ LET dir == store[directory_child(SNAPSHOT_PARENT_INODE, SnapName)].ino
       IN taken' = taken \cup {[dir |-> dir, at |-> snap.at, lossy |-> snap.lossy]}
    /\ snap' = [NoSnap EXCEPT !.pc = "done"]
    /\ UNCHANGED <<store, links, progs, listing, changes, snaps, faults>>

\* A request fails for good: the part that was copied stays.
SnapFails ==
    /\ snap.pc \notin Over
    /\ faults < MaxFaults /\ faults' = faults + 1
    /\ snap' = [NoSnap EXCEPT !.pc = "failed"]
    /\ UNCHANGED <<store, links, progs, taken, listing, changes, snaps>>

SnapStep ==
    \/ SnapReserve \/ SnapAdd \/ SnapScan \/ SnapLink
    \/ SnapAttrs \/ SnapData \/ SnapDone

-----------------------------------------------------------------------------
Programs ==
    \/ ReserveNew
    \/ \E dir \in LiveDirs, name \in Names :
        \/ \E ino \in reserved, typ \in {"File", "Directory", "Symlink"} : AddChild(ino, dir, name, typ)
        \/ \E ino \in {FileA, FileB} : HardLink(ino, dir, name)
    \/ \E l \in {k \in links : k.dir \in LiveDirs} :
        \/ Unlink(l.dir, l.name) \/ Rmdir(l.dir, l.name)
        \/ \E dir \in LiveDirs, name \in Names : Rename(l.dir, l.name, dir, name)
    \/ \E item \in unlinked : CheckDelete(item)
    \/ \E item \in doomed : Purge(item)
    \/ \E s \in Spans : WriteHashes(FileA, s[1], s[2])
    \/ \E w \in writing : WriteSize(w)

Next ==
    \/ Programs
    \/ \E dir \in LiveDirs : OpenDir(dir)
    \/ \E n \in 1..MaxPage : readdir(n)
    \/ SnapBegin \/ SnapStep \/ SnapAttrsFails \/ SnapFails

Spec == Init /\ [][Next]_vars

-----------------------------------------------------------------------------
(***************************************************************************)
(* Properties                                                              *)
(***************************************************************************)
LinksIn(dir) == {l \in links : l.dir = dir}
LinksTo(ino) == {l \in links : l.ino = ino}

\* In the store, where everything lies under strings of bytes beside each
\* other, a scan finds exactly what belongs to a directory, to an inode and
\* to a lock, at the borders of a byte too, and the key of an entry parses
\* to the directory and the name it was built from.
ScansExact ==
    /\ \A l \in links :
        parse_directory_child(directory_child(l.dir, l.name)) =
            [kind |-> "DirectoryChild", dir |-> l.dir, name |-> l.name]
    /\ \A dir \in {l.dir : l \in links} : Cardinality(LinksIn(dir)) <= ScanLimit =>
        {Link(dir, i.name, i.ino) : i \in ToSet(Children(store, dir))} = LinksIn(dir)
    /\ \A ino \in {l.ino : l \in links} : Cardinality(LinksTo(ino)) <= ScanLimit =>
        Len(Scan(DOMAIN store, parent_link_scan(ino), ScanLimit)) = Cardinality(LinksTo(ino))
    /\ \A key \in LockKeys :
        {parse_lock_key(k, key).uuid :
            k \in ToSet(Scan(DOMAIN store, lock_range(key), ScanLimit))} = Uuids

\* A readdir in pages shows no entry twice unless some were added meanwhile,
\* and at its end every entry that was there all the time, unless some were
\* removed meanwhile.  Beyond the limit of the scan this is weaker: what a
\* scan does not return is not shown, nor need the two directories beside the
\* tree be, and a removal counts as an addition too, as it lets a hidden entry
\* in.
ListingExact ==
    /\ ~listing.added => IsInjective(listing.seen)
    /\ listing.done /\ ~listing.removed => listing.kept \subseteq ToSet(listing.seen)

\* Names that a lookup takes for something else.
ReservedName(name) ==
    \/ IsHashName(name, HashEnd) \/ IsHashName(name, HashesEnd)
    \/ name \in {SnapshotsName, OpenedName}

\* A lookup of any name that readdir shows finds the inode that readdir gave
\* with it, in the directories of the open files and of the snapshots and in
\* snapshots too, and later requests with this number reach it: except files
\* with reserved names, and copies that have no attributes.  What programs
\* link is found always, while inodes without links are cleared.
ListedFound ==
    \A dir \in {l.dir : l \in links} :
        \A e \in ToSet(read_dir1(store, dir)) :
            LET l == from_raw(e.raw) IN
            /\ to_raw(l.ino, l.kind) = e.raw
            /\ \/ lookup(store, dir, e.name) = {e.raw}
               \/ l.kind = "Regular" /\ ReservedName(e.name)
               \/ dir \notin TreeDirs /\ ~AllAttributes(store, l.ino)

\* Two copied entries never share an inode, nor does a copy share one with
\* the tree, with an open file, or with an entry for which a program has
\* reserved the number and which it makes later, although all of them take
\* new numbers at the same time.
CopiesOwnInodes ==
    /\ \A l \in links : l.ino < store[meta] /\ l.ino \notin reserved
    /\ \A k, l \in links : k.ino = l.ino /\ k # l => {k.dir, l.dir} \subseteq TreeDirs

\* All entries of a directory, whatever a scan returns.
AllChildren(s, dir) ==
    {[name |-> parse_directory_child(k).name, ino |-> s[k].ino, typ |-> s[k].typ] :
        k \in {l \in DOMAIN s : LET p == parse_directory_child(l)
                                IN p.kind = "DirectoryChild" /\ p.dir = dir}}

\* The content of a file: its size and its blocks, up to the size.
Content(s, ino) ==
    [size |-> Get(s, inode_x(ino, "Size")),
     blocks |-> UNION {{<<i, h>> : h \in Get(s, block_hash(ino, i))} :
                        i \in UNION {0..(size - 1) : size \in Get(s, inode_x(ino, "Size"))}}]

\* The entries of a tree with two levels: their paths, types and contents.
Entries(s, dir, path) ==
    {[path |-> Append(path, i.name), typ |-> i.typ, content |-> Content(s, i.ino)] :
        i \in AllChildren(s, dir)}
SubDirs(s, dir) == {i \in AllChildren(s, dir) : i.typ = "Directory"}
Tree(s, root) ==
    Entries(s, root, <<>>)
        \cup UNION {Entries(s, i.ino, <<i.name>>) : i \in SubDirs(s, root)}

\* A finished snapshot has the names, types, sizes and blocks of the tree as
\* it was when the snapshot began, whatever was changed while it was copied
\* and whatever commits had to be repeated.  The blocks of a write that are
\* beyond the size, as its size was still to come, are not compared.  Of a
\* directory with more entries than a scan returns the rest is missing in
\* the snapshot, which has nothing else either.
SnapshotIsTree ==
    \A t \in taken :
        /\ Tree(store, t.dir) \subseteq Tree(t.at, ROOT_INODE)
        /\ (\A dir \in {ROOT_INODE} \cup {i.ino : i \in SubDirs(t.at, ROOT_INODE)} :
                ~Overfull(t.at, dir))
            => Tree(store, t.dir) = Tree(t.at, ROOT_INODE)

\* The directories of the root's tree and their copies.
CopiedDirs(t) ==
    {<<ROOT_INODE, t.dir>>} \cup
        UNION {{<<i.ino, copy.ino>> : copy \in Get(store, directory_child(t.dir, i.name))} :
                    i \in SubDirs(t.at, ROOT_INODE)}

\* Every copy has the attributes of its original and describes itself, except
\* for a second link to a file in one directory, and unless the commit of the
\* attributes had to be repeated.
SnapshotDescribed ==
    \A t \in taken : ~t.lossy =>
        \A p \in CopiedDirs(t) :
            LET src == Children(t.at, p[1]) IN
            \A i \in 1..Len(src) :
                (\A j \in 1..(i - 1) : src[j].ino # src[i].ino) =>
                    LET copy == store[directory_child(p[2], src[i].name)].ino IN
                    /\ Get(store, inode_x(copy, "Description")) = {Item(copy, src[i].typ)}
                    /\ \A m \in {"UnixAttributes", "AccessTime", "ModificationTime", "InlineData"} :
                        Get(store, inode_x(copy, m)) = Get(t.at, inode_x(src[i].ino, m))

=============================================================================
