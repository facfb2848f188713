------------------------------ MODULE StoreKeys -----------------------------
(***************************************************************************)
(* The keys under which everything is stored: how ScopedKeyBuilder builds  *)
(* them, how KeyParser takes them apart, and the ranges that are scanned.  *)
(*                                                                         *)
(* A key is a sequence of bytes.  A byte is a digit below Base, a u64 has  *)
(* Width of them (8 in the code), a hash and a uuid have fixed lengths.    *)
(***************************************************************************)
EXTENDS Naturals, Sequences, FiniteSets, SequencesExt

CONSTANTS
    Base,      \* values of a byte
    Width,     \* bytes of a u64
    HashLen,   \* bytes of a hash
    UuidLen,   \* bytes of a uuid
    Prefix     \* key_prefix of the file system

KeyKinds == <<"KeyLockStates", "FsMetadataStatic", "FsMetadata", "InoMetadata", "Block",
              "DirectoryChild", "ParentLink", "HashedBlock", "InoBlockHashMapping",
              "HashedBlockExists", "PendingDelete", "NamedHashedBlock">>

InoMetadata == <<"Description", "LinkCount", "Size", "UnixAttributes", "LockState",
                 "AccessTime", "ModificationTime", "Opened", "FullHash",
                 "ChangeIterationId", "InlineData">>

HashedBlockMeta == <<"ANamedBlock", "BNamedUsages", "CCountedNamedUsages">>

ASSUME StoreKeysAssumption ==
    /\ Base \in Nat /\ Base >= Len(KeyKinds)
    /\ Width \in Nat \ {0} /\ HashLen \in Nat \ {0} /\ UuidLen \in Nat \ {0}
    /\ Prefix \in Seq(0..(Base - 1))

\* The ids of the enums, in the order of their declarations, from 0.
IdOf(enum, x) == (CHOOSE i \in 1..Len(enum) : enum[i] = x) - 1
HasId(enum, id) == id < Len(enum)
ById(enum, id) == enum[id + 1]

\* The number of values of a u64.
WordValues ==
    LET values[i \in 0..Width] == IF i = 0 THEN 1 ELSE values[i - 1] * Base
    IN values[Width]

\* high[i] is the number without its last i bytes.
write_big_endian(n) ==
    LET high[i \in 0..Width] == IF i = 0 THEN n ELSE high[i - 1] \div Base
    IN [i \in 1..Width |-> high[Width - i] % Base]

\* high[i] is the number that the first i bytes are.
read_big_endian(bytes) ==
    LET high[i \in 0..Len(bytes)] == IF i = 0 THEN 0 ELSE high[i - 1] * Base + bytes[i]
    IN high[Len(bytes)]

-----------------------------------------------------------------------------
(***************************************************************************)
(* ScopedKeyBuilder                                                        *)
(***************************************************************************)
write_key_kind(kind) == Prefix \o <<IdOf(KeyKinds, kind)>>

meta == write_key_kind("FsMetadata")
meta_static == write_key_kind("FsMetadataStatic")

key_lock_state(key, uuid) == write_key_kind("KeyLockStates") \o key \o uuid

inode_x(ino, m) ==
    write_key_kind("InoMetadata") \o write_big_endian(ino) \o <<IdOf(InoMetadata, m)>>

opened_inode(ino, uuid) == inode_x(ino, "Opened") \o uuid

block_hash(ino, index) ==
    write_key_kind("InoBlockHashMapping") \o write_big_endian(ino) \o write_big_endian(index)

hashed_block(hash) == write_key_kind("HashedBlock") \o hash

named_hashed_block_x(hash, m) == hashed_block(hash) \o <<IdOf(HashedBlockMeta, m)>>

hashed_block_exists(hash) == write_key_kind("HashedBlockExists") \o hash

directory_child(parent, name) ==
    write_key_kind("DirectoryChild") \o write_big_endian(parent) \o name

parent_link(ino, parent, name) ==
    write_key_kind("ParentLink") \o write_big_endian(ino) \o write_big_endian(parent) \o name

-----------------------------------------------------------------------------
(***************************************************************************)
(* Ranges: from is in the range, to is not                                 *)
(***************************************************************************)
KeyRange(from, to) == [from |-> from, to |-> to]

parent_link_scan(ino) ==
    KeyRange(write_key_kind("ParentLink") \o write_big_endian(ino),
           write_key_kind("ParentLink") \o write_big_endian(ino + 1))

\* Mutant: the end is the prefix of all names of the directory itself, with
\* the id of the next kind.
MutDirectoryChildRange(dir) ==
    KeyRange(directory_child(dir, <<>>), write_key_kind("ParentLink"))

directory_child_range(dir) == KeyRange(directory_child(dir, <<>>), directory_child(dir + 1, <<>>))

block_hash_range(ino, start, end) == KeyRange(block_hash(ino, start), block_hash(ino, end))

\* The range of the states of a lock, with the largest uuid in it.
lock_range(key) ==
    KeyRange(key_lock_state(key, [i \in 1..UuidLen |-> 0]),
           key_lock_state(key, [i \in 1..UuidLen |-> Base - 1]) \o <<0>>)

\* The order of TiKV's keys, as strings of bytes: the first byte that
\* differs decides, a proper prefix comes first.
KeyLess(k, l) ==
    \E i \in 1..Len(l) :
        /\ i <= Len(k) + 1
        /\ i <= Len(k) => k[i] < l[i]
        /\ \A m \in 1..(i - 1) : k[m] = l[m]

InRange(key, range) == ~KeyLess(key, range.from) /\ KeyLess(key, range.to)

\* A scan returns the first keys of the range, in their order.
Scan(keys, range, limit) ==
    LET found == {k \in keys : InRange(k, range)}
        rank == [k \in found |-> Cardinality({j \in found : KeyLess(j, k)}) + 1]
        count == Cardinality(found)
    IN [i \in 1..(IF count < limit THEN count ELSE limit) |-> CHOOSE k \in found : rank[k] = i]

-----------------------------------------------------------------------------
(***************************************************************************)
(* KeyParser: what is behind the prefix and the kind of a key              *)
(***************************************************************************)
ParseFailed == [kind |-> "failed"]

KindOf(key) == KeyKinds[key[Len(Prefix) + 1] + 1]
Behind(key) == SubSeq(key, Len(Prefix) + 2, Len(key))

\* KeyParser::start
Starts(key) ==
    /\ Len(key) > Len(Prefix)
    /\ SubSeq(key, 1, Len(Prefix)) = Prefix
    /\ HasId(KeyKinds, key[Len(Prefix) + 1])

Number(bytes, nth) == read_big_endian(SubSeq(bytes, 1 + (nth - 1) * Width, nth * Width))

parse_ino(key) ==
    LET b == Behind(key) IN
    IF /\ Starts(key) /\ KindOf(key) = "InoMetadata"
       /\ Len(b) > Width /\ HasId(InoMetadata, b[Width + 1])
    THEN [kind |-> "InoMetadata", ino |-> Number(b, 1), meta |-> ById(InoMetadata, b[Width + 1]),
          rest |-> SubSeq(b, Width + 2, Len(b))]
    ELSE ParseFailed

parse_directory_child(key) ==
    LET b == Behind(key) IN
    IF Starts(key) /\ KindOf(key) = "DirectoryChild" /\ Len(b) >= Width
    THEN [kind |-> "DirectoryChild", dir |-> Number(b, 1), name |-> SubSeq(b, Width + 1, Len(b))]
    ELSE ParseFailed

parse_key_block_address(key) ==
    LET b == Behind(key) IN
    IF Starts(key) /\ KindOf(key) \in {"Block", "InoBlockHashMapping"} /\ Len(b) >= 2 * Width
    THEN [kind |-> KindOf(key), ino |-> Number(b, 1), index |-> Number(b, 2)]
    ELSE ParseFailed

parse_key_hashed_block(key) ==
    LET b == Behind(key) IN
    IF Starts(key) /\ KindOf(key) \in {"HashedBlock", "HashedBlockExists"} /\ Len(b) >= HashLen
    THEN [kind |-> KindOf(key), hash |-> SubSeq(b, 1, HashLen), rest |-> SubSeq(b, HashLen + 1, Len(b))]
    ELSE ParseFailed

parse_lock_key(key, locked) ==
    LET b == Behind(key) IN
    IF /\ Starts(key) /\ KindOf(key) = "KeyLockStates"
       /\ Len(b) >= Len(locked) + UuidLen /\ SubSeq(b, 1, Len(locked)) = locked
    THEN [kind |-> "KeyLockStates", uuid |-> SubSeq(b, Len(locked) + 1, Len(locked) + UuidLen)]
    ELSE ParseFailed

=============================================================================
