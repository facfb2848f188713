---------------------------- MODULE HashedBlocks ----------------------------
(***************************************************************************)
(* The content-addressed block store of TiFS.  A file block address maps   *)
(* to a hash; the block data is stored once per hash and is owned by a     *)
(* reference counter.  Writing, clearing, reading and cloning blocks are   *)
(* sequences of separate TiKV transactions.  Every transaction here reads  *)
(* exactly the keys that it writes, so write-write conflict detection      *)
(* makes it atomic, and each one is one action.  What is not atomic is the *)
(* sequence: other clients run, and a client may fail, between two steps.  *)
(***************************************************************************)
EXTENDS Integers, FiniteSets

CONSTANTS
    Clients,     \* tasks that execute block operations, on any mount
    Addrs,       \* block addresses (inode, block index)
    SnapAddrs,   \* the addresses of the inode a snapshot creates
    SnapSource,  \* SnapSource[a]: the address that snapshot address a copies
    Hashes,      \* block contents, identified with their hashes
    Hole,        \* "no hash at this address"
    Skip,        \* "this address is not part of the job"
    MaxAborts,   \* bound: operations that fail or crash half-way
    MaxRepeats   \* bound: commits that succeed but are reported as failed

ASSUME ConstantsAssumption ==
    /\ IsFiniteSet(Clients)
    /\ IsFiniteSet(Addrs)
    /\ SnapAddrs \subseteq Addrs
    /\ SnapSource \in [SnapAddrs -> Addrs \ SnapAddrs]
    /\ Hole \notin Hashes
    /\ Skip \notin Hashes \cup {Hole}
    /\ MaxAborts \in Nat
    /\ MaxRepeats \in Nat

VARIABLES
    map,      \* address -> hash, the keys block_hash(addr)
    cnt,      \* hash -> CCountedNamedUsages (an absent key counts as 0)
    data,     \* the hashes whose block data is stored
    snapped,  \* the snapshot inode exists and is linked
    pc,       \* client -> the next transaction of its operation
    job,      \* client -> address -> the hash to put, Hole to clear, or Skip
    fresh,    \* client -> the hashes whose previous count was 0
    held,     \* client -> address -> the reference held in local variables
    aborts, repeats

vars == <<map, cnt, data, snapped, pc, job, fresh, held, aborts, repeats>>
store == <<map, cnt, data, snapped>>

NoJob == [a \in Addrs |-> Skip]
NoRefs == [a \in Addrs |-> Hole]

Steps == {"idle", "inc", "upload", "replace", "decrement",
          "clone_inc", "clone_write", "fetch"}

TypeOK ==
    /\ map \in [Addrs -> Hashes \cup {Hole}]
    /\ cnt \in [Hashes -> Nat]
    /\ data \in SUBSET Hashes
    /\ snapped \in BOOLEAN
    /\ pc \in [Clients -> Steps]
    /\ job \in [Clients -> [Addrs -> Hashes \cup {Hole, Skip}]]
    /\ fresh \in [Clients -> SUBSET Hashes]
    /\ held \in [Clients -> [Addrs -> Hashes \cup {Hole}]]
    /\ aborts \in 0..MaxAborts
    /\ repeats \in 0..MaxRepeats

Init ==
    /\ map = NoRefs
    /\ cnt = [h \in Hashes |-> 0]
    /\ data = {}
    /\ snapped = FALSE
    /\ pc = [w \in Clients |-> "idle"]
    /\ job = [w \in Clients |-> NoJob]
    /\ fresh = [w \in Clients |-> {}]
    /\ held = [w \in Clients |-> NoRefs]
    /\ aborts = 0
    /\ repeats = 0

-----------------------------------------------------------------------------

\* The addresses that exist: a snapshot inode is reachable once it is linked.
Reachable == IF snapped THEN Addrs ELSE Addrs \ SnapAddrs

\* The addresses at which f names the hash h.
At(f, h) == {a \in Addrs : f[a] = h}

\* Mutant: the addresses that are not part of the job count as references too.
MutRefsOfJobAll(j) == j

\* The references that the hashes of a job stand for.
RefsOfJob(j) == [a \in Addrs |-> IF j[a] \in Hashes THEN j[a] ELSE Hole]

\* Mutant: one reference per hash, however many addresses it is written to.
MutIncrementedOnce(j) == [h \in Hashes |-> IF At(j, h) = {} THEN cnt[h] ELSE cnt[h] + 1]

\* The counters after adding one reference per address of the job j.
Incremented(j) == [h \in Hashes |-> cnt[h] + Cardinality(At(j, h))]

\* What the replacing transaction finds at the addresses it rewrites.
Replaced(j) == [a \in Addrs |-> IF j[a] = Skip THEN Hole ELSE map[a]]

\* The mapping after writing the job j.
Written(j) == [a \in Addrs |-> IF j[a] = Skip THEN map[a] ELSE j[a]]

\* Mutant: one reference less per hash, however many addresses held it.
MutDecrementedOnce(f) ==
    [h \in Hashes |-> IF cnt[h] = 0 \/ At(f, h) = {} THEN cnt[h] ELSE cnt[h] - 1]

\* The counters after giving the references f back; a counter never goes
\* below zero.
Decremented(f) ==
    [h \in Hashes |-> IF cnt[h] < Cardinality(At(f, h))
                      THEN 0
                      ELSE cnt[h] - Cardinality(At(f, h))]

\* Mutant: the data goes when the counter reaches one.
MutReleasedEarly(f) == {h \in Hashes : At(f, h) # {} /\ Decremented(f)[h] <= 1}

\* Mutant: the counter key is deleted, the data is not.
MutReleasedNothing(f) == {}

\* A hash whose counter reaches zero loses its counter key and its data.
Released(f) == {h \in Hashes : At(f, h) # {} /\ Decremented(f)[h] = 0}

Finish(w) ==
    /\ pc' = [pc EXCEPT ![w] = "idle"]
    /\ job' = [job EXCEPT ![w] = NoJob]
    /\ fresh' = [fresh EXCEPT ![w] = {}]
    /\ held' = [held EXCEPT ![w] = NoRefs]

-----------------------------------------------------------------------------

\* hb_write_data: read the present hashes, compute the new blocks and drop
\* the ones that are unchanged.
BeginWrite(w, j) ==
    /\ pc[w] = "idle"
    /\ j # NoJob
    /\ \A a \in Addrs : j[a] # Skip => a \in Reachable /\ j[a] # map[a]
    /\ pc' = [pc EXCEPT ![w] = "inc"]
    /\ job' = [job EXCEPT ![w] = j]
    /\ UNCHANGED <<store, fresh, held, aborts, repeats>>

\* Mutant: the upload is decided by the new count being one.
MutIncrementNewCount(w) ==
    /\ pc[w] = "inc"
    /\ cnt' = Incremented(job[w])
    /\ held' = [held EXCEPT ![w] = RefsOfJob(job[w])]
    /\ fresh' = [fresh EXCEPT ![w] = {h \in Hashes : At(job[w], h) # {} /\ cnt'[h] = 1}]
    /\ pc' = [pc EXCEPT ![w] = "upload"]
    /\ UNCHANGED <<map, data, snapped, job, aborts, repeats>>

\* hb_increment_reference_count: all counters of the job in one transaction;
\* the previous values decide which blocks are uploaded.
Increment(w) ==
    /\ pc[w] = "inc"
    /\ cnt' = Incremented(job[w])
    /\ held' = [held EXCEPT ![w] = RefsOfJob(job[w])]
    /\ fresh' = [fresh EXCEPT ![w] = {h \in Hashes : At(job[w], h) # {} /\ cnt[h] = 0}]
    /\ pc' = [pc EXCEPT ![w] = "upload"]
    /\ UNCHANGED <<map, data, snapped, job, aborts, repeats>>

\* hb_upload_new_block: a transaction of its own.
Upload(w) ==
    /\ pc[w] = "upload"
    /\ data' = data \cup fresh[w]
    /\ fresh' = [fresh EXCEPT ![w] = {}]
    /\ pc' = [pc EXCEPT ![w] = "replace"]
    /\ UNCHANGED <<map, cnt, snapped, job, held, aborts, repeats>>

\* hb_clear_data_single_block: starts with the replacing transaction.
BeginClear(w, a) ==
    /\ pc[w] = "idle"
    /\ a \in Reachable
    /\ pc' = [pc EXCEPT ![w] = "replace"]
    /\ job' = [job EXCEPT ![w] = [NoJob EXCEPT ![a] = Hole]]
    /\ UNCHANGED <<store, fresh, held, aborts, repeats>>

\* hb_replace_block_hash_for_address_no_size_update: the references in hand
\* go into the mapping, the replaced ones are now in hand.
Replace(w) ==
    /\ pc[w] = "replace"
    /\ map' = Written(job[w])
    /\ held' = [held EXCEPT ![w] = Replaced(job[w])]
    /\ pc' = [pc EXCEPT ![w] = "decrement"]
    /\ UNCHANGED <<cnt, data, snapped, job, fresh, aborts, repeats>>

\* hb_decrement_blocks_reference_count_and_delete_if_zero_reached.
Decrement(w) ==
    /\ pc[w] = "decrement"
    /\ cnt' = Decremented(held[w])
    /\ data' = data \ Released(held[w])
    /\ Finish(w)
    /\ UNCHANGED <<map, snapped, aborts, repeats>>

\* hb_read_data: the hashes first, the data by hash in a later transaction.
BeginRead(w, s) ==
    /\ pc[w] = "idle"
    /\ s # {}
    /\ pc' = [pc EXCEPT ![w] = "fetch"]
    /\ job' = [job EXCEPT ![w] = [a \in Addrs |-> IF a \in s THEN map[a] ELSE Skip]]
    /\ UNCHANGED <<store, fresh, held, aborts, repeats>>

\* The fetch answers with the data of the hashes in data, and without the rest.
FetchData(w) ==
    /\ pc[w] = "fetch"
    /\ Finish(w)
    /\ UNCHANGED <<store, aborts, repeats>>

\* create_snapshot / inode_clone_data: the source mapping is read from a
\* snapshot transaction, as of the time the snapshot was started; the
\* destination is linked before its data is cloned.
BeginClone(w) ==
    /\ pc[w] = "idle"
    /\ ~snapped
    /\ \E a \in SnapAddrs : map[SnapSource[a]] \in Hashes
    /\ snapped' = TRUE
    /\ pc' = [pc EXCEPT ![w] = "clone_inc"]
    /\ job' = [job EXCEPT ![w] =
                  [a \in Addrs |->
                      IF a \in SnapAddrs /\ map[SnapSource[a]] \in Hashes
                      THEN map[SnapSource[a]] ELSE Skip]]
    /\ UNCHANGED <<map, cnt, data, fresh, held, aborts, repeats>>

\* The clone increments without looking at the previous counts: the check
\* in the code is a lazy iterator that nothing consumes.
CloneIncrement(w) ==
    /\ pc[w] = "clone_inc"
    /\ cnt' = Incremented(job[w])
    /\ held' = [held EXCEPT ![w] = RefsOfJob(job[w])]
    /\ pc' = [pc EXCEPT ![w] = "clone_write"]
    /\ UNCHANGED <<map, data, snapped, job, fresh, aborts, repeats>>

\* The clone puts the hashes blindly: whatever the addresses held before
\* is overwritten and its references are never given back.
CloneWrite(w) ==
    /\ pc[w] = "clone_write"
    /\ map' = Written(job[w])
    /\ Finish(w)
    /\ UNCHANGED <<cnt, data, snapped, aborts, repeats>>

\* The process stops, or a step fails for good and `?` leaves the operation:
\* the local variables are gone, what was committed stays.
Abort(w) ==
    /\ pc[w] # "idle"
    /\ aborts < MaxAborts
    /\ aborts' = aborts + 1
    /\ Finish(w)
    /\ UNCHANGED <<store, repeats>>

\* MiniTransaction::finish retries after every failed commit, also when the
\* failure leaves open whether the commit took effect.  Repeat(w): the
\* transaction of step pc[w] took effect and will be executed once more.
Repeat(w) ==
    /\ repeats < MaxRepeats
    /\ repeats' = repeats + 1
    /\ \/ /\ pc[w] \in {"inc", "clone_inc"}
          /\ cnt' = Incremented(job[w])
          /\ UNCHANGED <<map, data>>
       \/ /\ pc[w] = "replace"
          /\ map' = Written(job[w])
          /\ UNCHANGED <<cnt, data>>
       \/ /\ pc[w] = "decrement"
          /\ cnt' = Decremented(held[w])
          /\ data' = data \ Released(held[w])
          /\ UNCHANGED map
    /\ UNCHANGED <<snapped, pc, job, fresh, held, aborts>>

-----------------------------------------------------------------------------

Jobs == [Addrs -> Hashes \cup {Skip}]

Begin(w) ==
    \/ \E j \in Jobs : BeginWrite(w, j)
    \/ \E a \in Addrs : BeginClear(w, a)
    \/ \E s \in SUBSET Reachable : BeginRead(w, s)

Step(w) ==
    \/ Increment(w)
    \/ Upload(w)
    \/ Replace(w)
    \/ Decrement(w)
    \/ FetchData(w)

CloneStep(w) == CloneIncrement(w) \/ CloneWrite(w)

\* Writers, cleaners and readers that finish what they start.
NextReliable == \E w \in Clients : Begin(w) \/ Step(w)

\* The same with snapshots and with operations that stop half-way.
Next ==
    \/ NextReliable
    \/ \E w \in Clients : BeginClone(w) \/ CloneStep(w) \/ Abort(w)

\* Commits with an undetermined outcome, everything else reliable.
NextRepeat == NextReliable \/ \E w \in Clients : Repeat(w)

\* A client that is not stopped executes the next step of its operation: every
\* step is a TiKV call that is retried with a delay until it is answered.
Fairness == \A w \in Clients : WF_vars(Step(w))

Spec == Init /\ [][Next]_vars
SpecReliable == Init /\ [][NextReliable]_vars /\ Fairness
SpecRepeat == Init /\ [][NextRepeat]_vars

-----------------------------------------------------------------------------

\* The references to h that operations hold in their local variables.
Held(h) == {r \in Clients \X Addrs : held[r[1]][r[2]] = h}

References(h) == Cardinality(At(map, h)) + Cardinality(Held(h))

Referenced(h) == At(map, h) # {} \/ Held(h) # {}

\* The counter of a hash is never smaller than the number of addresses that
\* map to it plus the references that running writers, cleaners and
\* snapshots hold: hb_increment_blocks_reference_count and
\* hb_decrement_blocks_reference_count_and_delete_if_zero_reached may lose a
\* reference's owner (a crash), never a reference.
RefCountCovers == \A h \in Hashes : cnt[h] >= References(h)

\* Block data disappears only when nothing refers to it, neither an address
\* nor an operation that is about to write the hash to one.
ReleaseOnlyUnreferenced ==
    [][\A h \in Hashes : h \in data /\ h \notin data' => ~Referenced(h)']_vars

\* Without failures and snapshots the counter is exact at every step.
RefCountExact == \A h \in Hashes : cnt[h] = References(h)

\* Without failures nothing leaks: once all operations have finished, the
\* stored blocks are the mapped ones.
QuiescentStoreExact ==
    (\A w \in Clients : pc[w] \in {"idle", "fetch"}) =>
        data = {h \in Hashes : At(map, h) # {}}

\* Without failures, a referenced block is stored, or the writer that found
\* the counter at zero is about to upload it: a writer that found another
\* value may skip the upload.
StoredOrUploading ==
    \A h \in Hashes : Referenced(h) =>
        h \in data \/ \E w \in Clients : pc[w] = "upload" /\ h \in fresh[w]

\* A hash that an address maps to becomes readable, unless the address is
\* written again first.
MappedEventuallyReadable ==
    \A a \in Addrs, h \in Hashes : map[a] = h ~> (h \in data \/ map[a] # h)

\* A decrement never exceeds the counter (the decrementing transaction calls
\* it an error and clamps the counter at zero).
DecrementPossible ==
    \A w \in Clients, h \in Hashes :
        pc[w] = "decrement" => cnt[h] >= Cardinality(At(held[w], h))

=============================================================================
