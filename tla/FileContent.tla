---------------------------- MODULE FileContent -----------------------------
(***************************************************************************)
(* The blocks, the size, the change id and the full hash of one file, as   *)
(* the writers of several mounts change them and the readers of its        *)
(* hash file compute the full hash.  Every step of a task is one           *)
(* transaction; transactions that read and write the same key are atomic,  *)
(* since the commit of one of two that overlap fails.  A task that fails   *)
(* or crashes stops where it is, as any task may.  The reference           *)
(* counts and the data of the blocks are the subject of HashedBlocks, the  *)
(* arithmetic of offsets that of FileBlocks.                               *)
(***************************************************************************)
EXTENDS Integers, FiniteSetsExt

CONSTANTS
    Writers,      \* tasks that run hb_write_data, one job each
    Hashers,      \* tasks that run file_get_hash
    NumBlocks,    \* bound: blocks of the file
    BlockSize,    \* bytes per block
    HashLen,      \* length of a hash
    Allocated,    \* size given to the file by fallocate when it was created
    MaxAllocs     \* bound: later calls of fallocate

ASSUME ConstantsAssumption ==
    /\ NumBlocks \in Nat \ {0} /\ BlockSize \in Nat \ {0} /\ HashLen \in Nat \ {0}
    /\ Allocated \in 0..(NumBlocks * BlockSize) /\ MaxAllocs \in Nat

VARIABLES
    blocks,    \* block index -> cell -> the writer of the byte, Zero or Absent
    size,      \* InoSize.size
    iter,      \* InoChangeIterationId: the writer that drew it, None at first
    full,      \* InoFullHash as stored: a set of at most one value
    wpc,       \* the next step of a writer
    job,       \* a writer's block index and range of cells
    new,       \* the block that a writer has computed
    hpc,       \* the next step of a hasher
    seen,      \* iter and size as read by a hasher
    digest,    \* the hash that a hasher has computed
    clean,     \* no commit to `full` since the hasher's transaction began
    allocs     \* calls of fallocate so far

file == <<blocks, size, iter, full>>
writer == <<wpc, job, new>>
hasher == <<hpc, seen, digest, clean>>
vars == <<file, writer, hasher, allocs>>

Absent == "absent"
Zero == "zero"
None == "none"

\* A file without a change id is told from one that was written.
ASSUME NoneAssumption == None \notin Writers

Indexes == 0..(NumBlocks - 1)
Cells == 1..BlockSize
EmptyBlock == [c \in Cells |-> Absent]
Block == [Cells -> Writers \cup {Absent, Zero}]
Jobs == {[index |-> b, from |-> f, to |-> t] : b \in Indexes, f \in Cells, t \in Cells}
Length(block) == Max({0} \cup {c \in Cells : block[c] # Absent})

TypeOK ==
    /\ blocks \in [Indexes -> Block]
    /\ size \in 0..(NumBlocks * BlockSize)
    /\ iter \in Writers \cup {None}
    /\ Cardinality(full) <= 1
    /\ wpc \in [Writers -> {"read", "replace", "clear", "iterate", "peek", "grow", "done"}]
    /\ new \in [Writers -> Block]
    /\ hpc \in [Hashers -> {"lookup", "reread", "hash", "check", "commit", "done", "failed"}]
    /\ clean \in [Hashers -> BOOLEAN]
    /\ allocs \in 0..MaxAllocs

Init ==
    /\ blocks = [b \in Indexes |-> EmptyBlock]
    /\ size = Allocated
    /\ iter = None
    /\ full = {}
    /\ wpc = [w \in Writers |-> "read"]
    /\ job \in [Writers -> {j \in Jobs : j.from <= j.to}]
    /\ new = [w \in Writers |-> EmptyBlock]
    /\ hpc = [h \in Hashers |-> "lookup"]
    /\ seen = [h \in Hashers |-> [iter |-> None, size |-> 0]]
    /\ digest = [h \in Hashers |-> <<>>]
    /\ clean = [h \in Hashers |-> TRUE]
    /\ allocs = 0

-----------------------------------------------------------------------------
(***************************************************************************)
(* A writer.                                                               *)
(***************************************************************************)

\* UpdateIrregularBlock: the block as read with the job's cells replaced.
Modified(w, block) ==
    [c \in Cells |-> IF c \in job[w].from..job[w].to THEN w
                     ELSE IF block[c] = Absent /\ c < job[w].from THEN Zero
                     ELSE block[c]]

GotoW(w, step) == wpc' = [wpc EXCEPT ![w] = step]

\* hb_write_data: read the block and compute the new one.  A writer's bytes
\* differ from all others, so no block is left out as unchanged.
ReadBlock(w) ==
    /\ wpc[w] = "read"
    /\ new' = [new EXCEPT ![w] = Modified(w, blocks[job[w].index])]
    /\ GotoW(w, "replace")
    /\ UNCHANGED <<file, job, hasher, allocs>>

\* hb_replace_block_hash_for_address_no_size_update
Replace(w) ==
    /\ wpc[w] = "replace"
    /\ blocks' = [blocks EXCEPT ![job[w].index] = new[w]]
    /\ GotoW(w, "clear")
    /\ UNCHANGED <<size, iter, full, job, new, hasher, allocs>>

\* "clear full file hash"
ClearHash(w) ==
    /\ wpc[w] = "clear"
    /\ full' = {}
    /\ clean' = [h \in Hashers |-> FALSE]
    /\ GotoW(w, "iterate")
    /\ UNCHANGED <<blocks, size, iter, job, new, hpc, seen, digest, allocs>>

\* Mutant: the change id is left as it is.
MutNewIteration(w) ==
    /\ wpc[w] = "iterate"
    /\ iter' = IF iter = None THEN w ELSE iter
    /\ GotoW(w, "peek")
    /\ UNCHANGED <<blocks, size, full, job, new, hasher, allocs>>

\* "change change iter id"
NewIteration(w) ==
    /\ wpc[w] = "iterate"
    /\ iter' = w
    /\ GotoW(w, "peek")
    /\ UNCHANGED <<blocks, size, full, job, new, hasher, allocs>>

max_file_size(w) == job[w].index * BlockSize + Length(new[w])

\* size_peek: nothing is done for a file that is large enough.
PeekSize(w) ==
    /\ wpc[w] = "peek"
    /\ GotoW(w, IF max_file_size(w) > size THEN "grow" ELSE "done")
    /\ UNCHANGED <<file, job, new, hasher, allocs>>

\* Mutant: the size that was peeked at is not read again.
MutGrowSize(w) ==
    /\ wpc[w] = "grow"
    /\ size' = max_file_size(w)
    /\ GotoW(w, "done")
    /\ UNCHANGED <<blocks, iter, full, job, new, hasher, allocs>>

\* hb_replace_block_hash_for_address_only_size_update_b
GrowSize(w) ==
    /\ wpc[w] = "grow"
    /\ size' = Max({size, max_file_size(w)})
    /\ GotoW(w, "done")
    /\ UNCHANGED <<blocks, iter, full, job, new, hasher, allocs>>

\* inode_allocate_size
Allocate(target) ==
    /\ allocs < MaxAllocs
    /\ allocs' = allocs + 1
    /\ target > size
    /\ size' = target
    /\ UNCHANGED <<blocks, iter, full, writer, hasher>>

-----------------------------------------------------------------------------
(***************************************************************************)
(* A hasher: file_get_hash.                                                *)
(***************************************************************************)

GotoH(h, step) == hpc' = [hpc EXCEPT ![h] = step]

\* put writes the hash as JSON text.
Json(hash) == [form |-> "json", hash |-> hash]

\* The hash over the hashes of the first size_in_blocks * hash_len blocks; a
\* block that the file does not have counts as empty.
Digest(bytes) ==
    LET size_in_blocks == (bytes + BlockSize - 1) \div BlockSize IN
    [b \in 0..(size_in_blocks * HashLen - 1) |->
        IF b \in Indexes THEN blocks[b] ELSE EmptyBlock]

\* The first look at the stored hash, before the lock.
Lookup(h) ==
    /\ hpc[h] = "lookup"
    /\ GotoH(h, IF full = {} THEN "reread" ELSE "done")
    /\ UNCHANGED <<file, writer, seen, digest, clean, allocs>>

\* The second look, together with the change id and the size.
Reread(h) ==
    /\ hpc[h] = "reread"
    /\ IF full = {}
       THEN /\ GotoH(h, "hash")
            /\ seen' = [seen EXCEPT ![h] = [iter |-> iter, size |-> size]]
       ELSE /\ GotoH(h, "done")
            /\ UNCHANGED seen
    /\ UNCHANGED <<file, writer, digest, clean, allocs>>

\* read_hashes_of_file and calculate_hash
ComputeHash(h) ==
    /\ hpc[h] = "hash"
    /\ digest' = [digest EXCEPT ![h] = Digest(seen[h].size)]
    /\ GotoH(h, "check")
    /\ UNCHANGED <<file, writer, seen, clean, allocs>>

\* checked_write_of_file_hash up to its commit: a missing change id is an
\* error, after a change the hash is returned and not stored.
CheckIteration(h) ==
    /\ hpc[h] = "check"
    /\ CASE iter = None -> GotoH(h, "failed") /\ UNCHANGED clean
         [] iter # None /\ iter # seen[h].iter ->
                /\ GotoH(h, "done")
                /\ UNCHANGED clean
         [] iter # None /\ iter = seen[h].iter ->
                /\ GotoH(h, "commit")
                /\ clean' = [clean EXCEPT ![h] = TRUE]
    /\ UNCHANGED <<file, writer, seen, digest, allocs>>

\* The commit: only the writes to the stored hash are checked for conflicts.
\* After a conflict the transaction is repeated, or given up.
CommitHash(h) ==
    /\ hpc[h] = "commit"
    /\ IF clean[h]
       THEN /\ full' = {Json(digest[h])}
            /\ clean' = [i \in Hashers |-> FALSE]
            /\ GotoH(h, "done")
       ELSE /\ GotoH(h, "check") \/ GotoH(h, "failed")
            /\ UNCHANGED <<full, clean>>
    /\ UNCHANGED <<blocks, size, iter, writer, seen, digest, allocs>>

Next ==
    \/ \E w \in Writers :
        ReadBlock(w) \/ Replace(w) \/ ClearHash(w) \/ NewIteration(w) \/ PeekSize(w) \/ GrowSize(w)
    \/ \E h \in Hashers :
        Lookup(h) \/ Reread(h) \/ ComputeHash(h) \/ CheckIteration(h) \/ CommitHash(h)
    \/ \E target \in 1..(NumBlocks * BlockSize) : Allocate(target)

Spec == Init /\ [][Next]_vars

-----------------------------------------------------------------------------
(***************************************************************************)
(* Properties.                                                             *)
(***************************************************************************)

\* A writer is under way once its block is replaced.
UnderWay(w) == wpc[w] \notin {"read", "replace", "done"}

\* When no writer is under way, the size of the file covers every block that
\* was written, whichever writers read the size before others raised it.
SizeCovers ==
    (\A w \in Writers : ~UnderWay(w)) =>
        \A b \in Indexes :
            blocks[b] # EmptyBlock => b * BlockSize + Length(blocks[b]) <= size

\* The change id tells whether the blocks were changed: as long as it is the
\* one that a hasher read, and no writer is between replacing a block and
\* drawing a new id, the hasher's digest is that of the present blocks.
ChangeIdTells ==
    \A h \in Hashers :
        (/\ hpc[h] \in {"check", "commit"}
         /\ seen[h].iter = iter
         /\ \A w \in Writers : wpc[w] \notin {"clear", "iterate"})
        => digest[h] = Digest(seen[h].size)

=============================================================================
