----------------------------- MODULE FileBlocks -----------------------------
(***************************************************************************)
(* How the bytes of a file become blocks and bytes again: the write        *)
(* accumulator of a file handle, the splitting of writes and reads at      *)
(* block boundaries, the merging of partly written blocks and the file     *)
(* size.  One handle, nothing concurrent; a block stands for its hash.     *)
(* `file` is the reference: the bytes that POSIX says the file has.        *)
(***************************************************************************)
EXTENDS Integers, Sequences, FiniteSets, FiniteSetsExt

CONSTANTS
    BlockSize,   \* bytes per block
    Bytes,       \* the byte values that are written; 0 fills gaps
    MaxLen,      \* bound: file length
    MaxWrite,    \* bound: bytes of one write
    MaxJobs,     \* bound: accumulated writes
    Threshold,   \* write_accumulator_flush_threshold
    MaxTorn      \* bound: the user stops once more blocks than this are torn

ASSUME ConstantsAssumption ==
    /\ BlockSize \in Nat \ {0}
    /\ MaxLen \in Nat \ {0} /\ MaxWrite \in Nat \ {0} /\ MaxJobs \in Nat /\ Threshold \in Nat
    /\ MaxTorn \in Nat
    /\ Bytes \subseteq Nat \ {0}

VARIABLES
    blocks,   \* block index -> its data, <<>> if there is no hash for it
    size,     \* InoSize.size
    acc,      \* write_accumulator: the writes not yet flushed
    file,     \* the reference contents
    torn      \* history: the blocks that two jobs of one flush have touched

vars == <<blocks, size, acc, file, torn>>

BlockIndexes == 0..(MaxLen \div BlockSize)
Data(n) == UNION {[1..k -> Bytes] : k \in 1..n}
Jobs == [start : 0..MaxLen, data : Data(MaxWrite)]

TypeOK ==
    /\ DOMAIN blocks = BlockIndexes
    /\ \A b \in BlockIndexes : Len(blocks[b]) <= BlockSize
    /\ size \in 0..MaxLen
    /\ Len(acc) <= MaxJobs
    /\ Len(file) <= MaxLen
    /\ torn \subseteq BlockIndexes

Init ==
    /\ blocks = [b \in BlockIndexes |-> <<>>]
    /\ size = 0
    /\ acc = <<>>
    /\ file = <<>>
    /\ torn = {}

-----------------------------------------------------------------------------
(***************************************************************************)
(* Writing.                                                                *)
(***************************************************************************)

\* BlockSplitterWrite::get_irregular_start_and_rest
Split(job) ==
    LET index == job.start \div BlockSize
        pos == job.start % BlockSize
        length == Min({BlockSize - pos, Len(job.data)})
        regular == length = BlockSize
        rest == IF regular THEN job.data ELSE SubSeq(job.data, length + 1, Len(job.data))
        mid == IF regular THEN index ELSE index + 1
        full == Len(rest) \div BlockSize
    IN [first |-> index, pos |-> pos,
        first_data |-> IF regular THEN <<>> ELSE SubSeq(job.data, 1, length),
        mid |-> mid, full |-> full,
        mid_data |-> SubSeq(rest, 1, full * BlockSize),
        last |-> mid + full,
        last_data |-> SubSeq(rest, full * BlockSize + 1, Len(rest))]

\* Mutant: the block is cut after the written range.
MutUpdated(dest, pos, data) ==
    [i \in 1..(pos + Len(data)) |->
        IF i > pos THEN data[i - pos] ELSE IF i <= Len(dest) THEN dest[i] ELSE 0]

\* HashedBlock::update_data_range_in_vec
Updated(dest, pos, data) ==
    [i \in 1..Max({Len(dest), pos + Len(data)}) |->
        IF i \in (pos + 1)..(pos + Len(data)) THEN data[i - pos]
        ELSE IF i <= Len(dest) THEN dest[i] ELSE 0]

\* The blocks that the job writes whole, and in part.
Whole(s, b) == b \in s.mid..(s.mid + s.full - 1)
Part(s, b) == (b = s.first /\ s.first_data # <<>>) \/ (b = s.last /\ s.last_data # <<>>)

WholeBlock(s, b) ==
    SubSeq(s.mid_data, (b - s.mid) * BlockSize + 1, (b - s.mid + 1) * BlockSize)

\* UpdateIrregularBlock: the original block with the new data in its place.
PartBlock(s, b) ==
    IF b = s.first /\ s.first_data # <<>>
    THEN Updated(blocks[b], s.pos, s.first_data)
    ELSE Updated(blocks[b], 0, s.last_data)

\* hb_write_data: the new block at b.  Every job starts from the original
\* block; whole blocks are entered after the parts, later jobs after earlier.
NewBlock(jobs, b) ==
    LET s == [j \in 1..Len(jobs) |-> Split(jobs[j])]
        whole == {j \in 1..Len(jobs) : Whole(s[j], b)}
        part == {j \in 1..Len(jobs) : Part(s[j], b)}
    IN IF whole # {} THEN WholeBlock(s[Max(whole)], b)
       ELSE IF part # {} THEN PartBlock(s[Max(part)], b)
       ELSE blocks[b]

\* The size after writing: the end of the furthest block that has changed.
Grown(new) ==
    Max({size} \cup {b * BlockSize + Len(new[b]) :
                        b \in {b \in BlockIndexes : new[b] # blocks[b]}})

\* The blocks a job touches: BlockSplitterWrite::get_range.
get_range(job) ==
    (job.start \div BlockSize)..((job.start + Len(job.data) - 1) \div BlockSize)

\* The blocks that more than one of the jobs touches.
Contended(jobs) ==
    {b \in BlockIndexes : \E i, j \in 1..Len(jobs) :
        i # j /\ b \in get_range(jobs[i]) \cap get_range(jobs[j])}

FlushJobs(jobs) ==
    LET new == [b \in BlockIndexes |-> NewBlock(jobs, b)] IN
    /\ blocks' = new
    /\ size' = Grown(new)
    /\ acc' = <<>>
    /\ torn' = torn \cup Contended(jobs)

-----------------------------------------------------------------------------
(***************************************************************************)
(* Reading.                                                                *)
(***************************************************************************)

\* Mutant: the last, partly read block is not counted.
MutBlockCount(start, n) ==
    LET first == Min({BlockSize - (start % BlockSize), n})
    IN (n - first) \div BlockSize + (IF first > 0 THEN 1 ELSE 0)

\* BlockSplitterRead::new: the number of blocks a read touches.
BlockCount(start, n) ==
    LET first == Min({BlockSize - (start % BlockSize), n})
        remaining == n - first
    IN remaining \div BlockSize + (IF first > 0 THEN 1 ELSE 0)
                                + (IF remaining % BlockSize > 0 THEN 1 ELSE 0)

BlockAt(b) == IF b \in BlockIndexes THEN blocks[b] ELSE <<>>

\* hb_read_from_blocks: append from each block in turn what it has of the
\* range; a missing or short block makes the result shorter.
Read(start, n) ==
    LET first == start \div BlockSize
        offset == start % BlockSize
        result[k \in 0..BlockCount(start, n)] ==
            IF k = 0 THEN <<>>
            ELSE LET data == BlockAt(first + k - 1)
                     from == IF k = 1 THEN offset ELSE 0
                     want == IF k = 1 THEN Min({BlockSize - offset, n})
                             ELSE Min({n - Len(result[k - 1]), BlockSize})
                 IN result[k - 1] \o SubSeq(data, from + 1, Min({from + want, Len(data)}))
    IN result[BlockCount(start, n)]

-----------------------------------------------------------------------------
(***************************************************************************)
(* The operations of the handle.                                           *)
(***************************************************************************)

\* WriteTaskDataList::write_data_len
write_data_len(jobs) == MapThenSumSet(LAMBDA j : Len(jobs[j].data), 1..Len(jobs))

\* What POSIX says of pwrite: the range is overwritten, a gap reads as zero.
Overwritten(f, job) ==
    LET end == job.start + Len(job.data) IN
    [i \in 1..Max({Len(f), end}) |->
        CASE i > job.start /\ i <= end -> job.data[i - job.start]
          [] i > Len(f) /\ i <= job.start -> 0
          [] OTHER -> f[i]]

\* write with flush = false: accumulate, and write all of it once there is
\* more than the threshold.
Write(job) ==
    /\ Len(acc) < MaxJobs
    /\ Cardinality(torn) <= MaxTorn
    /\ job.start + Len(job.data) <= MaxLen
    /\ file' = Overwritten(file, job)
    /\ IF write_data_len(Append(acc, job)) > Threshold
       THEN FlushJobs(Append(acc, job))
       ELSE /\ acc' = Append(acc, job)
            /\ UNCHANGED <<blocks, size, torn>>

\* flush_write_cache: write with flush = true and no data.
Flush ==
    /\ acc # <<>>
    /\ FlushJobs(acc)
    /\ UNCHANGED file

\* inode_allocate_size: the file only grows.
Allocate(offset, length) ==
    /\ offset + length <= MaxLen
    /\ offset + length > size
    /\ size' = offset + length
    /\ file' = [i \in 1..Max({Len(file), offset + length}) |->
                    IF i <= Len(file) THEN file[i] ELSE 0]
    /\ UNCHANGED <<blocks, acc, torn>>

Next ==
    \/ \E job \in Jobs : Write(job)
    \/ Flush
    \/ \E offset \in 0..MaxLen, length \in 1..MaxLen : Allocate(offset, length)

Spec == Init /\ [][Next]_vars

-----------------------------------------------------------------------------
(***************************************************************************)
(* Properties.                                                             *)
(***************************************************************************)

\* The byte i of the file is in a block that no flush has written twice.
Intact(i) == (i - 1) \div BlockSize \notin torn

\* Once everything is flushed, every byte of the file is found at its place in
\* its block, a byte that no block has is zero in the file, and the size kept
\* beside the blocks (which is only ever raised by the blocks that a flush
\* changed) is the length of the file: in all blocks but those that two
\* accumulated writes of one flush have touched.  There the later write starts
\* from the block as it was before the flush and wins, so losses never reach
\* beyond a block that was written twice.
FlushedRight ==
    acc = <<>> =>
        /\ Len(file) > 0 /\ Intact(Len(file)) => size = Len(file)
        /\ \A i \in {k \in 1..Len(file) : Intact(k)} :
            LET data == blocks[(i - 1) \div BlockSize]
                k == ((i - 1) % BlockSize) + 1
            IN file[i] = IF k <= Len(data) THEN data[k] ELSE 0

\* Some block has the byte i of the file; the bytes of a gap are in no block.
Stored(i) == ((i - 1) % BlockSize) + 1 <= Len(blocks[(i - 1) \div BlockSize])

\* Once everything is flushed, a read of any range, at any offset within a
\* block, returns the bytes of the file in this range, whatever gaps and
\* blocks written twice there are outside of the range (hb_read_from_blocks
\* closes gaps inside it).
ReadMatches ==
    acc = <<>> =>
        \A start \in 0..MaxLen, n \in 1..MaxLen :
            LET range == (start + 1)..Min({start + n, Len(file)}) IN
            (\A i \in range : Stored(i) /\ Intact(i))
                => Read(start, n) = SubSeq(file, start + 1, Min({start + n, Len(file)}))

=============================================================================
