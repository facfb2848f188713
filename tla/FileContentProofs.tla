-------------------------- MODULE FileContentProofs -------------------------
(***************************************************************************)
(* The size of a file covers its blocks, and its change id tells whether   *)
(* they changed, for any number of writers, hashers, blocks and bytes.     *)
(***************************************************************************)
EXTENDS FileContent, WellFoundedInduction, FiniteSetTheorems, TLAPS

\* TypeOK with the types of the jobs, of what hashers read and of digests.
Typed ==
    /\ TypeOK
    /\ job \in [Writers -> {j \in Jobs : j.from <= j.to}]
    /\ seen \in [Hashers -> [iter : Writers \cup {None}, size : Nat]]
    /\ DOMAIN digest = Hashers

\* A block is empty, or the size covers it, or the writer that stored what
\* the block holds has not raised the size yet.
BlocksCovered ==
    \A b \in Indexes :
        \/ blocks[b] = EmptyBlock
        \/ b * BlockSize + Length(blocks[b]) <= size
        \/ \E w \in Writers : UnderWay(w) /\ job[w].index = b /\ new[w] = blocks[b]

\* The writers that have drawn their change id.
HasDrawn(w) == wpc[w] \in {"peek", "grow", "done"}

\* A change id, stored or read, is that of a writer that has drawn it, so the
\* id that a writer is about to draw is known to nobody.
IdsDrawn ==
    /\ iter # None => HasDrawn(iter)
    /\ \A h \in Hashers : seen[h].iter # None => HasDrawn(seen[h].iter)

\* The inductive invariant.
IInv == Typed /\ BlocksCovered /\ IdsDrawn /\ ChangeIdTells

-----------------------------------------------------------------------------
(***************************************************************************)
(* Lengths.                                                                *)
(***************************************************************************)

Below == {p \in Nat \X Nat : p[1] < p[2]}

\* A set of natural numbers has a least element.
LEMMA LeastExists ==
    ASSUME NEW T \in SUBSET Nat, T # {}
    PROVE  \E x \in T : \A y \in T : x <= y
<1>1. IsWellFoundedOn(Below, Nat)
  BY NatLessThanWellFounded DEF OpToRel, Below
<1>2. PICK x \in T : \A y \in T : ~(<<y, x>> \in Below)
  BY <1>1, WFMin
<1>3. ASSUME NEW y \in T PROVE x <= y
  <2>1. ~(<<y, x>> \in Below)
    BY <1>2
  <2> QED BY <2>1 DEF Below
<1> QED BY <1>3

\* A bounded set of natural numbers has a maximum, which Max returns.
LEMMA MaxOfBounded ==
    ASSUME NEW n \in Nat, NEW S \in SUBSET (0..n), S # {}
    PROVE  Max(S) \in S /\ \A y \in S : y <= Max(S)
<1> DEFINE T == {n - c : c \in S}
<1>1. T \subseteq Nat
  OBVIOUS
<1>2. T # {}
  OBVIOUS
<1>3. PICK x \in T : \A y \in T : x <= y
  BY <1>1, <1>2, LeastExists
<1>4. PICK m \in S : x = n - m
  BY <1>3 DEF T
<1>5. \A y \in S : m >= y
  BY <1>3, <1>4 DEF T
<1>6. \A y \in S : Max(S) >= y /\ Max(S) \in S
  BY <1>4, <1>5 DEF Max
<1> QED BY <1>4, <1>6

\* A block is at most BlockSize bytes long, whatever it holds.
LEMMA LengthBounded ==
    ASSUME NEW block
    PROVE  Length(block) \in 0..BlockSize
<1> DEFINE S == {0} \cup {c \in Cells : block[c] # Absent}
<1>1. S \in SUBSET (0..BlockSize) /\ S # {} /\ BlockSize \in Nat
  BY ConstantsAssumption DEF Cells
<1>2. Max(S) \in S
  BY <1>1, MaxOfBounded
<1> QED BY <1>1, <1>2 DEF Length

\* The maximum of two numbers is one of them and at least both.
LEMMA MaxOfTwo ==
    ASSUME NEW a \in Int, NEW b \in Int
    PROVE  Max({a, b}) \in {a, b} /\ Max({a, b}) >= a /\ Max({a, b}) >= b
<1>1. \E x \in {a, b} : \A y \in {a, b} : x >= y
  OBVIOUS
<1> QED BY <1>1 DEF Max

\* A block ends within the bound of the file.
LEMMA EndBounded ==
    ASSUME NEW b \in Indexes, NEW len \in 0..BlockSize
    PROVE  b * BlockSize + len \in 0..(NumBlocks * BlockSize)
<1>1. b \in 0..(NumBlocks - 1) /\ NumBlocks \in Nat /\ BlockSize \in Nat
  BY ConstantsAssumption DEF Indexes
<1>2. PICK k \in Nat : NumBlocks = b + 1 + k
  <2>1. NumBlocks - b - 1 \in Nat /\ NumBlocks = b + 1 + (NumBlocks - b - 1)
    BY <1>1
  <2> QED BY <2>1
<1>3. NumBlocks * BlockSize = b * BlockSize + BlockSize + k * BlockSize
  BY <1>1, <1>2
<1>4. b * BlockSize \in Nat /\ k * BlockSize \in Nat
  BY <1>1, <1>2
<1> QED BY <1>1, <1>3, <1>4

-----------------------------------------------------------------------------
(***************************************************************************)
(* Types.                                                                  *)
(***************************************************************************)

\* The initial state has the types.
LEMMA InitTyped == Init => Typed
<1> SUFFICES ASSUME Init PROVE Typed
  OBVIOUS
<1>1. EmptyBlock \in Block
  BY DEF EmptyBlock, Block
<1>2. Cardinality({}) <= 1
  BY FS_EmptySet
<1> QED
  BY <1>1, <1>2, ConstantsAssumption DEF Init, Typed, TypeOK

\* What a writer computes is a block.
LEMMA ModifiedTyped ==
    ASSUME Typed, NEW w \in Writers, NEW block \in Block
    PROVE  Modified(w, block) \in Block
  BY DEF Typed, Modified, Block

\* The size that a writer asks for is within the bound of the file.
LEMMA MaxFileSizeTyped ==
    ASSUME Typed, NEW w \in Writers
    PROVE  max_file_size(w) \in 0..(NumBlocks * BlockSize)
<1>1. job[w].index \in Indexes
  BY DEF Typed, Jobs
<1>2. Length(new[w]) \in 0..BlockSize
  BY LengthBounded
<1> QED BY <1>1, <1>2, EndBounded DEF max_file_size

\* The size never shrinks, and stays within the bound of the file.
LEMMA SizeGrows ==
    ASSUME Typed, NEW w \in Writers, GrowSize(w)
    PROVE  /\ size' \in 0..(NumBlocks * BlockSize)
           /\ size' >= size /\ size' >= max_file_size(w)
<1>1. size \in 0..(NumBlocks * BlockSize) /\ max_file_size(w) \in 0..(NumBlocks * BlockSize)
  BY MaxFileSizeTyped DEF Typed, TypeOK
<1>2. size \in Int /\ max_file_size(w) \in Int
  BY <1>1
<1>3. size' = Max({size, max_file_size(w)})
  BY DEF GrowSize
<1> QED BY <1>1, <1>2, <1>3, MaxOfTwo

\* Every step of a writer keeps the types.
LEMMA WriterTyped ==
    ASSUME Typed, NEW w \in Writers,
           ReadBlock(w) \/ Replace(w) \/ ClearHash(w) \/ NewIteration(w) \/ PeekSize(w)
             \/ GrowSize(w)
    PROVE  Typed'
<1> USE DEF Typed, TypeOK, GotoW, file, hasher
<1>1. CASE ReadBlock(w)
  <2>1. job[w].index \in Indexes
    BY DEF Jobs
  <2>2. Modified(w, blocks[job[w].index]) \in Block
    BY <2>1, ModifiedTyped
  <2> QED BY <1>1, <2>2 DEF ReadBlock
<1>2. CASE Replace(w)
  <2>1. job[w].index \in Indexes
    BY DEF Jobs
  <2> QED BY <1>2, <2>1 DEF Replace
<1>3. CASE ClearHash(w)
  <2>1. Cardinality({}) <= 1
    BY FS_EmptySet
  <2> QED BY <1>3, <2>1 DEF ClearHash
<1>4. CASE NewIteration(w)
  BY <1>4 DEF NewIteration
<1>5. CASE PeekSize(w)
  BY <1>5 DEF PeekSize
<1>6. CASE GrowSize(w)
  <2>1. size' \in 0..(NumBlocks * BlockSize)
    BY <1>6, SizeGrows
  <2> QED BY <1>6, <2>1 DEF GrowSize
<1> QED BY <1>1, <1>2, <1>3, <1>4, <1>5, <1>6

\* Every step of a hasher keeps the types.
LEMMA HasherTyped ==
    ASSUME Typed, NEW h \in Hashers,
           Lookup(h) \/ Reread(h) \/ ComputeHash(h) \/ CheckIteration(h) \/ CommitHash(h)
    PROVE  Typed'
<1> USE DEF Typed, TypeOK, GotoH, file, writer
<1>1. CASE Lookup(h)
  BY <1>1 DEF Lookup
<1>2. CASE Reread(h)
  <2>1. size \in Nat
    OBVIOUS
  <2>2. hpc' \in [Hashers -> {"lookup", "reread", "hash", "check", "commit", "done", "failed"}]
    BY <1>2 DEF Reread
  <2>3. seen' \in [Hashers -> [iter : Writers \cup {None}, size : Nat]]
    BY <1>2, <2>1 DEF Reread
  <2> QED BY <1>2, <2>2, <2>3 DEF Reread
<1>3. CASE ComputeHash(h)
  BY <1>3 DEF ComputeHash
<1>4. CASE CheckIteration(h)
  BY <1>4 DEF CheckIteration
<1>5. CASE CommitHash(h)
  <2>1. Cardinality({Json(digest[h])}) <= 1
    <3>1. Cardinality({Json(digest[h])}) = 1
      BY FS_Singleton, Zenon
    <3> QED BY <3>1
  <2>2. Cardinality(full') <= 1
    BY <1>5, <2>1 DEF CommitHash
  <2>3. clean' \in [Hashers -> BOOLEAN]
    BY <1>5 DEF CommitHash
  <2>4. hpc' \in [Hashers -> {"lookup", "reread", "hash", "check", "commit", "done", "failed"}]
    BY <1>5 DEF CommitHash
  <2> QED BY <1>5, <2>2, <2>3, <2>4 DEF CommitHash
<1> QED BY <1>1, <1>2, <1>3, <1>4, <1>5

\* The types are inductive.
LEMMA TypedInductive ==
    ASSUME Typed, [Next]_vars
    PROVE  Typed'
<1>1. ASSUME NEW target \in 1..(NumBlocks * BlockSize), Allocate(target) PROVE Typed'
  BY <1>1, ConstantsAssumption DEF Allocate, Typed, TypeOK, writer, hasher
<1>2. CASE UNCHANGED vars
  BY <1>2 DEF vars, file, writer, hasher, Typed, TypeOK
<1> QED BY <1>1, <1>2, WriterTyped, HasherTyped DEF Next

-----------------------------------------------------------------------------
(***************************************************************************)
(* The size.                                                               *)
(***************************************************************************)

\* Every step keeps the blocks covered.
LEMMA CoveredInductive ==
    ASSUME Typed, BlocksCovered, [Next]_vars
    PROVE  BlocksCovered'
<1> SUFFICES ASSUME NEW b \in Indexes
             PROVE  \/ blocks'[b] = EmptyBlock
                    \/ b * BlockSize + Length(blocks'[b]) <= size'
                    \/ \E w \in Writers :
                        UnderWay(w)' /\ job'[w].index = b /\ new'[w] = blocks'[b]
  BY DEF BlocksCovered
<1> DEFINE End == b * BlockSize + Length(blocks[b])
<1>t. /\ wpc \in [Writers -> {"read", "replace", "clear", "iterate", "peek", "grow", "done"}]
      /\ blocks \in [Indexes -> Block] /\ new \in [Writers -> Block]
      /\ size \in Nat /\ End \in Nat
  <2>1. Length(blocks[b]) \in 0..BlockSize
    BY LengthBounded
  <2>2. End \in 0..(NumBlocks * BlockSize)
    BY <2>1, EndBounded
  <2> QED BY <2>2 DEF Typed, TypeOK
<1>0. \/ blocks[b] = EmptyBlock
      \/ End <= size
      \/ \E w \in Writers : UnderWay(w) /\ job[w].index = b /\ new[w] = blocks[b]
  BY DEF BlocksCovered
<1>1. ASSUME NEW w \in Writers, Replace(w)
      PROVE  \/ blocks'[b] = EmptyBlock
             \/ b * BlockSize + Length(blocks'[b]) <= size'
             \/ \E v \in Writers : UnderWay(v)' /\ job'[v].index = b /\ new'[v] = blocks'[b]
  <2>1. CASE job[w].index = b
    <3>1. UnderWay(w)' /\ job'[w].index = b /\ new'[w] = blocks'[b]
      BY <1>t, <1>1, <2>1 DEF Replace, GotoW, UnderWay
    <3> QED BY <3>1
  <2>2. CASE job[w].index # b
    <3>1. blocks'[b] = blocks[b] /\ size' = size
      BY <1>t, <1>1, <2>2 DEF Replace
    <3>2. ASSUME NEW v \in Writers, UnderWay(v) PROVE UnderWay(v)'
      BY <1>t, <1>1, <3>2 DEF Replace, GotoW, UnderWay
    <3> QED BY <1>0, <1>1, <3>1, <3>2 DEF Replace
  <2> QED BY <2>1, <2>2
<1>2. ASSUME blocks' = blocks, size' \in Nat, size' >= size, job' = job,
             \A v \in Writers : UnderWay(v) =>
                /\ new'[v] = new[v]
                /\ UnderWay(v)' \/ max_file_size(v) <= size'
      PROVE  \/ blocks'[b] = EmptyBlock
             \/ b * BlockSize + Length(blocks'[b]) <= size'
             \/ \E v \in Writers : UnderWay(v)' /\ job'[v].index = b /\ new'[v] = blocks'[b]
  <2>1. CASE blocks[b] = EmptyBlock
    BY <1>2, <2>1
  <2>2. CASE End <= size
    BY <1>t, <1>2, <2>2
  <2>3. ASSUME NEW v \in Writers, UnderWay(v), job[v].index = b, new[v] = blocks[b]
        PROVE  \/ End <= size'
               \/ UnderWay(v)' /\ job'[v].index = b /\ new'[v] = blocks'[b]
    BY <1>2, <2>3 DEF max_file_size
  <2> QED BY <1>0, <1>2, <2>1, <2>2, <2>3
<1> DEFINE Held == \A v \in Writers : UnderWay(v) =>
                     /\ new'[v] = new[v]
                     /\ UnderWay(v)' \/ max_file_size(v) <= size'
           Rest == blocks' = blocks /\ size' \in Nat /\ size' >= size /\ job' = job
<1>3. ASSUME NEW w \in Writers, ReadBlock(w) PROVE Rest /\ Held
  BY <1>t, <1>3 DEF ReadBlock, GotoW, UnderWay, file
<1>4. ASSUME NEW w \in Writers, ClearHash(w) \/ NewIteration(w) PROVE Rest /\ Held
  BY <1>t, <1>4 DEF ClearHash, NewIteration, GotoW, UnderWay
<1>5. ASSUME NEW w \in Writers, PeekSize(w) PROVE Rest /\ Held
  <2>1. max_file_size(w) \in 0..(NumBlocks * BlockSize)
    BY MaxFileSizeTyped
  <2>2. Rest /\ new' = new
    BY <1>t, <1>5 DEF PeekSize, file
  <2>3. UnderWay(w)' \/ max_file_size(w) <= size'
    BY <1>t, <1>5, <2>1 DEF PeekSize, GotoW, UnderWay, file
  <2>4. ASSUME NEW v \in Writers, v # w, UnderWay(v) PROVE UnderWay(v)'
    BY <1>t, <1>5, <2>4 DEF PeekSize, GotoW, UnderWay
  <2> QED BY <2>2, <2>3, <2>4
<1>6. ASSUME NEW w \in Writers, GrowSize(w) PROVE Rest /\ Held
  <2>1. /\ size' \in 0..(NumBlocks * BlockSize)
        /\ size' >= size /\ size' >= max_file_size(w)
        /\ max_file_size(w) \in 0..(NumBlocks * BlockSize)
    BY <1>6, SizeGrows, MaxFileSizeTyped
  <2>2. Rest /\ new' = new /\ max_file_size(w) <= size'
    BY <1>t, <1>6, <2>1 DEF GrowSize
  <2>4. ASSUME NEW v \in Writers, v # w, UnderWay(v) PROVE UnderWay(v)'
    BY <1>t, <1>6, <2>4 DEF GrowSize, GotoW, UnderWay
  <2> QED BY <2>2, <2>4
<1>7. ASSUME NEW h \in Hashers,
             Lookup(h) \/ Reread(h) \/ ComputeHash(h) \/ CheckIteration(h) \/ CommitHash(h)
      PROVE  Rest /\ Held
  <2>1. UNCHANGED <<blocks, size, wpc, job, new>>
    BY <1>7 DEF Lookup, Reread, ComputeHash, CheckIteration, CommitHash, file, writer
  <2> QED BY <1>t, <2>1 DEF UnderWay
<1>8. ASSUME NEW target \in 1..(NumBlocks * BlockSize), Allocate(target) PROVE Rest /\ Held
  BY <1>t, <1>8 DEF Allocate, writer, UnderWay
<1>9. CASE UNCHANGED vars
  <2>1. Rest /\ Held
    BY <1>t, <1>9 DEF vars, file, writer, UnderWay
  <2> QED BY <1>2, <2>1
<1> QED BY <1>1, <1>2, <1>3, <1>4, <1>5, <1>6, <1>7, <1>8, <1>9 DEF Next

-----------------------------------------------------------------------------
(***************************************************************************)
(* The change id.                                                          *)
(***************************************************************************)

\* A change id that was drawn stays drawn, and a hasher reads only such ids.
LEMMA DrawnInductive ==
    ASSUME Typed, IdsDrawn, [Next]_vars
    PROVE  IdsDrawn'
<1>t. /\ wpc \in [Writers -> {"read", "replace", "clear", "iterate", "peek", "grow", "done"}]
      /\ iter \in Writers \cup {None}
      /\ seen \in [Hashers -> [iter : Writers \cup {None}, size : Nat]]
  BY DEF Typed, TypeOK
<1>1. ASSUME NEW w \in Writers,
             ReadBlock(w) \/ Replace(w) \/ ClearHash(w) \/ NewIteration(w) \/ PeekSize(w)
               \/ GrowSize(w)
      PROVE  IdsDrawn'
  <2>1. ASSUME NEW v \in Writers, HasDrawn(v) PROVE HasDrawn(v)'
    BY <1>t, <1>1, <2>1 DEF HasDrawn, ReadBlock, Replace, ClearHash, NewIteration, PeekSize,
       GrowSize, GotoW
  <2>2. seen' = seen /\ (iter' = iter \/ (iter' = w /\ HasDrawn(w)'))
    BY <1>t, <1>1 DEF HasDrawn, ReadBlock, Replace, ClearHash, NewIteration, PeekSize,
       GrowSize, GotoW, file, hasher
  <2> QED BY <1>t, <2>1, <2>2 DEF IdsDrawn
<1>2. ASSUME NEW h \in Hashers,
             Lookup(h) \/ Reread(h) \/ ComputeHash(h) \/ CheckIteration(h) \/ CommitHash(h)
      PROVE  IdsDrawn'
  <2>1. wpc' = wpc /\ iter' = iter
    BY <1>2 DEF Lookup, Reread, ComputeHash, CheckIteration, CommitHash, file, writer
  <2>2. seen' = seen \/ seen' = [seen EXCEPT ![h] = [iter |-> iter, size |-> size]]
    BY <1>2 DEF Lookup, Reread, ComputeHash, CheckIteration, CommitHash
  <2> QED BY <1>t, <2>1, <2>2 DEF IdsDrawn, HasDrawn
<1>3. ASSUME NEW target \in 1..(NumBlocks * BlockSize), Allocate(target) PROVE IdsDrawn'
  BY <1>3 DEF Allocate, writer, hasher, IdsDrawn, HasDrawn
<1>4. CASE UNCHANGED vars
  BY <1>4 DEF vars, file, writer, hasher, IdsDrawn, HasDrawn
<1> QED BY <1>1, <1>2, <1>3, <1>4 DEF Next

\* Every step keeps what the change id tells: a writer that replaces a block
\* is then to draw an id, and the id it draws is one that no hasher has read.
LEMMA TellsInductive ==
    ASSUME Typed, IdsDrawn, ChangeIdTells, [Next]_vars
    PROVE  ChangeIdTells'
<1>t. /\ wpc \in [Writers -> {"read", "replace", "clear", "iterate", "peek", "grow", "done"}]
      /\ hpc \in [Hashers -> {"lookup", "reread", "hash", "check", "commit", "done", "failed"}]
      /\ iter \in Writers \cup {None} /\ DOMAIN digest = Hashers
      /\ seen \in [Hashers -> [iter : Writers \cup {None}, size : Nat]]
  BY DEF Typed, TypeOK
<1> SUFFICES ASSUME NEW h \in Hashers,
                    hpc'[h] \in {"check", "commit"}, seen'[h].iter = iter',
                    \A w \in Writers : wpc'[w] \notin {"clear", "iterate"}
             PROVE  digest'[h] = Digest(seen[h].size)'
  BY DEF ChangeIdTells
<1>1. ASSUME NEW w \in Writers, ReadBlock(w) \/ PeekSize(w) \/ GrowSize(w)
      PROVE  digest'[h] = Digest(seen[h].size)'
  <2>1. UNCHANGED <<hpc, seen, digest, iter, blocks>>
    BY <1>1 DEF ReadBlock, PeekSize, GrowSize, file, hasher
  <2>2. \A v \in Writers : wpc[v] \notin {"clear", "iterate"}
    BY <1>t, <1>1 DEF ReadBlock, PeekSize, GrowSize, GotoW
  <2>3. digest[h] = Digest(seen[h].size)
    BY <2>1, <2>2 DEF ChangeIdTells
  <2> QED BY <2>1, <2>3 DEF Digest
<1>2. ASSUME NEW w \in Writers, Replace(w) PROVE FALSE
  BY <1>t, <1>2 DEF Replace, GotoW
<1>3. ASSUME NEW w \in Writers, ClearHash(w) PROVE FALSE
  BY <1>t, <1>3 DEF ClearHash, GotoW
<1>4. ASSUME NEW w \in Writers, NewIteration(w) PROVE FALSE
  <2>1. seen[h].iter = w /\ w # None /\ wpc[w] = "iterate"
    BY <1>4, NoneAssumption DEF NewIteration, hasher
  <2> QED BY <2>1 DEF IdsDrawn, HasDrawn
<1>5. ASSUME NEW g \in Hashers,
             Lookup(g) \/ Reread(g) \/ ComputeHash(g) \/ CheckIteration(g) \/ CommitHash(g)
      PROVE  digest'[h] = Digest(seen[h].size)'
  <2>1. UNCHANGED <<wpc, iter, blocks>>
    BY <1>5 DEF Lookup, Reread, ComputeHash, CheckIteration, CommitHash, file, writer
  <2>2. CASE ComputeHash(g) /\ g = h
    <3>1. digest'[h] = Digest(seen[h].size) /\ seen' = seen
      BY <1>t, <2>2 DEF ComputeHash
    <3> QED BY <2>1, <3>1 DEF Digest
  <2>3. CASE ~(ComputeHash(g) /\ g = h)
    <3>1. hpc[h] \in {"check", "commit"} /\ seen'[h] = seen[h] /\ digest'[h] = digest[h]
      BY <1>t, <1>5, <2>3 DEF Lookup, Reread, ComputeHash, CheckIteration, CommitHash, GotoH
    <3>2. digest[h] = Digest(seen[h].size)
      BY <2>1, <3>1 DEF ChangeIdTells
    <3> QED BY <2>1, <3>1, <3>2 DEF Digest
  <2> QED BY <2>2, <2>3
<1>6. ASSUME UNCHANGED <<blocks, iter, writer, hasher>>
      PROVE  digest'[h] = Digest(seen[h].size)'
  <2>1. digest[h] = Digest(seen[h].size)
    BY <1>6 DEF ChangeIdTells, writer, hasher
  <2> QED BY <1>6, <2>1 DEF Digest, hasher
<1>7. ASSUME NEW target \in 1..(NumBlocks * BlockSize), Allocate(target)
      PROVE  UNCHANGED <<blocks, iter, writer, hasher>>
  BY <1>7 DEF Allocate
<1>8. CASE UNCHANGED vars
  BY <1>6, <1>8 DEF vars, file
<1> QED BY <1>1, <1>2, <1>3, <1>4, <1>5, <1>6, <1>7, <1>8 DEF Next

-----------------------------------------------------------------------------

\* The inductive invariant holds initially and is kept by every step.
LEMMA Invariance == Spec => []IInv
<1>1. Init => IInv
  <2> SUFFICES ASSUME Init PROVE IInv
    OBVIOUS
  <2>1. BlocksCovered
    BY DEF Init, BlocksCovered
  <2>2. IdsDrawn /\ ChangeIdTells
    BY DEF Init, IdsDrawn, ChangeIdTells
  <2> QED BY <2>1, <2>2, InitTyped DEF IInv
<1>2. IInv /\ [Next]_vars => IInv'
  BY TypedInductive, CoveredInductive, DrawnInductive, TellsInductive DEF IInv
<1> QED BY <1>1, <1>2, PTL DEF Spec

\* Type correctness: the size stays within the file's bound, the block that a
\* writer puts is a block, at most one full hash is stored.
THEOREM TypeCorrect == Spec => []TypeOK
<1>1. IInv => TypeOK
  BY DEF IInv, Typed
<1> QED BY <1>1, Invariance, PTL

\* Once the writers are done, the size of the file covers every block written,
\* in whatever order hb_write_data's writers peeked at the size and raised it.
THEOREM SizeCoversBlocks == Spec => []SizeCovers
<1>1. IInv => SizeCovers
  BY DEF IInv, BlocksCovered, SizeCovers
<1> QED BY <1>1, Invariance, PTL

\* The comparison of change ids in checked_write_of_file_hash tells whether
\* the blocks changed since the hash was computed, up to the writers that have
\* replaced a block and not drawn their id yet.
THEOREM ChangeIdIsReliable == Spec => []ChangeIdTells
<1>1. IInv => ChangeIdTells
  BY DEF IInv
<1> QED BY <1>1, Invariance, PTL

=============================================================================
