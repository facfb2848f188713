-------------------------- MODULE FileBlocksProofs --------------------------
(***************************************************************************)
(* Theorems about the bytes of a file: what the splitter and the merging   *)
(* of blocks do with one job, what a flush of several jobs does with a     *)
(* block, and, from these, that the blocks have the bytes of the reference *)
(* file and that a read finds them.  All numbers of bytes are counted from *)
(* the offset Off(b) of a block; products occur nowhere else.              *)
(***************************************************************************)
EXTENDS FileBlocks, TLAPS, SequenceTheorems, WellFoundedInduction

\* Where the block b begins in the file.
Off(b) == b * BlockSize

\* Offsets are numbers.
LEMMA OffNat == ASSUME NEW b \in Nat PROVE Off(b) \in Nat
BY ConstantsAssumption DEF Off

\* A block ends where the next one begins.
LEMMA OffNext == ASSUME NEW b \in Nat PROVE Off(b + 1) = Off(b) + BlockSize
BY ConstantsAssumption DEF Off

\* The first block begins where the file begins.
LEMMA OffZero == Off(0) = 0
BY ConstantsAssumption DEF Off

\* Offsets of blocks add up.
LEMMA OffSum == ASSUME NEW b \in Nat, NEW c \in Nat PROVE Off(b + c) = Off(b) + Off(c)
BY ConstantsAssumption DEF Off

\* A later block begins at or behind the end of an earlier one.
LEMMA OffLess == ASSUME NEW b \in Nat, NEW c \in Nat, b < c PROVE Off(b) + BlockSize <= Off(c)
<1>1. PICK d \in Nat : c = b + 1 + d
  <2>1. c - b - 1 \in Nat /\ c = b + 1 + (c - b - 1)
    OBVIOUS
  <2> QED BY <2>1
<1>2. c * BlockSize = b * BlockSize + BlockSize + d * BlockSize
  BY <1>1, ConstantsAssumption
<1>3. d * BlockSize \in Nat /\ b * BlockSize \in Nat
  BY ConstantsAssumption
<1> QED BY <1>2, <1>3, ConstantsAssumption DEF Off

\* BlockIndex: a position is an offset of a block and a rest within the block.
LEMMA DivMod ==
    ASSUME NEW x \in Nat
    PROVE  /\ x \div BlockSize \in Nat
           /\ x % BlockSize \in 0..(BlockSize - 1)
           /\ x = Off(x \div BlockSize) + (x % BlockSize)
BY ConstantsAssumption, Z3 DEF Off

\* The block that a position lies in is its quotient.
LEMMA DivUnique ==
    ASSUME NEW x \in Nat, NEW b \in Nat, Off(b) <= x, x < Off(b) + BlockSize
    PROVE  x \div BlockSize = b /\ x % BlockSize = x - Off(b)
<1>1. x \div BlockSize \in Nat /\ x % BlockSize \in 0..(BlockSize - 1)
        /\ x = Off(x \div BlockSize) + (x % BlockSize)
  BY DivMod
<1>2. BlockSize \in Nat /\ Off(b) \in Nat /\ Off(x \div BlockSize) \in Nat
  BY <1>1, OffNat, ConstantsAssumption
<1>3. ~(b < x \div BlockSize)
  BY <1>1, <1>2, OffLess
<1>4. ~(x \div BlockSize < b)
  BY <1>1, <1>2, OffLess
<1> QED BY <1>1, <1>2, <1>3, <1>4

\* A position lies in the block of its quotient.
LEMMA DivBounds ==
    ASSUME NEW x \in Nat
    PROVE  /\ x \div BlockSize \in Nat
           /\ Off(x \div BlockSize) \in Nat
           /\ Off(x \div BlockSize) <= x /\ x < Off(x \div BlockSize) + BlockSize
           /\ x % BlockSize = x - Off(x \div BlockSize)
<1>1. PICK q \in Nat, r \in 0..(BlockSize - 1) :
          x \div BlockSize = q /\ x % BlockSize = r /\ x = Off(q) + r
  BY DivMod
<1>2. Off(q) \in Nat /\ BlockSize \in Nat
  BY OffNat, ConstantsAssumption
<1> QED BY <1>1, <1>2

\* The minimum of two numbers.
LEMMA MinOfTwo ==
    ASSUME NEW a \in Int, NEW b \in Int
    PROVE  Min({a, b}) = IF a <= b THEN a ELSE b
<1>1. \E x \in {a, b} : \A y \in {a, b} : x =< y
  OBVIOUS
<1> QED BY <1>1 DEF Min

\* The maximum of two numbers.
LEMMA MaxOfTwo ==
    ASSUME NEW a \in Int, NEW b \in Int
    PROVE  Max({a, b}) = IF a <= b THEN b ELSE a
<1>1. \E x \in {a, b} : \A y \in {a, b} : x >= y
  OBVIOUS
<1> QED BY <1>1 DEF Max

\* What lies behind a job.
End(job) == job.start + Len(job.data)

\* The job writes the byte i of the file.
Covers(job, i) == job.start < i /\ i <= End(job)

\* A job has a place in the file and at least one byte.
LEMMA JobFacts ==
    ASSUME NEW job \in Jobs
    PROVE  /\ job.start \in Nat
           /\ job.data \in Seq(Nat)
           /\ Len(job.data) \in Nat \ {0}
           /\ End(job) \in Nat
<1>1. job.start \in 0..MaxLen /\ job.data \in Data(MaxWrite)
  BY DEF Jobs
<1>2. PICK k \in 1..MaxWrite : job.data \in [1..k -> Bytes]
  BY <1>1 DEF Data
<1>3. k \in Nat \ {0}
  BY ConstantsAssumption
<1>4. job.data \in [1..k -> Nat]
  BY <1>2, ConstantsAssumption
<1>5. job.data \in Seq(Nat) /\ Len(job.data) = k
  BY <1>3, <1>4
<1> QED BY <1>1, <1>3, <1>5, ConstantsAssumption DEF End

\* The blocks of get_range are those that the bytes of the job lie in.
LEMMA RangeMeaning ==
    ASSUME NEW job \in Jobs, NEW b \in Nat
    PROVE  b \in get_range(job) <=> Off(b) < End(job) /\ job.start < Off(b) + BlockSize
<1> DEFINE first == job.start \div BlockSize
           last == (job.start + Len(job.data) - 1) \div BlockSize
<1>1. /\ job.start \in Nat /\ End(job) \in Nat /\ End(job) > job.start
      /\ End(job) - 1 = job.start + Len(job.data) - 1
  BY JobFacts DEF End
<1>2. /\ first \in Nat /\ Off(first) \in Nat
      /\ Off(first) <= job.start /\ job.start < Off(first) + BlockSize
  BY <1>1, DivBounds
<1>3. /\ last \in Nat /\ Off(last) \in Nat
      /\ Off(last) <= End(job) - 1 /\ End(job) - 1 < Off(last) + BlockSize
  <2>1. End(job) - 1 \in Nat
    BY <1>1
  <2> QED BY <1>1, <2>1, DivBounds
<1>4. BlockSize \in Nat /\ Off(b) \in Nat
  BY OffNat, ConstantsAssumption
<1>5. b \in get_range(job) <=> first <= b /\ b <= last
  BY <1>2, <1>3 DEF get_range
<1> HIDE DEF first, last
<1>6. first <= b <=> job.start < Off(b) + BlockSize
  <2>1. CASE b < first
    <3>1. Off(b) + BlockSize <= Off(first)
      BY <1>2, <2>1, OffLess
    <3> QED BY <1>1, <1>2, <1>4, <2>1, <3>1
  <2>2. CASE first <= b
    <3>1. Off(first) <= Off(b)
      BY <1>2, <1>4, <2>2, OffLess
    <3> QED BY <1>1, <1>2, <1>4, <2>2, <3>1
  <2> QED BY <1>2, <2>1, <2>2
<1>7. b <= last <=> Off(b) < End(job)
  <2>1. CASE last < b
    <3>1. Off(last) + BlockSize <= Off(b)
      BY <1>3, <2>1, OffLess
    <3> QED BY <1>1, <1>3, <1>4, <2>1, <3>1
  <2>2. CASE b <= last
    <3>1. Off(b) <= Off(last)
      BY <1>3, <1>4, <2>2, OffLess
    <3> QED BY <1>1, <1>3, <1>4, <2>2, <3>1
  <2> QED BY <1>3, <2>1, <2>2
<1> QED BY <1>5, <1>6, <1>7

-----------------------------------------------------------------------------
(***************************************************************************)
(* How a job is split.                                                     *)
(***************************************************************************)

\* How much of the job lies before its first whole block.
Skip(job) ==
    LET length == Min({BlockSize - (job.start % BlockSize), Len(job.data)})
    IN IF length = BlockSize THEN 0 ELSE length

\* A job is cut at the block boundaries: the first part, if there is any,
\* ends at one or with the job, the whole blocks follow, and what is left is
\* less than a block.
LEMMA SplitShape ==
    ASSUME NEW job \in Jobs, NEW s, s = Split(job)
    PROVE  /\ s.first \in Nat /\ s.pos \in 0..(BlockSize - 1)
           /\ job.start = Off(s.first) + s.pos
           /\ s.mid \in Nat /\ s.full \in Nat /\ s.last = s.mid + s.full
           /\ Skip(job) \in 0..Len(job.data) /\ Skip(job) <= BlockSize - s.pos
           /\ Skip(job) = 0 => s.pos = 0 /\ s.mid = s.first
           /\ Skip(job) > 0 => s.mid = s.first + 1
           /\ Skip(job) < Len(job.data) => Off(s.mid) = job.start + Skip(job)
           /\ Skip(job) = Len(job.data) => s.full = 0
           /\ s.first_data = SubSeq(job.data, 1, Skip(job))
           /\ Off(s.full) <= Len(job.data) - Skip(job)
           /\ Len(job.data) - Skip(job) < Off(s.full) + BlockSize
           /\ s.mid_data = SubSeq(SubSeq(job.data, Skip(job) + 1, Len(job.data)), 1, Off(s.full))
           /\ s.last_data = SubSeq(SubSeq(job.data, Skip(job) + 1, Len(job.data)), Off(s.full) + 1,
                                   Len(job.data) - Skip(job))
<1> DEFINE n == Len(job.data)
           index == job.start \div BlockSize
           pos == job.start % BlockSize
           length == Min({BlockSize - pos, n})
           regular == length = BlockSize
           rest == IF regular THEN job.data ELSE SubSeq(job.data, length + 1, n)
           mid == IF regular THEN index ELSE index + 1
           full == Len(rest) \div BlockSize
           cut == SubSeq(job.data, Skip(job) + 1, n)
<1>1. /\ job.start \in Nat /\ job.data \in Seq(Nat) /\ n \in Nat \ {0}
      /\ BlockSize \in Nat \ {0}
  BY JobFacts, ConstantsAssumption
<1>2. index \in Nat /\ pos \in 0..(BlockSize - 1) /\ job.start = Off(index) + pos
  BY <1>1, DivMod
<1> HIDE DEF index, pos
<1>3. length = IF BlockSize - pos <= n THEN BlockSize - pos ELSE n
  <2>1. BlockSize - pos \in Int /\ n \in Int
    BY <1>1, <1>2
  <2> HIDE DEF n
  <2> QED BY <2>1, MinOfTwo
<1>4. Skip(job) = IF regular THEN 0 ELSE length
  BY DEF Skip, pos
<1>5. /\ s.first = index /\ s.pos = pos /\ s.mid = mid /\ s.full = full /\ s.last = mid + full
      /\ s.first_data = IF regular THEN <<>> ELSE SubSeq(job.data, 1, length)
      /\ s.mid_data = SubSeq(rest, 1, full * BlockSize)
      /\ s.last_data = SubSeq(rest, full * BlockSize + 1, Len(rest))
  BY DEF Split, index, pos
<1> HIDE DEF length
<1>6. rest = cut
  <2>1. CASE regular
    <3>1. SubSeq(job.data, 1, Len(job.data)) = job.data
      BY <1>1, SubSeqFull
    <3> QED BY <1>1, <1>4, <2>1, <3>1
  <2> QED BY <1>4, <2>1
<1>7. Skip(job) \in 0..n /\ Skip(job) <= BlockSize - pos
  BY <1>1, <1>2, <1>3, <1>4
<1>8. cut \in Seq(Nat) /\ Len(cut) = n - Skip(job)
  <2>1. Skip(job) + 1 \in 1..(n + 1)
    BY <1>1, <1>7
  <2>2. \A k \in (Skip(job) + 1)..n : job.data[k] \in Nat
    BY <1>1, <2>1
  <2> QED BY <1>1, <1>7, <2>1, SubSeqProperties
<1>9. /\ full \in Nat /\ Off(full) <= n - Skip(job)
      /\ n - Skip(job) < Off(full) + BlockSize
  <2>1. n - Skip(job) \in Nat
    BY <1>1, <1>7
  <2>2. full = (n - Skip(job)) \div BlockSize
    BY <1>6, <1>8
  <2>3. full \in Nat /\ Off(full) \in Nat
    BY <2>1, <2>2, DivMod, OffNat
  <2>4. Off((n - Skip(job)) \div BlockSize) <= n - Skip(job)
          /\ n - Skip(job) < Off((n - Skip(job)) \div BlockSize) + BlockSize
    BY <2>1, DivBounds
  <2> QED BY <2>2, <2>3, <2>4
<1>10. Skip(job) = 0 => pos = 0 /\ regular
  BY <1>1, <1>2, <1>3, <1>4
<1>11. Skip(job) > 0 => ~regular
  BY <1>4
<1>12. Skip(job) < n => Off(mid) = job.start + Skip(job)
  <2>1. Off(index + 1) = Off(index) + BlockSize /\ Off(index) \in Nat
    BY <1>2, OffNext, OffNat
  <2> QED BY <1>1, <1>2, <1>3, <1>4, <2>1
<1>13. Skip(job) = n => full = 0
  <2> HIDE DEF full, n
  <2>1. ASSUME Skip(job) = n, full > 0 PROVE FALSE
    <3>1. Off(0) + BlockSize <= Off(full) /\ Off(0) = 0
      BY <1>9, <2>1, OffLess, OffZero
    <3>2. Off(full) \in Nat /\ Off(full) <= 0
      BY <1>1, <1>7, <1>9, <2>1, OffNat
    <3> QED BY <1>1, <3>1, <3>2
  <2> QED BY <1>9, <2>1
<1>14. s.first_data = SubSeq(job.data, 1, Skip(job))
  <2>1. SubSeq(job.data, 1, 0) = <<>>
    BY <1>1
  <2> QED BY <1>4, <1>5, <2>1
<1>15. /\ s.mid_data = SubSeq(cut, 1, Off(full))
       /\ s.last_data = SubSeq(cut, Off(full) + 1, n - Skip(job))
  BY <1>5, <1>6, <1>8 DEF Off
<1>16. mid \in Nat
  BY <1>2
<1> HIDE DEF rest, full, cut, mid, regular
<1>17. s.mid = IF Skip(job) = 0 THEN index ELSE index + 1
  BY <1>5, <1>10, <1>11, <1>7 DEF mid
<1>18. s.full = full /\ s.last = s.mid + s.full /\ s.first = index /\ s.pos = pos /\ s.mid = mid
  BY <1>5
<1>19. Skip(job) > 0 => s.mid = s.first + 1
  BY <1>17, <1>18
<1> QED BY <1>2, <1>7, <1>9, <1>10, <1>12, <1>13, <1>14, <1>15, <1>16, <1>17, <1>18, <1>19 DEF cut

\* The k-th byte of a block; what a block does not have reads as zero.
Byte(block, k) == IF k <= Len(block) THEN block[k] ELSE 0

\* The byte i of the file, which is the byte k of a block, after a job.
MergedByte(job, i, block, k) ==
    IF Covers(job, i) THEN job.data[i - job.start] ELSE Byte(block, k)

\* `new` is the block at b with the bytes of the job in their places.
Merged(job, b, new) ==
    /\ b \in get_range(job)
    /\ new \in Seq(Nat) /\ Len(new) <= BlockSize
    /\ Off(b) + Len(new) <= End(job) \/ Len(new) = Len(blocks[b])
    /\ Off(b) + Len(new) >= End(job) \/ Len(new) = BlockSize
    /\ \A k \in 1..BlockSize : Byte(new, k) = MergedByte(job, Off(b) + k, blocks[b], k)

\* update_data_range_in_vec puts the data at its position and leaves the
\* rest, filling a gap with zeros.
LEMMA UpdatedBytes ==
    ASSUME NEW dest \in Seq(Nat), NEW data \in Seq(Nat), NEW pos \in Nat,
           NEW new, new = Updated(dest, pos, data)
    PROVE  /\ new \in Seq(Nat)
           /\ Len(new) = IF Len(dest) <= pos + Len(data) THEN pos + Len(data) ELSE Len(dest)
           /\ \A k \in Nat \ {0} :
                Byte(new, k) = IF pos < k /\ k <= pos + Len(data) THEN data[k - pos]
                               ELSE Byte(dest, k)
<1> DEFINE n == IF Len(dest) <= pos + Len(data) THEN pos + Len(data) ELSE Len(dest)
<1>1. Len(dest) \in Nat /\ Len(data) \in Nat /\ n \in Nat
  OBVIOUS
<1>2. Max({Len(dest), pos + Len(data)}) = n
  <2> DEFINE e == pos + Len(data)
  <2>1. Len(dest) \in Int /\ e \in Int
    BY <1>1
  <2> HIDE DEF e
  <2>2. Max({Len(dest), e}) = IF Len(dest) <= e THEN e ELSE Len(dest)
    BY <2>1, MaxOfTwo
  <2> QED BY <2>2 DEF e
<1>3. new = [i \in 1..n |-> IF i \in (pos + 1)..(pos + Len(data)) THEN data[i - pos]
                            ELSE IF i <= Len(dest) THEN dest[i] ELSE 0]
  BY <1>2 DEF Updated
<1>4. \A i \in 1..n : new[i] \in Nat
  BY <1>1, <1>3
<1>5. new \in Seq(Nat) /\ Len(new) = n
  BY <1>1, <1>3, <1>4
<1>6. ASSUME NEW k \in Nat \ {0}
      PROVE  Byte(new, k) = IF pos < k /\ k <= pos + Len(data) THEN data[k - pos]
                            ELSE Byte(dest, k)
  <2>1. CASE k <= n
    <3>1. k \in 1..n
      BY <1>1, <2>1
    <3> QED BY <1>1, <1>3, <1>5, <2>1, <3>1 DEF Byte
  <2>2. CASE k > n
    BY <1>1, <1>5, <2>2 DEF Byte
  <2> QED BY <1>1, <2>1, <2>2
<1> QED BY <1>5, <1>6

\* A part of a sequence of bytes.
LEMMA SubSeqBytes ==
    ASSUME NEW data \in Seq(Nat), NEW m \in Nat, NEW n \in Nat, n <= Len(data), m <= n
    PROVE  /\ SubSeq(data, m + 1, n) \in Seq(Nat)
           /\ Len(SubSeq(data, m + 1, n)) = n - m
           /\ \A k \in 1..(n - m) : SubSeq(data, m + 1, n)[k] = data[m + k]
<1>1. \A k \in (m + 1)..n : data[k] \in Nat
  OBVIOUS
<1> QED BY <1>1, SubSeqProperties

\* The job lies in a block at the place that the two numbers say.
LEMMA MergedBytes ==
    ASSUME NEW job \in Jobs, NEW b \in Nat, NEW new \in Seq(Nat),
           NEW o \in Nat, Off(b) = o,
           NEW st \in Nat, job.start = st, NEW en \in Nat, End(job) = en,
           o < en, st < o + BlockSize,
           Len(new) <= BlockSize,
           o + Len(new) <= en \/ Len(new) = Len(blocks[b]),
           o + Len(new) >= en \/ Len(new) = BlockSize,
           \A k \in 1..BlockSize :
              Byte(new, k) = IF st < o + k /\ o + k <= en THEN job.data[o + k - st]
                             ELSE Byte(blocks[b], k)
    PROVE  Merged(job, b, new)
<1>1. b \in get_range(job)
  BY RangeMeaning
<1>2. \A k \in 1..BlockSize : Covers(job, Off(b) + k) <=> st < o + k /\ o + k <= en
  BY DEF Covers
<1>3. \A k \in 1..BlockSize : Byte(new, k) = MergedByte(job, Off(b) + k, blocks[b], k)
  BY <1>2 DEF MergedByte
<1> QED BY <1>1, <1>3 DEF Merged

\* The numbers of a split job, and its parts as parts of its data.
CutAt(job, data, st, n, first, pos, mid, full, ofull, skip) ==
    /\ st = job.start /\ data = job.data /\ n = Len(data) /\ n > 0
    /\ End(job) = st + n
    /\ Split(job).first = first /\ Split(job).pos = pos
    /\ Split(job).mid = mid /\ Split(job).full = full
    /\ Split(job).last = mid + full /\ ofull = Off(full)
    /\ pos < BlockSize /\ st = Off(first) + pos
    /\ skip <= n /\ skip <= BlockSize - pos
    /\ skip = 0 => pos = 0 /\ mid = first
    /\ skip > 0 => mid = first + 1
    /\ skip < n => Off(mid) = st + skip
    /\ skip = n => full = 0
    /\ ofull <= n - skip /\ n - skip < ofull + BlockSize
    /\ Split(job).first_data = SubSeq(data, 1, skip)
    /\ Split(job).mid_data = SubSeq(SubSeq(data, skip + 1, n), 1, ofull)
    /\ Split(job).last_data = SubSeq(SubSeq(data, skip + 1, n), ofull + 1, n - skip)

\* Every job is cut.
LEMMA SplitNumbers ==
    ASSUME NEW job \in Jobs
    PROVE  \E data \in Seq(Nat) : \E st, n, first, pos, mid, full, ofull, skip \in Nat :
             CutAt(job, data, st, n, first, pos, mid, full, ofull, skip)
<1> DEFINE s == Split(job)
<1>1. /\ job.start \in Nat /\ job.data \in Seq(Nat) /\ Len(job.data) \in Nat /\ Len(job.data) > 0
      /\ End(job) = job.start + Len(job.data)
  BY JobFacts DEF End
<1>2. s.first \in Nat /\ s.pos \in Nat /\ s.pos < BlockSize /\ s.mid \in Nat /\ s.full \in Nat
  BY SplitShape, ConstantsAssumption
<1>3. Off(s.full) \in Nat
  BY <1>2, OffNat
<1>4. Skip(job) \in Nat /\ Skip(job) <= Len(job.data)
  BY <1>1, SplitShape
<1>5. CutAt(job, job.data, job.start, Len(job.data), s.first, s.pos, s.mid, s.full, Off(s.full),
            Skip(job))
  <2>1. /\ s.last = s.mid + s.full /\ job.start = Off(s.first) + s.pos
        /\ Skip(job) <= BlockSize - s.pos
        /\ Skip(job) = 0 => s.pos = 0 /\ s.mid = s.first
        /\ Skip(job) > 0 => s.mid = s.first + 1
        /\ Skip(job) < Len(job.data) => Off(s.mid) = job.start + Skip(job)
        /\ Skip(job) = Len(job.data) => s.full = 0
        /\ Off(s.full) <= Len(job.data) - Skip(job)
        /\ Len(job.data) - Skip(job) < Off(s.full) + BlockSize
    BY SplitShape
  <2>2. /\ s.first_data = SubSeq(job.data, 1, Skip(job))
        /\ s.mid_data = SubSeq(SubSeq(job.data, Skip(job) + 1, Len(job.data)), 1, Off(s.full))
        /\ s.last_data = SubSeq(SubSeq(job.data, Skip(job) + 1, Len(job.data)), Off(s.full) + 1,
                                Len(job.data) - Skip(job))
    BY SplitShape
  <2> QED BY <1>1, <1>2, <1>4, <2>1, <2>2, Zenon DEF CutAt
<1> HIDE DEF s
<1> QED BY <1>1, <1>2, <1>3, <1>4, <1>5, Zenon

\* A block that a job writes whole has the bytes of the job.
LEMMA WholeMerged ==
    ASSUME NEW job \in Jobs, NEW b \in BlockIndexes, Whole(Split(job), b),
           blocks[b] \in Seq(Nat)
    PROVE  Merged(job, b, WholeBlock(Split(job), b))
<1>1. BlockSize \in Nat /\ BlockSize > 0
  BY ConstantsAssumption
<1>2. PICK data \in Seq(Nat) : \E st, n, first, pos, mid, full, ofull, skip \in Nat :
        CutAt(job, data, st, n, first, pos, mid, full, ofull, skip)
  BY SplitNumbers
<1>3. PICK st, n, first, pos, mid, full, ofull, skip \in Nat :
        CutAt(job, data, st, n, first, pos, mid, full, ofull, skip)
  BY <1>2
<1> DEFINE rest == SubSeq(data, skip + 1, n)
           parts == SubSeq(rest, 1, ofull)
           new == WholeBlock(Split(job), b)
<1>4. b \in Nat /\ mid <= b /\ b < mid + full
  <2>1. Split(job).mid = mid /\ Split(job).full = full
    BY <1>3 DEF CutAt
  <2> QED BY <2>1 DEF Whole, BlockIndexes
<1>5. PICK d \in Nat : b = mid + d /\ d < full
  <2>1. b - mid \in Nat /\ b = mid + (b - mid) /\ b - mid < full
    BY <1>4
  <2> QED BY <2>1
<1>6. PICK od \in Nat : od = Off(d)
  BY OffNat
<1>7. od + BlockSize <= ofull
  <2>1. ofull = Off(full)
    BY <1>3 DEF CutAt
  <2> QED BY <1>5, <1>6, <2>1, OffLess
<1>8. skip < n
  <2>1. skip <= n /\ (skip = n => full = 0)
    BY <1>3 DEF CutAt
  <2> QED BY <1>5, <2>1
<1>9. PICK o \in Nat : o = Off(b) /\ o = st + skip + od
  <2>1. Off(b) = Off(mid) + od
    BY <1>5, <1>6, OffSum
  <2>2. Off(mid) = st + skip
    BY <1>3, <1>8 DEF CutAt
  <2> QED BY <2>1, <2>2
<1>10. skip + ofull <= n /\ n = Len(data)
  <2>1. ofull <= n - skip /\ n = Len(data)
    BY <1>3 DEF CutAt
  <2> QED BY <2>1
<1>11. PICK en \in Nat : en = End(job) /\ en = st + n
  BY <1>3 DEF CutAt
<1>12. new = SubSeq(parts, od + 1, od + BlockSize)
  <2>1. b - mid = d /\ b - mid + 1 = d + 1
    BY <1>5
  <2>2. d * BlockSize = od /\ (d + 1) * BlockSize = od + BlockSize
    BY <1>1, <1>6 DEF Off
  <2>3. Split(job).mid = mid /\ Split(job).mid_data = parts
    BY <1>3 DEF CutAt
  <2> QED BY <2>1, <2>2, <2>3 DEF WholeBlock
<1>13. /\ rest \in Seq(Nat) /\ Len(rest) = n - skip
       /\ \A k \in 1..(n - skip) : rest[k] = data[skip + k]
  <2>1. skip <= n /\ n <= Len(data)
    BY <1>8, <1>10
  <2> QED BY <2>1, SubSeqBytes
<1> HIDE DEF rest
<1>14. /\ parts \in Seq(Nat) /\ Len(parts) = ofull
       /\ \A k \in 1..ofull : parts[k] = rest[k]
  <2>1. ofull <= Len(rest) /\ 0 <= ofull /\ 0 + 1 = 1 /\ ofull - 0 = ofull
    BY <1>8, <1>10, <1>13
  <2>2. /\ SubSeq(rest, 0 + 1, ofull) \in Seq(Nat)
        /\ Len(SubSeq(rest, 0 + 1, ofull)) = ofull - 0
        /\ \A k \in 1..(ofull - 0) : SubSeq(rest, 0 + 1, ofull)[k] = rest[0 + k]
    BY <1>13, <2>1, SubSeqBytes
  <2> QED BY <2>1, <2>2
<1> HIDE DEF parts
<1>15. /\ new \in Seq(Nat) /\ Len(new) = BlockSize
       /\ \A k \in 1..BlockSize : new[k] = parts[od + k]
  <2>1. od + BlockSize \in Nat /\ od + BlockSize <= Len(parts) /\ od <= od + BlockSize
    BY <1>1, <1>7, <1>14
  <2>2. (od + BlockSize) - od = BlockSize
    BY <1>1
  <2> DEFINE e == od + BlockSize
  <2> HIDE DEF new, e
  <2>3. e \in Nat /\ e <= Len(parts) /\ od <= e /\ e - od = BlockSize
    BY <2>1, <2>2 DEF e
  <2>4. /\ SubSeq(parts, od + 1, e) \in Seq(Nat)
        /\ Len(SubSeq(parts, od + 1, e)) = e - od
        /\ \A k \in 1..(e - od) : SubSeq(parts, od + 1, e)[k] = parts[od + k]
    <3>1. parts \in Seq(Nat)
      BY <1>14
    <3> QED BY <2>3, <3>1, SubSeqBytes
  <2> QED BY <1>12, <2>3, <2>4 DEF e
<1> HIDE DEF new
<1>16. ASSUME NEW k \in 1..BlockSize
       PROVE  /\ Byte(new, k) = data[o + k - st]
              /\ st < o + k /\ o + k <= en
  <2>1. od + k \in 1..ofull /\ od + k \in 1..(n - skip)
    BY <1>1, <1>7, <1>10
  <2>2. new[k] = data[skip + (od + k)]
    BY <1>13, <1>14, <1>15, <2>1
  <2>3. skip + (od + k) = o + k - st
    BY <1>1, <1>9
  <2>4. Byte(new, k) = new[k]
    BY <1>1, <1>15 DEF Byte
  <2> QED BY <1>1, <1>9, <1>11, <2>1, <2>2, <2>3, <2>4
<1>17. o < en /\ st < o + BlockSize /\ o + BlockSize <= en
  BY <1>1, <1>7, <1>8, <1>9, <1>10, <1>11
<1>18. job.start = st /\ job.data = data
  BY <1>3 DEF CutAt
<1>19. Merged(job, b, new)
  <2>1. \A k \in 1..BlockSize :
           Byte(new, k) = IF st < o + k /\ o + k <= en THEN job.data[o + k - st]
                          ELSE Byte(blocks[b], k)
    BY <1>16, <1>18
  <2>2. Len(new) <= BlockSize /\ o + Len(new) <= en
    BY <1>1, <1>15, <1>17
  <2>3. new \in Seq(Nat) /\ Len(new) = BlockSize
    BY <1>15
  <2> QED BY <1>4, <1>9, <1>11, <1>17, <1>18, <2>1, <2>2, <2>3, MergedBytes
<1> QED BY <1>19 DEF new

\* The part of a job that lies in its first block, merged into it.
LEMMA FirstMerged ==
    ASSUME NEW job \in Jobs, NEW b \in BlockIndexes,
           b = Split(job).first, Split(job).first_data # <<>>,
           blocks[b] \in Seq(Nat), Len(blocks[b]) <= BlockSize
    PROVE  Merged(job, b, PartBlock(Split(job), b))
<1>1. BlockSize \in Nat /\ BlockSize > 0
  BY ConstantsAssumption
<1>2. PICK data \in Seq(Nat) : \E st, n, first, pos, mid, full, ofull, skip \in Nat :
        CutAt(job, data, st, n, first, pos, mid, full, ofull, skip)
  BY SplitNumbers
<1>3. PICK st, n, first, pos, mid, full, ofull, skip \in Nat :
        CutAt(job, data, st, n, first, pos, mid, full, ofull, skip)
  BY <1>2
<1> DEFINE part == SubSeq(data, 1, skip)
           old == blocks[b]
           new == PartBlock(Split(job), b)
<1>4. b \in Nat
  BY ConstantsAssumption DEF BlockIndexes
<1>5. PICK o \in Nat : o = Off(b) /\ st = o + pos
  <2>1. st = Off(first) + pos /\ Split(job).first = first
    BY <1>3 DEF CutAt
  <2> QED BY <1>4, <2>1, OffNat
<1>6. PICK en \in Nat : en = End(job) /\ en = st + n
  BY <1>3 DEF CutAt
<1>7. skip <= n /\ n = Len(data) /\ n > 0 /\ pos < BlockSize /\ skip <= BlockSize - pos
  BY <1>3 DEF CutAt
<1>8. /\ part \in Seq(Nat) /\ Len(part) = skip
      /\ \A k \in 1..skip : part[k] = data[k]
  <2>1. skip <= Len(data) /\ 0 <= skip /\ 0 + 1 = 1 /\ skip - 0 = skip
    BY <1>7
  <2>2. /\ SubSeq(data, 0 + 1, skip) \in Seq(Nat)
        /\ Len(SubSeq(data, 0 + 1, skip)) = skip - 0
        /\ \A k \in 1..(skip - 0) : SubSeq(data, 0 + 1, skip)[k] = data[0 + k]
    BY <2>1, SubSeqBytes
  <2> QED BY <2>1, <2>2
<1>9. Split(job).first_data = part /\ Split(job).pos = pos
  BY <1>3 DEF CutAt
<1> HIDE DEF part
<1>10. new = Updated(old, pos, part)
  BY <1>9 DEF PartBlock
<1>11. skip > 0
  BY <1>8, <1>9
<1>12. skip = n \/ pos + skip = BlockSize
  <2>1. CASE skip < n
    <3>1. Off(mid) = st + skip /\ mid = b + 1
      BY <1>3, <1>11, <2>1 DEF CutAt
    <3>2. Off(b + 1) = o + BlockSize
      BY <1>4, <1>5, OffNext
    <3> QED BY <1>1, <1>5, <3>1, <3>2
  <2> QED BY <1>7, <2>1
<1> HIDE DEF new, old
<1>13. old \in Seq(Nat) /\ Len(old) \in Nat /\ Len(old) <= BlockSize
  BY DEF old
<1>14. /\ new \in Seq(Nat)
       /\ Len(new) = IF Len(old) <= pos + skip THEN pos + skip ELSE Len(old)
       /\ \A k \in Nat \ {0} :
             Byte(new, k) = IF pos < k /\ k <= pos + skip THEN part[k - pos] ELSE Byte(old, k)
  <2>1. part \in Seq(Nat) /\ Len(part) = skip
    BY <1>8
  <2>2. /\ new \in Seq(Nat)
        /\ Len(new) = IF Len(old) <= pos + Len(part) THEN pos + Len(part) ELSE Len(old)
        /\ \A k \in Nat \ {0} :
              Byte(new, k) = IF pos < k /\ k <= pos + Len(part) THEN part[k - pos]
                             ELSE Byte(old, k)
    <3>1. part \in Seq(Nat) /\ old \in Seq(Nat)
      BY <1>13, <2>1
    <3> QED BY <1>10, <3>1, UpdatedBytes
  <2> QED BY <2>1, <2>2
<1>15. ASSUME NEW k \in 1..BlockSize
       PROVE  Byte(new, k) = IF st < o + k /\ o + k <= en THEN data[o + k - st] ELSE Byte(old, k)
  <2>1. st < o + k /\ o + k <= en <=> pos < k /\ k <= pos + skip
    <3>1. st = o + pos /\ en = o + pos + n /\ skip <= n
      BY <1>5, <1>6, <1>7
    <3>2. k \in Nat /\ k <= BlockSize
      BY <1>1
    <3> QED BY <1>1, <1>12, <3>1, <3>2
  <2>2. k \in Nat \ {0}
    BY <1>1
  <2>3. CASE pos < k /\ k <= pos + skip
    <3>1. k - pos \in 1..skip /\ k - pos = o + k - st
      BY <1>5, <2>2, <2>3
    <3>2. Byte(new, k) = part[k - pos]
      BY <1>14, <2>2, <2>3
    <3> QED BY <1>8, <2>1, <2>3, <3>1, <3>2
  <2>4. CASE ~(pos < k /\ k <= pos + skip)
    BY <1>14, <2>1, <2>2, <2>4
  <2> QED BY <2>3, <2>4
<1>16. o < en /\ st < o + BlockSize
  BY <1>1, <1>5, <1>6, <1>7
<1>17. /\ Len(new) <= BlockSize
       /\ o + Len(new) <= en \/ Len(new) = Len(old)
       /\ o + Len(new) >= en \/ Len(new) = BlockSize
  <2>1. Len(new) = IF Len(old) <= pos + skip THEN pos + skip ELSE Len(old)
    BY <1>14
  <2>2. skip <= n /\ pos + skip <= BlockSize
    BY <1>1, <1>7
  <2>3. PICK l \in Nat, t \in Nat : l = Len(old) /\ l <= BlockSize /\ t = Len(new)
    BY <1>13, <1>14
  <2>4. t = IF l <= pos + skip THEN pos + skip ELSE l
    BY <2>1, <2>3
  <2>5. t <= BlockSize /\ (o + t <= en \/ t = l) /\ (o + t >= en \/ t = BlockSize)
    <3>1. en = o + pos + n
      BY <1>5, <1>6
    <3>2. l <= BlockSize
      BY <2>3
    <3> QED BY <1>1, <1>12, <2>2, <2>4, <3>1, <3>2
  <2> QED BY <2>3, <2>5
<1>18. job.start = st /\ job.data = data
  BY <1>3 DEF CutAt
<1>19. Merged(job, b, new)
  <2>1. \A k \in 1..BlockSize :
           Byte(new, k) = IF st < o + k /\ o + k <= en THEN job.data[o + k - st]
                          ELSE Byte(blocks[b], k)
    BY <1>15, <1>18 DEF old
  <2>2. new \in Seq(Nat)
    BY <1>14
  <2>3. o + Len(new) <= en \/ Len(new) = Len(blocks[b])
    BY <1>17 DEF old
  <2> QED BY <1>4, <1>5, <1>6, <1>16, <1>17, <1>18, <2>1, <2>2, <2>3, MergedBytes
<1> QED BY <1>19 DEF new

\* The part of a job that lies in its last block, merged into it.
LEMMA LastMerged ==
    ASSUME NEW job \in Jobs, NEW b \in BlockIndexes,
           b = Split(job).last, Split(job).last_data # <<>>,
           ~(b = Split(job).first /\ Split(job).first_data # <<>>),
           blocks[b] \in Seq(Nat), Len(blocks[b]) <= BlockSize
    PROVE  Merged(job, b, PartBlock(Split(job), b))
<1>1. BlockSize \in Nat /\ BlockSize > 0
  BY ConstantsAssumption
<1>2. PICK data \in Seq(Nat) : \E st, n, first, pos, mid, full, ofull, skip \in Nat :
        CutAt(job, data, st, n, first, pos, mid, full, ofull, skip)
  BY SplitNumbers
<1>3. PICK st, n, first, pos, mid, full, ofull, skip \in Nat :
        CutAt(job, data, st, n, first, pos, mid, full, ofull, skip)
  BY <1>2
<1> DEFINE rest == SubSeq(data, skip + 1, n)
           part == SubSeq(rest, ofull + 1, n - skip)
           old == blocks[b]
           new == PartBlock(Split(job), b)
<1>4. b \in Nat
  BY ConstantsAssumption DEF BlockIndexes
<1>5. skip <= n /\ n = Len(data) /\ ofull <= n - skip /\ n - skip < ofull + BlockSize
  BY <1>3 DEF CutAt
<1>6. PICK m \in Nat : m = n - skip - ofull
  <2>1. ofull <= n - skip
    BY <1>5
  <2>2. n - skip - ofull \in Nat
    BY <2>1
  <2> QED BY <2>2
<1>7. m < BlockSize
  BY <1>1, <1>5, <1>6
<1>8. /\ rest \in Seq(Nat) /\ Len(rest) = n - skip
      /\ \A k \in 1..(n - skip) : rest[k] = data[skip + k]
  <2>1. skip <= n /\ n <= Len(data)
    BY <1>5
  <2> QED BY <2>1, SubSeqBytes
<1> HIDE DEF rest
<1>9. /\ part \in Seq(Nat) /\ Len(part) = m
      /\ \A k \in 1..m : part[k] = rest[ofull + k]
  <2> DEFINE e == n - skip
  <2>1. e \in Nat /\ e <= Len(rest) /\ ofull <= e /\ e - ofull = m
    BY <1>5, <1>6, <1>8
  <2> HIDE DEF e
  <2>2. /\ SubSeq(rest, ofull + 1, e) \in Seq(Nat)
        /\ Len(SubSeq(rest, ofull + 1, e)) = e - ofull
        /\ \A k \in 1..(e - ofull) : SubSeq(rest, ofull + 1, e)[k] = rest[ofull + k]
    BY <1>8, <2>1, SubSeqBytes
  <2> QED BY <2>1, <2>2 DEF e
<1>10. Split(job).last_data = part
  BY <1>3 DEF CutAt, rest
<1> HIDE DEF part
<1>11. new = Updated(old, 0, part)
  BY <1>10 DEF PartBlock
<1>12. m > 0
  BY <1>9, <1>10
<1>13. PICK o \in Nat : o = Off(b) /\ o = st + skip + ofull
  <2>1. Off(mid) = st + skip
    <3>1. skip < n
      BY <1>5, <1>6, <1>12
    <3> QED BY <1>3, <3>1 DEF CutAt
  <2>2. Off(b) = Off(mid) + ofull
    <3>1. b = mid + full /\ ofull = Off(full)
      BY <1>3 DEF CutAt
    <3> QED BY <3>1, OffSum
  <2> QED BY <2>1, <2>2
<1>14. PICK en \in Nat : en = End(job) /\ en = st + n
  BY <1>3 DEF CutAt
<1>15. en = o + m
  BY <1>5, <1>6, <1>13, <1>14
<1> HIDE DEF new, old
<1>16. old \in Seq(Nat) /\ Len(old) \in Nat /\ Len(old) <= BlockSize
  BY DEF old
<1>17. /\ new \in Seq(Nat)
       /\ Len(new) = IF Len(old) <= m THEN m ELSE Len(old)
       /\ \A k \in Nat \ {0} : Byte(new, k) = IF k <= m THEN part[k] ELSE Byte(old, k)
  <2>1. /\ new \in Seq(Nat)
        /\ Len(new) = IF Len(old) <= 0 + Len(part) THEN 0 + Len(part) ELSE Len(old)
        /\ \A k \in Nat \ {0} :
              Byte(new, k) = IF 0 < k /\ k <= 0 + Len(part) THEN part[k - 0] ELSE Byte(old, k)
    BY <1>9, <1>11, <1>16, UpdatedBytes
  <2> QED BY <1>9, <2>1
<1>18. ASSUME NEW k \in 1..BlockSize
       PROVE  Byte(new, k) = IF st < o + k /\ o + k <= en THEN data[o + k - st] ELSE Byte(old, k)
  <2>1. st < o + k /\ o + k <= en <=> k <= m
    BY <1>1, <1>13, <1>15
  <2>2. k \in Nat \ {0}
    BY <1>1
  <2>3. CASE k <= m
    <3>1. k \in 1..m /\ ofull + k \in 1..(n - skip) /\ skip + (ofull + k) = o + k - st
      BY <1>5, <1>6, <1>13, <2>2, <2>3
    <3>2. Byte(new, k) = part[k]
      BY <1>17, <2>2, <2>3
    <3>3. part[k] = data[skip + (ofull + k)]
      BY <1>8, <1>9, <3>1
    <3> QED BY <2>1, <2>3, <3>1, <3>2, <3>3
  <2>4. CASE ~(k <= m)
    BY <1>17, <2>1, <2>2, <2>4
  <2> QED BY <2>3, <2>4
<1>19. o < en /\ st < o + BlockSize
  BY <1>1, <1>12, <1>13, <1>15
<1>20. /\ Len(new) <= BlockSize
       /\ o + Len(new) <= en \/ Len(new) = Len(old)
       /\ o + Len(new) >= en \/ Len(new) = BlockSize
  <2>1. Len(new) = IF Len(old) <= m THEN m ELSE Len(old)
    BY <1>17
  <2> QED BY <1>1, <1>7, <1>15, <1>16, <2>1
<1>21. job.start = st /\ job.data = data
  BY <1>3 DEF CutAt
<1>22. Merged(job, b, new)
  <2>1. \A k \in 1..BlockSize :
           Byte(new, k) = IF st < o + k /\ o + k <= en THEN job.data[o + k - st]
                          ELSE Byte(blocks[b], k)
    BY <1>18, <1>21 DEF old
  <2>2. new \in Seq(Nat)
    BY <1>17
  <2>3. o + Len(new) <= en \/ Len(new) = Len(blocks[b])
    BY <1>20 DEF old
  <2> QED BY <1>4, <1>13, <1>14, <1>19, <1>20, <1>21, <2>1, <2>2, <2>3, MergedBytes
<1> QED BY <1>22 DEF new

\* A block that a job writes in part keeps its other bytes.
LEMMA PartMerged ==
    ASSUME NEW job \in Jobs, NEW b \in BlockIndexes, Part(Split(job), b),
           blocks[b] \in Seq(Nat), Len(blocks[b]) <= BlockSize
    PROVE  Merged(job, b, PartBlock(Split(job), b))
BY FirstMerged, LastMerged DEF Part

\* A job writes every block that one of its bytes lies in.
LEMMA TouchedWritten ==
    ASSUME NEW job \in Jobs, NEW b \in BlockIndexes, b \in get_range(job)
    PROVE  Whole(Split(job), b) \/ Part(Split(job), b)
<1>1. BlockSize \in Nat /\ BlockSize > 0
  BY ConstantsAssumption
<1>2. PICK data \in Seq(Nat) : \E st, n, first, pos, mid, full, ofull, skip \in Nat :
        CutAt(job, data, st, n, first, pos, mid, full, ofull, skip)
  BY SplitNumbers
<1>3. PICK st, n, first, pos, mid, full, ofull, skip \in Nat :
        CutAt(job, data, st, n, first, pos, mid, full, ofull, skip)
  BY <1>2
<1>4. b \in Nat
  BY ConstantsAssumption DEF BlockIndexes
<1>5. PICK en \in Nat : en = End(job) /\ en = st + n
  BY <1>3 DEF CutAt
<1>6. PICK o \in Nat : o = Off(b) /\ o < en /\ st < o + BlockSize
  <2>1. job.start = st
    BY <1>3 DEF CutAt
  <2> QED BY <1>4, <1>5, <2>1, RangeMeaning, OffNat
<1>7. PICK of \in Nat : of = Off(first) /\ st = of + pos /\ pos < BlockSize
  BY <1>3, OffNat DEF CutAt
<1>8. b >= first
  <2>1. CASE b < first
    <3>1. o + BlockSize <= of
      BY <1>4, <1>6, <1>7, <2>1, OffLess
    <3> QED BY <1>1, <1>6, <1>7, <3>1
  <2> QED BY <1>4, <2>1
<1>9. skip <= n /\ n = Len(data) /\ ofull <= n - skip /\ n - skip < ofull + BlockSize
  BY <1>3 DEF CutAt
<1>10. CASE b = first /\ skip > 0
  <2>1. Split(job).first_data = SubSeq(data, 1, skip)
    BY <1>3 DEF CutAt
  <2>2. Len(SubSeq(data, 1, skip)) = skip
    BY <1>9
  <2>3. Split(job).first_data # <<>>
    <3>1. Len(Split(job).first_data) > 0
      BY <1>10, <2>1, <2>2
    <3> QED BY <3>1
  <2>4. Split(job).first = first
    BY <1>3 DEF CutAt
  <2> QED BY <1>10, <2>3, <2>4 DEF Part
<1>11. CASE ~(b = first /\ skip > 0)
  <2>1. b >= mid
    <3>1. (skip = 0 => mid = first) /\ (skip > 0 => mid = first + 1)
      BY <1>3 DEF CutAt
    <3> QED BY <1>4, <1>8, <1>11, <3>1
  <2>2. Split(job).mid = mid /\ Split(job).full = full /\ Split(job).last = mid + full
    BY <1>3 DEF CutAt
  <2>3. CASE b < mid + full
    BY <1>4, <2>1, <2>2, <2>3 DEF Whole
  <2>4. CASE b >= mid + full
    <3>1. skip < n
      <4>1. CASE skip = n
        <5>1. mid = first + 1 /\ skip <= BlockSize - pos
          BY <1>3, <1>9, <4>1 DEF CutAt
        <5>2. Off(first) + BlockSize <= Off(b)
          BY <1>4, <2>1, <5>1, OffLess
        <5> QED BY <1>1, <1>5, <1>6, <1>7, <4>1, <5>1, <5>2
      <4> QED BY <1>9, <4>1
    <3>2. Off(mid) = st + skip
      BY <1>3, <3>1 DEF CutAt
    <3>3. Off(mid + full) = st + skip + ofull
      <4>1. ofull = Off(full)
        BY <1>3 DEF CutAt
      <4> QED BY <3>2, <4>1, OffSum
    <3>4. b = mid + full
      <4>1. CASE b > mid + full
        <5>1. Off(mid + full) + BlockSize <= Off(b)
          BY <1>4, <4>1, OffLess
        <5> QED BY <1>1, <1>5, <1>6, <1>9, <3>3, <5>1
      <4> QED BY <1>4, <2>4, <4>1
    <3>5. n - skip - ofull > 0
      BY <1>5, <1>6, <1>9, <3>3, <3>4
    <3>6. Split(job).last_data = SubSeq(SubSeq(data, skip + 1, n), ofull + 1, n - skip)
      BY <1>3 DEF CutAt
    <3> DEFINE rest == SubSeq(data, skip + 1, n)
               e == n - skip
    <3>7. rest \in Seq(Nat) /\ Len(rest) = e
      <4>1. skip <= n /\ n <= Len(data)
        BY <1>9
      <4> QED BY <4>1, SubSeqBytes
    <3>8. e \in Nat /\ ofull <= e /\ e - ofull > 0
      BY <1>9, <3>5
    <3> HIDE DEF rest, e
    <3>9. Len(SubSeq(rest, ofull + 1, e)) = e - ofull
      BY <3>7, <3>8, SubSeqBytes
    <3>10. Split(job).last_data # <<>>
      <4>1. Split(job).last_data = SubSeq(rest, ofull + 1, e)
        BY <3>6 DEF rest, e
      <4>2. Len(Split(job).last_data) > 0
        BY <3>8, <3>9, <4>1
      <4> QED BY <4>2
    <3> QED BY <2>2, <3>4, <3>10 DEF Part
  <2> QED BY <1>4, <2>3, <2>4
<1> QED BY <1>10, <1>11

-----------------------------------------------------------------------------
(***************************************************************************)
(* The inductive invariant.  `jobs` are the writes that are not flushed    *)
(* yet and f is the reference file with these writes in it.                *)
(***************************************************************************)

\* The variables have their types.
Typed ==
    /\ blocks \in [BlockIndexes -> Seq(Nat)]
    /\ \A b \in BlockIndexes : Len(blocks[b]) <= BlockSize
    /\ size \in 0..MaxLen
    /\ acc \in Seq(Jobs) /\ Len(acc) <= MaxJobs
    /\ file \in Seq(Nat) /\ Len(file) <= MaxLen
    /\ torn \subseteq BlockIndexes

\* No block reaches beyond the size.
BlocksInside(bl, sz) ==
    \A b \in BlockIndexes : bl[b] # <<>> => Off(b) + Len(bl[b]) <= sz

\* No write reaches beyond the file.
JobsInside(jobs, f) == \A j \in 1..Len(jobs) : End(jobs[j]) <= Len(f)

\* The blocks that nothing was lost in and nothing will be in the next flush.
Clean(tn, jobs) == BlockIndexes \ (tn \cup Contended(jobs))

\* The byte i of the file is that of the writes that wait for it, or else that
\* of the block, where it is the byte k.
KnownAt(block, k, jobs, f, i) ==
    /\ \A j \in 1..Len(jobs) : Covers(jobs[j], i) => f[i] = jobs[j].data[i - jobs[j].start]
    /\ (\A j \in 1..Len(jobs) : ~Covers(jobs[j], i)) => f[i] = Byte(block, k)

\* In such a block every byte of the file is known.
BytesKnown(bl, tn, jobs, f) ==
    \A b \in Clean(tn, jobs), k \in 1..BlockSize :
        Off(b) + k <= Len(f) => KnownAt(bl[b], k, jobs, f, Off(b) + k)

\* The size is not beyond the end of the file, and if the file ends in such a
\* block, the size is the end of the file or a write with this end waits.
EndKnown(sz, tn, jobs, f) ==
    /\ sz <= Len(f)
    /\ \A b \in Clean(tn, jobs) :
        Off(b) < Len(f) /\ Len(f) <= Off(b) + BlockSize =>
            sz = Len(f) \/ \E j \in 1..Len(jobs) : End(jobs[j]) = Len(f)

\* The inductive invariant.
IInv ==
    /\ Typed
    /\ BlocksInside(blocks, size)
    /\ JobsInside(acc, file)
    /\ BytesKnown(blocks, torn, acc, file)
    /\ EndKnown(size, torn, acc, file)

\* A block index is a number.
LEMMA IndexNat == ASSUME NEW b \in BlockIndexes PROVE b \in Nat /\ Off(b) \in Nat
<1>1. b \in Nat
  BY DEF BlockIndexes
<1> QED BY <1>1, OffNat

\* A job touches the block of each of its bytes.
LEMMA CoversInRange ==
    ASSUME NEW job \in Jobs, NEW b \in BlockIndexes, NEW k \in 1..BlockSize,
           Covers(job, Off(b) + k)
    PROVE  b \in get_range(job)
<1>1. /\ job.start \in Nat /\ End(job) \in Nat /\ Off(b) \in Nat /\ b \in Nat /\ BlockSize \in Nat
  BY JobFacts, IndexNat, ConstantsAssumption
<1>2. job.start < Off(b) + k /\ Off(b) + k <= End(job)
  BY DEF Covers
<1>3. Off(b) < End(job) /\ job.start < Off(b) + BlockSize
  BY <1>1, <1>2
<1> QED BY <1>1, <1>3, RangeMeaning

\* In a block that is not contended there is one job.
LEMMA OneJob ==
    ASSUME NEW jobs \in Seq(Jobs), NEW b \in BlockIndexes, b \notin Contended(jobs),
           NEW i \in 1..Len(jobs), NEW j \in 1..Len(jobs),
           b \in get_range(jobs[i]), b \in get_range(jobs[j])
    PROVE  i = j
BY DEF Contended

\* The order of the numbers, as a relation.
Below == {p \in Nat \X Nat : p[1] < p[2]}

\* A set of natural numbers has a least element.
LEMMA LeastExists ==
    ASSUME NEW T \in SUBSET Nat, T # {}
    PROVE  \E x \in T : \A y \in T : x <= y
<1>1. IsWellFoundedOn(Below, Nat)
  BY NatLessThanWellFounded DEF OpToRel, Below
<1>2. PICK x \in T : \A y \in T : ~(<<y, x>> \in Below)
  BY <1>1, WFMin
<1>3. ASSUME NEW y \in T PROVE x <= y
  <2>1. ~(<<y, x>> \in Below)
    BY <1>2
  <2> QED BY <2>1 DEF Below
<1> QED BY <1>3

\* A bounded, non-empty set of numbers has a maximum, which Max returns.
LEMMA MaxOfBounded ==
    ASSUME NEW n \in Nat, NEW S \in SUBSET (0..n), S # {}
    PROVE  Max(S) \in S /\ \A y \in S : y <= Max(S)
<1> DEFINE T == {n - c : c \in S}
<1>1. T \subseteq Nat
  OBVIOUS
<1>2. T # {}
  OBVIOUS
<1>3. PICK x \in T : \A y \in T : x <= y
  BY <1>1, <1>2, LeastExists
<1>4. PICK m \in S : x = n - m
  BY <1>3 DEF T
<1>5. \A y \in S : m >= y
  BY <1>3, <1>4 DEF T
<1>6. \A y \in S : Max(S) >= y /\ Max(S) \in S
  BY <1>4, <1>5 DEF Max
<1> QED BY <1>4, <1>6

\* After a flush a block is as before if no job touches it, and else some
\* job was merged into it.
LEMMA NewBlockFacts ==
    ASSUME Typed, NEW jobs \in Seq(Jobs), NEW b \in BlockIndexes
    PROVE  \/ /\ NewBlock(jobs, b) = blocks[b]
              /\ \A j \in 1..Len(jobs) : b \notin get_range(jobs[j])
           \/ \E j \in 1..Len(jobs) : Merged(jobs[j], b, NewBlock(jobs, b))
<1> DEFINE s == [j \in 1..Len(jobs) |-> Split(jobs[j])]
           whole == {j \in 1..Len(jobs) : Whole(s[j], b)}
           part == {j \in 1..Len(jobs) : Part(s[j], b)}
<1>1. NewBlock(jobs, b) = IF whole # {} THEN WholeBlock(s[Max(whole)], b)
                          ELSE IF part # {} THEN PartBlock(s[Max(part)], b)
                          ELSE blocks[b]
  BY DEF NewBlock
<1>2. Len(jobs) \in Nat /\ \A j \in 1..Len(jobs) : jobs[j] \in Jobs /\ s[j] = Split(jobs[j])
  OBVIOUS
<1>3. blocks[b] \in Seq(Nat) /\ Len(blocks[b]) <= BlockSize
  BY DEF Typed
<1> HIDE DEF s
<1>4. whole \in SUBSET (0..Len(jobs)) /\ part \in SUBSET (0..Len(jobs))
  BY <1>2
<1>5. CASE whole # {}
  <2> DEFINE j == Max(whole)
  <2>1. j \in whole
    BY <1>2, <1>4, <1>5, MaxOfBounded
  <2>2. j \in 1..Len(jobs) /\ Whole(s[j], b)
    BY <2>1
  <2> HIDE DEF j
  <2>3. Merged(jobs[j], b, WholeBlock(s[j], b))
    BY <1>2, <1>3, <2>2, WholeMerged
  <2>4. NewBlock(jobs, b) = WholeBlock(s[j], b)
    BY <1>1, <1>5 DEF j
  <2> QED BY <2>2, <2>3, <2>4
<1>6. CASE whole = {} /\ part # {}
  <2> DEFINE j == Max(part)
  <2>1. j \in part
    BY <1>2, <1>4, <1>6, MaxOfBounded
  <2>2. j \in 1..Len(jobs) /\ Part(s[j], b)
    BY <2>1
  <2> HIDE DEF j
  <2>3. Merged(jobs[j], b, PartBlock(s[j], b))
    BY <1>2, <1>3, <2>2, PartMerged
  <2>4. NewBlock(jobs, b) = PartBlock(s[j], b)
    BY <1>1, <1>6 DEF j
  <2> QED BY <2>2, <2>3, <2>4
<1>7. CASE whole = {} /\ part = {}
  <2>1. NewBlock(jobs, b) = blocks[b]
    BY <1>1, <1>7
  <2>2. \A j \in 1..Len(jobs) : b \notin get_range(jobs[j])
    BY <1>2, <1>7, TouchedWritten
  <2> QED BY <2>1, <2>2
<1> QED BY <1>5, <1>6, <1>7

-----------------------------------------------------------------------------
(***************************************************************************)
(* Writes that are accumulated.                                            *)
(***************************************************************************)

\* The file after a write, byte by byte.
LEMMA OverwrittenBytes ==
    ASSUME NEW f \in Seq(Nat), NEW job \in Jobs, NEW g, g = Overwritten(f, job)
    PROVE  /\ g \in Seq(Nat)
           /\ Len(g) = IF Len(f) <= End(job) THEN End(job) ELSE Len(f)
           /\ \A i \in 1..Len(g) :
                g[i] = IF Covers(job, i) THEN job.data[i - job.start]
                       ELSE IF i <= Len(f) THEN f[i] ELSE 0
<1>1. PICK st \in Nat, en \in Nat, data \in Seq(Nat) :
        st = job.start /\ en = End(job) /\ data = job.data /\ en = st + Len(data)
  BY JobFacts DEF End
<1>2. PICK l \in Nat, n \in Nat :
        l = Len(f) /\ n = (IF l <= en THEN en ELSE l) /\ Max({Len(f), en}) = n
  <2>1. Len(f) \in Nat
    OBVIOUS
  <2>2. Max({Len(f), en}) = IF Len(f) <= en THEN en ELSE Len(f)
    BY <2>1, MaxOfTwo
  <2> QED BY <2>1, <2>2
<1>3. g = [i \in 1..n |-> CASE i > st /\ i <= en -> data[i - st]
                            [] i > l /\ i <= st -> 0
                            [] OTHER -> f[i]]
  <2>1. job.start + Len(job.data) = en
    BY <1>1
  <2> QED BY <1>1, <1>2, <2>1 DEF Overwritten
<1>4. ASSUME NEW i \in 1..n
      PROVE  /\ g[i] = IF st < i /\ i <= en THEN data[i - st] ELSE IF i <= l THEN f[i] ELSE 0
             /\ g[i] \in Nat
  <2>1. CASE st < i /\ i <= en
    <3>1. g[i] = data[i - st]
      BY <1>3, <2>1
    <3>2. i - st \in 1..Len(data)
      BY <1>1, <2>1
    <3> QED BY <2>1, <3>1, <3>2
  <2>2. CASE ~(st < i /\ i <= en) /\ i <= l
    <3>1. g[i] = f[i]
      BY <1>3, <2>2
    <3>2. i \in 1..Len(f)
      BY <1>2, <2>2
    <3> QED BY <2>2, <3>1, <3>2
  <2>3. CASE ~(st < i /\ i <= en) /\ ~(i <= l)
    <3>1. i > l /\ i <= st
      BY <1>2, <2>3
    <3>2. g[i] = 0
      BY <1>3, <2>3, <3>1
    <3> QED BY <2>3, <3>2
  <2> QED BY <2>1, <2>2, <2>3
<1>5. g \in Seq(Nat) /\ Len(g) = n
  <2>1. g \in [1..n -> Nat]
    <3>1. g = [i \in 1..n |-> g[i]]
      BY <1>3
    <3> QED BY <1>4, <3>1
  <2> QED BY <2>1
<1> QED BY <1>1, <1>2, <1>4, <1>5 DEF Covers

\* What a job contends for stays contended when another one comes, and the
\* new one contends for what it shares with an earlier one.
LEMMA ContendedAppend ==
    ASSUME NEW jobs \in Seq(Jobs), NEW job \in Jobs, NEW b \in BlockIndexes,
           b \notin Contended(Append(jobs, job))
    PROVE  /\ b \notin Contended(jobs)
           /\ \A j \in 1..Len(jobs) : b \in get_range(jobs[j]) => b \notin get_range(job)
<1> DEFINE more == Append(jobs, job)
<1>1. /\ Len(jobs) \in Nat /\ Len(more) = Len(jobs) + 1
      /\ \A j \in 1..Len(jobs) : more[j] = jobs[j]
      /\ more[Len(jobs) + 1] = job
  OBVIOUS
<1> HIDE DEF more
<1>2. \A j \in 1..Len(jobs) : j \in 1..Len(more) /\ j # Len(jobs) + 1
  BY <1>1
<1>3. Len(jobs) + 1 \in 1..Len(more)
  BY <1>1
<1>4. b \notin Contended(more)
  BY DEF more
<1>5. \A i, j \in 1..Len(more) : i # j => ~(b \in get_range(more[i]) /\ b \in get_range(more[j]))
  BY <1>4 DEF Contended
<1>6. b \notin Contended(jobs)
  BY <1>1, <1>2, <1>5 DEF Contended
<1> QED BY <1>1, <1>2, <1>3, <1>5, <1>6

\* The invariant holds for the writes with one more and the file with it.
LEMMA Accumulates ==
    ASSUME Typed, BlocksInside(blocks, size),
           NEW jobs \in Seq(Jobs), NEW job \in Jobs, NEW f \in Seq(Nat), NEW g,
           g = Overwritten(f, job),
           JobsInside(jobs, f), BytesKnown(blocks, torn, jobs, f), EndKnown(size, torn, jobs, f)
    PROVE  /\ JobsInside(Append(jobs, job), g)
           /\ BytesKnown(blocks, torn, Append(jobs, job), g)
           /\ EndKnown(size, torn, Append(jobs, job), g)
<1> DEFINE more == Append(jobs, job)
<1>1. /\ g \in Seq(Nat)
      /\ Len(g) = IF Len(f) <= End(job) THEN End(job) ELSE Len(f)
      /\ \A i \in 1..Len(g) :
           g[i] = IF Covers(job, i) THEN job.data[i - job.start]
                  ELSE IF i <= Len(f) THEN f[i] ELSE 0
  BY OverwrittenBytes
<1>2. /\ Len(jobs) \in Nat /\ Len(more) = Len(jobs) + 1
      /\ \A j \in 1..Len(jobs) : more[j] = jobs[j]
      /\ more[Len(jobs) + 1] = job
  OBVIOUS
<1> HIDE DEF more
<1>3. /\ Len(f) \in Nat /\ Len(g) \in Nat /\ End(job) \in Nat
      /\ Len(f) <= Len(g) /\ End(job) <= Len(g)
  BY <1>1, JobFacts
<1>4. \A j \in 1..Len(more) : j \in 1..Len(jobs) \/ j = Len(jobs) + 1
  BY <1>2
<1>5. \A j \in 1..Len(jobs) : jobs[j] \in Jobs /\ End(jobs[j]) \in Nat /\ jobs[j].start \in Nat
  BY JobFacts
<1>6. JobsInside(more, g)
  <2> SUFFICES ASSUME NEW j \in 1..Len(more) PROVE End(more[j]) <= Len(g)
    BY DEF JobsInside
  <2>1. CASE j \in 1..Len(jobs)
    <3>1. End(more[j]) = End(jobs[j]) /\ End(jobs[j]) <= Len(f)
      BY <1>2, <2>1 DEF JobsInside
    <3> QED BY <1>3, <1>5, <2>1, <3>1
  <2>2. CASE j = Len(jobs) + 1
    BY <1>2, <1>3, <2>2
  <2> QED BY <1>4, <2>1, <2>2
<1>7. \A b \in Clean(torn, more) :
        /\ b \in BlockIndexes /\ b \in Clean(torn, jobs)
        /\ \A j \in 1..Len(jobs) : b \in get_range(jobs[j]) => b \notin get_range(job)
  BY ContendedAppend DEF Clean, more
<1>8. BytesKnown(blocks, torn, more, g)
  <2> SUFFICES ASSUME NEW b \in Clean(torn, more), NEW k \in 1..BlockSize, Off(b) + k <= Len(g)
               PROVE  KnownAt(blocks[b], k, more, g, Off(b) + k)
    BY DEF BytesKnown
  <2>1. b \in BlockIndexes /\ b \in Clean(torn, jobs)
    BY <1>7
  <2>2. PICK o \in Nat : o = Off(b)
    BY <2>1, IndexNat
  <2>3. BlockSize \in Nat /\ k \in Nat /\ k > 0
    BY ConstantsAssumption
  <2>4. PICK i \in 1..Len(g) : i = Off(b) + k
    BY <1>3, <2>2, <2>3
  <2>5. g[i] = IF Covers(job, i) THEN job.data[i - job.start]
               ELSE IF i <= Len(f) THEN f[i] ELSE 0
    BY <1>1
  <2>6. CASE Covers(job, i)
    <3>1. b \in get_range(job)
      BY <2>1, <2>4, <2>6, CoversInRange
    <3>2. \A j \in 1..Len(jobs) : ~Covers(jobs[j], i)
      BY <1>5, <1>7, <2>1, <2>4, <3>1, CoversInRange
    <3>3. \A j \in 1..Len(more) : Covers(more[j], i) => more[j] = job
      BY <1>2, <1>4, <3>2
    <3>4. Len(jobs) + 1 \in 1..Len(more)
      BY <1>2
    <3>5. ~ \A j \in 1..Len(more) : ~Covers(more[j], i)
      BY <1>2, <2>6, <3>4
    <3> QED BY <2>4, <2>5, <2>6, <3>3, <3>5 DEF KnownAt
  <2>7. CASE ~Covers(job, i) /\ i <= Len(f)
    <3>1. /\ \A j \in 1..Len(jobs) : Covers(jobs[j], i) => f[i] = jobs[j].data[i - jobs[j].start]
          /\ (\A j \in 1..Len(jobs) : ~Covers(jobs[j], i)) => f[i] = Byte(blocks[b], k)
      <4>1. KnownAt(blocks[b], k, jobs, f, Off(b) + k)
        BY <2>1, <2>4, <2>7 DEF BytesKnown
      <4>2. KnownAt(blocks[b], k, jobs, f, i)
        BY <2>4, <4>1
      <4> QED BY <4>2 DEF KnownAt
    <3>2. g[i] = f[i]
      BY <2>5, <2>7
    <3>3. \A j \in 1..Len(jobs) : j \in 1..Len(more)
      BY <1>2
    <3>4. \A j \in 1..Len(more) : Covers(more[j], i) => j \in 1..Len(jobs)
      BY <1>2, <1>4, <2>7
    <3>5. \A j \in 1..Len(more) : Covers(more[j], i) => g[i] = more[j].data[i - more[j].start]
      BY <1>2, <3>1, <3>2, <3>4
    <3>6. (\A j \in 1..Len(more) : ~Covers(more[j], i)) => g[i] = Byte(blocks[b], k)
      BY <1>2, <3>1, <3>2, <3>3
    <3> QED BY <2>4, <3>5, <3>6 DEF KnownAt
  <2>8. CASE ~Covers(job, i) /\ ~(i <= Len(f))
    <3>1. g[i] = 0
      BY <2>5, <2>8
    <3>2. \A j \in 1..Len(jobs) : ~Covers(jobs[j], i)
      <4> SUFFICES ASSUME NEW j \in 1..Len(jobs), Covers(jobs[j], i) PROVE FALSE
        OBVIOUS
      <4>1. i <= End(jobs[j]) /\ End(jobs[j]) <= Len(f)
        BY DEF Covers, JobsInside
      <4> QED BY <1>3, <1>5, <2>8, <4>1
    <3>3. \A j \in 1..Len(more) : ~Covers(more[j], i)
      BY <1>2, <1>4, <2>8, <3>2
    <3>4. Byte(blocks[b], k) = 0
      <4>1. CASE blocks[b] = <<>>
        BY <2>3, <4>1 DEF Byte
      <4>2. CASE blocks[b] # <<>>
        <5>1. Off(b) + Len(blocks[b]) <= size /\ size <= Len(f)
          BY <2>1, <4>2 DEF BlocksInside, EndKnown
        <5>2. Len(blocks[b]) \in Nat /\ size \in Nat
          BY <2>1, ConstantsAssumption DEF Typed
        <5>3. k > Len(blocks[b])
          BY <1>3, <2>2, <2>3, <2>4, <2>8, <5>1, <5>2
        <5> QED BY <2>3, <5>2, <5>3 DEF Byte
      <4> QED BY <4>1, <4>2
    <3> QED BY <2>4, <3>1, <3>3, <3>4 DEF KnownAt
  <2> QED BY <2>6, <2>7, <2>8
<1>9. EndKnown(size, torn, more, g)
  <2>1. size <= Len(g)
    <3>1. size \in Nat /\ size <= Len(f)
      BY ConstantsAssumption DEF Typed, EndKnown
    <3> QED BY <1>3, <3>1
  <2>2. ASSUME NEW b \in Clean(torn, more), Off(b) < Len(g), Len(g) <= Off(b) + BlockSize
        PROVE  size = Len(g) \/ \E j \in 1..Len(more) : End(more[j]) = Len(g)
    <3>1. CASE Len(f) <= End(job)
      <4>1. Len(g) = End(more[Len(jobs) + 1]) /\ Len(jobs) + 1 \in 1..Len(more)
        BY <1>1, <1>2, <3>1
      <4> QED BY <4>1
    <3>2. CASE ~(Len(f) <= End(job))
      <4>1. Len(g) = Len(f)
        BY <1>1, <3>2
      <4>2. size = Len(f) \/ \E j \in 1..Len(jobs) : End(jobs[j]) = Len(f)
        BY <1>7, <2>2, <4>1 DEF EndKnown
      <4>3. \A j \in 1..Len(jobs) : j \in 1..Len(more)
        BY <1>2
      <4> QED BY <1>2, <4>1, <4>2, <4>3
    <3> QED BY <3>1, <3>2
  <2> QED BY <2>1, <2>2 DEF EndKnown
<1> QED BY <1>6, <1>8, <1>9 DEF more

-----------------------------------------------------------------------------
(***************************************************************************)
(* A flush.                                                                *)
(***************************************************************************)

\* The blocks after a flush are blocks.
LEMMA NewBlocksTyped ==
    ASSUME Typed, NEW jobs \in Seq(Jobs), NEW b \in BlockIndexes
    PROVE  NewBlock(jobs, b) \in Seq(Nat) /\ Len(NewBlock(jobs, b)) <= BlockSize
<1>1. CASE NewBlock(jobs, b) = blocks[b]
  BY <1>1 DEF Typed
<1>2. CASE \E j \in 1..Len(jobs) : Merged(jobs[j], b, NewBlock(jobs, b))
  BY <1>2 DEF Merged
<1> QED BY <1>1, <1>2, NewBlockFacts

\* A changed block does not reach beyond the file.
LEMMA ChangedInside ==
    ASSUME Typed, BlocksInside(blocks, size), NEW jobs \in Seq(Jobs), NEW f \in Seq(Nat),
           JobsInside(jobs, f), size <= Len(f),
           NEW b \in BlockIndexes, NEW new, new = NewBlock(jobs, b), new # blocks[b]
    PROVE  /\ Len(new) \in Nat /\ Off(b) + Len(new) \in Nat
           /\ Off(b) + Len(new) <= Len(f)
<1>1. PICK j \in 1..Len(jobs) : Merged(jobs[j], b, new)
  BY NewBlockFacts
<1>2. jobs[j] \in Jobs /\ End(jobs[j]) \in Nat /\ End(jobs[j]) <= Len(f) /\ Len(f) \in Nat
  BY JobFacts DEF JobsInside
<1>3. PICK o \in Nat : o = Off(b)
  BY IndexNat
<1>4. new \in Seq(Nat) /\ Len(new) \in Nat /\ blocks[b] \in Seq(Nat) /\ Len(blocks[b]) \in Nat
  BY NewBlocksTyped DEF Typed
<1>5. CASE o + Len(new) <= End(jobs[j])
  BY <1>2, <1>3, <1>4, <1>5
<1>6. CASE Len(new) = Len(blocks[b])
  <2>1. blocks[b] # <<>>
    <3> SUFFICES ASSUME blocks[b] = <<>> PROVE FALSE
      OBVIOUS
    <3>1. Len(new) = 0
      BY <1>6
    <3>2. new = <<>>
      BY <1>4, <3>1
    <3> QED BY <3>2
  <2>2. o + Len(blocks[b]) <= size
    BY <1>3, <2>1 DEF BlocksInside
  <2>3. size \in Nat
    BY ConstantsAssumption DEF Typed
  <2>4. PICK t \in Nat : t = Len(new) /\ t = Len(blocks[b])
    BY <1>4, <1>6
  <2>5. o + t \in Nat /\ o + t <= Len(f)
    BY <1>2, <2>2, <2>3, <2>4
  <2> QED BY <1>3, <2>4, <2>5
<1>7. o + Len(new) <= End(jobs[j]) \/ Len(new) = Len(blocks[b])
  BY <1>1, <1>3 DEF Merged
<1> QED BY <1>5, <1>6, <1>7

\* The size after a flush covers every block that the flush has changed and
\* is not beyond the file.
LEMMA GrownBounds ==
    ASSUME Typed, BlocksInside(blocks, size), NEW jobs \in Seq(Jobs), NEW f \in Seq(Nat),
           JobsInside(jobs, f), size <= Len(f),
           NEW new, new = [b \in BlockIndexes |-> NewBlock(jobs, b)],
           NEW g, g = Grown(new)
    PROVE  /\ g \in Nat /\ size <= g /\ g <= Len(f)
           /\ \A b \in BlockIndexes : new[b] # blocks[b] => Off(b) + Len(new[b]) <= g
<1> DEFINE changed == {b \in BlockIndexes : new[b] # blocks[b]}
           S == {size} \cup {b * BlockSize + Len(new[b]) : b \in changed}
<1>1. size \in Nat /\ Len(f) \in Nat
  BY ConstantsAssumption DEF Typed
<1>2. \A b \in changed : b * BlockSize + Len(new[b]) = Off(b) + Len(new[b])
  BY DEF Off
<1>3. \A b \in changed : Off(b) + Len(new[b]) \in 0..Len(f)
  <2> SUFFICES ASSUME NEW b \in changed PROVE Off(b) + Len(new[b]) \in 0..Len(f)
    OBVIOUS
  <2>1. new[b] = NewBlock(jobs, b) /\ new[b] # blocks[b] /\ b \in BlockIndexes
    OBVIOUS
  <2>2. Off(b) + Len(new[b]) \in Nat /\ Off(b) + Len(new[b]) <= Len(f)
    BY <2>1, ChangedInside
  <2> QED BY <1>1, <2>2
<1>4. S \in SUBSET (0..Len(f)) /\ S # {}
  <2>1. size \in 0..Len(f)
    BY <1>1
  <2>2. {b * BlockSize + Len(new[b]) : b \in changed} \subseteq 0..Len(f)
    BY <1>2, <1>3
  <2> QED BY <2>1, <2>2
<1>5. g = Max(S)
  BY DEF Grown
<1> HIDE DEF S
<1>6. g \in S /\ \A y \in S : y <= g
  BY <1>1, <1>4, <1>5, MaxOfBounded
<1>7. g \in Nat /\ g <= Len(f)
  BY <1>1, <1>4, <1>6
<1>8. size <= g
  BY <1>6 DEF S
<1>9. \A b \in changed : Off(b) + Len(new[b]) <= g
  BY <1>2, <1>6 DEF S
<1> QED BY <1>7, <1>8, <1>9

\* After a flush the invariant holds with nothing left to write.
LEMMA Flushes ==
    ASSUME Typed, BlocksInside(blocks, size),
           NEW jobs \in Seq(Jobs), NEW f \in Seq(Nat), Len(f) <= MaxLen,
           JobsInside(jobs, f), BytesKnown(blocks, torn, jobs, f), EndKnown(size, torn, jobs, f),
           NEW new, new = [b \in BlockIndexes |-> NewBlock(jobs, b)],
           NEW g, g = Grown(new)
    PROVE  /\ new \in [BlockIndexes -> Seq(Nat)]
           /\ \A b \in BlockIndexes : Len(new[b]) <= BlockSize
           /\ g \in 0..MaxLen
           /\ BlocksInside(new, g)
           /\ BytesKnown(new, torn \cup Contended(jobs), <<>>, f)
           /\ EndKnown(g, torn \cup Contended(jobs), <<>>, f)
<1>1. size \in Nat /\ size <= Len(f) /\ Len(f) \in Nat /\ MaxLen \in Nat /\ BlockSize \in Nat
  BY ConstantsAssumption DEF Typed, EndKnown
<1>2. /\ g \in Nat /\ size <= g /\ g <= Len(f)
      /\ \A b \in BlockIndexes : new[b] # blocks[b] => Off(b) + Len(new[b]) <= g
  BY <1>1, GrownBounds
<1>3. /\ new \in [BlockIndexes -> Seq(Nat)]
      /\ \A b \in BlockIndexes : Len(new[b]) <= BlockSize
  BY NewBlocksTyped
<1>4. g \in 0..MaxLen
  BY <1>1, <1>2
<1>5. ASSUME NEW b \in BlockIndexes, new[b] # <<>> PROVE Off(b) + Len(new[b]) <= g
  <2>1. CASE new[b] # blocks[b]
    BY <1>2, <2>1
  <2>2. CASE new[b] = blocks[b]
    <3>1. Off(b) + Len(new[b]) <= size
      BY <1>5, <2>2 DEF BlocksInside
    <3>2. Off(b) \in Nat /\ Len(new[b]) \in Nat
      BY <1>3, IndexNat
    <3> QED BY <1>1, <1>2, <3>1, <3>2
  <2> QED BY <2>1, <2>2
<1>6. ASSUME NEW b \in Clean(torn \cup Contended(jobs), <<>>)
      PROVE  b \in BlockIndexes /\ b \in Clean(torn, jobs) /\ b \notin Contended(jobs)
  BY DEF Clean
<1>7. \A j \in 1..Len(jobs) : jobs[j] \in Jobs
  OBVIOUS
<1>8. BytesKnown(new, torn \cup Contended(jobs), <<>>, f)
  <2> SUFFICES ASSUME NEW b \in Clean(torn \cup Contended(jobs), <<>>), NEW k \in 1..BlockSize,
                      Off(b) + k <= Len(f)
               PROVE  KnownAt(new[b], k, <<>>, f, Off(b) + k)
    BY DEF BytesKnown
  <2>1. b \in BlockIndexes /\ b \in Clean(torn, jobs) /\ b \notin Contended(jobs)
    BY <1>6
  <2> DEFINE i == Off(b) + k
  <2>2. KnownAt(blocks[b], k, jobs, f, i)
    BY <2>1 DEF BytesKnown
  <2>3. \A j \in 1..Len(jobs) : Covers(jobs[j], i) => b \in get_range(jobs[j])
    BY <1>7, <2>1, CoversInRange
  <2>4. new[b] = NewBlock(jobs, b)
    BY <2>1
  <2>5. \A j \in 1..Len(jobs) : Merged(jobs[j], b, new[b]) =>
            b \in get_range(jobs[j]) /\ Byte(new[b], k) = MergedByte(jobs[j], i, blocks[b], k)
    BY DEF Merged
  <2> HIDE DEF i
  <2>6. f[i] = Byte(new[b], k)
    <3>1. CASE new[b] = blocks[b] /\ \A j \in 1..Len(jobs) : b \notin get_range(jobs[j])
      BY <2>2, <2>3, <3>1 DEF KnownAt
    <3>2. CASE \E j \in 1..Len(jobs) : Merged(jobs[j], b, new[b])
      <4>1. PICK j \in 1..Len(jobs) : Merged(jobs[j], b, new[b])
        BY <3>2
      <4>2. /\ b \in get_range(jobs[j])
            /\ Byte(new[b], k) = MergedByte(jobs[j], i, blocks[b], k)
        BY <2>5, <4>1
      <4>3. CASE Covers(jobs[j], i)
        <5>1. f[i] = jobs[j].data[i - jobs[j].start]
          BY <2>2, <4>3 DEF KnownAt
        <5> QED BY <4>2, <4>3, <5>1 DEF MergedByte
      <4>4. CASE ~Covers(jobs[j], i)
        <5>1. \A l \in 1..Len(jobs) : ~Covers(jobs[l], i)
          BY <2>1, <2>3, <4>2, <4>4, OneJob
        <5>2. f[i] = Byte(blocks[b], k)
          BY <2>2, <5>1 DEF KnownAt
        <5> QED BY <4>2, <4>4, <5>2 DEF MergedByte
      <4> QED BY <4>3, <4>4
    <3> QED BY <2>1, <2>4, <3>1, <3>2, NewBlockFacts
  <2>7. KnownAt(new[b], k, <<>>, f, i)
    BY <2>6 DEF KnownAt
  <2> QED BY <2>7 DEF i
<1>9. ASSUME NEW b \in Clean(torn \cup Contended(jobs), <<>>),
             Off(b) < Len(f), Len(f) <= Off(b) + BlockSize
      PROVE  g = Len(f)
  <2>1. b \in BlockIndexes /\ b \in Clean(torn, jobs) /\ b \notin Contended(jobs)
    BY <1>6
  <2>2. CASE size = Len(f)
    BY <1>1, <1>2, <2>2
  <2>3. CASE \E j \in 1..Len(jobs) : End(jobs[j]) = Len(f)
    <3>1. PICK j \in 1..Len(jobs) : End(jobs[j]) = Len(f)
      BY <2>3
    <3>2. PICK o \in Nat : o = Off(b)
      BY <2>1, IndexNat
    <3>3. b \in get_range(jobs[j])
      <4>1. jobs[j].start \in Nat /\ jobs[j].start < End(jobs[j]) /\ End(jobs[j]) \in Nat
        BY <1>7, JobFacts DEF End
      <4>2. jobs[j].start < o + BlockSize
        BY <1>1, <1>9, <3>1, <3>2, <4>1
      <4> QED BY <1>7, <1>9, <2>1, <3>1, <3>2, <4>2, RangeMeaning, IndexNat
    <3>4. PICK l \in 1..Len(jobs) : Merged(jobs[l], b, new[b])
      BY <2>1, <3>3, NewBlockFacts
    <3>5. l = j
      <4>1. b \in get_range(jobs[l])
        BY <3>4 DEF Merged
      <4> QED BY <2>1, <3>3, <4>1, OneJob
    <3>6. o + Len(new[b]) >= Len(f) \/ Len(new[b]) = BlockSize
      BY <3>1, <3>2, <3>4, <3>5 DEF Merged
    <3>7. PICK t \in Nat : t = Len(new[b])
      BY <1>3, <2>1
    <3>8. o + t >= Len(f) /\ o < Len(f)
      BY <1>1, <1>9, <3>2, <3>6, <3>7
    <3>9. new[b] # <<>>
      <4> SUFFICES ASSUME new[b] = <<>> PROVE FALSE
        OBVIOUS
      <4>1. t = 0
        BY <3>7
      <4> QED BY <1>1, <3>2, <3>8, <4>1
    <3>10. o + t <= g
      BY <1>5, <2>1, <3>2, <3>7, <3>9
    <3> QED BY <1>1, <1>2, <3>2, <3>7, <3>8, <3>10
  <2> QED BY <1>9, <2>1, <2>2, <2>3 DEF EndKnown
<1>10. EndKnown(g, torn \cup Contended(jobs), <<>>, f)
  BY <1>2, <1>9 DEF EndKnown
<1> QED BY <1>3, <1>4, <1>5, <1>8, <1>10 DEF BlocksInside

-----------------------------------------------------------------------------
(***************************************************************************)
(* The steps.                                                              *)
(***************************************************************************)

\* A flush of the jobs that have been accumulated keeps the invariant, with
\* the file as it is after all of them.
LEMMA FlushJobsKeeps ==
    ASSUME Typed, BlocksInside(blocks, size), NEW jobs \in Seq(Jobs), FlushJobs(jobs),
           file' \in Seq(Nat), Len(file') <= MaxLen,
           JobsInside(jobs, file'), BytesKnown(blocks, torn, jobs, file'),
           EndKnown(size, torn, jobs, file')
    PROVE  IInv'
<1>1. /\ blocks' = [b \in BlockIndexes |-> NewBlock(jobs, b)]
      /\ size' = Grown(blocks') /\ acc' = <<>> /\ torn' = torn \cup Contended(jobs)
  BY DEF FlushJobs
<1>2. /\ blocks' \in [BlockIndexes -> Seq(Nat)]
      /\ \A b \in BlockIndexes : Len(blocks'[b]) <= BlockSize
      /\ size' \in 0..MaxLen
      /\ BlocksInside(blocks', size')
      /\ BytesKnown(blocks', torn \cup Contended(jobs), <<>>, file')
      /\ EndKnown(size', torn \cup Contended(jobs), <<>>, file')
  BY <1>1, Flushes
<1>3. acc' \in Seq(Jobs) /\ Len(acc') <= MaxJobs
  BY <1>1, ConstantsAssumption
<1>4. torn' \subseteq BlockIndexes
  BY <1>1 DEF Typed, Contended
<1>5. JobsInside(acc', file')
  BY <1>1 DEF JobsInside
<1> QED BY <1>1, <1>2, <1>3, <1>4, <1>5 DEF IInv, Typed

\* A write keeps the invariant, whether it is flushed or not.
LEMMA WriteKeeps == ASSUME IInv, NEW job \in Jobs, Write(job) PROVE IInv'
<1>1. /\ Typed /\ BlocksInside(blocks, size) /\ JobsInside(acc, file)
      /\ BytesKnown(blocks, torn, acc, file) /\ EndKnown(size, torn, acc, file)
  BY DEF IInv
<1>2. file' = Overwritten(file, job) /\ Len(acc) < MaxJobs /\ End(job) <= MaxLen
  BY DEF Write, End
<1>3. acc \in Seq(Jobs) /\ file \in Seq(Nat) /\ Len(file) <= MaxLen
  BY <1>1 DEF Typed
<1>4. /\ JobsInside(Append(acc, job), file')
      /\ BytesKnown(blocks, torn, Append(acc, job), file')
      /\ EndKnown(size, torn, Append(acc, job), file')
  BY <1>1, <1>2, <1>3, Accumulates
<1>5. file' \in Seq(Nat) /\ Len(file') <= MaxLen
  BY <1>2, <1>3, OverwrittenBytes
<1>6. Append(acc, job) \in Seq(Jobs)
  BY <1>3
<1>7. CASE FlushJobs(Append(acc, job))
  BY <1>1, <1>4, <1>5, <1>6, <1>7, FlushJobsKeeps
<1>8. CASE acc' = Append(acc, job) /\ UNCHANGED <<blocks, size, torn>>
  <2>1. Len(Append(acc, job)) <= MaxJobs
    BY <1>2, <1>3, ConstantsAssumption
  <2> QED BY <1>1, <1>4, <1>5, <1>6, <1>8, <2>1 DEF IInv, Typed
<1> QED BY <1>7, <1>8 DEF Write

\* A flush keeps the invariant.
LEMMA FlushKeeps == ASSUME IInv, Flush PROVE IInv'
<1>1. /\ Typed /\ BlocksInside(blocks, size) /\ JobsInside(acc, file)
      /\ BytesKnown(blocks, torn, acc, file) /\ EndKnown(size, torn, acc, file)
  BY DEF IInv
<1>2. file' = file /\ FlushJobs(acc)
  BY DEF Flush
<1>3. acc \in Seq(Jobs) /\ file \in Seq(Nat) /\ Len(file) <= MaxLen
  BY <1>1 DEF Typed
<1> QED BY <1>1, <1>2, <1>3, FlushJobsKeeps

\* inode_allocate_size keeps the invariant: what it adds is in no block and
\* no write reaches it.
LEMMA AllocateKeeps ==
    ASSUME IInv, NEW offset \in 0..MaxLen, NEW length \in 1..MaxLen, Allocate(offset, length)
    PROVE  IInv'
<1>1. /\ Typed /\ BlocksInside(blocks, size) /\ JobsInside(acc, file)
      /\ BytesKnown(blocks, torn, acc, file) /\ EndKnown(size, torn, acc, file)
  BY DEF IInv
<1>2. PICK e \in Nat : e = offset + length /\ e <= MaxLen
  BY ConstantsAssumption DEF Allocate
<1>3. PICK l \in Nat, n \in Nat :
        l = Len(file) /\ l <= MaxLen /\ n = (IF l <= e THEN e ELSE l) /\ Max({Len(file), e}) = n
  <2>1. Len(file) \in Nat /\ Len(file) <= MaxLen
    BY <1>1 DEF Typed
  <2>2. Max({Len(file), e}) = IF Len(file) <= e THEN e ELSE Len(file)
    BY <2>1, MaxOfTwo
  <2> QED BY <2>1, <2>2
<1>4. size' = e /\ e > size /\ UNCHANGED <<blocks, acc, torn>>
  BY <1>2 DEF Allocate
<1>5. file' = [i \in 1..n |-> IF i <= l THEN file[i] ELSE 0]
  BY <1>2, <1>3 DEF Allocate
<1>6. file' \in Seq(Nat) /\ Len(file') = n
  <2>1. \A i \in 1..n : i <= l => file[i] \in Nat
    BY <1>1, <1>3 DEF Typed
  <2>2. file' \in [1..n -> Nat]
    BY <1>5, <2>1
  <2> QED BY <2>2
<1>7. \A i \in 1..n : file'[i] = IF i <= l THEN file[i] ELSE 0
  BY <1>5
<1>8. size \in Nat /\ MaxLen \in Nat /\ BlockSize \in Nat /\ size <= l /\ e <= n /\ l <= n /\ n <= MaxLen
  BY <1>1, <1>2, <1>3, ConstantsAssumption DEF Typed, EndKnown
<1>9. acc \in Seq(Jobs) /\ \A j \in 1..Len(acc) : acc[j] \in Jobs /\ End(acc[j]) \in Nat
        /\ End(acc[j]) <= l
  BY <1>1, <1>3, JobFacts DEF Typed, JobsInside
<1>10. Typed'
  BY <1>1, <1>2, <1>4, <1>6, <1>8 DEF Typed
<1>11. BlocksInside(blocks', size')
  <2> SUFFICES ASSUME NEW b \in BlockIndexes, blocks[b] # <<>>
               PROVE  Off(b) + Len(blocks[b]) <= e
    BY <1>4 DEF BlocksInside
  <2>1. Off(b) + Len(blocks[b]) <= size /\ Off(b) \in Nat /\ Len(blocks[b]) \in Nat
    BY <1>1, IndexNat DEF BlocksInside, Typed
  <2> QED BY <1>4, <1>8, <2>1
<1>12. JobsInside(acc', file')
  BY <1>4, <1>6, <1>8, <1>9 DEF JobsInside
<1>13. BytesKnown(blocks', torn', acc', file')
  <2> SUFFICES ASSUME NEW b \in Clean(torn, acc), NEW k \in 1..BlockSize, Off(b) + k <= n
               PROVE  KnownAt(blocks[b], k, acc, file', Off(b) + k)
    BY <1>4, <1>6 DEF BytesKnown
  <2>1. b \in BlockIndexes /\ k \in Nat /\ k > 0
    BY <1>8 DEF Clean
  <2>2. PICK o \in Nat : o = Off(b)
    BY <2>1, IndexNat
  <2>3. PICK i \in 1..n : i = Off(b) + k /\ i = o + k
    BY <2>1, <2>2
  <2>4. CASE i <= l
    <3>1. KnownAt(blocks[b], k, acc, file, i)
      BY <1>1, <1>3, <2>3, <2>4 DEF BytesKnown
    <3>2. file'[i] = file[i]
      BY <1>7, <2>4
    <3>3. KnownAt(blocks[b], k, acc, file', i)
      BY <3>1, <3>2 DEF KnownAt
    <3> QED BY <2>3, <3>3
  <2>5. CASE ~(i <= l)
    <3>1. file'[i] = 0
      BY <1>7, <2>5
    <3>2. \A j \in 1..Len(acc) : ~Covers(acc[j], i)
      BY <1>9, <2>5 DEF Covers
    <3>3. Byte(blocks[b], k) = 0
      <4>1. CASE blocks[b] = <<>>
        BY <2>1, <4>1 DEF Byte
      <4>2. CASE blocks[b] # <<>>
        <5>1. o + Len(blocks[b]) <= size /\ Len(blocks[b]) \in Nat
          BY <1>1, <2>1, <2>2, <4>2 DEF BlocksInside, Typed
        <5>2. k > Len(blocks[b])
          BY <1>8, <2>1, <2>2, <2>3, <2>5, <5>1
        <5> QED BY <2>1, <5>1, <5>2 DEF Byte
      <4> QED BY <4>1, <4>2
    <3>4. KnownAt(blocks[b], k, acc, file', i)
      BY <3>1, <3>2, <3>3 DEF KnownAt
    <3> QED BY <2>3, <3>4
  <2> QED BY <2>4, <2>5
<1>14. EndKnown(size', torn', acc', file')
  <2>1. size' <= Len(file')
    BY <1>4, <1>6, <1>8
  <2>2. ASSUME NEW b \in Clean(torn, acc), Off(b) < n, n <= Off(b) + BlockSize
        PROVE  e = n \/ \E j \in 1..Len(acc) : End(acc[j]) = n
    <3>1. CASE l <= e
      BY <1>3, <3>1
    <3>2. CASE ~(l <= e)
      <4>1. n = l
        BY <1>3, <3>2
      <4>2. size = l \/ \E j \in 1..Len(acc) : End(acc[j]) = l
        BY <1>1, <1>3, <2>2, <4>1 DEF EndKnown
      <4> QED BY <1>4, <1>8, <3>2, <4>1, <4>2
    <3> QED BY <3>1, <3>2
  <2> QED BY <1>4, <1>6, <2>1, <2>2 DEF EndKnown
<1> QED BY <1>10, <1>11, <1>12, <1>13, <1>14 DEF IInv

\* An empty file has the invariant.
LEMMA InitKept == ASSUME Init PROVE IInv
<1>1. Typed
  <2>1. blocks = [b \in BlockIndexes |-> <<>>] /\ <<>> \in Seq(Nat) /\ Len(<<>>) = 0
    BY DEF Init
  <2>2. acc = <<>> /\ file = <<>> /\ size = 0 /\ torn = {}
    BY DEF Init
  <2> QED BY <2>1, <2>2, ConstantsAssumption DEF Typed
<1>2. BlocksInside(blocks, size)
  BY DEF Init, BlocksInside
<1>3. JobsInside(acc, file)
  BY DEF Init, JobsInside
<1>4. BytesKnown(blocks, torn, acc, file)
  <2> SUFFICES ASSUME NEW b \in Clean(torn, acc), NEW k \in 1..BlockSize, Off(b) + k <= Len(file)
               PROVE  FALSE
    BY DEF BytesKnown
  <2>1. Off(b) \in Nat /\ k \in Nat /\ k > 0 /\ Len(file) = 0
    BY IndexNat, ConstantsAssumption DEF Clean, Init
  <2> QED BY <2>1
<1>5. EndKnown(size, torn, acc, file)
  BY DEF Init, EndKnown
<1> QED BY <1>1, <1>2, <1>3, <1>4, <1>5 DEF IInv

\* The invariant always holds.
LEMMA Invariance == Spec => []IInv
<1>1. Init => IInv
  BY InitKept
<1>2. ASSUME IInv, [Next]_vars PROVE IInv'
  <2>1. CASE UNCHANGED vars
    BY <1>2, <2>1 DEF vars, IInv, Typed
  <2>2. CASE Next
    BY <1>2, <2>2, WriteKeeps, FlushKeeps, AllocateKeeps DEF Next
  <2> QED BY <1>2, <2>1, <2>2
<1> QED BY <1>1, <1>2, PTL DEF Spec

\* The byte i of the file lies in its block at the place that follows from
\* its number.
LEMMA PlaceOfByte ==
    ASSUME Typed, NEW i \in 1..Len(file)
    PROVE  /\ (i - 1) \div BlockSize \in BlockIndexes
           /\ ((i - 1) % BlockSize) + 1 \in 1..BlockSize
           /\ i = Off((i - 1) \div BlockSize) + (((i - 1) % BlockSize) + 1)
<1> DEFINE x == i - 1
           q == x \div BlockSize
           r == x % BlockSize
           p == MaxLen \div BlockSize
<1>1. x \in Nat /\ x < MaxLen /\ MaxLen \in Nat /\ BlockSize \in Nat
  BY ConstantsAssumption DEF Typed
<1> HIDE DEF x
<1>2. q \in Nat /\ r \in 0..(BlockSize - 1) /\ x = Off(q) + r
  BY <1>1, DivMod
<1>3. p \in Nat /\ Off(p) \in Nat /\ MaxLen < Off(p) + BlockSize
  BY <1>1, DivBounds
<1> HIDE DEF q, r, p
<1>4. q <= p
  <2>1. CASE p < q
    <3>1. Off(p) + BlockSize <= Off(q) /\ Off(q) \in Nat
      BY <1>2, <1>3, <2>1, OffLess, OffNat
    <3> QED BY <1>1, <1>2, <1>3, <3>1
  <2> QED BY <1>2, <1>3, <2>1
<1>5. q \in BlockIndexes
  BY <1>2, <1>3, <1>4 DEF BlockIndexes, p
<1>6. r + 1 \in 1..BlockSize /\ i = Off(q) + (r + 1)
  <2>1. Off(q) \in Nat
    BY <1>2, OffNat
  <2> QED BY <1>1, <1>2, <2>1 DEF x
<1> QED BY <1>5, <1>6 DEF q, r, x

\* Every reachable state of the accumulator, the blocks and the size is well
\* typed.
THEOREM TypeCorrect == Spec => []TypeOK
<1>1. IInv => TypeOK
  BY DEF IInv, Typed, TypeOK
<1> QED BY <1>1, Invariance, PTL

\* Once everything is flushed, a byte in a block that nothing was lost in is in
\* its place, and the size is known if it is the last one.
LEMMA FlushedByte ==
    ASSUME IInv, acc = <<>>, NEW i \in 1..Len(file), Intact(i)
    PROVE  /\ file[i] = Byte(blocks[(i - 1) \div BlockSize], ((i - 1) % BlockSize) + 1)
           /\ i = Len(file) => size = i
<1> DEFINE b == (i - 1) \div BlockSize
           k == ((i - 1) % BlockSize) + 1
<1>1. b \in BlockIndexes /\ k \in 1..BlockSize /\ i = Off(b) + k
  BY PlaceOfByte DEF IInv
<1>2. b \notin torn
  BY DEF Intact
<1> HIDE DEF b, k
<1>3. b \in Clean(torn, acc)
  <2>1. Contended(acc) = {}
    BY DEF Contended
  <2> QED BY <1>1, <1>2, <2>1 DEF Clean
<1>4. Len(file) \in Nat
  BY DEF IInv, Typed
<1>5. KnownAt(blocks[b], k, acc, file, Off(b) + k)
  BY <1>1, <1>3, <1>4 DEF IInv, BytesKnown
<1>6. KnownAt(blocks[b], k, acc, file, i)
  BY <1>1, <1>5
<1>7. file[i] = Byte(blocks[b], k)
  BY <1>6 DEF KnownAt
<1>8. i = Len(file) => size = i
  <2>1. Off(b) \in Nat /\ BlockSize \in Nat
    BY <1>1, IndexNat, ConstantsAssumption
  <2>2. i = Len(file) => Off(b) < Len(file) /\ Len(file) <= Off(b) + BlockSize
    BY <1>1, <1>4, <2>1
  <2> QED BY <1>3, <2>2 DEF IInv, EndKnown
<1> QED BY <1>7, <1>8 DEF b, k

\* Once everything is flushed, the blocks have the bytes of the file and the
\* size is its length, in all blocks that no flush has written twice: for
\* every block size, every threshold and any sequence of writes.
THEOREM FlushedIsRight == Spec => []FlushedRight
<1>1. ASSUME IInv, acc = <<>> PROVE FlushedRight
  <2>1. Len(file) \in Nat
    BY <1>1 DEF IInv, Typed
  <2>2. Len(file) > 0 /\ Intact(Len(file)) => size = Len(file)
    BY FlushedByte, <1>1, <2>1
  <2>3. \A i \in {k \in 1..Len(file) : Intact(k)} :
           file[i] = Byte(blocks[(i - 1) \div BlockSize], ((i - 1) % BlockSize) + 1)
    BY FlushedByte, <1>1
  <2> QED BY <2>2, <2>3 DEF FlushedRight, Byte
<1>2. IInv => FlushedRight
  BY <1>1 DEF FlushedRight
<1> QED BY <1>2, Invariance, PTL

-----------------------------------------------------------------------------
(***************************************************************************)
(* Reads.  Read is a recursive function over the blocks of the range; what *)
(* it is, is shown by a function that satisfies its equation and by the    *)
(* least block in which two such functions would differ.                   *)
(***************************************************************************)

\* What a read appends from its k-th block to what it has so far.
Step(start, n, k, sofar) ==
    LET data == BlockAt(start \div BlockSize + k - 1)
        from == IF k = 1 THEN start % BlockSize ELSE 0
        want == IF k = 1 THEN Min({BlockSize - (start % BlockSize), n})
                ELSE Min({n - Len(sofar), BlockSize})
    IN sofar \o SubSeq(data, from + 1, Min({from + want, Len(data)}))

\* r is the result of a read, block by block.
Reads(start, n, r) ==
    r = [k \in 0..BlockCount(start, n) |->
            IF k = 0 THEN <<>> ELSE Step(start, n, k, r[k - 1])]

\* Any function that satisfies the equation of a read gives what is read.
LEMMA ReadIs ==
    ASSUME NEW start, NEW n, BlockCount(start, n) \in Nat, NEW g, Reads(start, n, g)
    PROVE  Read(start, n) = g[BlockCount(start, n)]
<1> DEFINE N == BlockCount(start, n)
           r == CHOOSE f : Reads(start, n, f)
           bad == {k \in 0..N : r[k] # g[k]}
<1>1. Read(start, n) = r[N]
  BY DEF Read, Reads, Step
<1>2. Reads(start, n, r)
  OBVIOUS
<1> HIDE DEF r
<1>3. \A k \in 0..N : r[k] = IF k = 0 THEN <<>> ELSE Step(start, n, k, r[k - 1])
  BY <1>2 DEF Reads
<1>4. \A k \in 0..N : g[k] = IF k = 0 THEN <<>> ELSE Step(start, n, k, g[k - 1])
  BY DEF Reads
<1> HIDE DEF N
<1>5. N \in Nat
  BY DEF N
<1>6. bad = {}
  <2>1. SUFFICES ASSUME bad # {} PROVE FALSE
    OBVIOUS
  <2>2. PICK k \in bad : \A y \in bad : k <= y
    <3>1. bad \in SUBSET Nat
      BY <1>5
    <3> HIDE DEF bad
    <3> QED BY <2>1, <3>1, LeastExists
  <2>3. k \in 0..N /\ r[k] # g[k] /\ k # 0
    BY <1>3, <1>4, <2>2
  <2>4. k - 1 \in 0..N /\ k - 1 \notin bad
    BY <1>5, <2>2, <2>3
  <2>5. r[k - 1] = g[k - 1]
    BY <2>4
  <2> QED BY <1>3, <1>4, <2>3, <2>5
<1> QED BY <1>1, <1>5, <1>6 DEF N

\* BlockSplitterRead::new: the counted blocks reach to the end of the range.
LEMMA BlockCountReaches ==
    ASSUME NEW start \in Nat, NEW n \in Nat \ {0}
    PROVE  /\ BlockCount(start, n) \in Nat \ {0}
           /\ start + n <= Off(start \div BlockSize + BlockCount(start, n))
<1>1. PICK b \in Nat, pos \in 0..(BlockSize - 1) :
          b = start \div BlockSize /\ pos = start % BlockSize /\ start = Off(b) + pos
  BY DivMod
<1>2. PICK f \in Nat \ {0} :
          f = Min({BlockSize - pos, n}) /\ f <= BlockSize - pos /\ f <= n
  BY <1>1, MinOfTwo, ConstantsAssumption
<1>3. n - f \in Nat
  BY <1>2
<1>4. PICK q \in Nat, r \in 0..(BlockSize - 1) :
          q = (n - f) \div BlockSize /\ r = (n - f) % BlockSize /\ n - f = Off(q) + r
  BY <1>3, DivMod
<1>5. PICK e \in {0, 1} : e = (IF r > 0 THEN 1 ELSE 0)
  OBVIOUS
<1>6. BlockCount(start, n) = q + 1 + e
  <2>1. BlockCount(start, n) = q + (IF f > 0 THEN 1 ELSE 0) + (IF r > 0 THEN 1 ELSE 0)
    BY <1>1, <1>2, <1>4, Zenon DEF BlockCount
  <2>2. (IF f > 0 THEN 1 ELSE 0) = 1
    OBVIOUS
  <2> QED BY <1>5, <2>1, <2>2
<1>7. Off(b) \in Nat /\ Off(q) \in Nat /\ BlockSize \in Nat
  BY OffNat, ConstantsAssumption
<1>8. Off(b + (q + 1 + e)) = Off(b) + Off(q) + BlockSize + Off(e)
  <2>1. q + 1 + e \in Nat /\ q + 1 \in Nat /\ e \in Nat
    OBVIOUS
  <2>2. Off(b + (q + 1 + e)) = Off(b) + Off(q + 1 + e)
    BY <2>1, OffSum
  <2>3. Off(q + 1 + e) = Off(q + 1) + Off(e)
    BY <2>1, OffSum
  <2>4. Off(q + 1) = Off(q) + BlockSize
    BY OffNext
  <2>5. Off(e) \in Nat
    BY <2>1, OffNat
  <2> QED BY <1>7, <2>2, <2>3, <2>4, <2>5
<1>9. Off(e) = IF r > 0 THEN BlockSize ELSE 0
  <2>1. Off(1) = BlockSize
    BY ConstantsAssumption DEF Off
  <2> QED BY <1>5, <2>1, OffZero
<1>10. start + n <= Off(b + (q + 1 + e))
  BY <1>1, <1>2, <1>4, <1>7, <1>8, <1>9
<1> QED BY <1>1, <1>6, <1>10

\* A block that is read lies inside the file.
LEMMA BlockAtFacts ==
    ASSUME IInv, NEW b \in Nat
    PROVE  /\ BlockAt(b) \in Seq(Nat)
           /\ Len(BlockAt(b)) \in Nat /\ Len(BlockAt(b)) <= BlockSize
           /\ BlockAt(b) = <<>> \/ Off(b) + Len(BlockAt(b)) <= Len(file)
<1>1. CASE b \in BlockIndexes
  <2>1. BlockAt(b) = blocks[b]
    BY <1>1 DEF BlockAt
  <2>2. blocks[b] \in Seq(Nat) /\ Len(blocks[b]) <= BlockSize /\ Len(blocks[b]) \in Nat
    BY <1>1 DEF IInv, Typed
  <2>3. blocks[b] # <<>> => Off(b) + Len(blocks[b]) <= size
    BY <1>1 DEF IInv, BlocksInside
  <2>4. size <= Len(file) /\ size \in Nat /\ Len(file) \in Nat /\ Off(b) \in Nat
    <3>1. size <= Len(file)
      BY DEF IInv, EndKnown
    <3>2. size \in Nat /\ Len(file) \in Nat
      BY ConstantsAssumption DEF IInv, Typed
    <3> QED BY <3>1, <3>2, OffNat
  <2> QED BY <2>1, <2>2, <2>3, <2>4
<1>2. CASE b \notin BlockIndexes
  BY <1>2, ConstantsAssumption DEF BlockAt
<1> QED BY <1>1, <1>2

\* The bytes of the file within one block are those of the block.
LEMMA BlockBytes ==
    ASSUME IInv, acc = <<>>, NEW b \in Nat, NEW o \in Nat, o = Off(b),
           NEW i \in 1..Len(file), o < i, i <= o + BlockSize, Stored(i), Intact(i)
    PROVE  i - o <= Len(BlockAt(b)) /\ file[i] = BlockAt(b)[i - o]
<1>1. i - 1 \in Nat /\ Off(b) <= i - 1 /\ i - 1 < Off(b) + BlockSize
  BY ConstantsAssumption
<1>2. (i - 1) \div BlockSize = b /\ (i - 1) % BlockSize = i - 1 - Off(b)
  BY <1>1, DivUnique
<1>3. b \in BlockIndexes
  BY <1>2, PlaceOfByte DEF IInv
<1>4. ((i - 1) % BlockSize) + 1 = i - o
  BY <1>2
<1>5. i - o <= Len(blocks[b])
  BY <1>2, <1>4 DEF Stored
<1>6. file[i] = Byte(blocks[b], i - o)
  BY <1>2, <1>4, FlushedByte
<1> QED BY <1>3, <1>5, <1>6 DEF BlockAt, Byte

\* Two parts are equal whose bytes are.
LEMMA SameParts ==
    ASSUME NEW data \in Seq(Nat), NEW f \in Seq(Nat), NEW o \in Nat,
           NEW d \in Nat, NEW c \in Nat, d <= c, o + c <= Len(f), c <= Len(data),
           \A k \in (d + 1)..c : f[o + k] = data[k]
    PROVE  SubSeq(data, d + 1, c) = SubSeq(f, (o + d) + 1, o + c)
<1> DEFINE s == SubSeq(data, d + 1, c)
           t == SubSeq(f, (o + d) + 1, o + c)
<1>1. s \in Seq(Nat) /\ Len(s) = c - d /\ \A k \in 1..(c - d) : s[k] = data[d + k]
  BY SubSeqBytes
<1>2. t \in Seq(Nat) /\ Len(t) = c - d /\ \A k \in 1..(c - d) : t[k] = f[(o + d) + k]
  <2>1. o + d \in Nat /\ o + c \in Nat /\ o + d <= o + c /\ (o + c) - (o + d) = c - d
    OBVIOUS
  <2> QED BY <2>1, SubSeqBytes
<1>3. \A k \in 1..(c - d) : s[k] = t[k]
  <2>1. SUFFICES ASSUME NEW k \in 1..(c - d) PROVE s[k] = t[k]
    OBVIOUS
  <2>2. d + k \in (d + 1)..c /\ o + (d + k) = (o + d) + k
    OBVIOUS
  <2>3. f[(o + d) + k] = data[d + k]
    BY <2>2
  <2> QED BY <1>1, <1>2, <2>3
<1> HIDE DEF s, t
<1>4. s = t
  BY <1>1, <1>2, <1>3, SeqEqual
<1> QED BY <1>4 DEF s, t

\* The smaller of two numbers.
IsSmaller(x, a, b) == x <= a /\ x <= b /\ (x = a \/ x = b)

\* Min of two numbers, without a case distinction.
LEMMA MinIsSmaller ==
    ASSUME NEW a \in Int, NEW b \in Int
    PROVE  Min({a, b}) \in Int /\ IsSmaller(Min({a, b}), a, b)
BY MinOfTwo DEF IsSmaller

\* The bytes from p to e are in blocks that nothing was lost in.
Found(p, e) == \A i \in (p + 1)..e : Stored(i) /\ Intact(i)

\* A read of the bytes up to goal, of which the file has those up to e, is at
\* the byte d of the block at o; w is where it would like to stop in this
\* block, m where it can.
Piece(o, d, goal, e, w, m) ==
    /\ d \in Nat /\ goal \in Nat /\ e \in Nat /\ w \in Int /\ m \in Nat
    /\ d < BlockSize /\ o + d <= e
    /\ IsSmaller(e, goal, Len(file))
    /\ IsSmaller(w, BlockSize, goal - o)
    /\ IsSmaller(m, e, o + BlockSize)
    /\ Found(o + d, e)

\* What it takes from the block b is what the file has up to m.
Took(b, o, d, w, m) ==
    SubSeq(BlockAt(b), d + 1, Min({w, Len(BlockAt(b))})) = SubSeq(file, (o + d) + 1, m)

\* The part of a block that a read takes, up to the smaller of what it wants
\* and what there is, is the part of the file up to the end of the block.
LEMMA PartRead ==
    ASSUME IInv, acc = <<>>, NEW b \in Nat, NEW o \in Nat, Off(b) = o,
           NEW d, NEW goal, NEW e, NEW w, NEW m, Piece(o, d, goal, e, w, m)
    PROVE  Took(b, o, d, w, m)
<1>0. /\ d \in Nat /\ goal \in Nat /\ e \in Nat /\ w \in Int /\ m \in Nat
      /\ d < BlockSize /\ o + d <= e
      /\ IsSmaller(e, goal, Len(file))
      /\ IsSmaller(w, BlockSize, goal - o)
      /\ IsSmaller(m, e, o + BlockSize)
      /\ Found(o + d, e)
  BY DEF Piece
<1>1. PICK data \in Seq(Nat), L \in Nat :
          /\ BlockAt(b) = data /\ Len(data) = L /\ L <= BlockSize
          /\ L = 0 \/ o + L <= Len(file)
  BY BlockAtFacts
<1>2. file \in Seq(Nat) /\ Len(file) \in Nat /\ BlockSize \in Nat
  BY ConstantsAssumption DEF IInv, Typed
<1>4. PICK h \in Int : h = Min({w, L}) /\ IsSmaller(h, w, L)
  <2>1. L \in Int /\ w \in Int
    BY <1>0
  <2> QED BY <2>1, MinIsSmaller
<1>5. /\ \E c \in Nat : m = o + c /\ d <= c /\ c <= BlockSize
      /\ m <= Len(file) /\ m <= e
      /\ m = o + d => h <= d
      /\ m <= o + L /\ m > o + d => h = m - o
  <2>1. PICK F \in Nat, B \in Nat : F = Len(file) /\ B = BlockSize
    BY <1>2
  <2>2. /\ d < B /\ L <= B /\ (L = 0 \/ o + L <= F)
        /\ IsSmaller(e, goal, F) /\ o + d <= e
        /\ IsSmaller(w, B, goal - o) /\ IsSmaller(m, e, o + B) /\ IsSmaller(h, w, L)
    BY <1>0, <1>1, <1>4, <2>1
  <2>3. /\ \E c \in Nat : m = o + c /\ d <= c /\ c <= B
        /\ m <= F /\ m <= e
        /\ m = o + d => h <= d
        /\ m <= o + L /\ m > o + d => h = m - o
    <3> HIDE DEF Piece
    <3> QED BY <1>0, <2>2 DEF IsSmaller
  <2> QED BY <2>1, <2>3
<1>6. PICK c \in Nat : m = o + c /\ d <= c /\ c <= BlockSize
  BY <1>0, <1>5
<1>7. \A k \in (d + 1)..c : k <= L /\ file[o + k] = data[k]
  <2>1. SUFFICES ASSUME NEW k \in (d + 1)..c PROVE k <= L /\ file[o + k] = data[k]
    OBVIOUS
  <2>2. o + k \in 1..Len(file) /\ o + k \in ((o + d) + 1)..e
    <3>1. k \in Nat /\ d < k /\ k <= c
      BY <1>0
    <3>2. PICK F \in Nat : F = Len(file) /\ o + c <= F /\ o + c <= e
      BY <1>2, <1>5, <1>6
    <3> QED BY <1>0, <3>1, <3>2
  <2>3. o < o + k /\ o + k <= o + BlockSize /\ (o + k) - o = k
    <3>1. k \in Nat /\ 0 < k /\ k <= c
      BY <1>0
    <3>2. PICK B \in Nat : B = BlockSize /\ c <= B
      BY <1>2, <1>6
    <3> QED BY <1>0, <3>1, <3>2
  <2>4. Stored(o + k) /\ Intact(o + k)
    BY <1>0, <2>2 DEF Found
  <2>5. (o + k) - o <= Len(BlockAt(b)) /\ file[o + k] = BlockAt(b)[(o + k) - o]
    BY <2>2, <2>3, <2>4, BlockBytes
  <2> QED BY <1>1, <2>3, <2>5
<1>8. CASE d = c
  <2>1. SubSeq(file, (o + d) + 1, m) = <<>>
    BY <1>0, <1>6, <1>8, SubSeqEmpty
  <2>2. h <= d
    BY <1>0, <1>5, <1>6, <1>8
  <2>3. SubSeq(data, d + 1, h) = <<>>
    BY <1>0, <2>2, SubSeqEmpty
  <2> QED BY <1>1, <1>4, <2>1, <2>3, Zenon DEF Took
<1>9. CASE d < c
  <2>1. c <= L
    <3>1. c \in (d + 1)..c
      BY <1>0, <1>9
    <3> QED BY <1>7, <3>1
  <2>2. m <= o + L /\ m > o + d /\ m - o = c
    BY <1>0, <1>6, <1>9, <2>1
  <2>4. h = c
    BY <1>5, <2>2
  <2>5. SubSeq(data, d + 1, c) = SubSeq(file, (o + d) + 1, o + c)
    <3>1. o + c <= Len(file) /\ c <= Len(data)
      BY <1>1, <1>5, <1>6, <2>1
    <3>2. \A k \in (d + 1)..c : file[o + k] = data[k]
      BY <1>7
    <3>3. d <= c
      BY <1>0, <1>6
    <3> QED BY <1>0, <1>2, <3>1, <3>2, <3>3, SameParts, SMTT(40)
  <2>6. SubSeq(file, (o + d) + 1, o + c) = SubSeq(file, (o + d) + 1, m)
    BY <1>6, Zenon
  <2> QED BY <1>1, <1>4, <2>4, <2>5, <2>6, Zenon DEF Took
<1>10. d = c \/ d < c
  BY <1>0, <1>6
<1> QED BY <1>8, <1>9, <1>10

\* What is taken from a block is a sequence of bytes.
LEMMA TakenIsSeq ==
    ASSUME NEW d \in Nat, NEW w \in Int, NEW data \in Seq(Nat)
    PROVE  SubSeq(data, d + 1, Min({w, Len(data)})) \in Seq(Nat)
<1>1. PICK L \in Nat : L = Len(data)
  OBVIOUS
<1>2. PICK h \in Int : h = Min({w, L}) /\ IsSmaller(h, w, L)
  <2>1. L \in Int
    OBVIOUS
  <2> QED BY <2>1, MinIsSmaller
<1>3. \A i \in (d + 1)..h : data[i] \in Nat
  BY <1>1, <1>2 DEF IsSmaller
<1>4. SubSeq(data, d + 1, h) \in Seq(Nat)
  BY <1>3, SubSeqProperties
<1> QED BY <1>1, <1>2, <1>4, Zenon

\* Nothing is taken from a block in which the file ends before the range.
LEMMA NothingTaken ==
    ASSUME NEW d \in Nat, NEW w \in Int, NEW data \in Seq(Nat),
           w <= d \/ Len(data) <= d
    PROVE  SubSeq(data, d + 1, Min({w, Len(data)})) = <<>>
<1>1. PICK L \in Nat : L = Len(data)
  OBVIOUS
<1>2. PICK h \in Int : h = Min({w, L}) /\ IsSmaller(h, w, L)
  <2>1. L \in Int
    OBVIOUS
  <2> QED BY <2>1, MinIsSmaller
<1>3. h < d + 1
  BY <1>1, <1>2 DEF IsSmaller
<1>4. SubSeq(data, d + 1, h) = <<>>
  BY <1>3, SubSeqEmpty
<1> QED BY <1>1, <1>2, <1>4, Zenon

\* The bytes from start to e that lie in the first k blocks of a read.
Upto(start, e, k) == SubSeq(file, start + 1, Min({e, Off(start \div BlockSize + k)}))

\* After the first block a read has the bytes of the range that lie in it.
LEMMA FirstStep ==
    ASSUME IInv, acc = <<>>, NEW start \in Nat, NEW n \in Nat \ {0},
           NEW e \in Nat, IsSmaller(e, start + n, Len(file)), Found(start, e)
    PROVE  Step(start, n, 1, <<>>) = Upto(start, e, 1)
<1>1. PICK b \in Nat, d \in 0..(BlockSize - 1), o \in Nat :
          /\ b = start \div BlockSize /\ d = start % BlockSize
          /\ o = Off(b) /\ start = o + d
  BY DivMod, OffNat
<1>2. BlockSize \in Nat /\ Len(file) \in Nat /\ d < BlockSize /\ d \in Nat
  BY ConstantsAssumption DEF IInv, Typed
<1>3. PICK x \in Int : x = Min({BlockSize - d, n}) /\ IsSmaller(x, BlockSize - d, n)
  <2>1. BlockSize - d \in Int /\ n \in Int
    BY <1>2
  <2> QED BY <2>1, MinIsSmaller
<1>4. PICK w \in Int : w = d + x /\ IsSmaller(w, BlockSize, (start + n) - o)
  <2>1. d + x \in Int /\ (start + n) - o = d + n
    <3>1. start = o + d
      BY <1>1
    <3> HIDE <1>1
    <3> QED BY <1>2, <3>1
  <2>2. IsSmaller(d + x, BlockSize, d + n)
    BY <1>2, <1>3 DEF IsSmaller
  <2> QED BY <2>1, <2>2
<1>5. Off(b + 1) = o + BlockSize
  BY <1>1, OffNext
<1>6. PICK m \in Nat : m = Min({e, o + BlockSize}) /\ IsSmaller(m, e, o + BlockSize)
  <2>1. e \in Int /\ o + BlockSize \in Int
    BY <1>2
  <2>2. PICK m \in Int : m = Min({e, o + BlockSize}) /\ IsSmaller(m, e, o + BlockSize)
    BY <2>1, MinIsSmaller
  <2>3. m \in Nat
    BY <1>2, <2>2 DEF IsSmaller
  <2> QED BY <2>2, <2>3
<1>7. PICK data \in Seq(Nat) :
          data = BlockAt(b) /\ (data = <<>> \/ o + Len(data) <= Len(file))
  BY <1>1, BlockAtFacts
<1>8. Step(start, n, 1, <<>>) = SubSeq(data, d + 1, Min({w, Len(data)}))
  <2>1. start \div BlockSize + 1 - 1 = b
    BY <1>1
  <2>2. Step(start, n, 1, <<>>) = <<>> \o SubSeq(data, d + 1, Min({w, Len(data)}))
    BY <1>1, <1>3, <1>4, <1>7, <2>1, Zenon DEF Step
  <2>3. SubSeq(data, d + 1, Min({w, Len(data)})) \in Seq(Nat)
    BY <1>2, TakenIsSeq
  <2> QED BY <2>2, <2>3, ConcatEmptySeq
<1>9. CASE start <= e
  <2>2. SubSeq(BlockAt(b), d + 1, Min({w, Len(BlockAt(b))})) = SubSeq(file, start + 1, m)
    <3>1. start = o + d /\ start + n \in Nat
      BY <1>1
    <3>2. Piece(o, d, start + n, e, w, m)
      BY <1>2, <1>4, <1>6, <1>9, <3>1 DEF Piece
    <3>3. Off(b) = o
      BY <1>1
    <3>4. SubSeq(BlockAt(b), d + 1, Min({w, Len(BlockAt(b))})) = SubSeq(file, (o + d) + 1, m)
      <4>1. Took(b, o, d, w, m)
        BY <3>2, <3>3, PartRead
      <4> QED BY <4>1, Zenon DEF Took
    <3> QED BY <3>1, <3>4, Zenon
  <2> QED BY <1>1, <1>5, <1>6, <1>7, <1>8, <2>2, Zenon DEF Upto
<1>10. CASE e < start
  <2>1. e = Len(file)
    BY <1>2, <1>10 DEF IsSmaller
  <2>2. Len(data) <= d
    BY <1>1, <1>2, <1>7, <1>10, <2>1
  <2>3. SubSeq(data, d + 1, Min({w, Len(data)})) = <<>>
    BY <1>2, <2>2, NothingTaken
  <2>4. m < start + 1
    BY <1>2, <1>6, <1>10 DEF IsSmaller
  <2>5. SubSeq(file, start + 1, m) = <<>>
    BY <2>4, SubSeqEmpty
  <2> QED BY <1>1, <1>5, <1>6, <1>8, <2>3, <2>5, Zenon DEF Upto
<1>11. start <= e \/ e < start
  OBVIOUS
<1> QED BY <1>9, <1>10, <1>11

\* Each further block adds the bytes of the range that lie in it.
LEMMA FurtherStep ==
    ASSUME IInv, acc = <<>>, NEW start \in Nat, NEW n \in Nat \ {0},
           NEW e \in Nat, IsSmaller(e, start + n, Len(file)), Found(start, e),
           NEW j \in Nat \ {0}
    PROVE  Step(start, n, j + 1, Upto(start, e, j)) = Upto(start, e, j + 1)
<1>1. PICK f \in Nat, b \in Nat, o \in Nat :
          /\ f = start \div BlockSize /\ b = f + j /\ o = Off(b)
          /\ start < Off(f) + BlockSize /\ Off(f) \in Nat
  <2>1. PICK f \in Nat : f = start \div BlockSize /\ start < Off(f) + BlockSize /\ Off(f) \in Nat
    BY DivBounds
  <2>2. f + j \in Nat /\ Off(f + j) \in Nat
    <3>1. f + j \in Nat
      BY <2>1
    <3> QED BY <3>1, OffNat
  <2> QED BY <2>1, <2>2
<1>2. BlockSize \in Nat /\ BlockSize > 0 /\ Len(file) \in Nat /\ file \in Seq(Nat)
  BY ConstantsAssumption DEF IInv, Typed
<1>3. start < o
  <2>1. Off(f) + BlockSize <= Off(b)
    BY <1>1, OffLess
  <2> QED BY <1>1, <1>2, <2>1
<1>4. Off(f + (j + 1)) = o + BlockSize
  <2>1. f + (j + 1) = b + 1
    BY <1>1
  <2> QED BY <1>1, <2>1, OffNext
<1>5. PICK p \in Nat : p = Min({e, o}) /\ IsSmaller(p, e, o)
  <2>1. e \in Int /\ o \in Int
    OBVIOUS
  <2>2. PICK p \in Int : p = Min({e, o}) /\ IsSmaller(p, e, o)
    BY <2>1, MinIsSmaller
  <2>3. p \in Nat
    BY <2>2 DEF IsSmaller
  <2> QED BY <2>2, <2>3
<1>6. PICK m \in Nat : m = Min({e, o + BlockSize}) /\ IsSmaller(m, e, o + BlockSize)
  <2>1. e \in Int /\ o + BlockSize \in Int
    BY <1>2
  <2>2. PICK m \in Int : m = Min({e, o + BlockSize}) /\ IsSmaller(m, e, o + BlockSize)
    BY <2>1, MinIsSmaller
  <2>3. m \in Nat
    BY <1>2, <2>2 DEF IsSmaller
  <2> QED BY <2>2, <2>3
<1> DEFINE prev == SubSeq(file, start + 1, p)
<1>7. prev \in Seq(Nat) /\ (start <= p => Len(prev) = p - start) /\ (p < start => Len(prev) = 0)
  <2>1. CASE start <= p
    <3>1. p <= Len(file)
      BY <1>2, <1>5 DEF IsSmaller
    <3> QED BY <1>2, <2>1, <3>1, SubSeqBytes
  <2>2. CASE p < start
    <3>1. prev = <<>>
      BY <2>2, SubSeqEmpty
    <3> QED BY <2>2, <3>1
  <2> QED BY <2>1, <2>2
<1> HIDE DEF prev
<1>8. PICK l \in Nat : l = Len(prev) /\ (start <= p => l = p - start) /\ (p < start => l = 0)
  BY <1>7
<1>9. PICK w \in Int : w = Min({n - l, BlockSize}) /\ IsSmaller(w, n - l, BlockSize)
  <2>1. n - l \in Int /\ BlockSize \in Int
    BY <1>2
  <2> QED BY <2>1, MinIsSmaller
<1>10. PICK data \in Seq(Nat) :
          data = BlockAt(b) /\ (data = <<>> \/ o + Len(data) <= Len(file))
  BY <1>1, BlockAtFacts
<1>11. Step(start, n, j + 1, prev) = prev \o SubSeq(data, 0 + 1, Min({w, Len(data)}))
  <2>1. start \div BlockSize + (j + 1) - 1 = b /\ j + 1 # 1 /\ 0 + w = w
    BY <1>1
  <2>2. Step(start, n, j + 1, prev)
          = prev \o SubSeq(data, 0 + 1, Min({0 + w, Len(data)}))
    BY <1>8, <1>9, <1>10, <2>1, Zenon DEF Step
  <2> QED BY <2>1, <2>2, Zenon
<1>12. CASE o <= e
  <2>1. p = o
    BY <1>5, <1>12 DEF IsSmaller
  <2>2. IsSmaller(w, BlockSize, (start + n) - o)
    BY <1>2, <1>3, <1>8, <1>9, <2>1 DEF IsSmaller
  <2>3. Found(o, e)
    BY <1>3, <1>12 DEF Found
  <2>4. SubSeq(BlockAt(b), 0 + 1, Min({w, Len(BlockAt(b))})) = SubSeq(file, o + 1, m)
    <3>1. o + 0 = o /\ start + n \in Nat
      OBVIOUS
    <3>2. Piece(o, 0, start + n, e, w, m)
      BY <1>2, <1>6, <1>12, <2>2, <2>3, <3>1 DEF Piece
    <3>3. SubSeq(BlockAt(b), 0 + 1, Min({w, Len(BlockAt(b))})) = SubSeq(file, (o + 0) + 1, m)
      <4>1. Off(b) = o
        BY <1>1
      <4>2. Took(b, o, 0, w, m)
        BY <3>2, <4>1, PartRead
      <4> QED BY <4>2, Zenon DEF Took
    <3> QED BY <3>1, <3>3, Zenon
  <2>5. SubSeq(data, 0 + 1, Min({w, Len(data)})) = SubSeq(file, p + 1, m)
    BY <1>10, <2>1, <2>4, Zenon
  <2>6. prev \o SubSeq(file, p + 1, m) = SubSeq(file, start + 1, m)
    <3>1. start + 1 \in 1..(Len(file) + 1) /\ p \in ((start + 1) - 1)..Len(file) /\ m \in p..Len(file)
      BY <1>2, <1>3, <1>6, <1>12, <2>1 DEF IsSmaller
    <3> QED BY <1>2, <3>1, ConcatAdjacentSubSeq DEF prev
  <2> QED BY <1>1, <1>4, <1>5, <1>6, <1>11, <2>5, <2>6, Zenon DEF prev, Upto
<1>13. CASE e < o
  <2>1. p = e /\ m = e
    BY <1>2, <1>5, <1>6, <1>13 DEF IsSmaller
  <2>2. w <= 0 \/ Len(data) <= 0
    <3>1. CASE e = Len(file)
      BY <1>2, <1>10, <1>13, <3>1
    <3>2. CASE e = start + n
      BY <1>2, <1>8, <1>9, <2>1, <3>2 DEF IsSmaller
    <3> QED BY <3>1, <3>2 DEF IsSmaller
  <2>3. SubSeq(data, 0 + 1, Min({w, Len(data)})) = <<>>
    BY <2>2, NothingTaken
  <2>4. prev \o <<>> = prev
    BY <1>7
  <2> QED BY <1>1, <1>4, <1>5, <1>6, <1>11, <2>1, <2>3, <2>4, Zenon DEF prev, Upto
<1>14. o <= e \/ e < o
  OBVIOUS
<1> QED BY <1>12, <1>13, <1>14

\* A read gives the bytes of the file in the range, where they are found.
LEMMA ReadGives ==
    ASSUME IInv, acc = <<>>, NEW start \in Nat, NEW n \in Nat \ {0},
           NEW e \in Nat, IsSmaller(e, start + n, Len(file)), Found(start, e)
    PROVE  Read(start, n) = SubSeq(file, start + 1, e)
<1> DEFINE f == start \div BlockSize
           N == BlockCount(start, n)
           g == [k \in 0..N |-> IF k = 0 THEN <<>> ELSE Upto(start, e, k)]
<1>1. f \in Nat /\ N \in Nat \ {0} /\ start + n <= Off(f + N)
  BY DivMod, BlockCountReaches
<1>2. Step(start, n, 1, <<>>) = Upto(start, e, 1)
  BY FirstStep
<1>3. ASSUME NEW j \in Nat \ {0} PROVE Step(start, n, j + 1, Upto(start, e, j)) = Upto(start, e, j + 1)
  BY <1>3, FurtherStep
<1> HIDE DEF f, N
<1>4. ASSUME NEW k \in 0..N
      PROVE  g[k] = IF k = 0 THEN <<>> ELSE Step(start, n, k, g[k - 1])
  <2>1. CASE k = 0
    BY <2>1
  <2>2. CASE k = 1
    <3>1. g[k - 1] = <<>> /\ g[k] = Upto(start, e, 1)
      BY <1>1, <2>2
    <3> QED BY <1>2, <2>2, <3>1
  <2>3. CASE k > 1
    <3>1. PICK j \in Nat \ {0} : k = j + 1
      <4>1. k - 1 \in Nat \ {0} /\ k = (k - 1) + 1
        BY <1>1, <2>3
      <4> QED BY <4>1
    <3>2. g[k - 1] = Upto(start, e, j) /\ g[k] = Upto(start, e, j + 1)
      BY <1>1, <2>3, <3>1
    <3> QED BY <1>3, <2>3, <3>1, <3>2
  <2> QED BY <1>1, <2>1, <2>2, <2>3
<1>5. Reads(start, n, g)
  <2>1. g = [k \in 0..N |-> IF k = 0 THEN <<>> ELSE Step(start, n, k, g[k - 1])]
    <3>1. DOMAIN g = 0..N
      OBVIOUS
    <3> HIDE DEF g
    <3>2. [k \in 0..N |-> g[k]] = [k \in 0..N |-> IF k = 0 THEN <<>> ELSE Step(start, n, k, g[k - 1])]
      BY <1>4
    <3>3. g = [k \in 0..N |-> g[k]]
      BY <3>1 DEF g
    <3> QED BY <3>2, <3>3
  <2> QED BY <2>1 DEF Reads, N
<1>6. g[N] = Upto(start, e, N)
  BY <1>1
<1>7. Upto(start, e, N) = SubSeq(file, start + 1, e)
  <2>1. PICK a \in Nat : a = Off(f + N)
    <3>1. f + N \in Nat
      BY <1>1
    <3> QED BY <3>1, OffNat
  <2>2. e <= a
    <3>1. Len(file) \in Nat
      BY DEF IInv, Typed
    <3>2. e <= start + n
      BY DEF IsSmaller
    <3> QED BY <1>1, <2>1, <3>2
  <2>3. Min({e, a}) = e
    BY <2>2, MinOfTwo
  <2> QED BY <2>1, <2>3, Zenon DEF Upto, f
<1> HIDE DEF g
<1>8. Read(start, n) = g[N]
  BY <1>1, <1>5, ReadIs DEF N
<1> QED BY <1>6, <1>7, <1>8

\* Once everything is flushed, a read of any range at any offset returns the
\* bytes of the file, provided that they are in blocks that nothing was lost in
\* and that the range has no gap: for every block size and every file.
THEOREM ReadIsRight == Spec => []ReadMatches
<1>1. ASSUME IInv, acc = <<>>, NEW start \in 0..MaxLen, NEW n \in 1..MaxLen,
             \A i \in (start + 1)..Min({start + n, Len(file)}) : Stored(i) /\ Intact(i)
      PROVE  Read(start, n) = SubSeq(file, start + 1, Min({start + n, Len(file)}))
  <2>1. start \in Nat /\ n \in Nat \ {0} /\ Len(file) \in Nat
    BY <1>1, ConstantsAssumption DEF IInv, Typed
  <2>2. PICK e \in Nat : e = Min({start + n, Len(file)}) /\ IsSmaller(e, start + n, Len(file))
    <3>1. start + n \in Int /\ Len(file) \in Int
      BY <2>1
    <3>2. PICK e \in Int : e = Min({start + n, Len(file)}) /\ IsSmaller(e, start + n, Len(file))
      BY <3>1, MinIsSmaller
    <3>3. e \in Nat
      BY <2>1, <3>2 DEF IsSmaller
    <3> QED BY <3>2, <3>3
  <2>3. Found(start, e)
    BY <1>1, <2>2, Zenon DEF Found
  <2>4. Read(start, n) = SubSeq(file, start + 1, e)
    BY <1>1, <2>1, <2>2, <2>3, ReadGives
  <2> QED BY <2>2, <2>4, Zenon
<1>2. IInv => ReadMatches
  BY <1>1, Zenon DEF ReadMatches
<1> QED BY <1>2, Invariance, PTL
=============================================================================
