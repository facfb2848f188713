------------------------ MODULE DirectoryStoreProofs ------------------------
(***************************************************************************)
(* What lies in the store under which keys, for every width of a byte and  *)
(* of a number, every prefix and all names.                                *)
(***************************************************************************)
EXTENDS DirectoryStore, FiniteSetTheorems, FunctionTheorems, SequenceTheorems,
        NaturalsInduction, WellFoundedInduction, TLAPS

(***************************************************************************)
(* Numbers                                                                 *)
(***************************************************************************)

\* The order of the numbers, as a relation.
Smaller == {p \in Nat \X Nat : p[1] < p[2]}

\* A set of natural numbers has a least element.
LEMMA LeastNumber ==
    ASSUME NEW T \in SUBSET Nat, T # {}
    PROVE  \E x \in T : \A y \in T : x <= y
<1>1. IsWellFoundedOn(Smaller, Nat)
  BY NatLessThanWellFounded DEF OpToRel, Smaller
<1>2. PICK x \in T : \A y \in T : ~(<<y, x>> \in Smaller)
  BY <1>1, WFMin
<1>3. ASSUME NEW y \in T PROVE x <= y
  <2>1. ~(<<y, x>> \in Smaller)
    BY <1>2
  <2> QED BY <2>1 DEF Smaller
<1> QED BY <1>3

\* f is the sequence of values that a recursion over 0..len computes.
Iterates(len, x, step, f) ==
    f = [i \in 0..len |-> IF i = 0 THEN x ELSE step[<<i, f[i - 1]>>]]

\* Every value that a recursion computes is in the range of its step.
LEMMA IterationTyped ==
    ASSUME NEW len \in Nat, NEW S, NEW x \in S, NEW step \in [(1..len) \X S -> S],
           NEW f, Iterates(len, x, step, f)
    PROVE  f \in [0..len -> S]
<1> DEFINE bad == {i \in 0..len : f[i] \notin S}
<1>1. \A i \in 0..len : f[i] = IF i = 0 THEN x ELSE step[<<i, f[i - 1]>>]
  BY DEF Iterates
<1>2. bad = {}
  <2>1. SUFFICES ASSUME bad # {} PROVE FALSE
    OBVIOUS
  <2>2. PICK i \in bad : \A y \in bad : i <= y
    <3>1. bad \in SUBSET Nat
      OBVIOUS
    <3> HIDE DEF bad
    <3> QED BY <2>1, <3>1, LeastNumber
  <2>3. i \in 0..len /\ i # 0 /\ f[i] \notin S
    BY <1>1, <2>2
  <2>4. i - 1 \in 0..len /\ i - 1 \notin bad /\ i \in 1..len
    BY <2>2, <2>3
  <2>5. f[i - 1] \in S
    BY <2>4
  <2>6. <<i, f[i - 1]>> \in (1..len) \X S
    BY <2>4, <2>5
  <2> QED BY <1>1, <2>3, <2>6
<1>3. \A i \in 0..len : f[i] \in S
  BY <1>2
<1> QED BY <1>3 DEF Iterates

\* A recursion over 0..len has a result.
LEMMA IterationExists ==
    ASSUME NEW len \in Nat, NEW S, NEW x \in S, NEW step \in [(1..len) \X S -> S]
    PROVE  \E f : Iterates(len, x, step, f)
<1> DEFINE bad == {n \in 0..len : ~\E f : Iterates(n, x, step, f)}
<1>1. bad = {}
  <2>1. SUFFICES ASSUME bad # {} PROVE FALSE
    OBVIOUS
  <2>2. PICK n \in bad : \A y \in bad : n <= y
    <3>1. bad \in SUBSET Nat
      OBVIOUS
    <3> HIDE DEF bad
    <3> QED BY <2>1, <3>1, LeastNumber
  <2>3. n \in 0..len /\ ~\E f : Iterates(n, x, step, f)
    BY <2>2
  <2>4. n # 0
    <3>1. Iterates(0, x, step, [i \in 0..0 |-> x])
      BY DEF Iterates
    <3> QED BY <2>3, <3>1
  <2>5. n - 1 \in 0..len /\ n - 1 \notin bad
    BY <2>2, <2>3, <2>4
  <2>6. PICK f : Iterates(n - 1, x, step, f)
    BY <2>5
  <2> DEFINE g == [i \in 0..n |-> IF i = n THEN step[<<n, f[n - 1]>>] ELSE f[i]]
  <2>7. ASSUME NEW i \in 0..n
        PROVE  g[i] = IF i = 0 THEN x ELSE step[<<i, g[i - 1]>>]
    <3>1. CASE i = n
      <4>1. n - 1 \in 0..n /\ n - 1 # n
        BY <2>3, <2>4
      <4> QED BY <2>4, <3>1, <4>1
    <3>2. CASE i # n
      <4>1. i \in 0..(n - 1) /\ (i # 0 => i - 1 \in 0..n /\ i - 1 # n)
        BY <2>3, <3>2
      <4>2. f[i] = IF i = 0 THEN x ELSE step[<<i, f[i - 1]>>]
        BY <2>6, <4>1 DEF Iterates
      <4> QED BY <3>2, <4>1, <4>2
    <3> QED BY <3>1, <3>2
  <2>8. Iterates(n, x, step, g)
    <3>1. g = [i \in 0..n |-> IF i = 0 THEN x ELSE step[<<i, g[i - 1]>>]]
      BY <2>7
    <3> HIDE DEF g
    <3> QED BY <3>1 DEF Iterates
  <2> QED BY <2>3, <2>8
<1> QED BY <1>1

\* and only one result.
LEMMA IterationUnique ==
    ASSUME NEW len \in Nat, NEW x, NEW step, NEW f, NEW g,
           Iterates(len, x, step, f), Iterates(len, x, step, g)
    PROVE  f = g
<1> DEFINE bad == {i \in 0..len : f[i] # g[i]}
<1>1. /\ \A i \in 0..len : f[i] = IF i = 0 THEN x ELSE step[<<i, f[i - 1]>>]
      /\ \A i \in 0..len : g[i] = IF i = 0 THEN x ELSE step[<<i, g[i - 1]>>]
  BY DEF Iterates
<1>2. bad = {}
  <2>1. SUFFICES ASSUME bad # {} PROVE FALSE
    OBVIOUS
  <2>2. PICK i \in bad : \A y \in bad : i <= y
    <3>1. bad \in SUBSET Nat
      OBVIOUS
    <3> HIDE DEF bad
    <3> QED BY <2>1, <3>1, LeastNumber
  <2>3. i \in 0..len /\ i # 0 /\ f[i] # g[i]
    BY <1>1, <2>2
  <2>4. i - 1 \in 0..len /\ i - 1 \notin bad
    BY <2>2, <2>3
  <2>5. f[i - 1] = g[i - 1]
    BY <2>4
  <2> QED BY <1>1, <2>3, <2>5
<1>3. \A i \in 0..len : f[i] = g[i]
  BY <1>2
<1> QED BY <1>3 DEF Iterates

LEMMA BaseNat == Base \in Nat /\ Base >= 16 /\ Width \in Nat /\ Width >= 1
BY StoreKeysAssumption, DirectoryStoreAssumption

LEMMA DivModBase ==
    ASSUME NEW n \in Nat
    PROVE  /\ n \div Base \in Nat
           /\ n % Base \in 0..(Base - 1)
           /\ n = (n \div Base) * Base + (n % Base)
BY BaseNat, Z3

LEMMA TimesBase ==
    ASSUME NEW m \in Nat, NEW n \in Nat
    PROVE  /\ m * Base \in Nat
           /\ m < n => m * Base + Base <= n * Base
BY BaseNat, Z3

LEMMA DivLess ==
    ASSUME NEW m \in Nat, NEW n \in Nat, m < n * Base
    PROVE  m \div Base < n
<1>1. PICK q \in Nat, r \in 0..(Base - 1) :
        q = m \div Base /\ r = m % Base /\ m = q * Base + r
  BY DivModBase
<1>2. ~(n <= q)
  <2>1. SUFFICES ASSUME n <= q PROVE FALSE
    OBVIOUS
  <2>2. n = q \/ n < q
    BY <2>1
  <2>3. n * Base \in Nat /\ q * Base \in Nat /\ (n < q => n * Base + Base <= q * Base)
    BY TimesBase
  <2>4. Base \in Nat /\ r \in Nat
    BY BaseNat
  <2> QED BY <1>1, <2>2, <2>3, <2>4
<1> QED BY <1>1, <1>2

LEMMA DivMonotone ==
    ASSUME NEW m \in Nat, NEW n \in Nat, m <= n
    PROVE  /\ m \div Base <= n \div Base
           /\ m < n /\ m \div Base = n \div Base => m % Base < n % Base
<1>1. PICK q \in Nat, r \in 0..(Base - 1) :
        q = m \div Base /\ r = m % Base /\ m = q * Base + r
  BY DivModBase
<1>2. PICK p \in Nat, s \in 0..(Base - 1) :
        p = n \div Base /\ s = n % Base /\ n = p * Base + s
  BY DivModBase
<1>3. p * Base \in Nat /\ q * Base \in Nat /\ (p < q => p * Base + Base <= q * Base)
  BY TimesBase
<1>4. Base \in Nat /\ r \in Nat /\ s \in Nat /\ s < Base
  BY BaseNat
<1>5. ~(p < q)
  BY <1>1, <1>2, <1>3, <1>4
<1>6. m < n /\ q = p => r < s
  BY <1>1, <1>2, <1>3, <1>4
<1> QED BY <1>1, <1>2, <1>5, <1>6

-----------------------------------------------------------------------------
(***************************************************************************)
(* The bytes of a number                                                   *)
(***************************************************************************)

\* A number without its last bytes.
High(n) == CHOOSE high : high = [i \in 0..Width |-> IF i = 0 THEN n ELSE high[i - 1] \div Base]

LEMMA HighIs ==
    ASSUME NEW n \in Nat
    PROVE  /\ High(n) \in [0..Width -> Nat]
           /\ High(n)[0] = n
           /\ \A i \in 1..Width : High(n)[i] = High(n)[i - 1] \div Base
<1> DEFINE step == [p \in (1..Width) \X Nat |-> p[2] \div Base]
           Is(h) == h = [i \in 0..Width |-> IF i = 0 THEN n ELSE h[i - 1] \div Base]
<1>1. step \in [(1..Width) \X Nat -> Nat]
  BY DivModBase
<1>2. Width \in Nat
  BY BaseNat
<1>3. PICK f : Iterates(Width, n, step, f)
  <2> HIDE DEF step
  <2> QED BY <1>1, <1>2, IterationExists
<1>4. f \in [0..Width -> Nat]
  <2> HIDE DEF step
  <2> QED BY <1>1, <1>2, <1>3, IterationTyped
<1>5. \A h : h \in [0..Width -> Nat] =>
        [i \in 0..Width |-> IF i = 0 THEN n ELSE h[i - 1] \div Base]
            = [i \in 0..Width |-> IF i = 0 THEN n ELSE step[<<i, h[i - 1]>>]]
  <2> SUFFICES ASSUME NEW h \in [0..Width -> Nat], NEW i \in 0..Width, i # 0
               PROVE  h[i - 1] \div Base = step[<<i, h[i - 1]>>]
    OBVIOUS
  <2>1. i \in 1..Width /\ i - 1 \in 0..Width
    BY <1>2
  <2> QED BY <2>1
<1>6. Is(f)
  BY <1>3, <1>4, <1>5 DEF Iterates
<1>7. Is(High(n))
  BY <1>6 DEF High
<1> DEFINE h == High(n)
<1>8. h = [i \in 0..Width |-> IF i = 0 THEN n ELSE h[i - 1] \div Base]
  BY <1>7
<1> HIDE DEF h
<1> DEFINE bad == {i \in 0..Width : h[i] \notin Nat}
<1>9. \A i \in 0..Width : h[i] = IF i = 0 THEN n ELSE h[i - 1] \div Base
  BY <1>8
<1>10. bad = {}
  <2>1. SUFFICES ASSUME bad # {} PROVE FALSE
    OBVIOUS
  <2>2. PICK i \in bad : \A y \in bad : i <= y
    <3>1. bad \in SUBSET Nat
      OBVIOUS
    <3> HIDE DEF bad
    <3> QED BY <2>1, <3>1, LeastNumber
  <2>3. i \in 0..Width /\ i # 0 /\ h[i] \notin Nat
    BY <1>9, <2>2
  <2>4. i - 1 \in 0..Width /\ i - 1 \notin bad
    BY <2>2, <2>3, <1>2
  <2>5. h[i - 1] \in Nat
    BY <2>4
  <2> QED BY <1>9, <2>3, <2>5, DivModBase
<1>11. h \in [0..Width -> Nat]
  BY <1>8, <1>10
<1>12. \A i \in 1..Width : h[i] = h[i - 1] \div Base
  BY <1>2, <1>9
<1>13. h[0] = n
  BY <1>2, <1>9
<1> QED BY <1>11, <1>12, <1>13 DEF h

LEMMA BytesAre ==
    ASSUME NEW n \in Nat
    PROVE  /\ write_big_endian(n) = [i \in 1..Width |-> High(n)[Width - i] % Base]
           /\ write_big_endian(n) \in Seq(0..(Base - 1))
           /\ Len(write_big_endian(n)) = Width
<1>1. write_big_endian(n) = [i \in 1..Width |-> High(n)[Width - i] % Base]
  BY DEF write_big_endian, High
<1>2. Width \in Nat
  BY BaseNat
<1>3. ASSUME NEW i \in 1..Width PROVE High(n)[Width - i] % Base \in 0..(Base - 1)
  <2>1. Width - i \in 0..Width
    BY <1>2
  <2>2. High(n)[Width - i] \in Nat
    BY <2>1, HighIs
  <2> QED BY <2>2, DivModBase
<1>4. write_big_endian(n) \in [1..Width -> 0..(Base - 1)]
  BY <1>1, <1>3
<1> HIDE DEF High
<1> QED BY <1>1, <1>2, <1>4

\* The number of values of some bytes.
Values == CHOOSE values : values = [i \in 0..Width |-> IF i = 0 THEN 1 ELSE values[i - 1] * Base]

LEMMA ValuesAre ==
    /\ Values \in [0..Width -> Nat]
    /\ Values[0] = 1
    /\ \A i \in 1..Width : Values[i] = Values[i - 1] * Base
    /\ WordValues = Values[Width]
<1> DEFINE step == [p \in (1..Width) \X Nat |-> p[2] * Base]
           Is(h) == h = [i \in 0..Width |-> IF i = 0 THEN 1 ELSE h[i - 1] * Base]
<1>1. step \in [(1..Width) \X Nat -> Nat]
  BY TimesBase
<1>2. Width \in Nat /\ 1 \in Nat
  BY BaseNat
<1>3. PICK f : Iterates(Width, 1, step, f)
  <2> HIDE DEF step
  <2> QED BY <1>1, <1>2, IterationExists
<1>4. f \in [0..Width -> Nat]
  <2> HIDE DEF step
  <2> QED BY <1>1, <1>2, <1>3, IterationTyped
<1>5. \A h : h \in [0..Width -> Nat] =>
        [i \in 0..Width |-> IF i = 0 THEN 1 ELSE h[i - 1] * Base]
            = [i \in 0..Width |-> IF i = 0 THEN 1 ELSE step[<<i, h[i - 1]>>]]
  <2> SUFFICES ASSUME NEW h \in [0..Width -> Nat], NEW i \in 0..Width, i # 0
               PROVE  h[i - 1] * Base = step[<<i, h[i - 1]>>]
    OBVIOUS
  <2>1. i \in 1..Width /\ i - 1 \in 0..Width
    BY <1>2
  <2> QED BY <2>1
<1>6. Is(f)
  BY <1>3, <1>4, <1>5 DEF Iterates
<1>7. Is(Values)
  BY <1>6 DEF Values
<1> DEFINE h == Values
<1>8. h = [i \in 0..Width |-> IF i = 0 THEN 1 ELSE h[i - 1] * Base]
  BY <1>7
<1>9. WordValues = h[Width]
  BY DEF WordValues, Values
<1> HIDE DEF h
<1> DEFINE bad == {i \in 0..Width : h[i] \notin Nat}
<1>10. \A i \in 0..Width : h[i] = IF i = 0 THEN 1 ELSE h[i - 1] * Base
  BY <1>8
<1>11. bad = {}
  <2>1. SUFFICES ASSUME bad # {} PROVE FALSE
    OBVIOUS
  <2>2. PICK i \in bad : \A y \in bad : i <= y
    <3>1. bad \in SUBSET Nat
      OBVIOUS
    <3> HIDE DEF bad
    <3> QED BY <2>1, <3>1, LeastNumber
  <2>3. i \in 0..Width /\ i # 0 /\ h[i] \notin Nat
    BY <1>10, <2>2
  <2>4. i - 1 \in 0..Width /\ i - 1 \notin bad
    BY <2>2, <2>3, <1>2
  <2>5. h[i - 1] \in Nat
    BY <2>4
  <2> QED BY <1>10, <2>3, <2>5, TimesBase
<1>12. h \in [0..Width -> Nat]
  BY <1>8, <1>11
<1>13. \A i \in 1..Width : h[i] = h[i - 1] * Base
  BY <1>2, <1>10
<1>14. h[0] = 1
  BY <1>2, <1>10
<1> QED BY <1>9, <1>12, <1>13, <1>14 DEF h

\* The numbers that a u64 can hold.
Word == {n \in Nat : n < WordValues}

\* Nothing is left of a number without all of its bytes.
LEMMA HighOfWord ==
    ASSUME NEW n \in Word
    PROVE  High(n)[Width] = 0
<1>1. n \in Nat /\ n < Values[Width]
  BY ValuesAre DEF Word
<1>2. Width \in Nat
  BY BaseNat
<1> DEFINE h == High(n)
           bad == {i \in 0..Width : ~(h[i] < Values[Width - i])}
<1>3. h \in [0..Width -> Nat] /\ h[0] = n /\ \A i \in 1..Width : h[i] = h[i - 1] \div Base
  BY <1>1, HighIs
<1> HIDE DEF h
<1>4. bad = {}
  <2>1. SUFFICES ASSUME bad # {} PROVE FALSE
    OBVIOUS
  <2>2. PICK i \in bad : \A y \in bad : i <= y
    <3>1. bad \in SUBSET Nat
      OBVIOUS
    <3> HIDE DEF bad
    <3> QED BY <2>1, <3>1, LeastNumber
  <2>3. i \in 0..Width /\ i # 0 /\ ~(h[i] < Values[Width - i])
    BY <1>1, <1>2, <1>3, <2>2
  <2>4. i - 1 \in 0..Width /\ i - 1 \notin bad
    BY <2>2, <2>3, <1>2
  <2>5. h[i - 1] < Values[Width - (i - 1)]
    BY <2>4
  <2>6. Width - (i - 1) \in 1..Width /\ Width - (i - 1) - 1 = Width - i /\ Width - i \in 0..Width
    BY <2>3, <1>2
  <2>7. Values[Width - (i - 1)] = Values[Width - i] * Base /\ Values[Width - i] \in Nat
    BY <2>6, ValuesAre
  <2>8. h[i - 1] \in Nat /\ h[i] = h[i - 1] \div Base
    BY <1>2, <1>3, <2>3, <2>4
  <2> QED BY <2>3, <2>5, <2>7, <2>8, DivLess
<1>5. h[Width] < Values[Width - Width]
  BY <1>2, <1>4
<1>6. Width - Width = 0
  BY <1>2
<1> QED BY <1>2, <1>3, <1>5, <1>6, ValuesAre DEF h

\* The bytes of a smaller number: the first one that differs is smaller.
LEMMA BytesOrdered ==
    ASSUME NEW m \in Word, NEW n \in Word, m < n
    PROVE  \E j \in 1..Width :
              /\ \A i \in 1..(j - 1) : write_big_endian(m)[i] = write_big_endian(n)[i]
              /\ write_big_endian(m)[j] < write_big_endian(n)[j]
<1> DEFINE g == High(m)
           h == High(n)
           same == {i \in 0..Width : g[i] = h[i]}
<1>1. m \in Nat /\ n \in Nat /\ Width \in Nat
  BY BaseNat DEF Word
<1>2. /\ g \in [0..Width -> Nat] /\ g[0] = m /\ \A i \in 1..Width : g[i] = g[i - 1] \div Base
      /\ h \in [0..Width -> Nat] /\ h[0] = n /\ \A i \in 1..Width : h[i] = h[i - 1] \div Base
  BY <1>1, HighIs
<1>3. /\ write_big_endian(m) = [i \in 1..Width |-> g[Width - i] % Base]
      /\ write_big_endian(n) = [i \in 1..Width |-> h[Width - i] % Base]
  BY <1>1, BytesAre
<1>4. g[Width] = 0 /\ h[Width] = 0
  BY HighOfWord
<1> HIDE DEF g, h
<1>5. PICK k \in same : \A y \in same : k <= y
  <2>1. Width \in same
    BY <1>1, <1>4
  <2>2. same \in SUBSET Nat
    OBVIOUS
  <2> HIDE DEF same
  <2> QED BY <2>1, <2>2, LeastNumber
<1>6. k \in 0..Width /\ g[k] = h[k] /\ k # 0
  BY <1>1, <1>2, <1>5
<1>7. k - 1 \in 0..Width /\ k - 1 \notin same /\ k \in 1..Width
  BY <1>1, <1>5, <1>6
<1>8. g[k - 1] # h[k - 1]
  BY <1>7
<1>9. \A i \in 0..Width : g[i] <= h[i]
  <2> DEFINE bad == {i \in 0..Width : ~(g[i] <= h[i])}
  <2>1. SUFFICES ASSUME bad # {} PROVE FALSE
    OBVIOUS
  <2>2. PICK i \in bad : \A y \in bad : i <= y
    <3>1. bad \in SUBSET Nat
      OBVIOUS
    <3> HIDE DEF bad
    <3> QED BY <2>1, <3>1, LeastNumber
  <2>3. i \in 0..Width /\ i # 0 /\ ~(g[i] <= h[i])
    BY <1>1, <1>2, <2>2
  <2>4. i - 1 \in 0..Width /\ i - 1 \notin bad
    BY <1>1, <2>2, <2>3
  <2>5. g[i - 1] <= h[i - 1]
    BY <2>4
  <2>6. g[i - 1] \in Nat /\ h[i - 1] \in Nat
    BY <1>2, <2>4
  <2>7. g[i] = g[i - 1] \div Base /\ h[i] = h[i - 1] \div Base
    BY <1>1, <1>2, <2>3
  <2> QED BY <2>3, <2>5, <2>6, <2>7, DivMonotone
<1>10. \A i \in k..Width : g[i] = h[i]
  <2> DEFINE bad == {i \in k..Width : g[i] # h[i]}
  <2>1. SUFFICES ASSUME bad # {} PROVE FALSE
    OBVIOUS
  <2>2. PICK i \in bad : \A y \in bad : i <= y
    <3>1. bad \in SUBSET Nat
      BY <1>7
    <3> HIDE DEF bad
    <3> QED BY <2>1, <3>1, LeastNumber
  <2>3. i \in k..Width /\ i # k /\ g[i] # h[i]
    BY <1>6, <2>2
  <2>4. i - 1 \in k..Width /\ i - 1 \notin bad
    BY <1>1, <1>7, <2>2, <2>3
  <2>5. g[i - 1] = h[i - 1]
    BY <2>4
  <2>6. i \in 1..Width
    BY <1>1, <1>7, <2>3
  <2>7. g[i] = g[i - 1] \div Base /\ h[i] = h[i - 1] \div Base
    BY <1>2, <2>6
  <2> QED BY <2>3, <2>5, <2>7
<1> DEFINE j == Width - (k - 1)
<1>11. j \in 1..Width /\ Width - j = k - 1
  BY <1>1, <1>7
<1>12. write_big_endian(m)[j] < write_big_endian(n)[j]
  <2>1. g[k - 1] \in Nat /\ h[k - 1] \in Nat /\ g[k - 1] < h[k - 1]
    BY <1>2, <1>7, <1>8, <1>9
  <2>2. g[k - 1] \div Base = h[k - 1] \div Base
    BY <1>2, <1>6, <1>7
  <2>3. g[k - 1] % Base < h[k - 1] % Base
    BY <2>1, <2>2, DivMonotone
  <2> HIDE DEF j
  <2> QED BY <1>3, <1>11, <2>3
<1>13. ASSUME NEW i \in 1..(j - 1)
       PROVE  write_big_endian(m)[i] = write_big_endian(n)[i]
  <2>1. i \in 1..Width /\ Width - i \in k..Width
    BY <1>1, <1>7
  <2> QED BY <1>3, <1>10, <2>1
<1> HIDE DEF j
<1> QED BY <1>11, <1>12, <1>13

\* What is read from the bytes of a number is the number.
LEMMA ReadWritten ==
    ASSUME NEW n \in Word
    PROVE  read_big_endian(write_big_endian(n)) = n
<1> DEFINE bytes == write_big_endian(n)
           h == High(n)
           g == [i \in 0..Width |-> h[Width - i]]
           Is(f) == f = [i \in 0..Len(bytes) |-> IF i = 0 THEN 0 ELSE f[i - 1] * Base + bytes[i]]
           r == CHOOSE f : Is(f)
<1>1. n \in Nat /\ Width \in Nat
  BY BaseNat DEF Word
<1>2. h \in [0..Width -> Nat] /\ h[0] = n /\ \A i \in 1..Width : h[i] = h[i - 1] \div Base
  BY <1>1, HighIs
<1>3. bytes = [i \in 1..Width |-> h[Width - i] % Base] /\ Len(bytes) = Width
  BY <1>1, BytesAre
<1>4. h[Width] = 0
  BY HighOfWord
<1>5. read_big_endian(bytes) = r[Width]
  <2>1. read_big_endian(bytes) = r[Len(bytes)]
    BY DEF read_big_endian
  <2> HIDE DEF r, bytes
  <2> QED BY <1>3, <2>1
<1> HIDE DEF h, bytes
<1>6. ASSUME NEW i \in 0..Width
      PROVE  g[i] = IF i = 0 THEN 0 ELSE g[i - 1] * Base + bytes[i]
  <2>1. CASE i = 0
    BY <1>1, <1>4, <2>1
  <2>2. CASE i # 0
    <3>1. /\ i \in 1..Width /\ i - 1 \in 0..Width /\ Width - (i - 1) \in 1..Width
          /\ Width - (i - 1) - 1 = Width - i /\ Width - i \in 0..Width
      BY <1>1, <2>2
    <3>2. h[Width - (i - 1)] = h[Width - i] \div Base
      BY <1>2, <3>1
    <3>3. PICK v \in Nat : v = h[Width - i]
      BY <1>2, <3>1
    <3>4. PICK q : q = h[Width - (i - 1)]
      OBVIOUS
    <3>5. v = q * Base + (v % Base)
      BY <3>2, <3>3, <3>4, DivModBase
    <3>6. g[i] = v /\ g[i - 1] = q
      BY <3>1, <3>3, <3>4
    <3>7. bytes[i] = v % Base
      BY <1>3, <3>1, <3>3
    <3> HIDE DEF g
    <3> QED BY <2>2, <3>5, <3>6, <3>7
  <2> QED BY <2>1, <2>2
<1>7. Is(g)
  <2>1. g = [i \in 0..Width |-> IF i = 0 THEN 0 ELSE g[i - 1] * Base + bytes[i]]
    BY <1>6
  <2> HIDE DEF g
  <2> QED BY <1>3, <2>1
<1>8. Is(r)
  <2> HIDE DEF g
  <2> QED BY <1>7
<1>9. \A i \in 0..Width : r[i] = IF i = 0 THEN 0 ELSE r[i - 1] * Base + bytes[i]
  <2>1. \A i \in 0..Len(bytes) : r[i] = IF i = 0 THEN 0 ELSE r[i - 1] * Base + bytes[i]
    <3> HIDE DEF r
    <3> QED BY <1>8
  <2> HIDE DEF r
  <2> QED BY <1>3, <2>1
<1> HIDE DEF r, Is
<1> DEFINE bad == {i \in 0..Width : r[i] # g[i]}
<1>10. bad = {}
  <2>1. SUFFICES ASSUME bad # {} PROVE FALSE
    OBVIOUS
  <2>2. PICK i \in bad : \A y \in bad : i <= y
    <3>1. bad \in SUBSET Nat
      OBVIOUS
    <3> HIDE DEF bad
    <3> QED BY <2>1, <3>1, LeastNumber
  <2> HIDE DEF g
  <2>3. i \in 0..Width /\ i # 0 /\ r[i] # g[i]
    BY <1>6, <1>9, <2>2
  <2>4. i - 1 \in 0..Width /\ i - 1 \notin bad
    BY <1>1, <2>2, <2>3
  <2>5. r[i - 1] = g[i - 1]
    BY <2>4
  <2> QED BY <1>6, <1>9, <2>3, <2>5
<1>11. r[Width] = g[Width]
  <2>1. Width \in 0..Width
    BY <1>1
  <2> HIDE DEF g
  <2> QED BY <1>10, <2>1
<1>12. g[Width] = n
  BY <1>1, <1>2
<1> QED BY <1>5, <1>11, <1>12 DEF bytes

-----------------------------------------------------------------------------
(***************************************************************************)
(* The order of the keys                                                   *)
(***************************************************************************)
Bytes == 0..(Base - 1)
Keys == Seq(Bytes)

LEMMA KeyBytes ==
    ASSUME NEW k \in Keys
    PROVE  /\ Len(k) \in Nat /\ DOMAIN k = 1..Len(k)
           /\ \A i \in 1..Len(k) : k[i] \in Int /\ k[i] \in Bytes
BY BaseNat DEF Keys, Bytes

LEMMA KeyTotal ==
    ASSUME NEW k \in Keys, NEW l \in Keys
    PROVE  k = l \/ KeyLess(k, l) \/ KeyLess(l, k)
<1> DEFINE stops == {i \in 1..(Len(k) + 1) : i = Len(k) + 1 \/ i = Len(l) + 1 \/ k[i] # l[i]}
<1>1. Len(k) \in Nat /\ Len(l) \in Nat
  BY DEF Keys
<1>2. PICK i \in stops : \A y \in stops : i <= y
  <2>1. Len(k) + 1 \in stops /\ stops \in SUBSET Nat
    BY <1>1
  <2> HIDE DEF stops
  <2> QED BY <2>1, LeastNumber
<1>3. i \in 1..(Len(k) + 1) /\ (i = Len(k) + 1 \/ i = Len(l) + 1 \/ k[i] # l[i])
  BY <1>2
<1>4. ASSUME NEW m \in 1..(i - 1) PROVE m # Len(l) + 1 /\ k[m] = l[m]
  <2>1. m \in 1..(Len(k) + 1) /\ m \notin stops
    BY <1>1, <1>2, <1>3
  <2> QED BY <2>1
<1>5. i <= Len(l) + 1
  <2>1. SUFFICES ASSUME i > Len(l) + 1 PROVE FALSE
    BY <1>1, <1>3
  <2>2. Len(l) + 1 \in 1..(i - 1)
    BY <1>1, <1>3, <2>1
  <2> QED BY <1>4, <2>2
<1>6. CASE i = Len(k) + 1 /\ i = Len(l) + 1
  <2>1. Len(k) = Len(l) /\ \A m \in 1..Len(k) : k[m] = l[m]
    BY <1>1, <1>4, <1>6
  <2>2. k = l
    BY <2>1, SeqEqual DEF Keys
  <2> QED BY <2>2
<1>7. CASE i = Len(k) + 1 /\ i # Len(l) + 1
  <2>1. i \in 1..Len(l) /\ ~(i <= Len(k))
    BY <1>1, <1>3, <1>5, <1>7
  <2>2. KeyLess(k, l)
    BY <1>1, <1>4, <1>7, <2>1 DEF KeyLess
  <2> QED BY <2>2
<1>8. CASE i # Len(k) + 1 /\ i = Len(l) + 1
  <2>1. i \in 1..Len(k) /\ ~(i <= Len(l))
    BY <1>1, <1>3, <1>5, <1>8
  <2>2. KeyLess(l, k)
    BY <1>1, <1>4, <1>8, <2>1 DEF KeyLess
  <2> QED BY <2>2
<1>9. CASE i # Len(k) + 1 /\ i # Len(l) + 1
  <2>1. i \in 1..Len(k) /\ i \in 1..Len(l) /\ k[i] # l[i]
    BY <1>1, <1>3, <1>5, <1>9
  <2>2. k[i] \in Int /\ l[i] \in Int
    BY <2>1, BaseNat DEF Keys, Bytes
  <2>3. k[i] < l[i] \/ l[i] < k[i]
    BY <2>1, <2>2
  <2> QED BY <1>1, <1>4, <2>1, <2>3 DEF KeyLess
<1> QED BY <1>6, <1>7, <1>8, <1>9

LEMMA KeyIrreflexive ==
    ASSUME NEW k \in Keys
    PROVE  ~KeyLess(k, k)
<1> SUFFICES ASSUME NEW i \in 1..Len(k), i <= Len(k) => k[i] < k[i] PROVE FALSE
  BY DEF KeyLess
<1>1. Len(k) \in Nat /\ k[i] \in Int
  BY BaseNat DEF Keys, Bytes
<1> QED BY <1>1

LEMMA KeyTransitive ==
    ASSUME NEW k \in Keys, NEW l \in Keys, NEW m \in Keys, KeyLess(k, l), KeyLess(l, m)
    PROVE  KeyLess(k, m)
<1>1. Len(k) \in Nat /\ Len(l) \in Nat /\ Len(m) \in Nat
  BY DEF Keys
<1>2. PICK i \in 1..Len(l) :
        i <= Len(k) + 1 /\ (\A n \in 1..(i - 1) : k[n] = l[n]) /\ (i <= Len(k) => k[i] < l[i])
  BY DEF KeyLess
<1>3. PICK j \in 1..Len(m) :
        j <= Len(l) + 1 /\ (\A n \in 1..(j - 1) : l[n] = m[n]) /\ (j <= Len(l) => l[j] < m[j])
  BY DEF KeyLess
<1>4. PICK n \in {i, j} : n <= i /\ n <= j
  BY <1>1, <1>2, <1>3
<1>5. n \in 1..Len(m) /\ n <= Len(k) + 1
  BY <1>1, <1>2, <1>3, <1>4
<1>6. ASSUME NEW p \in 1..(n - 1) PROVE k[p] = m[p]
  <2>1. p \in 1..(i - 1) /\ p \in 1..(j - 1)
    BY <1>1, <1>4
  <2> QED BY <1>2, <1>3, <2>1
<1>7. ASSUME n <= Len(k) PROVE k[n] < m[n]
  <2>1. n \in 1..Len(k) /\ n \in 1..Len(l)
    BY <1>1, <1>4, <1>7
  <2>2. k[n] \in Int /\ l[n] \in Int /\ m[n] \in Int
    BY <1>5, <2>1, KeyBytes
  <2>3. (n = i \/ n \in 1..(i - 1)) /\ (n = j \/ n \in 1..(j - 1))
    BY <1>1, <1>4, <1>5
  <2>4. k[n] <= l[n] /\ l[n] <= m[n] /\ (k[n] < l[n] \/ l[n] < m[n])
    BY <1>2, <1>3, <1>4, <2>1, <2>2, <2>3
  <2> QED BY <2>2, <2>4
<1> QED BY <1>5, <1>6, <1>7 DEF KeyLess

\* The rank of a key among finitely many.
Rank(F) == [k \in F |-> Cardinality({j \in F : KeyLess(j, k)}) + 1]

LEMMA RankBijective ==
    ASSUME NEW F \in SUBSET Keys, IsFiniteSet(F)
    PROVE  /\ Rank(F) \in Bijection(F, 1..Cardinality(F))
           /\ \A k, l \in F : KeyLess(k, l) => Rank(F)[k] < Rank(F)[l]
<1> DEFINE below(k) == {j \in F : KeyLess(j, k)}
<1>1. Cardinality(F) \in Nat
  BY FS_CardinalityType
<1>2. ASSUME NEW k \in F
      PROVE  /\ below(k) \in SUBSET F /\ IsFiniteSet(below(k)) /\ Cardinality(below(k)) \in Nat
             /\ Cardinality(below(k)) < Cardinality(F)
             /\ Rank(F)[k] = Cardinality(below(k)) + 1
  <2>1. below(k) \in SUBSET F /\ k \notin below(k)
    BY KeyIrreflexive
  <2>2. Rank(F)[k] = Cardinality(below(k)) + 1
    BY DEF Rank
  <2> HIDE DEF below
  <2>3. IsFiniteSet(below(k)) /\ Cardinality(below(k)) <= Cardinality(F)
        /\ (Cardinality(F) = Cardinality(below(k)) => F = below(k))
    BY <2>1, FS_Subset
  <2>4. Cardinality(below(k)) \in Nat
    BY <2>3, FS_CardinalityType
  <2> QED BY <1>1, <2>1, <2>2, <2>3, <2>4
<1>3. ASSUME NEW k \in F, NEW l \in F, KeyLess(k, l) PROVE Rank(F)[k] < Rank(F)[l]
  <2>1. below(k) \in SUBSET below(l) /\ k \in below(l) /\ k \notin below(k)
    BY <1>3, KeyTransitive, KeyIrreflexive
  <2>2. IsFiniteSet(below(l)) /\ Cardinality(below(l)) \in Nat /\ Cardinality(below(k)) \in Nat
        /\ Rank(F)[k] = Cardinality(below(k)) + 1 /\ Rank(F)[l] = Cardinality(below(l)) + 1
    BY <1>2
  <2> HIDE DEF below
  <2>3. Cardinality(below(k)) <= Cardinality(below(l))
        /\ (Cardinality(below(l)) = Cardinality(below(k)) => below(l) = below(k))
    BY <2>1, <2>2, FS_Subset
  <2> QED BY <2>1, <2>2, <2>3
<1> HIDE DEF below
<1>4. Rank(F) \in [F -> 1..Cardinality(F)]
  <2>1. \A k \in F : Rank(F)[k] \in 1..Cardinality(F)
    BY <1>1, <1>2
  <2> QED BY <2>1 DEF Rank
<1>5. ASSUME NEW k \in F, NEW l \in F, Rank(F)[k] = Rank(F)[l] PROVE k = l
  <2>1. Rank(F)[k] \in Int
    BY <1>1, <1>4
  <2>2. ~KeyLess(k, l) /\ ~KeyLess(l, k)
    BY <1>3, <1>5, <2>1
  <2> QED BY <2>2, KeyTotal
<1>6. Rank(F) \in Injection(F, 1..Cardinality(F))
  BY <1>4, <1>5 DEF Injection, IsInjective
<1>7. IsFiniteSet(1..Cardinality(F)) /\ Cardinality(1..Cardinality(F)) = Cardinality(F)
  <2>1. 1 \in Int /\ Cardinality(F) \in Int
    BY <1>1
  <2>2. IsFiniteSet(1..Cardinality(F))
        /\ Cardinality(1..Cardinality(F)) = IF 1 > Cardinality(F) THEN 0 ELSE Cardinality(F) - 1 + 1
    BY <2>1, FS_Interval
  <2> QED BY <1>1, <2>2
<1>8. Rank(F) \in Surjection(F, 1..Cardinality(F))
  BY <1>6, <1>7, FS_Injection
<1> QED BY <1>3, <1>6, <1>8 DEF Bijection

\* The keys that a scan can find.
Found(S, range) == {k \in S : InRange(k, range)}
ScanLen(S, range, limit) ==
    IF Cardinality(Found(S, range)) < limit THEN Cardinality(Found(S, range)) ELSE limit

\* A scan returns keys of the range, each once and in their order, and all of
\* them unless there are more than the limit.
LEMMA ScanIs ==
    ASSUME NEW S \in SUBSET Keys, IsFiniteSet(S), NEW range, NEW limit \in Nat
    PROVE  /\ ScanLen(S, range, limit) \in Nat
           /\ Scan(S, range, limit) \in [1..ScanLen(S, range, limit) -> Found(S, range)]
           /\ Len(Scan(S, range, limit)) = ScanLen(S, range, limit)
           /\ \A i, j \in 1..ScanLen(S, range, limit) :
                i < j => KeyLess(Scan(S, range, limit)[i], Scan(S, range, limit)[j])
           /\ Cardinality(Found(S, range)) <= limit =>
                ToSet(Scan(S, range, limit)) = Found(S, range)
<1> DEFINE F == Found(S, range)
           N == ScanLen(S, range, limit)
           scan == Scan(S, range, limit)
<1>1. F \in SUBSET S /\ F \in SUBSET Keys
  BY DEF Found
<1>2. IsFiniteSet(F) /\ Cardinality(F) \in Nat
  <2> HIDE DEF F
  <2>1. IsFiniteSet(F)
    BY <1>1, FS_Subset
  <2> QED BY <2>1, FS_CardinalityType
<1>3. N \in Nat /\ N <= Cardinality(F) /\ (Cardinality(F) <= limit => N = Cardinality(F))
  BY <1>2 DEF ScanLen
<1>4. scan = [i \in 1..N |-> CHOOSE k \in F : Rank(F)[k] = i]
  BY DEF Scan, ScanLen, Found, Rank
<1> HIDE DEF F, N, scan
<1>5. /\ Rank(F) \in Bijection(F, 1..Cardinality(F))
      /\ \A k, l \in F : KeyLess(k, l) => Rank(F)[k] < Rank(F)[l]
  BY <1>1, <1>2, RankBijective
<1>6. ASSUME NEW i \in 1..N PROVE scan[i] \in F /\ Rank(F)[scan[i]] = i
  <2>1. i \in 1..Cardinality(F)
    BY <1>2, <1>3
  <2>2. \E k \in F : Rank(F)[k] = i
    BY <1>5, <2>1 DEF Bijection, Surjection
  <2> QED BY <1>4, <2>2
<1>7. scan \in [1..N -> F]
  BY <1>4, <1>6
<1>8. Len(scan) = N
  BY <1>3, <1>7
<1>9. ASSUME NEW i \in 1..N, NEW j \in 1..N, i < j PROVE KeyLess(scan[i], scan[j])
  <2>1. scan[i] \in F /\ scan[j] \in F /\ Rank(F)[scan[i]] = i /\ Rank(F)[scan[j]] = j
    BY <1>6
  <2>2. scan[i] # scan[j] /\ ~KeyLess(scan[j], scan[i])
    BY <1>3, <1>5, <1>9, <2>1
  <2> QED BY <1>1, <2>1, <2>2, KeyTotal
<1>10. ASSUME Cardinality(F) <= limit PROVE ToSet(scan) = F
  <2>1. N = Cardinality(F)
    BY <1>3, <1>10
  <2>2. ASSUME NEW k \in F PROVE \E i \in 1..N : scan[i] = k
    <3>1. Rank(F)[k] \in 1..N
      BY <1>5, <2>1 DEF Bijection, Injection
    <3>2. scan[Rank(F)[k]] \in F /\ Rank(F)[scan[Rank(F)[k]]] = Rank(F)[k]
      BY <1>6, <3>1
    <3>3. scan[Rank(F)[k]] = k
      BY <1>5, <3>2 DEF Bijection, Injection, IsInjective
    <3> QED BY <3>1, <3>3
  <2> QED BY <1>7, <2>2 DEF ToSet
<1> QED BY <1>3, <1>7, <1>8, <1>9, <1>10 DEF F, N, scan

-----------------------------------------------------------------------------
(***************************************************************************)
(* Keys and their kinds                                                    *)
(***************************************************************************)
LEMMA KindIds ==
    /\ IdOf(KeyKinds, "KeyLockStates") = 0 /\ IdOf(KeyKinds, "FsMetadataStatic") = 1
    /\ IdOf(KeyKinds, "FsMetadata") = 2 /\ IdOf(KeyKinds, "InoMetadata") = 3
    /\ IdOf(KeyKinds, "DirectoryChild") = 5 /\ IdOf(KeyKinds, "ParentLink") = 6
    /\ IdOf(KeyKinds, "HashedBlock") = 7 /\ IdOf(KeyKinds, "InoBlockHashMapping") = 8
    /\ IdOf(KeyKinds, "HashedBlockExists") = 9
<1> DEFINE K == KeyKinds
<1>1. Len(K) = 12
  BY DEF KeyKinds
<1>2. /\ K[1] = "KeyLockStates" /\ K[2] = "FsMetadataStatic" /\ K[3] = "FsMetadata"
      /\ K[4] = "InoMetadata" /\ K[5] = "Block" /\ K[6] = "DirectoryChild"
      /\ K[7] = "ParentLink" /\ K[8] = "HashedBlock" /\ K[9] = "InoBlockHashMapping"
      /\ K[10] = "HashedBlockExists" /\ K[11] = "PendingDelete" /\ K[12] = "NamedHashedBlock"
  BY DEF KeyKinds
<1>3. \A i \in 1..12 : i \in {1, 2, 3, 4, 5, 6, 7, 8, 9, 10, 11, 12}
  OBVIOUS
<1> DEFINE id(x) == CHOOSE i \in 1..Len(K) : K[i] = x
<1> HIDE DEF K
<1>4. id("KeyLockStates") = 1
  BY <1>1, <1>2, <1>3
<1>5. id("FsMetadataStatic") = 2
  BY <1>1, <1>2, <1>3
<1>6. id("FsMetadata") = 3
  BY <1>1, <1>2, <1>3
<1>7. id("InoMetadata") = 4
  BY <1>1, <1>2, <1>3
<1>8. id("DirectoryChild") = 6
  BY <1>1, <1>2, <1>3
<1>9. id("ParentLink") = 7
  BY <1>1, <1>2, <1>3
<1>10. id("HashedBlock") = 8
  BY <1>1, <1>2, <1>3
<1>11. id("InoBlockHashMapping") = 9
  BY <1>1, <1>2, <1>3
<1>12. id("HashedBlockExists") = 10
  BY <1>1, <1>2, <1>3
<1> QED BY <1>4, <1>5, <1>6, <1>7, <1>8, <1>9, <1>10, <1>11, <1>12 DEF IdOf, K

KindsUsed == {"KeyLockStates", "FsMetadataStatic", "FsMetadata", "InoMetadata", "DirectoryChild",
              "ParentLink", "HashedBlock", "InoBlockHashMapping", "HashedBlockExists"}

LEMMA KindBytes ==
    /\ \A kind \in KindsUsed : IdOf(KeyKinds, kind) \in Bytes
    /\ \A kind, other \in KindsUsed :
        IdOf(KeyKinds, kind) = IdOf(KeyKinds, other) => kind = other
<1>1. \A kind \in KindsUsed : IdOf(KeyKinds, kind) \in 0..9
  BY KindIds DEF KindsUsed
<1>2. \A i \in 0..9 : i \in Bytes
  BY BaseNat DEF Bytes
<1>3. \A kind, other \in KindsUsed :
        IdOf(KeyKinds, kind) = IdOf(KeyKinds, other) => kind = other
  BY KindIds DEF KindsUsed
<1> QED BY <1>1, <1>2, <1>3

LEMMA PrefixKey == Prefix \in Keys /\ Len(Prefix) \in Nat
BY StoreKeysAssumption DEF Keys, Bytes

\* A key that begins with the prefix and a kind.
OfKind(k, kind) ==
    /\ k \in Keys
    /\ Len(k) >= Len(Prefix) + 1
    /\ \A i \in 1..Len(Prefix) : k[i] = Prefix[i]
    /\ k[Len(Prefix) + 1] = IdOf(KeyKinds, kind)

LEMMA ConcatKeys ==
    ASSUME NEW k \in Keys, NEW l \in Keys
    PROVE  /\ k \o l \in Keys
           /\ Len(k \o l) = Len(k) + Len(l)
           /\ \A i \in 1..Len(k) : (k \o l)[i] = k[i]
           /\ \A i \in 1..Len(l) : (k \o l)[Len(k) + i] = l[i]
           /\ \A i \in (Len(k) + 1)..(Len(k) + Len(l)) : (k \o l)[i] = l[i - Len(k)]
BY KeyBytes, ConcatProperties DEF Keys

\* s is the key k with l behind it.
Joins(k, l, s) ==
    /\ s \in Keys
    /\ Len(s) = Len(k) + Len(l)
    /\ \A i \in 1..Len(k) : s[i] = k[i]
    /\ \A i \in 1..Len(l) : s[Len(k) + i] = l[i]
    /\ \A i \in (Len(k) + 1)..(Len(k) + Len(l)) : s[i] = l[i - Len(k)]

LEMMA JoinsConcat ==
    ASSUME NEW k \in Keys, NEW l \in Keys
    PROVE  Joins(k, l, k \o l)
BY ConcatKeys, Zenon DEF Joins

LEMMA KindPrefix ==
    ASSUME NEW kind \in KindsUsed
    PROVE  /\ write_key_kind(kind) \in Keys
           /\ Len(write_key_kind(kind)) = Len(Prefix) + 1
           /\ OfKind(write_key_kind(kind), kind)
<1>1. <<IdOf(KeyKinds, kind)>> \in Keys /\ Len(<<IdOf(KeyKinds, kind)>>) = 1
      /\ <<IdOf(KeyKinds, kind)>>[1] = IdOf(KeyKinds, kind)
  BY KindBytes DEF Keys
<1> DEFINE id == <<IdOf(KeyKinds, kind)>>
<1> HIDE DEF id
<1>2. /\ Prefix \o id \in Keys /\ Len(Prefix \o id) = Len(Prefix) + 1
      /\ \A i \in 1..Len(Prefix) : (Prefix \o id)[i] = Prefix[i]
      /\ \A i \in 1..Len(id) : (Prefix \o id)[Len(Prefix) + i] = id[i]
  BY <1>1, PrefixKey, ConcatKeys DEF id
<1>3. (Prefix \o id)[Len(Prefix) + 1] = IdOf(KeyKinds, kind)
  BY <1>1, <1>2 DEF id
<1>4. write_key_kind(kind) = Prefix \o id
  BY DEF write_key_kind, id
<1> QED BY <1>2, <1>3, <1>4, PrefixKey DEF OfKind

LEMMA KindConcat ==
    ASSUME NEW kind, NEW k, OfKind(k, kind), NEW rest \in Keys
    PROVE  OfKind(k \o rest, kind)
<1>1. k \in Keys /\ Len(k) \in Nat /\ Len(rest) \in Nat /\ Len(Prefix) \in Nat
  BY PrefixKey, KeyBytes DEF OfKind
<1>2. /\ k \o rest \in Keys /\ Len(k \o rest) = Len(k) + Len(rest)
      /\ \A i \in 1..Len(k) : (k \o rest)[i] = k[i]
  BY <1>1, ConcatKeys
<1> QED BY <1>1, <1>2 DEF OfKind

LEMMA KindUnique ==
    ASSUME NEW kind \in KindsUsed, NEW other \in KindsUsed, NEW k, OfKind(k, kind), OfKind(k, other)
    PROVE  kind = other
BY KindBytes DEF OfKind

\* A range whose ends agree up to a byte holds no key that differs from them
\* in this byte.
LEMMA Outside ==
    ASSUME NEW k \in Keys, NEW from \in Keys, NEW to \in Keys, NEW n \in Nat \ {0},
           n <= Len(k), n <= Len(from), n <= Len(to), k[n] # from[n], from[n] = to[n],
           \A i \in 1..(n - 1) : k[i] = from[i] /\ k[i] = to[i]
    PROVE  ~InRange(k, KeyRange(from, to))
<1> SUFFICES ASSUME ~KeyLess(k, from), KeyLess(k, to) PROVE FALSE
  BY DEF InRange, KeyRange
<1>1. Len(k) \in Nat /\ Len(from) \in Nat /\ Len(to) \in Nat
  BY KeyBytes
<1>2. PICK i \in 1..Len(to) :
        i <= Len(k) + 1 /\ (\A m \in 1..(i - 1) : k[m] = to[m]) /\ (i <= Len(k) => k[i] < to[i])
  BY DEF KeyLess
<1>3. i <= n
  <2>1. SUFFICES ASSUME n < i PROVE FALSE
    BY <1>1, <1>2
  <2>2. n \in 1..(i - 1)
    BY <1>1, <1>2, <2>1
  <2> QED BY <1>2, <2>2
<1>4. i <= Len(k) /\ k[i] \in Int /\ i \in 1..Len(k)
  BY <1>1, <1>2, <1>3, KeyBytes
<1>5. i = n
  BY <1>1, <1>2, <1>3, <1>4
<1>6. n \in 1..Len(from) /\ k[n] < from[n]
  BY <1>1, <1>2, <1>4, <1>5
<1>7. KeyLess(k, from)
  BY <1>1, <1>6 DEF KeyLess
<1> QED BY <1>7

\* A range within one kind holds no key of another kind.
LEMMA OtherKind ==
    ASSUME NEW kind \in KindsUsed, NEW other \in KindsUsed, kind # other,
           NEW k, OfKind(k, other), NEW from, NEW to, OfKind(from, kind), OfKind(to, kind)
    PROVE  ~InRange(k, KeyRange(from, to))
<1> DEFINE n == Len(Prefix) + 1
<1>1. n \in Nat \ {0} /\ Len(Prefix) \in Nat
  BY PrefixKey
<1>2. /\ k \in Keys /\ n <= Len(k) /\ from \in Keys /\ n <= Len(from)
      /\ to \in Keys /\ n <= Len(to)
      /\ \A i \in 1..(n - 1) : k[i] = from[i] /\ k[i] = to[i]
      /\ from[n] = to[n] /\ k[n] # from[n]
  BY <1>1, KeyBytes, KindBytes DEF OfKind
<1> HIDE DEF n
<1> QED BY <1>1, <1>2, Outside

-----------------------------------------------------------------------------
(***************************************************************************)
(* Keys with a number behind a prefix                                      *)
(***************************************************************************)
LEMMA WordBytes ==
    ASSUME NEW n \in Word
    PROVE  n \in Nat /\ write_big_endian(n) \in Keys /\ Len(write_big_endian(n)) = Width
BY BytesAre DEF Word, Keys, Bytes

Numbered(p, n, rest) == p \o write_big_endian(n) \o rest

LEMMA NumberedKey ==
    ASSUME NEW p \in Keys, NEW n \in Word, NEW rest \in Keys
    PROVE  /\ Numbered(p, n, rest) \in Keys
           /\ Len(Numbered(p, n, rest)) = Len(p) + Width + Len(rest)
           /\ \A i \in 1..Len(p) : Numbered(p, n, rest)[i] = p[i]
           /\ \A i \in 1..Width : Numbered(p, n, rest)[Len(p) + i] = write_big_endian(n)[i]
           /\ \A i \in 1..Len(rest) : Numbered(p, n, rest)[Len(p) + Width + i] = rest[i]
<1> DEFINE w == write_big_endian(n)
<1>1. w \in Keys /\ Len(w) = Width /\ Width \in Nat /\ Len(p) \in Nat /\ Len(rest) \in Nat
  BY WordBytes, BaseNat, KeyBytes
<1> HIDE DEF w
<1>2. /\ p \o w \in Keys /\ Len(p \o w) = Len(p) + Width
      /\ \A i \in 1..Len(p) : (p \o w)[i] = p[i]
      /\ \A i \in 1..Width : (p \o w)[Len(p) + i] = w[i]
  BY <1>1, ConcatKeys
<1> DEFINE q == p \o w
<1> HIDE DEF q
<1>3. /\ q \in Keys /\ Len(q) = Len(p) + Width
      /\ \A i \in 1..Len(p) : q[i] = p[i]
      /\ \A i \in 1..Width : q[Len(p) + i] = w[i]
  BY <1>2 DEF q
<1>4. /\ q \o rest \in Keys /\ Len(q \o rest) = Len(q) + Len(rest)
      /\ \A i \in 1..Len(q) : (q \o rest)[i] = q[i]
      /\ \A i \in 1..Len(rest) : (q \o rest)[Len(q) + i] = rest[i]
  BY <1>3, ConcatKeys
<1>5. Numbered(p, n, rest) = q \o rest
  BY DEF Numbered, q, w
<1>6. \A i \in 1..Width : Len(p) + i \in 1..Len(q)
  BY <1>1, <1>3
<1>7. \A i \in 1..Len(p) : i \in 1..Len(q)
  BY <1>1, <1>3
<1> QED BY <1>3, <1>4, <1>5, <1>6, <1>7 DEF w

LEMMA NumberLess ==
    ASSUME NEW p \in Keys, NEW m \in Word, NEW n \in Word, m < n, NEW r \in Keys, NEW s \in Keys
    PROVE  KeyLess(Numbered(p, m, r), Numbered(p, n, s))
<1> DEFINE k == Numbered(p, m, r)
           l == Numbered(p, n, s)
           v == write_big_endian(m)
           w == write_big_endian(n)
<1>1. PICK j \in 1..Width : (\A i \in 1..(j - 1) : v[i] = w[i]) /\ v[j] < w[j]
  BY BytesOrdered
<1>2. /\ k \in Keys /\ Len(k) = Len(p) + Width + Len(r)
      /\ \A i \in 1..Len(p) : k[i] = p[i]
      /\ \A i \in 1..Width : k[Len(p) + i] = v[i]
  BY NumberedKey
<1>3. /\ l \in Keys /\ Len(l) = Len(p) + Width + Len(s)
      /\ \A i \in 1..Len(p) : l[i] = p[i]
      /\ \A i \in 1..Width : l[Len(p) + i] = w[i]
  BY NumberedKey
<1>4. Width \in Nat /\ Len(p) \in Nat /\ Len(r) \in Nat /\ Len(s) \in Nat
  BY BaseNat, KeyBytes
<1> HIDE DEF k, l, v, w
<1> DEFINE i == Len(p) + j
<1>5. i \in 1..Len(l) /\ i \in 1..Len(k) /\ i <= Len(k) + 1
  BY <1>2, <1>3, <1>4
<1>6. k[i] < l[i]
  BY <1>1, <1>2, <1>3
<1>7. ASSUME NEW x \in 1..(i - 1) PROVE k[x] = l[x]
  <2>1. CASE x <= Len(p)
    <3>1. x \in 1..Len(p)
      BY <2>1, <1>4
    <3> QED BY <1>2, <1>3, <3>1
  <2>2. CASE x > Len(p)
    <3>1. PICK y \in 1..(j - 1) : x = Len(p) + y
      <4>1. x - Len(p) \in 1..(j - 1) /\ x = Len(p) + (x - Len(p))
        BY <1>4, <2>2
      <4> QED BY <4>1
    <3>2. y \in 1..Width
      BY <1>4
    <3> QED BY <1>1, <1>2, <1>3, <3>1, <3>2
  <2> QED BY <2>1, <2>2, <1>4
<1> HIDE DEF i
<1>8. KeyLess(k, l)
  BY <1>5, <1>6, <1>7 DEF KeyLess
<1> QED BY <1>8 DEF k, l

LEMMA LongerNotLess ==
    ASSUME NEW k \in Keys, NEW rest \in Keys
    PROVE  ~KeyLess(k \o rest, k)
<1> SUFFICES ASSUME NEW i \in 1..Len(k), i <= Len(k \o rest) => (k \o rest)[i] < k[i] PROVE FALSE
  BY DEF KeyLess
<1>1. Len(k \o rest) = Len(k) + Len(rest) /\ (k \o rest)[i] = k[i]
  BY ConcatKeys
<1>2. Len(k) \in Nat /\ Len(rest) \in Nat /\ k[i] \in Int
  BY KeyBytes
<1> QED BY <1>1, <1>2

\* The keys between a prefix with a number and with the next one are those
\* with this number.
LEMMA NumberRange ==
    ASSUME NEW p \in Keys, NEW n \in Word, n + 1 \in Word, NEW m \in Word, NEW rest \in Keys
    PROVE  InRange(Numbered(p, m, rest),
                   KeyRange(p \o write_big_endian(n), p \o write_big_endian(n + 1))) <=> m = n
<1> DEFINE k == Numbered(p, m, rest)
           from == p \o write_big_endian(n)
           to == p \o write_big_endian(n + 1)
<1>1. InRange(k, KeyRange(from, to)) <=> ~KeyLess(k, from) /\ KeyLess(k, to)
  BY DEF InRange, KeyRange
<1>2. <<>> \in Keys
  BY DEF Keys
<1>3. from \in Keys /\ to \in Keys
  BY WordBytes, ConcatKeys
<1>4. from = Numbered(p, n, <<>>) /\ to = Numbered(p, n + 1, <<>>)
  <2> HIDE DEF from, to
  <2>1. from \o <<>> = from /\ to \o <<>> = to
    BY <1>3, ConcatEmptySeq DEF Keys
  <2> QED BY <2>1 DEF Numbered, from, to
<1>5. n \in Nat /\ m \in Nat
  BY WordBytes
<1>6. CASE m < n
  <2>1. KeyLess(k, from)
    BY <1>2, <1>4, <1>6, NumberLess
  <2> QED BY <1>1, <1>5, <1>6, <2>1
<1>7. CASE m = n
  <2>1. k = from \o rest
    BY <1>7 DEF Numbered
  <2>2. ~KeyLess(k, from)
    <3> HIDE DEF from, k
    <3> QED BY <1>3, <2>1, LongerNotLess
  <2>3. n < n + 1
    BY <1>5
  <2>4. KeyLess(k, to)
    BY <1>2, <1>4, <1>7, <2>3, NumberLess
  <2> QED BY <1>1, <1>7, <2>2, <2>4
<1>8. CASE m = n + 1
  <2>1. k = to \o rest
    BY <1>8 DEF Numbered
  <2>2. ~KeyLess(k, to)
    <3> HIDE DEF to, k
    <3> QED BY <1>3, <2>1, LongerNotLess
  <2> QED BY <1>1, <1>5, <1>8, <2>2
<1>9. CASE n + 1 < m
  <2>1. KeyLess(to, k)
    BY <1>2, <1>4, <1>9, NumberLess
  <2>2. k \in Keys
    BY NumberedKey
  <2>3. ~KeyLess(k, to)
    <3> HIDE DEF to, k
    <3> QED BY <1>3, <2>1, <2>2, KeyTransitive, KeyIrreflexive
  <2> QED BY <1>1, <1>5, <1>9, <2>3
<1> QED BY <1>5, <1>6, <1>7, <1>8, <1>9

LEMMA NumberedInjective ==
    ASSUME NEW p \in Keys, NEW m \in Word, NEW n \in Word, NEW r \in Keys, NEW s \in Keys,
           Numbered(p, m, r) = Numbered(p, n, s)
    PROVE  m = n /\ r = s
<1>1. m \in Nat /\ n \in Nat /\ Numbered(p, m, r) \in Keys
  BY WordBytes, NumberedKey
<1>2. ~(m < n) /\ ~(n < m)
  BY <1>1, NumberLess, KeyIrreflexive
<1>3. m = n
  BY <1>1, <1>2
<1>4. p \o write_big_endian(n) \in Keys
  BY WordBytes, ConcatKeys
<1> DEFINE q == p \o write_big_endian(n)
<1>5. q \o r = q \o s /\ q \in Keys
  BY <1>3, <1>4 DEF Numbered
<1> HIDE DEF q
<1>6. r = s
  BY <1>5, ConcatSimplifications DEF Keys
<1> QED BY <1>3, <1>6

-----------------------------------------------------------------------------
(***************************************************************************)
(* The keys that ScopedKeyBuilder builds                                   *)
(***************************************************************************)
LEMMA EmptyKey == <<>> \in Keys /\ Len(<<>>) = 0
BY DEF Keys

LEMMA NumberedKind ==
    ASSUME NEW kind \in KindsUsed, NEW n \in Word, NEW rest \in Keys
    PROVE  OfKind(Numbered(write_key_kind(kind), n, rest), kind)
<1>1. OfKind(write_key_kind(kind), kind)
  BY KindPrefix
<1>2. write_big_endian(n) \in Keys
  BY WordBytes
<1>3. OfKind(write_key_kind(kind) \o write_big_endian(n), kind)
  BY <1>1, <1>2, KindConcat
<1> QED BY <1>3, KindConcat DEF Numbered

ChildKind == write_key_kind("DirectoryChild")
ParentKind == write_key_kind("ParentLink")
InodeKind == write_key_kind("InoMetadata")
BlockKind == write_key_kind("InoBlockHashMapping")

LEMMA KindKeys == ChildKind \in Keys /\ ParentKind \in Keys /\ InodeKind \in Keys /\ BlockKind \in Keys
<1>1. {"DirectoryChild", "ParentLink", "InoMetadata", "InoBlockHashMapping"} \subseteq KindsUsed
  BY DEF KindsUsed
<1> QED BY <1>1, KindPrefix DEF ChildKind, ParentKind, InodeKind, BlockKind

LEMMA ChildKey ==
    ASSUME NEW dir \in Word, NEW name \in Keys
    PROVE  /\ directory_child(dir, name) = Numbered(ChildKind, dir, name)
           /\ OfKind(directory_child(dir, name), "DirectoryChild")
<1>1. directory_child(dir, name) = Numbered(ChildKind, dir, name)
  BY DEF directory_child, Numbered, ChildKind
<1>2. "DirectoryChild" \in KindsUsed
  BY DEF KindsUsed
<1>3. OfKind(Numbered(ChildKind, dir, name), "DirectoryChild")
  BY <1>2, NumberedKind DEF ChildKind
<1> QED BY <1>1, <1>3

LEMMA ChildKeyInjective ==
    ASSUME NEW d1 \in Word, NEW n1 \in Keys, NEW d2 \in Word, NEW n2 \in Keys,
           directory_child(d1, n1) = directory_child(d2, n2)
    PROVE  d1 = d2 /\ n1 = n2
BY ChildKey, KindKeys, NumberedInjective

\* What is behind the inode in the key of a parent link.
LEMMA ParentRest ==
    ASSUME NEW dir \in Word, NEW name \in Keys
    PROVE  /\ write_big_endian(dir) \o name \in Keys
           /\ write_big_endian(dir) \o name = Numbered(<<>>, dir, name)
<1>1. write_big_endian(dir) \in Keys
  BY WordBytes
<1>2. <<>> \o write_big_endian(dir) = write_big_endian(dir)
  BY <1>1, ConcatEmptySeq DEF Keys
<1> QED BY <1>1, <1>2, ConcatKeys DEF Numbered

LEMMA ParentKey ==
    ASSUME NEW ino \in Word, NEW dir \in Word, NEW name \in Keys
    PROVE  /\ parent_link(ino, dir, name) = Numbered(ParentKind, ino, write_big_endian(dir) \o name)
           /\ OfKind(parent_link(ino, dir, name), "ParentLink")
<1> DEFINE p == ParentKind \o write_big_endian(ino)
           w == write_big_endian(dir)
<1>1. p \in Keys /\ w \in Keys
  BY KindKeys, WordBytes, ConcatKeys
<1>2. parent_link(ino, dir, name) = p \o w \o name
  BY DEF parent_link, ParentKind
<1>3. Numbered(ParentKind, ino, write_big_endian(dir) \o name) = p \o (w \o name)
  BY DEF Numbered
<1> HIDE DEF p, w
<1>4. p \o w \o name = p \o (w \o name)
  BY <1>1, ConcatAssociative DEF Keys
<1>5. "ParentLink" \in KindsUsed
  BY DEF KindsUsed
<1>6. OfKind(Numbered(ParentKind, ino, write_big_endian(dir) \o name), "ParentLink")
  BY <1>5, NumberedKind, ParentRest DEF ParentKind
<1> QED BY <1>2, <1>3, <1>4, <1>6

LEMMA ParentKeyInjective ==
    ASSUME NEW i1 \in Word, NEW d1 \in Word, NEW n1 \in Keys,
           NEW i2 \in Word, NEW d2 \in Word, NEW n2 \in Keys,
           parent_link(i1, d1, n1) = parent_link(i2, d2, n2)
    PROVE  i1 = i2 /\ d1 = d2 /\ n1 = n2
<1> DEFINE r1 == write_big_endian(d1) \o n1
           r2 == write_big_endian(d2) \o n2
<1>1. r1 \in Keys /\ r2 \in Keys /\ r1 = Numbered(<<>>, d1, n1) /\ r2 = Numbered(<<>>, d2, n2)
  BY ParentRest
<1>2. Numbered(ParentKind, i1, r1) = Numbered(ParentKind, i2, r2)
  BY ParentKey
<1> HIDE DEF r1, r2
<1>3. i1 = i2 /\ r1 = r2
  BY <1>1, <1>2, KindKeys, NumberedInjective
<1>4. Numbered(<<>>, d1, n1) = Numbered(<<>>, d2, n2)
  BY <1>1, <1>3
<1> QED BY <1>3, <1>4, EmptyKey, NumberedInjective

InoMetas == {"Description", "LinkCount", "Size", "UnixAttributes", "LockState", "AccessTime",
             "ModificationTime", "Opened", "FullHash", "ChangeIterationId", "InlineData"}

LEMMA MetaIds ==
    /\ \A m \in InoMetas : IdOf(InoMetadata, m) \in 0..10 /\ <<IdOf(InoMetadata, m)>> \in Keys
                            /\ ById(InoMetadata, IdOf(InoMetadata, m)) = m
    /\ ToSet(InoMetadata) = InoMetas
    /\ Len(InoMetadata) = 11
<1> DEFINE K == InoMetadata
<1>1. Len(K) = 11 /\ DOMAIN K = 1..11
  BY DEF InoMetadata
<1>2. /\ K[1] = "Description" /\ K[2] = "LinkCount" /\ K[3] = "Size"
      /\ K[4] = "UnixAttributes" /\ K[5] = "LockState" /\ K[6] = "AccessTime"
      /\ K[7] = "ModificationTime" /\ K[8] = "Opened" /\ K[9] = "FullHash"
      /\ K[10] = "ChangeIterationId" /\ K[11] = "InlineData"
  BY DEF InoMetadata
<1>3. \A i \in 1..11 : i \in {1, 2, 3, 4, 5, 6, 7, 8, 9, 10, 11}
  OBVIOUS
<1> HIDE DEF K
<1>4. ToSet(K) = InoMetas
  <2>1. ASSUME NEW i \in 1..11 PROVE K[i] \in InoMetas
    BY <1>2, <1>3 DEF InoMetas
  <2>2. ASSUME NEW m \in InoMetas PROVE \E i \in 1..11 : K[i] = m
    BY <1>2 DEF InoMetas
  <2> QED BY <1>1, <2>1, <2>2 DEF ToSet
<1>5. ASSUME NEW m \in InoMetas
      PROVE  /\ IdOf(K, m) \in 0..10 /\ <<IdOf(K, m)>> \in Keys
             /\ ById(K, IdOf(K, m)) = m
  <2>1. \E i \in 1..11 : K[i] = m
    BY <1>2 DEF InoMetas
  <2> DEFINE i == CHOOSE x \in 1..Len(K) : K[x] = m
  <2>2. i \in 1..11 /\ K[i] = m
    BY <1>1, <2>1
  <2>3. IdOf(K, m) = i - 1
    BY DEF IdOf
  <2> HIDE DEF i
  <2>4. IdOf(K, m) \in 0..10 /\ IdOf(K, m) + 1 = i
    BY <2>2, <2>3
  <2>5. ById(K, IdOf(K, m)) = m
    BY <2>2, <2>4 DEF ById
  <2>6. IdOf(K, m) \in Bytes
    BY <2>4, BaseNat DEF Bytes
  <2> QED BY <2>4, <2>5, <2>6 DEF Keys
<1> QED BY <1>1, <1>4, <1>5 DEF K

LEMMA InodeKey ==
    ASSUME NEW ino \in Word, NEW m \in InoMetas
    PROVE  /\ inode_x(ino, m) = Numbered(InodeKind, ino, <<IdOf(InoMetadata, m)>>)
           /\ OfKind(inode_x(ino, m), "InoMetadata")
<1>1. inode_x(ino, m) = Numbered(InodeKind, ino, <<IdOf(InoMetadata, m)>>)
  BY DEF inode_x, Numbered, InodeKind
<1>2. "InoMetadata" \in KindsUsed /\ <<IdOf(InoMetadata, m)>> \in Keys
  BY MetaIds DEF KindsUsed
<1>3. OfKind(Numbered(InodeKind, ino, <<IdOf(InoMetadata, m)>>), "InoMetadata")
  BY <1>2, NumberedKind DEF InodeKind
<1> QED BY <1>1, <1>3

LEMMA InodeKeyInjective ==
    ASSUME NEW i1 \in Word, NEW m1 \in InoMetas, NEW i2 \in Word, NEW m2 \in InoMetas,
           inode_x(i1, m1) = inode_x(i2, m2)
    PROVE  i1 = i2 /\ m1 = m2
<1> DEFINE r1 == <<IdOf(InoMetadata, m1)>>
           r2 == <<IdOf(InoMetadata, m2)>>
<1>1. r1 \in Keys /\ r2 \in Keys
  BY MetaIds
<1>2. Numbered(InodeKind, i1, r1) = Numbered(InodeKind, i2, r2)
  BY InodeKey
<1>3. r1[1] = IdOf(InoMetadata, m1) /\ r2[1] = IdOf(InoMetadata, m2)
  OBVIOUS
<1> HIDE DEF r1, r2
<1>4. i1 = i2 /\ r1 = r2
  BY <1>1, <1>2, KindKeys, NumberedInjective
<1> QED BY <1>3, <1>4, MetaIds

LEMMA BlockKey ==
    ASSUME NEW ino \in Word, NEW index \in Word
    PROVE  /\ block_hash(ino, index) = Numbered(BlockKind, ino, write_big_endian(index))
           /\ OfKind(block_hash(ino, index), "InoBlockHashMapping")
<1>1. block_hash(ino, index) = Numbered(BlockKind, ino, write_big_endian(index))
  BY DEF block_hash, Numbered, BlockKind
<1>2. "InoBlockHashMapping" \in KindsUsed /\ write_big_endian(index) \in Keys
  BY WordBytes DEF KindsUsed
<1>3. OfKind(Numbered(BlockKind, ino, write_big_endian(index)), "InoBlockHashMapping")
  BY <1>2, NumberedKind DEF BlockKind
<1> QED BY <1>1, <1>3

LEMMA MetaKey ==
    /\ OfKind(meta, "FsMetadata")
    /\ OfKind(meta_static, "FsMetadataStatic")
<1>1. "FsMetadata" \in KindsUsed /\ "FsMetadataStatic" \in KindsUsed
  BY DEF KindsUsed
<1> QED BY <1>1, KindPrefix DEF meta, meta_static

-----------------------------------------------------------------------------
(***************************************************************************)
(* KeyParser inverts ScopedKeyBuilder                                      *)
(***************************************************************************)
LEMMA SubSeqMiddle ==
    ASSUME NEW p \in Keys, NEW k \in Keys, NEW r \in Keys
    PROVE  SubSeq(p \o k \o r, Len(p) + 1, Len(p) + Len(k)) = k
<1>1. Len(p) \in Nat /\ Len(k) \in Nat /\ Len(r) \in Nat
  BY KeyBytes
<1> DEFINE q == p \o k
<1>2. /\ q \in Keys /\ Len(q) = Len(p) + Len(k)
      /\ \A i \in 1..Len(k) : q[Len(p) + i] = k[i]
  BY ConcatKeys
<1> HIDE DEF q
<1> DEFINE s == q \o r
<1>3. s \in Keys /\ Len(s) = Len(q) + Len(r) /\ \A i \in 1..Len(q) : s[i] = q[i]
  BY <1>2, ConcatKeys
<1> HIDE DEF s
<1>4. \A i \in (Len(p) + 1)..(Len(p) + Len(k)) : i \in 1..Len(s) /\ s[i] \in Bytes
  BY <1>1, <1>2, <1>3, KeyBytes
<1> DEFINE t == SubSeq(s, Len(p) + 1, Len(p) + Len(k))
<1>5. /\ t \in Keys
      /\ Len(t) = IF Len(p) + 1 <= Len(p) + Len(k) THEN Len(p) + Len(k) - (Len(p) + 1) + 1 ELSE 0
      /\ \A i \in 1..(Len(p) + Len(k) - (Len(p) + 1) + 1) : t[i] = s[Len(p) + 1 + i - 1]
  <2>1. Len(p) + 1 \in Int /\ Len(p) + Len(k) \in Int
    BY <1>1
  <2> QED BY <1>4, <2>1, SubSeqProperties DEF Keys
<1> HIDE DEF t
<1>6. Len(t) = Len(k)
  BY <1>1, <1>5
<1>7. ASSUME NEW i \in 1..Len(k) PROVE t[i] = k[i]
  <2>1. i \in 1..(Len(p) + Len(k) - (Len(p) + 1) + 1) /\ Len(p) + 1 + i - 1 = Len(p) + i
    BY <1>1
  <2>2. t[i] = s[Len(p) + i]
    BY <1>5, <2>1
  <2>3. Len(p) + i \in 1..Len(q)
    BY <1>1, <1>2
  <2> QED BY <1>2, <1>3, <2>2, <2>3
<1>8. t = k
  BY <1>5, <1>6, <1>7, SeqEqual DEF Keys
<1> QED BY <1>8 DEF t, s, q

LEMMA SubSeqStart ==
    ASSUME NEW k \in Keys, NEW r \in Keys
    PROVE  SubSeq(k \o r, 1, Len(k)) = k
<1>1. SubSeq(<<>> \o k \o r, Len(<<>>) + 1, Len(<<>>) + Len(k)) = k
  BY EmptyKey, SubSeqMiddle
<1>2. <<>> \o k = k
  BY ConcatEmptySeq DEF Keys
<1>3. Len(<<>>) + 1 = 1 /\ Len(<<>>) + Len(k) = Len(k)
  BY EmptyKey, KeyBytes
<1> QED BY <1>1, <1>2, <1>3

LEMMA SubSeqEnd ==
    ASSUME NEW p \in Keys, NEW k \in Keys
    PROVE  SubSeq(p \o k, Len(p) + 1, Len(p \o k)) = k
<1>1. SubSeq(p \o k \o <<>>, Len(p) + 1, Len(p) + Len(k)) = k
  BY EmptyKey, SubSeqMiddle
<1>2. p \o k \in Keys /\ Len(p \o k) = Len(p) + Len(k)
  BY ConcatKeys
<1>3. p \o k \o <<>> = p \o k
  BY <1>2, ConcatEmptySeq DEF Keys
<1> QED BY <1>1, <1>2, <1>3

LEMMA KindParsed ==
    ASSUME NEW kind \in KindsUsed, NEW rest \in Keys
    PROVE  /\ Starts(write_key_kind(kind) \o rest)
           /\ KindOf(write_key_kind(kind) \o rest) = kind
           /\ Behind(write_key_kind(kind) \o rest) = rest
<1> DEFINE w == write_key_kind(kind)
           k == w \o rest
           id == <<IdOf(KeyKinds, kind)>>
<1>1. w \in Keys /\ Len(w) = Len(Prefix) + 1 /\ OfKind(w, kind) /\ Len(Prefix) \in Nat
  BY KindPrefix, PrefixKey
<1>2. id \in Keys
  BY KindBytes DEF Keys
<1>3. w = Prefix \o id
  BY DEF write_key_kind
<1>4. OfKind(k, kind)
  BY <1>1, KindConcat
<1>5. SubSeq(k, 1, Len(Prefix)) = Prefix
  <2> HIDE DEF id
  <2>1. k = Prefix \o (id \o rest) /\ id \o rest \in Keys
    BY <1>2, <1>3, PrefixKey, ConcatAssociative, ConcatKeys DEF Keys
  <2> QED BY <2>1, PrefixKey, SubSeqStart
<1>6. Behind(k) = rest
  <2>1. Len(Prefix) + 2 = Len(w) + 1
    BY <1>1
  <2>2. SubSeq(k, Len(w) + 1, Len(k)) = rest
    <3> HIDE DEF w
    <3> QED BY <1>1, SubSeqEnd
  <2> HIDE DEF w, k
  <2> QED BY <2>1, <2>2 DEF Behind
<1> HIDE DEF k, w, id
<1>7. /\ IdOf(KeyKinds, kind) \in 0..11 /\ KeyKinds[IdOf(KeyKinds, kind) + 1] = kind
      /\ Len(KeyKinds) = 12
  BY KindIds DEF KindsUsed, KeyKinds
<1>8. k[Len(Prefix) + 1] = IdOf(KeyKinds, kind) /\ Len(k) > Len(Prefix)
  BY <1>1, <1>4, KeyBytes DEF OfKind
<1>9. Starts(k)
  BY <1>5, <1>7, <1>8 DEF Starts, HasId
<1>10. KindOf(k) = kind
  BY <1>7, <1>8 DEF KindOf
<1> QED BY <1>6, <1>9, <1>10 DEF k, w

LEMMA NumberParsed ==
    ASSUME NEW n \in Word, NEW rest \in Keys
    PROVE  /\ Number(write_big_endian(n) \o rest, 1) = n
           /\ Len(write_big_endian(n) \o rest) = Width + Len(rest)
           /\ \A i \in 1..Len(rest) : (write_big_endian(n) \o rest)[Width + i] = rest[i]
           /\ SubSeq(write_big_endian(n) \o rest, Width + 1, Width + Len(rest)) = rest
<1> DEFINE w == write_big_endian(n)
<1>1. w \in Keys /\ Len(w) = Width /\ Width \in Nat
  BY WordBytes, BaseNat
<1>2. read_big_endian(w) = n
  BY ReadWritten
<1> HIDE DEF w
<1>3. SubSeq(w \o rest, 1, Width) = w
  BY <1>1, SubSeqStart
<1>4. 1 + (1 - 1) * Width = 1 /\ 1 * Width = Width
  BY <1>1
<1>5. Number(w \o rest, 1) = n
  BY <1>2, <1>3, <1>4 DEF Number
<1>6. Len(w \o rest) = Width + Len(rest) /\ \A i \in 1..Len(rest) : (w \o rest)[Width + i] = rest[i]
  BY <1>1, ConcatKeys
<1>7. SubSeq(w \o rest, Width + 1, Width + Len(rest)) = rest
  BY <1>1, <1>6, SubSeqEnd
<1> QED BY <1>5, <1>6, <1>7 DEF w

LEMMA NumberedParsed ==
    ASSUME NEW kind \in KindsUsed, NEW n \in Word, NEW rest \in Keys
    PROVE  /\ Starts(Numbered(write_key_kind(kind), n, rest))
           /\ KindOf(Numbered(write_key_kind(kind), n, rest)) = kind
           /\ Behind(Numbered(write_key_kind(kind), n, rest)) = write_big_endian(n) \o rest
<1> DEFINE w == write_big_endian(n)
           p == write_key_kind(kind)
<1>1. w \in Keys /\ p \in Keys
  BY WordBytes, KindPrefix
<1>2. w \o rest \in Keys
  BY <1>1, ConcatKeys
<1>3. Numbered(p, n, rest) = p \o (w \o rest)
  <2>1. Numbered(p, n, rest) = p \o w \o rest
    BY DEF Numbered
  <2> HIDE DEF p, w
  <2> QED BY <1>1, <2>1, ConcatAssociative DEF Keys
<1> HIDE DEF w
<1> QED BY <1>2, <1>3, KindParsed DEF w

\* The key of an entry parses to the directory and the name it is built from.
LEMMA ChildParsed ==
    ASSUME NEW dir \in Word, NEW name \in Keys
    PROVE  parse_directory_child(directory_child(dir, name)) =
             [kind |-> "DirectoryChild", dir |-> dir, name |-> name]
<1> DEFINE k == directory_child(dir, name)
           rest == write_big_endian(dir) \o name
<1>1. Starts(k) /\ KindOf(k) = "DirectoryChild" /\ Behind(k) = rest
  <2>1. "DirectoryChild" \in KindsUsed
    BY DEF KindsUsed
  <2> QED BY <2>1, ChildKey, NumberedParsed DEF ChildKind
<1>2. Number(rest, 1) = dir /\ Len(rest) = Width + Len(name)
      /\ SubSeq(rest, Width + 1, Width + Len(name)) = name
  BY NumberParsed
<1>3. Len(rest) >= Width
  BY <1>2, KeyBytes, BaseNat
<1> HIDE DEF k, rest
<1>4. parse_directory_child(k) = [kind |-> "DirectoryChild", dir |-> dir, name |-> name]
  BY <1>1, <1>2, <1>3, Zenon DEF parse_directory_child
<1> QED BY <1>4 DEF k

LEMMA InodeParsed ==
    ASSUME NEW ino \in Word, NEW m \in InoMetas
    PROVE  parse_ino(inode_x(ino, m)).meta = m
<1> DEFINE k == inode_x(ino, m)
           id == <<IdOf(InoMetadata, m)>>
           rest == write_big_endian(ino) \o id
<1>1. id \in Keys /\ Len(id) = 1 /\ id[1] = IdOf(InoMetadata, m)
  BY MetaIds
<1>2. Starts(k) /\ KindOf(k) = "InoMetadata" /\ Behind(k) = rest
  <2>1. "InoMetadata" \in KindsUsed
    BY DEF KindsUsed
  <2> QED BY <1>1, <2>1, InodeKey, NumberedParsed DEF InodeKind
<1> HIDE DEF id
<1>3. Len(rest) = Width + 1 /\ rest[Width + 1] = IdOf(InoMetadata, m)
  <2>1. Len(rest) = Width + Len(id) /\ \A i \in 1..Len(id) : rest[Width + i] = id[i]
    BY <1>1, NumberParsed
  <2>2. 1 \in 1..Len(id)
    BY <1>1
  <2> HIDE DEF rest
  <2> QED BY <1>1, <2>1, <2>2
<1> HIDE DEF k, rest
<1>4. Len(rest) > Width
  BY <1>3, BaseNat
<1>5. HasId(InoMetadata, rest[Width + 1]) /\ ById(InoMetadata, rest[Width + 1]) = m
  <2>1. IdOf(InoMetadata, m) \in 0..10 /\ ById(InoMetadata, IdOf(InoMetadata, m)) = m
        /\ Len(InoMetadata) = 11
    BY MetaIds
  <2>2. IdOf(InoMetadata, m) < Len(InoMetadata)
    BY <2>1
  <2> QED BY <1>3, <2>1, <2>2, Zenon DEF HasId
<1>6. parse_ino(k) = [kind |-> "InoMetadata", ino |-> Number(rest, 1), meta |-> m,
                      rest |-> SubSeq(rest, Width + 2, Len(rest))]
  BY <1>2, <1>4, <1>5, Zenon DEF parse_ino
<1> QED BY <1>6 DEF k

LEMMA BlockParsed ==
    ASSUME NEW ino \in Word, NEW index \in Word
    PROVE  parse_key_block_address(block_hash(ino, index)) =
             [kind |-> "InoBlockHashMapping", ino |-> ino, index |-> index]
<1> DEFINE k == block_hash(ino, index)
           v == write_big_endian(ino)
           w == write_big_endian(index)
           rest == v \o w
<1>1. v \in Keys /\ w \in Keys /\ Len(v) = Width /\ Len(w) = Width /\ Width \in Nat
  BY WordBytes, BaseNat
<1>2. Starts(k) /\ KindOf(k) = "InoBlockHashMapping" /\ Behind(k) = rest
  <2>1. "InoBlockHashMapping" \in KindsUsed
    BY DEF KindsUsed
  <2> QED BY <1>1, <2>1, BlockKey, NumberedParsed DEF BlockKind
<1>3. Number(rest, 1) = ino /\ Len(rest) = Width + Width
      /\ SubSeq(rest, Width + 1, Width + Width) = w
  BY <1>1, NumberParsed
<1>4. read_big_endian(w) = index
  BY ReadWritten
<1>5. Number(rest, 2) = index
  <2>1. 1 + (2 - 1) * Width = Width + 1 /\ 2 * Width = Width + Width
    BY <1>1
  <2> HIDE DEF rest, w
  <2> QED BY <1>3, <1>4, <2>1 DEF Number
<1>6. Len(rest) >= 2 * Width
  BY <1>1, <1>3
<1> HIDE DEF k, rest
<1>7. parse_key_block_address(k) = [kind |-> "InoBlockHashMapping", ino |-> ino, index |-> index]
  BY <1>2, <1>3, <1>5, <1>6, Zenon DEF parse_key_block_address
<1> QED BY <1>7 DEF k

-----------------------------------------------------------------------------
(***************************************************************************)
(* The keys of the locks' states                                           *)
(***************************************************************************)
LockKind == write_key_kind("KeyLockStates")
DataKind == write_key_kind("HashedBlock")
LockStates == {key_lock_state(l, u) : l \in LockKeys, u \in Uuids}
ZeroUuid == [i \in 1..UuidLen |-> 0]
LastUuid == [i \in 1..UuidLen |-> Base - 1]

LEMMA LockParts ==
    /\ LockKind \in Keys /\ DataKind \in Keys
    /\ Len(LockKind) = Len(Prefix) + 1 /\ Len(DataKind) = Len(Prefix) + 1
    /\ Hash1 \in Keys /\ Hash2 \in Keys /\ Len(Hash1) = HashLen /\ Len(Hash2) = HashLen
    /\ HashLen \in Nat \ {0} /\ Hash1[1] = Base - 1 /\ Hash2[1] = 0
    /\ UuidLen \in Nat \ {0} /\ ZeroUuid \in Keys /\ LastUuid \in Keys
    /\ Len(ZeroUuid) = UuidLen /\ Len(LastUuid) = UuidLen
    /\ Uuids = {ZeroUuid, LastUuid} /\ <<0>> \in Keys
<1>1. HashLen \in Nat \ {0} /\ UuidLen \in Nat \ {0}
  BY StoreKeysAssumption
<1>2. 0 \in Bytes /\ Base - 1 \in Bytes
  BY BaseNat DEF Bytes
<1>3. "KeyLockStates" \in KindsUsed /\ "HashedBlock" \in KindsUsed
  BY DEF KindsUsed
<1>4. /\ LockKind \in Keys /\ DataKind \in Keys
      /\ Len(LockKind) = Len(Prefix) + 1 /\ Len(DataKind) = Len(Prefix) + 1
  BY <1>3, KindPrefix DEF LockKind, DataKind
<1>5. Hash1 \in Keys /\ Len(Hash1) = HashLen /\ Hash1[1] = Base - 1
  BY <1>1, <1>2 DEF Keys, Hash1
<1>6. Hash2 \in Keys /\ Len(Hash2) = HashLen /\ Hash2[1] = 0
  BY <1>1, <1>2 DEF Keys, Hash2
<1>7. ZeroUuid \in Keys /\ Len(ZeroUuid) = UuidLen
  BY <1>1, <1>2 DEF Keys, ZeroUuid
<1>8. LastUuid \in Keys /\ Len(LastUuid) = UuidLen
  BY <1>1, <1>2 DEF Keys, LastUuid
<1>9. <<0>> \in Keys
  BY <1>2 DEF Keys
<1> QED BY <1>1, <1>4, <1>5, <1>6, <1>7, <1>8, <1>9 DEF Uuids, ZeroUuid, LastUuid

LEMMA HashedKey ==
    ASSUME NEW h \in {Hash1, Hash2}
    PROVE  /\ hashed_block(h) \in Keys
           /\ OfKind(hashed_block(h), "HashedBlock")
           /\ Len(hashed_block(h)) = Len(Prefix) + 1 + HashLen
           /\ \A i \in 1..(Len(Prefix) + 1) : hashed_block(h)[i] = DataKind[i]
           /\ hashed_block(h)[Len(Prefix) + 1 + 1] = h[1]
<1>1. hashed_block(h) = DataKind \o h
  BY DEF hashed_block, DataKind
<1>2. h \in Keys /\ Len(h) = HashLen /\ 1 \in 1..Len(h)
  BY LockParts
<1>3. Joins(DataKind, h, DataKind \o h) /\ Len(DataKind) = Len(Prefix) + 1
  BY <1>2, LockParts, JoinsConcat
<1>4. OfKind(DataKind \o h, "HashedBlock")
  <2>1. "HashedBlock" \in KindsUsed
    BY DEF KindsUsed
  <2> QED BY <1>2, <2>1, KindPrefix, KindConcat DEF DataKind
<1> QED BY <1>1, <1>2, <1>3, <1>4 DEF Joins

LEMMA LockKeyIs ==
    ASSUME NEW l \in LockKeys
    PROVE  l \in Keys /\ Len(l) = Len(Prefix) + 1 + HashLen
BY HashedKey DEF LockKeys

LEMMA StateKey ==
    ASSUME NEW l \in LockKeys, NEW u \in Uuids
    PROVE  /\ LockKind \o l \in Keys
           /\ key_lock_state(l, u) = LockKind \o l \o u
           /\ key_lock_state(l, u) \in Keys
           /\ OfKind(key_lock_state(l, u), "KeyLockStates")
<1>1. l \in Keys /\ u \in Keys /\ LockKind \in Keys
  BY LockKeyIs, LockParts
<1>2. key_lock_state(l, u) = LockKind \o l \o u
  BY DEF key_lock_state, LockKind
<1>3. "KeyLockStates" \in KindsUsed
  BY DEF KindsUsed
<1>4. OfKind(LockKind, "KeyLockStates")
  BY <1>3, KindPrefix DEF LockKind
<1>5. OfKind(LockKind \o l, "KeyLockStates")
  BY <1>1, <1>4, KindConcat
<1>6. OfKind(LockKind \o l \o u, "KeyLockStates")
  BY <1>1, <1>5, KindConcat
<1> QED BY <1>2, <1>5, <1>6 DEF OfKind

\* The range of a lock's states: with ends that are keys.
LEMMA LockRangeIs ==
    ASSUME NEW key \in LockKeys
    PROVE  lock_range(key) = KeyRange(LockKind \o key \o ZeroUuid, LockKind \o key \o LastUuid \o <<0>>)
BY DEF lock_range, key_lock_state, LockKind, ZeroUuid, LastUuid

LEMMA OwnStateInRange ==
    ASSUME NEW key \in LockKeys, NEW u \in Uuids
    PROVE  InRange(key_lock_state(key, u), lock_range(key))
<1> DEFINE q == LockKind \o key
           k == q \o u
           from == q \o ZeroUuid
           last == q \o LastUuid
           to == last \o <<0>>
<1>1. q \in Keys /\ key_lock_state(key, u) = k
  BY StateKey
<1>2. u \in Keys /\ Len(u) = UuidLen /\ UuidLen \in Nat \ {0} /\ Len(q) \in Nat
  BY <1>1, LockParts, KeyBytes
<1> HIDE DEF q
<1>3. /\ k \in Keys /\ Len(k) = Len(q) + UuidLen
      /\ \A i \in 1..Len(q) : k[i] = q[i]
      /\ \A i \in (Len(q) + 1)..(Len(q) + UuidLen) : k[i] = u[i - Len(q)]
  <2>1. Joins(q, u, k)
    BY <1>1, <1>2, JoinsConcat
  <2> QED BY <1>2, <2>1 DEF Joins
<1>4. /\ from \in Keys /\ Len(from) = Len(q) + UuidLen
      /\ \A i \in 1..Len(q) : from[i] = q[i]
      /\ \A i \in (Len(q) + 1)..(Len(q) + UuidLen) : from[i] = ZeroUuid[i - Len(q)]
  <2>1. ZeroUuid \in Keys /\ Len(ZeroUuid) = UuidLen
    BY LockParts
  <2>2. Joins(q, ZeroUuid, from)
    BY <1>1, <2>1, JoinsConcat
  <2> QED BY <2>1, <2>2 DEF Joins
<1>5. /\ last \in Keys /\ Len(last) = Len(q) + UuidLen
      /\ \A i \in 1..Len(q) : last[i] = q[i]
      /\ \A i \in (Len(q) + 1)..(Len(q) + UuidLen) : last[i] = LastUuid[i - Len(q)]
  <2>1. LastUuid \in Keys /\ Len(LastUuid) = UuidLen
    BY LockParts
  <2>2. Joins(q, LastUuid, last)
    BY <1>1, <2>1, JoinsConcat
  <2> QED BY <2>1, <2>2 DEF Joins
<1>6. /\ to \in Keys /\ Len(to) = Len(q) + UuidLen + 1
      /\ \A i \in 1..(Len(q) + UuidLen) : to[i] = last[i]
  <2> HIDE DEF last
  <2>1. Len(<<0>>) = 1 /\ <<0>> \in Keys
    BY LockParts
  <2>2. Joins(last, <<0>>, to)
    BY <1>5, <2>1, JoinsConcat
  <2> QED BY <1>5, <2>1, <2>2 DEF Joins
<1> HIDE DEF k, from, last, to
<1>7. ~KeyLess(k, from)
  <2> SUFFICES ASSUME NEW i \in 1..Len(from), i <= Len(k) => k[i] < from[i] PROVE FALSE
    BY DEF KeyLess
  <2>1. i \in 1..Len(k) /\ k[i] < from[i] /\ k[i] \in Bytes /\ k[i] \in Int
    BY <1>2, <1>3, <1>4, KeyBytes
  <2>2. CASE i \in 1..Len(q)
    BY <1>3, <1>4, <2>1, <2>2
  <2>3. CASE i \notin 1..Len(q)
    <3>1. i \in (Len(q) + 1)..(Len(q) + UuidLen) /\ i - Len(q) \in 1..UuidLen
      BY <1>2, <1>4, <2>3
    <3>2. from[i] = 0
      BY <1>4, <3>1 DEF ZeroUuid
    <3>3. k[i] >= 0
      BY <2>1, BaseNat DEF Bytes
    <3> QED BY <2>1, <3>2, <3>3
  <2> QED BY <2>2, <2>3
<1>8. KeyLess(k, to)
  <2>1. CASE u = LastUuid
    <3>1. k = last
      BY <2>1 DEF k, last
    <3>2. Len(k) + 1 \in 1..Len(to) /\ ~(Len(k) + 1 <= Len(k)) /\ Len(k) + 1 <= Len(k) + 1
      BY <1>2, <1>3, <1>6
    <3>3. \A i \in 1..(Len(k) + 1 - 1) : k[i] = to[i]
      BY <1>2, <1>3, <1>6, <3>1
    <3> QED BY <3>2, <3>3 DEF KeyLess
  <2>2. CASE u = ZeroUuid
    <3> DEFINE n == Len(q) + 1
    <3>1. n \in 1..Len(to) /\ n <= Len(k) + 1 /\ n \in 1..(Len(q) + UuidLen)
          /\ n \in (Len(q) + 1)..(Len(q) + UuidLen) /\ n - Len(q) \in 1..UuidLen
      BY <1>2, <1>3, <1>6
    <3>2. k[n] = 0
      BY <1>3, <2>2, <3>1 DEF ZeroUuid
    <3>3. to[n] = Base - 1
      BY <1>5, <1>6, <3>1 DEF LastUuid
    <3>4. ASSUME NEW i \in 1..(n - 1) PROVE k[i] = to[i]
      <4>1. i \in 1..Len(q) /\ i \in 1..(Len(q) + UuidLen)
        BY <1>2
      <4> QED BY <1>3, <1>5, <1>6, <4>1
    <3>5. k[n] < to[n]
      BY <3>2, <3>3, BaseNat
    <3> HIDE DEF n
    <3> QED BY <3>1, <3>4, <3>5 DEF KeyLess
  <2> QED BY <2>1, <2>2, LockParts
<1>9. lock_range(key) = KeyRange(from, to)
  BY LockRangeIs DEF from, last, to, q
<1> QED BY <1>1, <1>7, <1>8, <1>9 DEF InRange, KeyRange

LEMMA OtherStateOutside ==
    ASSUME NEW key \in LockKeys, NEW l \in LockKeys, l # key, NEW u \in Uuids
    PROVE  ~InRange(key_lock_state(l, u), lock_range(key))
<1> DEFINE p == Len(Prefix) + 1
           n == p + p + 1
           k == LockKind \o l \o u
           from == LockKind \o key \o ZeroUuid
           to == LockKind \o key \o LastUuid \o <<0>>
<1>1. p \in Nat /\ p >= 1 /\ HashLen \in Nat /\ HashLen >= 1
  BY PrefixKey, LockParts
<1>2. /\ l \in Keys /\ Len(l) = p + HashLen /\ key \in Keys /\ Len(key) = p + HashLen
      /\ LockKind \in Keys /\ Len(LockKind) = p
  BY LockKeyIs, LockParts
<1>3. /\ \A i \in 1..p : l[i] = key[i]
      /\ l[p + 1] # key[p + 1]
  <2>1. \A i \in 1..p : l[i] = DataKind[i] /\ key[i] = DataKind[i]
    BY HashedKey DEF LockKeys
  <2>2. {l, key} = {hashed_block(Hash1), hashed_block(Hash2)}
    BY DEF LockKeys
  <2>3. hashed_block(Hash1)[p + 1] = Base - 1 /\ hashed_block(Hash2)[p + 1] = 0
    BY HashedKey, LockParts
  <2>4. Base - 1 # 0
    BY BaseNat
  <2> QED BY <2>1, <2>2, <2>3, <2>4
<1> HIDE DEF p
<1> DEFINE ql == LockKind \o l
           qk == LockKind \o key
<1>4. /\ ql \in Keys /\ Len(ql) = p + p + HashLen
      /\ \A i \in 1..p : ql[i] = LockKind[i]
      /\ \A i \in 1..(p + HashLen) : ql[p + i] = l[i]
  <2>1. Joins(LockKind, l, ql)
    BY <1>2, JoinsConcat
  <2> HIDE DEF ql
  <2> QED BY <1>1, <1>2, <2>1 DEF Joins
<1>5. /\ qk \in Keys /\ Len(qk) = p + p + HashLen
      /\ \A i \in 1..p : qk[i] = LockKind[i]
      /\ \A i \in 1..(p + HashLen) : qk[p + i] = key[i]
  <2>1. Joins(LockKind, key, qk)
    BY <1>2, JoinsConcat
  <2> HIDE DEF qk
  <2> QED BY <1>1, <1>2, <2>1 DEF Joins
<1>6. n \in Nat \ {0} /\ n <= p + p + HashLen /\ n = p + (p + 1) /\ p + 1 \in 1..(p + HashLen)
  BY <1>1
<1>7. ql[n] # qk[n]
  BY <1>3, <1>4, <1>5, <1>6
<1>8. ASSUME NEW i \in 1..(n - 1) PROVE ql[i] = qk[i]
  <2>1. CASE i <= p
    <3>1. i \in 1..p
      BY <1>1, <2>1
    <3> QED BY <1>4, <1>5, <3>1
  <2>2. CASE i > p
    <3>1. PICK j \in 1..p : i = p + j
      <4>1. i - p \in 1..p /\ i = p + (i - p)
        BY <1>1, <2>2
      <4> QED BY <4>1
    <3>2. j \in 1..(p + HashLen)
      BY <1>1
    <3> QED BY <1>3, <1>4, <1>5, <3>1, <3>2
  <2>3. i <= p \/ i > p
    BY <1>1
  <2> QED BY <2>1, <2>2, <2>3
<1> HIDE DEF ql, qk
<1>9. /\ k = ql \o u /\ from = qk \o ZeroUuid /\ to = qk \o LastUuid \o <<0>>
  BY DEF ql, qk
<1>10. /\ k \in Keys /\ Len(k) = Len(ql) + UuidLen /\ UuidLen \in Nat
       /\ \A i \in 1..Len(ql) : k[i] = ql[i]
  <2>1. u \in Keys /\ Len(u) = UuidLen /\ UuidLen \in Nat
    BY LockParts
  <2>2. Joins(ql, u, k)
    BY <1>4, <1>9, <2>1, JoinsConcat
  <2> QED BY <2>1, <2>2 DEF Joins
<1>11. /\ from \in Keys /\ Len(from) = Len(qk) + UuidLen
       /\ \A i \in 1..Len(qk) : from[i] = qk[i]
  <2>1. ZeroUuid \in Keys /\ Len(ZeroUuid) = UuidLen
    BY LockParts
  <2>2. Joins(qk, ZeroUuid, from)
    BY <1>5, <1>9, <2>1, JoinsConcat
  <2> QED BY <2>1, <2>2 DEF Joins
<1> DEFINE last == qk \o LastUuid
<1>12. /\ last \in Keys /\ Len(last) = Len(qk) + UuidLen
       /\ \A i \in 1..Len(qk) : last[i] = qk[i]
  <2>1. LastUuid \in Keys /\ Len(LastUuid) = UuidLen
    BY LockParts
  <2>2. Joins(qk, LastUuid, last)
    BY <1>5, <2>1, JoinsConcat
  <2> QED BY <2>1, <2>2 DEF Joins
<1>13. /\ to \in Keys /\ Len(to) = Len(last) + 1
       /\ \A i \in 1..Len(last) : to[i] = last[i]
  <2>1. to = last \o <<0>> /\ Len(<<0>>) = 1
    BY <1>9
  <2> HIDE DEF last, to
  <2>2. <<0>> \in Keys
    BY LockParts
  <2>3. Joins(last, <<0>>, to)
    BY <1>12, <2>1, <2>2, JoinsConcat
  <2> QED BY <2>1, <2>3 DEF Joins
<1> HIDE DEF k, from, to, last, n
<1>14. n <= Len(k) /\ n <= Len(from) /\ n <= Len(to)
  BY <1>1, <1>4, <1>5, <1>6, <1>10, <1>11, <1>12, <1>13
<1>15. \A i \in 1..n : i \in 1..Len(ql) /\ i \in 1..Len(qk) /\ i \in 1..Len(last)
  BY <1>1, <1>4, <1>5, <1>6, <1>10, <1>12
<1>16. \A i \in 1..n : k[i] = ql[i] /\ from[i] = qk[i] /\ to[i] = qk[i]
  BY <1>10, <1>11, <1>12, <1>13, <1>15
<1>17. n \in 1..n /\ \A i \in 1..(n - 1) : i \in 1..n
  BY <1>6
<1>18. k[n] # from[n] /\ from[n] = to[n] /\ \A i \in 1..(n - 1) : k[i] = from[i] /\ k[i] = to[i]
  BY <1>7, <1>8, <1>16, <1>17
<1>19. ~InRange(k, KeyRange(from, to))
  BY <1>6, <1>10, <1>11, <1>13, <1>14, <1>18, Outside
<1> QED BY <1>19, StateKey, LockRangeIs DEF k, from, to

LEMMA LockParsed ==
    ASSUME NEW key \in LockKeys, NEW u \in Uuids
    PROVE  parse_lock_key(key_lock_state(key, u), key).uuid = u
<1> DEFINE k == key_lock_state(key, u)
           rest == key \o u
<1>1. key \in Keys /\ u \in Keys /\ Len(u) = UuidLen /\ UuidLen \in Nat /\ Len(key) \in Nat
  BY LockKeyIs, LockParts, KeyBytes
<1>2. rest \in Keys /\ Len(rest) = Len(key) + UuidLen
  BY <1>1, ConcatKeys
<1>3. k = LockKind \o rest
  <2>1. k = LockKind \o key \o u /\ LockKind \in Keys
    BY StateKey, LockParts
  <2> HIDE DEF k
  <2> QED BY <1>1, <2>1, ConcatAssociative DEF Keys
<1>4. Starts(k) /\ KindOf(k) = "KeyLockStates" /\ Behind(k) = rest
  <2>1. "KeyLockStates" \in KindsUsed
    BY DEF KindsUsed
  <2> HIDE DEF k, rest
  <2> QED BY <1>2, <1>3, <2>1, KindParsed DEF LockKind
<1>5. SubSeq(rest, 1, Len(key)) = key /\ SubSeq(rest, Len(key) + 1, Len(key) + UuidLen) = u
  <2>1. SubSeq(rest, 1, Len(key)) = key
    BY <1>1, SubSeqStart
  <2>2. SubSeq(rest, Len(key) + 1, Len(rest)) = u
    BY <1>1, SubSeqEnd
  <2> HIDE DEF rest
  <2> QED BY <1>2, <2>1, <2>2
<1>6. Len(rest) >= Len(key) + UuidLen
  BY <1>1, <1>2
<1> HIDE DEF k, rest
<1>7. parse_lock_key(k, key) = [kind |-> "KeyLockStates", uuid |-> u]
  BY <1>4, <1>5, <1>6, Zenon DEF parse_lock_key
<1> QED BY <1>7 DEF k

-----------------------------------------------------------------------------
(***************************************************************************)
(* What lies in a store                                                    *)
(***************************************************************************)
Types == {"File", "Directory", "Symlink"}

\* The inode numbers that were handed out.
Numbers(s) == {i \in Nat : i < s[meta]}

Describes(ino, item) == item \in [ino : {ino}, typ : Types]

\* Every key begins with the prefix and a kind, the counter of the inode
\* numbers is there, entries and blocks have keys that parse, who is
\* described is described by its own number, and sizes are numbers.
KeysKnown(s) == \A k \in DOMAIN s : \E kind \in KindsUsed : OfKind(k, kind)
CounterOK(s) == meta \in DOMAIN s /\ s[meta] \in Nat /\ Base <= s[meta] /\ s[meta] <= MaxIno
EntriesTyped(s) ==
    \A k \in DOMAIN s : OfKind(k, "DirectoryChild") =>
        /\ \E dir \in Numbers(s), name \in Keys : k = directory_child(dir, name)
        /\ \E ino \in Numbers(s) : Describes(ino, s[k])
BlocksTyped(s) ==
    \A k \in DOMAIN s : OfKind(k, "InoBlockHashMapping") =>
        \E ino \in Word, index \in Word : k = block_hash(ino, index)
DescribedSelf(s) ==
    \A ino \in Word :
        /\ inode_x(ino, "Description") \in DOMAIN s => Describes(ino, s[inode_x(ino, "Description")])
        /\ inode_x(ino, "Size") \in DOMAIN s => s[inode_x(ino, "Size")] \in Nat

StoreOK(s) ==
    /\ IsFiniteSet(DOMAIN s) /\ KeysKnown(s) /\ CounterOK(s)
    /\ EntriesTyped(s) /\ BlocksTyped(s) /\ DescribedSelf(s)

\* The entries, the parent links and the states of locks in the store are
\* those of the links and of the locks.
Entry(l) == directory_child(l.dir, l.name)
Parent(l) == parent_link(l.ino, l.dir, l.name)
IsLink(s, l) == l \in [dir : Numbers(s), name : Keys, ino : Numbers(s)]
LinkStored(s, l) == Entry(l) \in DOMAIN s /\ Describes(l.ino, s[Entry(l)]) /\ Parent(l) \in DOMAIN s

LinksOK(s, L) ==
    /\ \A l \in L : IsLink(s, l) /\ LinkStored(s, l)
    /\ \A k \in DOMAIN s : OfKind(k, "DirectoryChild") => \E l \in L : k = Entry(l)
    /\ \A k \in DOMAIN s : OfKind(k, "ParentLink") => \E l \in L : k = Parent(l)
    /\ \A k \in DOMAIN s : OfKind(k, "KeyLockStates") => k \in LockStates
    /\ LockStates \subseteq DOMAIN s

LEMMA NumbersAreWords ==
    ASSUME NEW s, CounterOK(s), NEW n \in Numbers(s)
    PROVE  n \in Word /\ n + 1 \in Word /\ n \in Nat /\ n < s[meta]
<1>1. n \in Nat /\ s[meta] \in Nat /\ n < s[meta] /\ s[meta] <= MaxIno
      /\ MaxIno \in Nat /\ MaxIno + 1 < WordValues
  BY DirectoryStoreAssumption DEF CounterOK, Numbers
<1>2. WordValues \in Nat
  BY ValuesAre, BaseNat
<1> QED BY <1>1, <1>2 DEF Word

LEMMA DifferentKinds ==
    /\ {"KeyLockStates", "FsMetadataStatic", "FsMetadata", "InoMetadata", "DirectoryChild",
        "ParentLink", "HashedBlock", "InoBlockHashMapping", "HashedBlockExists"} \subseteq KindsUsed
    /\ \A k : \A kind, other \in KindsUsed : OfKind(k, kind) /\ OfKind(k, other) => kind = other
BY KindUnique DEF KindsUsed

LEMMA LinkKeys ==
    ASSUME NEW s, CounterOK(s), NEW l, IsLink(s, l)
    PROVE  /\ l.dir \in Word /\ l.ino \in Word /\ l.name \in Keys
           /\ l = Link(l.dir, l.name, l.ino)
           /\ OfKind(Entry(l), "DirectoryChild") /\ OfKind(Parent(l), "ParentLink")
<1>1. l.dir \in Numbers(s) /\ l.ino \in Numbers(s) /\ l.name \in Keys
      /\ l = Link(l.dir, l.name, l.ino)
  BY DEF IsLink, Link
<1>2. l.dir \in Word /\ l.ino \in Word
  BY <1>1, NumbersAreWords
<1> QED BY <1>1, <1>2, ChildKey, ParentKey DEF Entry, Parent

\* A directory has one entry with a name.
LEMMA EntryOfOne ==
    ASSUME NEW s, CounterOK(s), NEW k, NEW l, IsLink(s, k), IsLink(s, l)
    PROVE  /\ Entry(k) = Entry(l) => k.dir = l.dir /\ k.name = l.name
           /\ Entry(k) = Entry(l) /\ k.ino = l.ino => k = l
           /\ Parent(k) = Parent(l) => k = l
<1>1. /\ l.dir \in Word /\ l.ino \in Word /\ l.name \in Keys /\ l = Link(l.dir, l.name, l.ino)
      /\ k.dir \in Word /\ k.ino \in Word /\ k.name \in Keys /\ k = Link(k.dir, k.name, k.ino)
  BY LinkKeys
<1>2. Entry(k) = Entry(l) => k.dir = l.dir /\ k.name = l.name
  BY <1>1, ChildKeyInjective DEF Entry
<1>3. Parent(k) = Parent(l) => k.dir = l.dir /\ k.name = l.name /\ k.ino = l.ino
  BY <1>1, ParentKeyInjective DEF Parent
<1> QED BY <1>1, <1>2, <1>3

LEMMA DescribesOne ==
    ASSUME NEW i, NEW j, NEW item, Describes(i, item)
    PROVE  /\ item.ino = i /\ item.typ \in Types
           /\ Describes(j, item) => i = j
BY DEF Describes

-----------------------------------------------------------------------------
(***************************************************************************)
(* Finite unions and images, and puts                                      *)
(***************************************************************************)
LEMMA FiniteUnion ==
    ASSUME NEW n \in Nat, NEW D, \A i \in 1..n : IsFiniteSet(D[i])
    PROVE  IsFiniteSet(UNION {D[i] : i \in 1..n})
<1> DEFINE bad == {m \in 0..n : ~IsFiniteSet(UNION {D[i] : i \in 1..m})}
<1>1. SUFFICES ASSUME bad # {} PROVE FALSE
  <2>1. n \in 0..n
    OBVIOUS
  <2> QED BY <2>1
<1>2. PICK m \in bad : \A y \in bad : m <= y
  <2>1. bad \in SUBSET Nat
    OBVIOUS
  <2> HIDE DEF bad
  <2> QED BY <1>1, <2>1, LeastNumber
<1>3. m \in 0..n /\ ~IsFiniteSet(UNION {D[i] : i \in 1..m})
  BY <1>2
<1>4. m # 0
  <2>1. (UNION {D[i] : i \in 1..0}) = {}
    OBVIOUS
  <2> QED BY <1>3, <2>1, FS_EmptySet
<1>5. m - 1 \in 0..n /\ m - 1 \notin bad
  BY <1>2, <1>3, <1>4
<1>6. IsFiniteSet(UNION {D[i] : i \in 1..(m - 1)})
  BY <1>5
<1>7. m \in 1..n /\ IsFiniteSet(D[m])
  BY <1>3, <1>4
<1>8. (UNION {D[i] : i \in 1..m}) = (UNION {D[i] : i \in 1..(m - 1)}) \cup D[m]
  <2>1. \A i \in 1..m : i = m \/ i \in 1..(m - 1)
    BY <1>3
  <2>2. \A i \in 1..(m - 1) : i \in 1..m
    BY <1>3
  <2>3. m \in 1..m
    BY <1>3, <1>4
  <2> QED BY <2>1, <2>2, <2>3
<1> QED BY <1>3, <1>6, <1>7, <1>8, FS_Union

LEMMA FiniteImage ==
    ASSUME NEW S, IsFiniteSet(S), NEW f
    PROVE  IsFiniteSet({f[x] : x \in S})
<1> DEFINE g == [x \in S |-> f[x]]
           T == {f[x] : x \in S}
<1>1. g \in Surjection(S, T)
  BY DEF Surjection
<1> HIDE DEF g, T
<1>2. IsFiniteSet(T)
  BY <1>1, FS_Surjection
<1> QED BY <1>2 DEF T

LEMMA PutIs ==
    ASSUME NEW s, NEW q
    PROVE  /\ DOMAIN Put(s, q) = DOMAIN s \cup DOMAIN q
           /\ \A k \in DOMAIN q : Put(s, q)[k] = q[k]
           /\ \A k \in DOMAIN s \ DOMAIN q : Put(s, q)[k] = s[k]
BY DEF Put

LEMMA DropIs ==
    ASSUME NEW s, NEW K
    PROVE  DOMAIN Drop(s, K) = DOMAIN s \ K /\ \A k \in DOMAIN Drop(s, K) : Drop(s, K)[k] = s[k]
BY DEF Drop, Restrict

LEMMA PairIs ==
    ASSUME NEW k, NEW v
    PROVE  DOMAIN Pair(k, v) = {k} /\ Pair(k, v)[k] = v
BY DEF Pair

\* Several puts: every value is that of the last one for its key.
LEMMA MergeIs ==
    ASSUME NEW n \in Nat, NEW S, DOMAIN S = 1..n
    PROVE  /\ DOMAIN Merge(S) = UNION {DOMAIN S[i] : i \in 1..n}
           /\ \A k \in DOMAIN Merge(S) : \E i \in 1..n :
                /\ k \in DOMAIN S[i] /\ Merge(S)[k] = S[i][k]
                /\ \A j \in 1..n : k \in DOMAIN S[j] => j <= i
<1>1. DOMAIN Merge(S) = UNION {DOMAIN S[i] : i \in 1..n}
  BY DEF Merge
<1>2. ASSUME NEW k \in DOMAIN Merge(S)
      PROVE  \E i \in 1..n : /\ k \in DOMAIN S[i] /\ Merge(S)[k] = S[i][k]
                             /\ \A j \in 1..n : k \in DOMAIN S[j] => j <= i
  <2> DEFINE T == {n - i : i \in {j \in 1..n : k \in DOMAIN S[j]}}
  <2>1. T \in SUBSET Nat /\ T # {}
    BY <1>1, <1>2
  <2>2. PICK t \in T : \A y \in T : t <= y
    <3> HIDE DEF T
    <3> QED BY <2>1, LeastNumber
  <2>3. PICK i \in 1..n : k \in DOMAIN S[i] /\ t = n - i
    BY <2>2
  <2>4. \A j \in 1..n : k \in DOMAIN S[j] => j <= i
    <3> SUFFICES ASSUME NEW j \in 1..n, k \in DOMAIN S[j] PROVE j <= i
      OBVIOUS
    <3>1. t <= n - j
      BY <2>2
    <3> QED BY <2>3, <3>1
  <2> DEFINE last == LastPut(S, k)
  <2>5. /\ last \in 1..n /\ k \in DOMAIN S[last]
        /\ \A j \in 1..n : k \in DOMAIN S[j] => j <= last
    BY <2>3, <2>4 DEF LastPut
  <2>6. Merge(S)[k] = S[last][k]
    BY <1>1, <1>2 DEF Merge
  <2> HIDE DEF last
  <2> QED BY <2>5, <2>6
<1> QED BY <1>1, <1>2

\* Data of inodes: attributes and blocks.
DataPairs(q) ==
    /\ IsFiniteSet(DOMAIN q)
    /\ \A k \in DOMAIN q :
        \/ OfKind(k, "InoMetadata")
        \/ \E ino \in Word, index \in Word : k = block_hash(ino, index)
    /\ DescribedSelf(q)

LEMMA DataPut ==
    ASSUME NEW s, NEW L, StoreOK(s), LinksOK(s, L), NEW q, DataPairs(q)
    PROVE  StoreOK(Put(s, q)) /\ LinksOK(Put(s, q), L) /\ Put(s, q)[meta] = s[meta]
<1> DEFINE t == Put(s, q)
<1>1. /\ DOMAIN t = DOMAIN s \cup DOMAIN q
      /\ \A k \in DOMAIN q : t[k] = q[k]
      /\ \A k \in DOMAIN s \ DOMAIN q : t[k] = s[k]
  BY PutIs
<1> HIDE DEF t
<1>2. \A k \in DOMAIN q : OfKind(k, "InoMetadata") \/ OfKind(k, "InoBlockHashMapping")
  BY BlockKey DEF DataPairs
<1>3. \A k \in DOMAIN q : \A kind \in KindsUsed : OfKind(k, kind) =>
        kind \in {"InoMetadata", "InoBlockHashMapping"}
  BY <1>2, DifferentKinds
<1>4. meta \notin DOMAIN q
  BY <1>3, MetaKey, DifferentKinds
<1>5. CounterOK(t) /\ t[meta] = s[meta] /\ Numbers(t) = Numbers(s)
  BY <1>1, <1>4 DEF StoreOK, CounterOK, Numbers
<1>6. IsFiniteSet(DOMAIN t)
  <2>1. IsFiniteSet(DOMAIN s) /\ IsFiniteSet(DOMAIN q)
    BY DEF StoreOK, DataPairs
  <2>2. IsFiniteSet(DOMAIN s \cup DOMAIN q)
    BY <2>1, FS_Union
  <2> QED BY <1>1, <2>2
<1>7. KeysKnown(t)
  BY <1>1, <1>2, DifferentKinds DEF StoreOK, KeysKnown
<1>8. \A k \in DOMAIN t : \A kind \in {"DirectoryChild", "ParentLink", "KeyLockStates"} :
        OfKind(k, kind) => k \in DOMAIN s /\ t[k] = s[k]
  BY <1>1, <1>3, DifferentKinds
<1>9. EntriesTyped(t)
  BY <1>5, <1>8, Zenon DEF StoreOK, EntriesTyped
<1>10. BlocksTyped(t)
  <2> SUFFICES ASSUME NEW k \in DOMAIN t, OfKind(k, "InoBlockHashMapping")
               PROVE  \E ino \in Word, index \in Word : k = block_hash(ino, index)
    BY DEF BlocksTyped
  <2>1. CASE k \in DOMAIN q
    <3>1. ~OfKind(k, "InoMetadata")
      BY DifferentKinds
    <3> QED BY <2>1, <3>1 DEF DataPairs
  <2>2. CASE k \notin DOMAIN q
    BY <1>1, <2>2 DEF StoreOK, BlocksTyped
  <2> QED BY <2>1, <2>2
<1>11. DescribedSelf(t)
  BY <1>1, Zenon DEF StoreOK, DescribedSelf, DataPairs
<1>12. ASSUME NEW l \in L PROVE IsLink(t, l) /\ LinkStored(t, l)
  <2>1. IsLink(s, l) /\ LinkStored(s, l)
    BY DEF LinksOK
  <2>2. OfKind(Entry(l), "DirectoryChild") /\ OfKind(Parent(l), "ParentLink")
    BY <2>1, LinkKeys DEF StoreOK
  <2>3. Entry(l) \in DOMAIN t /\ t[Entry(l)] = s[Entry(l)] /\ Parent(l) \in DOMAIN t
    BY <1>1, <1>8, <2>1, <2>2 DEF LinkStored
  <2> QED BY <1>5, <2>1, <2>3 DEF LinkStored, IsLink
<1>13. LinksOK(t, L)
  BY <1>1, <1>8, <1>12 DEF LinksOK
<1> QED BY <1>5, <1>6, <1>7, <1>9, <1>10, <1>11, <1>13 DEF StoreOK, t

\* Attributes and blocks can go, whoever's they are.
LEMMA DataGone ==
    ASSUME NEW s, NEW L, StoreOK(s), LinksOK(s, L), NEW K,
           \A k \in K : OfKind(k, "InoMetadata") \/ OfKind(k, "InoBlockHashMapping")
    PROVE  StoreOK(Drop(s, K)) /\ LinksOK(Drop(s, K), L) /\ Drop(s, K)[meta] = s[meta]
<1> DEFINE t == Drop(s, K)
<1>1. DOMAIN t = DOMAIN s \ K /\ \A k \in DOMAIN t : t[k] = s[k]
  BY DropIs
<1> HIDE DEF t
<1>2. \A k \in DOMAIN s : \A kind \in {"DirectoryChild", "ParentLink", "KeyLockStates", "FsMetadata"} :
        OfKind(k, kind) => k \in DOMAIN t
  BY <1>1, DifferentKinds
<1>3. CounterOK(t) /\ t[meta] = s[meta] /\ Numbers(t) = Numbers(s)
  BY <1>1, <1>2, MetaKey DEF StoreOK, CounterOK, Numbers
<1>4. IsFiniteSet(DOMAIN t)
  BY <1>1, FS_Subset DEF StoreOK
<1>5. KeysKnown(t) /\ BlocksTyped(t)
  BY <1>1 DEF StoreOK, KeysKnown, BlocksTyped
<1>6. EntriesTyped(t)
  BY <1>1, <1>3, Zenon DEF StoreOK, EntriesTyped
<1>7. DescribedSelf(t)
  BY <1>1, Zenon DEF StoreOK, DescribedSelf
<1>8. ASSUME NEW l \in L PROVE IsLink(t, l) /\ LinkStored(t, l)
  <2>1. IsLink(s, l) /\ LinkStored(s, l)
    BY DEF LinksOK
  <2>2. OfKind(Entry(l), "DirectoryChild") /\ OfKind(Parent(l), "ParentLink")
    BY <2>1, LinkKeys DEF StoreOK
  <2>3. Entry(l) \in DOMAIN t /\ t[Entry(l)] = s[Entry(l)] /\ Parent(l) \in DOMAIN t
    BY <1>1, <1>2, <2>1, <2>2 DEF LinkStored
  <2> QED BY <1>3, <2>1, <2>3 DEF LinkStored, IsLink
<1>9. LinksOK(t, L)
  <2>1. \A k \in LockStates : OfKind(k, "KeyLockStates")
    BY StateKey DEF LockStates
  <2>2. LockStates \subseteq DOMAIN t
    BY <1>2, <2>1 DEF LinksOK
  <2> QED BY <1>1, <1>8, <2>2 DEF LinksOK
<1> QED BY <1>3, <1>4, <1>5, <1>6, <1>7, <1>9 DEF StoreOK, t

LEMMA CounterPut ==
    ASSUME NEW s, NEW L, StoreOK(s), LinksOK(s, L), NEW n \in Nat, s[meta] <= n, n <= MaxIno
    PROVE  /\ StoreOK(Put(s, Pair(meta, n))) /\ LinksOK(Put(s, Pair(meta, n)), L)
           /\ Put(s, Pair(meta, n))[meta] = n
<1> DEFINE t == Put(s, Pair(meta, n))
<1>1. /\ DOMAIN t = DOMAIN s /\ t[meta] = n
      /\ \A k \in DOMAIN s : k # meta => t[k] = s[k]
  <2> DEFINE q == Pair(meta, n)
  <2>1. DOMAIN q = {meta} /\ q[meta] = n
    BY PairIs
  <2> HIDE DEF q
  <2>2. /\ DOMAIN Put(s, q) = DOMAIN s \cup DOMAIN q
        /\ \A k \in DOMAIN q : Put(s, q)[k] = q[k]
        /\ \A k \in DOMAIN s \ DOMAIN q : Put(s, q)[k] = s[k]
    BY PutIs
  <2>3. meta \in DOMAIN s /\ t = Put(s, q)
    BY DEF StoreOK, CounterOK, q
  <2> HIDE DEF t
  <2> QED BY <2>1, <2>2, <2>3
<1> HIDE DEF t
<1>2. CounterOK(t)
  BY <1>1, DirectoryStoreAssumption, BaseNat DEF StoreOK, CounterOK
<1>3. Numbers(s) \subseteq Numbers(t)
  BY <1>1 DEF StoreOK, CounterOK, Numbers
<1>4. \A k : \A kind \in KindsUsed : OfKind(k, kind) /\ kind # "FsMetadata" => k # meta
  BY MetaKey, DifferentKinds
<1>5. IsFiniteSet(DOMAIN t) /\ KeysKnown(t)
  BY <1>1 DEF StoreOK, KeysKnown
<1>6. EntriesTyped(t)
  <2> SUFFICES ASSUME NEW k \in DOMAIN t, OfKind(k, "DirectoryChild")
               PROVE  /\ \E dir \in Numbers(t), name \in Keys : k = directory_child(dir, name)
                      /\ \E ino \in Numbers(t) : Describes(ino, t[k])
    BY DEF EntriesTyped
  <2>1. k \in DOMAIN s /\ t[k] = s[k]
    BY <1>1, <1>4, DifferentKinds
  <2>2. /\ \E dir \in Numbers(s), name \in Keys : k = directory_child(dir, name)
        /\ \E ino \in Numbers(s) : Describes(ino, s[k])
    BY <2>1 DEF StoreOK, EntriesTyped
  <2> QED BY <1>3, <2>1, <2>2
<1>7. BlocksTyped(t)
  BY <1>1 DEF StoreOK, BlocksTyped
<1>8. DescribedSelf(t)
  <2>1. ASSUME NEW ino \in Word, NEW m \in InoMetas, inode_x(ino, m) \in DOMAIN t
        PROVE  inode_x(ino, m) \in DOMAIN s /\ t[inode_x(ino, m)] = s[inode_x(ino, m)]
    <3>1. OfKind(inode_x(ino, m), "InoMetadata")
      BY InodeKey
    <3> QED BY <1>1, <1>4, <2>1, <3>1, DifferentKinds
  <2>2. {"Description", "Size"} \subseteq InoMetas
    BY DEF InoMetas
  <2> QED BY <2>1, <2>2, Zenon DEF StoreOK, DescribedSelf
<1>9. ASSUME NEW l \in L PROVE IsLink(t, l) /\ LinkStored(t, l)
  <2>1. IsLink(s, l) /\ LinkStored(s, l)
    BY DEF LinksOK
  <2>2. OfKind(Entry(l), "DirectoryChild") /\ OfKind(Parent(l), "ParentLink")
    BY <2>1, LinkKeys DEF StoreOK
  <2>3. Entry(l) \in DOMAIN t /\ t[Entry(l)] = s[Entry(l)] /\ Parent(l) \in DOMAIN t
    BY <1>1, <1>4, <2>1, <2>2, DifferentKinds DEF LinkStored
  <2>4. IsLink(t, l)
    BY <1>3, <2>1 DEF IsLink
  <2> QED BY <2>1, <2>3, <2>4 DEF LinkStored
<1>10. LinksOK(t, L)
  BY <1>1, <1>9 DEF LinksOK
<1> QED BY <1>1, <1>2, <1>5, <1>6, <1>7, <1>8, <1>10 DEF StoreOK, t

-----------------------------------------------------------------------------
(***************************************************************************)
(* New links, and a link that goes                                         *)
(***************************************************************************)
\* The entries and parent links of new links N.
NewLinks(s, N, q) ==
    /\ IsFiniteSet(DOMAIN q)
    /\ \A n \in N : /\ IsLink(s, n) /\ Entry(n) \notin DOMAIN s
                    /\ Entry(n) \in DOMAIN q /\ Describes(n.ino, q[Entry(n)])
                    /\ Parent(n) \in DOMAIN q
    /\ \A k \in DOMAIN q : \E n \in N : k = Entry(n) \/ k = Parent(n)

LEMMA LinksPut ==
    ASSUME NEW s, NEW L, StoreOK(s), LinksOK(s, L), NEW N, NEW q, NewLinks(s, N, q)
    PROVE  StoreOK(Put(s, q)) /\ LinksOK(Put(s, q), L \cup N) /\ Put(s, q)[meta] = s[meta]
<1> DEFINE t == Put(s, q)
<1>1. /\ DOMAIN t = DOMAIN s \cup DOMAIN q
      /\ \A k \in DOMAIN q : t[k] = q[k]
      /\ \A k \in DOMAIN s \ DOMAIN q : t[k] = s[k]
  BY PutIs
<1> HIDE DEF t
<1>2. \A n \in N : OfKind(Entry(n), "DirectoryChild") /\ OfKind(Parent(n), "ParentLink")
  BY LinkKeys DEF NewLinks, StoreOK
<1>3. \A k \in DOMAIN q : \A kind \in KindsUsed : OfKind(k, kind) =>
        \/ kind = "DirectoryChild" /\ \E n \in N : k = Entry(n)
        \/ kind = "ParentLink" /\ \E n \in N : k = Parent(n)
  BY <1>2, DifferentKinds DEF NewLinks
<1>4. \A k \in DOMAIN q : \E kind \in KindsUsed : OfKind(k, kind)
  BY <1>2, DifferentKinds DEF NewLinks
<1>5. meta \notin DOMAIN q
  BY <1>3, MetaKey, DifferentKinds
<1>6. CounterOK(t) /\ t[meta] = s[meta] /\ Numbers(t) = Numbers(s)
  BY <1>1, <1>5 DEF StoreOK, CounterOK, Numbers
<1>7. IsFiniteSet(DOMAIN t)
  <2>1. IsFiniteSet(DOMAIN s) /\ IsFiniteSet(DOMAIN q)
    BY DEF StoreOK, NewLinks
  <2>2. IsFiniteSet(DOMAIN s \cup DOMAIN q)
    BY <2>1, FS_Union
  <2> QED BY <1>1, <2>2
<1>8. KeysKnown(t)
  BY <1>1, <1>4 DEF StoreOK, KeysKnown
<1>9. \A k \in DOMAIN t : \A kind \in KindsUsed \ {"DirectoryChild", "ParentLink"} :
        OfKind(k, kind) => k \in DOMAIN s /\ t[k] = s[k]
  BY <1>1, <1>3
<1>10. ASSUME NEW k \in DOMAIN t, OfKind(k, "DirectoryChild")
       PROVE  \/ k \in DOMAIN s /\ t[k] = s[k]
              \/ \E n \in N : k = Entry(n) /\ t[k] = q[k]
  BY <1>1, <1>3, <1>10, DifferentKinds
<1>11. EntriesTyped(t)
  <2> SUFFICES ASSUME NEW k \in DOMAIN t, OfKind(k, "DirectoryChild")
               PROVE  /\ \E dir \in Numbers(s), name \in Keys : k = directory_child(dir, name)
                      /\ \E ino \in Numbers(s) : Describes(ino, t[k])
    BY <1>6 DEF EntriesTyped
  <2>1. CASE k \in DOMAIN s /\ t[k] = s[k]
    BY <2>1 DEF StoreOK, EntriesTyped
  <2>2. CASE \E n \in N : k = Entry(n) /\ t[k] = q[k]
    <3>1. PICK n \in N : k = Entry(n) /\ t[k] = q[k]
      BY <2>2
    <3>2. IsLink(s, n) /\ Describes(n.ino, q[Entry(n)])
      BY DEF NewLinks
    <3>3. n.dir \in Numbers(s) /\ n.ino \in Numbers(s) /\ n.name \in Keys
      BY <3>2 DEF IsLink
    <3> QED BY <3>1, <3>2, <3>3 DEF Entry
  <2> QED BY <1>10, <2>1, <2>2
<1>12. BlocksTyped(t)
  BY <1>9, DifferentKinds DEF StoreOK, BlocksTyped
<1>13. DescribedSelf(t)
  <2>1. ASSUME NEW ino \in Word, NEW m \in InoMetas, inode_x(ino, m) \in DOMAIN t
        PROVE  inode_x(ino, m) \in DOMAIN s /\ t[inode_x(ino, m)] = s[inode_x(ino, m)]
    <3>1. OfKind(inode_x(ino, m), "InoMetadata")
      BY InodeKey
    <3>2. "InoMetadata" \in KindsUsed \ {"DirectoryChild", "ParentLink"}
      BY DEF KindsUsed
    <3> QED BY <1>9, <2>1, <3>1, <3>2
  <2>2. {"Description", "Size"} \subseteq InoMetas
    BY DEF InoMetas
  <2> QED BY <2>1, <2>2, Zenon DEF StoreOK, DescribedSelf
<1>14. ASSUME NEW l \in L PROVE IsLink(t, l) /\ LinkStored(t, l)
  <2>1. IsLink(s, l) /\ LinkStored(s, l)
    BY DEF LinksOK
  <2>2. OfKind(Entry(l), "DirectoryChild")
    BY <2>1, LinkKeys DEF StoreOK
  <2>3. Entry(l) \in DOMAIN t /\ Parent(l) \in DOMAIN t
    BY <1>1, <2>1 DEF LinkStored
  <2>4. \A n \in N : Entry(l) # Entry(n)
    BY <2>1 DEF LinkStored, NewLinks
  <2>5. t[Entry(l)] = s[Entry(l)]
    BY <1>10, <2>2, <2>3, <2>4
  <2> QED BY <1>6, <2>1, <2>3, <2>5 DEF LinkStored, IsLink
<1>15. ASSUME NEW n \in N PROVE IsLink(t, n) /\ LinkStored(t, n)
  <2>1. /\ IsLink(s, n) /\ Entry(n) \in DOMAIN q
        /\ Describes(n.ino, q[Entry(n)]) /\ Parent(n) \in DOMAIN q
    BY DEF NewLinks
  <2> QED BY <1>1, <1>6, <2>1 DEF LinkStored, IsLink
<1>16. LinksOK(t, L \cup N)
  <2>1. \A l \in L \cup N : IsLink(t, l) /\ LinkStored(t, l)
    BY <1>14, <1>15
  <2>2. \A k \in DOMAIN t : OfKind(k, "DirectoryChild") => \E l \in L \cup N : k = Entry(l)
    BY <1>10 DEF LinksOK
  <2>3. \A k \in DOMAIN t : OfKind(k, "ParentLink") => \E l \in L \cup N : k = Parent(l)
    BY <1>1, <1>3, DifferentKinds DEF LinksOK
  <2>4. \A k \in DOMAIN t : OfKind(k, "KeyLockStates") => k \in LockStates
    BY <1>9, DifferentKinds DEF LinksOK
  <2>5. LockStates \subseteq DOMAIN t
    BY <1>1 DEF LinksOK
  <2> QED BY <2>1, <2>2, <2>3, <2>4, <2>5 DEF LinksOK
<1> QED BY <1>6, <1>7, <1>8, <1>11, <1>12, <1>13, <1>16 DEF StoreOK, t

LEMMA LinkPairsNew ==
    ASSUME NEW s, CounterOK(s), NEW dir \in Numbers(s), NEW name \in Keys, NEW ino \in Numbers(s),
           NEW item, Describes(ino, item), directory_child(dir, name) \notin DOMAIN s
    PROVE  NewLinks(s, {Link(dir, name, ino)}, LinkPairs(dir, name, item))
<1> DEFINE l == Link(dir, name, ino)
           q1 == Pair(Parent(l), <<>>)
           q2 == Pair(Entry(l), item)
           q == Put(q1, q2)
<1>1. l.dir = dir /\ l.name = name /\ l.ino = ino /\ IsLink(s, l)
  BY DEF Link, IsLink
<1>2. item.ino = ino
  BY DescribesOne
<1>3. LinkPairs(dir, name, item) = q
  BY <1>1, <1>2 DEF LinkPairs, Entry, Parent
<1>4. DOMAIN q1 = {Parent(l)} /\ DOMAIN q2 = {Entry(l)} /\ q2[Entry(l)] = item
  BY PairIs
<1>5. Entry(l) = directory_child(dir, name)
  BY <1>1 DEF Entry
<1> HIDE DEF q1, q2
<1>6. /\ DOMAIN q = DOMAIN q1 \cup DOMAIN q2
      /\ \A k \in DOMAIN q2 : q[k] = q2[k]
  BY PutIs
<1> HIDE DEF q, l
<1>7. DOMAIN q = {Parent(l), Entry(l)} /\ q[Entry(l)] = item
  BY <1>4, <1>6
<1>8. IsFiniteSet(DOMAIN q)
  <2>1. IsFiniteSet({Parent(l)}) /\ IsFiniteSet({Entry(l)})
    BY FS_Singleton
  <2>2. IsFiniteSet({Parent(l)} \cup {Entry(l)})
    BY <2>1, FS_Union
  <2>3. DOMAIN q = {Parent(l)} \cup {Entry(l)}
    BY <1>7
  <2> QED BY <2>2, <2>3
<1>9. NewLinks(s, {l}, q)
  BY <1>1, <1>2, <1>5, <1>7, <1>8 DEF NewLinks
<1> QED BY <1>3, <1>9 DEF l

LEMMA LinkGone ==
    ASSUME NEW s, NEW L, StoreOK(s), LinksOK(s, L), NEW l \in L,
           NEW t, t = Drop(s, {Entry(l), Parent(l)})
    PROVE  StoreOK(t) /\ LinksOK(t, L \ {l}) /\ t[meta] = s[meta]
<1>1. DOMAIN t = DOMAIN s \ {Entry(l), Parent(l)} /\ \A k \in DOMAIN t : t[k] = s[k]
  <2> DEFINE K == {Entry(l), Parent(l)}
  <2>1. t = Drop(s, K)
    OBVIOUS
  <2> HIDE DEF K
  <2>2. DOMAIN Drop(s, K) = DOMAIN s \ K /\ \A k \in DOMAIN Drop(s, K) : Drop(s, K)[k] = s[k]
    BY DropIs
  <2>3. DOMAIN t = DOMAIN s \ K /\ \A k \in DOMAIN t : t[k] = s[k]
    BY <2>1, <2>2, Zenon
  <2> QED BY <2>3 DEF K
<1>2. IsLink(s, l) /\ CounterOK(s)
  BY DEF LinksOK, StoreOK
<1>3. OfKind(Entry(l), "DirectoryChild") /\ OfKind(Parent(l), "ParentLink")
  BY <1>2, LinkKeys
<1>4. meta \in DOMAIN t
  BY <1>1, <1>2, <1>3, MetaKey, DifferentKinds DEF CounterOK
<1>5. CounterOK(t) /\ t[meta] = s[meta] /\ Numbers(t) = Numbers(s)
  BY <1>1, <1>2, <1>4 DEF CounterOK, Numbers
<1>6. IsFiniteSet(DOMAIN t)
  BY <1>1, FS_Subset DEF StoreOK
<1>7. KeysKnown(t) /\ BlocksTyped(t)
  BY <1>1 DEF StoreOK, KeysKnown, BlocksTyped
<1>8. EntriesTyped(t)
  BY <1>1, <1>5, Zenon DEF StoreOK, EntriesTyped
<1>9. DescribedSelf(t)
  BY <1>1, Zenon DEF StoreOK, DescribedSelf
<1>10. ASSUME NEW k \in L \ {l} PROVE IsLink(t, k) /\ LinkStored(t, k)
  <2>1. IsLink(s, k) /\ LinkStored(s, k) /\ LinkStored(s, l)
    BY DEF LinksOK
  <2>2. Entry(k) # Entry(l)
    <3>1. SUFFICES ASSUME Entry(k) = Entry(l) PROVE FALSE
      OBVIOUS
    <3>2. k.ino = l.ino
      BY <2>1, <3>1, DescribesOne DEF LinkStored
    <3> QED BY <1>2, <2>1, <3>1, <3>2, EntryOfOne
  <2>3. Parent(k) # Parent(l)
    BY <1>2, <2>1, EntryOfOne
  <2>4. OfKind(Entry(k), "DirectoryChild") /\ OfKind(Parent(k), "ParentLink")
    BY <1>2, <2>1, LinkKeys
  <2>5. Entry(k) # Parent(l) /\ Parent(k) # Entry(l)
    BY <1>3, <2>4, DifferentKinds
  <2> QED BY <1>1, <1>5, <2>1, <2>2, <2>3, <2>5 DEF LinkStored, IsLink
<1>11. LinksOK(t, L \ {l})
  <2>1. \A k \in DOMAIN t : OfKind(k, "DirectoryChild") => \E n \in L \ {l} : k = Entry(n)
    BY <1>1 DEF LinksOK
  <2>2. \A k \in DOMAIN t : OfKind(k, "ParentLink") => \E n \in L \ {l} : k = Parent(n)
    BY <1>1 DEF LinksOK
  <2>3. \A k \in DOMAIN t : OfKind(k, "KeyLockStates") => k \in LockStates
    BY <1>1 DEF LinksOK
  <2>4. LockStates \subseteq DOMAIN t
    <3>1. \A k \in LockStates : OfKind(k, "KeyLockStates")
      BY StateKey DEF LockStates
    <3> QED BY <1>1, <1>3, <3>1, DifferentKinds DEF LinksOK
  <2> QED BY <1>10, <2>1, <2>2, <2>3, <2>4 DEF LinksOK
<1> QED BY <1>5, <1>6, <1>7, <1>8, <1>9, <1>11 DEF StoreOK

\* The attributes of a new inode.
LEMMA InodePairsData ==
    ASSUME NEW ino \in Word, NEW typ \in Types, NEW attr
    PROVE  DataPairs(InodePairs(ino, typ, attr))
<1> DEFINE k1 == inode_x(ino, "Description")
           k2 == inode_x(ino, "UnixAttributes")
           k3 == inode_x(ino, "Size")
           q1 == Pair(k1, Item(ino, typ))
           q2 == Pair(k2, attr)
           q3 == Pair(k3, 0)
           q12 == Put(q1, q2)
           q == Put(q12, q3)
<1>1. {"Description", "UnixAttributes", "Size"} \subseteq InoMetas
  BY DEF InoMetas
<1>2. k1 # k2 /\ k1 # k3 /\ k2 # k3
  BY <1>1, InodeKeyInjective
<1>3. OfKind(k1, "InoMetadata") /\ OfKind(k2, "InoMetadata") /\ OfKind(k3, "InoMetadata")
  BY <1>1, InodeKey
<1>4. InodePairs(ino, typ, attr) = q
  BY DEF InodePairs
<1>5. \A i \in Word : /\ inode_x(i, "Description") \in {k1, k2, k3} => i = ino
                      /\ inode_x(i, "Size") \in {k1, k2, k3} => i = ino
  BY <1>1, InodeKeyInjective
<1>6. Describes(ino, Item(ino, typ))
  BY DEF Describes, Item
<1> HIDE DEF k1, k2, k3
<1>7. /\ DOMAIN q1 = {k1} /\ DOMAIN q2 = {k2} /\ DOMAIN q3 = {k3}
      /\ q1[k1] = Item(ino, typ) /\ q3[k3] = 0
  BY PairIs
<1> HIDE DEF q1, q2, q3
<1>8. DOMAIN q12 = {k1, k2} /\ q12[k1] = Item(ino, typ)
  <2>1. /\ DOMAIN q12 = DOMAIN q1 \cup DOMAIN q2
        /\ \A k \in DOMAIN q1 \ DOMAIN q2 : q12[k] = q1[k]
    BY PutIs
  <2> HIDE DEF q12
  <2> QED BY <1>2, <1>7, <2>1
<1> HIDE DEF q12
<1>9. DOMAIN q = {k1, k2, k3} /\ q[k1] = Item(ino, typ) /\ q[k3] = 0
  <2>1. /\ DOMAIN q = DOMAIN q12 \cup DOMAIN q3
        /\ \A k \in DOMAIN q3 : q[k] = q3[k]
        /\ \A k \in DOMAIN q12 \ DOMAIN q3 : q[k] = q12[k]
    BY PutIs
  <2> HIDE DEF q
  <2> QED BY <1>2, <1>7, <1>8, <2>1
<1> HIDE DEF q
<1>10. IsFiniteSet(DOMAIN q)
  <2>1. IsFiniteSet({k1}) /\ IsFiniteSet({k2}) /\ IsFiniteSet({k3})
    BY FS_Singleton
  <2>2. IsFiniteSet({k1} \cup {k2})
    BY <2>1, FS_Union
  <2>3. IsFiniteSet(({k1} \cup {k2}) \cup {k3})
    BY <2>1, <2>2, FS_Union
  <2>4. DOMAIN q = ({k1} \cup {k2}) \cup {k3}
    BY <1>9
  <2> QED BY <2>3, <2>4
<1>11. DescribedSelf(q)
  <2> SUFFICES ASSUME NEW i \in Word
               PROVE  /\ inode_x(i, "Description") \in DOMAIN q =>
                            Describes(i, q[inode_x(i, "Description")])
                      /\ inode_x(i, "Size") \in DOMAIN q => q[inode_x(i, "Size")] \in Nat
    BY DEF DescribedSelf
  <2>1. CASE i = ino
    <3>1. inode_x(i, "Description") = k1 /\ inode_x(i, "Size") = k3
      BY <2>1 DEF k1, k3
    <3> QED BY <1>6, <1>9, <2>1, <3>1
  <2>2. CASE i # ino
    BY <1>5, <1>9, <2>2
  <2> QED BY <2>1, <2>2
<1> QED BY <1>3, <1>4, <1>9, <1>10, <1>11 DEF DataPairs

LEMMA InodePairsWhole ==
    ASSUME NEW ino, NEW typ, NEW attr
    PROVE  /\ DOMAIN InodePairs(ino, typ, attr) =
                {inode_x(ino, m) : m \in {"Description", "UnixAttributes", "Size"}}
           /\ AllAttributes(InodePairs(ino, typ, attr), ino)
<1> DEFINE q1 == Pair(inode_x(ino, "Description"), Item(ino, typ))
           q2 == Pair(inode_x(ino, "UnixAttributes"), attr)
           q3 == Pair(inode_x(ino, "Size"), 0)
<1>1. /\ DOMAIN q1 = {inode_x(ino, "Description")} /\ DOMAIN q2 = {inode_x(ino, "UnixAttributes")}
      /\ DOMAIN q3 = {inode_x(ino, "Size")}
  BY PairIs
<1>2. InodePairs(ino, typ, attr) = Put(Put(q1, q2), q3)
  BY DEF InodePairs
<1> HIDE DEF q1, q2, q3
<1>3. DOMAIN Put(q1, q2) = DOMAIN q1 \cup DOMAIN q2
  BY PutIs
<1>4. DOMAIN Put(Put(q1, q2), q3) = DOMAIN Put(q1, q2) \cup DOMAIN q3
  BY PutIs
<1>5. DOMAIN InodePairs(ino, typ, attr) =
        {inode_x(ino, m) : m \in {"Description", "UnixAttributes", "Size"}}
  BY <1>1, <1>2, <1>3, <1>4
<1> QED BY <1>5 DEF AllAttributes

-----------------------------------------------------------------------------
(***************************************************************************)
(* What the scans of a store find                                          *)
(***************************************************************************)
LEMMA StoreKeysAreKeys ==
    ASSUME NEW s, StoreOK(s)
    PROVE  DOMAIN s \in SUBSET Keys /\ IsFiniteSet(DOMAIN s)
BY DEF StoreOK, KeysKnown, OfKind

\* A number and the next one are words.
Nexts(n) == n \in Word /\ n + 1 \in Word

EntryKeys(s, dir) == {k \in DOMAIN s : \E name \in Keys : k = directory_child(dir, name)}
ParentKeys(s, ino) ==
    {k \in DOMAIN s : \E dir \in Word, name \in Keys : k = parent_link(ino, dir, name)}

LEMMA EntriesFound ==
    ASSUME NEW s, StoreOK(s), NEW dir, Nexts(dir)
    PROVE  Found(DOMAIN s, directory_child_range(dir)) = EntryKeys(s, dir)
<1> DEFINE from == ChildKind \o write_big_endian(dir)
           to == ChildKind \o write_big_endian(dir + 1)
<1>1. dir \in Word /\ dir + 1 \in Word
  BY DEF Nexts
<1>2. from \in Keys /\ to \in Keys
  BY <1>1, KindKeys, WordBytes, ConcatKeys
<1>3. directory_child(dir, <<>>) = from \o <<>> /\ directory_child(dir + 1, <<>>) = to \o <<>>
  BY DEF directory_child, ChildKind
<1>4. OfKind(directory_child(dir, <<>>), "DirectoryChild")
      /\ OfKind(directory_child(dir + 1, <<>>), "DirectoryChild")
  BY <1>1, EmptyKey, ChildKey
<1> HIDE DEF from, to
<1>5. directory_child(dir, <<>>) = from /\ directory_child(dir + 1, <<>>) = to
  BY <1>2, <1>3, ConcatEmptySeq DEF Keys
<1>6. directory_child_range(dir) = KeyRange(from, to)
  BY <1>5 DEF directory_child_range
<1>7. ASSUME NEW k \in DOMAIN s, InRange(k, KeyRange(from, to))
      PROVE  \E name \in Keys : k = directory_child(dir, name)
  <2>1. PICK kind \in KindsUsed : OfKind(k, kind)
    BY DEF StoreOK, KeysKnown
  <2>2. kind = "DirectoryChild"
    <3>1. "DirectoryChild" \in KindsUsed
      BY DifferentKinds
    <3> QED BY <1>4, <1>5, <1>7, <2>1, <3>1, OtherKind
  <2>3. PICK e \in Numbers(s), name \in Keys : k = directory_child(e, name)
    BY <2>1, <2>2 DEF StoreOK, EntriesTyped
  <2>4. e \in Word
    BY NumbersAreWords DEF StoreOK
  <2>5. k = Numbered(ChildKind, e, name)
    BY <2>3, <2>4, ChildKey
  <2>6. e = dir
    BY <1>1, <1>7, <2>4, <2>5, KindKeys, NumberRange DEF from, to
  <2> QED BY <2>3, <2>6
<1>8. ASSUME NEW name \in Keys PROVE InRange(directory_child(dir, name), KeyRange(from, to))
  <2>1. directory_child(dir, name) = Numbered(ChildKind, dir, name)
    BY <1>1, ChildKey
  <2> QED BY <1>1, <2>1, KindKeys, NumberRange DEF from, to
<1> QED BY <1>6, <1>7, <1>8 DEF Found, EntryKeys

LEMMA ParentsFound ==
    ASSUME NEW s, NEW L, StoreOK(s), LinksOK(s, L), NEW ino, Nexts(ino)
    PROVE  Found(DOMAIN s, parent_link_scan(ino)) = ParentKeys(s, ino)
<1> DEFINE from == ParentKind \o write_big_endian(ino)
           to == ParentKind \o write_big_endian(ino + 1)
<1>1. ino \in Word /\ ino + 1 \in Word
  BY DEF Nexts
<1>2. OfKind(from, "ParentLink") /\ OfKind(to, "ParentLink") /\ "ParentLink" \in KindsUsed
  <2>1. "ParentLink" \in KindsUsed
    BY DifferentKinds
  <2>2. OfKind(ParentKind, "ParentLink")
    BY <2>1, KindPrefix DEF ParentKind
  <2>3. write_big_endian(ino) \in Keys /\ write_big_endian(ino + 1) \in Keys
    BY <1>1, WordBytes
  <2> QED BY <2>1, <2>2, <2>3, KindConcat
<1>3. parent_link_scan(ino) = KeyRange(from, to)
  BY DEF parent_link_scan, ParentKind
<1> HIDE DEF from, to
<1>4. ASSUME NEW k \in DOMAIN s, InRange(k, KeyRange(from, to))
      PROVE  \E dir \in Word, name \in Keys : k = parent_link(ino, dir, name)
  <2>1. PICK kind \in KindsUsed : OfKind(k, kind)
    BY DEF StoreOK, KeysKnown
  <2>2. kind = "ParentLink"
    BY <1>2, <1>4, <2>1, OtherKind
  <2>3. PICK l \in L : k = Parent(l)
    BY <2>1, <2>2 DEF LinksOK
  <2>4. l.dir \in Word /\ l.ino \in Word /\ l.name \in Keys
    BY LinkKeys DEF LinksOK, StoreOK
  <2>5. k = Numbered(ParentKind, l.ino, write_big_endian(l.dir) \o l.name)
        /\ write_big_endian(l.dir) \o l.name \in Keys
    BY <2>3, <2>4, ParentKey, ParentRest DEF Parent
  <2>6. l.ino = ino
    BY <1>1, <1>4, <2>4, <2>5, KindKeys, NumberRange DEF from, to
  <2> QED BY <2>3, <2>4, <2>6 DEF Parent
<1>5. ASSUME NEW dir \in Word, NEW name \in Keys
      PROVE  InRange(parent_link(ino, dir, name), KeyRange(from, to))
  <2>1. parent_link(ino, dir, name) = Numbered(ParentKind, ino, write_big_endian(dir) \o name)
        /\ write_big_endian(dir) \o name \in Keys
    BY <1>1, ParentKey, ParentRest
  <2> QED BY <1>1, <2>1, KindKeys, NumberRange DEF from, to
<1> QED BY <1>3, <1>4, <1>5 DEF Found, ParentKeys

\* The children of a directory: each has a name of its own and is what the
\* entry of this name says, and no entry is left out unless there are more
\* than a scan returns.
ChildrenOf(s, dir, kids) ==
    /\ Len(kids) \in Nat
    /\ kids \in [1..Len(kids) -> [name : Keys, ino : Numbers(s), typ : Types]]
    /\ \A i \in 1..Len(kids) :
        /\ directory_child(dir, kids[i].name) \in DOMAIN s
        /\ s[directory_child(dir, kids[i].name)].ino = kids[i].ino
        /\ s[directory_child(dir, kids[i].name)].typ = kids[i].typ
    /\ \A i, j \in 1..Len(kids) : kids[i].name = kids[j].name => i = j
    /\ Cardinality(EntryKeys(s, dir)) <= ScanLimit =>
        \A name \in Keys : directory_child(dir, name) \in DOMAIN s =>
            \E i \in 1..Len(kids) : kids[i].name = name

LEMMA ChildrenAre ==
    ASSUME NEW s, StoreOK(s), NEW dir, Nexts(dir)
    PROVE  ChildrenOf(s, dir, Children(s, dir))
<1> DEFINE range == directory_child_range(dir)
           keys == Scan(DOMAIN s, range, ScanLimit)
           n == ScanLen(DOMAIN s, range, ScanLimit)
           kids == Children(s, dir)
<1>1. ScanLimit \in Nat /\ DOMAIN s \in SUBSET Keys /\ IsFiniteSet(DOMAIN s)
  BY DirectoryStoreAssumption, StoreKeysAreKeys
<1>2. /\ n \in Nat /\ keys \in [1..n -> Found(DOMAIN s, range)] /\ Len(keys) = n
      /\ \A i, j \in 1..n : i < j => KeyLess(keys[i], keys[j])
      /\ Cardinality(Found(DOMAIN s, range)) <= ScanLimit => ToSet(keys) = Found(DOMAIN s, range)
  BY <1>1, ScanIs
<1>3. Found(DOMAIN s, range) = EntryKeys(s, dir)
  BY EntriesFound
<1>4. kids = [i \in 1..Len(keys) |-> [name |-> parse_directory_child(keys[i]).name,
                                      ino |-> s[keys[i]].ino, typ |-> s[keys[i]].typ]]
  BY DEF Children
<1> HIDE DEF keys, n, range, kids
<1>5. Len(kids) = n /\ DOMAIN kids = 1..n
  BY <1>2, <1>4
<1>6. ASSUME NEW i \in 1..n
      PROVE  /\ kids[i] \in [name : Keys, ino : Numbers(s), typ : Types]
             /\ keys[i] = directory_child(dir, kids[i].name) /\ keys[i] \in DOMAIN s
             /\ s[keys[i]].ino = kids[i].ino /\ s[keys[i]].typ = kids[i].typ
  <2>1. keys[i] \in EntryKeys(s, dir)
    BY <1>2, <1>3
  <2>2. PICK name \in Keys : keys[i] = directory_child(dir, name)
    BY <2>1 DEF EntryKeys
  <2>3. keys[i] \in DOMAIN s
    BY <2>1 DEF EntryKeys
  <2>4. parse_directory_child(keys[i]).name = name /\ OfKind(keys[i], "DirectoryChild")
    BY <2>2, ChildParsed, ChildKey DEF Nexts
  <2>5. PICK ino \in Numbers(s) : Describes(ino, s[keys[i]])
    BY <2>3, <2>4 DEF StoreOK, EntriesTyped
  <2>6. s[keys[i]].ino = ino /\ s[keys[i]].typ \in Types
    BY <2>5, DescribesOne
  <2>7. kids[i] = [name |-> name, ino |-> s[keys[i]].ino, typ |-> s[keys[i]].typ]
    BY <1>2, <1>4, <2>4
  <2> QED BY <2>2, <2>3, <2>6, <2>7
<1>7. kids \in [1..n -> [name : Keys, ino : Numbers(s), typ : Types]]
  BY <1>2, <1>4, <1>6
<1>8. ASSUME NEW i \in 1..n, NEW j \in 1..n, kids[i].name = kids[j].name PROVE i = j
  <2>1. keys[i] = keys[j] /\ keys[i] \in Keys
    BY <1>1, <1>6, <1>8
  <2>2. ~KeyLess(keys[i], keys[j]) /\ ~KeyLess(keys[j], keys[i])
    BY <2>1, KeyIrreflexive
  <2>3. ~(i < j) /\ ~(j < i)
    BY <1>2, <2>2
  <2> QED BY <1>2, <2>3
<1>9. ASSUME Cardinality(EntryKeys(s, dir)) <= ScanLimit,
             NEW name \in Keys, directory_child(dir, name) \in DOMAIN s
      PROVE  \E i \in 1..n : kids[i].name = name
  <2>1. directory_child(dir, name) \in ToSet(keys)
    BY <1>2, <1>3, <1>9 DEF EntryKeys
  <2>2. PICK i \in 1..n : keys[i] = directory_child(dir, name)
    BY <1>2, <2>1 DEF ToSet
  <2>3. directory_child(dir, kids[i].name) = directory_child(dir, name) /\ kids[i].name \in Keys
    BY <1>6, <2>2
  <2>4. kids[i].name = name
    BY <2>3, ChildKeyInjective DEF Nexts
  <2> QED BY <2>4
<1>10. ChildrenOf(s, dir, kids)
  BY <1>2, <1>5, <1>6, <1>7, <1>8, <1>9 DEF ChildrenOf
<1> QED BY <1>10 DEF kids

LEMMA StatesFound ==
    ASSUME NEW s, NEW L, StoreOK(s), LinksOK(s, L), NEW key \in LockKeys
    PROVE  Found(DOMAIN s, lock_range(key)) = {key_lock_state(key, u) : u \in Uuids}
<1>1. ASSUME NEW k \in DOMAIN s, InRange(k, lock_range(key))
      PROVE  \E u \in Uuids : k = key_lock_state(key, u)
  <2>1. PICK kind \in KindsUsed : OfKind(k, kind)
    BY DEF StoreOK, KeysKnown
  <2>2. kind = "KeyLockStates"
    <3> DEFINE from == key_lock_state(key, ZeroUuid)
               last == key_lock_state(key, LastUuid)
               to == last \o <<0>>
    <3>1. ZeroUuid \in Uuids /\ LastUuid \in Uuids /\ <<0>> \in Keys
      BY LockParts
    <3>2. OfKind(from, "KeyLockStates") /\ OfKind(last, "KeyLockStates")
      BY <3>1, StateKey
    <3> HIDE DEF last
    <3>3. OfKind(to, "KeyLockStates")
      BY <3>1, <3>2, KindConcat
    <3>4. lock_range(key) = KeyRange(from, to)
      BY DEF lock_range, ZeroUuid, LastUuid, last
    <3>5. "KeyLockStates" \in KindsUsed
      BY DifferentKinds
    <3> HIDE DEF from, to
    <3> QED BY <1>1, <2>1, <3>2, <3>3, <3>4, <3>5, OtherKind
  <2>3. PICK l \in LockKeys, u \in Uuids : k = key_lock_state(l, u)
    BY <2>1, <2>2 DEF LinksOK, LockStates
  <2>4. l = key
    BY <1>1, <2>3, OtherStateOutside
  <2> QED BY <2>3, <2>4
<1>2. ASSUME NEW u \in Uuids
      PROVE  key_lock_state(key, u) \in DOMAIN s /\ InRange(key_lock_state(key, u), lock_range(key))
  BY OwnStateInRange DEF LinksOK, LockStates
<1> QED BY <1>1, <1>2 DEF Found

LEMMA EntriesCounted ==
    ASSUME NEW s, NEW L, StoreOK(s), LinksOK(s, L), NEW dir, Nexts(dir)
    PROVE  Cardinality(EntryKeys(s, dir)) = Cardinality({l \in L : l.dir = dir})
<1> DEFINE S == {l \in L : l.dir = dir}
           T == EntryKeys(s, dir)
           f == [l \in S |-> Entry(l)]
<1>1. CounterOK(s) /\ \A l \in L : IsLink(s, l) /\ LinkStored(s, l) /\ l.name \in Keys
  BY LinkKeys DEF StoreOK, LinksOK
<1>2. \A l \in S : Entry(l) \in T
  BY <1>1 DEF EntryKeys, LinkStored, Entry
<1>3. \A k, l \in S : Entry(k) = Entry(l) => k = l
  <2> SUFFICES ASSUME NEW k \in S, NEW l \in S, Entry(k) = Entry(l) PROVE k = l
    OBVIOUS
  <2>1. IsLink(s, k) /\ IsLink(s, l) /\ LinkStored(s, k) /\ LinkStored(s, l)
    BY <1>1
  <2>2. k.ino = l.ino
    BY <2>1, DescribesOne DEF LinkStored
  <2> QED BY <1>1, <2>1, <2>2, EntryOfOne
<1>4. ASSUME NEW k \in T PROVE \E l \in S : Entry(l) = k
  <2>1. PICK name \in Keys : k = directory_child(dir, name)
    BY DEF EntryKeys
  <2>2. k \in DOMAIN s /\ OfKind(k, "DirectoryChild")
    BY <2>1, ChildKey DEF EntryKeys, Nexts
  <2>3. PICK l \in L : k = Entry(l)
    BY <2>2 DEF LinksOK
  <2>4. l.dir \in Word /\ l.name \in Keys
    BY <1>1, LinkKeys
  <2>5. l.dir = dir
    BY <2>1, <2>3, <2>4, ChildKeyInjective DEF Entry, Nexts
  <2> QED BY <2>3, <2>5
<1> HIDE DEF S, T
<1>5. f \in Bijection(S, T)
  BY <1>2, <1>3, <1>4 DEF Bijection, Injection, Surjection, IsInjective
<1>6. IsFiniteSet(T)
  <2>1. T \in SUBSET DOMAIN s /\ IsFiniteSet(DOMAIN s)
    BY StoreKeysAreKeys DEF EntryKeys, T
  <2> QED BY <2>1, FS_Subset
<1> HIDE DEF f
<1>7. f \in Injection(S, T) /\ f \in Surjection(S, T)
  BY <1>5 DEF Bijection
<1>8. Cardinality(S) = Cardinality(T)
  BY <1>6, <1>7, FS_Injection
<1> QED BY <1>8 DEF S, T

LEMMA ParentsCounted ==
    ASSUME NEW s, NEW L, StoreOK(s), LinksOK(s, L), NEW ino, Nexts(ino)
    PROVE  Cardinality(ParentKeys(s, ino)) = Cardinality({l \in L : l.ino = ino})
<1> DEFINE S == {l \in L : l.ino = ino}
           T == ParentKeys(s, ino)
           f == [l \in S |-> Parent(l)]
<1>1. CounterOK(s)
  BY DEF StoreOK
<1>2. \A l \in L : /\ IsLink(s, l) /\ LinkStored(s, l)
                   /\ l.dir \in Word /\ l.ino \in Word /\ l.name \in Keys
  BY <1>1, LinkKeys DEF LinksOK
<1>3. \A l \in S : Parent(l) \in T
  BY <1>2 DEF ParentKeys, LinkStored, Parent
<1>4. \A k, l \in S : Parent(k) = Parent(l) => k = l
  BY <1>1, <1>2, EntryOfOne
<1>5. ASSUME NEW k \in T PROVE \E l \in S : Parent(l) = k
  <2>1. PICK dir \in Word, name \in Keys : k = parent_link(ino, dir, name)
    BY DEF ParentKeys
  <2>2. k \in DOMAIN s /\ OfKind(k, "ParentLink")
    BY <2>1, ParentKey DEF ParentKeys, Nexts
  <2>3. PICK l \in L : k = Parent(l)
    BY <2>2 DEF LinksOK
  <2>4. l.ino = ino
    <3>1. l.dir \in Word /\ l.ino \in Word /\ l.name \in Keys /\ ino \in Word
      BY <1>2 DEF Nexts
    <3>2. parent_link(l.ino, l.dir, l.name) = parent_link(ino, dir, name)
      BY <2>1, <2>3 DEF Parent
    <3> QED BY <3>1, <3>2, ParentKeyInjective
  <2> QED BY <2>3, <2>4
<1> HIDE DEF S, T
<1>6. f \in Bijection(S, T)
  BY <1>3, <1>4, <1>5 DEF Bijection, Injection, Surjection, IsInjective
<1>7. IsFiniteSet(T)
  <2>1. T \in SUBSET DOMAIN s /\ IsFiniteSet(DOMAIN s)
    BY StoreKeysAreKeys DEF ParentKeys, T
  <2> QED BY <2>1, FS_Subset
<1> HIDE DEF f
<1>8. f \in Injection(S, T) /\ f \in Surjection(S, T)
  BY <1>6 DEF Bijection
<1>9. Cardinality(S) = Cardinality(T)
  BY <1>7, <1>8, FS_Injection
<1> QED BY <1>9 DEF S, T

LEMMA StatesCounted ==
    ASSUME NEW key
    PROVE  Cardinality({key_lock_state(key, u) : u \in Uuids}) <= 2
<1> DEFINE v == key_lock_state(key, ZeroUuid)
           w == key_lock_state(key, LastUuid)
<1>1. {key_lock_state(key, u) : u \in Uuids} = {v} \cup {w}
  BY DEF Uuids, ZeroUuid, LastUuid
<1> HIDE DEF v, w
<1>2. IsFiniteSet({v}) /\ IsFiniteSet({w}) /\ Cardinality({v}) = 1 /\ Cardinality({w}) = 1
  BY FS_Singleton
<1>3. IsFiniteSet({v} \cap {w})
  BY <1>2, FS_Subset
<1>4. Cardinality({v} \cap {w}) \in Nat
  BY <1>3, FS_CardinalityType
<1>5. Cardinality({v} \cup {w}) = 1 + 1 - Cardinality({v} \cap {w})
  BY <1>2, FS_Union
<1>6. Cardinality({v} \cup {w}) <= 2
  <2>1. PICK x \in Nat : Cardinality({v} \cap {w}) = x
    BY <1>4
  <2>2. Cardinality({v} \cup {w}) = 1 + 1 - x
    BY <1>5, <2>1
  <2>3. 1 + 1 - x <= 2
    OBVIOUS
  <2> QED BY <2>2, <2>3
<1> QED BY <1>1, <1>6

\* What ScansExact says holds of every store that has the entries, parent
\* links and states of locks of the links and nothing else of these kinds.
LEMMA ScansExactHere ==
    ASSUME StoreOK(store), LinksOK(store, links)
    PROVE  ScansExact
<1>1. CounterOK(store)
  BY DEF StoreOK
<1>2. ASSUME NEW l \in links
      PROVE  /\ Nexts(l.dir) /\ Nexts(l.ino) /\ l.name \in Keys
             /\ IsLink(store, l) /\ LinkStored(store, l) /\ l = Link(l.dir, l.name, l.ino)
  <2>1. IsLink(store, l) /\ LinkStored(store, l)
    BY DEF LinksOK
  <2>2. l.dir \in Numbers(store) /\ l.ino \in Numbers(store) /\ l.name \in Keys
    BY <2>1 DEF IsLink
  <2>3. l = Link(l.dir, l.name, l.ino)
    BY <1>1, <2>1, LinkKeys
  <2> QED BY <1>1, <2>1, <2>2, <2>3, NumbersAreWords DEF Nexts
<1>3. ASSUME NEW l \in links
      PROVE  parse_directory_child(directory_child(l.dir, l.name)) =
                [kind |-> "DirectoryChild", dir |-> l.dir, name |-> l.name]
  BY <1>2, ChildParsed DEF Nexts
<1>4. ASSUME NEW dir \in {l.dir : l \in links}, Cardinality(LinksIn(dir)) <= ScanLimit
      PROVE  {Link(dir, i.name, i.ino) : i \in ToSet(Children(store, dir))} = LinksIn(dir)
  <2> DEFINE kids == Children(store, dir)
  <2>1. Nexts(dir)
    BY <1>2
  <2>2. ChildrenOf(store, dir, kids)
    BY <2>1, ChildrenAre
  <2>3. Cardinality(EntryKeys(store, dir)) <= ScanLimit
    BY <1>4, <2>1, EntriesCounted DEF LinksIn
  <2> HIDE DEF kids
  <2>4. ASSUME NEW i \in 1..Len(kids) PROVE Link(dir, kids[i].name, kids[i].ino) \in LinksIn(dir)
    <3> DEFINE k == directory_child(dir, kids[i].name)
    <3>1. kids[i].name \in Keys /\ k \in DOMAIN store /\ store[k].ino = kids[i].ino
      BY <2>2 DEF ChildrenOf
    <3>2. OfKind(k, "DirectoryChild")
      BY <2>1, <3>1, ChildKey DEF Nexts
    <3> HIDE DEF k
    <3>3. PICK l \in links : k = Entry(l)
      BY <3>1, <3>2 DEF LinksOK
    <3>4. l.dir = dir /\ l.name = kids[i].name
      BY <1>2, <2>1, <3>1, <3>3, ChildKeyInjective DEF Nexts, Entry, k
    <3>5. l.ino = kids[i].ino
      BY <1>2, <3>1, <3>3, DescribesOne DEF LinkStored
    <3>6. l = Link(dir, kids[i].name, kids[i].ino)
      BY <1>2, <3>4, <3>5
    <3> QED BY <3>4, <3>6 DEF LinksIn
  <2>5. ASSUME NEW l \in LinksIn(dir)
        PROVE  \E i \in 1..Len(kids) : l = Link(dir, kids[i].name, kids[i].ino)
    <3>1. l \in links /\ l.dir = dir
      BY DEF LinksIn
    <3>2. /\ l.name \in Keys /\ directory_child(dir, l.name) \in DOMAIN store
          /\ Describes(l.ino, store[directory_child(dir, l.name)])
      BY <1>2, <3>1 DEF LinkStored, Entry
    <3>3. PICK i \in 1..Len(kids) : kids[i].name = l.name
      BY <2>2, <2>3, <3>2 DEF ChildrenOf
    <3>4. kids[i].ino = l.ino
      BY <2>2, <3>2, <3>3, DescribesOne DEF ChildrenOf
    <3>5. l = Link(dir, kids[i].name, kids[i].ino)
      BY <1>2, <3>1, <3>3, <3>4
    <3> QED BY <3>5
  <2>6. DOMAIN kids = 1..Len(kids)
    BY <2>2 DEF ChildrenOf
  <2>7. {Link(dir, i.name, i.ino) : i \in ToSet(kids)} = LinksIn(dir)
    BY <2>4, <2>5, <2>6 DEF ToSet
  <2> QED BY <2>7 DEF kids
<1>5. ScanLimit \in Nat /\ ScanLimit >= 2 /\ DOMAIN store \in SUBSET Keys /\ IsFiniteSet(DOMAIN store)
  BY DirectoryStoreAssumption, StoreKeysAreKeys
<1>6. ASSUME NEW ino \in {l.ino : l \in links}, Cardinality(LinksTo(ino)) <= ScanLimit
      PROVE  Len(Scan(DOMAIN store, parent_link_scan(ino), ScanLimit)) = Cardinality(LinksTo(ino))
  <2> DEFINE range == parent_link_scan(ino)
  <2>1. Nexts(ino)
    BY <1>2
  <2>2. Found(DOMAIN store, range) = ParentKeys(store, ino)
    BY <2>1, ParentsFound
  <2>3. Cardinality(ParentKeys(store, ino)) = Cardinality(LinksTo(ino))
    BY <2>1, ParentsCounted DEF LinksTo
  <2> HIDE DEF range
  <2>4. Len(Scan(DOMAIN store, range, ScanLimit)) = ScanLen(DOMAIN store, range, ScanLimit)
    BY <1>5, ScanIs
  <2>5. Cardinality(LinksTo(ino)) \in Nat
    <3>1. ParentKeys(store, ino) \in SUBSET DOMAIN store
      BY DEF ParentKeys
    <3>2. IsFiniteSet(ParentKeys(store, ino))
      BY <1>5, <3>1, FS_Subset
    <3> QED BY <2>3, <3>2, FS_CardinalityType
  <2>6. ScanLen(DOMAIN store, range, ScanLimit) = Cardinality(LinksTo(ino))
    BY <1>5, <1>6, <2>2, <2>3, <2>5 DEF ScanLen
  <2> QED BY <2>4, <2>6 DEF range
<1>7. ASSUME NEW key \in LockKeys
      PROVE  {parse_lock_key(k, key).uuid :
                k \in ToSet(Scan(DOMAIN store, lock_range(key), ScanLimit))} = Uuids
  <2> DEFINE F == Found(DOMAIN store, lock_range(key))
  <2>1. F = {key_lock_state(key, u) : u \in Uuids}
    BY StatesFound
  <2>2. F \in SUBSET DOMAIN store
    BY DEF Found
  <2>3. Cardinality(F) \in Nat /\ Cardinality(F) <= 2
    <3>1. Cardinality(F) <= 2
      BY <2>1, StatesCounted
    <3> HIDE DEF F
    <3>2. IsFiniteSet(F)
      BY <1>5, <2>2, FS_Subset
    <3> QED BY <3>1, <3>2, FS_CardinalityType
  <2>4. Cardinality(F) <= ScanLimit
    BY <1>5, <2>3
  <2>5. ToSet(Scan(DOMAIN store, lock_range(key), ScanLimit)) = F
    BY <1>5, <2>4, ScanIs
  <2>6. \A u \in Uuids : parse_lock_key(key_lock_state(key, u), key).uuid = u
    BY LockParsed
  <2> HIDE DEF F
  <2> QED BY <2>1, <2>5, <2>6
<1> QED BY <1>3, <1>4, <1>6, <1>7 DEF ScansExact

-----------------------------------------------------------------------------
(***************************************************************************)
(* The inductive invariant: the store, the links, and what a snapshot that *)
(* is under way still has to write into                                    *)
(***************************************************************************)
Steps == Over \cup {"reserve", "add", "scan", "link", "attrs", "data"}
Sources == {n \in Word : Nexts(n)}
Copies == [src : [name : Keys, ino : Sources, typ : Types], dst : Nat]

\* A link outside of the tree has a new inode, which no other link has.
LinksApart(L) ==
    /\ \A l \in L : l.dir \in TreeDirs \/ l.ino >= Base
    /\ \A k, l \in L : k.ino = l.ino /\ k # l => {k.dir, l.dir} \subseteq TreeDirs

SnapTyped(sn) ==
    /\ sn \in [pc : Steps, at : {sn.at}, ino : Nat, jobs : Seq(Sources \X Nat),
               mapping : Seq(Copies), left : {sn.left}, todo : Seq(Copies), lossy : {sn.lossy}]
    /\ sn.pc \notin Over => StoreOK(sn.at)
    /\ sn.mapping # <<>> => sn.pc \in {"link", "attrs"}
    /\ sn.todo # <<>> => sn.pc = "data"
    /\ sn.jobs # <<>> => sn.pc \in {"scan", "link", "attrs", "data"}

\* The directories that are to be filled: those of the jobs, and those of
\* the copies that may be directories.
JobDirs(sn) == {sn.jobs[i][2] : i \in DOMAIN sn.jobs}
MapDirs(sn) == {sn.mapping[i].dst : i \in DOMAIN sn.mapping}
TodoDirs(sn) == {sn.todo[i].dst : i \in DOMAIN sn.todo}
OwnDir(sn) == IF sn.pc \in {"add", "link"} THEN {sn.ino} ELSE {}
Waiting(sn) == OwnDir(sn) \cup JobDirs(sn) \cup MapDirs(sn) \cup TodoDirs(sn)

\* The inodes that are to be linked.
Unlinked(sn) ==
    CASE sn.pc = "add" -> {sn.ino} [] sn.pc = "link" -> MapDirs(sn) [] OTHER -> {}

\* All of them are different ones.
SnapApart(sn) ==
    /\ \A i, j \in DOMAIN sn.mapping : sn.mapping[i].src.name = sn.mapping[j].src.name => i = j
    /\ \A i, j \in DOMAIN sn.mapping : sn.mapping[i].dst = sn.mapping[j].dst => i = j
    /\ \A i, j \in DOMAIN sn.todo : sn.todo[i].dst = sn.todo[j].dst => i = j
    /\ \A i, j \in DOMAIN sn.jobs : sn.jobs[i][2] = sn.jobs[j][2] => i = j
    /\ JobDirs(sn) \cap (MapDirs(sn) \cup TodoDirs(sn)) = {}
    /\ sn.pc = "link" => sn.ino \notin JobDirs(sn) \cup MapDirs(sn)

\* Nothing is in the directories yet, and nothing is linked yet.
SnapFresh(s, L, sn) ==
    /\ \A n \in Waiting(sn) : n \in Numbers(s) /\ n >= Base /\ \A l \in L : l.dir # n
    /\ \A n \in Unlinked(sn) : \A l \in L : l.ino # n

StoreInv ==
    /\ StoreOK(store) /\ LinksOK(store, links) /\ LinksApart(links)
    /\ SnapTyped(snap) /\ SnapApart(snap) /\ SnapFresh(store, links, snap)

\* The numbers that programs have reserved are new and nobody else's, those
\* of removed entries were handed out, and a size waits for the open file only.
ReservedOwn(s, L, sn) ==
    \A n \in reserved :
        /\ n \in Numbers(s) /\ n >= Base /\ n \notin Waiting(sn)
        /\ \A l \in L : l.ino # n
ItemsKnown(s) == \A item \in unlinked \cup doomed : item.ino \in Numbers(s) /\ item.ino \notin reserved
WritesOpen == writing \subseteq [ino : {FileA}, size : Nat]

ProgsInv == ReservedOwn(store, links, snap) /\ ItemsKnown(store) /\ WritesOpen

LEMMA LiveNumbers ==
    /\ \A s : CounterOK(s) => /\ TreeDirs \subseteq Numbers(s) /\ {FileA, FileB} \subseteq Numbers(s)
                              /\ ROOT_INODE \in Numbers(s) /\ SNAPSHOT_PARENT_INODE \in Numbers(s)
    /\ \A n \in TreeDirs : n \in Nat /\ n < Base
    /\ LiveDirs \subseteq TreeDirs /\ OPENED_INODE_PARENT_INODE \in TreeDirs
    /\ FileA < Base /\ FileB < Base /\ FileA \in Nat /\ FileB \in Nat
    /\ SNAPSHOT_PARENT_INODE < Base /\ SNAPSHOT_PARENT_INODE \in Nat
    /\ SNAPSHOT_PARENT_INODE \notin TreeDirs
    /\ \A name \in Names : name \in Keys
    /\ SnapName \in Keys /\ UseName \in Keys
<1>1. Base \in Nat /\ Base >= 16
  BY BaseNat
<1>2. \A s : CounterOK(s) => /\ TreeDirs \subseteq Numbers(s) /\ {FileA, FileB} \subseteq Numbers(s)
                             /\ ROOT_INODE \in Numbers(s) /\ SNAPSHOT_PARENT_INODE \in Numbers(s)
  BY <1>1 DEF CounterOK, TreeDirs, LiveDirs, Numbers, ROOT_INODE, DirD, FIRST_DATA_INODE, FileA,
              FileB, LinkC, OPENED_INODE_PARENT_INODE, SNAPSHOT_PARENT_INODE
<1>3. /\ \A n \in TreeDirs : n \in Nat /\ n < Base
      /\ LiveDirs \subseteq TreeDirs /\ OPENED_INODE_PARENT_INODE \in TreeDirs
      /\ FileA < Base /\ FileB < Base /\ FileA \in Nat /\ FileB \in Nat
      /\ SNAPSHOT_PARENT_INODE < Base /\ SNAPSHOT_PARENT_INODE \in Nat
      /\ SNAPSHOT_PARENT_INODE \notin TreeDirs
  BY <1>1 DEF TreeDirs, LiveDirs, ROOT_INODE, DirD, FIRST_DATA_INODE, FileA, FileB, LinkC,
              OPENED_INODE_PARENT_INODE, SNAPSHOT_PARENT_INODE
<1>4. (\A name \in Names : name \in Keys) /\ SnapName \in Keys /\ UseName \in Keys
  BY DirectoryStoreAssumption DEF IsName, Keys, Bytes
<1> QED BY <1>2, <1>3, <1>4

LEMMA MetaKept ==
    ASSUME NEW s, NEW q, meta \in DOMAIN s, meta \notin DOMAIN q
    PROVE  meta \in DOMAIN Put(s, q) /\ Put(s, q)[meta] = s[meta]
BY PutIs

LEMMA DataOtherKeys ==
    ASSUME NEW q, DataPairs(q), NEW k, NEW kind \in {"FsMetadata", "DirectoryChild"}, OfKind(k, kind)
    PROVE  k \notin DOMAIN q
<1>1. \A x \in DOMAIN q : OfKind(x, "InoMetadata") \/ OfKind(x, "InoBlockHashMapping")
  BY BlockKey DEF DataPairs
<1> QED BY <1>1, DifferentKinds

LEMMA LinkOtherKeys ==
    ASSUME NEW dir \in Word, NEW name \in Keys, NEW item, item.ino \in Word
    PROVE  meta \notin DOMAIN LinkPairs(dir, name, item)
<1> DEFINE k1 == parent_link(item.ino, dir, name)
           k2 == directory_child(dir, name)
           q1 == Pair(k1, <<>>)
           q2 == Pair(k2, item)
<1>1. OfKind(k1, "ParentLink") /\ OfKind(k2, "DirectoryChild")
  BY ParentKey, ChildKey
<1>2. LinkPairs(dir, name, item) = Put(q1, q2)
  BY DEF LinkPairs
<1> HIDE DEF k1, k2
<1>3. DOMAIN q1 = {k1} /\ DOMAIN q2 = {k2}
  BY PairIs
<1> HIDE DEF q1, q2
<1>4. DOMAIN LinkPairs(dir, name, item) = {k1, k2}
  <2>1. DOMAIN Put(q1, q2) = DOMAIN q1 \cup DOMAIN q2
    BY PutIs
  <2> QED BY <1>2, <1>3, <2>1
<1> QED BY <1>1, <1>4, MetaKey, DifferentKinds

\* What a snapshot waits for stays fresh when numbers are handed out and links
\* are made elsewhere.
LEMMA FreshKept ==
    ASSUME NEW s, NEW t, NEW L, NEW M, NEW sn, CounterOK(s), CounterOK(t), s[meta] <= t[meta],
           SnapFresh(s, L, sn),
           \A l \in M : l \in L \/ (l.dir \notin Waiting(sn) /\ l.ino \notin Unlinked(sn))
    PROVE  SnapFresh(t, M, sn)
<1>1. \A n \in Numbers(s) : n \in Numbers(t)
  BY DEF CounterOK, Numbers
<1> QED BY <1>1, Zenon DEF SnapFresh

LEMMA UnlinkedWaits ==
    ASSUME NEW sn
    PROVE  Unlinked(sn) \subseteq Waiting(sn)
BY DEF Unlinked, Waiting, OwnDir

\* Links with new inodes stay apart from all others.
LEMMA ApartKept ==
    ASSUME NEW L, LinksApart(L), NEW N,
           \A n \in N : n.ino >= Base /\ \A l \in L : l.ino # n.ino,
           \A m, n \in N : m.ino = n.ino => m = n
    PROVE  LinksApart(L \cup N)
<1>1. \A l \in L \cup N : l.dir \in TreeDirs \/ l.ino >= Base
  BY DEF LinksApart
<1>2. ASSUME NEW k \in L \cup N, NEW l \in L \cup N, k.ino = l.ino, k # l
      PROVE  {k.dir, l.dir} \subseteq TreeDirs
  <2>1. k \in L /\ l \in L
    BY <1>2
  <2> QED BY <1>2, <2>1, Zenon DEF LinksApart
<1> QED BY <1>1, <1>2 DEF LinksApart

-----------------------------------------------------------------------------
(***************************************************************************)
(* The steps of a snapshot keep it                                         *)
(***************************************************************************)
\* What a step of a snapshot takes for itself: what it had, and new numbers.
SnapTakes ==
    /\ store[meta] <= store'[meta]
    /\ \A n \in Waiting(snap') : n \in Waiting(snap) \/ store[meta] <= n
    /\ \A l \in links' : l \in links \/ (l.ino \in Waiting(snap) /\ l.dir \notin TreeDirs)

LEMMA SameCounter ==
    ASSUME StoreOK(store), store'[meta] = store[meta]
    PROVE  store[meta] <= store'[meta]
BY DEF StoreOK, CounterOK

LEMMA EmptySeqs ==
    /\ <<>> \in Seq(Sources \X Nat) /\ <<>> \in Seq(Copies) /\ DOMAIN <<>> = {}
OBVIOUS

LEMMA SnapOver ==
    ASSUME NEW step \in Over, NEW s, NEW L
    PROVE  /\ SnapTyped([NoSnap EXCEPT !.pc = step])
           /\ SnapApart([NoSnap EXCEPT !.pc = step])
           /\ SnapFresh(s, L, [NoSnap EXCEPT !.pc = step])
           /\ Waiting([NoSnap EXCEPT !.pc = step]) = {}
<1> DEFINE sn == [NoSnap EXCEPT !.pc = step]
<1>1. sn = [pc |-> step, at |-> NoPairs, ino |-> 0, jobs |-> <<>>, mapping |-> <<>>,
            left |-> {}, todo |-> <<>>, lossy |-> FALSE]
  <2>1. PICK x : x = sn
    OBVIOUS
  <2>2. x = [pc |-> step, at |-> NoPairs, ino |-> 0, jobs |-> <<>>, mapping |-> <<>>,
             left |-> {}, todo |-> <<>>, lossy |-> FALSE]
    BY <2>1 DEF NoSnap
  <2> QED BY <2>1, <2>2, Zenon
<1> HIDE DEF sn
<1>2. /\ sn.pc = step /\ sn.at = NoPairs /\ sn.ino = 0 /\ sn.jobs = <<>> /\ sn.mapping = <<>>
      /\ sn.left = {} /\ sn.todo = <<>> /\ sn.lossy = FALSE
  BY <1>1
<1>3. step \in Steps /\ step # "add" /\ step # "link"
  BY DEF Steps, Over
<1>4. SnapTyped(sn)
  <2>1. sn \in [pc : Steps, at : {sn.at}, ino : Nat, jobs : Seq(Sources \X Nat),
                mapping : Seq(Copies), left : {sn.left}, todo : Seq(Copies), lossy : {sn.lossy}]
    BY <1>1, <1>2, <1>3, EmptySeqs
  <2> QED BY <1>2, <2>1 DEF SnapTyped
<1>5. JobDirs(sn) = {} /\ MapDirs(sn) = {} /\ TodoDirs(sn) = {} /\ OwnDir(sn) = {}
  BY <1>2, <1>3, EmptySeqs DEF JobDirs, MapDirs, TodoDirs, OwnDir
<1>6. SnapApart(sn)
  BY <1>2, <1>3, <1>5, EmptySeqs DEF SnapApart
<1>7. SnapFresh(s, L, sn)
  BY <1>2, <1>3, <1>5 DEF SnapFresh, Waiting, Unlinked
<1>8. Waiting(sn) = {}
  BY <1>5 DEF Waiting
<1> QED BY <1>4, <1>6, <1>7, <1>8 DEF sn

\* A snapshot that has no jobs and no copies yet.
LEMMA SnapNew ==
    ASSUME NEW sn, SnapTyped(sn), sn.pc \in {"reserve", "add"}
    PROVE  /\ sn.jobs = <<>> /\ sn.mapping = <<>> /\ sn.todo = <<>>
           /\ JobDirs(sn) = {} /\ MapDirs(sn) = {} /\ TodoDirs(sn) = {}
<1>1. sn.jobs = <<>> /\ sn.mapping = <<>> /\ sn.todo = <<>>
  BY DEF SnapTyped
<1> QED BY <1>1, EmptySeqs DEF JobDirs, MapDirs, TodoDirs

LEMMA ReservedIs ==
    ASSUME StoreOK(store), LinksOK(store, links), NEW count \in Nat \ {0}, NEW first,
           Reserved(count, first)
    PROVE  /\ StoreOK(store') /\ LinksOK(store', links)
           /\ first \in Nat /\ store[meta] \in Nat /\ Base \in Nat /\ Base <= store[meta]
           /\ store[meta] <= first /\ first + count <= store'[meta]
           /\ store'[meta] \in Nat /\ store[meta] <= store'[meta]
<1> DEFINE n == store[meta]
           w == Put(store, Pair(meta, n + count))
<1>1. /\ n \in Nat /\ meta \in DOMAIN store /\ Base \in Nat /\ Base <= n
      /\ count \in Nat /\ count >= 1
  BY BaseNat DEF StoreOK, CounterOK
<1>2. ASSUME NEW v PROVE Put(store, Pair(meta, v))[meta] = v
  <2> DEFINE q == Pair(meta, v)
  <2>1. DOMAIN q = {meta} /\ q[meta] = v
    BY PairIs
  <2> HIDE DEF q
  <2>2. \A k \in DOMAIN q : Put(store, q)[k] = q[k]
    BY PutIs
  <2> QED BY <2>1, <2>2 DEF q
<1>3. CASE /\ first = n
           /\ store' = Put(store, Pair(meta, n + count)) /\ store'[meta] <= MaxIno
  <2>1. store'[meta] = n + count
    BY <1>2, <1>3
  <2>2. n + count \in Nat /\ n <= n + count /\ n + count <= MaxIno
    BY <1>1, <1>3, <2>1
  <2>3. StoreOK(store') /\ LinksOK(store', links)
    BY <1>3, <2>2, CounterPut
  <2> QED BY <1>1, <1>3, <2>1, <2>2, <2>3
<1>4. CASE /\ first = w[meta]
           /\ store' = Put(store, Pair(meta, w[meta] + count)) /\ store'[meta] <= MaxIno
  <2>1. w[meta] = n + count
    BY <1>2
  <2>2. store'[meta] = n + count + count
    BY <1>2, <1>4, <2>1
  <2>3. n + count + count \in Nat /\ n <= n + count + count /\ n + count + count <= MaxIno
    BY <1>1, <1>4, <2>2
  <2>4. StoreOK(store') /\ LinksOK(store', links)
    BY <1>4, <2>1, <2>3, CounterPut
  <2> QED BY <1>1, <1>4, <2>1, <2>2, <2>3, <2>4
<1> QED BY <1>3, <1>4 DEF Reserved, Reserve, Writes, NumbersLeft

\* No link leads into or to a number that was not handed out yet.
LEMMA NewNumber ==
    ASSUME StoreOK(store), LinksOK(store, links), NEW n \in Nat, store[meta] <= n
    PROVE  \A l \in links : l.dir # n /\ l.ino # n
BY DEF LinksOK, IsLink, Numbers, StoreOK, CounterOK

LEMMA SnapBeginInv ==
    ASSUME StoreInv, SnapBegin
    PROVE  StoreInv' /\ SnapTakes
<1>1. StoreOK(store) /\ LinksOK(store, links) /\ LinksApart(links)
  BY DEF StoreInv
<1>2. snap' = [NoSnap EXCEPT !.pc = "reserve", !.at = store] /\ store' = store /\ links' = links
  BY DEF SnapBegin
<1>3. snap' = [pc |-> "reserve", at |-> store, ino |-> 0, jobs |-> <<>>, mapping |-> <<>>,
               left |-> {}, todo |-> <<>>, lossy |-> FALSE]
  BY <1>2 DEF NoSnap
<1> DEFINE sn == snap'
<1>4. /\ sn.pc = "reserve" /\ sn.at = store /\ sn.ino = 0 /\ sn.jobs = <<>> /\ sn.mapping = <<>>
      /\ sn.left = {} /\ sn.todo = <<>> /\ sn.lossy = FALSE
  BY <1>3
<1>5. SnapTyped(sn)
  <2>1. sn \in [pc : Steps, at : {sn.at}, ino : Nat, jobs : Seq(Sources \X Nat),
                mapping : Seq(Copies), left : {sn.left}, todo : Seq(Copies), lossy : {sn.lossy}]
    BY <1>3, <1>4, EmptySeqs DEF Steps
  <2> QED BY <1>1, <1>4, <2>1 DEF SnapTyped
<1>6. JobDirs(sn) = {} /\ MapDirs(sn) = {} /\ TodoDirs(sn) = {} /\ OwnDir(sn) = {}
  BY <1>4, EmptySeqs DEF JobDirs, MapDirs, TodoDirs, OwnDir
<1>7. SnapApart(sn) /\ SnapFresh(store, links, sn)
  BY <1>4, <1>6, EmptySeqs DEF SnapApart, SnapFresh, Waiting, Unlinked
<1>8. SnapTakes
  BY <1>1, <1>2, <1>6, SameCounter DEF SnapTakes, Waiting
<1> QED BY <1>1, <1>2, <1>5, <1>7, <1>8 DEF StoreInv

LEMMA SnapReserveInv ==
    ASSUME StoreInv, SnapReserve
    PROVE  StoreInv' /\ SnapTakes
<1> DEFINE sn == snap'
<1>1. StoreOK(store) /\ LinksOK(store, links) /\ LinksApart(links) /\ SnapTyped(snap)
  BY DEF StoreInv
<1>2. PICK ino : /\ Reserved(1, ino) /\ snap.pc = "reserve" /\ links' = links
                 /\ sn = [snap EXCEPT !.pc = "add", !.ino = ino]
  BY DEF SnapReserve, InSnap
<1>3. /\ StoreOK(store') /\ LinksOK(store', links)
      /\ ino \in Nat /\ store[meta] \in Nat /\ Base \in Nat /\ Base <= store[meta]
      /\ store[meta] <= ino /\ ino + 1 <= store'[meta] /\ store'[meta] \in Nat
  BY <1>1, <1>2, ReservedIs
<1>4. /\ sn.pc = "add" /\ sn.at = snap.at /\ sn.ino = ino /\ sn.jobs = snap.jobs
      /\ sn.mapping = snap.mapping /\ sn.todo = snap.todo
      /\ sn \in [pc : Steps, at : {sn.at}, ino : Nat, jobs : Seq(Sources \X Nat),
                 mapping : Seq(Copies), left : {sn.left}, todo : Seq(Copies), lossy : {sn.lossy}]
  BY <1>1, <1>2, <1>3 DEF SnapTyped, Steps
<1> HIDE DEF sn
<1>5. StoreOK(snap.at) /\ snap.jobs = <<>> /\ snap.mapping = <<>> /\ snap.todo = <<>>
  BY <1>1, <1>2, SnapNew DEF SnapTyped, Over
<1>6. SnapTyped(sn)
  BY <1>4, <1>5 DEF SnapTyped
<1>7. JobDirs(sn) = {} /\ MapDirs(sn) = {} /\ TodoDirs(sn) = {} /\ OwnDir(sn) = {ino}
  BY <1>4, <1>6, SnapNew DEF OwnDir
<1>8. SnapApart(sn)
  BY <1>4, <1>5, <1>7, EmptySeqs DEF SnapApart
<1>9. SnapFresh(store', links, sn)
  <2>1. ino \in Numbers(store') /\ ino >= Base
    BY <1>3 DEF Numbers
  <2>2. \A l \in links : l.dir # ino /\ l.ino # ino
    BY <1>1, <1>3, NewNumber
  <2>3. Waiting(sn) = {ino} /\ Unlinked(sn) = {ino}
    BY <1>4, <1>7 DEF Waiting, Unlinked
  <2> QED BY <2>1, <2>2, <2>3 DEF SnapFresh
<1>10. Waiting(sn) = {ino}
  BY <1>7 DEF Waiting
<1>11. SnapTakes
  BY <1>2, <1>3, <1>10 DEF SnapTakes, sn
<1> QED BY <1>1, <1>2, <1>3, <1>6, <1>8, <1>9, <1>11 DEF StoreInv, sn

LEMMA SnapAddInv ==
    ASSUME StoreInv, SnapAdd
    PROVE  StoreInv' /\ SnapTakes
<1> DEFINE ino == snap.ino
           sp == SNAPSHOT_PARENT_INODE
           key == directory_child(sp, SnapName)
           q1 == InodePairs(ino, "Directory", "attr")
           q2 == LinkPairs(sp, SnapName, Item(ino, "Directory"))
           t == Put(store, q1)
           l == Link(sp, SnapName, ino)
<1>1. StoreOK(store) /\ LinksOK(store, links) /\ LinksApart(links) /\ CounterOK(store)
      /\ SnapTyped(snap) /\ SnapApart(snap) /\ SnapFresh(store, links, snap)
  BY DEF StoreInv, StoreOK
<1>2. snap.pc = "add"
  BY DEF SnapAdd, InSnap
<1>3. CASE key \in DOMAIN store
  <2>1. snap' = [NoSnap EXCEPT !.pc = "exists"] /\ store' = store /\ links' = links
    BY <1>3 DEF SnapAdd
  <2>2. "exists" \in Over
    BY DEF Over
  <2>3. SnapTyped(snap') /\ SnapApart(snap') /\ SnapFresh(store', links', snap')
    BY <2>1, <2>2, SnapOver
  <2>4. SnapTakes
    BY <1>1, <2>1, <2>2, SnapOver, SameCounter DEF SnapTakes
  <2> QED BY <1>1, <2>1, <2>3, <2>4 DEF StoreInv
<1>4. CASE key \notin DOMAIN store
  <2>1. store' = Put(t, q2) /\ links' = links \cup {l}
    BY <1>4 DEF SnapAdd
  <2>2. \/ snap' = [snap EXCEPT !.pc = "scan", !.jobs = <<<<ROOT_INODE, ino>>>>]
        \/ snap' = [NoSnap EXCEPT !.pc = "exists"]
    BY <1>4 DEF SnapAdd
  <2>3. ino \in Waiting(snap) /\ ino \in Unlinked(snap)
    BY <1>2 DEF Waiting, OwnDir, Unlinked
  <2>4. /\ ino \in Numbers(store) /\ ino >= Base /\ ino \in Nat
        /\ \A k \in links : k.dir # ino /\ k.ino # ino
    BY <1>1, <2>3 DEF SnapFresh, Numbers
  <2>5. ino \in Word /\ sp \in Numbers(store) /\ sp \in Word /\ SnapName \in Keys
    BY <1>1, <2>4, NumbersAreWords, LiveNumbers
  <2>6. "Directory" \in Types /\ Describes(ino, Item(ino, "Directory"))
    BY DEF Types, Describes, Item
  <2>7. DataPairs(q1)
    BY <2>5, <2>6, InodePairsData
  <2>8. OfKind(key, "DirectoryChild") /\ key \notin DOMAIN q1
    BY <2>5, <2>7, ChildKey, DataOtherKeys
  <2> HIDE DEF q1
  <2>9. StoreOK(t) /\ LinksOK(t, links) /\ t[meta] = store[meta]
    BY <1>1, <2>7, DataPut
  <2>10. key \notin DOMAIN t
    <3>1. DOMAIN t = DOMAIN store \cup DOMAIN q1
      BY PutIs
    <3> QED BY <1>4, <2>8, <3>1
  <2> HIDE DEF t
  <2>11. CounterOK(t) /\ ino \in Numbers(t) /\ sp \in Numbers(t)
    BY <2>4, <2>5, <2>9 DEF StoreOK, Numbers
  <2>12. NewLinks(t, {l}, q2)
    BY <2>5, <2>6, <2>10, <2>11, LinkPairsNew
  <2>13. l.dir = sp /\ l.ino = ino
    BY DEF Link
  <2> HIDE DEF l, q2
  <2>14. StoreOK(store') /\ LinksOK(store', links') /\ store'[meta] = store[meta]
    BY <2>1, <2>9, <2>12, LinksPut
  <2>15. LinksApart(links')
    <3>1. \A n \in {l} : n.ino >= Base /\ \A k \in links : k.ino # n.ino
      BY <2>4, <2>13
    <3> QED BY <1>1, <2>1, <3>1, ApartKept
  <2>18. store[meta] <= store'[meta]
          /\ \A k \in links' : k \in links \/ (k.ino \in Waiting(snap) /\ k.dir \notin TreeDirs)
    BY <1>1, <2>1, <2>3, <2>13, <2>14, SameCounter, LiveNumbers
  <2>16. CASE snap' = [NoSnap EXCEPT !.pc = "exists"]
    <3>1. "exists" \in Over
      BY DEF Over
    <3>2. SnapTyped(snap') /\ SnapApart(snap') /\ SnapFresh(store', links', snap')
      BY <2>16, <3>1, SnapOver
    <3>3. SnapTakes
      BY <2>16, <2>18, <3>1, SnapOver DEF SnapTakes
    <3> QED BY <2>14, <2>15, <3>2, <3>3 DEF StoreInv
  <2>17. CASE snap' = [snap EXCEPT !.pc = "scan", !.jobs = <<<<ROOT_INODE, ino>>>>]
    <3> DEFINE sn == snap'
               jobs == <<<<ROOT_INODE, ino>>>>
    <3>1. ROOT_INODE \in Sources
      BY <1>1, LiveNumbers, NumbersAreWords DEF Sources, Nexts
    <3>2. jobs \in Seq(Sources \X Nat) /\ DOMAIN jobs = {1} /\ jobs[1][2] = ino
      BY <2>4, <3>1
    <3> HIDE DEF jobs
    <3>3. /\ sn.pc = "scan" /\ sn.at = snap.at /\ sn.jobs = jobs
          /\ sn.mapping = snap.mapping /\ sn.todo = snap.todo
          /\ sn \in [pc : Steps, at : {sn.at}, ino : Nat, jobs : Seq(Sources \X Nat),
                     mapping : Seq(Copies), left : {sn.left}, todo : Seq(Copies), lossy : {sn.lossy}]
      BY <1>1, <2>17, <3>2 DEF SnapTyped, Steps, jobs
    <3> HIDE DEF sn
    <3>4. StoreOK(snap.at) /\ snap.mapping = <<>> /\ snap.todo = <<>>
      BY <1>1, <1>2, SnapNew DEF SnapTyped, Over
    <3>5. SnapTyped(sn)
      BY <3>3, <3>4 DEF SnapTyped
    <3>6. JobDirs(sn) = {ino} /\ MapDirs(sn) = {} /\ TodoDirs(sn) = {} /\ OwnDir(sn) = {}
      BY <3>2, <3>3, <3>4, EmptySeqs DEF JobDirs, MapDirs, TodoDirs, OwnDir
    <3>7. SnapApart(sn)
      BY <3>2, <3>3, <3>4, <3>6, EmptySeqs DEF SnapApart
    <3>8. Waiting(sn) = {ino} /\ Unlinked(sn) = {}
      BY <3>3, <3>6 DEF Waiting, Unlinked
    <3>9. ino \in Numbers(store')
      BY <2>4, <2>14 DEF Numbers
    <3>10. \A k \in links' : k.dir # ino
      BY <2>1, <2>4, <2>13, LiveNumbers, BaseNat
    <3>11. SnapFresh(store', links', sn)
      BY <2>4, <3>8, <3>9, <3>10 DEF SnapFresh
    <3>12. SnapTakes
      BY <2>3, <2>18, <3>8 DEF SnapTakes, sn
    <3> QED BY <2>14, <2>15, <3>5, <3>7, <3>11, <3>12 DEF StoreInv, sn
  <2> QED BY <2>2, <2>16, <2>17
<1> QED BY <1>3, <1>4

LEMMA HeadTail ==
    ASSUME NEW S, NEW q \in Seq(S), q # <<>>
    PROVE  /\ Head(q) = q[1] /\ Head(q) \in S /\ 1 \in DOMAIN q /\ Tail(q) \in Seq(S)
           /\ \A i \in DOMAIN Tail(q) : i \in Nat \ {0} /\ i + 1 \in DOMAIN q /\ Tail(q)[i] = q[i + 1]
<1>1. Len(q) \in Nat \ {0}
  BY EmptySeq
<1>2. Head(q) \in S /\ Tail(q) \in Seq(S) /\ Len(Tail(q)) = Len(q) - 1
      /\ \A i \in 1..Len(Tail(q)) : Tail(q)[i] = q[i + 1]
  BY HeadTailProperties
<1>3. Head(q) = q[1]
  BY <1>1
<1>4. DOMAIN q = 1..Len(q) /\ DOMAIN Tail(q) = 1..Len(Tail(q))
  BY <1>2
<1> QED BY <1>1, <1>2, <1>3, <1>4

\* Jobs that are left when the first one is taken.
LEMMA JobsLeft ==
    ASSUME NEW jobs \in Seq(Sources \X Nat), jobs # <<>>,
           \A i, j \in DOMAIN jobs : jobs[i][2] = jobs[j][2] => i = j
    PROVE  /\ Head(jobs)[1] \in Sources /\ Head(jobs)[2] \in {jobs[i][2] : i \in DOMAIN jobs}
           /\ Tail(jobs) \in Seq(Sources \X Nat)
           /\ \A i, j \in DOMAIN Tail(jobs) : Tail(jobs)[i][2] = Tail(jobs)[j][2] => i = j
           /\ {Tail(jobs)[i][2] : i \in DOMAIN Tail(jobs)} \subseteq {jobs[i][2] : i \in DOMAIN jobs}
           /\ Head(jobs)[2] \notin {Tail(jobs)[i][2] : i \in DOMAIN Tail(jobs)}
<1> DEFINE rest == Tail(jobs)
<1>1. /\ Head(jobs) = jobs[1] /\ Head(jobs) \in Sources \X Nat /\ 1 \in DOMAIN jobs
      /\ rest \in Seq(Sources \X Nat)
      /\ \A i \in DOMAIN rest : i \in Nat \ {0} /\ i + 1 \in DOMAIN jobs /\ rest[i] = jobs[i + 1]
  BY HeadTail
<1> HIDE DEF rest
<1>2. Head(jobs)[1] \in Sources /\ Head(jobs)[2] \in {jobs[i][2] : i \in DOMAIN jobs}
  BY <1>1
<1>3. ASSUME NEW i \in DOMAIN rest, NEW j \in DOMAIN rest, rest[i][2] = rest[j][2] PROVE i = j
  <2>1. i + 1 = j + 1
    BY <1>1, <1>3
  <2> QED BY <1>1, <2>1
<1>4. {rest[i][2] : i \in DOMAIN rest} \subseteq {jobs[i][2] : i \in DOMAIN jobs}
  BY <1>1
<1>5. ASSUME NEW i \in DOMAIN rest PROVE Head(jobs)[2] # rest[i][2]
  <2>1. i + 1 # 1
    BY <1>1
  <2> QED BY <1>1, <2>1
<1> QED BY <1>1, <1>2, <1>3, <1>4, <1>5 DEF rest

LEMMA SnapScanInv ==
    ASSUME StoreInv, SnapScan
    PROVE  StoreInv' /\ SnapTakes
<1> DEFINE sn == snap'
           src == Head(snap.jobs)[1]
           kids == Children(snap.at, src)
<1>1. StoreOK(store) /\ LinksOK(store, links) /\ LinksApart(links) /\ CounterOK(store)
      /\ SnapTyped(snap) /\ SnapApart(snap) /\ SnapFresh(store, links, snap)
  BY DEF StoreInv, StoreOK
<1>2. snap.pc = "scan" /\ snap.jobs # <<>> /\ links' = links
  BY DEF SnapScan, InSnap
<1>3. snap.jobs \in Seq(Sources \X Nat) /\ snap.mapping = <<>> /\ snap.todo = <<>> /\ StoreOK(snap.at)
  BY <1>1, <1>2 DEF SnapTyped, Over
<1>4. /\ src \in Sources /\ Head(snap.jobs)[2] \in JobDirs(snap)
      /\ Tail(snap.jobs) \in Seq(Sources \X Nat)
      /\ \A i, j \in DOMAIN Tail(snap.jobs) : Tail(snap.jobs)[i][2] = Tail(snap.jobs)[j][2] => i = j
      /\ {Tail(snap.jobs)[i][2] : i \in DOMAIN Tail(snap.jobs)} \subseteq JobDirs(snap)
      /\ Head(snap.jobs)[2] \notin {Tail(snap.jobs)[i][2] : i \in DOMAIN Tail(snap.jobs)}
  BY <1>1, <1>2, <1>3, JobsLeft DEF SnapApart, JobDirs
<1>5. JobDirs(snap) \subseteq Waiting(snap)
  BY DEF Waiting
<1>6. CASE kids = <<>>
  <2>1. sn = [snap EXCEPT !.jobs = Tail(@)] /\ store' = store
    BY <1>6 DEF SnapScan, src_txn
  <2>2. /\ sn.pc = "scan" /\ sn.at = snap.at /\ sn.jobs = Tail(snap.jobs)
        /\ sn.mapping = snap.mapping /\ sn.todo = snap.todo
        /\ sn \in [pc : Steps, at : {sn.at}, ino : Nat, jobs : Seq(Sources \X Nat),
                   mapping : Seq(Copies), left : {sn.left}, todo : Seq(Copies), lossy : {sn.lossy}]
    BY <1>1, <1>2, <1>4, <2>1 DEF SnapTyped
  <2> HIDE DEF sn
  <2>3. SnapTyped(sn)
    BY <1>3, <2>2 DEF SnapTyped
  <2>4. JobDirs(sn) \subseteq JobDirs(snap) /\ MapDirs(sn) = {} /\ TodoDirs(sn) = {} /\ OwnDir(sn) = {}
    BY <1>3, <1>4, <2>2, EmptySeqs DEF JobDirs, MapDirs, TodoDirs, OwnDir
  <2>5. SnapApart(sn)
    BY <1>3, <1>4, <2>2, <2>4, EmptySeqs DEF SnapApart
  <2>6. Waiting(sn) \subseteq Waiting(snap) /\ Unlinked(sn) = {}
    BY <1>5, <2>2, <2>4 DEF Waiting, Unlinked
  <2>7. SnapFresh(store, links, sn)
    BY <1>1, <2>6 DEF SnapFresh
  <2>8. SnapTakes
    BY <1>1, <1>2, <2>1, <2>6, SameCounter DEF SnapTakes, sn
  <2> QED BY <1>1, <1>2, <2>1, <2>3, <2>5, <2>7, <2>8 DEF StoreInv, sn
<1>7. CASE kids # <<>>
  <2> DEFINE n == Len(kids)
  <2>1. ChildrenOf(snap.at, src, kids)
    BY <1>3, <1>4, ChildrenAre DEF Sources
  <2>2. PICK first :
          /\ Reserved(n, first)
          /\ sn = [snap EXCEPT !.pc = "link", !.ino = Head(snap.jobs)[2], !.jobs = Tail(@),
                       !.mapping = [i \in 1..n |-> [src |-> kids[i], dst |-> first + i - 1]]]
    BY <1>7 DEF SnapScan, src_txn
  <2> HIDE DEF kids, src
  <2>3. /\ n \in Nat \ {0} /\ kids \in [1..n -> [name : Keys, ino : Numbers(snap.at), typ : Types]]
        /\ \A i, j \in 1..n : kids[i].name = kids[j].name => i = j
    <3>1. n \in Nat /\ kids \in [1..n -> [name : Keys, ino : Numbers(snap.at), typ : Types]]
          /\ \A i, j \in 1..n : kids[i].name = kids[j].name => i = j
      BY <2>1 DEF ChildrenOf
    <3>2. n # 0
      BY <1>7, <3>1
    <3> QED BY <3>1, <3>2
  <2> HIDE DEF n
  <2>4. /\ StoreOK(store') /\ LinksOK(store', links)
        /\ first \in Nat /\ store[meta] \in Nat /\ Base \in Nat /\ Base <= store[meta]
        /\ store[meta] <= first /\ first + n <= store'[meta]
        /\ store'[meta] \in Nat /\ store[meta] <= store'[meta]
    BY <1>1, <2>2, <2>3, ReservedIs
  <2> DEFINE mapping == [i \in 1..n |-> [src |-> kids[i], dst |-> first + i - 1]]
  <2>5. ASSUME NEW i \in 1..n
        PROVE  /\ mapping[i] \in Copies /\ mapping[i].src = kids[i] /\ mapping[i].dst = first + i - 1
               /\ mapping[i].dst \in Nat /\ store[meta] <= mapping[i].dst
               /\ mapping[i].dst < store'[meta]
    <3>1. mapping[i] = [src |-> kids[i], dst |-> first + i - 1]
      OBVIOUS
    <3>2. kids[i] \in [name : Keys, ino : Sources, typ : Types]
      <4>1. kids[i] \in [name : Keys, ino : Numbers(snap.at), typ : Types]
        BY <2>3
      <4>2. \A m \in Numbers(snap.at) : m \in Sources
        BY <1>3, NumbersAreWords DEF StoreOK, Sources, Nexts
      <4> QED BY <4>1, <4>2
    <3>3. first + i - 1 \in Nat /\ store[meta] <= first + i - 1 /\ first + i - 1 < store'[meta]
      BY <2>3, <2>4
    <3> HIDE DEF mapping
    <3> QED BY <3>1, <3>2, <3>3 DEF Copies
  <2>6. mapping \in Seq(Copies) /\ DOMAIN mapping = 1..n
    BY <2>3, <2>5
  <2> HIDE DEF mapping
  <2>7. /\ sn.pc = "link" /\ sn.at = snap.at /\ sn.jobs = Tail(snap.jobs)
        /\ sn.ino = Head(snap.jobs)[2] /\ sn.mapping = mapping /\ sn.todo = snap.todo
        /\ sn \in [pc : Steps, at : {sn.at}, ino : Nat, jobs : Seq(Sources \X Nat),
                   mapping : Seq(Copies), left : {sn.left}, todo : Seq(Copies), lossy : {sn.lossy}]
    <3>1. Head(snap.jobs)[2] \in Nat
      BY <1>1, <1>4, <1>5 DEF SnapFresh, Numbers
    <3>2. sn = [snap EXCEPT !.pc = "link", !.ino = Head(snap.jobs)[2], !.jobs = Tail(@),
                            !.mapping = mapping]
      BY <2>2 DEF mapping
    <3> HIDE DEF sn
    <3> QED BY <1>1, <1>4, <2>6, <3>1, <3>2 DEF SnapTyped, Steps
  <2> HIDE DEF sn
  <2>8. SnapTyped(sn)
    BY <1>3, <2>7 DEF SnapTyped
  <2>9. /\ JobDirs(sn) \subseteq JobDirs(snap) /\ TodoDirs(sn) = {} /\ OwnDir(sn) = {sn.ino}
        /\ sn.ino \in JobDirs(snap) /\ sn.ino \notin JobDirs(sn)
    <3>1. JobDirs(sn) = {Tail(snap.jobs)[i][2] : i \in DOMAIN Tail(snap.jobs)}
      BY <2>7 DEF JobDirs
    <3>2. TodoDirs(sn) = {}
      BY <1>3, <2>7, EmptySeqs DEF TodoDirs
    <3>3. OwnDir(sn) = {sn.ino}
      BY <2>7 DEF OwnDir
    <3> QED BY <1>4, <2>7, <3>1, <3>2, <3>3
  <2>10. \A x \in MapDirs(sn) : x \in Nat /\ store[meta] <= x /\ x < store'[meta]
    BY <2>5, <2>6, <2>7 DEF MapDirs
  <2>11. \A x \in JobDirs(snap) : x \in Nat /\ x < store[meta] /\ x >= Base /\ \A l \in links : l.dir # x
    BY <1>1, <1>5 DEF SnapFresh, Numbers
  <2>12. JobDirs(snap) \cap MapDirs(sn) = {}
    BY <2>4, <2>10, <2>11
  <2>13. SnapApart(sn)
    <3>1. \A i, j \in DOMAIN sn.mapping : sn.mapping[i].src.name = sn.mapping[j].src.name => i = j
      BY <2>3, <2>5, <2>6, <2>7
    <3>2. \A i, j \in DOMAIN sn.mapping : sn.mapping[i].dst = sn.mapping[j].dst => i = j
      <4> SUFFICES ASSUME NEW i \in 1..n, NEW j \in 1..n, mapping[i].dst = mapping[j].dst PROVE i = j
        BY <2>6, <2>7
      <4>1. first + i - 1 = first + j - 1
        BY <2>5
      <4> QED BY <2>3, <2>4, <4>1
    <3>3. \A i, j \in DOMAIN sn.todo : sn.todo[i].dst = sn.todo[j].dst => i = j
      BY <1>3, <2>7, EmptySeqs
    <3>4. \A i, j \in DOMAIN sn.jobs : sn.jobs[i][2] = sn.jobs[j][2] => i = j
      BY <1>4, <2>7
    <3>5. /\ JobDirs(sn) \cap (MapDirs(sn) \cup TodoDirs(sn)) = {}
          /\ sn.ino \notin JobDirs(sn) \cup MapDirs(sn)
      BY <2>9, <2>12
    <3> QED BY <3>1, <3>2, <3>3, <3>4, <3>5 DEF SnapApart
  <2>14. SnapFresh(store', links, sn)
    <3>1. \A x \in Waiting(sn) : x \in JobDirs(snap) \/ x \in MapDirs(sn)
      BY <2>9 DEF Waiting
    <3>2. \A x \in MapDirs(sn) : \A l \in links : l.dir # x /\ l.ino # x
      BY <1>1, <2>10, NewNumber
    <3>3. ASSUME NEW x \in Waiting(sn)
          PROVE  x \in Numbers(store') /\ x >= Base /\ \A l \in links : l.dir # x
      <4>1. CASE x \in JobDirs(snap)
        BY <2>4, <2>11, <4>1 DEF Numbers
      <4>2. CASE x \in MapDirs(sn)
        BY <2>4, <2>10, <3>2, <4>2 DEF Numbers
      <4> QED BY <3>1, <4>1, <4>2
    <3>4. Unlinked(sn) = MapDirs(sn)
      BY <2>7 DEF Unlinked
    <3> QED BY <3>2, <3>3, <3>4 DEF SnapFresh
  <2>15. SnapTakes
    <3>1. \A x \in Waiting(sn) : x \in JobDirs(snap) \/ x \in MapDirs(sn)
      BY <2>9 DEF Waiting
    <3>2. \A x \in Waiting(sn) : x \in Waiting(snap) \/ store[meta] <= x
      BY <1>5, <2>10, <3>1
    <3> QED BY <1>2, <2>4, <3>2 DEF SnapTakes, sn
  <2> QED BY <1>1, <1>2, <2>4, <2>8, <2>13, <2>14, <2>15 DEF StoreInv, sn
<1> QED BY <1>6, <1>7

LEMMA SnapLinkInv ==
    ASSUME StoreInv, SnapLink
    PROVE  StoreInv' /\ SnapTakes
<1> DEFINE sn == snap'
           n == Len(snap.mapping)
           part(i) == LinkPairs(snap.ino, snap.mapping[i].src.name,
                                Item(snap.mapping[i].dst, snap.mapping[i].src.typ))
           made(i) == Link(snap.ino, snap.mapping[i].src.name, snap.mapping[i].dst)
           S == [i \in 1..n |-> part(i)]
           q == Merge(S)
           N == {made(i) : i \in 1..n}
<1>1. StoreOK(store) /\ LinksOK(store, links) /\ LinksApart(links) /\ CounterOK(store)
      /\ SnapTyped(snap) /\ SnapApart(snap) /\ SnapFresh(store, links, snap)
  BY DEF StoreInv, StoreOK
<1>2. /\ snap.pc = "link" /\ store' = Put(store, q)
      /\ sn = [snap EXCEPT !.pc = "attrs", !.left = {m.src.ino : m \in ToSet(snap.mapping)}]
  BY DEF SnapLink, InSnap, Writes
<1>3. /\ snap.mapping \in Seq(Copies) /\ n \in Nat /\ DOMAIN snap.mapping = 1..n
      /\ snap.todo = <<>> /\ StoreOK(snap.at) /\ snap.ino \in Nat
  BY <1>1, <1>2 DEF SnapTyped, Over
<1>4. links' = links \cup N
  <2>1. links' = links \cup {Link(snap.ino, m.src.name, m.dst) : m \in ToSet(snap.mapping)}
    BY DEF SnapLink
  <2>2. {Link(snap.ino, m.src.name, m.dst) : m \in ToSet(snap.mapping)} = N
    BY <1>3 DEF ToSet
  <2> QED BY <2>1, <2>2
<1>5. /\ \A i \in 1..n : /\ snap.mapping[i].src.name \in Keys /\ snap.mapping[i].src.typ \in Types
                         /\ snap.mapping[i].dst \in Nat
  <2>1. \A i \in 1..n : snap.mapping[i] \in Copies
    BY <1>3
  <2> QED BY <2>1 DEF Copies
<1> HIDE DEF n
<1>6. /\ \A i \in 1..n : snap.mapping[i].dst \in MapDirs(snap)
      /\ snap.ino \in Waiting(snap) /\ MapDirs(snap) \subseteq Waiting(snap)
      /\ Unlinked(snap) = MapDirs(snap) /\ snap.ino \notin JobDirs(snap) \cup MapDirs(snap)
  BY <1>1, <1>2, <1>3 DEF MapDirs, Waiting, OwnDir, Unlinked, SnapApart
<1>7. /\ snap.ino \in Numbers(store) /\ snap.ino >= Base /\ \A l \in links : l.dir # snap.ino
      /\ \A i \in 1..n : /\ snap.mapping[i].dst \in Numbers(store) /\ snap.mapping[i].dst >= Base
                         /\ \A l \in links : l.ino # snap.mapping[i].dst
  BY <1>1, <1>6 DEF SnapFresh
<1>8. ASSUME NEW i \in 1..n
      PROVE  /\ made(i).dir = snap.ino /\ made(i).name = snap.mapping[i].src.name
             /\ made(i).ino = snap.mapping[i].dst
             /\ Entry(made(i)) = directory_child(snap.ino, snap.mapping[i].src.name)
             /\ IsLink(store, made(i)) /\ Entry(made(i)) \notin DOMAIN store
             /\ NewLinks(store, {made(i)}, part(i))
  <2>1. /\ made(i).dir = snap.ino /\ made(i).name = snap.mapping[i].src.name
        /\ made(i).ino = snap.mapping[i].dst
    BY DEF Link
  <2>2. Entry(made(i)) = directory_child(snap.ino, snap.mapping[i].src.name)
    BY DEF Link, Entry
  <2>3. IsLink(store, made(i))
    BY <1>5, <1>7 DEF Link, IsLink
  <2>4. directory_child(snap.ino, snap.mapping[i].src.name) \notin DOMAIN store
    <3>1. SUFFICES ASSUME directory_child(snap.ino, snap.mapping[i].src.name) \in DOMAIN store
                   PROVE  FALSE
      OBVIOUS
    <3>2. snap.ino \in Word
      BY <1>1, <1>7, NumbersAreWords
    <3>3. OfKind(directory_child(snap.ino, snap.mapping[i].src.name), "DirectoryChild")
      BY <1>5, <3>2, ChildKey
    <3>4. PICK l \in links : directory_child(snap.ino, snap.mapping[i].src.name) = Entry(l)
      BY <1>1, <3>1, <3>3 DEF LinksOK
    <3>5. l.dir \in Word /\ l.name \in Keys
      BY <1>1, LinkKeys DEF LinksOK
    <3>6. l.dir = snap.ino
      BY <1>5, <3>2, <3>4, <3>5, ChildKeyInjective DEF Entry
    <3> QED BY <1>7, <3>6
  <2>5. Describes(snap.mapping[i].dst, Item(snap.mapping[i].dst, snap.mapping[i].src.typ))
    BY <1>5 DEF Describes, Item
  <2>6. NewLinks(store, {made(i)}, part(i))
    BY <1>1, <1>5, <1>7, <2>4, <2>5, LinkPairsNew
  <2> QED BY <2>1, <2>2, <2>3, <2>4, <2>6
<1> HIDE DEF part, made
<1>9. ASSUME NEW i \in 1..n, NEW j \in 1..n, Entry(made(i)) = Entry(made(j)) PROVE i = j
  <2>1. IsLink(store, made(i)) /\ IsLink(store, made(j)) /\ CounterOK(store)
    BY <1>1, <1>8
  <2>2. made(i).name = made(j).name
    BY <1>9, <2>1, EntryOfOne
  <2>3. made(i).name = snap.mapping[i].src.name /\ made(j).name = snap.mapping[j].src.name
    BY <1>8
  <2>4. snap.mapping[i].src.name = snap.mapping[j].src.name
    BY <2>2, <2>3
  <2>5. DOMAIN snap.mapping = 1..n /\ SnapApart(snap)
    BY <1>1, <1>3
  <2> QED BY <2>4, <2>5 DEF SnapApart
<1>10. ASSUME NEW i \in 1..n, NEW j \in 1..n, made(i).ino = made(j).ino PROVE i = j
  <2>1. made(i).ino = snap.mapping[i].dst /\ made(j).ino = snap.mapping[j].dst
    BY <1>8
  <2>2. snap.mapping[i].dst = snap.mapping[j].dst
    BY <1>10, <2>1
  <2>3. DOMAIN snap.mapping = 1..n /\ SnapApart(snap)
    BY <1>1, <1>3
  <2> QED BY <2>2, <2>3 DEF SnapApart
<1>11. ASSUME NEW i \in 1..n
       PROVE  /\ IsFiniteSet(DOMAIN part(i)) /\ Entry(made(i)) \in DOMAIN part(i)
              /\ Describes(made(i).ino, part(i)[Entry(made(i))]) /\ Parent(made(i)) \in DOMAIN part(i)
              /\ \A k \in DOMAIN part(i) : k = Entry(made(i)) \/ k = Parent(made(i))
  BY <1>8 DEF NewLinks
<1>12. /\ DOMAIN q = UNION {DOMAIN S[i] : i \in 1..n}
       /\ \A k \in DOMAIN q : \E i \in 1..n : k \in DOMAIN S[i] /\ q[k] = S[i][k]
  <2>1. DOMAIN S = 1..n
    OBVIOUS
  <2>2. n \in Nat
    BY <1>3
  <2> HIDE DEF S
  <2>3. /\ DOMAIN q = UNION {DOMAIN S[i] : i \in 1..n}
        /\ \A k \in DOMAIN q : \E i \in 1..n :
            /\ k \in DOMAIN S[i] /\ q[k] = S[i][k]
            /\ \A j \in 1..n : k \in DOMAIN S[j] => j <= i
    BY <2>1, <2>2, MergeIs
  <2> HIDE DEF q
  <2> QED BY <2>3
<1>13. \A i \in 1..n : S[i] = part(i)
  OBVIOUS
<1> HIDE DEF S, q
<1>14. NewLinks(store, N, q)
  <2>1. IsFiniteSet(DOMAIN q)
    <3> DEFINE D == [i \in 1..n |-> DOMAIN S[i]]
    <3>1. \A i \in 1..n : IsFiniteSet(D[i])
      BY <1>11, <1>13
    <3>2. DOMAIN q = UNION {D[i] : i \in 1..n}
      BY <1>12
    <3>3. n \in Nat
      BY <1>3
    <3> HIDE DEF D
    <3> QED BY <3>1, <3>2, <3>3, FiniteUnion
  <2>2. ASSUME NEW i \in 1..n
        PROVE  /\ Entry(made(i)) \in DOMAIN q /\ Parent(made(i)) \in DOMAIN q
               /\ Describes(made(i).ino, q[Entry(made(i))])
    <3>1. Entry(made(i)) \in DOMAIN q /\ Parent(made(i)) \in DOMAIN q
      BY <1>11, <1>12, <1>13
    <3>2. PICK j \in 1..n : Entry(made(i)) \in DOMAIN part(j)
                            /\ q[Entry(made(i))] = part(j)[Entry(made(i))]
      BY <1>12, <1>13, <3>1
    <3>3. Entry(made(i)) # Parent(made(j))
      <4>1. OfKind(Entry(made(i)), "DirectoryChild") /\ OfKind(Parent(made(j)), "ParentLink")
        BY <1>1, <1>8, LinkKeys
      <4> QED BY <4>1, DifferentKinds
    <3>4. j = i
      BY <1>9, <1>11, <3>2, <3>3
    <3> QED BY <1>11, <3>1, <3>2, <3>4
  <2>3. ASSUME NEW k \in DOMAIN q PROVE \E l \in N : k = Entry(l) \/ k = Parent(l)
    BY <1>11, <1>12, <1>13
  <2>4. \A l \in N : /\ IsLink(store, l) /\ Entry(l) \notin DOMAIN store
                     /\ Entry(l) \in DOMAIN q /\ Describes(l.ino, q[Entry(l)])
                     /\ Parent(l) \in DOMAIN q
    BY <1>8, <2>2
  <2> HIDE DEF N
  <2> QED BY <2>1, <2>3, <2>4 DEF NewLinks
<1>15. StoreOK(store') /\ LinksOK(store', links') /\ store'[meta] = store[meta]
  <2> HIDE DEF N
  <2> QED BY <1>1, <1>2, <1>4, <1>14, LinksPut
<1>16. LinksApart(links')
  <2>1. \A l \in N : l.ino >= Base /\ \A k \in links : k.ino # l.ino
    <3>1. \A i \in 1..n : made(i).ino = snap.mapping[i].dst
      BY <1>8
    <3>2. \A i \in 1..n : made(i).ino >= Base /\ \A k \in links : k.ino # made(i).ino
      BY <1>7, <3>1
    <3> QED BY <3>2
  <2>2. \A k, l \in N : k.ino = l.ino => k = l
    BY <1>10
  <2> HIDE DEF N
  <2> QED BY <1>1, <1>4, <2>1, <2>2, ApartKept
<1>17. \A l \in N : l.dir = snap.ino /\ l.ino \in MapDirs(snap)
  BY <1>6, <1>8
<1>18. /\ sn.pc = "attrs" /\ sn.at = snap.at /\ sn.jobs = snap.jobs
       /\ sn.mapping = snap.mapping /\ sn.todo = snap.todo
       /\ sn \in [pc : Steps, at : {sn.at}, ino : Nat, jobs : Seq(Sources \X Nat),
                  mapping : Seq(Copies), left : {sn.left}, todo : Seq(Copies), lossy : {sn.lossy}]
  BY <1>1, <1>2 DEF SnapTyped, Steps
<1> HIDE DEF sn, N
<1>19. SnapTyped(sn)
  BY <1>3, <1>18 DEF SnapTyped
<1>20. /\ JobDirs(sn) = JobDirs(snap) /\ MapDirs(sn) = MapDirs(snap)
       /\ TodoDirs(sn) = {} /\ TodoDirs(snap) = {} /\ OwnDir(sn) = {} /\ Unlinked(sn) = {}
  <2>1. JobDirs(sn) = JobDirs(snap) /\ MapDirs(sn) = MapDirs(snap)
    BY <1>18 DEF JobDirs, MapDirs
  <2>2. TodoDirs(sn) = {} /\ TodoDirs(snap) = {}
    BY <1>3, <1>18, EmptySeqs DEF TodoDirs
  <2>3. OwnDir(sn) = {} /\ Unlinked(sn) = {}
    BY <1>18 DEF OwnDir, Unlinked
  <2> QED BY <2>1, <2>2, <2>3
<1>21. SnapApart(sn)
  BY <1>1, <1>18, <1>20, Zenon DEF SnapApart
<1>22. SnapFresh(store', links', sn)
  <2>1. Waiting(sn) \subseteq Waiting(snap) /\ snap.ino \notin Waiting(sn)
    BY <1>6, <1>20 DEF Waiting
  <2>2. \A x \in Waiting(sn) : \A l \in links' : l.dir # x
    BY <1>1, <1>4, <1>17, <2>1 DEF SnapFresh
  <2>3. \A x \in Waiting(sn) : x \in Numbers(store') /\ x >= Base
    BY <1>1, <1>15, <2>1 DEF SnapFresh, Numbers
  <2> QED BY <1>20, <2>2, <2>3 DEF SnapFresh
<1>23. SnapTakes
  <2>1. Waiting(sn) \subseteq Waiting(snap)
    BY <1>20 DEF Waiting
  <2>2. snap.ino \notin TreeDirs
    BY <1>3, <1>7, LiveNumbers, BaseNat
  <2> QED BY <1>1, <1>4, <1>6, <1>15, <1>17, <2>1, <2>2, SameCounter DEF SnapTakes, sn
<1> QED BY <1>15, <1>16, <1>19, <1>21, <1>22, <1>23 DEF StoreInv, sn

LEMMA MergeData ==
    ASSUME NEW n \in Nat, NEW S, DOMAIN S = 1..n, \A i \in 1..n : DataPairs(S[i])
    PROVE  DataPairs(Merge(S))
<1> DEFINE q == Merge(S)
<1>1. /\ DOMAIN q = UNION {DOMAIN S[i] : i \in 1..n}
      /\ \A k \in DOMAIN q : \E i \in 1..n :
            /\ k \in DOMAIN S[i] /\ q[k] = S[i][k]
            /\ \A j \in 1..n : k \in DOMAIN S[j] => j <= i
  BY MergeIs
<1> HIDE DEF q
<1>2. \A k \in DOMAIN q : \E i \in 1..n : k \in DOMAIN S[i] /\ q[k] = S[i][k]
  BY <1>1
<1>3. IsFiniteSet(DOMAIN q)
  <2> DEFINE D == [i \in 1..n |-> DOMAIN S[i]]
  <2>1. \A i \in 1..n : IsFiniteSet(D[i])
    BY DEF DataPairs
  <2>2. DOMAIN q = UNION {D[i] : i \in 1..n}
    BY <1>1
  <2> HIDE DEF D
  <2> QED BY <2>1, <2>2, FiniteUnion
<1>4. ASSUME NEW k \in DOMAIN q
      PROVE  OfKind(k, "InoMetadata") \/ \E ino \in Word, index \in Word : k = block_hash(ino, index)
  BY <1>2 DEF DataPairs
<1>5. DescribedSelf(q)
  <2> SUFFICES ASSUME NEW ino \in Word
               PROVE  /\ inode_x(ino, "Description") \in DOMAIN q =>
                            Describes(ino, q[inode_x(ino, "Description")])
                      /\ inode_x(ino, "Size") \in DOMAIN q => q[inode_x(ino, "Size")] \in Nat
    BY DEF DescribedSelf
  <2>1. ASSUME inode_x(ino, "Description") \in DOMAIN q
        PROVE  Describes(ino, q[inode_x(ino, "Description")])
    <3>1. PICK i \in 1..n : /\ inode_x(ino, "Description") \in DOMAIN S[i]
                            /\ q[inode_x(ino, "Description")] = S[i][inode_x(ino, "Description")]
      BY <1>2, <2>1
    <3>2. DescribedSelf(S[i])
      BY DEF DataPairs
    <3> QED BY <3>1, <3>2 DEF DescribedSelf
  <2>2. ASSUME inode_x(ino, "Size") \in DOMAIN q PROVE q[inode_x(ino, "Size")] \in Nat
    <3>1. PICK i \in 1..n : /\ inode_x(ino, "Size") \in DOMAIN S[i]
                            /\ q[inode_x(ino, "Size")] = S[i][inode_x(ino, "Size")]
      BY <1>2, <2>2
    <3>2. DescribedSelf(S[i])
      BY DEF DataPairs
    <3> QED BY <3>1, <3>2 DEF DescribedSelf
  <2> QED BY <2>1, <2>2
<1> QED BY <1>3, <1>4, <1>5 DEF DataPairs, q

LEMMA NoPairsData == DataPairs(NoPairs)
<1>1. DOMAIN NoPairs = {}
  BY DEF NoPairs
<1>2. IsFiniteSet(DOMAIN NoPairs)
  BY <1>1, FS_EmptySet
<1> QED BY <1>1, <1>2 DEF DataPairs, DescribedSelf

LEMMA FiniteMetas ==
    ASSUME NEW S \in SUBSET InoMetas, NEW ino
    PROVE  IsFiniteSet({inode_x(ino, m) : m \in S})
<1>1. IsFiniteSet(InoMetas)
  <2>0. 1 \in Int /\ 11 \in Int
    OBVIOUS
  <2>1. IsFiniteSet(1..11)
    BY <2>0, FS_Interval
  <2>2. DOMAIN InoMetadata = 1..11
    BY DEF InoMetadata
  <2>3. InoMetas = {InoMetadata[i] : i \in 1..11}
    BY <2>2, MetaIds DEF ToSet
  <2> QED BY <2>1, <2>3, FiniteImage
<1>2. IsFiniteSet(S)
  BY <1>1, FS_Subset
<1> DEFINE f == [m \in S |-> inode_x(ino, m)]
<1>3. {inode_x(ino, m) : m \in S} = {f[m] : m \in S}
  OBVIOUS
<1> HIDE DEF f
<1> QED BY <1>2, <1>3, FiniteImage

\* The copies of an inode's attributes describe the new inode.
LEMMA ClonePairsData ==
    ASSUME StoreOK(snap.at), NEW i, NEW left,
           snap.mapping[i].src.ino \in Word, snap.mapping[i].dst \in Word
    PROVE  /\ DataPairs(ClonePairs(i, left))
           /\ \A k \in DOMAIN ClonePairs(i, left) : \E m \in InoMetas : k = inode_x(snap.mapping[i].dst, m)
<1> DEFINE src == snap.mapping[i].src.ino
           dst == snap.mapping[i].dst
           first == \A j \in 1..(i - 1) : snap.mapping[j].src.ino # src
           metas == {m \in {"Size"} \cup (IF src \in left /\ first THEN Moved ELSE {}) :
                        inode_x(src, m) \in DOMAIN snap.at}
           metaOf == [k \in {inode_x(dst, m) : m \in metas} |-> parse_ino(k).meta]
           q == ClonePairs(i, left)
<1>1. q = [k \in DOMAIN metaOf |-> Cloned(metaOf[k], snap.at[inode_x(src, metaOf[k])], dst)]
  BY DEF ClonePairs, src_txn
<1>2. metas \in SUBSET InoMetas /\ \A m \in metas : inode_x(src, m) \in DOMAIN snap.at
  BY DEF Moved, InoMetas
<1>3. src \in Word /\ dst \in Word
  OBVIOUS
<1>4. DOMAIN metaOf = {inode_x(dst, m) : m \in metas}
  OBVIOUS
<1>5. \A m \in metas : metaOf[inode_x(dst, m)] = m
  BY <1>2, <1>3, InodeParsed
<1> HIDE DEF q, src, dst, first, metas, metaOf
<1>6. /\ DOMAIN q = {inode_x(dst, m) : m \in metas}
      /\ \A m \in metas : q[inode_x(dst, m)] = Cloned(m, snap.at[inode_x(src, m)], dst)
  BY <1>1, <1>4, <1>5
<1>7. IsFiniteSet(DOMAIN q)
  BY <1>2, <1>6, FiniteMetas
<1>8. \A k \in DOMAIN q : OfKind(k, "InoMetadata")
  BY <1>2, <1>3, <1>6, InodeKey
<1>9. DescribedSelf(q)
  <2> SUFFICES ASSUME NEW ino \in Word
               PROVE  /\ inode_x(ino, "Description") \in DOMAIN q =>
                            Describes(ino, q[inode_x(ino, "Description")])
                      /\ inode_x(ino, "Size") \in DOMAIN q => q[inode_x(ino, "Size")] \in Nat
    BY DEF DescribedSelf
  <2>1. {"Description", "Size"} \subseteq InoMetas
    BY DEF InoMetas
  <2>2. ASSUME NEW x \in {"Description", "Size"}, inode_x(ino, x) \in DOMAIN q
        PROVE  ino = dst /\ x \in metas
    <3>1. PICK m \in metas : inode_x(ino, x) = inode_x(dst, m)
      BY <1>6, <2>2
    <3> QED BY <1>2, <1>3, <2>1, <3>1, InodeKeyInjective
  <2>3. DescribedSelf(snap.at)
    BY DEF StoreOK
  <2>4. ASSUME inode_x(ino, "Description") \in DOMAIN q
        PROVE  Describes(ino, q[inode_x(ino, "Description")])
    <3> DEFINE v == snap.at[inode_x(src, "Description")]
    <3>1. ino = dst /\ "Description" \in metas
      BY <2>2, <2>4
    <3>2. Describes(src, v)
      BY <1>2, <1>3, <2>3, <3>1 DEF DescribedSelf
    <3> HIDE DEF v
    <3>3. Describes(dst, [v EXCEPT !.ino = dst])
      BY <3>2 DEF Describes
    <3>4. q[inode_x(dst, "Description")] = Cloned("Description", v, dst)
      BY <1>6, <3>1 DEF v
    <3> QED BY <3>1, <3>3, <3>4 DEF Cloned
  <2>5. ASSUME inode_x(ino, "Size") \in DOMAIN q PROVE q[inode_x(ino, "Size")] \in Nat
    <3>1. ino = dst /\ "Size" \in metas
      BY <2>2, <2>5
    <3>2. snap.at[inode_x(src, "Size")] \in Nat
      BY <1>2, <1>3, <2>3, <3>1 DEF DescribedSelf
    <3>3. q[inode_x(dst, "Size")] = snap.at[inode_x(src, "Size")]
      BY <1>6, <3>1 DEF Cloned
    <3> QED BY <3>1, <3>2, <3>3
  <2> QED BY <2>4, <2>5
<1>10. \A k \in DOMAIN q : \E m \in InoMetas : k = inode_x(dst, m)
  BY <1>2, <1>6
<1> QED BY <1>7, <1>8, <1>9, <1>10 DEF DataPairs, q, dst

\* The copies of a file's blocks.
LEMMA ClonedBlocksData ==
    ASSUME StoreOK(snap.at), NEW src \in Word, NEW dst \in Word
    PROVE  /\ DataPairs(ClonedBlocks(src, dst))
           /\ \A k \in DOMAIN ClonedBlocks(src, dst) : OfKind(k, "InoBlockHashMapping")
<1> DEFINE s == snap.at
           size == s[inode_x(src, "Size")]
           e == CloneRangeEnd(size)
           range == block_hash_range(src, 0, e)
           keys == Scan(DOMAIN s, range, e - 0)
           mine == {k \in ToSet(keys) : parse_key_block_address(k).ino = src}
           hashes == BlockHashes(s, src, 0, e)
           q == ClonedBlocks(src, dst)
<1>1. CASE inode_x(src, "Size") \notin DOMAIN s
  <2>1. ClonedBlocks(src, dst) = NoPairs
    BY <1>1 DEF ClonedBlocks, src_txn
  <2>2. DOMAIN NoPairs = {}
    BY DEF NoPairs
  <2> QED BY <2>1, <2>2, NoPairsData
<1>2. CASE inode_x(src, "Size") \in DOMAIN s
  <2>1. q = [k \in {block_hash(dst, i) : i \in DOMAIN hashes} |->
                hashes[parse_key_block_address(k).index]]
    BY <1>2 DEF ClonedBlocks, src_txn
  <2>2. DOMAIN hashes = {parse_key_block_address(k).index : k \in mine}
    BY DEF BlockHashes
  <2>3. size \in Nat
    BY <1>2 DEF StoreOK, DescribedSelf
  <2>4. e \in Nat /\ e - 0 \in Nat
    BY <2>3 DEF CloneRangeEnd
  <2>5. 0 \in Word
    BY ValuesAre, BaseNat, DirectoryStoreAssumption DEF Word
  <2>6. OfKind(block_hash(src, 0), "InoBlockHashMapping") /\ OfKind(block_hash(src, e), "InoBlockHashMapping")
    <3>1. OfKind(block_hash(src, 0), "InoBlockHashMapping")
      BY <2>5, BlockKey
    <3>2. write_big_endian(e) \in Keys /\ write_big_endian(src) \in Keys
      BY <2>4, BytesAre, WordBytes DEF Keys, Bytes
    <3>3. OfKind(BlockKind, "InoBlockHashMapping")
      BY KindPrefix, DifferentKinds DEF BlockKind
    <3>4. OfKind(BlockKind \o write_big_endian(src), "InoBlockHashMapping")
      BY <3>2, <3>3, KindConcat
    <3>5. OfKind(BlockKind \o write_big_endian(src) \o write_big_endian(e), "InoBlockHashMapping")
      BY <3>2, <3>4, KindConcat
    <3> QED BY <3>1, <3>5 DEF block_hash, BlockKind
  <2> HIDE DEF e, hashes, q, s
  <2>7. ToSet(keys) \subseteq Found(DOMAIN s, range)
    <3>1. DOMAIN s \in SUBSET Keys /\ IsFiniteSet(DOMAIN s)
      BY StoreKeysAreKeys DEF s
    <3> HIDE DEF range
    <3>2. keys \in [1..ScanLen(DOMAIN s, range, e - 0) -> Found(DOMAIN s, range)]
      BY <2>4, <3>1, ScanIs
    <3> HIDE DEF keys
    <3> QED BY <3>2 DEF ToSet
  <2>8. ASSUME NEW k \in ToSet(keys)
        PROVE  k \in DOMAIN s /\ parse_key_block_address(k).index \in Word
    <3>1. k \in DOMAIN s /\ InRange(k, range)
      BY <2>7 DEF Found
    <3>2. PICK kind \in KindsUsed : OfKind(k, kind)
      BY <3>1 DEF StoreOK, KeysKnown, s
    <3>3. kind = "InoBlockHashMapping"
      <4>1. "InoBlockHashMapping" \in KindsUsed
        BY DifferentKinds
      <4>2. range = KeyRange(block_hash(src, 0), block_hash(src, e))
        BY DEF block_hash_range
      <4> HIDE DEF range
      <4> QED BY <2>6, <3>1, <3>2, <4>1, <4>2, OtherKind
    <3>4. PICK ino \in Word, index \in Word : k = block_hash(ino, index)
      BY <3>1, <3>2, <3>3 DEF StoreOK, BlocksTyped, s
    <3>5. parse_key_block_address(k).index = index
      BY <3>4, BlockParsed
    <3> QED BY <3>1, <3>5
  <2>9. DOMAIN hashes \subseteq Word /\ mine \in SUBSET DOMAIN s
    BY <2>2, <2>8
  <2> HIDE DEF mine
  <2>10. IsFiniteSet(mine)
    <3>1. IsFiniteSet(DOMAIN s)
      BY StoreKeysAreKeys DEF s
    <3> QED BY <2>9, <3>1, FS_Subset
  <2>11. DOMAIN q = {block_hash(dst, i) : i \in DOMAIN hashes}
    BY <2>1
  <2>12. IsFiniteSet(DOMAIN q)
    <3> DEFINE f == [k \in mine |-> block_hash(dst, parse_key_block_address(k).index)]
    <3>1. DOMAIN q = {f[k] : k \in mine}
      BY <2>2, <2>11
    <3> HIDE DEF f
    <3> QED BY <2>10, <3>1, FiniteImage
  <2>13. \A k \in DOMAIN q : \E ino \in Word, index \in Word : k = block_hash(ino, index)
    BY <2>9, <2>11
  <2>14. DescribedSelf(q)
    <3>1. \A k \in DOMAIN q : OfKind(k, "InoBlockHashMapping")
      BY <2>13, BlockKey
    <3>2. \A ino \in Word : \A m \in {"Description", "Size"} : inode_x(ino, m) \notin DOMAIN q
      <4>1. \A ino \in Word : \A m \in {"Description", "Size"} : OfKind(inode_x(ino, m), "InoMetadata")
        BY InodeKey DEF InoMetas
      <4> QED BY <3>1, <4>1, DifferentKinds
    <3> QED BY <3>2 DEF DescribedSelf
  <2>15. DataPairs(q) /\ \A k \in DOMAIN q : OfKind(k, "InoBlockHashMapping")
    BY <2>12, <2>13, <2>14, BlockKey DEF DataPairs
  <2> QED BY <2>15 DEF q
<1> QED BY <1>1, <1>2

\* Fewer directories wait, none of them new, and the counter stays.
LEMMA FreshFewer ==
    ASSUME NEW s, NEW t, NEW L, NEW sn, NEW so, StoreOK(s), StoreOK(t), t[meta] = s[meta],
           SnapFresh(s, L, so), Waiting(sn) \subseteq Waiting(so), Unlinked(sn) = {}
    PROVE  SnapFresh(t, L, sn)
BY DEF SnapFresh, Numbers

LEMMA SnapAttrsInv ==
    ASSUME StoreInv, SnapAttrs
    PROVE  StoreInv' /\ SnapTakes
<1> DEFINE sn == snap'
           n == Len(snap.mapping)
           S == [i \in 1..n |-> ClonePairs(i, snap.left)]
           q == Merge(S)
<1>1. StoreOK(store) /\ LinksOK(store, links) /\ LinksApart(links) /\ CounterOK(store)
      /\ SnapTyped(snap) /\ SnapApart(snap) /\ SnapFresh(store, links, snap)
  BY DEF StoreInv, StoreOK
<1>2. /\ snap.pc = "attrs" /\ store' = Put(store, q) /\ links' = links
      /\ sn = [snap EXCEPT !.pc = "data", !.todo = snap.mapping, !.mapping = <<>>, !.left = {}]
  BY DEF SnapAttrs, InSnap, Writes
<1>3. /\ snap.mapping \in Seq(Copies) /\ n \in Nat /\ DOMAIN snap.mapping = 1..n
      /\ snap.todo = <<>> /\ StoreOK(snap.at) /\ snap.ino \in Nat
  BY <1>1, <1>2 DEF SnapTyped, Over
<1> HIDE DEF n
<1>4. ASSUME NEW i \in 1..n
      PROVE  snap.mapping[i].src.ino \in Word /\ snap.mapping[i].dst \in Word
  <2>1. snap.mapping[i] \in Copies
    BY <1>3
  <2>2. snap.mapping[i].dst \in Waiting(snap)
    BY <1>3 DEF Waiting, MapDirs
  <2>3. snap.mapping[i].dst \in Numbers(store)
    BY <1>1, <2>2 DEF SnapFresh
  <2>4. snap.mapping[i].dst \in Word
    BY <1>1, <2>3, NumbersAreWords
  <2> QED BY <2>1, <2>4 DEF Copies, Sources
<1>5. DataPairs(q)
  <2>1. ASSUME NEW i \in 1..n PROVE DataPairs(S[i])
    <3>1. DataPairs(ClonePairs(i, snap.left))
      BY <1>3, <1>4, ClonePairsData
    <3> QED BY <3>1
  <2>2. DOMAIN S = 1..n /\ n \in Nat
    BY <1>3
  <2> HIDE DEF S
  <2> QED BY <2>1, <2>2, MergeData
<1> HIDE DEF q
<1>6. StoreOK(store') /\ LinksOK(store', links) /\ store'[meta] = store[meta]
  BY <1>1, <1>2, <1>5, DataPut
<1>7. /\ sn.pc = "data" /\ sn.at = snap.at /\ sn.jobs = snap.jobs
      /\ sn.mapping = <<>> /\ sn.todo = snap.mapping
      /\ sn \in [pc : Steps, at : {sn.at}, ino : Nat, jobs : Seq(Sources \X Nat),
                 mapping : Seq(Copies), left : {sn.left}, todo : Seq(Copies), lossy : {sn.lossy}]
  BY <1>1, <1>2, EmptySeqs DEF SnapTyped, Steps
<1> HIDE DEF sn
<1>8. SnapTyped(sn)
  BY <1>3, <1>7 DEF SnapTyped
<1>9. /\ JobDirs(sn) = JobDirs(snap) /\ TodoDirs(sn) = MapDirs(snap)
      /\ MapDirs(sn) = {} /\ OwnDir(sn) = {} /\ Unlinked(sn) = {}
  <2>1. JobDirs(sn) = JobDirs(snap) /\ TodoDirs(sn) = MapDirs(snap)
    BY <1>7 DEF JobDirs, MapDirs, TodoDirs
  <2>2. MapDirs(sn) = {}
    BY <1>7, EmptySeqs DEF MapDirs
  <2>3. OwnDir(sn) = {} /\ Unlinked(sn) = {}
    BY <1>7 DEF OwnDir, Unlinked
  <2> QED BY <2>1, <2>2, <2>3
<1>10. SnapApart(sn)
  <2>1. /\ \A i, j \in DOMAIN snap.mapping : snap.mapping[i].dst = snap.mapping[j].dst => i = j
        /\ \A i, j \in DOMAIN snap.jobs : snap.jobs[i][2] = snap.jobs[j][2] => i = j
        /\ JobDirs(snap) \cap MapDirs(snap) = {}
    BY <1>1 DEF SnapApart
  <2>2. JobDirs(sn) \cap (MapDirs(sn) \cup TodoDirs(sn)) = {} /\ sn.pc # "link"
    BY <1>7, <1>9, <2>1
  <2>3. DOMAIN sn.mapping = {}
    BY <1>7, EmptySeqs
  <2>4. /\ \A i, j \in DOMAIN sn.todo : sn.todo[i].dst = sn.todo[j].dst => i = j
        /\ \A i, j \in DOMAIN sn.jobs : sn.jobs[i][2] = sn.jobs[j][2] => i = j
    BY <1>7, <2>1
  <2> QED BY <2>2, <2>3, <2>4 DEF SnapApart
<1>11. Waiting(sn) \subseteq Waiting(snap)
  BY <1>9 DEF Waiting
<1>12. SnapFresh(store', links, sn)
  BY <1>1, <1>6, <1>9, <1>11, FreshFewer
<1>13. SnapTakes
  BY <1>1, <1>2, <1>6, <1>11, SameCounter DEF SnapTakes, sn
<1> QED BY <1>1, <1>2, <1>6, <1>8, <1>10, <1>12, <1>13 DEF StoreInv, sn

LEMMA SnapAttrsFailsInv ==
    ASSUME StoreInv, SnapAttrsFails
    PROVE  StoreInv' /\ SnapTakes
<1> DEFINE sn == snap'
<1>1. StoreOK(store) /\ LinksOK(store, links) /\ LinksApart(links)
      /\ SnapTyped(snap) /\ SnapApart(snap) /\ SnapFresh(store, links, snap)
  BY DEF StoreInv
<1>2. /\ snap.pc = "attrs" /\ store' = store /\ links' = links
      /\ sn = [snap EXCEPT !.left = {}, !.lossy = TRUE]
  BY DEF SnapAttrsFails, InSnap
<1>3. /\ sn.pc = snap.pc /\ sn.at = snap.at /\ sn.jobs = snap.jobs /\ sn.ino = snap.ino
      /\ sn.mapping = snap.mapping /\ sn.todo = snap.todo
      /\ sn \in [pc : Steps, at : {sn.at}, ino : Nat, jobs : Seq(Sources \X Nat),
                 mapping : Seq(Copies), left : {sn.left}, todo : Seq(Copies), lossy : {sn.lossy}]
  BY <1>1, <1>2 DEF SnapTyped
<1> HIDE DEF sn
<1>4. SnapTyped(sn)
  BY <1>1, <1>3 DEF SnapTyped
<1>5. /\ JobDirs(sn) = JobDirs(snap) /\ MapDirs(sn) = MapDirs(snap) /\ TodoDirs(sn) = TodoDirs(snap)
      /\ OwnDir(sn) = OwnDir(snap) /\ Unlinked(sn) = {}
  BY <1>2, <1>3 DEF JobDirs, MapDirs, TodoDirs, OwnDir, Unlinked
<1>6. SnapApart(sn)
  BY <1>1, <1>3, <1>5, Zenon DEF SnapApart
<1>7. Waiting(sn) \subseteq Waiting(snap)
  BY <1>5 DEF Waiting
<1>8. SnapFresh(store, links, sn)
  BY <1>1, <1>5, <1>7, FreshFewer
<1>9. SnapTakes
  BY <1>1, <1>2, <1>7, SameCounter DEF SnapTakes, sn
<1> QED BY <1>1, <1>2, <1>4, <1>6, <1>8, <1>9 DEF StoreInv, sn

LEMMA SnapDoneInv ==
    ASSUME StoreInv, SnapDone
    PROVE  StoreInv' /\ SnapTakes
<1>1. snap' = [NoSnap EXCEPT !.pc = "done"] /\ store' = store /\ links' = links
  BY DEF SnapDone
<1>2. "done" \in Over
  BY DEF Over
<1>3. SnapTyped(snap') /\ SnapApart(snap') /\ SnapFresh(store, links, snap')
  BY <1>1, <1>2, SnapOver
<1>4. Waiting(snap') = {} /\ StoreOK(store)
  BY <1>1, <1>2, SnapOver DEF StoreInv
<1>5. SnapTakes
  BY <1>1, <1>4, SameCounter DEF SnapTakes
<1> QED BY <1>1, <1>3, <1>5 DEF StoreInv

LEMMA SnapFailsInv ==
    ASSUME StoreInv, SnapFails
    PROVE  StoreInv' /\ SnapTakes
<1>1. snap' = [NoSnap EXCEPT !.pc = "failed"] /\ store' = store /\ links' = links
  BY DEF SnapFails
<1>2. "failed" \in Over
  BY DEF Over
<1>3. SnapTyped(snap') /\ SnapApart(snap') /\ SnapFresh(store, links, snap')
  BY <1>1, <1>2, SnapOver
<1>4. Waiting(snap') = {} /\ StoreOK(store)
  BY <1>1, <1>2, SnapOver DEF StoreInv
<1>5. SnapTakes
  BY <1>1, <1>4, SameCounter DEF SnapTakes
<1> QED BY <1>1, <1>3, <1>5 DEF StoreInv

LEMMA SnapDataInv ==
    ASSUME StoreInv, SnapData
    PROVE  StoreInv' /\ SnapTakes
<1> DEFINE sn == snap'
           m == Head(snap.todo)
           q == IF m.src.typ = "File" THEN ClonedBlocks(m.src.ino, m.dst) ELSE NoPairs
           next == IF m.src.typ = "Directory" THEN Append(snap.jobs, <<m.src.ino, m.dst>>)
                                              ELSE snap.jobs
<1>1. StoreOK(store) /\ LinksOK(store, links) /\ LinksApart(links) /\ CounterOK(store)
      /\ SnapTyped(snap) /\ SnapApart(snap) /\ SnapFresh(store, links, snap)
  BY DEF StoreInv, StoreOK
<1>2. snap.pc = "data" /\ links' = links
  BY DEF SnapData, InSnap
<1>3. /\ snap.todo \in Seq(Copies) /\ snap.mapping = <<>> /\ StoreOK(snap.at)
      /\ snap.jobs \in Seq(Sources \X Nat)
  BY <1>1, <1>2 DEF SnapTyped, Over
<1>4. MapDirs(snap) = {}
  BY <1>3, EmptySeqs DEF MapDirs
<1>5. /\ \A i, j \in DOMAIN snap.todo : snap.todo[i].dst = snap.todo[j].dst => i = j
      /\ \A i, j \in DOMAIN snap.jobs : snap.jobs[i][2] = snap.jobs[j][2] => i = j
      /\ JobDirs(snap) \cap TodoDirs(snap) = {}
  BY <1>1 DEF SnapApart
<1>6. CASE snap.todo = <<>>
  <2>1. sn = [snap EXCEPT !.pc = "scan"] /\ store' = store
    BY <1>6 DEF SnapData
  <2>2. /\ sn.pc = "scan" /\ sn.at = snap.at /\ sn.jobs = snap.jobs
        /\ sn.mapping = <<>> /\ sn.todo = <<>>
        /\ sn \in [pc : Steps, at : {sn.at}, ino : Nat, jobs : Seq(Sources \X Nat),
                   mapping : Seq(Copies), left : {sn.left}, todo : Seq(Copies), lossy : {sn.lossy}]
    BY <1>1, <1>3, <1>6, <2>1 DEF SnapTyped, Steps
  <2> HIDE DEF sn
  <2>3. SnapTyped(sn)
    BY <1>3, <2>2 DEF SnapTyped
  <2>4. /\ JobDirs(sn) = JobDirs(snap) /\ MapDirs(sn) = {} /\ TodoDirs(sn) = {} /\ OwnDir(sn) = {}
        /\ Unlinked(sn) = {}
    BY <2>2, EmptySeqs DEF JobDirs, MapDirs, TodoDirs, OwnDir, Unlinked
  <2>5. SnapApart(sn)
    <3>1. DOMAIN sn.mapping = {} /\ DOMAIN sn.todo = {}
      BY <2>2, EmptySeqs
    <3> QED BY <1>5, <2>2, <2>4, <3>1 DEF SnapApart
  <2>6. Waiting(sn) \subseteq Waiting(snap)
    BY <2>4 DEF Waiting
  <2>7. SnapFresh(store, links, sn)
    BY <1>1, <2>4, <2>6, FreshFewer
  <2>8. SnapTakes
    BY <1>1, <1>2, <2>1, <2>6, SameCounter DEF SnapTakes, sn
  <2> QED BY <1>1, <1>2, <2>1, <2>3, <2>5, <2>7, <2>8 DEF StoreInv, sn
<1>7. CASE snap.todo # <<>>
  <2> DEFINE rest == Tail(snap.todo)
  <2>1. store' = Put(store, q) /\ sn = [snap EXCEPT !.todo = rest, !.jobs = next]
    BY <1>7 DEF SnapData, Writes
  <2>2. /\ m = snap.todo[1] /\ m \in Copies /\ 1 \in DOMAIN snap.todo /\ rest \in Seq(Copies)
        /\ \A i \in DOMAIN rest :
            i \in Nat \ {0} /\ i + 1 \in DOMAIN snap.todo /\ rest[i] = snap.todo[i + 1]
    BY <1>3, <1>7, HeadTail
  <2> HIDE DEF m, rest
  <2>3. m.dst \in TodoDirs(snap) /\ m.dst \in Waiting(snap)
    BY <2>2 DEF TodoDirs, Waiting
  <2>4. m.src.ino \in Sources /\ m.src.ino \in Word /\ m.dst \in Nat /\ m.dst \in Word
    <3>1. m.dst \in Numbers(store)
      BY <1>1, <2>3 DEF SnapFresh
    <3>2. m.dst \in Word
      BY <1>1, <3>1, NumbersAreWords
    <3> QED BY <2>2, <3>2 DEF Copies, Sources
  <2>5. DataPairs(q)
    <3>1. DataPairs(ClonedBlocks(m.src.ino, m.dst))
      BY <1>3, <2>4, ClonedBlocksData
    <3> QED BY <3>1, NoPairsData
  <2> HIDE DEF q
  <2>6. StoreOK(store') /\ LinksOK(store', links) /\ store'[meta] = store[meta]
    BY <1>1, <2>1, <2>5, DataPut
  <2>7. /\ \A i, j \in DOMAIN rest : rest[i].dst = rest[j].dst => i = j
        /\ \A i \in DOMAIN rest : rest[i].dst \in TodoDirs(snap) /\ rest[i].dst # m.dst
    <3>1. ASSUME NEW i \in DOMAIN rest, NEW j \in DOMAIN rest, rest[i].dst = rest[j].dst PROVE i = j
      <4>1. i + 1 \in DOMAIN snap.todo /\ j + 1 \in DOMAIN snap.todo /\ i \in Nat /\ j \in Nat
            /\ snap.todo[i + 1].dst = snap.todo[j + 1].dst
        BY <2>2, <3>1
      <4>2. i + 1 = j + 1
        BY <1>5, <4>1
      <4> QED BY <4>1, <4>2
    <3>2. ASSUME NEW i \in DOMAIN rest PROVE rest[i].dst \in TodoDirs(snap) /\ rest[i].dst # m.dst
      <4>1. i \in Nat \ {0} /\ i + 1 \in DOMAIN snap.todo /\ rest[i] = snap.todo[i + 1]
        BY <2>2
      <4>2. i + 1 # 1
        BY <4>1
      <4>3. snap.todo[i + 1].dst # snap.todo[1].dst
        BY <1>5, <2>2, <4>1, <4>2
      <4> QED BY <2>2, <4>1, <4>3 DEF TodoDirs
    <3> QED BY <3>1, <3>2
  <2>8. /\ next \in Seq(Sources \X Nat)
        /\ \A i, j \in DOMAIN next : next[i][2] = next[j][2] => i = j
        /\ \A i \in DOMAIN next : next[i][2] \in JobDirs(snap) \cup {m.dst}
    <3>1. CASE m.src.typ # "Directory"
      <4>1. next = snap.jobs
        BY <3>1
      <4> HIDE DEF next
      <4> QED BY <1>3, <1>5, <4>1 DEF JobDirs
    <3>2. CASE m.src.typ = "Directory"
      <4> DEFINE new == <<m.src.ino, m.dst>>
      <4>1. next = Append(snap.jobs, new)
        BY <3>2
      <4>2. new \in Sources \X Nat /\ new[2] = m.dst
        BY <2>4
      <4> HIDE DEF next, new
      <4>3. /\ next \in Seq(Sources \X Nat) /\ Len(next) = Len(snap.jobs) + 1
            /\ \A i \in 1..Len(snap.jobs) : next[i] = snap.jobs[i]
            /\ next[Len(snap.jobs) + 1] = new
        BY <1>3, <4>1, <4>2, AppendProperties
      <4>4. Len(snap.jobs) \in Nat /\ DOMAIN snap.jobs = 1..Len(snap.jobs) /\ DOMAIN next = 1..Len(next)
        BY <1>3, <4>3
      <4>5. \A i \in DOMAIN next : i \in 1..Len(snap.jobs) \/ i = Len(snap.jobs) + 1
        BY <4>3, <4>4
      <4>6. \A i \in 1..Len(snap.jobs) : next[i][2] \in JobDirs(snap) /\ next[i][2] # m.dst
        <5>1. m.dst \notin JobDirs(snap)
          BY <1>5, <2>3
        <5>2. \A i \in 1..Len(snap.jobs) : next[i][2] \in JobDirs(snap)
          BY <4>3, <4>4 DEF JobDirs
        <5> QED BY <5>1, <5>2
      <4>7. next[Len(snap.jobs) + 1][2] = m.dst
        BY <4>2, <4>3
      <4>8. ASSUME NEW i \in DOMAIN next, NEW j \in DOMAIN next, next[i][2] = next[j][2] PROVE i = j
        <5>1. CASE i \in 1..Len(snap.jobs) /\ j \in 1..Len(snap.jobs)
          BY <1>5, <4>3, <4>4, <4>8, <5>1
        <5>2. CASE i = Len(snap.jobs) + 1 /\ j = Len(snap.jobs) + 1
          BY <5>2
        <5>3. CASE i \in 1..Len(snap.jobs) /\ j = Len(snap.jobs) + 1
          BY <4>6, <4>7, <4>8, <5>3
        <5>4. CASE j \in 1..Len(snap.jobs) /\ i = Len(snap.jobs) + 1
          BY <4>6, <4>7, <4>8, <5>4
        <5> QED BY <4>5, <5>1, <5>2, <5>3, <5>4
      <4>9. \A i \in DOMAIN next : next[i][2] \in JobDirs(snap) \cup {m.dst}
        BY <4>5, <4>6, <4>7
      <4> QED BY <4>3, <4>8, <4>9
    <3> QED BY <3>1, <3>2
  <2> HIDE DEF next
  <2>9. /\ sn.pc = "data" /\ sn.at = snap.at /\ sn.jobs = next
        /\ sn.mapping = <<>> /\ sn.todo = rest
        /\ sn \in [pc : Steps, at : {sn.at}, ino : Nat, jobs : Seq(Sources \X Nat),
                   mapping : Seq(Copies), left : {sn.left}, todo : Seq(Copies), lossy : {sn.lossy}]
    <3>1. rest \in Seq(Copies) /\ next \in Seq(Sources \X Nat)
      BY <2>2, <2>8
    <3> QED BY <1>1, <1>2, <1>3, <2>1, <3>1 DEF SnapTyped
  <2> HIDE DEF sn
  <2>10. SnapTyped(sn)
    BY <1>3, <2>9 DEF SnapTyped
  <2>11. /\ JobDirs(sn) \subseteq JobDirs(snap) \cup {m.dst}
         /\ TodoDirs(sn) \subseteq TodoDirs(snap) /\ m.dst \notin TodoDirs(sn)
         /\ MapDirs(sn) = {} /\ OwnDir(sn) = {} /\ Unlinked(sn) = {}
    <3>1. JobDirs(sn) \subseteq JobDirs(snap) \cup {m.dst}
      <4>1. JobDirs(sn) = {next[i][2] : i \in DOMAIN next}
        BY <2>9 DEF JobDirs
      <4> QED BY <2>8, <4>1
    <3>2. TodoDirs(sn) \subseteq TodoDirs(snap) /\ m.dst \notin TodoDirs(sn)
      <4>1. TodoDirs(sn) = {rest[i].dst : i \in DOMAIN rest}
        BY <2>9 DEF TodoDirs
      <4> QED BY <2>7, <4>1
    <3>3. MapDirs(sn) = {}
      BY <2>9, EmptySeqs DEF MapDirs
    <3>4. OwnDir(sn) = {} /\ Unlinked(sn) = {}
      BY <2>9 DEF OwnDir, Unlinked
    <3> QED BY <3>1, <3>2, <3>3, <3>4
  <2>12. SnapApart(sn)
    <3>1. JobDirs(sn) \cap (MapDirs(sn) \cup TodoDirs(sn)) = {}
      BY <1>5, <2>11
    <3>2. DOMAIN sn.mapping = {}
      BY <2>9, EmptySeqs
    <3>3. \A i, j \in DOMAIN sn.todo : sn.todo[i].dst = sn.todo[j].dst => i = j
      BY <2>7, <2>9
    <3>4. \A i, j \in DOMAIN sn.jobs : sn.jobs[i][2] = sn.jobs[j][2] => i = j
      BY <2>8, <2>9
    <3> QED BY <2>9, <3>1, <3>2, <3>3, <3>4 DEF SnapApart
  <2>13. Waiting(sn) \subseteq Waiting(snap)
    BY <2>3, <2>11 DEF Waiting
  <2>14. SnapFresh(store', links, sn)
    BY <1>1, <2>6, <2>11, <2>13, FreshFewer
  <2>15. SnapTakes
    BY <1>1, <1>2, <2>6, <2>13, SameCounter DEF SnapTakes, sn
  <2> QED BY <1>1, <1>2, <2>6, <2>10, <2>12, <2>14, <2>15 DEF StoreInv, sn
<1> QED BY <1>6, <1>7

-----------------------------------------------------------------------------
(***************************************************************************)
(* The store at first                                                      *)
(***************************************************************************)
OtherKinds == {"FsMetadataStatic", "HashedBlock", "HashedBlockExists"}

\* What a pair of the first store may be.
PairFits(k, v) ==
    \/ \E l \in InitLinks : k = Entry(l) /\ Describes(l.ino, v)
    \/ \E l \in InitLinks : k = Parent(l)
    \/ k \in LockStates
    \/ OfKind(k, "InoMetadata")
    \/ \E ino \in Word, index \in Word : k = block_hash(ino, index)
    \/ \E kind \in OtherKinds : OfKind(k, kind)
    \/ k = meta /\ v = Base

Fits(q) ==
    /\ IsFiniteSet(DOMAIN q)
    /\ \A k \in DOMAIN q : PairFits(k, q[k])
    /\ DescribedSelf(q)

LEMMA InitLinksAre ==
    /\ \A l \in InitLinks : /\ l \in [dir : TreeDirs, name : Keys, ino : 0..(Base - 1)]
                            /\ l.dir \in 0..(Base - 1) /\ l.dir \in Word /\ l.ino \in Word
    /\ \A k, l \in InitLinks : k.dir = l.dir /\ k.name = l.name => k.ino = l.ino
<1>1. Base \in Nat /\ Base >= 16 /\ \A n \in 0..(Base - 1) : n \in Word
  <2>1. Base \in Nat /\ Base >= 16
    BY BaseNat
  <2>2. WordValues \in Nat /\ MaxIno \in Nat /\ MaxIno + 1 < WordValues /\ Base <= MaxIno
    BY ValuesAre, BaseNat, DirectoryStoreAssumption
  <2> QED BY <2>1, <2>2 DEF Word
<1>2. <<a>> \in Keys /\ <<b>> \in Keys /\ <<c>> \in Keys /\ <<d>> \in Keys /\ UseName \in Keys
  <2>1. UseName \in Keys
    BY LiveNumbers
  <2> QED BY <1>1, <2>1 DEF Keys, Bytes, a, b, c, d
<1>3. /\ ROOT_INODE \in TreeDirs /\ DirD \in TreeDirs /\ OPENED_INODE_PARENT_INODE \in TreeDirs
      /\ TreeDirs \subseteq 0..(Base - 1)
  BY <1>1 DEF TreeDirs, LiveDirs, ROOT_INODE, DirD, FIRST_DATA_INODE, OPENED_INODE_PARENT_INODE
<1>4. /\ FileA \in 0..(Base - 1) /\ LinkC \in 0..(Base - 1) /\ DirD \in 0..(Base - 1)
      /\ FileB \in 0..(Base - 1)
  BY <1>1 DEF FileA, FileB, LinkC, DirD, FIRST_DATA_INODE
<1>5. \A l \in InitLinks : l \in [dir : TreeDirs, name : Keys, ino : 0..(Base - 1)]
  BY <1>2, <1>3, <1>4 DEF InitLinks, Link
<1>6. \A l \in InitLinks : l.dir \in 0..(Base - 1) /\ l.dir \in Word /\ l.ino \in Word
  BY <1>1, <1>3, <1>5
<1>7. /\ ROOT_INODE # DirD /\ <<a>> # <<c>> /\ <<a>> # <<d>> /\ <<c>> # <<d>>
      /\ ROOT_INODE # OPENED_INODE_PARENT_INODE /\ DirD # OPENED_INODE_PARENT_INODE
  BY DEF ROOT_INODE, DirD, FIRST_DATA_INODE, OPENED_INODE_PARENT_INODE, a, c, d
<1>8. \A k, l \in InitLinks : k.dir = l.dir /\ k.name = l.name => k.ino = l.ino
  BY <1>7 DEF InitLinks, Link
<1> QED BY <1>5, <1>6, <1>8

\* Who is described has its description and its size under keys of inodes.
LEMMA NothingDescribed ==
    ASSUME NEW q, \A ino \in Word : \A m \in {"Description", "Size"} : inode_x(ino, m) \notin DOMAIN q
    PROVE  DescribedSelf(q)
BY DEF DescribedSelf

LEMMA OtherNotDescribed ==
    ASSUME NEW q, \A k \in DOMAIN q : \E kind \in KindsUsed \ {"InoMetadata"} : OfKind(k, kind)
    PROVE  DescribedSelf(q)
<1>1. \A ino \in Word : \A m \in {"Description", "Size"} : OfKind(inode_x(ino, m), "InoMetadata")
  BY InodeKey DEF InoMetas
<1>2. \A ino \in Word : \A m \in {"Description", "Size"} : inode_x(ino, m) \notin DOMAIN q
  BY <1>1, DifferentKinds
<1> QED BY <1>2, NothingDescribed

LEMMA DataFits ==
    ASSUME NEW q, DataPairs(q)
    PROVE  Fits(q)
BY DEF DataPairs, Fits, PairFits

LEMMA OtherFits ==
    ASSUME NEW k, NEW v, NEW kind \in OtherKinds, OfKind(k, kind)
    PROVE  Fits(Pair(k, v))
<1> DEFINE q == Pair(k, v)
<1>1. DOMAIN q = {k}
  BY PairIs
<1> HIDE DEF q
<1>2. kind \in KindsUsed \ {"InoMetadata"}
  BY DifferentKinds DEF OtherKinds
<1>3. IsFiniteSet(DOMAIN q)
  BY <1>1, FS_Singleton
<1>4. DescribedSelf(q)
  BY <1>1, <1>2, OtherNotDescribed
<1>5. PairFits(k, q[k])
  BY DEF PairFits
<1>6. Fits(q)
  BY <1>1, <1>3, <1>4, <1>5 DEF Fits
<1> QED BY <1>6 DEF q

LEMMA MetaFits == Fits(Pair(meta, Base))
<1> DEFINE q == Pair(meta, Base)
<1>1. DOMAIN q = {meta} /\ q[meta] = Base
  BY PairIs
<1> HIDE DEF q
<1>2. IsFiniteSet(DOMAIN q)
  BY <1>1, FS_Singleton
<1>3. DescribedSelf(q)
  BY <1>1, MetaKey, DifferentKinds, OtherNotDescribed
<1>4. PairFits(meta, q[meta])
  BY <1>1 DEF PairFits
<1>5. Fits(q)
  BY <1>1, <1>2, <1>3, <1>4 DEF Fits
<1> QED BY <1>5 DEF q

LEMMA LinkFits ==
    ASSUME NEW l \in InitLinks, NEW item, Describes(l.ino, item)
    PROVE  /\ Fits(LinkPairs(l.dir, l.name, item))
           /\ Entry(l) \in DOMAIN LinkPairs(l.dir, l.name, item)
           /\ Parent(l) \in DOMAIN LinkPairs(l.dir, l.name, item)
<1> DEFINE q1 == Pair(Parent(l), <<>>)
           q2 == Pair(Entry(l), item)
           q == Put(q1, q2)
<1>1. item.ino = l.ino
  BY DEF Describes
<1>2. LinkPairs(l.dir, l.name, item) = q
  BY <1>1 DEF LinkPairs, Parent, Entry
<1>3. DOMAIN q1 = {Parent(l)} /\ DOMAIN q2 = {Entry(l)} /\ q2[Entry(l)] = item
  BY PairIs
<1> HIDE DEF q1, q2
<1>4. /\ DOMAIN q = DOMAIN q1 \cup DOMAIN q2
      /\ \A k \in DOMAIN q2 : q[k] = q2[k]
  BY PutIs
<1> HIDE DEF q
<1>5. DOMAIN q = {Parent(l), Entry(l)} /\ q[Entry(l)] = item
  BY <1>3, <1>4
<1>6. IsFiniteSet(DOMAIN q)
  <2>1. IsFiniteSet({Parent(l)}) /\ IsFiniteSet({Entry(l)})
    BY FS_Singleton
  <2>2. IsFiniteSet({Parent(l)} \cup {Entry(l)})
    BY <2>1, FS_Union
  <2> QED BY <1>3, <1>4, <2>2
<1>7. OfKind(Entry(l), "DirectoryChild") /\ OfKind(Parent(l), "ParentLink")
  BY InitLinksAre, ChildKey, ParentKey DEF Entry, Parent
<1>8. DescribedSelf(q)
  BY <1>5, <1>7, DifferentKinds, OtherNotDescribed
<1>9. \A k \in DOMAIN q : PairFits(k, q[k])
  BY <1>5 DEF PairFits
<1>10. Fits(q)
  BY <1>6, <1>8, <1>9 DEF Fits
<1> QED BY <1>2, <1>5, <1>10

LEMMA MergeFits ==
    ASSUME NEW n \in Nat, NEW S, DOMAIN S = 1..n, \A i \in 1..n : Fits(S[i])
    PROVE  Fits(Merge(S)) /\ \A i \in 1..n : DOMAIN S[i] \subseteq DOMAIN Merge(S)
<1> DEFINE q == Merge(S)
<1>1. /\ DOMAIN q = UNION {DOMAIN S[i] : i \in 1..n}
      /\ \A k \in DOMAIN q : \E i \in 1..n :
            /\ k \in DOMAIN S[i] /\ q[k] = S[i][k]
            /\ \A j \in 1..n : k \in DOMAIN S[j] => j <= i
  BY MergeIs
<1> HIDE DEF q
<1>2. \A k \in DOMAIN q : \E i \in 1..n : k \in DOMAIN S[i] /\ q[k] = S[i][k]
  BY <1>1
<1>3. IsFiniteSet(DOMAIN q)
  <2> DEFINE D == [i \in 1..n |-> DOMAIN S[i]]
  <2>1. \A i \in 1..n : IsFiniteSet(D[i])
    BY DEF Fits
  <2>2. DOMAIN q = UNION {D[i] : i \in 1..n}
    BY <1>1
  <2> HIDE DEF D
  <2> QED BY <2>1, <2>2, FiniteUnion
<1>4. ASSUME NEW k \in DOMAIN q PROVE PairFits(k, q[k])
  <2>1. PICK i \in 1..n : k \in DOMAIN S[i] /\ q[k] = S[i][k]
    BY <1>2
  <2>2. PairFits(k, S[i][k])
    BY <2>1 DEF Fits
  <2> QED BY <2>1, <2>2
<1>5. ASSUME NEW ino \in Word
      PROVE  /\ inode_x(ino, "Description") \in DOMAIN q =>
                    Describes(ino, q[inode_x(ino, "Description")])
             /\ inode_x(ino, "Size") \in DOMAIN q => q[inode_x(ino, "Size")] \in Nat
  <2>1. \A i \in 1..n : DescribedSelf(S[i])
    BY DEF Fits
  <2> QED BY <1>2, <2>1 DEF DescribedSelf
<1>6. DescribedSelf(q)
  BY <1>5 DEF DescribedSelf
<1>7. \A i \in 1..n : DOMAIN S[i] \subseteq DOMAIN q
  BY <1>1
<1> QED BY <1>3, <1>4, <1>6, <1>7 DEF Fits, q

LEMMA FiniteUuids == IsFiniteSet(Uuids) /\ Uuids \subseteq Keys
<1>1. Uuids = {ZeroUuid} \cup {LastUuid} /\ Uuids \subseteq Keys
  BY LockParts
<1>2. IsFiniteSet({ZeroUuid}) /\ IsFiniteSet({LastUuid})
  BY FS_Singleton
<1>3. IsFiniteSet({ZeroUuid} \cup {LastUuid})
  BY <1>2, FS_Union
<1> QED BY <1>1, <1>3

LEMMA StatesFit ==
    LET q == [k \in {key_lock_state(l, u) : l \in LockKeys, u \in Uuids} |-> 0]
    IN Fits(q) /\ DOMAIN q = LockStates
<1> DEFINE q == [k \in {key_lock_state(l, u) : l \in LockKeys, u \in Uuids} |-> 0]
           h1 == hashed_block(Hash1)
           h2 == hashed_block(Hash2)
           f1 == [u \in Uuids |-> key_lock_state(h1, u)]
           f2 == [u \in Uuids |-> key_lock_state(h2, u)]
<1>1. DOMAIN q = LockStates
  BY DEF LockStates
<1>2. LockStates = {f1[u] : u \in Uuids} \cup {f2[u] : u \in Uuids}
  BY DEF LockStates, LockKeys
<1> HIDE DEF q, f1, f2
<1>3. IsFiniteSet({f1[u] : u \in Uuids}) /\ IsFiniteSet({f2[u] : u \in Uuids})
  BY FiniteUuids, FiniteImage
<1>4. IsFiniteSet({f1[u] : u \in Uuids} \cup {f2[u] : u \in Uuids})
  BY <1>3, FS_Union
<1>5. IsFiniteSet(DOMAIN q)
  BY <1>1, <1>2, <1>4
<1>6. \A k \in DOMAIN q : PairFits(k, q[k])
  BY <1>1 DEF PairFits
<1>7. \A k \in LockStates : OfKind(k, "KeyLockStates")
  BY StateKey DEF LockStates
<1>8. DescribedSelf(q)
  BY <1>1, <1>7, DifferentKinds, OtherNotDescribed
<1>9. Fits(q)
  BY <1>5, <1>6, <1>8 DEF Fits
<1> QED BY <1>1, <1>9 DEF q

\* The key of a use of an inode is longer than the keys of its attributes.
LEMMA OpenedFit == Fits([k \in {opened_inode(FileA, u) : u \in Uuids} |-> 0])
<1> DEFINE q == [k \in {opened_inode(FileA, u) : u \in Uuids} |-> 0]
           p == inode_x(FileA, "Opened")
           f == [u \in Uuids |-> p \o u]
<1>1. DOMAIN q = {f[u] : u \in Uuids} /\ \A u \in Uuids : f[u] = p \o u
  BY DEF opened_inode
<1>2. FileA \in Word
  <2>1. Link(ROOT_INODE, <<a>>, FileA) \in InitLinks
    BY DEF InitLinks
  <2>2. Link(ROOT_INODE, <<a>>, FileA).ino = FileA
    BY DEF Link
  <2> QED BY <2>1, <2>2, InitLinksAre
<1>3. ASSUME NEW ino \in Word, NEW m \in InoMetas
      PROVE  inode_x(ino, m) \in Keys /\ Len(inode_x(ino, m)) = Len(InodeKind) + Width + 1
  <2> DEFINE r == <<IdOf(InoMetadata, m)>>
  <2>1. r \in Keys /\ Len(r) = 1
    BY MetaIds
  <2> HIDE DEF r
  <2>2. inode_x(ino, m) = Numbered(InodeKind, ino, r)
    BY InodeKey DEF r
  <2>3. Numbered(InodeKind, ino, r) \in Keys /\ Len(Numbered(InodeKind, ino, r)) = Len(InodeKind) + Width + Len(r)
    BY <2>1, KindKeys, NumberedKey
  <2> QED BY <2>1, <2>2, <2>3
<1>4. "Opened" \in InoMetas /\ {"Description", "Size"} \subseteq InoMetas
  BY DEF InoMetas
<1>5. OfKind(p, "InoMetadata") /\ p \in Keys /\ Len(p) = Len(InodeKind) + Width + 1
  BY <1>2, <1>3, <1>4, InodeKey
<1>6. Len(InodeKind) + Width + 1 \in Nat
  BY KindKeys, KeyBytes, BaseNat
<1> HIDE DEF q, f, p
<1>7. ASSUME NEW u \in Uuids
      PROVE  OfKind(f[u], "InoMetadata") /\ Len(f[u]) > Len(InodeKind) + Width + 1
  <2>1. u \in Keys /\ Len(u) = UuidLen /\ UuidLen \in Nat \ {0}
    BY LockParts
  <2>2. OfKind(p \o u, "InoMetadata")
    BY <1>5, <2>1, KindConcat
  <2>3. Len(p \o u) = Len(p) + Len(u)
    BY <1>5, <2>1, ConcatKeys
  <2>4. f[u] = p \o u
    BY <1>1
  <2> DEFINE x == Len(p \o u)
             y == Len(InodeKind) + Width + 1
  <2>5. x = y + UuidLen /\ y \in Nat
    BY <1>5, <1>6, <2>1, <2>3
  <2> HIDE DEF x, y
  <2>6. x > y
    BY <2>1, <2>5
  <2>7. Len(p \o u) > Len(InodeKind) + Width + 1
    BY <2>6, Zenon DEF x, y
  <2> QED BY <2>2, <2>4, <2>7, Zenon
<1>8. IsFiniteSet(DOMAIN q)
  BY <1>1, FiniteUuids, FiniteImage
<1>9. \A k \in DOMAIN q : PairFits(k, q[k])
  BY <1>1, <1>7 DEF PairFits
<1>10. ASSUME NEW ino \in Word, NEW m \in {"Description", "Size"} PROVE inode_x(ino, m) \notin DOMAIN q
  <2>1. Len(inode_x(ino, m)) = Len(InodeKind) + Width + 1
    BY <1>3, <1>4
  <2>2. \A u \in Uuids : f[u] # inode_x(ino, m)
    BY <1>6, <1>7, <2>1
  <2> QED BY <1>1, <2>2
<1>11. DescribedSelf(q)
  BY <1>10, NothingDescribed
<1>12. Fits(q)
  BY <1>8, <1>9, <1>11 DEF Fits
<1> QED BY <1>12 DEF q

LEMMA BlockKeysFit ==
    /\ Fits(Pair(hashed_block(Hash1), "data"))
    /\ Fits(Pair(hashed_block_exists(Hash1), 0))
    /\ Fits(Pair(named_hashed_block_x(Hash1, "CCountedNamedUsages"), 2))
    /\ Fits(Pair(meta_static, 0))
<1>1. OfKind(hashed_block(Hash1), "HashedBlock") /\ Hash1 \in Keys
  BY HashedKey, LockParts
<1>2. OfKind(hashed_block_exists(Hash1), "HashedBlockExists")
  <2>1. OfKind(write_key_kind("HashedBlockExists"), "HashedBlockExists")
    BY KindPrefix, DifferentKinds
  <2> QED BY <1>1, <2>1, KindConcat DEF hashed_block_exists
<1>3. OfKind(named_hashed_block_x(Hash1, "CCountedNamedUsages"), "HashedBlock")
  <2> DEFINE id == IdOf(HashedBlockMeta, "CCountedNamedUsages")
  <2>1. id = 2
    BY DEF IdOf, HashedBlockMeta
  <2>2. <<id>> \in Keys
    BY <2>1, BaseNat DEF Keys, Bytes
  <2> HIDE DEF id
  <2> QED BY <1>1, <2>2, KindConcat DEF named_hashed_block_x, id
<1>4. OfKind(meta_static, "FsMetadataStatic")
  BY MetaKey
<1>5. {"HashedBlock", "HashedBlockExists", "FsMetadataStatic"} \subseteq OtherKinds
  BY DEF OtherKinds
<1> QED BY <1>1, <1>2, <1>3, <1>4, <1>5, OtherFits

LEMMA OtherPairsFit == Fits(OtherPairs) /\ LockStates \subseteq DOMAIN OtherPairs
<1> DEFINE q1 == [k \in {key_lock_state(l, u) : l \in LockKeys, u \in Uuids} |-> 0]
           q2 == [k \in {opened_inode(FileA, u) : u \in Uuids} |-> 0]
           q3 == Pair(meta_static, 0)
           q4 == Pair(hashed_block(Hash1), "data")
           q5 == Pair(hashed_block_exists(Hash1), 0)
           q6 == Pair(named_hashed_block_x(Hash1, "CCountedNamedUsages"), 2)
           S == <<q1, q2, q3, q4, q5, q6>>
<1>1. Fits(q1) /\ DOMAIN q1 = LockStates
  BY StatesFit
<1>2. Fits(q2)
  BY OpenedFit
<1>3. Fits(q3) /\ Fits(q4) /\ Fits(q5) /\ Fits(q6)
  BY BlockKeysFit
<1>4. OtherPairs = Merge(S)
  BY DEF OtherPairs
<1> HIDE DEF q1, q2, q3, q4, q5, q6
<1>5. /\ DOMAIN S = 1..6 /\ S[1] = q1 /\ S[2] = q2 /\ S[3] = q3 /\ S[4] = q4 /\ S[5] = q5
      /\ S[6] = q6
  OBVIOUS
<1> HIDE DEF S
<1>6. \A i \in 1..6 : i = 1 \/ i = 2 \/ i = 3 \/ i = 4 \/ i = 5 \/ i = 6
  OBVIOUS
<1>7. \A i \in 1..6 : Fits(S[i])
  BY <1>1, <1>2, <1>3, <1>5, <1>6
<1>8. 6 \in Nat /\ 1 \in 1..6
  OBVIOUS
<1>9. Fits(Merge(S)) /\ \A i \in 1..6 : DOMAIN S[i] \subseteq DOMAIN Merge(S)
  BY <1>5, <1>7, <1>8, MergeFits
<1> QED BY <1>1, <1>4, <1>5, <1>8, <1>9

\* One attribute of an inode.
LEMMA MetaPairData ==
    ASSUME NEW ino \in Word, NEW m \in InoMetas \ {"Description"}, NEW v, m = "Size" => v \in Nat
    PROVE  DataPairs(Pair(inode_x(ino, m), v))
<1> DEFINE q == Pair(inode_x(ino, m), v)
<1>1. DOMAIN q = {inode_x(ino, m)} /\ q[inode_x(ino, m)] = v
  BY PairIs
<1> HIDE DEF q
<1>2. OfKind(inode_x(ino, m), "InoMetadata")
  BY InodeKey
<1>3. IsFiniteSet(DOMAIN q)
  <2>1. IsFiniteSet({inode_x(ino, m)})
    BY FS_Singleton, Zenon
  <2> QED BY <1>1, <2>1, Zenon
<1>4. {"Description", "Size"} \subseteq InoMetas
  BY DEF InoMetas
<1>5. \A i \in Word : inode_x(i, "Description") # inode_x(ino, m)
  BY <1>4, InodeKeyInjective
<1>6. \A i \in Word : inode_x(i, "Size") = inode_x(ino, m) => m = "Size"
  BY <1>4, InodeKeyInjective
<1>7. DescribedSelf(q)
  BY <1>1, <1>5, <1>6 DEF DescribedSelf
<1>8. DataPairs(q)
  BY <1>1, <1>2, <1>3, <1>7 DEF DataPairs
<1> QED BY <1>8 DEF q

LEMMA BlockPairData ==
    ASSUME NEW ino \in Word, NEW index \in Word, NEW v
    PROVE  DataPairs(Pair(block_hash(ino, index), v))
<1> DEFINE q == Pair(block_hash(ino, index), v)
<1>1. DOMAIN q = {block_hash(ino, index)}
  BY PairIs
<1> HIDE DEF q
<1>2. OfKind(block_hash(ino, index), "InoBlockHashMapping")
  BY BlockKey
<1>3. IsFiniteSet(DOMAIN q)
  BY <1>1, FS_Singleton
<1>4. DescribedSelf(q)
  BY <1>1, <1>2, DifferentKinds, OtherNotDescribed
<1>5. DataPairs(q)
  BY <1>1, <1>3, <1>4 DEF DataPairs
<1> QED BY <1>5 DEF q

LEMMA FirstStore ==
    ASSUME Init
    PROVE  /\ Fits(store) /\ meta \in DOMAIN store /\ LockStates \subseteq DOMAIN store
           /\ \A l \in InitLinks : /\ Entry(l) \in DOMAIN store /\ Parent(l) \in DOMAIN store
                                   /\ AllAttributes(store, l.ino)
<1> DEFINE l1 == Link(ROOT_INODE, <<a>>, FileA)
           l2 == Link(ROOT_INODE, <<c>>, LinkC)
           l3 == Link(ROOT_INODE, <<d>>, DirD)
           l4 == Link(DirD, <<b>>, FileB)
           l5 == Link(OPENED_INODE_PARENT_INODE, UseName, FileA)
           q1 == OtherPairs
           q2 == LinkPairs(ROOT_INODE, <<a>>, Item(FileA, "File"))
           q3 == LinkPairs(ROOT_INODE, <<c>>, Item(LinkC, "Symlink"))
           q4 == LinkPairs(ROOT_INODE, <<d>>, Item(DirD, "Directory"))
           q5 == LinkPairs(DirD, <<b>>, Item(FileB, "File"))
           q6 == LinkPairs(OPENED_INODE_PARENT_INODE, UseName, Item(FileA, "File"))
           q7 == InodePairs(ROOT_INODE, "Directory", "attr")
           q8 == InodePairs(DirD, "Directory", "attr")
           q9 == InodePairs(FileA, "File", "attr")
           q10 == InodePairs(FileB, "File", "attr")
           q11 == InodePairs(LinkC, "Symlink", "attr")
           q12 == Pair(inode_x(LinkC, "InlineData"), "target")
           q13 == Pair(inode_x(FileA, "Size"), 1)
           q14 == Pair(inode_x(FileB, "Size"), 1)
           q15 == Pair(block_hash(FileA, 0), Hash1)
           q16 == Pair(block_hash(FileB, 0), Hash1)
           q17 == Pair(meta, Base)
           S == <<q1, q2, q3, q4, q5, q6, q7, q8, q9, q10, q11, q12, q13, q14, q15, q16, q17>>
<1>1. store = Merge(S)
  BY DEF Init
<1>2. /\ InitLinks = {l1, l2, l3, l4, l5}
      /\ l1.dir = ROOT_INODE /\ l1.name = <<a>> /\ l1.ino = FileA
      /\ l2.dir = ROOT_INODE /\ l2.name = <<c>> /\ l2.ino = LinkC
      /\ l3.dir = ROOT_INODE /\ l3.name = <<d>> /\ l3.ino = DirD
      /\ l4.dir = DirD /\ l4.name = <<b>> /\ l4.ino = FileB
      /\ l5.dir = OPENED_INODE_PARENT_INODE /\ l5.name = UseName /\ l5.ino = FileA
  BY DEF InitLinks, Link
<1> HIDE DEF l1, l2, l3, l4, l5
<1>3. /\ ROOT_INODE \in Word /\ FileA \in Word /\ FileB \in Word /\ LinkC \in Word /\ DirD \in Word
      /\ 0 \in Word
  <2>1. ROOT_INODE \in Word /\ FileA \in Word /\ FileB \in Word /\ LinkC \in Word /\ DirD \in Word
    BY <1>2, InitLinksAre
  <2> QED BY <2>1, ValuesAre, BaseNat, DirectoryStoreAssumption DEF Word, ROOT_INODE
<1>4. /\ Describes(FileA, Item(FileA, "File")) /\ Describes(LinkC, Item(LinkC, "Symlink"))
      /\ Describes(DirD, Item(DirD, "Directory")) /\ Describes(FileB, Item(FileB, "File"))
  BY DEF Describes, Item, Types
<1>5. Fits(q1) /\ LockStates \subseteq DOMAIN q1
  BY OtherPairsFit
<1>6. Fits(q2) /\ Entry(l1) \in DOMAIN q2 /\ Parent(l1) \in DOMAIN q2
  BY <1>2, <1>4, LinkFits
<1>7. Fits(q3) /\ Entry(l2) \in DOMAIN q3 /\ Parent(l2) \in DOMAIN q3
  BY <1>2, <1>4, LinkFits
<1>8. Fits(q4) /\ Entry(l3) \in DOMAIN q4 /\ Parent(l3) \in DOMAIN q4
  BY <1>2, <1>4, LinkFits
<1>9. Fits(q5) /\ Entry(l4) \in DOMAIN q5 /\ Parent(l4) \in DOMAIN q5
  BY <1>2, <1>4, LinkFits
<1>10. Fits(q6) /\ Entry(l5) \in DOMAIN q6 /\ Parent(l5) \in DOMAIN q6
  BY <1>2, <1>4, LinkFits
<1>11. {"File", "Directory", "Symlink"} \subseteq Types
       /\ {"InlineData", "Size"} \subseteq InoMetas \ {"Description"} /\ "InlineData" # "Size" /\ 1 \in Nat
  BY DEF Types, InoMetas
<1>12. Fits(q7) /\ Fits(q8) /\ AllAttributes(q8, DirD)
  BY <1>3, <1>11, InodePairsData, InodePairsWhole, DataFits
<1>13. Fits(q9) /\ Fits(q10) /\ Fits(q11)
  BY <1>3, <1>11, InodePairsData, DataFits
<1>14. AllAttributes(q9, FileA) /\ AllAttributes(q10, FileB) /\ AllAttributes(q11, LinkC)
  BY <1>3, <1>11, InodePairsWhole
<1>15. Fits(q12) /\ Fits(q13) /\ Fits(q14)
  BY <1>3, <1>11, MetaPairData, DataFits
<1>16. Fits(q15) /\ Fits(q16)
  BY <1>3, BlockPairData, DataFits
<1>17. Fits(q17) /\ meta \in DOMAIN q17
  BY MetaFits, PairIs
<1> HIDE DEF q1, q2, q3, q4, q5, q6, q7, q8, q9, q10, q11, q12, q13, q14, q15, q16, q17
<1>18. /\ DOMAIN S = 1..17 /\ S[1] = q1 /\ S[2] = q2 /\ S[3] = q3 /\ S[4] = q4 /\ S[5] = q5
       /\ S[6] = q6 /\ S[7] = q7 /\ S[8] = q8 /\ S[9] = q9 /\ S[10] = q10 /\ S[11] = q11
       /\ S[12] = q12 /\ S[13] = q13 /\ S[14] = q14 /\ S[15] = q15 /\ S[16] = q16 /\ S[17] = q17
  OBVIOUS
<1> HIDE DEF S
<1>19. /\ \A i \in 1..17 : \/ i = 1 \/ i = 2 \/ i = 3 \/ i = 4 \/ i = 5 \/ i = 6 \/ i = 7
                           \/ i = 8 \/ i = 9 \/ i = 10 \/ i = 11 \/ i = 12 \/ i = 13
                           \/ i = 14 \/ i = 15 \/ i = 16 \/ i = 17
       /\ 17 \in Nat /\ {1, 2, 3, 4, 5, 6, 8, 9, 10, 11, 17} \subseteq 1..17
  OBVIOUS
<1>20. \A i \in 1..17 : Fits(S[i])
  <2>1. ASSUME NEW i \in 1..17 PROVE Fits(S[i])
    <3>1. Fits(S[1]) /\ Fits(S[2]) /\ Fits(S[3]) /\ Fits(S[4]) /\ Fits(S[5]) /\ Fits(S[6])
      BY <1>5, <1>6, <1>7, <1>8, <1>9, <1>10, <1>18
    <3>2. Fits(S[7]) /\ Fits(S[8]) /\ Fits(S[9]) /\ Fits(S[10]) /\ Fits(S[11])
      BY <1>12, <1>13, <1>18
    <3>3. /\ Fits(S[12]) /\ Fits(S[13]) /\ Fits(S[14]) /\ Fits(S[15]) /\ Fits(S[16])
          /\ Fits(S[17])
      BY <1>15, <1>16, <1>17, <1>18
    <3> QED BY <1>19, <3>1, <3>2, <3>3
  <2> QED BY <2>1
<1>21. Fits(Merge(S)) /\ \A i \in 1..17 : DOMAIN S[i] \subseteq DOMAIN Merge(S)
  BY <1>18, <1>19, <1>20, MergeFits
<1>22. /\ DOMAIN q1 \subseteq DOMAIN store /\ DOMAIN q2 \subseteq DOMAIN store
       /\ DOMAIN q3 \subseteq DOMAIN store /\ DOMAIN q4 \subseteq DOMAIN store
       /\ DOMAIN q5 \subseteq DOMAIN store /\ DOMAIN q6 \subseteq DOMAIN store
       /\ DOMAIN q17 \subseteq DOMAIN store
  BY <1>1, <1>18, <1>19, <1>21
<1>23. /\ DOMAIN q8 \subseteq DOMAIN store /\ DOMAIN q9 \subseteq DOMAIN store
       /\ DOMAIN q10 \subseteq DOMAIN store /\ DOMAIN q11 \subseteq DOMAIN store
  BY <1>1, <1>18, <1>19, <1>21
<1>24. \A l \in InitLinks : Entry(l) \in DOMAIN store /\ Parent(l) \in DOMAIN store
  BY <1>2, <1>6, <1>7, <1>8, <1>9, <1>10, <1>22
<1>25. \A l \in InitLinks : AllAttributes(store, l.ino)
  BY <1>2, <1>12, <1>14, <1>23 DEF AllAttributes
<1> QED BY <1>1, <1>5, <1>17, <1>21, <1>22, <1>24, <1>25

LEMMA InitInv == Init => StoreInv /\ ProgsInv
<1> SUFFICES ASSUME Init PROVE StoreInv /\ ProgsInv
  OBVIOUS
<1>1. /\ Fits(store) /\ meta \in DOMAIN store /\ LockStates \subseteq DOMAIN store
      /\ \A l \in InitLinks : Entry(l) \in DOMAIN store /\ Parent(l) \in DOMAIN store
  BY FirstStore
<1>2. links = InitLinks
  BY DEF Init
<1>3. ASSUME NEW k \in DOMAIN store
      PROVE  /\ \E kind \in KindsUsed : OfKind(k, kind)
             /\ k = meta => store[k] = Base
             /\ OfKind(k, "DirectoryChild") =>
                    \E l \in InitLinks : k = Entry(l) /\ Describes(l.ino, store[k])
             /\ OfKind(k, "ParentLink") => \E l \in InitLinks : k = Parent(l)
             /\ OfKind(k, "KeyLockStates") => k \in LockStates
             /\ OfKind(k, "InoBlockHashMapping") =>
                    \E ino \in Word, index \in Word : k = block_hash(ino, index)
  <2>1. PairFits(k, store[k])
    BY <1>1 DEF Fits
  <2>2. CASE \E l \in InitLinks : k = Entry(l) /\ Describes(l.ino, store[k])
    <3>1. OfKind(k, "DirectoryChild")
      BY <2>2, InitLinksAre, ChildKey DEF Entry
    <3> QED BY <2>2, <3>1, MetaKey, DifferentKinds
  <2>3. CASE \E l \in InitLinks : k = Parent(l)
    <3>1. OfKind(k, "ParentLink")
      BY <2>3, InitLinksAre, ParentKey DEF Parent
    <3> QED BY <2>3, <3>1, MetaKey, DifferentKinds
  <2>4. CASE k \in LockStates
    <3>1. OfKind(k, "KeyLockStates")
      BY <2>4, StateKey DEF LockStates
    <3> QED BY <2>4, <3>1, MetaKey, DifferentKinds
  <2>5. CASE OfKind(k, "InoMetadata")
    BY <2>5, MetaKey, DifferentKinds
  <2>6. CASE \E ino \in Word, index \in Word : k = block_hash(ino, index)
    <3>1. OfKind(k, "InoBlockHashMapping")
      BY <2>6, BlockKey
    <3> QED BY <2>6, <3>1, MetaKey, DifferentKinds
  <2>7. CASE \E kind \in OtherKinds : OfKind(k, kind)
    BY <2>7, MetaKey, DifferentKinds DEF OtherKinds
  <2>8. CASE k = meta /\ store[k] = Base
    BY <2>8, MetaKey, DifferentKinds
  <2> QED BY <2>1, <2>2, <2>3, <2>4, <2>5, <2>6, <2>7, <2>8 DEF PairFits
<1>4. store[meta] = Base /\ CounterOK(store)
  <2>1. store[meta] = Base
    BY <1>1, <1>3
  <2> QED BY <1>1, <2>1, BaseNat, DirectoryStoreAssumption DEF CounterOK
<1>5. \A l \in InitLinks : IsLink(store, l) /\ LinkStored(store, l)
  <2> SUFFICES ASSUME NEW l \in InitLinks PROVE IsLink(store, l) /\ LinkStored(store, l)
    OBVIOUS
  <2>1. l \in [dir : TreeDirs, name : Keys, ino : 0..(Base - 1)] /\ l.dir \in 0..(Base - 1)
        /\ l.dir \in Word /\ l.ino \in Word
    BY InitLinksAre
  <2>2. \A n \in 0..(Base - 1) : n \in Numbers(store)
    BY <1>4, BaseNat DEF Numbers
  <2>3. IsLink(store, l)
    BY <2>1, <2>2 DEF IsLink
  <2>4. OfKind(Entry(l), "DirectoryChild")
    BY <2>1, ChildKey DEF Entry
  <2>5. PICK k \in InitLinks : Entry(l) = Entry(k) /\ Describes(k.ino, store[Entry(l)])
    BY <1>1, <1>3, <2>4
  <2>6. k.dir = l.dir /\ k.name = l.name
    <3>1. k.dir \in Word /\ k.name \in Keys
      BY InitLinksAre
    <3> QED BY <2>1, <2>5, <3>1, ChildKeyInjective DEF Entry
  <2>7. k.ino = l.ino
    BY <2>6, InitLinksAre
  <2>8. LinkStored(store, l)
    BY <1>1, <2>5, <2>7 DEF LinkStored
  <2> QED BY <2>3, <2>8
<1>6. LinksOK(store, links)
  BY <1>1, <1>2, <1>3, <1>5 DEF LinksOK
<1>7. EntriesTyped(store)
  <2> SUFFICES ASSUME NEW k \in DOMAIN store, OfKind(k, "DirectoryChild")
               PROVE  /\ \E dir \in Numbers(store), name \in Keys : k = directory_child(dir, name)
                      /\ \E ino \in Numbers(store) : Describes(ino, store[k])
    BY DEF EntriesTyped
  <2>1. PICK l \in InitLinks : k = Entry(l) /\ Describes(l.ino, store[k])
    BY <1>3
  <2>2. l.dir \in Numbers(store) /\ l.name \in Keys /\ l.ino \in Numbers(store)
    BY <1>5 DEF IsLink
  <2> QED BY <2>1, <2>2 DEF Entry
<1>8. StoreOK(store)
  <2>1. KeysKnown(store) /\ BlocksTyped(store)
    BY <1>3 DEF KeysKnown, BlocksTyped
  <2> QED BY <1>1, <1>4, <1>7, <2>1 DEF StoreOK, Fits
<1>9. LinksApart(links)
  BY <1>2, InitLinksAre DEF LinksApart
<1>10. SnapTyped(snap) /\ SnapApart(snap) /\ SnapFresh(store, links, snap)
  <2>1. snap = [NoSnap EXCEPT !.pc = "idle"]
    <3>1. [NoSnap EXCEPT !.pc = "idle"] =
            [pc |-> "idle", at |-> NoPairs, ino |-> 0, jobs |-> <<>>, mapping |-> <<>>,
             left |-> {}, todo |-> <<>>, lossy |-> FALSE]
      <4>1. PICK x : x = [NoSnap EXCEPT !.pc = "idle"]
        OBVIOUS
      <4>2. x = [pc |-> "idle", at |-> NoPairs, ino |-> 0, jobs |-> <<>>, mapping |-> <<>>,
                 left |-> {}, todo |-> <<>>, lossy |-> FALSE]
        BY <4>1 DEF NoSnap
      <4> QED BY <4>1, <4>2, Zenon
    <3>2. NoSnap = [pc |-> "idle", at |-> NoPairs, ino |-> 0, jobs |-> <<>>, mapping |-> <<>>,
                    left |-> {}, todo |-> <<>>, lossy |-> FALSE]
      BY DEF NoSnap
    <3>3. snap = NoSnap
      BY DEF Init
    <3> QED BY <3>1, <3>2, <3>3, Zenon
  <2>2. "idle" \in Over
    BY DEF Over
  <2> QED BY <2>1, <2>2, SnapOver
<1>11. ProgsInv
  BY DEF Init, ProgsInv, ReservedOwn, ItemsKnown, WritesOpen
<1> QED BY <1>6, <1>8, <1>9, <1>10, <1>11 DEF StoreInv

-----------------------------------------------------------------------------
(***************************************************************************)
(* Changes by programs keep it                                             *)
(***************************************************************************)
LEMMA StoreKnown ==
    ASSUME StoreInv
    PROVE  /\ StoreOK(store) /\ LinksOK(store, links) /\ LinksApart(links) /\ CounterOK(store)
           /\ SnapTyped(snap) /\ SnapApart(snap) /\ SnapFresh(store, links, snap)
           /\ store[meta] \in Nat /\ Base \in Nat /\ Base <= store[meta]
BY BaseNat DEF StoreInv, StoreOK, CounterOK

\* No new number is reserved, and no link is made to one that is.
LEMMA ProgsKept ==
    ASSUME ProgsInv, CounterOK(store), CounterOK(store'), store[meta] <= store'[meta],
           \A n \in Waiting(snap') : n \in Waiting(snap) \/ store[meta] <= n,
           \A n \in reserved' : n \in reserved /\ \A l \in links' : l \in links \/ l.ino # n,
           \A item \in unlinked' \cup doomed' :
                \/ item \in unlinked \cup doomed
                \/ item.ino \in Numbers(store) /\ item.ino \notin reserved,
           writing' \subseteq [ino : {FileA}, size : Nat]
    PROVE  ProgsInv'
<1>1. \A n \in Numbers(store) : n \in Numbers(store') /\ n \in Nat /\ n < store[meta]
  BY DEF CounterOK, Numbers
<1>2. ASSUME NEW n \in reserved'
      PROVE  /\ n \in Numbers(store') /\ n >= Base /\ n \notin Waiting(snap')
             /\ \A l \in links' : l.ino # n
  <2>1. n \in Numbers(store) /\ n >= Base /\ n \notin Waiting(snap) /\ \A l \in links : l.ino # n
    BY DEF ProgsInv, ReservedOwn
  <2>2. n \notin Waiting(snap')
    BY <1>1, <2>1 DEF CounterOK
  <2> QED BY <1>1, <2>1, <2>2
<1>3. ReservedOwn(store, links, snap)'
  BY <1>2 DEF ReservedOwn
<1>4. \A item \in unlinked' \cup doomed' : item.ino \in Numbers(store) /\ item.ino \notin reserved
  BY DEF ProgsInv, ItemsKnown
<1>5. ItemsKnown(store)'
  BY <1>1, <1>4 DEF ItemsKnown
<1> QED BY <1>3, <1>5 DEF ProgsInv, WritesOpen

\* A step of a snapshot.
LEMMA ProgsBeside ==
    ASSUME StoreInv, StoreInv', ProgsInv, SnapTakes, UNCHANGED progs
    PROVE  ProgsInv'
<1>1. /\ reserved' = reserved /\ unlinked' = unlinked /\ doomed' = doomed /\ writing' = writing
      /\ CounterOK(store) /\ CounterOK(store')
  BY DEF progs, StoreInv, StoreOK
<1>2. \A n \in reserved' : n \in reserved /\ \A l \in links' : l \in links \/ l.ino # n
  BY <1>1 DEF SnapTakes, ProgsInv, ReservedOwn
<1> QED BY <1>1, <1>2, ProgsKept DEF SnapTakes, ProgsInv, WritesOpen

\* Only data changes, and numbers may be handed out.
LEMMA DataKept ==
    ASSUME StoreInv, StoreOK(store'), LinksOK(store', links), store[meta] <= store'[meta],
           links' = links, snap' = snap
    PROVE  StoreInv'
<1>1. SnapFresh(store', links, snap)
  <2>1. CounterOK(store) /\ CounterOK(store') /\ SnapFresh(store, links, snap)
    BY DEF StoreInv, StoreOK
  <2> QED BY <2>1, FreshKept
<1> QED BY <1>1 DEF StoreInv

LEMMA ReserveNewInv ==
    ASSUME StoreInv, ProgsInv, ReserveNew
    PROVE  StoreInv' /\ ProgsInv'
<1>1. StoreOK(store) /\ LinksOK(store, links) /\ CounterOK(store) /\ SnapFresh(store, links, snap)
  BY StoreKnown
<1>2. PICK ino : Reserved(1, ino) /\ reserved' = reserved \cup {ino}
  BY DEF ReserveNew
<1>3. /\ links' = links /\ snap' = snap /\ unlinked' = unlinked /\ doomed' = doomed
      /\ writing' = writing
  BY DEF ReserveNew
<1>4. 1 \in Nat \ {0}
  OBVIOUS
<1>5. /\ StoreOK(store') /\ LinksOK(store', links) /\ ino \in Nat /\ store[meta] \in Nat
      /\ Base \in Nat /\ Base <= store[meta] /\ store[meta] <= ino /\ ino + 1 <= store'[meta]
      /\ store'[meta] \in Nat /\ store[meta] <= store'[meta]
  BY <1>1, <1>2, <1>4, ReservedIs
<1>6. StoreInv'
  BY <1>3, <1>5, DataKept
<1>7. \A n \in Numbers(store) : n \in Numbers(store') /\ n # ino
  BY <1>5 DEF Numbers
<1>8. /\ ino \in Numbers(store') /\ ino >= Base /\ ino \notin Waiting(snap)
      /\ \A l \in links : l.ino # ino
  <2>1. ino \in Numbers(store') /\ ino >= Base
    BY <1>5 DEF Numbers
  <2>2. ino \notin Waiting(snap)
    BY <1>1, <1>7 DEF SnapFresh
  <2> QED BY <1>1, <1>5, <2>1, <2>2, NewNumber
<1>9. ItemsKnown(store)'
  BY <1>2, <1>3, <1>7 DEF ProgsInv, ItemsKnown
<1>10. ReservedOwn(store, links, snap)'
  BY <1>2, <1>3, <1>7, <1>8 DEF ProgsInv, ReservedOwn
<1> QED BY <1>3, <1>6, <1>9, <1>10 DEF ProgsInv, WritesOpen


LEMMA AddChildInv ==
    ASSUME StoreInv, ProgsInv, NEW ino \in reserved, NEW dir \in LiveDirs, NEW name \in Names,
           NEW typ \in Types, AddChild(ino, dir, name, typ)
    PROVE  StoreInv' /\ ProgsInv'
<1> DEFINE l == Link(dir, name, ino)
           key == directory_child(dir, name)
           q1 == InodePairs(ino, typ, "new")
           q2 == IF typ = "Symlink" THEN Pair(inode_x(ino, "InlineData"), "target") ELSE NoPairs
           q3 == LinkPairs(dir, name, Item(ino, typ))
           t1 == Put(store, q1)
           t2 == Put(t1, q2)
<1>1. /\ StoreOK(store) /\ LinksOK(store, links) /\ LinksApart(links) /\ CounterOK(store)
      /\ SnapTyped(snap) /\ SnapApart(snap) /\ SnapFresh(store, links, snap)
      /\ store[meta] \in Nat /\ Base \in Nat
  BY StoreKnown
<1>2. /\ reserved' = reserved \ {ino} /\ unlinked' = unlinked /\ doomed' = doomed
      /\ writing' = writing /\ snap' = snap
  BY DEF AddChild
<1>3. /\ ino \in Numbers(store) /\ ino >= Base /\ ino \in Nat /\ ino \notin Waiting(snap)
      /\ \A k \in links : k.ino # ino
  BY DEF ProgsInv, ReservedOwn, Numbers
<1>4. /\ name \in Keys /\ dir \in Numbers(store) /\ dir \in Nat /\ dir < Base /\ dir \in TreeDirs
      /\ dir \in Word /\ ino \in Word
  <2>1. name \in Keys /\ dir \in Numbers(store) /\ dir \in Nat /\ dir < Base /\ dir \in TreeDirs
    BY <1>1, LiveNumbers
  <2> QED BY <1>1, <1>3, <2>1, NumbersAreWords
<1>5. CASE store' = store /\ links' = links
  <2>1. StoreInv'
    BY <1>1, <1>2, <1>5 DEF StoreInv
  <2>2. ProgsInv'
    BY <1>1, <1>2, <1>5, ProgsKept DEF ProgsInv, WritesOpen
  <2> QED BY <2>1, <2>2
<1>6. CASE key \notin DOMAIN store /\ store' = Put(t2, q3) /\ links' = links \cup {l}
  <2>1. Item(ino, typ).ino = ino /\ Describes(ino, Item(ino, typ))
    BY DEF Item, Describes
  <2>2. DataPairs(q1)
    BY <1>4, InodePairsData
  <2>3. DataPairs(q2)
    <3>1. "InlineData" \in InoMetas \ {"Description"} /\ "InlineData" # "Size"
      BY DEF InoMetas
    <3>2. DataPairs(Pair(inode_x(ino, "InlineData"), "target"))
      BY <1>4, <3>1, MetaPairData
    <3> QED BY <3>2, NoPairsData
  <2> HIDE DEF q1, q2
  <2>4. OfKind(key, "DirectoryChild") /\ key \notin DOMAIN q1 /\ key \notin DOMAIN q2
    <3>1. OfKind(key, "DirectoryChild")
      BY <1>4, ChildKey
    <3> QED BY <2>2, <2>3, <3>1, DataOtherKeys
  <2>5. StoreOK(t1) /\ LinksOK(t1, links) /\ t1[meta] = store[meta]
    BY <1>1, <2>2, DataPut
  <2>6. DOMAIN t1 = DOMAIN store \cup DOMAIN q1 /\ DOMAIN t2 = DOMAIN t1 \cup DOMAIN q2
    BY PutIs
  <2> HIDE DEF t1
  <2>7. StoreOK(t2) /\ LinksOK(t2, links) /\ t2[meta] = store[meta]
    BY <2>3, <2>5, DataPut
  <2> HIDE DEF t2
  <2>8. key \notin DOMAIN t2
    BY <1>6, <2>4, <2>6
  <2>9. CounterOK(t2) /\ dir \in Numbers(t2) /\ ino \in Numbers(t2)
    BY <1>3, <1>4, <2>7 DEF StoreOK, Numbers
  <2>10. NewLinks(t2, {l}, q3)
    BY <1>4, <2>1, <2>8, <2>9, LinkPairsNew
  <2>11. l.dir = dir /\ l.ino = ino
    BY DEF Link
  <2> HIDE DEF l, q3
  <2>12. StoreOK(store') /\ LinksOK(store', links') /\ store'[meta] = store[meta]
    BY <1>6, <2>7, <2>10, LinksPut
  <2>13. LinksApart(links')
    <3>1. \A n \in {l} : n.ino >= Base /\ \A k \in links : k.ino # n.ino
      BY <1>3, <2>11
    <3> QED BY <1>1, <1>6, <3>1, ApartKept
  <2>14. CounterOK(store') /\ store[meta] <= store'[meta]
    BY <1>1, <2>12 DEF StoreOK
  <2>15. SnapFresh(store', links', snap')
    <3>1. l.dir \notin Waiting(snap) /\ l.ino \notin Unlinked(snap)
      BY <1>1, <1>3, <1>4, <2>11, UnlinkedWaits DEF SnapFresh
    <3> QED BY <1>1, <1>2, <1>6, <2>14, <3>1, FreshKept
  <2>16. StoreInv'
    BY <1>1, <1>2, <2>12, <2>13, <2>15 DEF StoreInv
  <2>17. \A n \in reserved' : n \in reserved /\ \A k \in links' : k \in links \/ k.ino # n
    BY <1>2, <1>6, <2>11
  <2>18. ProgsInv'
    BY <1>1, <1>2, <2>14, <2>17, ProgsKept DEF ProgsInv, WritesOpen
  <2> QED BY <2>16, <2>18
<1> QED BY <1>5, <1>6 DEF AddChild

LEMMA HardLinkInv ==
    ASSUME StoreInv, ProgsInv, NEW ino \in {FileA, FileB}, NEW dir \in LiveDirs, NEW name \in Names,
           HardLink(ino, dir, name)
    PROVE  StoreInv' /\ ProgsInv'
<1> DEFINE item == Item(ino, store[inode_x(ino, "Description")].typ)
           l == Link(dir, name, ino)
           q == LinkPairs(dir, name, item)
<1>1. /\ StoreOK(store) /\ LinksOK(store, links) /\ LinksApart(links) /\ CounterOK(store)
      /\ SnapTyped(snap) /\ SnapApart(snap) /\ SnapFresh(store, links, snap)
      /\ store[meta] \in Nat /\ Base \in Nat
  BY StoreKnown
<1>2. /\ directory_child(dir, name) \notin DOMAIN store
      /\ inode_x(ino, "Description") \in DOMAIN store
      /\ store' = Put(store, q) /\ links' = links \cup {l} /\ snap' = snap
  BY DEF HardLink, Writes
<1>3. /\ reserved' = reserved /\ unlinked' = unlinked /\ doomed' = doomed /\ writing' = writing
  BY DEF HardLink, progs
<1>4. /\ name \in Keys /\ dir \in Numbers(store) /\ dir \in Nat /\ dir < Base /\ dir \in TreeDirs
      /\ ino \in Numbers(store) /\ ino \in Nat /\ ino < Base
  BY <1>1, LiveNumbers
<1>5. ino \in Word
  BY <1>1, <1>4, NumbersAreWords
<1>6. Describes(ino, item)
  <2>1. Describes(ino, store[inode_x(ino, "Description")])
    BY <1>1, <1>2, <1>5 DEF StoreOK, DescribedSelf
  <2> QED BY <2>1 DEF Describes, Item
<1> HIDE DEF item
<1>7. NewLinks(store, {l}, q)
  BY <1>1, <1>2, <1>4, <1>6, LinkPairsNew
<1>8. l.dir = dir /\ l.ino = ino
  BY DEF Link
<1> HIDE DEF l, q
<1>9. StoreOK(store') /\ LinksOK(store', links') /\ store'[meta] = store[meta]
  BY <1>1, <1>2, <1>7, LinksPut
<1>10. LinksApart(links')
  <2>1. \A k \in links : k.ino = ino => k.dir \in TreeDirs
    BY <1>1, <1>4 DEF LinksApart
  <2>2. \A k \in links' : k.dir \in TreeDirs \/ k.ino >= Base
    BY <1>1, <1>2, <1>4, <1>8 DEF LinksApart
  <2>3. ASSUME NEW k \in links', NEW m \in links', k.ino = m.ino, k # m
        PROVE  {k.dir, m.dir} \subseteq TreeDirs
    <3>1. CASE k \in links /\ m \in links
      BY <1>1, <2>3, <3>1, Zenon DEF LinksApart
    <3>2. CASE k = l \/ m = l
      BY <1>2, <1>4, <1>8, <2>1, <2>3, <3>2
    <3> QED BY <1>2, <3>1, <3>2
  <2> QED BY <2>2, <2>3 DEF LinksApart
<1>11. CounterOK(store') /\ store[meta] <= store'[meta]
  BY <1>1, <1>9 DEF StoreOK
<1>12. SnapFresh(store', links', snap')
  <2>1. l.dir \notin Waiting(snap) /\ l.ino \notin Waiting(snap)
    BY <1>1, <1>4, <1>8 DEF SnapFresh
  <2>2. \A k \in links' : k \in links \/ (k.dir \notin Waiting(snap) /\ k.ino \notin Unlinked(snap))
    BY <1>2, <2>1, UnlinkedWaits
  <2> QED BY <1>1, <1>2, <1>11, <2>2, FreshKept
<1>13. \A n \in reserved' : n \in reserved /\ \A k \in links' : k \in links \/ k.ino # n
  BY <1>1, <1>2, <1>3, <1>4, <1>8 DEF ProgsInv, ReservedOwn
<1>14. ProgsInv'
  BY <1>1, <1>2, <1>3, <1>11, <1>13, ProgsKept DEF ProgsInv, WritesOpen
<1> QED BY <1>1, <1>2, <1>9, <1>10, <1>12, <1>14 DEF StoreInv


\* An entry that is found is that of a link.
LEMMA EntryLinked ==
    ASSUME NEW s, NEW L, StoreOK(s), LinksOK(s, L), NEW dir \in Numbers(s), NEW name \in Keys,
           NEW item \in Get(s, directory_child(dir, name))
    PROVE  /\ Link(dir, name, item.ino) \in L /\ IsLink(s, Link(dir, name, item.ino))
           /\ LinkEnds(dir, name, item) =
                {Entry(Link(dir, name, item.ino)), Parent(Link(dir, name, item.ino))}
           /\ Entry(Link(dir, name, item.ino)) = directory_child(dir, name)
           /\ item = s[directory_child(dir, name)] /\ directory_child(dir, name) \in DOMAIN s
           /\ Describes(item.ino, item) /\ item.ino \in Numbers(s)
<1> DEFINE k == directory_child(dir, name)
           l == Link(dir, name, item.ino)
<1>1. k \in DOMAIN s /\ item = s[k]
  BY DEF Get
<1>2. CounterOK(s) /\ dir \in Word
  BY NumbersAreWords DEF StoreOK
<1>3. OfKind(k, "DirectoryChild")
  BY <1>2, ChildKey
<1>4. PICK e \in L : k = Entry(e)
  BY <1>1, <1>3 DEF LinksOK
<1>5. IsLink(s, e) /\ LinkStored(s, e)
  BY DEF LinksOK
<1>6. e.dir \in Word /\ e.name \in Keys /\ e = Link(e.dir, e.name, e.ino)
  BY <1>2, <1>5, LinkKeys
<1>7. e.dir = dir /\ e.name = name
  <2>1. directory_child(e.dir, e.name) = directory_child(dir, name)
    BY <1>4 DEF Entry
  <2> QED BY <1>2, <1>6, <2>1, ChildKeyInjective
<1>8. e.ino = item.ino /\ Describes(item.ino, item) /\ item.ino \in Numbers(s)
  BY <1>1, <1>4, <1>5, DescribesOne DEF LinkStored, IsLink
<1>9. e = l
  BY <1>6, <1>7, <1>8
<1>10. LinkEnds(dir, name, item) = {Entry(e), Parent(e)}
  BY <1>7, <1>8 DEF LinkEnds, Entry, Parent
<1> HIDE DEF l
<1> QED BY <1>1, <1>4, <1>5, <1>8, <1>9, <1>10 DEF l

LEMMA LinkRemoved ==
    ASSUME StoreInv, NEW dir \in Numbers(store), NEW name \in Keys,
           NEW item \in Get(store, directory_child(dir, name)),
           store' = Drop(store, LinkEnds(dir, name, item)),
           links' = links \ {Link(dir, name, item.ino)}, snap' = snap
    PROVE  /\ StoreInv' /\ CounterOK(store') /\ store'[meta] = store[meta]
           /\ store[meta] <= store'[meta]
<1> DEFINE l == Link(dir, name, item.ino)
<1>1. /\ StoreOK(store) /\ LinksOK(store, links) /\ LinksApart(links) /\ CounterOK(store)
      /\ SnapTyped(snap) /\ SnapApart(snap) /\ SnapFresh(store, links, snap)
      /\ store[meta] \in Nat
  BY StoreKnown
<1>2. l \in links /\ LinkEnds(dir, name, item) = {Entry(l), Parent(l)}
  BY <1>1, EntryLinked
<1> HIDE DEF l
<1>3. store' = Drop(store, {Entry(l), Parent(l)}) /\ links' = links \ {l}
  BY <1>2 DEF l
<1>4. StoreOK(store') /\ LinksOK(store', links') /\ store'[meta] = store[meta]
  BY <1>1, <1>2, <1>3, LinkGone
<1>5. LinksApart(links')
  BY <1>1, <1>3, Zenon DEF LinksApart
<1>6. CounterOK(store') /\ store[meta] <= store'[meta]
  BY <1>1, <1>4 DEF StoreOK
<1>7. SnapFresh(store', links', snap')
  BY <1>1, <1>3, <1>6, FreshKept
<1> QED BY <1>1, <1>4, <1>5, <1>6, <1>7 DEF StoreInv

\* The directory and the name of a link in the tree.
LEMMA LiveLink ==
    ASSUME StoreInv, NEW l \in links, l.dir \in LiveDirs
    PROVE  l.dir \in Numbers(store) /\ l.name \in Keys
BY DEF StoreInv, LinksOK, IsLink

\* An entry goes, and its item may be kept for the check of its inode.
LEMMA RemovalInv ==
    ASSUME StoreInv, ProgsInv, NEW l \in links, l.dir \in LiveDirs,
           Unlink(l.dir, l.name) \/ Rmdir(l.dir, l.name)
    PROVE  StoreInv' /\ ProgsInv'
<1> DEFINE key == directory_child(l.dir, l.name)
<1>1. PICK item \in Get(store, key) :
        /\ store' = Drop(store, LinkEnds(l.dir, l.name, item))
        /\ links' = links \ {Link(l.dir, l.name, item.ino)}
        /\ unlinked' = unlinked \cup {item} \/ unlinked' = unlinked
  BY DEF Unlink, Rmdir, Deletes, progs
<1>2. snap' = snap /\ reserved' = reserved /\ doomed' = doomed /\ writing' = writing
  BY DEF Unlink, Rmdir, progs
<1>3. l.dir \in Numbers(store) /\ l.name \in Keys
  BY LiveLink
<1>4. /\ StoreOK(store) /\ LinksOK(store, links) /\ CounterOK(store)
  BY StoreKnown
<1>5. Link(l.dir, l.name, item.ino) \in links /\ item.ino \in Numbers(store)
  BY <1>3, <1>4, EntryLinked
<1> HIDE DEF key
<1>6. StoreInv' /\ CounterOK(store') /\ store[meta] <= store'[meta]
  BY <1>1, <1>2, <1>3, LinkRemoved DEF key
<1>7. item.ino \notin reserved
  <2>1. Link(l.dir, l.name, item.ino).ino = item.ino
    BY DEF Link
  <2> QED BY <1>5, <2>1 DEF ProgsInv, ReservedOwn
<1>8. \A k \in links' : k \in links
  BY <1>1
<1>9. \A i \in unlinked' \cup doomed' :
        i \in unlinked \cup doomed \/ (i.ino \in Numbers(store) /\ i.ino \notin reserved)
  BY <1>1, <1>2, <1>5, <1>7
<1>10. ProgsInv'
  BY <1>2, <1>4, <1>6, <1>8, <1>9, ProgsKept DEF ProgsInv, WritesOpen
<1> QED BY <1>6, <1>10


\* An entry gets a new name, the inode behind it stays.
LEMMA LinkRenamed ==
    ASSUME StoreInv, NEW dir \in LiveDirs, NEW name \in Keys, NEW newDir \in LiveDirs,
           NEW newName \in Names, NEW item \in Get(store, directory_child(dir, name)), NEW typ \in Types,
           directory_child(newDir, newName) \notin DOMAIN store,
           store' = Drop(Put(store, LinkPairs(newDir, newName, Item(item.ino, typ))),
                         LinkEnds(dir, name, item)),
           links' = (links \cup {Link(newDir, newName, item.ino)}) \ {Link(dir, name, item.ino)},
           snap' = snap
    PROVE  /\ StoreInv' /\ CounterOK(store') /\ store[meta] <= store'[meta]
           /\ Link(dir, name, item.ino) \in links
<1> DEFINE old == Link(dir, name, item.ino)
           new == Link(newDir, newName, item.ino)
           q == LinkPairs(newDir, newName, Item(item.ino, typ))
           t == Put(store, q)
<1>1. /\ StoreOK(store) /\ LinksOK(store, links) /\ LinksApart(links) /\ CounterOK(store)
      /\ SnapTyped(snap) /\ SnapApart(snap) /\ SnapFresh(store, links, snap)
      /\ store[meta] \in Nat /\ Base \in Nat
  BY StoreKnown
<1>2. /\ dir \in Numbers(store) /\ dir \in TreeDirs /\ newDir \in Numbers(store) /\ newDir \in TreeDirs
      /\ newName \in Keys /\ newDir \in Nat /\ newDir < Base
  BY <1>1, LiveNumbers
<1>3. /\ old \in links /\ item.ino \in Numbers(store)
      /\ LinkEnds(dir, name, item) = {Entry(old), Parent(old)}
  BY <1>1, <1>2, EntryLinked
<1>4. Describes(item.ino, Item(item.ino, typ))
  BY DEF Describes, Item
<1>5. NewLinks(store, {new}, q)
  BY <1>1, <1>2, <1>3, <1>4, LinkPairsNew
<1>6. /\ old.dir = dir /\ old.ino = item.ino /\ new.dir = newDir /\ new.ino = item.ino
  BY DEF Link
<1> HIDE DEF old, new, q
<1>7. StoreOK(t) /\ LinksOK(t, links \cup {new}) /\ t[meta] = store[meta]
  BY <1>1, <1>5, LinksPut
<1>8. store' = Drop(t, {Entry(old), Parent(old)}) /\ links' = (links \cup {new}) \ {old}
  BY <1>3 DEF old, new, q
<1> HIDE DEF t
<1>9. StoreOK(store') /\ LinksOK(store', links') /\ store'[meta] = store[meta]
  BY <1>3, <1>7, <1>8, LinkGone
<1>10. LinksApart(links')
  <2>1. \A k \in links' : k.dir \in TreeDirs \/ k.ino >= Base
    BY <1>1, <1>2, <1>6, <1>8 DEF LinksApart
  <2>2. \A k \in links : k.ino = item.ino /\ k # old => k.dir \in TreeDirs
    BY <1>1, <1>3, <1>6 DEF LinksApart
  <2>3. ASSUME NEW k \in links', NEW m \in links', k.ino = m.ino, k # m
        PROVE  {k.dir, m.dir} \subseteq TreeDirs
    <3>1. CASE k \in links /\ m \in links
      BY <1>1, <2>3, <3>1, Zenon DEF LinksApart
    <3>2. CASE k = new \/ m = new
      BY <1>2, <1>6, <1>8, <2>2, <2>3, <3>2
    <3> QED BY <1>8, <3>1, <3>2
  <2> QED BY <2>1, <2>3 DEF LinksApart
<1>11. CounterOK(store') /\ store[meta] <= store'[meta]
  BY <1>1, <1>9 DEF StoreOK
<1>12. SnapFresh(store', links', snap')
  <2>1. new.dir \notin Waiting(snap) /\ new.ino \notin Unlinked(snap)
    BY <1>1, <1>2, <1>3, <1>6 DEF SnapFresh
  <2>2. \A k \in links' : k \in links \/ (k.dir \notin Waiting(snap) /\ k.ino \notin Unlinked(snap))
    BY <1>8, <2>1
  <2> QED BY <1>1, <1>11, <2>2, FreshKept
<1> QED BY <1>1, <1>3, <1>9, <1>10, <1>11, <1>12 DEF StoreInv, old

LEMMA RenameInv ==
    ASSUME StoreInv, ProgsInv, NEW l \in links, l.dir \in LiveDirs, NEW newDir \in LiveDirs,
           NEW newName \in Names, Rename(l.dir, l.name, newDir, newName)
    PROVE  StoreInv' /\ ProgsInv'
<1> DEFINE key == directory_child(l.dir, l.name)
<1>1. PICK item \in Get(store, key) :
        \/ /\ store' = Drop(store, LinkEnds(l.dir, l.name, item))
           /\ links' = links \ {Link(l.dir, l.name, item.ino)}
        \/ /\ directory_child(newDir, newName) \notin DOMAIN store
           /\ inode_x(item.ino, "Description") \in DOMAIN store
           /\ store' = Drop(Put(store, LinkPairs(newDir, newName,
                        Item(item.ino, store[inode_x(item.ino, "Description")].typ))),
                            LinkEnds(l.dir, l.name, item))
           /\ links' = (links \cup {Link(newDir, newName, item.ino)}) \ {Link(l.dir, l.name, item.ino)}
  BY DEF Rename, Deletes
<1>2. /\ snap' = snap /\ reserved' = reserved /\ unlinked' = unlinked /\ doomed' = doomed
      /\ writing' = writing
  BY DEF Rename, progs
<1>3. l.dir \in Numbers(store) /\ l.name \in Keys
  BY LiveLink
<1>4. StoreOK(store) /\ LinksOK(store, links) /\ CounterOK(store)
  BY StoreKnown
<1>5. item.ino \in Numbers(store) /\ item.ino \in Word
  <2>1. item.ino \in Numbers(store)
    BY <1>3, <1>4, EntryLinked
  <2> QED BY <1>4, <2>1, NumbersAreWords
<1>6. CASE /\ store' = Drop(store, LinkEnds(l.dir, l.name, item))
           /\ links' = links \ {Link(l.dir, l.name, item.ino)}
  <2>1. StoreInv' /\ CounterOK(store') /\ store[meta] <= store'[meta]
    BY <1>2, <1>3, <1>6, LinkRemoved
  <2>2. ProgsInv'
    BY <1>2, <1>4, <1>6, <2>1, ProgsKept DEF ProgsInv, WritesOpen
  <2> QED BY <2>1, <2>2
<1>7. CASE /\ directory_child(newDir, newName) \notin DOMAIN store
           /\ inode_x(item.ino, "Description") \in DOMAIN store
           /\ store' = Drop(Put(store, LinkPairs(newDir, newName,
                        Item(item.ino, store[inode_x(item.ino, "Description")].typ))),
                            LinkEnds(l.dir, l.name, item))
           /\ links' = (links \cup {Link(newDir, newName, item.ino)}) \ {Link(l.dir, l.name, item.ino)}
  <2> DEFINE typ == store[inode_x(item.ino, "Description")].typ
  <2>1. typ \in Types
    <3>1. Describes(item.ino, store[inode_x(item.ino, "Description")])
      BY <1>4, <1>5, <1>7 DEF StoreOK, DescribedSelf
    <3> QED BY <3>1, DescribesOne
  <2>2. store' = Drop(Put(store, LinkPairs(newDir, newName, Item(item.ino, typ))),
                      LinkEnds(l.dir, l.name, item))
    BY <1>7
  <2> HIDE DEF typ
  <2>3. /\ StoreInv' /\ CounterOK(store') /\ store[meta] <= store'[meta]
        /\ Link(l.dir, l.name, item.ino) \in links
    BY <1>2, <1>3, <1>7, <2>1, <2>2, LinkRenamed
  <2>4. Link(l.dir, l.name, item.ino).ino = item.ino /\ Link(newDir, newName, item.ino).ino = item.ino
    BY DEF Link
  <2>5. \A n \in reserved : n # item.ino
    BY <2>3, <2>4 DEF ProgsInv, ReservedOwn
  <2>6. \A n \in reserved' : n \in reserved /\ \A k \in links' : k \in links \/ k.ino # n
    BY <1>2, <1>7, <2>4, <2>5
  <2>7. ProgsInv'
    BY <1>2, <1>4, <2>3, <2>6, ProgsKept DEF ProgsInv, WritesOpen
  <2> QED BY <2>3, <2>7
<1> QED BY <1>1, <1>6, <1>7

\* The numbers of blocks below a size may be any: their keys are of blocks.
LEMMA BlockKeyKind ==
    ASSUME NEW ino \in Word, NEW index \in Nat
    PROVE  OfKind(block_hash(ino, index), "InoBlockHashMapping")
<1>1. "InoBlockHashMapping" \in KindsUsed
  BY DifferentKinds
<1>2. OfKind(BlockKind, "InoBlockHashMapping")
  BY <1>1, KindPrefix DEF BlockKind
<1>3. write_big_endian(ino) \in Keys /\ write_big_endian(index) \in Keys
  BY WordBytes, BytesAre DEF Keys, Bytes
<1>4. OfKind(BlockKind \o write_big_endian(ino), "InoBlockHashMapping")
  BY <1>1, <1>2, <1>3, KindConcat
<1> QED BY <1>1, <1>3, <1>4, KindConcat DEF block_hash, BlockKind

\* Attributes and blocks of removed inodes go.
LEMMA DataDropped ==
    ASSUME StoreInv, NEW K, \A k \in K : OfKind(k, "InoMetadata") \/ OfKind(k, "InoBlockHashMapping"),
           store' = Drop(store, K), links' = links, snap' = snap
    PROVE  StoreInv' /\ CounterOK(store') /\ store[meta] <= store'[meta]
<1>1. StoreOK(store) /\ LinksOK(store, links)
  BY StoreKnown
<1>2. StoreOK(store') /\ LinksOK(store', links) /\ store'[meta] = store[meta]
  BY <1>1, DataGone
<1> QED BY <1>1, <1>2, DataKept, SameCounter DEF StoreOK

LEMMA CheckDeleteInv ==
    ASSUME StoreInv, ProgsInv, NEW item \in unlinked, CheckDelete(item)
    PROVE  StoreInv' /\ ProgsInv'
<1> DEFINE K == {inode_x(item.ino, "Description")}
<1>1. /\ links' = links /\ snap' = snap /\ reserved' = reserved /\ writing' = writing
      /\ unlinked' = unlinked \ {item}
      /\ \/ store' = Drop(store, K) /\ doomed' = doomed \cup {item}
         \/ store' = store /\ doomed' = doomed
  BY DEF CheckDelete, Deletes
<1>2. StoreOK(store) /\ CounterOK(store)
  BY StoreKnown
<1>3. item.ino \in Numbers(store) /\ item.ino \notin reserved /\ item.ino \in Word
  <2>1. item.ino \in Numbers(store) /\ item.ino \notin reserved
    BY DEF ProgsInv, ItemsKnown
  <2> QED BY <1>2, <2>1, NumbersAreWords
<1>4. \A k \in K : OfKind(k, "InoMetadata")
  BY <1>3, InodeKey DEF InoMetas
<1> HIDE DEF K
<1>5. StoreInv' /\ CounterOK(store') /\ store[meta] <= store'[meta]
  <2>1. CASE store' = Drop(store, K)
    BY <1>1, <1>4, <2>1, DataDropped
  <2>2. CASE store' = store
    BY <1>1, <1>2, <2>2, SameCounter DEF StoreInv
  <2> QED BY <1>1, <2>1, <2>2
<1>6. \A i \in unlinked' \cup doomed' :
        i \in unlinked \cup doomed \/ (i.ino \in Numbers(store) /\ i.ino \notin reserved)
  BY <1>1, <1>3
<1> QED BY <1>1, <1>2, <1>5, <1>6, ProgsKept DEF ProgsInv, WritesOpen

\* What a step of a purge deletes.
LEMMA PurgeIs ==
    ASSUME StoreInv, ProgsInv, NEW item \in doomed, Purge(item)
    PROVE  /\ links' = links /\ snap' = snap /\ reserved' = reserved /\ unlinked' = unlinked
           /\ writing' = writing /\ doomed' \subseteq doomed /\ listing' = listing
           /\ \/ store' = store
              \/ \E K : /\ store' = Drop(store, K)
                        /\ \A k \in K : \/ OfKind(k, "InoBlockHashMapping")
                                        \/ \E m \in InoMetas : k = inode_x(item.ino, m)
           /\ item.ino \in Word
<1>1. StoreOK(store) /\ CounterOK(store)
  BY StoreKnown
<1>2. item.ino \in Word
  <2>1. item.ino \in Numbers(store)
    BY DEF ProgsInv, ItemsKnown
  <2> QED BY <1>1, <2>1, NumbersAreWords
<1>3. /\ links' = links /\ snap' = snap /\ reserved' = reserved /\ unlinked' = unlinked
      /\ writing' = writing /\ doomed' \subseteq doomed /\ listing' = listing
  BY DEF Purge
<1>4. ASSUME NEW k \in BlockKeys(item) PROVE OfKind(k, "InoBlockHashMapping")
  <2>1. PICK size \in Get(store, inode_x(item.ino, "Size")) :
            k \in {block_hash(item.ino, i) : i \in 0..(size - 1)}
    BY <1>4 DEF BlockKeys
  <2>2. size \in Nat
    BY <1>1, <1>2, <2>1 DEF Get, StoreOK, DescribedSelf
  <2>3. PICK i \in 0..(size - 1) : k = block_hash(item.ino, i)
    BY <2>1
  <2>4. i \in Nat
    BY <2>2
  <2> QED BY <1>2, <2>3, <2>4, BlockKeyKind
<1>5. ASSUME NEW i \in MetaLeft(item) PROVE InoMetadata[i] \in InoMetas
  <2>1. i \in DOMAIN InoMetadata
    BY <1>5 DEF MetaLeft
  <2> QED BY <2>1, MetaIds DEF ToSet
<1>6. CASE \E k \in BlockKeys(item) : Deletes({k})
  <2>1. PICK k \in BlockKeys(item) : store' = Drop(store, {k})
    BY <1>6 DEF Deletes
  <2>2. \A x \in {k} : OfKind(x, "InoBlockHashMapping")
    BY <1>4
  <2> DEFINE K == {k}
  <2>3. store' = Drop(store, K) /\ \A x \in K : OfKind(x, "InoBlockHashMapping")
    BY <2>1, <2>2
  <2> HIDE DEF K
  <2> QED BY <1>2, <1>3, <2>3
<1>7. CASE \E i \in MetaLeft(item) : Deletes({inode_x(item.ino, InoMetadata[i])})
  <2>1. PICK i \in MetaLeft(item) : store' = Drop(store, {inode_x(item.ino, InoMetadata[i])})
    BY <1>7 DEF Deletes
  <2> DEFINE K == {inode_x(item.ino, InoMetadata[i])}
  <2>2. store' = Drop(store, K) /\ \A x \in K : \E m \in InoMetas : x = inode_x(item.ino, m)
    BY <1>5, <2>1
  <2> HIDE DEF K
  <2> QED BY <1>2, <1>3, <2>2
<1>8. CASE store' = store
  BY <1>2, <1>3, <1>8
<1> QED BY <1>6, <1>7, <1>8 DEF Purge

LEMMA PurgeInv ==
    ASSUME StoreInv, ProgsInv, NEW item \in doomed, Purge(item)
    PROVE  StoreInv' /\ ProgsInv'
<1>1. /\ links' = links /\ snap' = snap /\ reserved' = reserved /\ unlinked' = unlinked
      /\ writing' = writing /\ doomed' \subseteq doomed /\ item.ino \in Word
      /\ \/ store' = store
         \/ \E K : /\ store' = Drop(store, K)
                   /\ \A k \in K : \/ OfKind(k, "InoBlockHashMapping")
                                   \/ \E m \in InoMetas : k = inode_x(item.ino, m)
  BY PurgeIs
<1>2. StoreOK(store) /\ CounterOK(store)
  BY StoreKnown
<1>3. StoreInv' /\ CounterOK(store') /\ store[meta] <= store'[meta]
  <2>1. CASE store' = store
    BY <1>1, <1>2, <2>1, SameCounter DEF StoreInv
  <2>2. ASSUME NEW K, store' = Drop(store, K),
               \A k \in K : \/ OfKind(k, "InoBlockHashMapping")
                            \/ \E m \in InoMetas : k = inode_x(item.ino, m)
        PROVE  StoreInv' /\ CounterOK(store') /\ store[meta] <= store'[meta]
    <3>1. \A k \in K : OfKind(k, "InoMetadata") \/ OfKind(k, "InoBlockHashMapping")
      BY <1>1, <2>2, InodeKey
    <3> QED BY <1>1, <2>2, <3>1, DataDropped
  <2> QED BY <1>1, <2>1, <2>2
<1> QED BY <1>1, <1>2, <1>3, ProgsKept DEF ProgsInv, WritesOpen

LEMMA WriteHashesInv ==
    ASSUME StoreInv, ProgsInv, NEW s \in Spans, WriteHashes(FileA, s[1], s[2])
    PROVE  StoreInv' /\ ProgsInv'
<1> DEFINE I == s[1]..s[2]
           K == {block_hash(FileA, i) : i \in I}
           q == [k \in K |-> Hash2]
<1>1. /\ store' = Put(store, q) /\ links' = links /\ snap' = snap /\ reserved' = reserved
      /\ unlinked' = unlinked /\ doomed' = doomed
      /\ writing' = writing \cup {[ino |-> FileA, size |-> s[2] + 1]}
  BY DEF WriteHashes, Writes
<1>2. StoreOK(store) /\ LinksOK(store, links) /\ CounterOK(store)
  BY StoreKnown
<1>3. FileA \in Word
  BY <1>2, LiveNumbers, NumbersAreWords
<1>4. s[1] \in Nat /\ s[2] \in Nat /\ s[2] + 1 < WordValues
  BY DirectoryStoreAssumption
<1>5. \A i \in I : i \in Word
  BY <1>4, ValuesAre DEF Word
<1>6. IsFiniteSet(K)
  <2>1. IsFiniteSet(I)
    BY <1>4, FS_Interval
  <2> DEFINE f == [i \in I |-> block_hash(FileA, i)]
  <2>2. K = {f[i] : i \in I}
    OBVIOUS
  <2> HIDE DEF I, f
  <2> QED BY <2>1, <2>2, FiniteImage
<1>7. DOMAIN q = K
  OBVIOUS
<1> HIDE DEF I, q
<1>8. \A k \in K : \E ino \in Word, index \in Word : k = block_hash(ino, index)
  BY <1>3, <1>5
<1>9. \A k \in K : OfKind(k, "InoBlockHashMapping")
  BY <1>8, BlockKey
<1> HIDE DEF K
<1>10. DescribedSelf(q)
  BY <1>7, <1>9, DifferentKinds, OtherNotDescribed
<1>11. DataPairs(q)
  BY <1>6, <1>7, <1>8, <1>10 DEF DataPairs
<1>12. StoreOK(store') /\ LinksOK(store', links) /\ store'[meta] = store[meta]
  BY <1>1, <1>2, <1>11, DataPut
<1>13. StoreInv' /\ CounterOK(store') /\ store[meta] <= store'[meta]
  BY <1>1, <1>2, <1>12, DataKept, SameCounter DEF StoreOK
<1>14. writing' \subseteq [ino : {FileA}, size : Nat]
  BY <1>1, <1>4 DEF ProgsInv, WritesOpen
<1> QED BY <1>1, <1>2, <1>13, <1>14, ProgsKept

LEMMA WriteSizeInv ==
    ASSUME StoreInv, ProgsInv, NEW w \in writing, WriteSize(w)
    PROVE  StoreInv' /\ ProgsInv'
<1>1. /\ links' = links /\ snap' = snap /\ reserved' = reserved
      /\ unlinked' = unlinked /\ doomed' = doomed /\ writing' \subseteq writing
  BY DEF WriteSize
<1>2. StoreOK(store) /\ LinksOK(store, links) /\ CounterOK(store)
  BY StoreKnown
<1>3. w.ino = FileA /\ w.size \in Nat /\ FileA \in Word
  BY <1>2, LiveNumbers, NumbersAreWords DEF ProgsInv, WritesOpen
<1>4. "Size" \in InoMetas \ {"Description"}
  BY DEF InoMetas
<1>5. PICK q : store' = Put(store, q) /\ DataPairs(q)
  <2>1. DataPairs(Pair(inode_x(FileA, "Size"), w.size))
    BY <1>3, <1>4, MetaPairData
  <2> QED BY <1>3, <2>1, NoPairsData DEF WriteSize, Writes
<1>6. StoreOK(store') /\ LinksOK(store', links) /\ store'[meta] = store[meta]
  BY <1>2, <1>5, DataPut
<1>7. StoreInv' /\ CounterOK(store') /\ store[meta] <= store'[meta]
  BY <1>1, <1>2, <1>6, DataKept, SameCounter DEF StoreOK
<1>8. writing' \subseteq [ino : {FileA}, size : Nat]
  BY <1>1 DEF ProgsInv, WritesOpen
<1> QED BY <1>1, <1>2, <1>7, <1>8, ProgsKept


LEMMA NextInv ==
    ASSUME StoreInv, ProgsInv, [Next]_vars
    PROVE  StoreInv' /\ ProgsInv'
<1>1. CASE UNCHANGED <<store, links, progs, snap>>
  BY <1>1 DEF StoreInv, ProgsInv, ReservedOwn, ItemsKnown, WritesOpen, progs
<1>2. CASE ReserveNew
  BY <1>2, ReserveNewInv
<1>3. ASSUME NEW dir \in LiveDirs, NEW name \in Names,
             NEW ino \in reserved, NEW typ \in {"File", "Directory", "Symlink"},
             AddChild(ino, dir, name, typ)
      PROVE  StoreInv' /\ ProgsInv'
  BY <1>3, AddChildInv DEF Types
<1>4. ASSUME NEW dir \in LiveDirs, NEW name \in Names, NEW ino \in {FileA, FileB},
             HardLink(ino, dir, name)
      PROVE  StoreInv' /\ ProgsInv'
  BY <1>4, HardLinkInv
<1>5. ASSUME NEW l \in links, l.dir \in LiveDirs, Unlink(l.dir, l.name) \/ Rmdir(l.dir, l.name)
      PROVE  StoreInv' /\ ProgsInv'
  BY <1>5, RemovalInv
<1>6. ASSUME NEW l \in links, l.dir \in LiveDirs, NEW dir \in LiveDirs, NEW name \in Names,
             Rename(l.dir, l.name, dir, name)
      PROVE  StoreInv' /\ ProgsInv'
  BY <1>6, RenameInv
<1>7. ASSUME NEW item \in unlinked, CheckDelete(item) PROVE StoreInv' /\ ProgsInv'
  BY <1>7, CheckDeleteInv
<1>8. ASSUME NEW item \in doomed, Purge(item) PROVE StoreInv' /\ ProgsInv'
  BY <1>8, PurgeInv
<1>9. ASSUME NEW s \in Spans, WriteHashes(FileA, s[1], s[2]) PROVE StoreInv' /\ ProgsInv'
  BY <1>9, WriteHashesInv
<1>10. ASSUME NEW w \in writing, WriteSize(w) PROVE StoreInv' /\ ProgsInv'
  BY <1>10, WriteSizeInv
<1>11. CASE \/ \E dir \in LiveDirs : OpenDir(dir)
            \/ \E n \in 1..MaxPage : readdir(n)
  <2>1. UNCHANGED <<store, links, progs, snap>>
    BY <1>11 DEF OpenDir, readdir, progs
  <2> QED BY <1>1, <2>1
<1>12. CASE SnapBegin \/ SnapStep \/ SnapAttrsFails \/ SnapFails
  <2>1. UNCHANGED progs
    BY <1>12 DEF SnapBegin, SnapStep, SnapAttrsFails, SnapFails, SnapReserve, SnapAdd, SnapScan,
                 SnapLink, SnapAttrs, SnapData, SnapDone
  <2>2. StoreInv' /\ SnapTakes
    BY <1>12, SnapBeginInv, SnapAttrsFailsInv, SnapFailsInv, SnapReserveInv, SnapAddInv,
       SnapScanInv, SnapLinkInv, SnapAttrsInv, SnapDataInv, SnapDoneInv DEF SnapStep
  <2> QED BY <2>1, <2>2, ProgsBeside
<1>13. CASE Programs
  BY <1>2, <1>3, <1>4, <1>5, <1>6, <1>7, <1>8, <1>9, <1>10, <1>13 DEF Programs
<1>14. CASE UNCHANGED vars
  BY <1>1, <1>14 DEF vars
<1> QED BY <1>11, <1>12, <1>13, <1>14 DEF Next


\* Whatever programs change, and wherever a snapshot is interrupted, the
\* invariant holds.
THEOREM StoreKept == Spec => [](StoreInv /\ ProgsInv)
<1>1. StoreInv /\ ProgsInv /\ [Next]_vars => (StoreInv /\ ProgsInv)'
  BY NextInv
<1> QED BY <1>1, InitInv, PTL DEF Spec

\* A scan of a directory's entries, of an inode's parent links, or of a
\* lock's states finds exactly those, for every prefix, width of a number
\* and length of a hash or uuid, whatever lies beside them in the store.
THEOREM ScansStayExact == Spec => []ScansExact
<1>1. StoreInv => ScansExact
  BY ScansExactHere DEF StoreInv
<1> QED BY <1>1, StoreKept, PTL

\* Every entry that a snapshot copies gets an inode of its own, one that was
\* handed out before, that no other entry has, and that no program has
\* reserved for an entry it makes later, whichever steps of a snapshot and of
\* programs come between a reservation and the use of its numbers, and
\* whichever reservations are repeated.
THEOREM CopiesKeepOwnInodes == Spec => []CopiesOwnInodes
<1>1. StoreInv /\ ProgsInv => CopiesOwnInodes
  <2>1. ASSUME StoreInv, ProgsInv PROVE CopiesOwnInodes
    <3>1. \A l \in links : l.ino < store[meta] /\ l.ino \notin reserved
      BY <2>1 DEF StoreInv, LinksOK, IsLink, Numbers, ProgsInv, ReservedOwn
    <3>2. \A k, l \in links : k.ino = l.ino /\ k # l => {k.dir, l.dir} \subseteq TreeDirs
      BY <2>1 DEF StoreInv, LinksApart
    <3> QED BY <3>1, <3>2 DEF CopiesOwnInodes
  <2> QED BY <2>1
<1> QED BY <1>1, StoreKept, PTL

-----------------------------------------------------------------------------
(***************************************************************************)
(* Inodes that are linked in the tree are whole                            *)
(***************************************************************************)
\* The keys that say that one of the files of the tree is still there.
Described == {inode_x(FileA, "Description"), inode_x(FileB, "Description")}

\* An inode that has a link in the tree has its attributes, a file that is
\* still described has them too, and whatever is cleared has neither a link
\* in the tree nor a description from which a link could be made again.
LiveInv ==
    /\ \A l \in links : l.dir \in TreeDirs => AllAttributes(store, l.ino)
    /\ \A ino \in {FileA, FileB} :
        inode_x(ino, "Description") \in DOMAIN store => AllAttributes(store, ino)
    /\ \A item \in doomed :
        /\ \A l \in links : l.dir \in TreeDirs => l.ino # item.ino
        /\ \A ino \in {FileA, FileB} : item.ino = ino => inode_x(ino, "Description") \notin DOMAIN store

LEMMA DescribedKeys ==
    /\ \A k : \A kind \in KindsUsed \ {"InoMetadata"} : OfKind(k, kind) => k \notin Described
    /\ \A ino \in Word, m \in InoMetas : ino >= Base => inode_x(ino, m) \notin Described
    /\ \A ino \in Word, m \in InoMetas : m # "Description" => inode_x(ino, m) \notin Described
<1>1. FileA \in Word /\ FileB \in Word /\ FileA \in Nat /\ FileB \in Nat /\ Base \in Nat
      /\ FileA < Base /\ FileB < Base
  <2>1. FileA \in Nat /\ FileB \in Nat /\ Base \in Nat /\ FileA < Base /\ FileB < Base
    BY BaseNat, LiveNumbers
  <2> QED BY <2>1, ValuesAre, DirectoryStoreAssumption DEF Word
<1>2. "Description" \in InoMetas
  BY DEF InoMetas
<1>3. \A k \in Described : OfKind(k, "InoMetadata")
  BY <1>1, <1>2, InodeKey DEF Described
<1>4. \A k : \A kind \in KindsUsed \ {"InoMetadata"} : OfKind(k, kind) => k \notin Described
  BY <1>3, DifferentKinds
<1>5. ASSUME NEW ino \in Word, NEW m \in InoMetas, inode_x(ino, m) \in Described
      PROVE  m = "Description" /\ ino < Base
  <2>1. PICK f \in {FileA, FileB} : inode_x(ino, m) = inode_x(f, "Description")
    BY <1>5 DEF Described
  <2>2. ino = f /\ m = "Description"
    BY <1>1, <1>2, <2>1, InodeKeyInjective
  <2> QED BY <1>1, <2>2
<1>6. \A ino \in Word : ino \in Nat
  BY DEF Word
<1> QED BY <1>1, <1>4, <1>5, <1>6

\* No attribute goes, no file is described again, and links in the tree are
\* made to inodes that have their attributes and are not cleared.
LEMMA LiveGrows ==
    ASSUME StoreInv, LiveInv,
           \A k \in DOMAIN store : OfKind(k, "InoMetadata") => k \in DOMAIN store',
           \A k \in DOMAIN store' : k \in DOMAIN store \/ k \notin Described,
           \A l \in links' : \/ l \in links \/ l.dir \notin TreeDirs
                             \/ /\ AllAttributes(store', l.ino)
                                /\ \A item \in doomed : l.ino # item.ino,
           doomed' \subseteq doomed
    PROVE  LiveInv'
<1>1. ASSUME NEW ino \in Word, AllAttributes(store, ino) PROVE AllAttributes(store', ino)
  <2>1. \A m \in {"Description", "UnixAttributes", "Size"} : OfKind(inode_x(ino, m), "InoMetadata")
    BY InodeKey DEF InoMetas
  <2> QED BY <1>1, <2>1 DEF AllAttributes
<1>2. \A l \in links : l.ino \in Word
  BY StoreKnown, LinkKeys DEF LinksOK
<1>3. FileA \in Word /\ FileB \in Word
  BY StoreKnown, LiveNumbers, NumbersAreWords
<1>4. ASSUME NEW l \in links', l.dir \in TreeDirs PROVE AllAttributes(store', l.ino)
  BY <1>1, <1>2, <1>4 DEF LiveInv
<1>5. ASSUME NEW ino \in {FileA, FileB}, inode_x(ino, "Description") \in DOMAIN store'
      PROVE  inode_x(ino, "Description") \in DOMAIN store
  BY <1>5 DEF Described
<1>6. ASSUME NEW ino \in {FileA, FileB}, inode_x(ino, "Description") \in DOMAIN store'
      PROVE  AllAttributes(store', ino)
  BY <1>1, <1>3, <1>5, <1>6 DEF LiveInv
<1>7. ASSUME NEW item \in doomed', NEW l \in links', l.dir \in TreeDirs PROVE l.ino # item.ino
  BY <1>7 DEF LiveInv
<1>8. ASSUME NEW item \in doomed', NEW ino \in {FileA, FileB}, item.ino = ino
      PROVE  inode_x(ino, "Description") \notin DOMAIN store'
  BY <1>5, <1>8 DEF LiveInv
<1> QED BY <1>4, <1>6, <1>7, <1>8 DEF LiveInv

\* What belongs to an inode that is cleared goes.
LEMMA LiveDrops ==
    ASSUME StoreInv, LiveInv, NEW item, item.ino \in Word, NEW K,
           DOMAIN store' = DOMAIN store \ K, links' = links,
           \A k \in K : \/ OfKind(k, "InoBlockHashMapping")
                        \/ \E m \in InoMetas : k = inode_x(item.ino, m),
           \A l \in links : l.dir \in TreeDirs => l.ino # item.ino,
           \A ino \in {FileA, FileB} :
                item.ino = ino => inode_x(ino, "Description") \notin DOMAIN store',
           doomed' \subseteq doomed \cup {item}
    PROVE  LiveInv'
<1>1. ASSUME NEW ino \in Word, ino # item.ino, AllAttributes(store, ino) PROVE AllAttributes(store', ino)
  <2>1. {"Description", "UnixAttributes", "Size"} \subseteq InoMetas
    BY DEF InoMetas
  <2>2. ASSUME NEW x \in {"Description", "UnixAttributes", "Size"} PROVE inode_x(ino, x) \in DOMAIN store'
    <3>1. OfKind(inode_x(ino, x), "InoMetadata") /\ x \in InoMetas
      BY <2>1, InodeKey
    <3>2. ~OfKind(inode_x(ino, x), "InoBlockHashMapping")
      BY <3>1, DifferentKinds
    <3>3. \A m \in InoMetas : inode_x(ino, x) # inode_x(item.ino, m)
      BY <1>1, <3>1, InodeKeyInjective
    <3> QED BY <1>1, <3>2, <3>3 DEF AllAttributes
  <2> QED BY <2>2 DEF AllAttributes
<1>2. \A l \in links : l.ino \in Word
  BY StoreKnown, LinkKeys DEF LinksOK
<1>3. FileA \in Word /\ FileB \in Word
  BY StoreKnown, LiveNumbers, NumbersAreWords
<1>4. ASSUME NEW l \in links', l.dir \in TreeDirs PROVE AllAttributes(store', l.ino)
  BY <1>1, <1>2, <1>4 DEF LiveInv
<1>5. ASSUME NEW ino \in {FileA, FileB}, inode_x(ino, "Description") \in DOMAIN store'
      PROVE  AllAttributes(store', ino)
  BY <1>1, <1>3, <1>5 DEF LiveInv
<1>6. ASSUME NEW i \in doomed', NEW l \in links', l.dir \in TreeDirs PROVE l.ino # i.ino
  BY <1>6 DEF LiveInv
<1>7. ASSUME NEW i \in doomed', NEW ino \in {FileA, FileB}, i.ino = ino
      PROVE  inode_x(ino, "Description") \notin DOMAIN store'
  BY <1>7 DEF LiveInv
<1> QED BY <1>4, <1>5, <1>6, <1>7 DEF LiveInv

\* A key that is put is no description of a file of the tree.
LEMMA PutLive ==
    ASSUME NEW s, NEW q, \A k \in DOMAIN q : k \notin Described
    PROVE  /\ DOMAIN s \subseteq DOMAIN Put(s, q)
           /\ \A k \in DOMAIN Put(s, q) : k \in DOMAIN s \/ k \notin Described
BY PutIs

LEMMA LinkPairsLive ==
    ASSUME NEW dir \in Word, NEW name \in Keys, NEW item, item.ino \in Word
    PROVE  \A k \in DOMAIN LinkPairs(dir, name, item) : k \notin Described
<1> DEFINE k1 == parent_link(item.ino, dir, name)
           k2 == directory_child(dir, name)
           q1 == Pair(k1, <<>>)
           q2 == Pair(k2, item)
<1>1. OfKind(k1, "ParentLink") /\ OfKind(k2, "DirectoryChild")
  BY ParentKey, ChildKey
<1>2. LinkPairs(dir, name, item) = Put(q1, q2)
  BY DEF LinkPairs
<1> HIDE DEF k1, k2
<1>3. DOMAIN q1 = {k1} /\ DOMAIN q2 = {k2}
  BY PairIs
<1> HIDE DEF q1, q2
<1>4. DOMAIN LinkPairs(dir, name, item) = {k1, k2}
  <2>1. DOMAIN Put(q1, q2) = DOMAIN q1 \cup DOMAIN q2
    BY PutIs
  <2> QED BY <1>2, <1>3, <2>1
<1>5. {"ParentLink", "DirectoryChild"} \subseteq KindsUsed \ {"InoMetadata"}
  BY DifferentKinds
<1> QED BY <1>1, <1>4, <1>5, DescribedKeys

LEMMA InodePairsLive ==
    ASSUME NEW ino \in Word, ino >= Base, NEW typ, NEW attr
    PROVE  \A k \in DOMAIN InodePairs(ino, typ, attr) : k \notin Described
<1>1. {"Description", "UnixAttributes", "Size"} \subseteq InoMetas
  BY DEF InoMetas
<1>2. DOMAIN InodePairs(ino, typ, attr) =
        {inode_x(ino, m) : m \in {"Description", "UnixAttributes", "Size"}}
  BY InodePairsWhole
<1>3. \A m \in InoMetas : inode_x(ino, m) \notin Described
  BY DescribedKeys
<1> QED BY <1>1, <1>2, <1>3

LEMMA ReservedLive ==
    ASSUME StoreOK(store), NEW count, NEW ino, Reserved(count, ino)
    PROVE  DOMAIN store' = DOMAIN store
<1>1. meta \in DOMAIN store
  BY DEF StoreOK, CounterOK
<1>2. PICK n : store' = Put(store, Pair(meta, n))
  BY DEF Reserved, Writes, Reserve
<1>3. DOMAIN Pair(meta, n) = {meta}
  BY PairIs
<1>4. DOMAIN Put(store, Pair(meta, n)) = DOMAIN store \cup DOMAIN Pair(meta, n)
  BY PutIs
<1> QED BY <1>1, <1>2, <1>3, <1>4

\* A step of a snapshot takes nothing from the store, and describes copies.
SnapAdds ==
    /\ DOMAIN store \subseteq DOMAIN store'
    /\ \A k \in DOMAIN store' : k \in DOMAIN store \/ k \notin Described

LEMMA SnapAddAdds ==
    ASSUME StoreInv, SnapAdd
    PROVE  SnapAdds
<1> DEFINE q1 == InodePairs(snap.ino, "Directory", "attr")
           q2 == LinkPairs(SNAPSHOT_PARENT_INODE, SnapName, Item(snap.ino, "Directory"))
           t == Put(store, q1)
<1>1. CounterOK(store) /\ SnapFresh(store, links, snap)
  BY StoreKnown
<1>2. CASE store' = store
  BY <1>2 DEF SnapAdds
<1>3. CASE store' = Put(t, q2)
  <2>1. snap.ino \in Waiting(snap)
    BY DEF SnapAdd, InSnap, Waiting, OwnDir
  <2>2. snap.ino \in Numbers(store) /\ snap.ino >= Base
    BY <1>1, <2>1 DEF SnapFresh
  <2>3. snap.ino \in Word /\ SNAPSHOT_PARENT_INODE \in Word /\ SnapName \in Keys
    BY <1>1, <2>2, LiveNumbers, NumbersAreWords
  <2>4. Item(snap.ino, "Directory").ino = snap.ino
    BY DEF Item
  <2>5. \A k \in DOMAIN q1 : k \notin Described
    BY <2>2, <2>3, InodePairsLive
  <2>6. \A k \in DOMAIN q2 : k \notin Described
    BY <2>3, <2>4, LinkPairsLive
  <2> HIDE DEF q1, q2
  <2>7. /\ DOMAIN store \subseteq DOMAIN t
        /\ \A k \in DOMAIN t : k \in DOMAIN store \/ k \notin Described
    BY <2>5, PutLive
  <2> HIDE DEF t
  <2>8. /\ DOMAIN t \subseteq DOMAIN store'
        /\ \A k \in DOMAIN store' : k \in DOMAIN t \/ k \notin Described
    BY <1>3, <2>6, PutLive
  <2> QED BY <2>7, <2>8 DEF SnapAdds
<1> QED BY <1>2, <1>3 DEF SnapAdd

LEMMA SnapLinkAdds ==
    ASSUME StoreInv, SnapLink
    PROVE  SnapAdds
<1> DEFINE n == Len(snap.mapping)
           part(i) == LinkPairs(snap.ino, snap.mapping[i].src.name,
                                Item(snap.mapping[i].dst, snap.mapping[i].src.typ))
           S == [i \in 1..n |-> part(i)]
           q == Merge(S)
<1>1. CounterOK(store) /\ SnapTyped(snap) /\ SnapFresh(store, links, snap)
  BY StoreKnown
<1>2. snap.pc = "link" /\ store' = Put(store, q)
  BY DEF SnapLink, InSnap, Writes
<1>3. snap.mapping \in Seq(Copies) /\ n \in Nat /\ DOMAIN snap.mapping = 1..n
  BY <1>1, <1>2 DEF SnapTyped
<1> HIDE DEF n
<1>4. ASSUME NEW i \in 1..n PROVE \A k \in DOMAIN S[i] : k \notin Described
  <2>1. snap.mapping[i].src.name \in Keys
    <3>1. snap.mapping[i] \in Copies
      BY <1>3
    <3> QED BY <3>1 DEF Copies
  <2>2. snap.mapping[i].dst \in Waiting(snap) /\ snap.ino \in Waiting(snap)
    BY <1>2, <1>3 DEF Waiting, MapDirs, OwnDir
  <2>3. snap.mapping[i].dst \in Word /\ snap.ino \in Word
    BY <1>1, <2>2, NumbersAreWords DEF SnapFresh
  <2> DEFINE item == Item(snap.mapping[i].dst, snap.mapping[i].src.typ)
  <2>4. item.ino = snap.mapping[i].dst
    BY DEF Item
  <2> HIDE DEF item
  <2>5. \A k \in DOMAIN LinkPairs(snap.ino, snap.mapping[i].src.name, item) : k \notin Described
    BY <2>1, <2>3, <2>4, LinkPairsLive
  <2>6. S[i] = LinkPairs(snap.ino, snap.mapping[i].src.name, item)
    BY DEF item
  <2> HIDE DEF S
  <2> QED BY <2>5, <2>6
<1>5. DOMAIN S = 1..n
  OBVIOUS
<1> HIDE DEF S
<1>6. DOMAIN q = UNION {DOMAIN S[i] : i \in 1..n}
  BY <1>3, <1>5, MergeIs
<1> HIDE DEF q
<1>7. \A k \in DOMAIN q : k \notin Described
  BY <1>4, <1>6
<1> QED BY <1>2, <1>7, PutLive DEF SnapAdds

LEMMA SnapAttrsAdds ==
    ASSUME StoreInv, SnapAttrs
    PROVE  SnapAdds
<1> DEFINE n == Len(snap.mapping)
           S == [i \in 1..n |-> ClonePairs(i, snap.left)]
           q == Merge(S)
<1>1. CounterOK(store) /\ SnapTyped(snap) /\ SnapFresh(store, links, snap)
  BY StoreKnown
<1>2. snap.pc = "attrs" /\ store' = Put(store, q)
  BY DEF SnapAttrs, InSnap, Writes
<1>3. /\ snap.mapping \in Seq(Copies) /\ n \in Nat /\ DOMAIN snap.mapping = 1..n /\ StoreOK(snap.at)
  BY <1>1, <1>2 DEF SnapTyped, Over
<1> HIDE DEF n
<1>4. ASSUME NEW i \in 1..n PROVE \A k \in DOMAIN S[i] : k \notin Described
  <2>1. snap.mapping[i].src.ino \in Word
    <3>1. snap.mapping[i] \in Copies
      BY <1>3
    <3> QED BY <3>1 DEF Copies, Sources
  <2>2. snap.mapping[i].dst \in Waiting(snap)
    BY <1>3 DEF Waiting, MapDirs
  <2>3. snap.mapping[i].dst \in Numbers(store) /\ snap.mapping[i].dst >= Base
    BY <1>1, <2>2 DEF SnapFresh
  <2>4. snap.mapping[i].dst \in Word
    BY <1>1, <2>3, NumbersAreWords
  <2>5. \A k \in DOMAIN ClonePairs(i, snap.left) : \E m \in InoMetas : k = inode_x(snap.mapping[i].dst, m)
    BY <1>3, <2>1, <2>4, ClonePairsData
  <2>6. \A k \in DOMAIN ClonePairs(i, snap.left) : k \notin Described
    BY <2>3, <2>4, <2>5, DescribedKeys
  <2>7. S[i] = ClonePairs(i, snap.left)
    OBVIOUS
  <2> HIDE DEF S
  <2> QED BY <2>6, <2>7
<1>5. DOMAIN S = 1..n
  OBVIOUS
<1> HIDE DEF S
<1>6. DOMAIN q = UNION {DOMAIN S[i] : i \in 1..n}
  BY <1>3, <1>5, MergeIs
<1> HIDE DEF q
<1>7. \A k \in DOMAIN q : k \notin Described
  BY <1>4, <1>6
<1> QED BY <1>2, <1>7, PutLive DEF SnapAdds

LEMMA SnapDataAdds ==
    ASSUME StoreInv, SnapData
    PROVE  SnapAdds
<1> DEFINE m == Head(snap.todo)
           q == IF m.src.typ = "File" THEN ClonedBlocks(m.src.ino, m.dst) ELSE NoPairs
<1>1. CounterOK(store) /\ SnapTyped(snap) /\ SnapFresh(store, links, snap)
  BY StoreKnown
<1>2. CASE store' = store
  BY <1>2 DEF SnapAdds
<1>3. CASE snap.todo # <<>> /\ store' = Put(store, q)
  <2>1. snap.todo \in Seq(Copies) /\ StoreOK(snap.at)
    BY <1>1 DEF SnapTyped, SnapData, InSnap, Over
  <2>2. m = snap.todo[1] /\ m \in Copies /\ 1 \in DOMAIN snap.todo
    BY <1>3, <2>1, HeadTail
  <2>3. m.dst \in Waiting(snap)
    BY <2>2 DEF TodoDirs, Waiting
  <2>4. m.src.ino \in Word /\ m.dst \in Word
    BY <1>1, <2>2, <2>3, NumbersAreWords DEF SnapFresh, Copies, Sources
  <2> HIDE DEF m
  <2>5. \A k \in DOMAIN ClonedBlocks(m.src.ino, m.dst) : OfKind(k, "InoBlockHashMapping")
    BY <2>1, <2>4, ClonedBlocksData
  <2>6. \A k \in DOMAIN q : OfKind(k, "InoBlockHashMapping")
    BY <2>5 DEF NoPairs
  <2> HIDE DEF q
  <2>7. \A k \in DOMAIN q : k \notin Described
    BY <2>6, DescribedKeys, DifferentKinds
  <2> QED BY <1>3, <2>7, PutLive DEF SnapAdds
<1> QED BY <1>2, <1>3 DEF SnapData, Writes

LEMMA SnapLive ==
    ASSUME StoreInv, LiveInv, SnapBegin \/ SnapStep \/ SnapAttrsFails \/ SnapFails
    PROVE  LiveInv'
<1>1. StoreOK(store)
  BY StoreKnown
<1>2. SnapAdds
  <2>1. CASE SnapBegin \/ SnapDone \/ SnapAttrsFails \/ SnapFails
    BY <2>1 DEF SnapBegin, SnapDone, SnapAttrsFails, SnapFails, SnapAdds
  <2>2. CASE SnapReserve
    BY <1>1, <2>2, ReservedLive DEF SnapReserve, SnapAdds
  <2>3. CASE SnapScan
    BY <1>1, <2>3, ReservedLive DEF SnapScan, SnapAdds
  <2> QED BY <2>1, <2>2, <2>3, SnapAddAdds, SnapLinkAdds, SnapAttrsAdds, SnapDataAdds DEF SnapStep
<1>3. SnapTakes
  BY SnapBeginInv, SnapAttrsFailsInv, SnapFailsInv, SnapReserveInv, SnapAddInv,
     SnapScanInv, SnapLinkInv, SnapAttrsInv, SnapDataInv, SnapDoneInv DEF SnapStep
<1>4. doomed' = doomed
  BY DEF SnapBegin, SnapStep, SnapAttrsFails, SnapFails, SnapReserve, SnapAdd, SnapScan,
         SnapLink, SnapAttrs, SnapData, SnapDone, progs
<1> QED BY <1>2, <1>3, <1>4, LiveGrows DEF SnapAdds, SnapTakes

LEMMA InitLive == Init => LiveInv
<1> SUFFICES ASSUME Init PROVE LiveInv
  OBVIOUS
<1>1. \A l \in InitLinks : AllAttributes(store, l.ino)
  BY FirstStore
<1>2. links = InitLinks /\ doomed = {}
  BY DEF Init
<1>3. AllAttributes(store, FileA) /\ AllAttributes(store, FileB)
  <2>1. /\ Link(ROOT_INODE, <<a>>, FileA) \in InitLinks /\ Link(DirD, <<b>>, FileB) \in InitLinks
        /\ Link(ROOT_INODE, <<a>>, FileA).ino = FileA /\ Link(DirD, <<b>>, FileB).ino = FileB
    BY DEF InitLinks, Link
  <2> QED BY <1>1, <2>1
<1> QED BY <1>1, <1>2, <1>3 DEF LiveInv

LEMMA AddChildLive ==
    ASSUME StoreInv, ProgsInv, LiveInv, NEW ino \in reserved, NEW dir \in LiveDirs,
           NEW name \in Names, NEW typ \in Types, AddChild(ino, dir, name, typ)
    PROVE  LiveInv'
<1> DEFINE l == Link(dir, name, ino)
           q1 == InodePairs(ino, typ, "new")
           q2 == IF typ = "Symlink" THEN Pair(inode_x(ino, "InlineData"), "target") ELSE NoPairs
           q3 == LinkPairs(dir, name, Item(ino, typ))
           t1 == Put(store, q1)
           t2 == Put(t1, q2)
<1>1. CounterOK(store) /\ doomed' = doomed
  BY StoreKnown DEF AddChild
<1>2. ino \in Numbers(store) /\ ino >= Base /\ \A item \in doomed : item.ino # ino
  BY DEF ProgsInv, ReservedOwn, ItemsKnown
<1>3. name \in Keys /\ dir \in Word /\ ino \in Word
  BY <1>1, <1>2, LiveNumbers, NumbersAreWords
<1>4. CASE store' = store /\ links' = links
  BY <1>1, <1>4, LiveGrows
<1>5. CASE store' = Put(t2, q3) /\ links' = links \cup {l}
  <2>1. Item(ino, typ).ino = ino /\ l.ino = ino
    BY DEF Item, Link
  <2>2. (\A k \in DOMAIN q1 : k \notin Described) /\ AllAttributes(q1, ino)
    BY <1>2, <1>3, InodePairsLive, InodePairsWhole
  <2>3. \A k \in DOMAIN q2 : k \notin Described
    <3>1. "InlineData" \in InoMetas
      BY DEF InoMetas
    <3>2. inode_x(ino, "InlineData") \notin Described
      BY <1>2, <1>3, <3>1, DescribedKeys
    <3>3. DOMAIN Pair(inode_x(ino, "InlineData"), "target") = {inode_x(ino, "InlineData")}
      BY PairIs
    <3>4. DOMAIN NoPairs = {}
      BY DEF NoPairs
    <3> QED BY <3>2, <3>3, <3>4
  <2>4. \A k \in DOMAIN q3 : k \notin Described
    BY <1>3, <2>1, LinkPairsLive
  <2> HIDE DEF q1, q2, q3, l
  <2>5. /\ DOMAIN store \subseteq DOMAIN t1 /\ DOMAIN q1 \subseteq DOMAIN t1
        /\ \A k \in DOMAIN t1 : k \in DOMAIN store \/ k \notin Described
    <3>1. DOMAIN t1 = DOMAIN store \cup DOMAIN q1
      BY PutIs
    <3> QED BY <2>2, <3>1, PutLive
  <2> HIDE DEF t1
  <2>6. /\ DOMAIN t1 \subseteq DOMAIN t2
        /\ \A k \in DOMAIN t2 : k \in DOMAIN t1 \/ k \notin Described
    BY <2>3, PutLive
  <2> HIDE DEF t2
  <2>7. /\ DOMAIN t2 \subseteq DOMAIN store'
        /\ \A k \in DOMAIN store' : k \in DOMAIN t2 \/ k \notin Described
    BY <1>5, <2>4, PutLive
  <2>8. AllAttributes(store', ino)
    BY <2>2, <2>5, <2>6, <2>7 DEF AllAttributes
  <2>9. /\ \A k \in DOMAIN store : k \in DOMAIN store'
        /\ \A k \in DOMAIN store' : k \in DOMAIN store \/ k \notin Described
    BY <2>5, <2>6, <2>7
  <2>10. \A x \in links' : x \in links \/ (AllAttributes(store', x.ino) /\ \A item \in doomed : x.ino # item.ino)
    BY <1>2, <1>5, <2>1, <2>8
  <2> QED BY <1>1, <2>9, <2>10, LiveGrows
<1> QED BY <1>4, <1>5 DEF AddChild

LEMMA HardLinkLive ==
    ASSUME StoreInv, LiveInv, NEW ino \in {FileA, FileB}, NEW dir \in LiveDirs, NEW name \in Names,
           HardLink(ino, dir, name)
    PROVE  LiveInv'
<1> DEFINE item == Item(ino, store[inode_x(ino, "Description")].typ)
           l == Link(dir, name, ino)
           q == LinkPairs(dir, name, item)
<1>1. CounterOK(store) /\ doomed' = doomed
  BY StoreKnown DEF HardLink, progs
<1>2. /\ inode_x(ino, "Description") \in DOMAIN store
      /\ store' = Put(store, q) /\ links' = links \cup {l}
  BY DEF HardLink, Writes
<1>3. name \in Keys /\ dir \in Word /\ ino \in Word
  BY <1>1, LiveNumbers, NumbersAreWords
<1>4. item.ino = ino /\ l.ino = ino
  BY DEF Item, Link
<1> HIDE DEF item, l
<1>5. \A k \in DOMAIN q : k \notin Described
  BY <1>3, <1>4, LinkPairsLive
<1> HIDE DEF q
<1>6. /\ DOMAIN store \subseteq DOMAIN store'
      /\ \A k \in DOMAIN store' : k \in DOMAIN store \/ k \notin Described
  BY <1>2, <1>5, PutLive
<1>7. AllAttributes(store, ino) /\ \A i \in doomed : i.ino # ino
  BY <1>2 DEF LiveInv
<1>8. AllAttributes(store', ino)
  BY <1>6, <1>7 DEF AllAttributes
<1>9. \A x \in links' : x \in links \/ (AllAttributes(store', x.ino) /\ \A i \in doomed : x.ino # i.ino)
  BY <1>2, <1>4, <1>7, <1>8
<1> QED BY <1>1, <1>6, <1>9, LiveGrows

\* The ends of a link are no attributes.
LEMMA EndsGone ==
    ASSUME StoreInv, NEW s, NEW dir \in Numbers(store), NEW name \in Keys,
           NEW item \in Get(store, directory_child(dir, name))
    PROVE  /\ \A k \in DOMAIN s : OfKind(k, "InoMetadata") =>
                    k \in DOMAIN Drop(s, LinkEnds(dir, name, item))
           /\ DOMAIN Drop(s, LinkEnds(dir, name, item)) \subseteq DOMAIN s
           /\ Link(dir, name, item.ino) \in links /\ item.ino \in Word
<1> DEFINE l == Link(dir, name, item.ino)
           K == LinkEnds(dir, name, item)
<1>1. StoreOK(store) /\ LinksOK(store, links) /\ CounterOK(store)
  BY StoreKnown
<1>2. l \in links /\ IsLink(store, l) /\ K = {Entry(l), Parent(l)} /\ item.ino \in Numbers(store)
  BY <1>1, EntryLinked
<1>3. item.ino \in Word
  BY <1>1, <1>2, NumbersAreWords
<1> HIDE DEF l, K
<1>4. OfKind(Entry(l), "DirectoryChild") /\ OfKind(Parent(l), "ParentLink")
  BY <1>1, <1>2, LinkKeys
<1>5. \A k \in K : ~OfKind(k, "InoMetadata")
  BY <1>2, <1>4, DifferentKinds
<1>6. DOMAIN Drop(s, K) = DOMAIN s \ K
  BY DropIs
<1>7. (\A k \in DOMAIN s : OfKind(k, "InoMetadata") => k \in DOMAIN Drop(s, K)) /\ DOMAIN Drop(s, K) \subseteq DOMAIN s
  BY <1>5, <1>6
<1> QED BY <1>2, <1>3, <1>7 DEF l, K

LEMMA RemovalLive ==
    ASSUME StoreInv, LiveInv, NEW l \in links, l.dir \in LiveDirs,
           Unlink(l.dir, l.name) \/ Rmdir(l.dir, l.name)
    PROVE  LiveInv'
<1>1. PICK item \in Get(store, directory_child(l.dir, l.name)) :
        /\ store' = Drop(store, LinkEnds(l.dir, l.name, item))
        /\ links' = links \ {Link(l.dir, l.name, item.ino)}
  BY DEF Unlink, Rmdir, Deletes
<1>2. doomed' = doomed
  BY DEF Unlink, Rmdir, progs
<1>3. l.dir \in Numbers(store) /\ l.name \in Keys
  BY LiveLink
<1>4. /\ \A k \in DOMAIN store : OfKind(k, "InoMetadata") => k \in DOMAIN store'
      /\ DOMAIN store' \subseteq DOMAIN store
  BY <1>1, <1>3, EndsGone
<1> QED BY <1>1, <1>2, <1>4, LiveGrows

LEMMA RenameLive ==
    ASSUME StoreInv, LiveInv, NEW l \in links, l.dir \in LiveDirs, NEW newDir \in LiveDirs,
           NEW newName \in Names, Rename(l.dir, l.name, newDir, newName)
    PROVE  LiveInv'
<1>1. PICK item \in Get(store, directory_child(l.dir, l.name)) :
        \/ /\ store' = Drop(store, LinkEnds(l.dir, l.name, item))
           /\ links' = links \ {Link(l.dir, l.name, item.ino)}
        \/ /\ store' = Drop(Put(store, LinkPairs(newDir, newName,
                        Item(item.ino, store[inode_x(item.ino, "Description")].typ))),
                            LinkEnds(l.dir, l.name, item))
           /\ links' = (links \cup {Link(newDir, newName, item.ino)}) \ {Link(l.dir, l.name, item.ino)}
  BY DEF Rename, Deletes
<1>2. doomed' = doomed /\ CounterOK(store)
  BY StoreKnown DEF Rename, progs
<1>3. l.dir \in Numbers(store) /\ l.name \in Keys
  BY LiveLink
<1>4. CASE /\ store' = Drop(store, LinkEnds(l.dir, l.name, item))
           /\ links' = links \ {Link(l.dir, l.name, item.ino)}
  <2>1. /\ \A k \in DOMAIN store : OfKind(k, "InoMetadata") => k \in DOMAIN store'
        /\ DOMAIN store' \subseteq DOMAIN store
    BY <1>3, <1>4, EndsGone
  <2> QED BY <1>2, <1>4, <2>1, LiveGrows
<1>5. ASSUME NEW typ,
             store' = Drop(Put(store, LinkPairs(newDir, newName, Item(item.ino, typ))),
                           LinkEnds(l.dir, l.name, item)),
             links' = (links \cup {Link(newDir, newName, item.ino)}) \ {Link(l.dir, l.name, item.ino)}
      PROVE  LiveInv'
  <2> DEFINE old == Link(l.dir, l.name, item.ino)
             new == Link(newDir, newName, item.ino)
             q == LinkPairs(newDir, newName, Item(item.ino, typ))
             t == Put(store, q)
             ends == LinkEnds(l.dir, l.name, item)
  <2>1. /\ \A k \in DOMAIN t : OfKind(k, "InoMetadata") => k \in DOMAIN Drop(t, ends)
        /\ DOMAIN Drop(t, ends) \subseteq DOMAIN t
        /\ old \in links /\ item.ino \in Word
    BY <1>3, EndsGone
  <2>2. old.ino = item.ino /\ old.dir = l.dir /\ new.ino = item.ino /\ Item(item.ino, typ).ino = item.ino
    BY DEF Link, Item
  <2>3. l.dir \in TreeDirs /\ newDir \in Word /\ newName \in Keys
    BY <1>2, LiveNumbers, NumbersAreWords
  <2>4. \A k \in DOMAIN q : k \notin Described
    BY <2>1, <2>2, <2>3, LinkPairsLive
  <2>5. store' = Drop(t, ends) /\ links' = (links \cup {new}) \ {old}
    BY <1>5
  <2> HIDE DEF q, ends, old, new
  <2>6. DOMAIN store \subseteq DOMAIN t /\ \A k \in DOMAIN t : k \in DOMAIN store \/ k \notin Described
    BY <2>4, PutLive
  <2> HIDE DEF t
  <2>7. /\ \A k \in DOMAIN store : OfKind(k, "InoMetadata") => k \in DOMAIN store'
        /\ \A k \in DOMAIN store' : k \in DOMAIN store \/ k \notin Described
    BY <2>1, <2>5, <2>6
  <2>8. AllAttributes(store, item.ino) /\ \A i \in doomed : i.ino # item.ino
    BY <2>1, <2>2, <2>3 DEF LiveInv
  <2>9. AllAttributes(store', item.ino)
    <3>1. \A m \in {"Description", "UnixAttributes", "Size"} : OfKind(inode_x(item.ino, m), "InoMetadata")
      BY <2>1, InodeKey DEF InoMetas
    <3> QED BY <2>7, <2>8, <3>1 DEF AllAttributes
  <2>10. \A x \in links' : x \in links \/ (AllAttributes(store', x.ino) /\ \A i \in doomed : x.ino # i.ino)
    BY <2>2, <2>5, <2>8, <2>9
  <2> QED BY <1>2, <2>7, <2>10, LiveGrows
<1> QED BY <1>1, <1>4, <1>5

LEMMA CheckDeleteLive ==
    ASSUME StoreInv, ProgsInv, LiveInv, NEW item \in unlinked, CheckDelete(item)
    PROVE  LiveInv'
<1> DEFINE K == {inode_x(item.ino, "Description")}
           found == Scan(DOMAIN store, parent_link_scan(item.ino), ScanLimit)
<1>1. links' = links /\ item.ino \in Numbers(store)
  BY DEF CheckDelete, ProgsInv, ItemsKnown
<1>2. StoreOK(store) /\ LinksOK(store, links) /\ CounterOK(store)
  BY StoreKnown
<1>3. item.ino \in Word /\ Nexts(item.ino)
  BY <1>1, <1>2, NumbersAreWords DEF Nexts
<1>4. CASE store' = store /\ doomed' = doomed
  BY <1>1, <1>4, LiveGrows
<1>5. CASE found = <<>> /\ store' = Drop(store, K) /\ doomed' = doomed \cup {item}
  <2>1. Found(DOMAIN store, parent_link_scan(item.ino)) = {}
    <3> DEFINE F == Found(DOMAIN store, parent_link_scan(item.ino))
    <3>1. DOMAIN store \in SUBSET Keys /\ IsFiniteSet(DOMAIN store) /\ ScanLimit \in Nat /\ ScanLimit >= 2
      BY <1>2, StoreKeysAreKeys, DirectoryStoreAssumption
    <3>2. Len(found) = ScanLen(DOMAIN store, parent_link_scan(item.ino), ScanLimit)
      BY <3>1, ScanIs
    <3>3. IsFiniteSet(F)
      BY <3>1, FS_Subset DEF Found
    <3>4. Cardinality(F) \in Nat
      BY <3>3, FS_CardinalityType
    <3>5. Cardinality(F) = 0
      BY <1>5, <3>1, <3>2, <3>4 DEF ScanLen
    <3> QED BY <3>3, <3>5, FS_EmptySet
  <2>2. ParentKeys(store, item.ino) = {}
    BY <1>2, <1>3, <2>1, ParentsFound
  <2>3. ASSUME NEW l \in links, l.ino = item.ino PROVE FALSE
    <3>1. IsLink(store, l) /\ Parent(l) \in DOMAIN store
      BY <1>2 DEF LinksOK, LinkStored
    <3>2. l.dir \in Word /\ l.name \in Keys
      BY <1>2, <3>1, LinkKeys
    <3> QED BY <2>2, <2>3, <3>1, <3>2 DEF ParentKeys, Parent
  <2>4. DOMAIN store' = DOMAIN store \ K
    BY <1>5, DropIs
  <2>5. "Description" \in InoMetas
    BY DEF InoMetas
  <2>6. \A k \in K : \E m \in InoMetas : k = inode_x(item.ino, m)
    BY <2>5
  <2>7. inode_x(item.ino, "Description") \notin DOMAIN store'
    BY <2>4
  <2> HIDE DEF K
  <2> QED BY <1>1, <1>3, <1>5, <2>3, <2>4, <2>6, <2>7, LiveDrops
<1> QED BY <1>4, <1>5 DEF CheckDelete, Deletes

LEMMA PurgeLive ==
    ASSUME StoreInv, ProgsInv, LiveInv, NEW item \in doomed, Purge(item)
    PROVE  LiveInv'
<1>1. /\ links' = links /\ doomed' \subseteq doomed /\ item.ino \in Word
      /\ \/ store' = store
         \/ \E K : /\ store' = Drop(store, K)
                   /\ \A k \in K : \/ OfKind(k, "InoBlockHashMapping")
                                   \/ \E m \in InoMetas : k = inode_x(item.ino, m)
  BY PurgeIs
<1>2. CASE store' = store
  BY <1>1, <1>2, LiveGrows
<1>3. ASSUME NEW K, store' = Drop(store, K),
             \A k \in K : \/ OfKind(k, "InoBlockHashMapping")
                          \/ \E m \in InoMetas : k = inode_x(item.ino, m)
      PROVE  LiveInv'
  <2>1. DOMAIN store' = DOMAIN store \ K
    BY <1>3, DropIs
  <2>2. /\ \A l \in links : l.dir \in TreeDirs => l.ino # item.ino
        /\ \A ino \in {FileA, FileB} : item.ino = ino => inode_x(ino, "Description") \notin DOMAIN store
    BY DEF LiveInv
  <2>3. \A ino \in {FileA, FileB} : item.ino = ino => inode_x(ino, "Description") \notin DOMAIN store'
    BY <2>1, <2>2
  <2> QED BY <1>1, <1>3, <2>1, <2>2, <2>3, LiveDrops
<1> QED BY <1>1, <1>2, <1>3

\* Only blocks and sizes are written, and numbers reserved.
LEMMA WriteLive ==
    ASSUME StoreInv, ProgsInv, LiveInv,
           \/ ReserveNew
           \/ \E s \in Spans : WriteHashes(FileA, s[1], s[2])
           \/ \E w \in writing : WriteSize(w)
    PROVE  LiveInv'
<1>1. links' = links /\ doomed' = doomed /\ StoreOK(store) /\ CounterOK(store)
  BY StoreKnown DEF ReserveNew, WriteHashes, WriteSize
<1>2. FileA \in Word
  BY <1>1, LiveNumbers, NumbersAreWords
<1>3. CASE ReserveNew
  <2>1. DOMAIN store' = DOMAIN store
    BY <1>1, <1>3, ReservedLive DEF ReserveNew
  <2> QED BY <1>1, <2>1, LiveGrows
<1>4. ASSUME NEW q, store' = Put(store, q), \A k \in DOMAIN q : k \notin Described
      PROVE  LiveInv'
  BY <1>1, <1>4, PutLive, LiveGrows
<1>5. ASSUME NEW s \in Spans, WriteHashes(FileA, s[1], s[2]) PROVE LiveInv'
  <2> DEFINE q == [k \in {block_hash(FileA, i) : i \in s[1]..s[2]} |-> Hash2]
  <2>1. s[1] \in Nat /\ s[2] \in Nat
    BY DirectoryStoreAssumption
  <2>2. \A i \in s[1]..s[2] : OfKind(block_hash(FileA, i), "InoBlockHashMapping")
    BY <1>2, <2>1, BlockKeyKind
  <2>3. \A k \in DOMAIN q : OfKind(k, "InoBlockHashMapping")
    BY <2>2
  <2>4. store' = Put(store, q)
    BY <1>5 DEF WriteHashes, Writes
  <2> HIDE DEF q
  <2>5. \A k \in DOMAIN q : k \notin Described
    BY <2>3, DescribedKeys, DifferentKinds
  <2> QED BY <1>4, <2>4, <2>5
<1>6. ASSUME NEW w \in writing, WriteSize(w) PROVE LiveInv'
  <2> DEFINE q == IF w.size > store[inode_x(w.ino, "Size")]
                  THEN Pair(inode_x(w.ino, "Size"), w.size) ELSE NoPairs
  <2>1. w.ino = FileA /\ "Size" \in InoMetas /\ "Size" # "Description"
    BY DEF ProgsInv, WritesOpen, InoMetas
  <2>2. inode_x(FileA, "Size") \notin Described
    BY <1>2, <2>1, DescribedKeys
  <2>3. DOMAIN Pair(inode_x(FileA, "Size"), w.size) = {inode_x(FileA, "Size")}
    BY PairIs
  <2>4. DOMAIN NoPairs = {}
    BY DEF NoPairs
  <2>5. \A k \in DOMAIN q : k \notin Described
    BY <2>1, <2>2, <2>3, <2>4
  <2>6. store' = Put(store, q)
    BY <1>6 DEF WriteSize, Writes
  <2> HIDE DEF q
  <2> QED BY <1>4, <2>5, <2>6
<1> QED BY <1>3, <1>5, <1>6

LEMMA NextLive ==
    ASSUME StoreInv, ProgsInv, LiveInv, [Next]_vars
    PROVE  LiveInv'
<1>1. CASE UNCHANGED <<store, links, progs, snap>>
  BY <1>1 DEF LiveInv, progs
<1>2. CASE \/ \E dir \in LiveDirs : OpenDir(dir)
           \/ \E n \in 1..MaxPage : readdir(n)
  <2>1. UNCHANGED <<store, links, progs, snap>>
    BY <1>2 DEF OpenDir, readdir, progs
  <2> QED BY <1>1, <2>1
<1>3. CASE UNCHANGED vars
  BY <1>1, <1>3 DEF vars
<1>4. CASE Programs
  BY <1>4, WriteLive, AddChildLive, HardLinkLive, RemovalLive, RenameLive, CheckDeleteLive, PurgeLive
     DEF Programs, Types
<1> QED BY <1>2, <1>3, <1>4, SnapLive DEF Next

\* The invariant, with whole inodes.
THEOREM LiveKept == Spec => [](StoreInv /\ ProgsInv /\ LiveInv)
<1>1. Init => StoreInv /\ ProgsInv /\ LiveInv
  BY InitInv, InitLive
<1>2. StoreInv /\ ProgsInv /\ LiveInv /\ [Next]_vars => (StoreInv /\ ProgsInv /\ LiveInv)'
  BY NextInv, NextLive
<1> QED BY <1>1, <1>2, PTL DEF Spec

-----------------------------------------------------------------------------
(***************************************************************************)
(* What the kernel sees: every name that readdir shows is found            *)
(***************************************************************************)

\* The recursion of FlattenSeq.
Flat(S) == CHOOSE flatten : flatten =
    [i \in 1..Len(S) |-> IF i = 1 THEN S[i] ELSE flatten[i - 1] \o S[i]]

FlatStep(S, i) == Flat(S)[i] = Flat(S)[i - 1] \o S[i]
Lists(n, T) == [1..n -> Seq(T)]

LEMMA FlatIs ==
    ASSUME NEW n \in Nat \ {0}, NEW T, NEW S \in Lists(n, T)
    PROVE  /\ FlattenSeq(S) = Flat(S)[n]
           /\ Flat(S)[1] = S[1]
           /\ \A i \in 2..n : FlatStep(S, i)
           /\ \A i \in 1..n : Flat(S)[i] \in Seq(T)
<1> DEFINE step == [p \in (1..n) \X Seq(T) |-> p[2] \o S[p[1]]]
           Is(h) == h = [i \in 1..n |-> IF i = 1 THEN S[i] ELSE h[i - 1] \o S[i]]
<1>1. Len(S) = n /\ \A i \in 1..n : S[i] \in Seq(T)
  BY DEF Lists
<1>2. \A q, r \in Seq(T) : q \o r \in Seq(T)
  BY ConcatProperties
<1>3. step \in [(1..n) \X Seq(T) -> Seq(T)]
  <2>1. \A p \in (1..n) \X Seq(T) : p[2] \in Seq(T) /\ S[p[1]] \in Seq(T)
    BY <1>1
  <2>2. \A p \in (1..n) \X Seq(T) : p[2] \o S[p[1]] \in Seq(T)
    BY <1>2, <2>1
  <2> QED BY <2>2
<1>4. <<>> \in Seq(T)
  OBVIOUS
<1>5. \A i \in 1..n : \A r \in Seq(T) : step[<<i, r>>] = r \o S[i]
  OBVIOUS
<1> HIDE DEF step
<1>6. PICK f : Iterates(n, <<>>, step, f)
  BY <1>3, <1>4, IterationExists
<1>7. f \in [0..n -> Seq(T)]
  BY <1>3, <1>4, <1>6, IterationTyped
<1> DEFINE g == [i \in 1..n |-> f[i]]
<1>8. f[0] = <<>> /\ \A i \in 1..n : f[i] = f[i - 1] \o S[i]
  <2>0. \A i \in 0..n : f[i] = IF i = 0 THEN <<>> ELSE step[<<i, f[i - 1]>>]
    BY <1>6 DEF Iterates
  <2>1. f[0] = <<>>
    <3>1. 0 \in 0..n
      OBVIOUS
    <3> QED BY <2>0, <3>1
  <2>2. ASSUME NEW i \in 1..n PROVE f[i] = f[i - 1] \o S[i]
    <3>0. i \in 0..n /\ i # 0 /\ i - 1 \in 0..n
      OBVIOUS
    <3>1. f[i] = step[<<i, f[i - 1]>>]
      BY <2>0, <3>0, Zenon
    <3>2. f[i - 1] \in Seq(T)
      BY <1>7, <3>0
    <3> QED BY <1>5, <3>1, <3>2
  <2> QED BY <2>1, <2>2
<1>9. f[1] = S[1]
  <2>0. 1 \in 1..n /\ 1 - 1 = 0
    OBVIOUS
  <2>1. f[1] = f[1 - 1] \o S[1] /\ S[1] \in Seq(T)
    BY <1>1, <1>8, <2>0, Zenon
  <2>2. <<>> \o S[1] = S[1]
    BY <2>1, ConcatEmptySeq
  <2> QED BY <1>8, <2>0, <2>1, <2>2, Zenon
<1>10. ASSUME NEW i \in 1..n PROVE g[i] = IF i = 1 THEN S[i] ELSE g[i - 1] \o S[i]
  <2>1. CASE i = 1
    BY <1>9, <2>1
  <2>2. CASE i # 1
    <3>1. i - 1 \in 1..n
      BY <2>2
    <3> QED BY <1>8, <2>2, <3>1
  <2> QED BY <2>1, <2>2
<1>11. Is(g)
  <2>1. g = [i \in 1..n |-> IF i = 1 THEN S[i] ELSE g[i - 1] \o S[i]]
    BY <1>10
  <2> HIDE DEF g
  <2> QED BY <2>1
<1>12. Is(Flat(S))
  BY <1>1, <1>11 DEF Flat
<1> DEFINE h == Flat(S)
<1>13. h = [i \in 1..n |-> IF i = 1 THEN S[i] ELSE h[i - 1] \o S[i]]
  BY <1>12
<1> HIDE DEF h
<1>14. \A i \in 1..n : h[i] = IF i = 1 THEN S[i] ELSE h[i - 1] \o S[i]
  BY <1>13
<1>15. h[1] = S[1] /\ \A i \in 2..n : h[i] = h[i - 1] \o S[i]
  <2>1. 1 \in 1..n /\ \A i \in 2..n : i \in 1..n /\ i # 1
    OBVIOUS
  <2> QED BY <1>14, <2>1, Zenon
<1>16. \A i \in 1..n : h[i] \in Seq(T)
  <2> DEFINE bad == {i \in 1..n : h[i] \notin Seq(T)}
  <2>1. SUFFICES ASSUME bad # {} PROVE FALSE
    OBVIOUS
  <2>2. PICK i \in bad : \A y \in bad : i <= y
    <3>1. bad \in SUBSET Nat
      OBVIOUS
    <3> HIDE DEF bad
    <3> QED BY <2>1, <3>1, LeastNumber
  <2>3. i \in 1..n /\ i # 1 /\ h[i] \notin Seq(T)
    BY <1>1, <1>15, <2>2
  <2>4. i - 1 \in 1..n /\ i - 1 \notin bad /\ i \in 2..n
    BY <2>2, <2>3
  <2>5. h[i - 1] \in Seq(T) /\ h[i] = h[i - 1] \o S[i]
    BY <1>15, <2>4
  <2> QED BY <1>1, <1>2, <2>3, <2>5
<1>17. FlattenSeq(S) = h[n]
  <2>1. Len(S) # 0
    BY <1>1
  <2>2. FlattenSeq(S) = Flat(S)[Len(S)]
    BY <2>1 DEF FlattenSeq, Flat
  <2> QED BY <1>1, <2>2 DEF h
<1> QED BY <1>15, <1>16, <1>17, Zenon DEF h, FlatStep

\* Every element of the flattened sequence is one of a sequence in it.
LEMMA FlatElements ==
    ASSUME NEW n \in Nat, NEW T, NEW S \in [1..n -> Seq(T)], NEW e \in ToSet(FlattenSeq(S))
    PROVE  \E i \in 1..n : e \in ToSet(S[i])
<1>1. CASE n = 0
  <2>1. Len(S) = 0 /\ DOMAIN S = {}
    BY <1>1
  <2>2. FlattenSeq(S) = S
    BY <2>1 DEF FlattenSeq
  <2> QED BY <2>1, <2>2 DEF ToSet
<1>2. CASE n # 0
  <2> DEFINE h == Flat(S)
             bad == {m \in 1..n : \E x \in ToSet(h[m]) : \A i \in 1..n : x \notin ToSet(S[i])}
  <2>1. /\ FlattenSeq(S) = h[n] /\ h[1] = S[1]
        /\ \A i \in 2..n : h[i] = h[i - 1] \o S[i]
        /\ \A i \in 1..n : h[i] \in Seq(T)
    <3>1. n \in Nat \ {0}
      BY <1>2
    <3>2. S \in Lists(n, T)
      BY DEF Lists
    <3>3. FlattenSeq(S) = Flat(S)[n]
      BY <3>1, <3>2, FlatIs
    <3>4. Flat(S)[1] = S[1]
      BY <3>1, <3>2, FlatIs
    <3>5. \A i \in 2..n : Flat(S)[i] = Flat(S)[i - 1] \o S[i]
      <4>1. \A i \in 2..n : FlatStep(S, i)
        BY <3>1, <3>2, FlatIs
      <4> QED BY <4>1, Zenon DEF FlatStep
    <3>6. \A i \in 1..n : Flat(S)[i] \in Seq(T)
      BY <3>1, <3>2, FlatIs
    <3> QED BY <3>3, <3>4, <3>5, <3>6, Zenon
  <2> HIDE DEF h
  <2>2. bad = {}
    <3>1. SUFFICES ASSUME bad # {} PROVE FALSE
      OBVIOUS
    <3>2. PICK m \in bad : \A y \in bad : m <= y
      <4>1. bad \in SUBSET Nat
        OBVIOUS
      <4> HIDE DEF bad
      <4> QED BY <3>1, <4>1, LeastNumber
    <3>3. m \in 1..n /\ m # 1
      BY <2>1, <3>2
    <3>4. m - 1 \in 1..n /\ m - 1 \notin bad /\ m \in 2..n
      <4>1. m \in Nat /\ m - 1 \in 1..n /\ m \in 2..n /\ ~(m <= m - 1)
        BY <3>3
      <4> HIDE DEF bad
      <4> QED BY <3>2, <4>1, Zenon
    <3>5. PICK x \in ToSet(h[m]) : \A i \in 1..n : x \notin ToSet(S[i])
      BY <3>2
    <3>6. h[m] = h[m - 1] \o S[m] /\ h[m - 1] \in Seq(T) /\ S[m] \in Seq(T)
      BY <2>1, <3>3, <3>4
    <3>7. x \in ToSet(h[m - 1]) \cup ToSet(S[m])
      <4> DEFINE q == h[m - 1]
                 r == S[m]
      <4>1. q \in Seq(T) /\ r \in Seq(T) /\ x \in ToSet(q \o r)
        BY <3>5, <3>6
      <4> HIDE DEF q, r
      <4>2. PICK j \in DOMAIN (q \o r) : x = (q \o r)[j]
        BY <4>1 DEF ToSet
      <4>3. /\ Len(q) \in Nat /\ Len(r) \in Nat /\ DOMAIN q = 1..Len(q) /\ DOMAIN r = 1..Len(r)
            /\ DOMAIN (q \o r) = 1..(Len(q) + Len(r))
        BY <4>1
      <4>4. (q \o r)[j] = IF j <= Len(q) THEN q[j] ELSE r[j - Len(q)]
        BY <4>1, <4>2, <4>3
      <4>5. CASE j <= Len(q)
        <5>1. j \in DOMAIN q /\ x = q[j]
          BY <4>2, <4>3, <4>4, <4>5
        <5> QED BY <5>1 DEF ToSet, q
      <4>6. CASE j > Len(q)
        <5>1. j - Len(q) \in DOMAIN r /\ x = r[j - Len(q)]
          BY <4>2, <4>3, <4>4, <4>6
        <5> QED BY <5>1 DEF ToSet, r
      <4> QED BY <4>2, <4>3, <4>5, <4>6
    <3>8. x \in ToSet(h[m - 1])
      BY <3>3, <3>5, <3>7
    <3> QED BY <3>4, <3>5, <3>8
  <2>3. n \notin bad /\ n \in 1..n
    <3>1. n \in 1..n
      BY <1>2
    <3> HIDE DEF bad
    <3> QED BY <2>2, <3>1, Zenon
  <2>4. e \in ToSet(h[n])
    BY <2>1
  <2> QED BY <2>3, <2>4
<1> QED BY <1>1, <1>2

LEMMA RawRoundTrip ==
    ASSUME NEW ino \in Nat, NEW kind \in {"Regular", "Hash", "Hashes"}
    PROVE  from_raw(to_raw(ino, kind)) = [ino |-> ino, kind |-> kind]
<1> DEFINE id == IdOf(Kinds, kind)
           raw == to_raw(ino, kind)
<1>1. Len(Kinds) = 3 /\ Kinds[1] = "Regular" /\ Kinds[2] = "Hash" /\ Kinds[3] = "Hashes"
  BY DEF Kinds
<1>2. id \in {0, 1, 2} /\ Kinds[id + 1] = kind
  <2> DEFINE i == CHOOSE i \in 1..Len(Kinds) : Kinds[i] = kind
  <2>1. \E j \in 1..Len(Kinds) : Kinds[j] = kind
    BY <1>1
  <2>2. i \in 1..Len(Kinds) /\ Kinds[i] = kind
    BY <2>1
  <2>3. id = i - 1
    BY DEF IdOf
  <2> HIDE DEF i, id
  <2> QED BY <1>1, <2>2, <2>3
<1>3. HasId(Kinds, id) /\ ById(Kinds, id) = kind
  BY <1>1, <1>2 DEF HasId, ById
<1>4. raw = 1 + (ino - 1) * 8 + id
  BY DEF to_raw, ROOT_INODE, LOGICAL_INO_FACTOR
<1> HIDE DEF id, raw
<1>5. (raw - 1) % 8 = id /\ 1 + ((raw - 1) \div 8) = ino
  <2>1. raw - 1 = (ino - 1) * 8 + id /\ id \in 0..7 /\ ino - 1 \in Int
    BY <1>2, <1>4
  <2> DEFINE y == ino - 1
  <2>2. y \in Int /\ raw - 1 = y * 8 + id /\ ino = y + 1
    BY <2>1
  <2> HIDE DEF y
  <2>3. (y * 8 + id) % 8 = id /\ (y * 8 + id) \div 8 = y
    BY <2>1, <2>2, Z3
  <2> QED BY <2>2, <2>3
<1>6. from_raw(raw) = [ino |-> 1 + ((raw - 1) \div 8),
                       kind |-> IF HasId(Kinds, (raw - 1) % 8) THEN ById(Kinds, (raw - 1) % 8) ELSE "Regular"]
  BY DEF from_raw, ROOT_INODE, LOGICAL_INO_FACTOR
<1> QED BY <1>3, <1>5, <1>6, Zenon DEF raw

\* The name of a hash file is told from others, and the file's own name is
\* found in it.
LEMMA HashNameParsed ==
    ASSUME NEW name \in Keys, NEW end \in {HashEnd, HashesEnd}
    PROVE  /\ IsHashName(HashName(name, end), end)
           /\ Inner(HashName(name, end)) = {name}
           /\ \A other \in {HashEnd, HashesEnd} : IsHashName(HashName(name, end), other) => other = end
           /\ \A other \in {SnapshotsName, OpenedName} : HashName(name, end) # other
<1> DEFINE k == <<Dot>>
           r == <<Dot, end>>
           h == HashName(name, end)
<1>1. k \in Keys /\ r \in Keys /\ Len(k) = 1 /\ Len(r) = 2 /\ k[1] = Dot /\ r[1] = Dot /\ r[2] = end
  BY DirectoryStoreAssumption DEF Keys, Bytes
<1>2. h = k \o name \o r
  BY DEF HashName
<1> HIDE DEF k, r, h
<1>3. Joins(k, name, k \o name) /\ Len(name) \in Nat
  BY <1>1, JoinsConcat, KeyBytes
<1>4. k \o name \in Keys /\ Len(k \o name) = 1 + Len(name) /\ (k \o name)[1] = Dot
  <2>1. 1 \in 1..Len(k)
    BY <1>1
  <2> QED BY <1>1, <1>3, <2>1 DEF Joins
<1> DEFINE p == k \o name
<1> HIDE DEF p
<1>5. Joins(p, r, p \o r) /\ h = p \o r /\ p \in Keys /\ Len(p) = 1 + Len(name) /\ p[1] = Dot
  BY <1>1, <1>2, <1>4, JoinsConcat DEF p
<1>6. Len(h) = Len(name) + 3 /\ h[1] = Dot /\ h[Len(h) - 1] = Dot /\ h[Len(h)] = end
  <2>1. /\ Len(h) = Len(p) + Len(r) /\ \A i \in 1..Len(p) : h[i] = p[i]
        /\ \A i \in 1..Len(r) : h[Len(p) + i] = r[i]
    BY <1>5 DEF Joins
  <2>2. 1 \in 1..Len(p) /\ 1 \in 1..Len(r) /\ 2 \in 1..Len(r)
    BY <1>1, <1>3, <1>5
  <2>3. Len(h) = Len(name) + 3 /\ Len(h) - 1 = Len(p) + 1 /\ Len(h) = Len(p) + 2
    BY <1>1, <1>3, <1>5, <2>1
  <2> QED BY <1>1, <1>5, <2>1, <2>2, <2>3
<1>7. SubSeq(h, 2, Len(h) - 2) = name
  <2>1. SubSeq(k \o name \o r, Len(k) + 1, Len(k) + Len(name)) = name
    BY <1>1, SubSeqMiddle
  <2>2. Len(k) + 1 = 2 /\ Len(k) + Len(name) = Len(h) - 2
    BY <1>1, <1>3, <1>6
  <2> QED BY <1>2, <2>1, <2>2, Zenon
<1>8. Len(h) > 1 /\ ~(Len(h) < 3)
  BY <1>3, <1>6
<1>9. IsHashName(h, end) /\ Inner(h) = {name}
  BY <1>6, <1>7, <1>8 DEF IsHashName, Inner
<1>10. \A other \in {HashEnd, HashesEnd} : IsHashName(h, other) => other = end
  BY <1>6 DEF IsHashName
<1>11. \A other \in {SnapshotsName, OpenedName} : h # other
  BY <1>9, SpecialNamesAssumption
<1> QED BY <1>9, <1>10, <1>11 DEF h

LEMMA NamesParsed ==
    ASSUME NEW name \in Keys
    PROVE  /\ parse_filename(HashName(name, HashEnd)) = [names |-> {name}, kind |-> "Hash"]
           /\ parse_filename(HashName(name, HashesEnd)) = [names |-> {name}, kind |-> "Hashes"]
           /\ ~ReservedName(name) => parse_filename(name) = [names |-> {name}, kind |-> "Regular"]
<1>1. HashEnd # HashesEnd
  BY DirectoryStoreAssumption
<1>2. parse_filename(HashName(name, HashEnd)) = [names |-> {name}, kind |-> "Hash"]
  <2> DEFINE h == HashName(name, HashEnd)
  <2>1. IsHashName(h, HashEnd) /\ Inner(h) = {name} /\ ~IsHashName(h, HashesEnd)
    BY <1>1, HashNameParsed
  <2> HIDE DEF h
  <2>2. parse_filename(h) = [names |-> {name}, kind |-> "Hash"]
    BY <2>1 DEF parse_filename
  <2> QED BY <2>2 DEF h
<1>3. parse_filename(HashName(name, HashesEnd)) = [names |-> {name}, kind |-> "Hashes"]
  <2> DEFINE h == HashName(name, HashesEnd)
  <2>1. IsHashName(h, HashesEnd) /\ Inner(h) = {name} /\ ~IsHashName(h, HashEnd)
    BY <1>1, HashNameParsed
  <2> HIDE DEF h
  <2>2. parse_filename(h) = [names |-> {name}, kind |-> "Hashes"]
    BY <2>1 DEF parse_filename
  <2> QED BY <2>2 DEF h
<1>4. ~ReservedName(name) => parse_filename(name) = [names |-> {name}, kind |-> "Regular"]
  BY DEF parse_filename, ReservedName
<1> QED BY <1>2, <1>3, <1>4

\* The lookup of a name that leads to an entry of the directory.
LEMMA EntryLookedUp ==
    ASSUME StoreOK(store), NEW dir, NEW name, NEW ino \in Word, NEW kind, NEW shown,
           directory_child(dir, name) \in DOMAIN store,
           store[directory_child(dir, name)].ino = ino,
           parse_filename(shown) = [names |-> {name}, kind |-> kind],
           ~(dir = ROOT_INODE /\ shown \in {OpenedName, SnapshotsName}),
           AllAttributes(store, ino)
    PROVE  lookup(store, dir, shown) = {to_raw(ino, kind)}
<1> DEFINE v == store[directory_child(dir, name)]
           parsed == parse_filename(shown)
           items == UNION {Get(store, directory_child(dir, n)) : n \in parsed.names}
<1>1. lookup(store, dir, shown) =
        {to_raw(store[inode_x(i.ino, "Description")].ino, parsed.kind) :
            i \in {j \in items : AllAttributes(store, j.ino)}}
  BY DEF lookup
<1>2. parsed.names = {name} /\ parsed.kind = kind
  OBVIOUS
<1> HIDE DEF parsed
<1>3. items = {v}
  BY <1>2 DEF Get
<1> HIDE DEF items
<1>4. v.ino = ino
  OBVIOUS
<1> HIDE DEF v
<1>5. store[inode_x(ino, "Description")].ino = ino
  <2>1. inode_x(ino, "Description") \in DOMAIN store
    BY DEF AllAttributes
  <2>2. Describes(ino, store[inode_x(ino, "Description")])
    BY <2>1 DEF StoreOK, DescribedSelf
  <2> QED BY <2>2 DEF Describes
<1>6. {j \in items : AllAttributes(store, j.ino)} = {v}
  BY <1>3, <1>4
<1> QED BY <1>1, <1>2, <1>4, <1>5, <1>6

LEMMA ListedFoundHere ==
    ASSUME StoreOK(store), LinksOK(store, links),
           \A l \in links : l.dir \in TreeDirs => AllAttributes(store, l.ino)
    PROVE  ListedFound
<1> SUFFICES ASSUME NEW dir \in {l.dir : l \in links},
                    NEW e \in ToSet(read_dir1(store, dir))
             PROVE  LET l == from_raw(e.raw) IN
                    /\ to_raw(l.ino, l.kind) = e.raw
                    /\ \/ lookup(store, dir, e.name) = {e.raw}
                       \/ l.kind = "Regular" /\ ReservedName(e.name)
                       \/ dir \notin TreeDirs /\ ~AllAttributes(store, l.ino)
  BY DEF ListedFound
<1> DEFINE kids == Children(store, dir)
           n == Len(kids)
           S == [i \in 1..n |-> DirItems(kids[i])]
           own == FlattenSeq(S)
           T == [raw : Int, name : Keys]
<1>1. CounterOK(store)
  BY DEF StoreOK
<1>2. dir \in Numbers(store)
  BY DEF LinksOK, IsLink
<1>3. ChildrenOf(store, dir, kids)
  <2>1. Nexts(dir)
    BY <1>1, <1>2, NumbersAreWords DEF Nexts
  <2> QED BY <2>1, ChildrenAre
<1>4. ASSUME NEW ino \in Nat, NEW kind \in {"Regular", "Hash", "Hashes"}, NEW name, e = DirItem(ino, kind, name),
             \/ lookup(store, dir, name) = {to_raw(ino, kind)}
             \/ kind = "Regular" /\ ReservedName(name)
             \/ dir \notin TreeDirs /\ ~AllAttributes(store, ino)
      PROVE  LET l == from_raw(e.raw) IN
             /\ to_raw(l.ino, l.kind) = e.raw
             /\ \/ lookup(store, dir, e.name) = {e.raw}
                \/ l.kind = "Regular" /\ ReservedName(e.name)
                \/ dir \notin TreeDirs /\ ~AllAttributes(store, l.ino)
  <2>1. e.raw = to_raw(ino, kind) /\ e.name = name
    BY <1>4 DEF DirItem
  <2> DEFINE l == from_raw(e.raw)
  <2>2. l = [ino |-> ino, kind |-> kind]
    BY <2>1, RawRoundTrip
  <2> HIDE DEF l
  <2>3. l.ino = ino /\ l.kind = kind
    BY <2>2
  <2>4. /\ to_raw(l.ino, l.kind) = e.raw
        /\ \/ lookup(store, dir, e.name) = {e.raw}
           \/ l.kind = "Regular" /\ ReservedName(e.name)
           \/ dir \notin TreeDirs /\ ~AllAttributes(store, l.ino)
    BY <1>4, <2>1, <2>3
  <2> QED BY <2>4 DEF l
<1>5. CASE e \in ToSet(own)
  <2>1. n \in Nat /\ kids \in [1..n -> [name : Keys, ino : Numbers(store), typ : Types]]
    BY <1>3 DEF ChildrenOf
  <2>2. ASSUME NEW i \in 1..n
        PROVE  /\ kids[i].name \in Keys /\ kids[i].ino \in Numbers(store)
               /\ directory_child(dir, kids[i].name) \in DOMAIN store
               /\ store[directory_child(dir, kids[i].name)].ino = kids[i].ino
    BY <1>3 DEF ChildrenOf
  <2> HIDE DEF kids, n
  <2>3. ASSUME NEW i \in 1..n
        PROVE  S[i] \in Seq(ToSet(S[i])) /\ \A x \in ToSet(S[i]) :
                    \/ x = DirItem(kids[i].ino, "Hash", HashName(kids[i].name, HashEnd))
                    \/ x = DirItem(kids[i].ino, "Hashes", HashName(kids[i].name, HashesEnd))
                    \/ x = DirItem(kids[i].ino, "Regular", kids[i].name)
    <3> DEFINE x1 == DirItem(kids[i].ino, "Hash", HashName(kids[i].name, HashEnd))
               x2 == DirItem(kids[i].ino, "Hashes", HashName(kids[i].name, HashesEnd))
               x3 == DirItem(kids[i].ino, "Regular", kids[i].name)
    <3>1. S[i] = (IF kids[i].typ = "File" THEN <<x1, x2>> ELSE <<>>) \o <<x3>>
      BY DEF DirItems
    <3> HIDE DEF x1, x2, x3
    <3> DEFINE X == {x1, x2, x3}
               q == IF kids[i].typ = "File" THEN <<x1, x2>> ELSE <<>>
    <3>2. q \in Seq(X) /\ <<x3>> \in Seq(X) /\ S[i] = q \o <<x3>>
      BY <3>1
    <3> HIDE DEF X, q
    <3>3. S[i] \in Seq(ToSet(S[i])) /\ \A x \in ToSet(S[i]) : x = x1 \/ x = x2 \/ x = x3
      <4>1. q \o <<x3>> \in Seq(X)
        BY <3>2, ConcatProperties
      <4>2. S[i] \in Seq(X)
        BY <3>2, <4>1, Zenon
      <4> HIDE DEF S
      <4>3. PICK y : y = S[i]
        OBVIOUS
      <4>4. y \in Seq(X)
        BY <4>2, <4>3
      <4>5. y \in Seq(ToSet(y)) /\ ToSet(y) \subseteq X
        BY <4>4 DEF ToSet
      <4> QED BY <4>3, <4>5, Zenon DEF X
    <3> QED BY <3>3 DEF x1, x2, x3
  <2>4. PICK i \in 1..n : e \in ToSet(S[i])
    <3> DEFINE U == UNION {ToSet(S[i]) : i \in 1..n}
    <3>1. ASSUME NEW i \in 1..n PROVE S[i] \in Seq(U)
      <4>1. ToSet(S[i]) \subseteq U
        OBVIOUS
      <4>2. S[i] \in Seq(ToSet(S[i]))
        BY <2>3
      <4> HIDE DEF U, S
      <4> QED BY <4>1, <4>2
    <3>2. S \in [1..n -> Seq(U)]
      BY <3>1
    <3> HIDE DEF U, S
    <3> QED BY <1>5, <2>1, <3>2, FlatElements
  <2> DEFINE ino == kids[i].ino
             name == kids[i].name
  <2>5. /\ name \in Keys /\ ino \in Numbers(store) /\ directory_child(dir, name) \in DOMAIN store
        /\ store[directory_child(dir, name)].ino = ino
    BY <2>2
  <2>6. ino \in Word /\ ino \in Nat
    BY <1>1, <2>5, NumbersAreWords
  <2>7. \/ e = DirItem(ino, "Hash", HashName(name, HashEnd))
        \/ e = DirItem(ino, "Hashes", HashName(name, HashesEnd))
        \/ e = DirItem(ino, "Regular", name)
    BY <2>3, <2>4
  <2>8. dir \in TreeDirs => AllAttributes(store, ino)
    <3> DEFINE item == store[directory_child(dir, name)]
    <3>1. item \in Get(store, directory_child(dir, name)) /\ item.ino = ino
      BY <2>5 DEF Get
    <3> HIDE DEF item, ino, name
    <3>2. Link(dir, name, item.ino) \in links
      BY <1>2, <2>5, <3>1, EntryLinked
    <3>3. Link(dir, name, item.ino).dir = dir /\ Link(dir, name, item.ino).ino = item.ino
      BY DEF Link
    <3> QED BY <3>1, <3>2, <3>3
  <2> HIDE DEF ino, name
  <2>9. CASE e = DirItem(ino, "Hash", HashName(name, HashEnd))
    <3>1. parse_filename(HashName(name, HashEnd)) = [names |-> {name}, kind |-> "Hash"]
      BY <2>5, NamesParsed
    <3>2. HashName(name, HashEnd) \notin {OpenedName, SnapshotsName}
      BY <2>5, HashNameParsed
    <3>3. AllAttributes(store, ino) => lookup(store, dir, HashName(name, HashEnd)) = {to_raw(ino, "Hash")}
      BY <2>5, <2>6, <3>1, <3>2, EntryLookedUp
    <3> QED BY <1>4, <2>6, <2>8, <2>9, <3>3
  <2>10. CASE e = DirItem(ino, "Hashes", HashName(name, HashesEnd))
    <3>1. parse_filename(HashName(name, HashesEnd)) = [names |-> {name}, kind |-> "Hashes"]
      BY <2>5, NamesParsed
    <3>2. HashName(name, HashesEnd) \notin {OpenedName, SnapshotsName}
      BY <2>5, HashNameParsed
    <3>3. AllAttributes(store, ino) => lookup(store, dir, HashName(name, HashesEnd)) = {to_raw(ino, "Hashes")}
      BY <2>5, <2>6, <3>1, <3>2, EntryLookedUp
    <3> QED BY <1>4, <2>6, <2>8, <2>10, <3>3
  <2>11. CASE e = DirItem(ino, "Regular", name)
    <3>1. ~ReservedName(name) => parse_filename(name) = [names |-> {name}, kind |-> "Regular"]
      BY <2>5, NamesParsed
    <3>2. ~ReservedName(name) => name \notin {OpenedName, SnapshotsName}
      BY DEF ReservedName
    <3>3. ~ReservedName(name) /\ AllAttributes(store, ino) =>
            lookup(store, dir, name) = {to_raw(ino, "Regular")}
      BY <2>5, <2>6, <3>1, <3>2, EntryLookedUp
    <3> QED BY <1>4, <2>6, <2>8, <2>11, <3>3
  <2> QED BY <2>7, <2>9, <2>10, <2>11
<1>6. CASE e \notin ToSet(own)
  <2> DEFINE x1 == DirItem(OPENED_INODE_PARENT_INODE, "Regular", OpenedName)
             x2 == DirItem(SNAPSHOT_PARENT_INODE, "Regular", SnapshotsName)
  <2>1. dir = ROOT_INODE /\ (e = x1 \/ e = x2)
    <3>1. read_dir1(store, dir) = IF dir = ROOT_INODE THEN own \o <<x1, x2>> ELSE own
      BY DEF read_dir1, BesideTree
    <3> HIDE DEF own, x1, x2
    <3>2. dir = ROOT_INODE /\ e \in ToSet(own \o <<x1, x2>>)
      BY <1>6, <3>1
    <3>3. PICK j \in DOMAIN (own \o <<x1, x2>>) : e = (own \o <<x1, x2>>)[j]
      BY <3>2 DEF ToSet
    <3> QED BY <1>6, <3>2, <3>3 DEF ToSet
  <2>2. OPENED_INODE_PARENT_INODE \in Nat /\ SNAPSHOT_PARENT_INODE \in Nat
    BY DEF OPENED_INODE_PARENT_INODE, SNAPSHOT_PARENT_INODE
  <2>3. lookup(store, dir, OpenedName) = {to_raw(OPENED_INODE_PARENT_INODE, "Regular")}
    BY <2>1 DEF lookup
  <2>4. lookup(store, dir, SnapshotsName) = {to_raw(SNAPSHOT_PARENT_INODE, "Regular")}
    BY <2>1, DirectoryStoreAssumption DEF lookup
  <2>5. CASE e = x1
    BY <1>4, <2>2, <2>3, <2>5
  <2>6. CASE e = x2
    BY <1>4, <2>2, <2>4, <2>6
  <2> QED BY <2>1, <2>5, <2>6
<1> QED BY <1>5, <1>6

\* Whatever readdir shows, beside changes of the tree and in snapshots that
\* are half done, a lookup of the name answers the number that readdir gave,
\* and the number leads back to the inode and the kind of file: except for
\* reserved names, and copies that have no attributes yet or lost them.  An
\* entry of the tree is never one whose inode is cleared.
THEOREM ListedStaysFound == Spec => []ListedFound
<1>1. StoreInv /\ LiveInv => ListedFound
  BY ListedFoundHere DEF StoreInv, LiveInv
<1> QED BY <1>1, LiveKept, PTL

-----------------------------------------------------------------------------
(***************************************************************************)
(* The order of a listing                                                  *)
(***************************************************************************)

\* Pairs of numbers in the order of their first parts, then of the second.
Earlier(x, y) == x[1] < y[1] \/ (x[1] = y[1] /\ x[2] < y[2])

\* Where the elements of a flattened sequence come from.
Places(S, n, F, at) ==
    /\ \A p \in 1..Len(F) :
        /\ at[p][1] \in 1..n /\ at[p][2] \in 1..Len(S[at[p][1]])
        /\ F[p] = S[at[p][1]][at[p][2]]
    /\ \A p, q \in 1..Len(F) : p < q => Earlier(at[p], at[q])
    /\ \A i \in 1..n : \A j \in 1..Len(S[i]) :
        \E p \in 1..Len(F) : at[p][1] = i /\ at[p][2] = j

LEMMA FlatPlaces ==
    ASSUME NEW n \in Nat, NEW T, NEW S \in [1..n -> Seq(T)]
    PROVE  FlattenSeq(S) \in Seq(T) /\ \E at : Places(S, n, FlattenSeq(S), at)
<1>1. CASE n = 0
  <2>1. Len(S) = 0 /\ S = <<>>
    BY <1>1
  <2>2. FlattenSeq(S) = S
    BY <2>1 DEF FlattenSeq
  <2>3. <<>> \in Seq(T) /\ Places(S, n, <<>>, <<>>)
    BY <1>1 DEF Places
  <2> QED BY <2>1, <2>2, <2>3
<1>2. CASE n # 0
  <2> DEFINE h == Flat(S)
             bad == {m \in 1..n : ~\E at : Places(S, m, h[m], at)}
  <2>1. /\ FlattenSeq(S) = h[n] /\ h[1] = S[1]
        /\ \A i \in 2..n : h[i] = h[i - 1] \o S[i]
        /\ \A i \in 1..n : h[i] \in Seq(T)
    <3>1. n \in Nat \ {0} /\ S \in Lists(n, T)
      BY <1>2 DEF Lists
    <3>2. FlattenSeq(S) = Flat(S)[n] /\ Flat(S)[1] = S[1]
      BY <3>1, FlatIs
    <3>3. \A i \in 2..n : Flat(S)[i] = Flat(S)[i - 1] \o S[i]
      <4>1. \A i \in 2..n : FlatStep(S, i)
        BY <3>1, FlatIs
      <4> QED BY <4>1, Zenon DEF FlatStep
    <3>4. \A i \in 1..n : Flat(S)[i] \in Seq(T)
      BY <3>1, FlatIs
    <3> QED BY <3>2, <3>3, <3>4, Zenon
  <2> HIDE DEF h
  <2>2. bad = {}
    <3>1. SUFFICES ASSUME bad # {} PROVE FALSE
      OBVIOUS
    <3>2. PICK m \in bad : \A y \in bad : m <= y
      <4>1. bad \in SUBSET Nat
        OBVIOUS
      <4> HIDE DEF bad
      <4> QED BY <3>1, <4>1, LeastNumber
    <3>3. m \in 1..n /\ ~\E at : Places(S, m, h[m], at)
      BY <3>2
    <3>4. CASE m = 1
      <4> DEFINE at == [p \in 1..Len(S[1]) |-> <<1, p>>]
      <4>1. S[1] \in Seq(T) /\ Len(S[1]) \in Nat
        BY <3>3, <3>4
      <4>2. Places(S, 1, S[1], at)
        BY <4>1 DEF Places, Earlier
      <4> QED BY <2>1, <3>3, <3>4, <4>2
    <3>5. CASE m # 1
      <4> DEFINE l == m - 1
                 q == h[l]
                 r == S[m]
      <4>1. l \in 1..n /\ m \in 2..n /\ m = l + 1 /\ l \in Nat /\ ~(m <= l)
        BY <3>3, <3>5
      <4>2. l \notin bad
        <5> HIDE DEF bad, l
        <5> QED BY <3>2, <4>1
      <4>3. PICK old : Places(S, l, h[l], old)
        BY <4>1, <4>2
      <4>4. /\ h[m] = q \o r /\ q \in Seq(T) /\ r \in Seq(T)
            /\ Len(q) \in Nat /\ Len(r) \in Nat
        <5>1. h[m] = h[m - 1] \o S[m] /\ h[l] \in Seq(T) /\ S[m] \in Seq(T)
          BY <2>1, <3>3, <4>1
        <5> QED BY <5>1
      <4>5. /\ Len(h[m]) = Len(q) + Len(r)
            /\ \A p \in 1..Len(q) : h[m][p] = q[p]
            /\ \A p \in (Len(q) + 1)..(Len(q) + Len(r)) : h[m][p] = r[p - Len(q)]
        BY <4>4
      <4>6. /\ \A p \in 1..Len(q) : /\ old[p][1] \in 1..l /\ old[p][2] \in 1..Len(S[old[p][1]])
                                   /\ q[p] = S[old[p][1]][old[p][2]]
            /\ \A p1, p2 \in 1..Len(q) : p1 < p2 => Earlier(old[p1], old[p2])
            /\ \A i \in 1..l : \A j \in 1..Len(S[i]) :
                \E p \in 1..Len(q) : old[p][1] = i /\ old[p][2] = j
        BY <4>3 DEF Places
      <4> DEFINE F == h[m]
                 N == Len(q) + Len(r)
                 at == [p \in 1..N |-> IF p <= Len(q) THEN old[p] ELSE <<m, p - Len(q)>>]
      <4>7. Len(F) = N /\ N \in Nat
        BY <4>4, <4>5
      <4>8. ASSUME NEW p \in 1..N
            PROVE  \/ p \in 1..Len(q) /\ at[p] = old[p] /\ F[p] = q[p]
                   \/ /\ p \in (Len(q) + 1)..N /\ at[p] = <<m, p - Len(q)>>
                      /\ p - Len(q) \in 1..Len(r) /\ F[p] = r[p - Len(q)]
        BY <4>4, <4>5
      <4> HIDE DEF at, F, N, q, r, l
      <4>9. ASSUME NEW p \in 1..N
            PROVE  /\ at[p][1] \in 1..m /\ at[p][2] \in 1..Len(S[at[p][1]])
                   /\ F[p] = S[at[p][1]][at[p][2]]
        <5>1. CASE p \in 1..Len(q) /\ at[p] = old[p] /\ F[p] = q[p]
          BY <4>1, <4>6, <5>1
        <5>2. CASE /\ p \in (Len(q) + 1)..N /\ at[p] = <<m, p - Len(q)>>
                   /\ p - Len(q) \in 1..Len(r) /\ F[p] = r[p - Len(q)]
          BY <4>1, <5>2 DEF r
        <5> QED BY <4>8, <5>1, <5>2
      <4>10. ASSUME NEW p1 \in 1..N, NEW p2 \in 1..N, p1 < p2
             PROVE  Earlier(at[p1], at[p2])
        <5>0. Len(q) \in Nat /\ N \in Nat
          BY <4>4, <4>7
        <5>1. CASE p2 \in 1..Len(q) /\ at[p2] = old[p2]
          <6>1. p1 \in 1..Len(q) /\ at[p1] = old[p1]
            <7>1. p1 \in 1..Len(q) /\ p1 \notin (Len(q) + 1)..N
              BY <4>10, <5>0, <5>1
            <7> QED BY <4>8, <7>1
          <6> QED BY <4>6, <4>10, <5>1, <6>1
        <5>2. CASE p2 \in (Len(q) + 1)..N /\ at[p2] = <<m, p2 - Len(q)>>
          <6>1. CASE p1 \in 1..Len(q) /\ at[p1] = old[p1]
            <7>1. at[p1][1] \in 1..l /\ at[p2][1] = m
              BY <4>6, <5>2, <6>1
            <7> QED BY <4>1, <7>1 DEF Earlier
          <6>2. CASE p1 \in (Len(q) + 1)..N /\ at[p1] = <<m, p1 - Len(q)>>
            BY <4>10, <5>0, <5>2, <6>2 DEF Earlier
          <6> QED BY <4>8, <6>1, <6>2
        <5> QED BY <4>8, <5>1, <5>2
      <4>11. ASSUME NEW i \in 1..m, NEW j \in 1..Len(S[i])
             PROVE  \E p \in 1..N : at[p][1] = i /\ at[p][2] = j
        <5>1. CASE i \in 1..l
          <6>1. PICK p \in 1..Len(q) : old[p][1] = i /\ old[p][2] = j
            BY <4>6, <5>1
          <6>2. p \in 1..N /\ at[p] = old[p]
            BY <4>4, <4>8 DEF N
          <6> QED BY <6>1, <6>2
        <5>2. CASE i = m
          <6> DEFINE p == Len(q) + j
          <6>1. p \in (Len(q) + 1)..N /\ p \in 1..N /\ p - Len(q) = j /\ ~(p \in 1..Len(q))
            BY <4>4, <5>2 DEF N, r
          <6>2. at[p] = <<m, j>>
            BY <4>8, <6>1
          <6>3. p \in 1..N
            BY <6>1
          <6> HIDE DEF p
          <6>4. at[p][1] = m /\ at[p][2] = j
            BY <6>2
          <6> QED BY <5>2, <6>3, <6>4
        <5> QED BY <4>1, <5>1, <5>2
      <4>12. Places(S, m, F, at)
        BY <4>7, <4>9, <4>10, <4>11 DEF Places
      <4> QED BY <3>3, <4>12 DEF F
    <3> QED BY <3>4, <3>5
  <2>3. n \in 1..n /\ n \notin bad
    <3>1. n \in 1..n
      BY <1>2
    <3> HIDE DEF bad
    <3> QED BY <2>2, <3>1
  <2>4. \E at : Places(S, n, h[n], at)
    BY <2>3
  <2> QED BY <2>1, <2>3, <2>4
<1> QED BY <1>1, <1>2

\* The first of finitely many keys, as many as a scan returns.
Firsts(F) == {k \in F : Rank(F)[k] <= ScanLimit}
FirstCount(F) == IF Cardinality(F) < ScanLimit THEN Cardinality(F) ELSE ScanLimit

LEMMA RankTyped ==
    ASSUME NEW F \in SUBSET Keys, IsFiniteSet(F), NEW k \in F
    PROVE  /\ Rank(F)[k] \in 1..Cardinality(F) /\ Rank(F)[k] \in Nat
           /\ Rank(F)[k] = Cardinality({j \in F : KeyLess(j, k)}) + 1
           /\ IsFiniteSet({j \in F : KeyLess(j, k)})
<1>1. Rank(F) \in Bijection(F, 1..Cardinality(F))
  BY RankBijective
<1>2. Rank(F)[k] \in 1..Cardinality(F)
  BY <1>1 DEF Bijection, Injection
<1>3. {j \in F : KeyLess(j, k)} \in SUBSET F
  OBVIOUS
<1>4. IsFiniteSet({j \in F : KeyLess(j, k)})
  BY <1>3, FS_Subset
<1> QED BY <1>2, <1>4 DEF Rank

LEMMA ScanFirsts ==
    ASSUME NEW S \in SUBSET Keys, IsFiniteSet(S), NEW range, NEW F, F = Found(S, range)
    PROVE  /\ FirstCount(F) \in Nat
           /\ Scan(S, range, ScanLimit) \in [1..FirstCount(F) -> Firsts(F)]
           /\ Len(Scan(S, range, ScanLimit)) = FirstCount(F)
           /\ \A i, j \in 1..FirstCount(F) :
                i < j => KeyLess(Scan(S, range, ScanLimit)[i], Scan(S, range, ScanLimit)[j])
           /\ \A k \in Firsts(F) : \E i \in 1..FirstCount(F) : Scan(S, range, ScanLimit)[i] = k
<1> DEFINE N == FirstCount(F)
           scan == Scan(S, range, ScanLimit)
<1>1. F \in SUBSET S /\ F \in SUBSET Keys
  BY DEF Found
<1>2. IsFiniteSet(F) /\ Cardinality(F) \in Nat /\ ScanLimit \in Nat
  <2>1. IsFiniteSet(F)
    BY <1>1, FS_Subset
  <2> QED BY <2>1, FS_CardinalityType, DirectoryStoreAssumption
<1>3. N \in Nat /\ N <= Cardinality(F) /\ N <= ScanLimit /\ N = ScanLen(S, range, ScanLimit)
      /\ (N = Cardinality(F) \/ N = ScanLimit)
  BY <1>2 DEF ScanLen, FirstCount
<1>4. scan = [i \in 1..N |-> CHOOSE k \in F : Rank(F)[k] = i]
  BY <1>3 DEF Scan, FirstCount, Found, Rank
<1>5. /\ Len(scan) = N
      /\ \A i, j \in 1..N : i < j => KeyLess(scan[i], scan[j])
  BY <1>2, <1>3, ScanIs
<1> HIDE DEF N, scan
<1>6. Rank(F) \in Bijection(F, 1..Cardinality(F))
  BY <1>1, <1>2, RankBijective
<1>7. ASSUME NEW i \in 1..N PROVE scan[i] \in F /\ Rank(F)[scan[i]] = i
  <2>1. i \in 1..Cardinality(F)
    BY <1>2, <1>3
  <2>2. \E k \in F : Rank(F)[k] = i
    BY <1>6, <2>1 DEF Bijection, Surjection
  <2> QED BY <1>4, <2>2
<1>8. ASSUME NEW i \in 1..N PROVE scan[i] \in Firsts(F)
  BY <1>2, <1>3, <1>7 DEF Firsts
<1>9. ASSUME NEW k \in Firsts(F) PROVE \E i \in 1..N : scan[i] = k
  <2>1. k \in F /\ Rank(F)[k] \in 1..Cardinality(F) /\ Rank(F)[k] <= ScanLimit
    BY <1>6 DEF Firsts, Bijection, Injection
  <2>2. Rank(F)[k] \in 1..N
    BY <1>2, <1>3, <2>1
  <2>3. scan[Rank(F)[k]] \in F /\ Rank(F)[scan[Rank(F)[k]]] = Rank(F)[k]
    BY <1>7, <2>2
  <2>4. scan[Rank(F)[k]] = k
    BY <1>6, <2>1, <2>3 DEF Bijection, Injection, IsInjective
  <2> QED BY <2>2, <2>4
<1>10. scan \in [1..N -> Firsts(F)]
  BY <1>4, <1>8
<1> QED BY <1>3, <1>5, <1>9, <1>10 DEF N, scan

LEMMA FirstsAre ==
    ASSUME NEW F \in SUBSET Keys, IsFiniteSet(F)
    PROVE  /\ Firsts(F) \in SUBSET F /\ IsFiniteSet(Firsts(F))
           /\ Cardinality(Firsts(F)) = FirstCount(F) /\ FirstCount(F) \in Nat
           /\ Cardinality(F) <= ScanLimit => Firsts(F) = F
           /\ \A k \in Firsts(F) : \A l \in F : KeyLess(l, k) => l \in Firsts(F)
<1>1. Cardinality(F) \in Nat /\ ScanLimit \in Nat
  BY FS_CardinalityType, DirectoryStoreAssumption
<1>2. Firsts(F) \in SUBSET F
  BY DEF Firsts
<1>3. IsFiniteSet(Firsts(F))
  BY <1>2, FS_Subset
<1>4. \A k \in F : Rank(F)[k] \in 1..Cardinality(F)
  BY RankTyped
<1>5. Cardinality(F) <= ScanLimit => Firsts(F) = F
  BY <1>1, <1>4 DEF Firsts
<1>6. ASSUME NEW k \in Firsts(F), NEW l \in F, KeyLess(l, k) PROVE l \in Firsts(F)
  <2>1. Rank(F)[l] < Rank(F)[k] /\ Rank(F)[k] <= ScanLimit
    BY <1>2, <1>6, RankBijective DEF Firsts
  <2> QED BY <1>1, <1>2, <1>4, <2>1 DEF Firsts
<1> DEFINE N == FirstCount(F)
           f == [i \in 1..N |-> CHOOSE k \in F : Rank(F)[k] = i]
<1>7. N \in Nat /\ N <= Cardinality(F) /\ N <= ScanLimit /\ (N = Cardinality(F) \/ N = ScanLimit)
  BY <1>1 DEF FirstCount
<1> HIDE DEF N
<1>8. Rank(F) \in Bijection(F, 1..Cardinality(F))
  BY RankBijective
<1>9. ASSUME NEW i \in 1..N PROVE f[i] \in F /\ Rank(F)[f[i]] = i
  <2>1. i \in 1..Cardinality(F)
    BY <1>1, <1>7
  <2>2. \E k \in F : Rank(F)[k] = i
    BY <1>8, <2>1 DEF Bijection, Surjection
  <2> QED BY <2>2
<1>10. f \in [1..N -> Firsts(F)]
  BY <1>1, <1>7, <1>9 DEF Firsts
<1>11. f \in Injection(1..N, Firsts(F))
  BY <1>9, <1>10 DEF Injection, IsInjective
<1>12. ASSUME NEW k \in Firsts(F) PROVE \E i \in 1..N : f[i] = k
  <2>1. k \in F /\ Rank(F)[k] \in 1..N
    BY <1>1, <1>2, <1>4, <1>7 DEF Firsts
  <2>2. f[Rank(F)[k]] \in F /\ Rank(F)[f[Rank(F)[k]]] = Rank(F)[k]
    BY <1>9, <2>1
  <2>3. f[Rank(F)[k]] = k
    BY <1>8, <2>1, <2>2 DEF Bijection, Injection, IsInjective
  <2> QED BY <2>1, <2>3
<1>13. f \in Surjection(1..N, Firsts(F))
  BY <1>10, <1>12 DEF Surjection
<1>14. ExistsBijection(1..N, Firsts(F))
  BY <1>11, <1>13 DEF ExistsBijection, Bijection
<1>15. Cardinality(Firsts(F)) = N
  BY <1>7, <1>14, FS_CountingElements
<1> QED BY <1>2, <1>3, <1>5, <1>6, <1>7, <1>15 DEF N

\* A key among the first of many is among the first of fewer.
LEMMA FirstsShrink ==
    ASSUME NEW G \in SUBSET Keys, IsFiniteSet(G), NEW F \in SUBSET G, NEW k \in F, k \in Firsts(G)
    PROVE  k \in Firsts(F)
<1> DEFINE P == {j \in F : KeyLess(j, k)}
           Q == {j \in G : KeyLess(j, k)}
<1>1. F \in SUBSET Keys /\ k \in G /\ P \in SUBSET Q
  OBVIOUS
<1>2. IsFiniteSet(F)
  BY FS_Subset
<1>3. Rank(F)[k] = Cardinality(P) + 1 /\ IsFiniteSet(P)
  BY <1>1, <1>2, RankTyped
<1>4. Rank(G)[k] = Cardinality(Q) + 1 /\ IsFiniteSet(Q)
  BY <1>1, RankTyped
<1> HIDE DEF P, Q
<1>5. Cardinality(P) <= Cardinality(Q) /\ Cardinality(P) \in Nat /\ Cardinality(Q) \in Nat
  BY <1>1, <1>3, <1>4, FS_Subset, FS_CardinalityType
<1>6. Rank(G)[k] <= ScanLimit /\ ScanLimit \in Nat
  BY DirectoryStoreAssumption DEF Firsts
<1> QED BY <1>3, <1>4, <1>5, <1>6 DEF Firsts

\* What a directory shows of an entry, and the places of all that is shown.
ChildAt(s, k) == [name |-> parse_directory_child(k).name, ino |-> s[k].ino, typ |-> s[k].typ]
Shows(s, k) == DirItems(ChildAt(s, k))
Slots(s, K) == {x \in K \X (1..3) : x[2] <= Len(Shows(s, x[1]))}
ItemAt(s, x) == Shows(s, x[1])[x[2]]
SlotLess(x, y) == KeyLess(x[1], y[1]) \/ (x[1] = y[1] /\ x[2] < y[2])

LEMMA EntryIs ==
    ASSUME NEW s, StoreOK(s), NEW dir, Nexts(dir), NEW k \in EntryKeys(s, dir)
    PROVE  /\ k \in DOMAIN s /\ k \in Keys
           /\ \E name \in Keys, ino \in Numbers(s), typ \in Types :
                /\ k = directory_child(dir, name)
                /\ ChildAt(s, k) = [name |-> name, ino |-> ino, typ |-> typ]
<1>1. k \in DOMAIN s
  BY DEF EntryKeys
<1>2. PICK name \in Keys : k = directory_child(dir, name)
  BY DEF EntryKeys
<1>3. parse_directory_child(k).name = name /\ OfKind(k, "DirectoryChild")
  BY <1>2, ChildParsed, ChildKey DEF Nexts
<1>4. PICK ino \in Numbers(s) : Describes(ino, s[k])
  BY <1>1, <1>3 DEF StoreOK, EntriesTyped
<1>5. s[k].ino = ino /\ s[k].typ \in Types
  BY <1>4, DescribesOne
<1> QED BY <1>1, <1>2, <1>3, <1>5 DEF ChildAt, OfKind

LEMMA ShowsIs ==
    ASSUME NEW s, NEW k, NEW name, NEW ino, NEW typ,
           ChildAt(s, k) = [name |-> name, ino |-> ino, typ |-> typ]
    PROVE  /\ Shows(s, k) \in Seq(ToSet(Shows(s, k)))
           /\ typ = "File" =>
                /\ Len(Shows(s, k)) = 3
                /\ Shows(s, k)[1] = DirItem(ino, "Hash", HashName(name, HashEnd))
                /\ Shows(s, k)[2] = DirItem(ino, "Hashes", HashName(name, HashesEnd))
                /\ Shows(s, k)[3] = DirItem(ino, "Regular", name)
           /\ typ # "File" =>
                /\ Len(Shows(s, k)) = 1
                /\ Shows(s, k)[1] = DirItem(ino, "Regular", name)
<1> DEFINE x1 == DirItem(ino, "Hash", HashName(name, HashEnd))
           x2 == DirItem(ino, "Hashes", HashName(name, HashesEnd))
           x3 == DirItem(ino, "Regular", name)
           w == Shows(s, k)
<1>1. w = (IF typ = "File" THEN <<x1, x2>> ELSE <<>>) \o <<x3>>
  BY DEF Shows, DirItems
<1> HIDE DEF x1, x2, x3, w
<1>2. CASE typ = "File"
  <2>1. w = <<x1, x2>> \o <<x3>>
    BY <1>1, <1>2
  <2> DEFINE X == {x1, x2, x3}
  <2>2. <<x1, x2>> \in Seq(X) /\ <<x3>> \in Seq(X)
    OBVIOUS
  <2>3. PICK q \in Seq(X), r \in Seq(X) : q = <<x1, x2>> /\ r = <<x3>> /\ w = q \o r
    BY <2>1, <2>2
  <2>4. w \in Seq(X) /\ Len(w) = 3 /\ w[1] = x1 /\ w[2] = x2 /\ w[3] = x3
    <3> HIDE DEF X
    <3>1. Len(q) = 2 /\ Len(r) = 1 /\ q[1] = x1 /\ q[2] = x2 /\ r[1] = x3
      BY <2>3
    <3> QED BY <2>3, <3>1
  <2>5. w \in Seq(ToSet(w))
    <3> HIDE DEF X
    <3>1. ASSUME NEW y \in Seq(X) PROVE y \in Seq(ToSet(y))
      BY DEF ToSet
    <3> QED BY <2>4, <3>1
  <2> QED BY <1>2, <2>4, <2>5 DEF x1, x2, x3, w
<1>3. CASE typ # "File"
  <2>1. w = <<>> \o <<x3>>
    BY <1>1, <1>3
  <2>2. w = <<x3>>
    BY <2>1
  <2>3. w \in Seq({x3}) /\ ToSet(w) = {x3}
    BY <2>2 DEF ToSet
  <2> QED BY <1>3, <2>2, <2>3 DEF x1, x2, x3, w
<1> QED BY <1>2, <1>3

LEMMA ShowsLen ==
    ASSUME NEW s, StoreOK(s), NEW dir, Nexts(dir), NEW k \in EntryKeys(s, dir)
    PROVE  /\ Shows(s, k) \in Seq(ToSet(Shows(s, k)))
           /\ Len(Shows(s, k)) \in 1..3
           /\ s[k].typ = "File" => Len(Shows(s, k)) = 3
<1>1. PICK name, ino, typ : ChildAt(s, k) = [name |-> name, ino |-> ino, typ |-> typ]
  BY EntryIs
<1>2. s[k].typ = typ
  BY <1>1 DEF ChildAt
<1> QED BY <1>1, <1>2, ShowsIs

\* What a slot shows tells the slot, and is none of the two directories
\* beside the tree.
LEMMA ItemsDiffer ==
    ASSUME NEW s, StoreOK(s), NEW dir, Nexts(dir),
           NEW x \in Slots(s, EntryKeys(s, dir)), NEW y \in Slots(s, EntryKeys(s, dir)),
           ItemAt(s, x) = ItemAt(s, y)
    PROVE  x = y
<1>1. /\ x[1] \in EntryKeys(s, dir) /\ x[2] \in 1..3 /\ x[2] <= Len(Shows(s, x[1])) /\ x = <<x[1], x[2]>>
      /\ y[1] \in EntryKeys(s, dir) /\ y[2] \in 1..3 /\ y[2] <= Len(Shows(s, y[1])) /\ y = <<y[1], y[2]>>
  BY DEF Slots
<1>2. PICK n1 \in Keys, i1 \in Numbers(s), t1 \in Types :
        /\ x[1] = directory_child(dir, n1)
        /\ ChildAt(s, x[1]) = [name |-> n1, ino |-> i1, typ |-> t1]
  BY <1>1, EntryIs
<1>3. PICK n2 \in Keys, i2 \in Numbers(s), t2 \in Types :
        /\ y[1] = directory_child(dir, n2)
        /\ ChildAt(s, y[1]) = [name |-> n2, ino |-> i2, typ |-> t2]
  BY <1>1, EntryIs
<1> DEFINE Shape(k, j, item, name, ino, typ) ==
        \/ typ = "File" /\ j = 1 /\ item = DirItem(ino, "Hash", HashName(name, HashEnd))
        \/ typ = "File" /\ j = 2 /\ item = DirItem(ino, "Hashes", HashName(name, HashesEnd))
        \/ typ = "File" /\ j = 3 /\ item = DirItem(ino, "Regular", name)
        \/ typ # "File" /\ j = 1 /\ item = DirItem(ino, "Regular", name)
<1>4. Shape(x[1], x[2], ItemAt(s, x), n1, i1, t1)
  BY <1>1, <1>2, ShowsIs DEF ItemAt
<1>5. Shape(y[1], y[2], ItemAt(s, y), n2, i2, t2)
  BY <1>1, <1>3, ShowsIs DEF ItemAt
<1>6. /\ \A i, j \in Nat : \A k, l \in {"Regular", "Hash", "Hashes"} : \A m, n :
            DirItem(i, k, m) = DirItem(j, l, n) => i = j /\ k = l /\ m = n
      /\ i1 \in Nat /\ i2 \in Nat
  <2>1. ASSUME NEW i \in Nat, NEW j \in Nat, NEW k \in {"Regular", "Hash", "Hashes"},
               NEW l \in {"Regular", "Hash", "Hashes"}, NEW m, NEW n,
               DirItem(i, k, m) = DirItem(j, l, n)
        PROVE  i = j /\ k = l /\ m = n
    <3>1. to_raw(i, k) = to_raw(j, l) /\ m = n
      BY <2>1 DEF DirItem
    <3>2. [ino |-> i, kind |-> k] = [ino |-> j, kind |-> l]
      BY <3>1, RawRoundTrip
    <3> QED BY <3>1, <3>2
  <2> QED BY <2>1 DEF Numbers
<1>7. \A end \in {HashEnd, HashesEnd} : HashName(n1, end) = HashName(n2, end) => n1 = n2
  <2>1. \A end \in {HashEnd, HashesEnd} : Inner(HashName(n1, end)) = {n1} /\ Inner(HashName(n2, end)) = {n2}
    BY HashNameParsed
  <2> QED BY <2>1
<1>8. n1 = n2
  BY <1>4, <1>5, <1>6, <1>7
<1>9. x[1] = y[1] /\ t1 = t2
  BY <1>2, <1>3, <1>8
<1>10. x[2] = y[2]
  BY <1>4, <1>5, <1>6, <1>9
<1> QED BY <1>1, <1>9, <1>10

HighEntries(s, dir) == \A k \in EntryKeys(s, dir) : s[k].ino >= FIRST_DATA_INODE

LEMMA BesideDiffer ==
    ASSUME NEW s, StoreOK(s), NEW dir, Nexts(dir), HighEntries(s, dir),
           NEW x \in Slots(s, EntryKeys(s, dir))
    PROVE  ItemAt(s, x) \notin ToSet(BesideTree)
<1>1. x[1] \in EntryKeys(s, dir) /\ x[2] \in 1..3 /\ x[2] <= Len(Shows(s, x[1]))
  BY DEF Slots
<1>2. PICK name \in Keys, ino \in Numbers(s), typ \in Types :
        ChildAt(s, x[1]) = [name |-> name, ino |-> ino, typ |-> typ]
  BY <1>1, EntryIs
<1>3. \E kind \in {"Regular", "Hash", "Hashes"} : \E n : ItemAt(s, x) = DirItem(ino, kind, n)
  BY <1>1, <1>2, ShowsIs DEF ItemAt
<1>4. PICK kind \in {"Regular", "Hash", "Hashes"} : ItemAt(s, x).raw = to_raw(ino, kind)
  BY <1>3 DEF DirItem
<1>5. ino \in Nat /\ ino >= 10
  BY <1>1, <1>2 DEF Numbers, HighEntries, FIRST_DATA_INODE, ChildAt
<1>6. from_raw(ItemAt(s, x).raw).ino = ino
  BY <1>4, <1>5, RawRoundTrip
<1>7. \A e \in ToSet(BesideTree) : from_raw(e.raw).ino \in {2, 3}
  <2>1. ToSet(BesideTree) = {DirItem(2, "Regular", OpenedName), DirItem(3, "Regular", SnapshotsName)}
    BY DEF ToSet, BesideTree, OPENED_INODE_PARENT_INODE, SNAPSHOT_PARENT_INODE
  <2>2. \A n \in {2, 3} : from_raw(to_raw(n, "Regular")).ino = n
    BY RawRoundTrip
  <2> QED BY <2>1, <2>2 DEF DirItem
<1> QED BY <1>5, <1>6, <1>7

\* The entries that a directory shows of its own, in the order of a scan.
Own(s, dir) ==
    LET children == Children(s, dir)
    IN FlattenSeq([i \in 1..Len(children) |-> DirItems(children[i])])
Visible(s, dir) == Slots(s, Firsts(EntryKeys(s, dir)))
Before(s, dir, x) == {y \in Slots(s, EntryKeys(s, dir)) : SlotLess(y, x)}

Listed(s, dir, own, at) ==
    /\ Len(own) \in Nat /\ own \in Seq(ToSet(own))
    /\ at \in [1..Len(own) -> Visible(s, dir)]
    /\ \A p \in 1..Len(own) : own[p] = ItemAt(s, at[p])
    /\ \A p, q \in 1..Len(own) : p < q => SlotLess(at[p], at[q])
    /\ \A x \in Visible(s, dir) : \E p \in 1..Len(own) : at[p] = x

LEMMA EntryKeysFinite ==
    ASSUME NEW s, StoreOK(s), NEW dir
    PROVE  EntryKeys(s, dir) \in SUBSET Keys /\ IsFiniteSet(EntryKeys(s, dir))
<1>1. DOMAIN s \in SUBSET Keys /\ IsFiniteSet(DOMAIN s)
  BY StoreKeysAreKeys
<1>2. EntryKeys(s, dir) \in SUBSET DOMAIN s
  BY DEF EntryKeys
<1> QED BY <1>1, <1>2, FS_Subset

LEMMA OwnListed ==
    ASSUME NEW s, StoreOK(s), NEW dir, Nexts(dir)
    PROVE  \E at : Listed(s, dir, Own(s, dir), at)
<1> DEFINE range == directory_child_range(dir)
           keys == Scan(DOMAIN s, range, ScanLimit)
           F == EntryKeys(s, dir)
           n == FirstCount(F)
           kids == Children(s, dir)
           S == [i \in 1..Len(kids) |-> DirItems(kids[i])]
           W == Firsts(F)
<1>1. F = Found(DOMAIN s, range) /\ DOMAIN s \in SUBSET Keys /\ IsFiniteSet(DOMAIN s)
  BY EntriesFound, StoreKeysAreKeys
<1>2. /\ n \in Nat /\ keys \in [1..n -> W] /\ Len(keys) = n
      /\ \A i, j \in 1..n : i < j => KeyLess(keys[i], keys[j])
      /\ \A k \in W : \E i \in 1..n : keys[i] = k
  BY <1>1, ScanFirsts
<1>3. W \in SUBSET F
  BY DEF Firsts
<1>4. kids = [i \in 1..n |-> ChildAt(s, keys[i])]
  BY <1>2 DEF Children, ChildAt
<1>5. Len(kids) = n
  BY <1>2, <1>4
<1>6. ASSUME NEW i \in 1..n
      PROVE  /\ keys[i] \in W /\ keys[i] \in F /\ S[i] = Shows(s, keys[i])
             /\ S[i] \in Seq(ToSet(S[i])) /\ Len(S[i]) \in 1..3
  <2>1. keys[i] \in W /\ keys[i] \in F
    BY <1>2, <1>3
  <2>2. kids[i] = ChildAt(s, keys[i])
    BY <1>4
  <2>3. S[i] = Shows(s, keys[i])
    BY <1>5, <2>2 DEF Shows
  <2> HIDE DEF S, keys, F, W
  <2> QED BY <2>1, <2>3, ShowsLen DEF F
<1> DEFINE U == UNION {ToSet(S[i]) : i \in 1..n}
           own == FlattenSeq(S)
<1>7. ASSUME NEW i \in 1..n PROVE S[i] \in Seq(U)
  <2>1. ToSet(S[i]) \subseteq U
    OBVIOUS
  <2>2. S[i] \in Seq(ToSet(S[i]))
    BY <1>6
  <2> HIDE DEF U, S
  <2> QED BY <2>1, <2>2
<1>8. S \in [1..n -> Seq(U)]
  <2>1. S = [i \in 1..n |-> DirItems(kids[i])]
    BY <1>5
  <2>2. DOMAIN S = 1..n
    BY <2>1
  <2> QED BY <1>5, <1>7, <2>1
<1>9. own = Own(s, dir)
  BY DEF Own
<1> HIDE DEF U, S, kids, keys, range, n, F, W, own
<1>10. own \in Seq(U) /\ \E places : Places(S, n, own, places)
  BY <1>2, <1>8, FlatPlaces DEF own
<1>11. PICK places : Places(S, n, own, places)
  BY <1>10
<1>12. Len(own) \in Nat /\ own \in Seq(ToSet(own))
  <2>1. ASSUME NEW y \in Seq(U) PROVE Len(y) \in Nat /\ y \in Seq(ToSet(y))
    BY DEF ToSet
  <2> QED BY <1>10, <2>1
<1> DEFINE at == [p \in 1..Len(own) |-> <<keys[places[p][1]], places[p][2]>>]
<1>13. ASSUME NEW p \in 1..Len(own)
       PROVE  /\ places[p][1] \in 1..n /\ places[p][2] \in 1..Len(S[places[p][1]])
              /\ at[p][1] = keys[places[p][1]] /\ at[p][2] = places[p][2]
              /\ at[p] \in Visible(s, dir) /\ own[p] = ItemAt(s, at[p])
  <2>1. /\ places[p][1] \in 1..n /\ places[p][2] \in 1..Len(S[places[p][1]])
        /\ own[p] = S[places[p][1]][places[p][2]]
    BY <1>11 DEF Places
  <2> DEFINE i == places[p][1]
             j == places[p][2]
  <2>2. at[p] = <<keys[i], j>>
    OBVIOUS
  <2> HIDE DEF at
  <2>3. at[p][1] = keys[i] /\ at[p][2] = j
    BY <2>2
  <2>4. keys[i] \in W /\ S[i] = Shows(s, keys[i]) /\ Len(S[i]) \in 1..3
    BY <1>6, <2>1
  <2>5. j \in 1..3 /\ j <= Len(Shows(s, keys[i]))
    BY <2>1, <2>4
  <2>6. at[p] \in Slots(s, W)
    BY <2>2, <2>3, <2>4, <2>5 DEF Slots
  <2>7. own[p] = ItemAt(s, at[p])
    BY <2>1, <2>3, <2>4 DEF ItemAt
  <2> QED BY <2>1, <2>3, <2>6, <2>7 DEF Visible, W, F
<1>14. at \in [1..Len(own) -> Visible(s, dir)]
  BY <1>13
<1>15. ASSUME NEW p \in 1..Len(own), NEW q \in 1..Len(own), p < q
       PROVE  SlotLess(at[p], at[q])
  <2>1. Earlier(places[p], places[q])
    BY <1>11, <1>15 DEF Places
  <2>2. /\ places[p][1] \in 1..n /\ places[q][1] \in 1..n
        /\ at[p][1] = keys[places[p][1]] /\ at[p][2] = places[p][2]
        /\ at[q][1] = keys[places[q][1]] /\ at[q][2] = places[q][2]
    BY <1>13
  <2> HIDE DEF at
  <2>3. CASE places[p][1] < places[q][1]
    BY <1>2, <2>2, <2>3 DEF SlotLess
  <2>4. CASE places[p][1] = places[q][1] /\ places[p][2] < places[q][2]
    BY <2>2, <2>4 DEF SlotLess
  <2> QED BY <2>1, <2>3, <2>4 DEF Earlier
<1>16. ASSUME NEW x \in Visible(s, dir) PROVE \E p \in 1..Len(own) : at[p] = x
  <2>1. x[1] \in W /\ x[2] \in 1..3 /\ x[2] <= Len(Shows(s, x[1])) /\ x = <<x[1], x[2]>>
    BY DEF Visible, Slots, W, F
  <2>2. PICK i \in 1..n : keys[i] = x[1]
    BY <1>2, <2>1
  <2>3. x[2] \in 1..Len(S[i])
    BY <1>6, <2>1, <2>2
  <2>4. PICK p \in 1..Len(own) : places[p][1] = i /\ places[p][2] = x[2]
    BY <1>11, <2>3 DEF Places
  <2>5. at[p] = <<keys[i], x[2]>>
    BY <2>4
  <2> QED BY <2>1, <2>2, <2>5
<1> HIDE DEF at
<1>17. Listed(s, dir, own, at)
  BY <1>12, <1>13, <1>14, <1>15, <1>16 DEF Listed
<1> QED BY <1>9, <1>17

LEMMA SlotOrder ==
    ASSUME NEW s, StoreOK(s), NEW dir, NEW x \in Slots(s, EntryKeys(s, dir)), NEW y \in Slots(s, EntryKeys(s, dir))
    PROVE  ~(SlotLess(x, y) /\ SlotLess(y, x))
<1>1. x[1] \in Keys /\ y[1] \in Keys /\ x[2] \in Int /\ y[2] \in Int
  BY EntryKeysFinite DEF Slots
<1>2. ~(KeyLess(x[1], y[1]) /\ KeyLess(y[1], x[1]))
  BY <1>1, KeyTransitive, KeyIrreflexive
<1>3. ~KeyLess(x[1], x[1])
  BY <1>1, KeyIrreflexive
<1> QED BY <1>1, <1>2, <1>3 DEF SlotLess

LEMMA SlotsFinite ==
    ASSUME NEW s, NEW K, IsFiniteSet(K)
    PROVE  IsFiniteSet(Slots(s, K)) /\ Cardinality(Slots(s, K)) \in Nat
<1>1. IsFiniteSet(1..3)
  <2>1. 1 \in Int /\ 3 \in Int
    OBVIOUS
  <2> QED BY <2>1, FS_Interval
<1>2. IsFiniteSet(K \X (1..3))
  BY <1>1, FS_Product
<1>3. Slots(s, K) \in SUBSET (K \X (1..3))
  BY DEF Slots
<1> QED BY <1>2, <1>3, FS_Subset, FS_CardinalityType

\* An entry stands behind as many as come before it in the whole directory,
\* and as many are shown as there are slots.
LEMMA OwnCounted ==
    ASSUME NEW s, StoreOK(s), NEW dir, Nexts(dir), NEW own, NEW at, Listed(s, dir, own, at)
    PROVE  /\ Len(own) = Cardinality(Visible(s, dir))
           /\ \A p \in 1..Len(own) : p = Cardinality(Before(s, dir, at[p])) + 1
           /\ \A p \in 1..Len(own) : IsFiniteSet(Before(s, dir, at[p]))
<1> DEFINE N == Len(own)
           E == EntryKeys(s, dir)
           W == Firsts(E)
<1>1. /\ N \in Nat /\ at \in [1..N -> Visible(s, dir)]
      /\ \A p, q \in 1..N : p < q => SlotLess(at[p], at[q])
      /\ \A x \in Visible(s, dir) : \E p \in 1..N : at[p] = x
  BY DEF Listed
<1>2. E \in SUBSET Keys /\ IsFiniteSet(E)
  BY EntryKeysFinite
<1>3. /\ W \in SUBSET E
      /\ \A k \in W : \A l \in E : KeyLess(l, k) => l \in W
  BY <1>2, FirstsAre
<1>4. Visible(s, dir) \in SUBSET Slots(s, E)
  BY <1>3 DEF Visible, Slots
<1> HIDE DEF N
<1>5. ASSUME NEW p \in 1..N, NEW q \in 1..N, at[p] = at[q] PROVE p = q
  <2>1. at[p] \in Slots(s, E) /\ at[q] \in Slots(s, E)
    BY <1>1, <1>4
  <2>2. ~(SlotLess(at[p], at[q])) /\ ~(SlotLess(at[q], at[p]))
    BY <1>5, <2>1, SlotOrder
  <2>3. ~(p < q) /\ ~(q < p)
    BY <1>1, <2>2
  <2> QED BY <1>1, <2>3
<1>6. at \in Bijection(1..N, Visible(s, dir))
  BY <1>1, <1>5 DEF Bijection, Injection, Surjection, IsInjective
<1>7. N = Cardinality(Visible(s, dir))
  BY <1>1, <1>6, FS_CountingElements DEF ExistsBijection
<1>8. ASSUME NEW p \in 1..N
      PROVE  p = Cardinality(Before(s, dir, at[p])) + 1 /\ IsFiniteSet(Before(s, dir, at[p]))
  <2> DEFINE B == Before(s, dir, at[p])
             m == p - 1
             f == [q \in 1..m |-> at[q]]
  <2>1. m \in Nat /\ \A q \in 1..m : q \in 1..N /\ q < p
    BY <1>1
  <2>2. f \in [1..m -> B]
    BY <1>1, <1>4, <2>1 DEF Before
  <2>3. ASSUME NEW y \in B PROVE \E q \in 1..m : f[q] = y
    <3>1. y \in Slots(s, E) /\ SlotLess(y, at[p])
      BY DEF Before
    <3>2. at[p] \in Visible(s, dir) /\ at[p] \in Slots(s, E)
      BY <1>1, <1>4
    <3>3. y[1] \in W
      BY <1>3, <3>1, <3>2 DEF Visible, Slots, SlotLess
    <3>4. y \in Visible(s, dir)
      BY <3>1, <3>3 DEF Visible, Slots
    <3>5. PICK q \in 1..N : at[q] = y
      BY <1>1, <3>4
    <3>6. ~SlotLess(at[p], at[q]) /\ ~SlotLess(at[p], at[p])
      BY <3>1, <3>2, <3>5, SlotOrder
    <3>7. q < p
      BY <1>1, <3>1, <3>5, <3>6
    <3>8. q \in 1..m
      BY <1>1, <3>7
    <3> QED BY <3>5, <3>8
  <2>4. f \in Bijection(1..m, B)
    <3> HIDE DEF B, m
    <3>1. f \in Injection(1..m, B)
      BY <1>5, <2>1, <2>2 DEF Injection, IsInjective
    <3>2. f \in Surjection(1..m, B)
      BY <2>2, <2>3 DEF Surjection
    <3> QED BY <3>1, <3>2 DEF Bijection
  <2> HIDE DEF B, f
  <2>5. Cardinality(B) = m
    BY <2>1, <2>4, FS_CountingElements DEF ExistsBijection
  <2>6. B \in SUBSET Slots(s, E)
    BY DEF B, Before
  <2>7. IsFiniteSet(B)
    BY <1>2, <2>6, SlotsFinite, FS_Subset
  <2> QED BY <2>1, <2>5, <2>7 DEF B
<1> QED BY <1>7, <1>8 DEF N

\* A listing: its own entries, each at its place, and behind them, in the
\* root, the two directories beside the tree.
PlaceOf(s, dir, x) == Cardinality(Before(s, dir, x)) + 1
BesidePlace(s, dir, j) == Cardinality(Visible(s, dir)) + j

ListingOf(s, dir, L) ==
    /\ Len(L) \in Nat /\ L \in Seq(ToSet(L)) /\ DOMAIN L = 1..Len(L)
    /\ \A p, q \in 1..Len(L) : L[p] = L[q] => p = q
    /\ \A x \in Visible(s, dir) : PlaceOf(s, dir, x) \in 1..Len(L) /\ L[PlaceOf(s, dir, x)] = ItemAt(s, x)
    /\ \A p \in 1..Len(L) :
        \/ \E x \in Visible(s, dir) : p = PlaceOf(s, dir, x) /\ L[p] = ItemAt(s, x)
        \/ dir = ROOT_INODE /\ \E j \in {1, 2} : p = BesidePlace(s, dir, j) /\ L[p] = BesideTree[j]
    /\ dir = ROOT_INODE => \A j \in {1, 2} :
        BesidePlace(s, dir, j) \in 1..Len(L) /\ L[BesidePlace(s, dir, j)] = BesideTree[j]

LEMMA BesideIs ==
    /\ BesideTree \in Seq(ToSet(BesideTree)) /\ Len(BesideTree) = 2 /\ BesideTree[1] # BesideTree[2]
    /\ ToSet(BesideTree) = {BesideTree[1], BesideTree[2]}
<1> DEFINE x1 == DirItem(OPENED_INODE_PARENT_INODE, "Regular", OpenedName)
           x2 == DirItem(SNAPSHOT_PARENT_INODE, "Regular", SnapshotsName)
<1>1. x1 # x2
  BY DirectoryStoreAssumption DEF DirItem
<1>2. BesideTree = <<x1, x2>>
  BY DEF BesideTree
<1> HIDE DEF x1, x2
<1> QED BY <1>1, <1>2 DEF ToSet

LEMMA ListingIs ==
    ASSUME NEW s, StoreOK(s), NEW dir, Nexts(dir), HighEntries(s, dir)
    PROVE  ListingOf(s, dir, read_dir1(s, dir))
<1> DEFINE own == Own(s, dir)
           L == read_dir1(s, dir)
           N == Len(own)
           V == Visible(s, dir)
<1>1. PICK at : Listed(s, dir, own, at)
  BY OwnListed
<1>2. L = IF dir = ROOT_INODE THEN own \o BesideTree ELSE own
  BY DEF read_dir1, Own
<1> HIDE DEF own, L
<1>3. /\ N \in Nat /\ own \in Seq(ToSet(own)) /\ at \in [1..N -> V]
      /\ \A p \in 1..N : own[p] = ItemAt(s, at[p])
      /\ \A x \in V : \E p \in 1..N : at[p] = x
  BY <1>1 DEF Listed
<1>4. N = Cardinality(V) /\ \A p \in 1..N : p = PlaceOf(s, dir, at[p])
  BY <1>1, OwnCounted DEF PlaceOf
<1>5. V \in SUBSET Slots(s, EntryKeys(s, dir))
  BY DEF Visible, Slots, Firsts
<1>6. ASSUME NEW p \in 1..N, NEW q \in 1..N, own[p] = own[q] PROVE p = q
  <2>1. at[p] \in V /\ at[q] \in V /\ ItemAt(s, at[p]) = ItemAt(s, at[q])
    BY <1>3, <1>6
  <2>2. at[p] = at[q]
    BY <1>5, <2>1, ItemsDiffer
  <2> QED BY <1>4, <2>2
<1>7. ASSUME NEW p \in 1..N PROVE own[p] \notin ToSet(BesideTree)
  <2>1. at[p] \in V /\ own[p] = ItemAt(s, at[p])
    BY <1>3
  <2> QED BY <1>5, <2>1, BesideDiffer
<1>8. ASSUME NEW x \in V PROVE PlaceOf(s, dir, x) \in 1..N /\ own[PlaceOf(s, dir, x)] = ItemAt(s, x)
  <2>1. PICK p \in 1..N : at[p] = x
    BY <1>3
  <2>2. p = PlaceOf(s, dir, x)
    BY <1>4, <2>1
  <2> QED BY <1>3, <2>1, <2>2
<1>9. ASSUME NEW p \in 1..N PROVE \E x \in V : p = PlaceOf(s, dir, x) /\ own[p] = ItemAt(s, x)
  BY <1>3, <1>4
<1> HIDE DEF V, N
<1>10. CASE dir = ROOT_INODE
  <2> DEFINE r == BesideTree
             T == ToSet(own) \cup ToSet(r)
  <2>1. r \in Seq(ToSet(r)) /\ Len(r) = 2 /\ r[1] # r[2] /\ ToSet(r) = {r[1], r[2]}
    BY BesideIs
  <2> HIDE DEF r
  <2>2. /\ own \in Seq(T) /\ r \in Seq(T)
    <3>1. ToSet(own) \subseteq T /\ ToSet(r) \subseteq T
      OBVIOUS
    <3> HIDE DEF T
    <3> QED BY <1>3, <2>1, <3>1
  <2>3. L = own \o r
    BY <1>2, <1>10 DEF r
  <2> HIDE DEF T
  <2>4. /\ L \in Seq(T) /\ Len(L) = N + 2 /\ DOMAIN L = 1..(N + 2)
        /\ \A p \in 1..N : L[p] = own[p]
        /\ L[N + 1] = r[1] /\ L[N + 2] = r[2]
    <3>1. ASSUME NEW q \in Seq(T), NEW w \in Seq(T), Len(w) = 2
          PROVE  /\ q \o w \in Seq(T) /\ Len(q \o w) = Len(q) + 2 /\ DOMAIN (q \o w) = 1..(Len(q) + 2)
                 /\ \A p \in 1..Len(q) : (q \o w)[p] = q[p]
                 /\ (q \o w)[Len(q) + 1] = w[1] /\ (q \o w)[Len(q) + 2] = w[2]
      <4>1. /\ q \o w \in Seq(T) /\ Len(q \o w) = Len(q) + Len(w)
            /\ \A i \in 1..(Len(q) + Len(w)) :
                (q \o w)[i] = IF i <= Len(q) THEN q[i] ELSE w[i - Len(q)]
        BY ConcatProperties
      <4>2. Len(q) \in Nat
        OBVIOUS
      <4>3. DOMAIN (q \o w) = 1..Len(q \o w)
        BY <4>1
      <4>4. Len(q) + 1 \in 1..(Len(q) + Len(w)) /\ Len(q) + 2 \in 1..(Len(q) + Len(w))
            /\ ~(Len(q) + 1 <= Len(q)) /\ ~(Len(q) + 2 <= Len(q))
            /\ Len(q) + 1 - Len(q) = 1 /\ Len(q) + 2 - Len(q) = 2
        BY <3>1, <4>2
      <4>5. (q \o w)[Len(q) + 1] = w[1] /\ (q \o w)[Len(q) + 2] = w[2]
        BY <4>1, <4>4
      <4>6. \A p \in 1..Len(q) : (q \o w)[p] = q[p]
        BY <3>1, <4>1, <4>2
      <4> QED BY <3>1, <4>1, <4>3, <4>5, <4>6
    <3>2. N = Len(own)
      BY DEF N
    <3> QED BY <2>1, <2>2, <2>3, <3>1, <3>2
  <2>5. L \in Seq(ToSet(L))
    <3>1. ASSUME NEW y \in Seq(T) PROVE y \in Seq(ToSet(y))
      BY DEF ToSet
    <3> QED BY <2>4, <3>1
  <2>6. \A p \in 1..Len(L) : p \in 1..N \/ p = N + 1 \/ p = N + 2
    BY <1>3, <2>4
  <2>7. ASSUME NEW p \in 1..Len(L), NEW q \in 1..Len(L), L[p] = L[q] PROVE p = q
    <3>1. CASE p \in 1..N /\ q \in 1..N
      BY <1>6, <2>4, <2>7, <3>1
    <3>2. CASE p \in 1..N /\ q \notin 1..N
      BY <1>7, <2>1, <2>4, <2>6, <2>7, <3>2 DEF r
    <3>3. CASE p \notin 1..N /\ q \in 1..N
      BY <1>7, <2>1, <2>4, <2>6, <2>7, <3>3 DEF r
    <3>4. CASE p \notin 1..N /\ q \notin 1..N
      BY <2>1, <2>4, <2>6, <2>7, <3>4
    <3> QED BY <3>1, <3>2, <3>3, <3>4
  <2>8. \A x \in V : PlaceOf(s, dir, x) \in 1..Len(L) /\ L[PlaceOf(s, dir, x)] = ItemAt(s, x)
    <3>1. \A p \in 1..N : p \in 1..Len(L)
      BY <1>3, <2>4
    <3> QED BY <1>8, <2>4, <3>1
  <2>9. \A j \in {1, 2} : BesidePlace(s, dir, j) = N + j /\ N + j \in 1..Len(L)
                          /\ L[N + j] = r[j]
    BY <1>3, <1>4, <2>4 DEF BesidePlace, V
  <2>10. \A p \in 1..Len(L) :
        \/ \E x \in V : p = PlaceOf(s, dir, x) /\ L[p] = ItemAt(s, x)
        \/ dir = ROOT_INODE /\ \E j \in {1, 2} : p = BesidePlace(s, dir, j) /\ L[p] = r[j]
    BY <1>9, <1>10, <2>4, <2>6, <2>9
  <2> QED BY <1>3, <2>4, <2>5, <2>7, <2>8, <2>9, <2>10 DEF ListingOf, V, L, r
<1>11. CASE dir # ROOT_INODE
  <2>1. L = own /\ Len(L) = N /\ DOMAIN L = 1..N
    BY <1>2, <1>3, <1>11 DEF N
  <2> QED BY <1>3, <1>6, <1>8, <1>9, <1>11, <2>1 DEF ListingOf, V, L
<1> QED BY <1>10, <1>11

-----------------------------------------------------------------------------
(***************************************************************************)
(* How a listing changes when entries come and go                          *)
(***************************************************************************)

\* A directory with the same entries, and perhaps more.
Grows(s, t, dir) ==
    /\ EntryKeys(s, dir) \subseteq EntryKeys(t, dir)
    /\ \A k \in EntryKeys(s, dir) : s[k] = t[k]

LEMMA SlotsGrow ==
    ASSUME NEW s, NEW t, NEW dir, Grows(s, t, dir), NEW K \in SUBSET EntryKeys(s, dir)
    PROVE  Slots(s, K) = Slots(t, K) /\ \A x \in Slots(s, K) : ItemAt(s, x) = ItemAt(t, x)
<1>1. \A k \in K : Shows(s, k) = Shows(t, k)
  BY DEF Grows, Shows, ChildAt
<1> QED BY <1>1 DEF Slots, ItemAt

LEMMA PlacesGrow ==
    ASSUME NEW s, StoreOK(s), NEW t, StoreOK(t), NEW dir, Grows(s, t, dir), NEW x
    PROVE  PlaceOf(s, dir, x) <= PlaceOf(t, dir, x)
<1> DEFINE P == Before(s, dir, x)
           Q == Before(t, dir, x)
           E == EntryKeys(s, dir)
           G == EntryKeys(t, dir)
<1>1. Slots(s, E) = Slots(t, E) /\ Slots(t, E) \subseteq Slots(t, G)
  <2>1. Slots(s, E) = Slots(t, E)
    BY SlotsGrow
  <2> QED BY <2>1 DEF Grows, Slots
<1>2. P \in SUBSET Q
  BY <1>1 DEF Before
<1>3. IsFiniteSet(Q)
  <2>1. IsFiniteSet(Slots(t, G))
    BY EntryKeysFinite, SlotsFinite
  <2>2. Q \in SUBSET Slots(t, G)
    BY DEF Before
  <2> QED BY <2>1, <2>2, FS_Subset
<1> HIDE DEF P, Q
<1>4. Cardinality(P) <= Cardinality(Q) /\ IsFiniteSet(P)
  BY <1>2, <1>3, FS_Subset
<1>5. Cardinality(P) \in Nat /\ Cardinality(Q) \in Nat
  BY <1>3, <1>4, FS_CardinalityType
<1> QED BY <1>4, <1>5 DEF PlaceOf, P, Q

\* An entry of the directory's own comes no earlier when there are more.
LEMMA Moves ==
    ASSUME NEW s, StoreOK(s), NEW t, StoreOK(t), NEW dir, Nexts(dir),
           HighEntries(s, dir), HighEntries(t, dir), Grows(s, t, dir),
           NEW p \in 1..Len(read_dir1(s, dir)), NEW q \in 1..Len(read_dir1(t, dir)),
           read_dir1(s, dir)[p] = read_dir1(t, dir)[q],
           read_dir1(s, dir)[p] \notin ToSet(BesideTree)
    PROVE  p <= q
<1> DEFINE L == read_dir1(s, dir)
           M == read_dir1(t, dir)
<1>1. ListingOf(s, dir, L) /\ ListingOf(t, dir, M) /\ p \in 1..Len(L) /\ q \in 1..Len(M)
      /\ L[p] = M[q] /\ L[p] \notin ToSet(BesideTree)
  BY ListingIs
<1> HIDE DEF L, M
<1>2. BesideTree[1] \in ToSet(BesideTree) /\ BesideTree[2] \in ToSet(BesideTree)
  BY BesideIs
<1>3. PICK x \in Visible(s, dir) : p = PlaceOf(s, dir, x) /\ L[p] = ItemAt(s, x)
  BY <1>1, <1>2 DEF ListingOf
<1>4. PICK y \in Visible(t, dir) : q = PlaceOf(t, dir, y) /\ M[q] = ItemAt(t, y)
  BY <1>1, <1>2 DEF ListingOf
<1>5. x \in Slots(s, EntryKeys(s, dir)) /\ y \in Slots(t, EntryKeys(t, dir))
  BY DEF Visible, Slots, Firsts
<1>6. x \in Slots(t, EntryKeys(t, dir)) /\ ItemAt(t, x) = ItemAt(s, x)
  <2>1. x \in Slots(t, EntryKeys(s, dir)) /\ ItemAt(t, x) = ItemAt(s, x)
    BY <1>5, SlotsGrow
  <2> QED BY <2>1 DEF Slots, Grows
<1>7. x = y
  BY <1>1, <1>3, <1>4, <1>5, <1>6, ItemsDiffer
<1> QED BY <1>3, <1>4, <1>7, PlacesGrow

\* The place of a directory beside the tree.
LEMMA BesideAt ==
    ASSUME NEW s, StoreOK(s), NEW dir, Nexts(dir), HighEntries(s, dir),
           NEW p \in 1..Len(read_dir1(s, dir)), read_dir1(s, dir)[p] \in ToSet(BesideTree)
    PROVE  /\ dir = ROOT_INODE
           /\ \E j \in {1, 2} : p = BesidePlace(s, dir, j) /\ read_dir1(s, dir)[p] = BesideTree[j]
<1> DEFINE L == read_dir1(s, dir)
<1>1. ListingOf(s, dir, L) /\ p \in 1..Len(L) /\ L[p] \in ToSet(BesideTree)
  BY ListingIs
<1> HIDE DEF L
<1>2. ASSUME NEW x \in Visible(s, dir) PROVE L[p] # ItemAt(s, x)
  <2>1. x \in Slots(s, EntryKeys(s, dir))
    BY DEF Visible, Slots, Firsts
  <2> QED BY <1>1, <2>1, BesideDiffer
<1>3. dir = ROOT_INODE /\ \E j \in {1, 2} : p = BesidePlace(s, dir, j) /\ L[p] = BesideTree[j]
  BY <1>1, <1>2 DEF ListingOf
<1> QED BY <1>3 DEF L

LEMMA BesideMoves ==
    ASSUME NEW s, StoreOK(s), NEW t, StoreOK(t), NEW dir, Nexts(dir),
           HighEntries(s, dir), HighEntries(t, dir),
           Cardinality(Visible(s, dir)) <= Cardinality(Visible(t, dir)),
           Cardinality(Visible(s, dir)) \in Nat, Cardinality(Visible(t, dir)) \in Nat,
           NEW p \in 1..Len(read_dir1(s, dir)), NEW q \in 1..Len(read_dir1(t, dir)),
           read_dir1(s, dir)[p] = read_dir1(t, dir)[q],
           read_dir1(s, dir)[p] \in ToSet(BesideTree)
    PROVE  p <= q
<1>1. PICK i \in {1, 2} : p = BesidePlace(s, dir, i) /\ read_dir1(s, dir)[p] = BesideTree[i]
  BY BesideAt
<1>2. PICK j \in {1, 2} : q = BesidePlace(t, dir, j) /\ read_dir1(t, dir)[q] = BesideTree[j]
  BY BesideAt
<1>3. i = j
  BY <1>1, <1>2, BesideIs
<1> QED BY <1>1, <1>2, <1>3 DEF BesidePlace

\* What is shown of more entries is shown of fewer, if it is there.
LEMMA Stays ==
    ASSUME NEW s, StoreOK(s), NEW t, StoreOK(t), NEW dir, Grows(s, t, dir),
           NEW x \in Visible(t, dir), x[1] \in EntryKeys(s, dir)
    PROVE  x \in Visible(s, dir)
<1> DEFINE F == EntryKeys(s, dir)
           G == EntryKeys(t, dir)
<1>1. G \in SUBSET Keys /\ IsFiniteSet(G) /\ F \in SUBSET G
  BY EntryKeysFinite DEF Grows
<1>2. x[1] \in Firsts(G) /\ x \in Slots(t, F)
  BY DEF Visible, Slots
<1>3. x[1] \in Firsts(F)
  BY <1>1, <1>2, FirstsShrink
<1>4. x \in Slots(s, F)
  BY <1>2, SlotsGrow
<1> QED BY <1>3, <1>4 DEF Visible, Slots

LEMMA VisibleFinite ==
    ASSUME NEW s, StoreOK(s), NEW dir
    PROVE  IsFiniteSet(Visible(s, dir)) /\ Cardinality(Visible(s, dir)) \in Nat
<1>1. IsFiniteSet(Firsts(EntryKeys(s, dir)))
  BY EntryKeysFinite, FirstsAre
<1> QED BY <1>1, SlotsFinite DEF Visible

\* More is shown of more entries, as long as a scan returns all of them.
LEMMA VisibleGrows ==
    ASSUME NEW s, StoreOK(s), NEW t, StoreOK(t), NEW dir, Grows(s, t, dir),
           Cardinality(EntryKeys(t, dir)) <= ScanLimit
    PROVE  Cardinality(Visible(s, dir)) <= Cardinality(Visible(t, dir))
<1> DEFINE F == EntryKeys(s, dir)
           G == EntryKeys(t, dir)
<1>1. G \in SUBSET Keys /\ IsFiniteSet(G) /\ F \in SUBSET G
  BY EntryKeysFinite DEF Grows
<1>2. Firsts(G) = G
  BY <1>1, FirstsAre
<1>3. Firsts(F) \in SUBSET F
  BY DEF Firsts
<1>4. Slots(s, Firsts(F)) = Slots(t, Firsts(F))
  BY <1>3, SlotsGrow
<1>5. Visible(s, dir) \in SUBSET Visible(t, dir)
  BY <1>1, <1>2, <1>3, <1>4 DEF Visible, Slots
<1> QED BY <1>5, VisibleFinite, FS_Subset

-----------------------------------------------------------------------------
(***************************************************************************)
(* What a readdir in pages has behind it and ahead of it                   *)
(***************************************************************************)
\* All that a directory has, shown or beyond the limit of a scan.
HasItems(s, dir) ==
    {ItemAt(s, x) : x \in Slots(s, EntryKeys(s, dir))}
        \cup (IF dir = ROOT_INODE THEN ToSet(BesideTree) ELSE {})

DirOK(s, dir) == StoreOK(s) /\ Nexts(dir) /\ HighEntries(s, dir)

LEMMA ListedItems ==
    ASSUME NEW s, NEW dir, DirOK(s, dir), NEW p \in 1..Len(read_dir1(s, dir))
    PROVE  read_dir1(s, dir)[p] \in HasItems(s, dir)
<1> DEFINE L == read_dir1(s, dir)
<1>1. ListingOf(s, dir, L) /\ p \in 1..Len(L)
  BY ListingIs DEF DirOK
<1> HIDE DEF L
<1>2. Visible(s, dir) \subseteq Slots(s, EntryKeys(s, dir))
  BY DEF Visible, Slots, Firsts
<1>3. BesideTree[1] \in ToSet(BesideTree) /\ BesideTree[2] \in ToSet(BesideTree)
  BY BesideIs
<1>4. CASE \E x \in Visible(s, dir) : p = PlaceOf(s, dir, x) /\ L[p] = ItemAt(s, x)
  BY <1>2, <1>4 DEF HasItems, L
<1>5. CASE dir = ROOT_INODE /\ \E j \in {1, 2} : p = BesidePlace(s, dir, j) /\ L[p] = BesideTree[j]
  BY <1>3, <1>5 DEF HasItems, L
<1> QED BY <1>1, <1>4, <1>5 DEF ListingOf

LEMMA ItemsGrow ==
    ASSUME NEW s, NEW t, NEW dir, Grows(s, t, dir)
    PROVE  HasItems(s, dir) \subseteq HasItems(t, dir)
<1>1. ASSUME NEW x \in Slots(s, EntryKeys(s, dir))
      PROVE  x \in Slots(t, EntryKeys(t, dir)) /\ ItemAt(s, x) = ItemAt(t, x)
  <2>1. x \in Slots(t, EntryKeys(s, dir)) /\ ItemAt(s, x) = ItemAt(t, x)
    BY SlotsGrow
  <2> QED BY <2>1 DEF Slots, Grows
<1> QED BY <1>1 DEF HasItems

\* What was shown and is still there is shown when there are fewer.
LEMMA StillShown ==
    ASSUME NEW s, NEW t, NEW dir, DirOK(s, dir), DirOK(t, dir), Grows(s, t, dir),
           NEW p \in 1..Len(read_dir1(t, dir)), read_dir1(t, dir)[p] \in HasItems(s, dir)
    PROVE  \E q \in 1..Len(read_dir1(s, dir)) : read_dir1(s, dir)[q] = read_dir1(t, dir)[p]
<1> DEFINE L == read_dir1(s, dir)
           M == read_dir1(t, dir)
<1>1. /\ ListingOf(s, dir, L) /\ ListingOf(t, dir, M) /\ p \in 1..Len(M) /\ M[p] \in HasItems(s, dir)
      /\ StoreOK(s) /\ StoreOK(t) /\ Nexts(dir)
  BY ListingIs DEF DirOK
<1>2. CASE M[p] \in ToSet(BesideTree)
  <2>1. dir = ROOT_INODE /\ \E j \in {1, 2} : M[p] = BesideTree[j]
    BY <1>2, BesideAt DEF DirOK
  <2> HIDE DEF L, M
  <2>2. \E q \in 1..Len(L) : L[q] = M[p]
    BY <1>1, <2>1 DEF ListingOf
  <2> QED BY <2>2 DEF L, M
<1>3. CASE M[p] \notin ToSet(BesideTree)
  <2> HIDE DEF L, M
  <2>1. BesideTree[1] \in ToSet(BesideTree) /\ BesideTree[2] \in ToSet(BesideTree)
    BY BesideIs
  <2>2. PICK x \in Visible(t, dir) : M[p] = ItemAt(t, x)
    BY <1>1, <1>3, <2>1 DEF ListingOf
  <2>3. PICK y \in Slots(s, EntryKeys(s, dir)) : M[p] = ItemAt(s, y)
    BY <1>1, <1>3 DEF HasItems
  <2>4. y \in Slots(t, EntryKeys(t, dir)) /\ ItemAt(t, y) = ItemAt(s, y) /\ y[1] \in EntryKeys(s, dir)
    <3>1. y \in Slots(t, EntryKeys(s, dir)) /\ ItemAt(s, y) = ItemAt(t, y)
      BY SlotsGrow
    <3> QED BY <3>1 DEF Slots, Grows
  <2>5. x \in Slots(t, EntryKeys(t, dir))
    BY DEF Visible, Slots, Firsts
  <2>6. x = y
    BY <1>1, <2>2, <2>3, <2>4, <2>5, ItemsDiffer
  <2>7. x \in Visible(s, dir)
    BY <1>1, <2>4, <2>6, Stays
  <2>8. \E q \in 1..Len(L) : L[q] = M[p]
    BY <1>1, <2>3, <2>6, <2>7 DEF ListingOf
  <2> QED BY <2>8 DEF L, M
<1> QED BY <1>2, <1>3

\* The readdir under way: what it showed is behind it, unless entries were
\* added, and what it still has to show is ahead, unless some were removed.
Passed(s, l) ==
    \A e \in ToSet(l.seen) :
        \/ \E p \in 1..Len(read_dir1(s, l.dir)) : p <= l.offset /\ read_dir1(s, l.dir)[p] = e
        \/ e \notin HasItems(s, l.dir)
Ahead(s, l) ==
    \A e \in l.kept :
        \/ e \in ToSet(l.seen)
        \/ \E p \in 1..Len(read_dir1(s, l.dir)) : p > l.offset /\ read_dir1(s, l.dir)[p] = e

ListingTyped(l) ==
    l \in [dir : {0} \cup LiveDirs, offset : Nat, seen : Seq(ToSet(l.seen)), kept : {l.kept},
           added : BOOLEAN, removed : BOOLEAN, done : BOOLEAN]

ListOK(s, l) ==
    /\ ListingTyped(l)
    /\ l.dir = 0 => ~l.done
    /\ ~l.added => IsInjective(l.seen)
    /\ l.dir # 0 /\ ~l.done => (l.added \/ Passed(s, l)) /\ (l.removed \/ Ahead(s, l))
    /\ l.done => l.removed \/ l.kept \subseteq ToSet(l.seen)

\* Entries come: what is ahead stays ahead.
LEMMA ListAdd ==
    ASSUME NEW s, NEW t, NEW l, NEW m, ListOK(s, l), l.dir # 0, ~l.done, ListingTyped(m),
           DirOK(s, l.dir), DirOK(t, l.dir), Grows(s, t, l.dir),
           m.dir = l.dir, m.offset = l.offset, m.seen = l.seen, m.done = l.done,
           m.kept = l.kept \cap Lasting(t, l.dir), m.added, m.removed = l.removed
    PROVE  ListOK(t, m)
<1> DEFINE dir == l.dir
           L == read_dir1(s, dir)
           M == read_dir1(t, dir)
<1>1. ASSUME ~l.removed, NEW e \in m.kept, e \notin ToSet(m.seen)
      PROVE  \E q \in 1..Len(M) : q > m.offset /\ M[q] = e
  <2>1. PICK p \in 1..Len(L) : p > l.offset /\ L[p] = e
    BY <1>1 DEF ListOK, Ahead
  <2>2. e \in ToSet(M) /\ (Overfull(t, dir) => e \notin ToSet(BesideTree))
    BY <1>1 DEF Lasting
  <2>3. PICK q \in 1..Len(M) : M[q] = e
    <3>1. DOMAIN M = 1..Len(M)
      BY ListingIs DEF DirOK, ListingOf
    <3> HIDE DEF M
    <3> QED BY <2>2, <3>1 DEF ToSet
  <2>4. p <= q
    <3>1. CASE e \notin ToSet(BesideTree)
      BY <2>1, <2>3, <3>1, Moves DEF DirOK
    <3>2. CASE e \in ToSet(BesideTree)
      <4>1. {k \in DOMAIN t : InRange(k, directory_child_range(dir))} = EntryKeys(t, dir)
        BY EntriesFound DEF Found, DirOK
      <4>2. Cardinality(EntryKeys(t, dir)) <= ScanLimit
        <5>1. ~(Cardinality(EntryKeys(t, dir)) > ScanLimit)
          BY <2>2, <3>2, <4>1 DEF Overfull
        <5>2. Cardinality(EntryKeys(t, dir)) \in Nat /\ ScanLimit \in Nat
          BY EntryKeysFinite, FS_CardinalityType, DirectoryStoreAssumption DEF DirOK
        <5> QED BY <5>1, <5>2
      <4>3. Cardinality(Visible(s, dir)) <= Cardinality(Visible(t, dir))
        BY <4>2, VisibleGrows DEF DirOK
      <4>4. Cardinality(Visible(s, dir)) \in Nat /\ Cardinality(Visible(t, dir)) \in Nat
        BY VisibleFinite DEF DirOK
      <4> QED BY <2>1, <2>3, <3>2, <4>3, <4>4, BesideMoves DEF DirOK
    <3> QED BY <3>1, <3>2
  <2>5. Len(L) \in Nat /\ Len(M) \in Nat /\ m.offset = l.offset /\ l.offset \in Nat
    BY ListingIs DEF DirOK, ListingOf, ListOK, ListingTyped
  <2> HIDE DEF L, M
  <2>6. q > m.offset
    BY <2>1, <2>3, <2>4, <2>5
  <2> QED BY <2>3, <2>6
<1>2. l.removed \/ Ahead(t, m)
  BY <1>1 DEF Ahead
<1> QED BY <1>2 DEF ListOK

\* Entries go: what is behind stays behind, unless a hidden entry comes in.
LEMMA ListRemove ==
    ASSUME NEW s, NEW t, NEW l, NEW m, ListOK(s, l), l.dir # 0, ~l.done, ListingTyped(m),
           DirOK(s, l.dir), DirOK(t, l.dir), Grows(t, s, l.dir),
           m.dir = l.dir, m.offset = l.offset, m.seen = l.seen, m.done = l.done,
           m.added = (l.added \/ Overfull(s, l.dir)), m.removed
    PROVE  ListOK(t, m)
<1> DEFINE dir == l.dir
           L == read_dir1(s, dir)
           M == read_dir1(t, dir)
<1>1. ASSUME ~m.added, NEW e \in ToSet(m.seen), e \in HasItems(t, dir)
      PROVE  \E q \in 1..Len(M) : q <= m.offset /\ M[q] = e
  <2>1. e \in HasItems(s, dir)
    BY <1>1, ItemsGrow
  <2>2. PICK p \in 1..Len(L) : p <= l.offset /\ L[p] = e
    BY <1>1, <2>1 DEF ListOK, Passed
  <2>3. PICK q \in 1..Len(M) : M[q] = e
    BY <1>1, <2>2, StillShown
  <2>4. q <= p
    <3>1. CASE e \notin ToSet(BesideTree)
      BY <2>2, <2>3, <3>1, Moves DEF DirOK
    <3>2. CASE e \in ToSet(BesideTree)
      <4>1. {k \in DOMAIN s : InRange(k, directory_child_range(dir))} = EntryKeys(s, dir)
        BY EntriesFound DEF Found, DirOK
      <4>2. Cardinality(EntryKeys(s, dir)) <= ScanLimit
        <5>1. ~(Cardinality(EntryKeys(s, dir)) > ScanLimit)
          BY <1>1, <4>1 DEF Overfull
        <5>2. Cardinality(EntryKeys(s, dir)) \in Nat /\ ScanLimit \in Nat
          BY EntryKeysFinite, FS_CardinalityType, DirectoryStoreAssumption DEF DirOK
        <5> QED BY <5>1, <5>2
      <4>3. Cardinality(Visible(t, dir)) <= Cardinality(Visible(s, dir))
        BY <4>2, VisibleGrows DEF DirOK
      <4>4. Cardinality(Visible(s, dir)) \in Nat /\ Cardinality(Visible(t, dir)) \in Nat
        BY VisibleFinite DEF DirOK
      <4> QED BY <2>2, <2>3, <3>2, <4>3, <4>4, BesideMoves DEF DirOK
    <3> QED BY <3>1, <3>2
  <2>5. Len(L) \in Nat /\ Len(M) \in Nat /\ m.offset = l.offset /\ l.offset \in Nat
    BY ListingIs DEF DirOK, ListingOf, ListOK, ListingTyped
  <2> HIDE DEF L, M
  <2>6. q <= m.offset
    BY <2>2, <2>3, <2>4, <2>5
  <2> QED BY <2>3, <2>6
<1>2. m.added \/ Passed(t, m)
  BY <1>1 DEF Passed
<1> QED BY <1>2 DEF ListOK

ScanOf(F, n) == [i \in 1..n |-> CHOOSE k \in F : Rank(F)[k] = i]

\* A directory with the same entries is listed in the same way.
LEMMA ListSame ==
    ASSUME NEW s, NEW t, NEW l, ListOK(s, l),
           l.dir # 0 => /\ DirOK(s, l.dir) /\ DirOK(t, l.dir)
                        /\ Grows(s, t, l.dir) /\ Grows(t, s, l.dir)
    PROVE  ListOK(t, l)
<1>1. CASE l.dir = 0
  BY <1>1 DEF ListOK
<1>2. CASE l.dir # 0
  <2> DEFINE dir == l.dir
             range == directory_child_range(dir)
  <2>1. /\ Found(DOMAIN s, range) = Found(DOMAIN t, range) /\ Found(DOMAIN s, range) = EntryKeys(s, dir)
        /\ \A k \in EntryKeys(s, dir) : s[k] = t[k]
    <3>1. EntryKeys(s, dir) = EntryKeys(t, dir) /\ \A k \in EntryKeys(s, dir) : s[k] = t[k]
      BY <1>2 DEF Grows
    <3>2. Found(DOMAIN s, range) = EntryKeys(s, dir) /\ Found(DOMAIN t, range) = EntryKeys(t, dir)
      BY <1>2, EntriesFound DEF DirOK
    <3> QED BY <3>1, <3>2
  <2> DEFINE keys == Scan(DOMAIN s, range, ScanLimit)
  <2>2. keys = Scan(DOMAIN t, range, ScanLimit)
    <3>1. \A S : Scan(S, range, ScanLimit) = ScanOf(Found(S, range), ScanLen(S, range, ScanLimit))
      BY DEF Scan, ScanOf, ScanLen, Found, Rank
    <3>2. ScanLen(DOMAIN s, range, ScanLimit) = ScanLen(DOMAIN t, range, ScanLimit)
      BY <2>1 DEF ScanLen
    <3> QED BY <2>1, <3>1, <3>2
  <2>3. Len(keys) \in Nat /\ \A i \in 1..Len(keys) : s[keys[i]] = t[keys[i]]
    <3>1. ScanLimit \in Nat /\ DOMAIN s \in SUBSET Keys /\ IsFiniteSet(DOMAIN s)
      BY <1>2, DirectoryStoreAssumption, StoreKeysAreKeys DEF DirOK
    <3>2. /\ ScanLen(DOMAIN s, range, ScanLimit) \in Nat
          /\ keys \in [1..ScanLen(DOMAIN s, range, ScanLimit) -> Found(DOMAIN s, range)]
          /\ Len(keys) = ScanLen(DOMAIN s, range, ScanLimit)
      BY <3>1, ScanIs
    <3> QED BY <2>1, <3>2
  <2>4. Children(s, dir) = Children(t, dir)
    <3>1. /\ Children(s, dir) = [i \in 1..Len(keys) |-> [name |-> parse_directory_child(keys[i]).name,
                                  ino |-> s[keys[i]].ino, typ |-> s[keys[i]].typ]]
          /\ Children(t, dir) = [i \in 1..Len(keys) |-> [name |-> parse_directory_child(keys[i]).name,
                                  ino |-> t[keys[i]].ino, typ |-> t[keys[i]].typ]]
      BY <2>2 DEF Children
    <3> HIDE DEF keys
    <3> QED BY <2>3, <3>1
  <2>5. read_dir1(s, dir) = read_dir1(t, dir)
    BY <2>4 DEF read_dir1
  <2>6. HasItems(s, dir) = HasItems(t, dir)
    BY <1>2, ItemsGrow
  <2>7. Passed(s, l) = Passed(t, l) /\ Ahead(s, l) = Ahead(t, l)
    BY <2>5, <2>6 DEF Passed, Ahead
  <2> QED BY <2>7 DEF ListOK
<1> QED BY <1>1, <1>2

LEMMA ListOpened ==
    ASSUME NEW s, NEW dir \in LiveDirs, DirOK(s, dir),
           NEW m, m = [dir |-> dir, offset |-> 0, seen |-> <<>>, kept |-> ToSet(read_dir1(s, dir)),
                       added |-> FALSE, removed |-> FALSE, done |-> FALSE]
    PROVE  ListOK(s, m)
<1> DEFINE L == read_dir1(s, dir)
           K == ToSet(L)
<1>1. DOMAIN L = 1..Len(L) /\ Len(L) \in Nat
  BY ListingIs DEF DirOK, ListingOf
<1>2. \A e \in K : \E p \in 1..Len(L) : L[p] = e
  <2> HIDE DEF L
  <2> QED BY <1>1 DEF ToSet
<1> HIDE DEF K
<1>3. m = [dir |-> dir, offset |-> 0, seen |-> <<>>, kept |-> K,
           added |-> FALSE, removed |-> FALSE, done |-> FALSE]
  BY DEF K
<1>4. ToSet(<<>>) = {} /\ IsInjective(<<>>) /\ <<>> \in Seq({})
  BY DEF ToSet, IsInjective
<1>5. ListingTyped(m)
  <2>1. m.seen = <<>> /\ m.kept = K
    BY <1>3
  <2>2. m \in [dir : {0} \cup LiveDirs, offset : Nat, seen : Seq({}), kept : {K},
               added : BOOLEAN, removed : BOOLEAN, done : BOOLEAN]
    BY <1>3, <1>4
  <2> QED BY <1>4, <2>1, <2>2 DEF ListingTyped
<1>6. Passed(s, m)
  BY <1>3, <1>4 DEF Passed
<1>7. Ahead(s, m)
  <2>1. \A p \in 1..Len(L) : p > 0
    BY <1>1
  <2>2. m.kept = K /\ m.offset = 0 /\ m.dir = dir
    BY <1>3
  <2> QED BY <1>2, <2>1, <2>2 DEF Ahead
<1>8. ~m.done /\ m.seen = <<>>
  BY <1>3
<1> QED BY <1>4, <1>5, <1>6, <1>7, <1>8 DEF ListOK

\* The entries of a page behind those that were seen before.
PageOf(x, L, o, last, u) ==
    /\ u \in Seq(ToSet(u)) /\ DOMAIN u = 1..(Len(x) + last - o)
    /\ \A i \in 1..Len(x) : u[i] = x[i]
    /\ \A p \in (o + 1)..last : u[Len(x) + p - o] = L[p]

LEMMA PageIs ==
    ASSUME NEW A, NEW x \in Seq(A), NEW L, NEW o \in Nat, NEW last \in Nat, o < last,
           \A p \in 1..last : L[p] \in ToSet(L)
    PROVE  PageOf(x, L, o, last, x \o SubSeq(L, o + 1, last))
<1> DEFINE T == A \cup ToSet(L)
           w == SubSeq(L, o + 1, last)
           v == x \o w
<1>1. /\ w \in Seq(T) /\ Len(w) = last - o
      /\ \A i \in 1..(last - o) : w[i] = L[o + i]
  <2>1. \A i \in (o + 1)..last : L[i] \in T
    OBVIOUS
  <2> HIDE DEF T
  <2>2. /\ w \in Seq(T) /\ Len(w) = IF o + 1 <= last THEN last - (o + 1) + 1 ELSE 0
        /\ \A i \in 1..(last - (o + 1) + 1) : w[i] = L[(o + 1) + i - 1]
    <3>1. o + 1 \in Int /\ last \in Int
      OBVIOUS
    <3> QED BY <2>1, <3>1, SubSeqProperties
  <2> HIDE DEF w
  <2>3. last - (o + 1) + 1 = last - o /\ \A i \in 1..(last - o) : (o + 1) + i - 1 = o + i
    OBVIOUS
  <2> QED BY <2>2, <2>3
<1>2. x \in Seq(T) /\ Len(x) \in Nat
  <2>1. A \subseteq T
    OBVIOUS
  <2> HIDE DEF T
  <2> QED BY <2>1
<1> HIDE DEF w, T
<1>3. /\ v \in Seq(T) /\ Len(v) = Len(x) + Len(w)
      /\ \A i \in 1..(Len(x) + Len(w)) : v[i] = IF i <= Len(x) THEN x[i] ELSE w[i - Len(x)]
  BY <1>1, <1>2, ConcatProperties
<1> HIDE DEF v
<1>4. DOMAIN v = 1..(Len(x) + last - o) /\ v \in Seq(ToSet(v))
  <2>1. DOMAIN v = 1..Len(v) /\ v \in Seq(ToSet(v))
    BY <1>3 DEF ToSet
  <2>2. Len(v) = Len(x) + last - o
    BY <1>1, <1>2, <1>3
  <2> QED BY <2>1, <2>2
<1>5. ASSUME NEW i \in 1..Len(x) PROVE v[i] = x[i]
  <2>1. i \in 1..(Len(x) + Len(w)) /\ i <= Len(x)
    BY <1>1, <1>2
  <2> QED BY <1>3, <2>1
<1>6. ASSUME NEW p \in (o + 1)..last PROVE v[Len(x) + p - o] = L[p]
  <2>1. /\ Len(x) + p - o \in 1..(Len(x) + Len(w)) /\ ~(Len(x) + p - o <= Len(x))
        /\ Len(x) + p - o - Len(x) = p - o /\ p - o \in 1..(last - o) /\ o + (p - o) = p
    BY <1>1, <1>2
  <2>2. v[Len(x) + p - o] = w[p - o]
    BY <1>3, <2>1
  <2> QED BY <1>1, <2>1, <2>2
<1>7. PageOf(x, L, o, last, v)
  BY <1>4, <1>5, <1>6 DEF PageOf
<1> QED BY <1>7 DEF v, w

\* A page: what it shows goes from ahead to behind.
LEMMA ListPage ==
    ASSUME NEW s, NEW l, ListOK(s, l), l.dir # 0, ~l.done, DirOK(s, l.dir),
           NEW last \in Nat, l.offset < last, last <= Len(read_dir1(s, l.dir)),
           NEW m, m.seen = l.seen \o SubSeq(read_dir1(s, l.dir), l.offset + 1, last),
           m.offset = last, m.dir = l.dir, m.kept = l.kept, m.done = l.done,
           m.added = l.added, m.removed = l.removed,
           ListingTyped(l) /\ m.seen \in Seq(ToSet(m.seen)) => ListingTyped(m)
    PROVE  ListOK(s, m)
<1> DEFINE L == read_dir1(s, l.dir)
           o == l.offset
           x == l.seen
           u == m.seen
<1>1. /\ DOMAIN L = 1..Len(L) /\ Len(L) \in Nat /\ \A p, q \in 1..Len(L) : L[p] = L[q] => p = q
      /\ \A p \in 1..Len(L) : L[p] \in HasItems(s, l.dir)
  BY ListingIs, ListedItems DEF DirOK, ListingOf
<1>2. o \in Nat /\ x \in Seq(ToSet(x)) /\ Len(x) \in Nat /\ DOMAIN x = 1..Len(x)
  <2>1. o \in Nat /\ x \in Seq(ToSet(x))
    BY DEF ListOK, ListingTyped
  <2> HIDE DEF x
  <2> QED BY <2>1
<1>3. \A p \in 1..last : p \in 1..Len(L)
  BY <1>1
<1>4. /\ (l.added \/ Passed(s, l)) /\ (l.removed \/ Ahead(s, l)) /\ (l.added \/ IsInjective(x))
      /\ u = x \o SubSeq(L, o + 1, last) /\ o < last
      /\ ListingTyped(l) /\ (u \in Seq(ToSet(u)) => ListingTyped(m))
  BY DEF ListOK
<1>5. l.added \/ \A e \in ToSet(x) : \/ \E p \in 1..Len(L) : p <= o /\ L[p] = e
                                     \/ e \notin HasItems(s, l.dir)
  BY <1>4 DEF Passed
<1>6. l.removed \/ \A e \in l.kept : \/ e \in ToSet(x)
                                     \/ \E p \in 1..Len(L) : p > o /\ L[p] = e
  BY <1>4 DEF Ahead
<1> HIDE DEF L, o, x, u
<1>7. \A p \in 1..last : L[p] \in ToSet(L)
  BY <1>1, <1>3 DEF ToSet
<1>8. /\ u \in Seq(ToSet(u)) /\ DOMAIN u = 1..(Len(x) + last - o)
      /\ \A i \in 1..Len(x) : u[i] = x[i]
      /\ \A p \in (o + 1)..last : u[Len(x) + p - o] = L[p]
  <2>1. PageOf(x, L, o, last, x \o SubSeq(L, o + 1, last))
    BY <1>2, <1>4, <1>7, PageIs
  <2>2. PageOf(x, L, o, last, u)
    BY <1>4, <2>1, Zenon
  <2> QED BY <2>2 DEF PageOf
<1>9. ASSUME NEW i \in DOMAIN u
      PROVE  \/ i \in 1..Len(x) /\ u[i] = x[i] /\ u[i] \in ToSet(x)
             \/ \E p \in (o + 1)..last : i = Len(x) + p - o /\ u[i] = L[p] /\ p \in 1..Len(L)
  <2>1. CASE i \in 1..Len(x)
    BY <1>2, <1>8, <2>1 DEF ToSet
  <2>2. CASE i \notin 1..Len(x)
    <3>0. i \in 1..(Len(x) + last - o) /\ last \in Nat
      BY <1>8
    <3>1. i + o - Len(x) \in (o + 1)..last /\ i = Len(x) + (i + o - Len(x)) - o
          /\ i + o - Len(x) \in 1..last
      BY <1>2, <2>2, <3>0
    <3> QED BY <1>3, <1>8, <3>1
  <2> QED BY <2>1, <2>2
<1>10. ToSet(x) \subseteq ToSet(u) /\ \A p \in (o + 1)..last : L[p] \in ToSet(u)
  <2>1. \A i \in 1..Len(x) : i \in DOMAIN u
    BY <1>2, <1>4, <1>8
  <2>2. \A p \in (o + 1)..last : Len(x) + p - o \in DOMAIN u
    BY <1>2, <1>4, <1>8
  <2> QED BY <1>2, <1>8, <2>1, <2>2 DEF ToSet
<1>11. l.added \/ \A e \in ToSet(u) : \/ \E p \in 1..Len(L) : p <= last /\ L[p] = e
                                      \/ e \notin HasItems(s, l.dir)
  <2> SUFFICES ASSUME ~l.added, NEW e \in ToSet(u), e \in HasItems(s, l.dir)
               PROVE  \E p \in 1..Len(L) : p <= last /\ L[p] = e
    OBVIOUS
  <2>1. PICK i \in DOMAIN u : e = u[i]
    BY DEF ToSet
  <2>2. CASE u[i] \in ToSet(x)
    <3>1. PICK p \in 1..Len(L) : p <= o /\ L[p] = e
      BY <1>5, <2>1, <2>2
    <3>2. p <= last
      BY <1>1, <1>2, <1>4, <3>1
    <3> QED BY <3>1, <3>2
  <2>3. CASE \E p \in (o + 1)..last : u[i] = L[p] /\ p \in 1..Len(L)
    <3>1. PICK p \in (o + 1)..last : u[i] = L[p] /\ p \in 1..Len(L)
      BY <2>3
    <3>2. p <= last
      BY <1>2
    <3> QED BY <2>1, <3>1, <3>2
  <2> QED BY <1>9, <2>2, <2>3
<1>12. l.removed \/ \A e \in l.kept : \/ e \in ToSet(u)
                                      \/ \E p \in 1..Len(L) : p > last /\ L[p] = e
  <2> SUFFICES ASSUME ~l.removed, NEW e \in l.kept, e \notin ToSet(u)
               PROVE  \E p \in 1..Len(L) : p > last /\ L[p] = e
    OBVIOUS
  <2>1. PICK p \in 1..Len(L) : p > o /\ L[p] = e
    BY <1>6, <1>10
  <2>2. p \notin (o + 1)..last
    BY <1>10, <2>1
  <2>3. p > last
    BY <1>1, <1>2, <2>1, <2>2
  <2> QED BY <2>1, <2>3
<1>13. ASSUME ~l.added, NEW e \in ToSet(x), NEW p \in (o + 1)..last, p \in 1..Len(L) PROVE e # L[p]
  <2> SUFFICES ASSUME e = L[p] PROVE FALSE
    OBVIOUS
  <2>1. PICK q \in 1..Len(L) : q <= o /\ L[q] = e
    BY <1>1, <1>5, <1>13
  <2>2. p = q
    BY <1>1, <1>13, <2>1
  <2> QED BY <1>2, <2>1, <2>2
<1>14. l.added \/ IsInjective(u)
  <2> SUFFICES ASSUME ~l.added, NEW i \in DOMAIN u, NEW j \in DOMAIN u, u[i] = u[j] PROVE i = j
    BY DEF IsInjective
  <2> DEFINE Old(h) == h \in 1..Len(x) /\ u[h] = x[h] /\ u[h] \in ToSet(x)
             New(h) == \E p \in (o + 1)..last : h = Len(x) + p - o /\ u[h] = L[p] /\ p \in 1..Len(L)
  <2>1. (Old(i) \/ New(i)) /\ (Old(j) \/ New(j))
    BY <1>9
  <2>2. CASE Old(i) /\ Old(j)
    BY <1>2, <1>4, <2>2 DEF IsInjective
  <2>3. CASE (Old(i) /\ New(j)) \/ (New(i) /\ Old(j))
    BY <1>13, <2>3
  <2>4. CASE New(i) /\ New(j)
    BY <1>1, <2>4
  <2> QED BY <2>1, <2>2, <2>3, <2>4
<1>15. m.dir = l.dir /\ m.offset = last /\ m.seen = u /\ m.kept = l.kept
  BY DEF u
<1>16. (l.added \/ Passed(s, m)) /\ (l.removed \/ Ahead(s, m))
  <2>1. l.added \/ Passed(s, m)
    BY <1>11, <1>15 DEF Passed, L
  <2>2. l.removed \/ Ahead(s, m)
    BY <1>12, <1>15 DEF Ahead, L
  <2> QED BY <2>1, <2>2
<1>17. ListingTyped(m)
  BY <1>4, <1>8
<1> QED BY <1>14, <1>15, <1>16, <1>17 DEF ListOK

\* An empty page: nothing is ahead.
LEMMA ListEnd ==
    ASSUME NEW s, NEW l, ListOK(s, l), l.dir # 0, ~l.done, DirOK(s, l.dir),
           Len(read_dir1(s, l.dir)) <= l.offset,
           NEW m, m.seen = l.seen, m.dir = l.dir, m.kept = l.kept, m.done,
           m.added = l.added, m.removed = l.removed, ListingTyped(m)
    PROVE  ListOK(s, m)
<1>1. Len(read_dir1(s, l.dir)) \in Nat /\ l.offset \in Nat
  BY ListingIs DEF DirOK, ListingOf, ListOK, ListingTyped
<1>2. \A p \in 1..Len(read_dir1(s, l.dir)) : ~(p > l.offset)
  BY <1>1
<1>3. l.removed \/ l.kept \subseteq ToSet(l.seen)
  BY <1>2 DEF ListOK, Ahead
<1> QED BY <1>3 DEF ListOK

-----------------------------------------------------------------------------
(***************************************************************************)
(* The invariant of a readdir under way, and the steps that keep it        *)
(***************************************************************************)
LinksHigh(L) == \A l \in L : l.ino >= FIRST_DATA_INODE

ListInv ==
    /\ LinksHigh(links) /\ snaps \in Nat
    /\ snaps = 0 => snap.pc \in Over
    /\ listing.dir # 0 => snap.pc \in Over
    /\ ListOK(store, listing)

LEMMA LiveDirOK ==
    ASSUME NEW s, NEW L, StoreOK(s), LinksOK(s, L), LinksHigh(L), NEW dir \in LiveDirs
    PROVE  DirOK(s, dir) /\ dir \in Word /\ dir # 0
<1>1. CounterOK(s) /\ dir \in Numbers(s)
  BY LiveNumbers DEF StoreOK
<1>2. Nexts(dir) /\ dir \in Word
  BY <1>1, NumbersAreWords DEF Nexts
<1>3. dir # 0
  BY DEF LiveDirs, ROOT_INODE, DirD, FIRST_DATA_INODE
<1>4. ASSUME NEW k \in EntryKeys(s, dir) PROVE s[k].ino >= FIRST_DATA_INODE
  <2>1. k \in DOMAIN s /\ OfKind(k, "DirectoryChild")
    BY <1>2, ChildKey DEF EntryKeys
  <2>2. PICK l \in L : k = Entry(l)
    BY <2>1 DEF LinksOK
  <2>3. s[k].ino = l.ino
    BY <2>2, DescribesOne DEF LinksOK, LinkStored
  <2> QED BY <2>3 DEF LinksHigh
<1> QED BY <1>2, <1>3, <1>4 DEF DirOK, HighEntries

LEMMA PutGrows ==
    ASSUME NEW s, NEW q, NEW dir,
           \A name \in Keys : directory_child(dir, name) \in DOMAIN q => directory_child(dir, name) \notin DOMAIN s
    PROVE  /\ Grows(s, Put(s, q), dir)
           /\ (\A name \in Keys : directory_child(dir, name) \notin DOMAIN q) => Grows(Put(s, q), s, dir)
<1> DEFINE t == Put(s, q)
<1>1. /\ DOMAIN t = DOMAIN s \cup DOMAIN q
      /\ \A k \in DOMAIN s \ DOMAIN q : t[k] = s[k]
  BY PutIs
<1> HIDE DEF t
<1>2. Grows(s, t, dir)
  BY <1>1 DEF Grows, EntryKeys
<1>3. (\A name \in Keys : directory_child(dir, name) \notin DOMAIN q) => Grows(t, s, dir)
  BY <1>1 DEF Grows, EntryKeys
<1> QED BY <1>2, <1>3 DEF t

LEMMA DataSame ==
    ASSUME NEW s, NEW q, NEW dir \in Word, DataPairs(q) \/ DOMAIN q = {meta}
    PROVE  Grows(s, Put(s, q), dir) /\ Grows(Put(s, q), s, dir)
<1>1. ASSUME NEW name \in Keys PROVE directory_child(dir, name) \notin DOMAIN q
  <2>1. OfKind(directory_child(dir, name), "DirectoryChild")
    BY ChildKey
  <2>2. CASE DataPairs(q)
    BY <2>1, <2>2, DataOtherKeys
  <2>3. CASE DOMAIN q = {meta}
    BY <2>1, <2>3, MetaKey, DifferentKinds
  <2> QED BY <2>2, <2>3
<1> QED BY <1>1, PutGrows

LEMMA LinkAdds ==
    ASSUME NEW s, NEW dir \in Word, NEW name \in Keys, NEW item, item.ino \in Word,
           directory_child(dir, name) \notin DOMAIN s, NEW e \in Word
    PROVE  /\ Grows(s, Put(s, LinkPairs(dir, name, item)), e)
           /\ e # dir => Grows(Put(s, LinkPairs(dir, name, item)), s, e)
<1> DEFINE k1 == parent_link(item.ino, dir, name)
           k2 == directory_child(dir, name)
           q1 == Pair(k1, <<>>)
           q2 == Pair(k2, item)
           q == LinkPairs(dir, name, item)
<1>1. OfKind(k1, "ParentLink") /\ OfKind(k2, "DirectoryChild")
  BY ParentKey, ChildKey
<1>2. q = Put(q1, q2)
  BY DEF LinkPairs
<1> HIDE DEF q
<1>3. DOMAIN q1 = {k1} /\ DOMAIN q2 = {k2}
  BY PairIs
<1>4. DOMAIN q = {k1, k2}
  <2> HIDE DEF q1, q2, k1, k2
  <2>1. DOMAIN Put(q1, q2) = DOMAIN q1 \cup DOMAIN q2
    BY PutIs
  <2> QED BY <1>2, <1>3, <2>1
<1>5. ASSUME NEW n \in Keys, directory_child(e, n) \in DOMAIN q
      PROVE  directory_child(e, n) = k2 /\ e = dir
  <2>1. OfKind(directory_child(e, n), "DirectoryChild")
    BY ChildKey
  <2>2. directory_child(e, n) # k1
    BY <1>1, <2>1, DifferentKinds
  <2>3. directory_child(e, n) = k2
    BY <1>4, <1>5, <2>2
  <2> QED BY <2>3, ChildKeyInjective
<1>6. /\ Grows(s, Put(s, q), e)
      /\ e # dir => Grows(Put(s, q), s, e)
  BY <1>5, PutGrows
<1> QED BY <1>6 DEF q

LEMMA GrowsOn ==
    ASSUME NEW s, NEW t, NEW u, NEW dir, Grows(s, t, dir), Grows(t, u, dir)
    PROVE  Grows(s, u, dir)
BY DEF Grows

Observed(l, K, x, y, m) ==
    /\ m.dir = l.dir /\ m.offset = l.offset /\ m.seen = l.seen /\ m.done = l.done
    /\ m.kept = l.kept \cap K /\ m.added = (l.added \/ x) /\ m.removed = (l.removed \/ y)
    /\ ListingTyped(m)

LEMMA ObservedIs ==
    ASSUME NEW l, ListingTyped(l), NEW K, NEW x \in BOOLEAN, NEW y \in BOOLEAN
    PROVE  Observed(l, K, x, y, [l EXCEPT !.kept = @ \cap K, !.added = @ \/ x, !.removed = @ \/ y])
<1> DEFINE S == ToSet(l.seen)
           J == l.kept
<1>1. l \in [dir : {0} \cup LiveDirs, offset : Nat, seen : Seq(S), kept : {J},
             added : BOOLEAN, removed : BOOLEAN, done : BOOLEAN]
  BY DEF ListingTyped
<1> HIDE DEF S, J
<1>2. PICK m : m = [l EXCEPT !.kept = @ \cap K, !.added = @ \/ x, !.removed = @ \/ y]
  OBVIOUS
<1>3. /\ m.dir = l.dir /\ m.offset = l.offset /\ m.seen = l.seen /\ m.done = l.done
      /\ m.kept = l.kept \cap K /\ m.added = (l.added \/ x) /\ m.removed = (l.removed \/ y)
  BY <1>1, <1>2
<1>4. m \in [dir : {0} \cup LiveDirs, offset : Nat, seen : Seq(S), kept : {l.kept \cap K},
             added : BOOLEAN, removed : BOOLEAN, done : BOOLEAN]
  BY <1>1, <1>2
<1>5. ListingTyped(m)
  BY <1>3, <1>4 DEF ListingTyped, S
<1>6. Observed(l, K, x, y, m)
  BY <1>3, <1>5 DEF Observed
<1> QED BY <1>2, <1>6, Zenon

\* What a change of the store under a readdir does to it.
LEMMA ChangeList ==
    ASSUME StoreInv, ListInv, StoreInv', LinksHigh(links'), snap' = snap, snaps' = snaps,
           NEW adds \in SUBSET LiveDirs, NEW dels \in SUBSET LiveDirs, Observe(adds, dels),
           \A e \in LiveDirs : /\ e \notin dels => Grows(store, store', e)
                               /\ e \notin adds => Grows(store', store, e)
    PROVE  ListInv'
<1> DEFINE dir == listing.dir
           x == dir \in adds \/ (dir \in dels /\ Overfull(store, dir))
           y == dir \in dels
           K == Lasting(store', dir)
<1>1. ListOK(store, listing) /\ ListingTyped(listing)
  BY DEF ListInv, ListOK
<1>2. \A e \in LiveDirs : DirOK(store, e) /\ DirOK(store', e) /\ e # 0
  BY LiveDirOK DEF StoreInv, ListInv
<1>3. /\ dir # 0 => dir \in LiveDirs
      /\ listing.added \in BOOLEAN /\ listing.removed \in BOOLEAN
  BY <1>1 DEF ListingTyped
<1>4. CASE dir \in adds \cup dels /\ ~listing.done
  <2>1. x \in BOOLEAN /\ y \in BOOLEAN
    BY DEF Overfull
  <2>2. listing' = [listing EXCEPT !.kept = @ \cap K, !.added = @ \/ x, !.removed = @ \/ y]
    BY <1>4, Zenon DEF Observe
  <2>3. Observed(listing, K, x, y, listing')
    <3> HIDE DEF x, y, K
    <3> QED BY <1>1, <2>1, <2>2, ObservedIs, Zenon
  <2>4. /\ listing'.dir = dir /\ listing'.offset = listing.offset /\ listing'.seen = listing.seen
        /\ listing'.done = listing.done /\ listing'.kept = listing.kept \cap K
        /\ listing'.added = (listing.added \/ x) /\ listing'.removed = (listing.removed \/ y)
        /\ ListingTyped(listing')
    <3> HIDE DEF x, y, K
    <3> QED BY <2>3 DEF Observed
  <2>5. dir \in LiveDirs /\ dir # 0
    BY <1>2, <1>4
  <2>6. CASE dir \in adds /\ dir \in dels
    <3>1. listing'.added /\ listing'.removed
      BY <2>4, <2>6
    <3>2. ListOK(store', listing')
      BY <1>4, <2>4, <2>5, <3>1 DEF ListOK
    <3> QED BY <2>4, <2>5, <3>2 DEF ListInv
  <2>7. CASE dir \in adds /\ dir \notin dels
    <3>1. listing'.added /\ listing'.removed = listing.removed
      BY <1>3, <2>4, <2>7
    <3>2. ListOK(store', listing')
      BY <1>1, <1>2, <1>4, <2>4, <2>5, <2>7, <3>1, ListAdd
    <3> QED BY <2>4, <3>2 DEF ListInv
  <2>8. CASE dir \notin adds /\ dir \in dels
    <3>1. listing'.removed /\ listing'.added = (listing.added \/ Overfull(store, dir))
      BY <2>4, <2>8
    <3>2. ListOK(store', listing')
      BY <1>1, <1>2, <1>4, <2>4, <2>5, <2>8, <3>1, ListRemove
    <3> QED BY <2>4, <3>2 DEF ListInv
  <2> QED BY <1>4, <2>6, <2>7, <2>8
<1>5. CASE ~(dir \in adds \cup dels /\ ~listing.done)
  <2>1. listing' = listing
    BY <1>5 DEF Observe
  <2>2. ListOK(store', listing)
    <3>1. CASE listing.done
      BY <1>1, <3>1 DEF ListOK
    <3>2. CASE dir \notin adds /\ dir \notin dels
      BY <1>1, <1>2, <1>3, <3>2, ListSame
    <3> QED BY <1>5, <3>1, <3>2
  <2> QED BY <2>1, <2>2 DEF ListInv
<1> QED BY <1>4, <1>5

\* A change of the store beside the entries of the tree.
LEMMA SameList ==
    ASSUME StoreInv, ListInv, StoreInv', links' = links, snap' = snap, snaps' = snaps, listing' = listing,
           \A e \in LiveDirs : Grows(store, store', e) /\ Grows(store', store, e)
    PROVE  ListInv'
<1>1. LinksHigh(links') /\ Observe({}, {})
  BY DEF ListInv, Observe
<1> QED BY <1>1, ChangeList

LEMMA DropSame ==
    ASSUME NEW s, NEW K, NEW e \in Word, \A k \in K : ~OfKind(k, "DirectoryChild")
    PROVE  Grows(s, Drop(s, K), e) /\ Grows(Drop(s, K), s, e)
<1>1. DOMAIN Drop(s, K) = DOMAIN s \ K /\ \A k \in DOMAIN Drop(s, K) : Drop(s, K)[k] = s[k]
  BY DropIs
<1>2. \A name \in Keys : directory_child(e, name) \notin K
  BY ChildKey
<1>3. EntryKeys(Drop(s, K), e) = EntryKeys(s, e)
  BY <1>1, <1>2 DEF EntryKeys
<1>4. \A k \in EntryKeys(s, e) : k \in DOMAIN Drop(s, K)
  BY <1>3 DEF EntryKeys
<1> QED BY <1>1, <1>3, <1>4 DEF Grows

\* Without the ends of a link its directory alone has less.
LEMMA EndsShrink ==
    ASSUME StoreInv, NEW s, NEW dir \in Numbers(store), NEW name \in Keys,
           NEW item \in Get(store, directory_child(dir, name)), NEW e \in Word
    PROVE  /\ Grows(Drop(s, LinkEnds(dir, name, item)), s, e)
           /\ e # dir => Grows(s, Drop(s, LinkEnds(dir, name, item)), e)
<1> DEFINE l == Link(dir, name, item.ino)
           K == LinkEnds(dir, name, item)
           t == Drop(s, K)
           key == directory_child(dir, name)
<1>1. StoreOK(store) /\ LinksOK(store, links) /\ CounterOK(store)
  BY StoreKnown
<1>2. l \in links /\ IsLink(store, l) /\ K = {Entry(l), Parent(l)} /\ Entry(l) = key
  BY <1>1, EntryLinked
<1>3. dir \in Word
  BY <1>1, NumbersAreWords
<1> HIDE DEF l, K
<1>4. OfKind(Parent(l), "ParentLink")
  BY <1>1, <1>2, LinkKeys
<1>5. DOMAIN t = DOMAIN s \ K /\ \A k \in DOMAIN t : t[k] = s[k]
  BY DropIs
<1>6. e # dir => \A n \in Keys : directory_child(e, n) \notin K
  <2>1. \A n \in Keys : OfKind(directory_child(e, n), "DirectoryChild")
    BY ChildKey
  <2>2. \A n \in Keys : directory_child(e, n) # Parent(l)
    BY <1>4, <2>1, DifferentKinds
  <2>3. e # dir => \A n \in Keys : directory_child(e, n) # key
    BY <1>3, ChildKeyInjective
  <2> QED BY <1>2, <2>2, <2>3
<1> HIDE DEF t
<1>7. Grows(t, s, e)
  BY <1>5 DEF Grows, EntryKeys
<1>8. e # dir => Grows(s, t, e)
  BY <1>5, <1>6 DEF Grows, EntryKeys
<1> QED BY <1>7, <1>8 DEF t, K

LEMMA AddChildList ==
    ASSUME StoreInv, ProgsInv, ListInv, StoreInv', NEW ino \in reserved, NEW dir \in LiveDirs,
           NEW name \in Names, NEW typ \in Types, AddChild(ino, dir, name, typ)
    PROVE  ListInv'
<1> DEFINE l == Link(dir, name, ino)
           key == directory_child(dir, name)
           q1 == InodePairs(ino, typ, "new")
           q2 == IF typ = "Symlink" THEN Pair(inode_x(ino, "InlineData"), "target") ELSE NoPairs
           q3 == LinkPairs(dir, name, Item(ino, typ))
           t1 == Put(store, q1)
           t2 == Put(t1, q2)
<1>1. CounterOK(store) /\ snap' = snap /\ snaps' = snaps
  BY StoreKnown DEF AddChild
<1>2. ino \in Numbers(store) /\ ino >= Base /\ ino \in Nat
  BY DEF ProgsInv, ReservedOwn, Numbers
<1>3. name \in Keys /\ dir \in Word /\ ino \in Word /\ \A e \in LiveDirs : e \in Word
  BY <1>1, <1>2, LiveNumbers, NumbersAreWords
<1>4. CASE store' = store /\ links' = links /\ listing' = listing
  BY <1>1, <1>4 DEF ListInv
<1>5. CASE key \notin DOMAIN store /\ store' = Put(t2, q3) /\ links' = links \cup {l} /\ Observe({dir}, {})
  <2>1. Item(ino, typ).ino = ino /\ l.ino = ino
    BY DEF Item, Link
  <2>2. DataPairs(q1)
    BY <1>3, InodePairsData
  <2>3. DataPairs(q2)
    <3>1. "InlineData" \in InoMetas \ {"Description"} /\ "InlineData" # "Size"
      BY DEF InoMetas
    <3>2. DataPairs(Pair(inode_x(ino, "InlineData"), "target"))
      BY <1>3, <3>1, MetaPairData
    <3> QED BY <3>2, NoPairsData
  <2> HIDE DEF q1, q2, l
  <2>4. key \notin DOMAIN t2
    <3>1. OfKind(key, "DirectoryChild")
      BY <1>3, ChildKey
    <3>2. key \notin DOMAIN q1 /\ key \notin DOMAIN q2
      BY <2>2, <2>3, <3>1, DataOtherKeys
    <3>3. DOMAIN t1 = DOMAIN store \cup DOMAIN q1 /\ DOMAIN t2 = DOMAIN t1 \cup DOMAIN q2
      BY PutIs
    <3> QED BY <1>5, <3>2, <3>3
  <2>5. ASSUME NEW e \in LiveDirs
        PROVE  Grows(store, store', e) /\ (e # dir => Grows(store', store, e))
    <3>1. Grows(store, t1, e) /\ Grows(t1, store, e)
      BY <1>3, <2>2, DataSame
    <3>2. Grows(t1, t2, e) /\ Grows(t2, t1, e)
      BY <1>3, <2>3, DataSame
    <3> HIDE DEF t1, t2
    <3>3. Grows(t2, store', e) /\ (e # dir => Grows(store', t2, e))
      BY <1>3, <1>5, <2>1, <2>4, LinkAdds
    <3> QED BY <3>1, <3>2, <3>3, GrowsOn
  <2>6. LinksHigh(links')
    BY <1>2, <1>5, <2>1, BaseNat DEF ListInv, LinksHigh, FIRST_DATA_INODE
  <2>7. {dir} \in SUBSET LiveDirs /\ {} \in SUBSET LiveDirs
    OBVIOUS
  <2> QED BY <1>1, <1>5, <2>5, <2>6, <2>7, ChangeList
<1> QED BY <1>4, <1>5 DEF AddChild

LEMMA HardLinkList ==
    ASSUME StoreInv, ListInv, StoreInv', NEW ino \in {FileA, FileB}, NEW dir \in LiveDirs,
           NEW name \in Names, HardLink(ino, dir, name)
    PROVE  ListInv'
<1> DEFINE item == Item(ino, store[inode_x(ino, "Description")].typ)
           l == Link(dir, name, ino)
<1>1. /\ directory_child(dir, name) \notin DOMAIN store
      /\ store' = Put(store, LinkPairs(dir, name, item)) /\ links' = links \cup {l}
      /\ snap' = snap /\ snaps' = snaps /\ Observe({dir}, {})
  BY DEF HardLink, Writes
<1>2. /\ name \in Keys /\ ino \in Word /\ \A e \in LiveDirs : e \in Word
  BY StoreKnown, LiveNumbers, NumbersAreWords
<1>3. item.ino = ino /\ l.ino = ino
  BY DEF Item, Link
<1>4. ino >= FIRST_DATA_INODE
  BY BaseNat DEF FileA, FileB, LinkC, DirD, FIRST_DATA_INODE
<1> HIDE DEF item, l
<1>5. \A e \in LiveDirs : Grows(store, store', e) /\ (e # dir => Grows(store', store, e))
  BY <1>1, <1>2, <1>3, LinkAdds
<1>6. LinksHigh(links')
  BY <1>1, <1>3, <1>4 DEF ListInv, LinksHigh
<1>7. {dir} \in SUBSET LiveDirs /\ {} \in SUBSET LiveDirs
  OBVIOUS
<1> QED BY <1>1, <1>5, <1>6, <1>7, ChangeList

LEMMA RemovalList ==
    ASSUME StoreInv, ListInv, StoreInv', NEW l \in links, l.dir \in LiveDirs,
           Unlink(l.dir, l.name) \/ Rmdir(l.dir, l.name)
    PROVE  ListInv'
<1>1. PICK item \in Get(store, directory_child(l.dir, l.name)) :
        /\ store' = Drop(store, LinkEnds(l.dir, l.name, item))
        /\ links' = links \ {Link(l.dir, l.name, item.ino)}
  BY DEF Unlink, Rmdir, Deletes
<1>2. snap' = snap /\ snaps' = snaps /\ Observe({}, {l.dir})
  BY DEF Unlink, Rmdir
<1>3. l.dir \in Numbers(store) /\ l.name \in Keys /\ \A e \in LiveDirs : e \in Word
  BY LiveLink, StoreKnown, LiveNumbers, NumbersAreWords
<1>4. \A e \in LiveDirs : Grows(store', store, e) /\ (e # l.dir => Grows(store, store', e))
  BY <1>1, <1>3, EndsShrink
<1>5. LinksHigh(links')
  BY <1>1 DEF ListInv, LinksHigh
<1>6. {l.dir} \in SUBSET LiveDirs /\ {} \in SUBSET LiveDirs
  OBVIOUS
<1> QED BY <1>2, <1>4, <1>5, <1>6, ChangeList

LEMMA RenameList ==
    ASSUME StoreInv, ListInv, StoreInv', NEW l \in links, l.dir \in LiveDirs, NEW newDir \in LiveDirs,
           NEW newName \in Names, Rename(l.dir, l.name, newDir, newName)
    PROVE  ListInv'
<1>1. PICK item \in Get(store, directory_child(l.dir, l.name)) :
        \/ /\ store' = Drop(store, LinkEnds(l.dir, l.name, item))
           /\ links' = links \ {Link(l.dir, l.name, item.ino)}
           /\ Observe({}, {l.dir})
        \/ /\ directory_child(newDir, newName) \notin DOMAIN store
           /\ store' = Drop(Put(store, LinkPairs(newDir, newName,
                        Item(item.ino, store[inode_x(item.ino, "Description")].typ))),
                            LinkEnds(l.dir, l.name, item))
           /\ links' = (links \cup {Link(newDir, newName, item.ino)}) \ {Link(l.dir, l.name, item.ino)}
           /\ Observe({newDir}, {l.dir})
  BY DEF Rename, Deletes
<1>2. snap' = snap /\ snaps' = snaps
  BY DEF Rename
<1>3. /\ l.dir \in Numbers(store) /\ l.name \in Keys /\ newName \in Keys
      /\ \A e \in LiveDirs : e \in Word
  BY LiveLink, StoreKnown, LiveNumbers, NumbersAreWords
<1>4. {l.dir} \in SUBSET LiveDirs /\ {newDir} \in SUBSET LiveDirs /\ {} \in SUBSET LiveDirs
  OBVIOUS
<1>5. CASE /\ store' = Drop(store, LinkEnds(l.dir, l.name, item))
           /\ links' = links \ {Link(l.dir, l.name, item.ino)}
           /\ Observe({}, {l.dir})
  <2>1. \A e \in LiveDirs : Grows(store', store, e) /\ (e # l.dir => Grows(store, store', e))
    BY <1>3, <1>5, EndsShrink
  <2>2. LinksHigh(links')
    BY <1>5 DEF ListInv, LinksHigh
  <2> QED BY <1>2, <1>4, <1>5, <2>1, <2>2, ChangeList
<1>6. ASSUME NEW typ, directory_child(newDir, newName) \notin DOMAIN store,
             store' = Drop(Put(store, LinkPairs(newDir, newName, Item(item.ino, typ))),
                           LinkEnds(l.dir, l.name, item)),
             links' = (links \cup {Link(newDir, newName, item.ino)}) \ {Link(l.dir, l.name, item.ino)},
             Observe({newDir}, {l.dir})
      PROVE  ListInv'
  <2> DEFINE t == Put(store, LinkPairs(newDir, newName, Item(item.ino, typ)))
             ends == LinkEnds(l.dir, l.name, item)
  <2>1. Link(l.dir, l.name, item.ino) \in links /\ item.ino \in Word
    BY <1>3, EndsGone
  <2>2. /\ Link(l.dir, l.name, item.ino).ino = item.ino /\ Item(item.ino, typ).ino = item.ino
        /\ Link(newDir, newName, item.ino).ino = item.ino
    BY DEF Link, Item
  <2>3. \A e \in LiveDirs : Grows(store, t, e) /\ (e # newDir => Grows(t, store, e))
    BY <1>3, <1>6, <2>1, <2>2, LinkAdds
  <2>4. store' = Drop(t, ends)
    BY <1>6
  <2> HIDE DEF t
  <2>5. \A e \in LiveDirs : Grows(store', t, e) /\ (e # l.dir => Grows(t, store', e))
    BY <1>3, <2>4, EndsShrink
  <2>6. \A e \in LiveDirs : /\ e \notin {l.dir} => Grows(store, store', e)
                            /\ e \notin {newDir} => Grows(store', store, e)
    BY <2>3, <2>5, GrowsOn
  <2>7. LinksHigh(links')
    BY <1>6, <2>1, <2>2 DEF ListInv, LinksHigh
  <2> QED BY <1>2, <1>4, <1>6, <2>6, <2>7, ChangeList
<1> QED BY <1>1, <1>5, <1>6

\* Inodes are cleared, blocks and sizes written and numbers reserved beside
\* the entries.
LEMMA ClearList ==
    ASSUME StoreInv, ProgsInv, ListInv, StoreInv',
           \/ \E item \in unlinked : CheckDelete(item)
           \/ \E item \in doomed : Purge(item)
    PROVE  ListInv'
<1>1. links' = links /\ snap' = snap /\ snaps' = snaps /\ listing' = listing
  BY DEF CheckDelete, Purge
<1>2. CounterOK(store) /\ \A e \in LiveDirs : e \in Word
  BY StoreKnown, LiveNumbers, NumbersAreWords
<1>3. ASSUME NEW K, \A k \in K : ~OfKind(k, "DirectoryChild"), store' = Drop(store, K)
      PROVE  ListInv'
  BY <1>1, <1>2, <1>3, DropSame, SameList
<1>4. CASE store' = store
  BY <1>1, <1>4 DEF ListInv
<1>5. ASSUME NEW item \in unlinked, CheckDelete(item) PROVE ListInv'
  <2> DEFINE K == {inode_x(item.ino, "Description")}
  <2>1. store' = store \/ store' = Drop(store, K)
    BY <1>5 DEF CheckDelete, Deletes
  <2>2. item.ino \in Word
    BY <1>2, NumbersAreWords DEF ProgsInv, ItemsKnown
  <2>3. \A k \in K : OfKind(k, "InoMetadata")
    BY <2>2, InodeKey DEF InoMetas
  <2> HIDE DEF K
  <2>4. \A k \in K : ~OfKind(k, "DirectoryChild")
    BY <2>3, DifferentKinds
  <2> QED BY <1>3, <1>4, <2>1, <2>4
<1>6. ASSUME NEW item \in doomed, Purge(item) PROVE ListInv'
  <2>1. /\ item.ino \in Word
        /\ \/ store' = store
           \/ \E K : /\ store' = Drop(store, K)
                     /\ \A k \in K : \/ OfKind(k, "InoBlockHashMapping")
                                     \/ \E m \in InoMetas : k = inode_x(item.ino, m)
    BY <1>6, PurgeIs
  <2>2. ASSUME NEW K, store' = Drop(store, K),
               \A k \in K : \/ OfKind(k, "InoBlockHashMapping")
                            \/ \E m \in InoMetas : k = inode_x(item.ino, m)
        PROVE  ListInv'
    <3>1. \A k \in K : OfKind(k, "InoMetadata") \/ OfKind(k, "InoBlockHashMapping")
      BY <2>1, <2>2, InodeKey
    <3>2. \A k \in K : ~OfKind(k, "DirectoryChild")
      BY <3>1, DifferentKinds
    <3> QED BY <1>3, <2>2, <3>2
  <2> QED BY <1>4, <2>1, <2>2
<1> QED BY <1>5, <1>6

LEMMA WriteList ==
    ASSUME StoreInv, ProgsInv, ListInv, StoreInv',
           \/ ReserveNew
           \/ \E s \in Spans : WriteHashes(FileA, s[1], s[2])
           \/ \E w \in writing : WriteSize(w)
    PROVE  ListInv'
<1>1. links' = links /\ snap' = snap /\ snaps' = snaps /\ listing' = listing
  BY DEF ReserveNew, WriteHashes, WriteSize
<1>2. CounterOK(store) /\ FileA \in Word /\ \A e \in LiveDirs : e \in Word
  BY StoreKnown, LiveNumbers, NumbersAreWords
<1>3. ASSUME NEW q, store' = Put(store, q), \A k \in DOMAIN q : ~OfKind(k, "DirectoryChild")
      PROVE  ListInv'
  <2>1. \A e \in LiveDirs : \A name \in Keys : directory_child(e, name) \notin DOMAIN q
    BY <1>2, <1>3, ChildKey
  <2>2. \A e \in LiveDirs : Grows(store, store', e) /\ Grows(store', store, e)
    BY <1>3, <2>1, PutGrows
  <2> QED BY <1>1, <2>2, SameList
<1>4. CASE ReserveNew
  <2>1. PICK n : store' = Put(store, Pair(meta, n))
    BY <1>4 DEF ReserveNew, Reserved, Writes, Reserve
  <2>2. DOMAIN Pair(meta, n) = {meta}
    BY PairIs
  <2>3. ~OfKind(meta, "DirectoryChild")
    BY MetaKey, DifferentKinds
  <2>4. \A k \in DOMAIN Pair(meta, n) : ~OfKind(k, "DirectoryChild")
    BY <2>2, <2>3
  <2> QED BY <1>3, <2>1, <2>4
<1>5. ASSUME NEW s \in Spans, WriteHashes(FileA, s[1], s[2]) PROVE ListInv'
  <2> DEFINE q == [k \in {block_hash(FileA, i) : i \in s[1]..s[2]} |-> Hash2]
  <2>1. s[1] \in Nat /\ s[2] \in Nat
    BY DirectoryStoreAssumption
  <2>2. \A i \in s[1]..s[2] : OfKind(block_hash(FileA, i), "InoBlockHashMapping")
    BY <1>2, <2>1, BlockKeyKind
  <2>3. \A k \in DOMAIN q : OfKind(k, "InoBlockHashMapping")
    BY <2>2
  <2>4. store' = Put(store, q)
    BY <1>5 DEF WriteHashes, Writes
  <2> HIDE DEF q
  <2>5. \A k \in DOMAIN q : ~OfKind(k, "DirectoryChild")
    BY <2>3, DifferentKinds
  <2> QED BY <1>3, <2>4, <2>5
<1>6. ASSUME NEW w \in writing, WriteSize(w) PROVE ListInv'
  <2>1. w.ino = FileA
    BY DEF ProgsInv, WritesOpen
  <2> DEFINE size == Pair(inode_x(FileA, "Size"), w.size)
  <2>2. DOMAIN size = {inode_x(FileA, "Size")} /\ DOMAIN NoPairs = {}
    <3>1. DOMAIN size = {inode_x(FileA, "Size")}
      BY PairIs
    <3>2. DOMAIN NoPairs = {}
      BY DEF NoPairs
    <3> QED BY <3>1, <3>2
  <2>3. OfKind(inode_x(FileA, "Size"), "InoMetadata")
    BY <1>2, InodeKey DEF InoMetas
  <2>4. store' = Put(store, size) \/ store' = Put(store, NoPairs)
    BY <1>6, <2>1 DEF WriteSize, Writes
  <2> HIDE DEF size
  <2>5. \A q \in {size, NoPairs} : \A k \in DOMAIN q : ~OfKind(k, "DirectoryChild")
    BY <2>2, <2>3, DifferentKinds
  <2> QED BY <1>3, <2>4, <2>5
<1> QED BY <1>4, <1>5, <1>6

LEMMA OpenDirList ==
    ASSUME StoreInv, ListInv, NEW dir \in LiveDirs, OpenDir(dir)
    PROVE  ListInv'
<1> DEFINE K == ToSet(read_dir1(store, dir))
<1>1. /\ store' = store /\ links' = links /\ snap' = snap /\ snaps' = snaps /\ snaps = 0
      /\ listing' = [NoListing EXCEPT !.dir = dir, !.kept = K]
  BY DEF OpenDir
<1>2. listing' = [dir |-> dir, offset |-> 0, seen |-> <<>>, kept |-> K,
                  added |-> FALSE, removed |-> FALSE, done |-> FALSE]
  <2> HIDE DEF K
  <2>1. [NoListing EXCEPT !.dir = dir, !.kept = K] =
        [dir |-> dir, offset |-> 0, seen |-> <<>>, kept |-> K,
         added |-> FALSE, removed |-> FALSE, done |-> FALSE]
    <3>1. PICK x : x = [NoListing EXCEPT !.dir = dir, !.kept = K]
      OBVIOUS
    <3>2. x = [dir |-> dir, offset |-> 0, seen |-> <<>>, kept |-> K,
               added |-> FALSE, removed |-> FALSE, done |-> FALSE]
      BY <3>1 DEF NoListing
    <3> QED BY <3>1, <3>2, Zenon
  <2> QED BY <1>1, <2>1, Zenon
<1>3. DirOK(store, dir)
  BY LiveDirOK DEF StoreInv, ListInv
<1>4. ListOK(store, listing')
  BY <1>2, <1>3, ListOpened
<1> QED BY <1>1, <1>4 DEF ListInv

LEMMA readdirList ==
    ASSUME StoreInv, ListInv, NEW n \in 1..MaxPage, readdir(n)
    PROVE  ListInv'
<1> DEFINE L == read_dir1(store, listing.dir)
           o == listing.offset
           last == IF o + n < Len(L) THEN o + n ELSE Len(L)
<1>1. /\ listing.dir # 0 /\ ~listing.done
      /\ store' = store /\ links' = links /\ snap' = snap /\ snaps' = snaps
      /\ listing' = IF o + 1 > last THEN [listing EXCEPT !.done = TRUE]
                    ELSE [listing EXCEPT !.seen = @ \o SubSeq(L, o + 1, last),
                                         !.offset = (last - (o + 1)) + 1 + @]
  BY DEF readdir, EntryOffset
<1>2. /\ ListOK(store, listing) /\ ListingTyped(listing)
      /\ listing.dir \in LiveDirs /\ o \in Nat
  BY <1>1 DEF ListInv, ListOK, ListingTyped
<1>3. DirOK(store, listing.dir)
  BY <1>2, LiveDirOK DEF StoreInv, ListInv
<1>4. Len(L) \in Nat
  BY <1>3, ListingIs DEF DirOK, ListingOf
<1>5. n \in Nat /\ n >= 1 /\ MaxPage \in Nat
  BY DirectoryStoreAssumption
<1> DEFINE S == ToSet(listing.seen)
           J == listing.kept
<1>6. listing \in [dir : {0} \cup LiveDirs, offset : Nat, seen : Seq(S), kept : {J},
                   added : BOOLEAN, removed : BOOLEAN, done : BOOLEAN]
  BY <1>2 DEF ListingTyped
<1> HIDE DEF L, S, J
<1>7. /\ o + 1 > last => Len(L) <= o
      /\ ~(o + 1 > last) => o < last /\ last <= Len(L)
      /\ last \in Nat /\ (last - (o + 1)) + 1 + o = last
  BY <1>2, <1>4, <1>5
<1> HIDE DEF last
<1>8. CASE o + 1 > last
  <2>1. listing' = [listing EXCEPT !.done = TRUE]
    BY <1>1, <1>8
  <2>2. /\ listing'.seen = listing.seen /\ listing'.dir = listing.dir /\ listing'.kept = listing.kept
        /\ listing'.done /\ listing'.added = listing.added /\ listing'.removed = listing.removed
        /\ listing' \in [dir : {0} \cup LiveDirs, offset : Nat, seen : Seq(S), kept : {J},
                         added : BOOLEAN, removed : BOOLEAN, done : BOOLEAN]
    BY <1>6, <2>1
  <2>3. ListingTyped(listing')
    BY <1>6, <2>2 DEF ListingTyped, S
  <2>4. Len(read_dir1(store, listing.dir)) <= listing.offset
    BY <1>7, <1>8 DEF L
  <2>5. ListOK(store, listing')
    BY <1>1, <1>2, <1>3, <2>2, <2>3, <2>4, ListEnd
  <2> QED BY <1>1, <2>2, <2>5 DEF ListInv
<1>9. CASE ~(o + 1 > last)
  <2> DEFINE u == listing.seen \o SubSeq(L, o + 1, last)
  <2>1. listing' = [listing EXCEPT !.seen = u, !.offset = last]
    <3>1. [listing EXCEPT !.seen = u, !.offset = (last - (o + 1)) + 1 + @] =
          [listing EXCEPT !.seen = u, !.offset = last]
      BY <1>7
    <3>2. listing' = [listing EXCEPT !.seen = u, !.offset = (last - (o + 1)) + 1 + @]
      BY <1>1, <1>9
    <3> QED BY <3>1, <3>2, Zenon
  <2> HIDE DEF u
  <2>2. /\ listing'.seen = u /\ listing'.offset = last /\ listing'.dir = listing.dir
        /\ listing'.kept = listing.kept /\ listing'.done = listing.done
        /\ listing'.added = listing.added /\ listing'.removed = listing.removed
    BY <1>6, <2>1
  <2>3. ListingTyped(listing) /\ listing'.seen \in Seq(ToSet(listing'.seen)) => ListingTyped(listing')
    <3> SUFFICES ASSUME u \in Seq(ToSet(u)) PROVE ListingTyped(listing')
      BY <2>2
    <3> DEFINE R == Seq(ToSet(u))
    <3>1. u \in R
      OBVIOUS
    <3> HIDE DEF R
    <3>2. listing' \in [dir : {0} \cup LiveDirs, offset : Nat, seen : R, kept : {J},
                        added : BOOLEAN, removed : BOOLEAN, done : BOOLEAN]
      BY <1>6, <1>7, <2>1, <3>1
    <3>3. listing'.kept = J
      BY <1>6, <2>2
    <3> QED BY <2>2, <3>2, <3>3 DEF ListingTyped, R
  <2>4. listing'.seen = listing.seen \o SubSeq(read_dir1(store, listing.dir), listing.offset + 1, last)
    BY <2>2, Zenon DEF u, L
  <2>5. last \in Nat /\ listing.offset < last /\ last <= Len(read_dir1(store, listing.dir))
    BY <1>7, <1>9 DEF L
  <2>6. ListOK(store, listing')
    BY <1>1, <1>2, <1>3, <2>2, <2>3, <2>4, <2>5, ListPage
  <2> QED BY <1>1, <2>2, <2>6 DEF ListInv
<1> QED BY <1>8, <1>9

\* A snapshot runs while there is no readdir, and its copies have new inodes.
LEMMA SnapList ==
    ASSUME StoreInv, ListInv, SnapBegin \/ SnapStep \/ SnapAttrsFails \/ SnapFails
    PROVE  ListInv'
<1>1. {"reserve", "add", "scan", "link", "attrs", "data"} \cap Over = {}
  BY DEF Over
<1>2. listing' = listing /\ listing.dir = 0
  BY <1>1 DEF SnapBegin, SnapStep, SnapAttrsFails, SnapFails, SnapReserve, SnapAdd, SnapScan, SnapLink,
              SnapAttrs, SnapData, SnapDone, InSnap, ListInv
<1>3. snaps' \in Nat /\ snaps' # 0
  <2>1. CASE SnapBegin
    BY <2>1 DEF SnapBegin, ListInv
  <2>2. CASE ~SnapBegin
    BY <1>1, <2>2 DEF SnapStep, SnapAttrsFails, SnapFails, SnapReserve, SnapAdd, SnapScan, SnapLink,
                      SnapAttrs, SnapData, SnapDone, InSnap, ListInv
  <2> QED BY <2>1, <2>2
<1>4. ASSUME NEW x \in Unlinked(snap) PROVE x >= FIRST_DATA_INODE
  <2>1. x \in Nat /\ x >= Base
    BY UnlinkedWaits DEF StoreInv, SnapFresh, Numbers
  <2> QED BY <2>1, BaseNat DEF FIRST_DATA_INODE
<1>5. LinksHigh(links')
  <2>1. CASE SnapAdd
    <3>1. links' = links \/ links' = links \cup {Link(SNAPSHOT_PARENT_INODE, SnapName, snap.ino)}
      BY <2>1 DEF SnapAdd
    <3>2. snap.ino \in Unlinked(snap)
      BY <2>1 DEF SnapAdd, InSnap, Unlinked
    <3>3. snap.ino >= FIRST_DATA_INODE
      BY <1>4, <3>2
    <3> QED BY <3>1, <3>3 DEF ListInv, LinksHigh, Link
  <2>2. CASE SnapLink
    <3>1. links' = links \cup {Link(snap.ino, m.src.name, m.dst) : m \in ToSet(snap.mapping)}
      BY <2>2 DEF SnapLink
    <3>2. Unlinked(snap) = MapDirs(snap)
      BY <2>2 DEF SnapLink, InSnap, Unlinked
    <3>3. \A m \in ToSet(snap.mapping) : m.dst \in MapDirs(snap)
      BY DEF ToSet, MapDirs
    <3>4. \A m \in ToSet(snap.mapping) : m.dst >= FIRST_DATA_INODE
      BY <1>4, <3>2, <3>3
    <3> QED BY <3>1, <3>4 DEF ListInv, LinksHigh, Link
  <2>3. CASE ~SnapAdd /\ ~SnapLink
    <3>1. links' = links
      BY <2>3 DEF SnapBegin, SnapStep, SnapAttrsFails, SnapFails, SnapReserve, SnapScan,
                  SnapAttrs, SnapData, SnapDone
    <3> QED BY <3>1 DEF ListInv
  <2> QED BY <2>1, <2>2, <2>3
<1>6. ListOK(store', listing)
  BY <1>2, ListSame DEF ListInv
<1> QED BY <1>2, <1>3, <1>5, <1>6 DEF ListInv

LEMMA InitList == Init => ListInv
<1> SUFFICES ASSUME Init PROVE ListInv
  OBVIOUS
<1>1. /\ links = InitLinks /\ snap = NoSnap /\ snaps = 0 /\ listing = NoListing
  BY DEF Init
<1>2. LinksHigh(links)
  BY <1>1, BaseNat DEF LinksHigh, InitLinks, Link, FIRST_DATA_INODE, FileA, FileB, LinkC, DirD
<1>3. snap.pc \in Over
  BY <1>1 DEF NoSnap, Over
<1>4. ToSet(<<>>) = {} /\ IsInjective(<<>>) /\ <<>> \in Seq({})
  BY DEF ToSet, IsInjective
<1>5. /\ NoListing.dir = 0 /\ ~NoListing.done /\ NoListing.seen = <<>> /\ NoListing.kept = {}
      /\ NoListing \in [dir : {0} \cup LiveDirs, offset : Nat, seen : Seq({}), kept : {{}},
                        added : BOOLEAN, removed : BOOLEAN, done : BOOLEAN]
  BY <1>4 DEF NoListing
<1>6. ListingTyped(NoListing)
  BY <1>4, <1>5 DEF ListingTyped
<1>7. ListOK(store, listing)
  BY <1>1, <1>4, <1>5, <1>6 DEF ListOK
<1> QED BY <1>1, <1>2, <1>3, <1>7 DEF ListInv

LEMMA NextList ==
    ASSUME StoreInv, ProgsInv, ListInv, StoreInv', [Next]_vars
    PROVE  ListInv'
<1>1. CASE UNCHANGED vars
  BY <1>1 DEF ListInv, vars
<1>2. CASE Programs
  BY <1>2, AddChildList, HardLinkList, RemovalList, RenameList, ClearList, WriteList DEF Programs, Types
<1>3. ASSUME NEW dir \in LiveDirs, OpenDir(dir) PROVE ListInv'
  BY <1>3, OpenDirList
<1>4. ASSUME NEW n \in 1..MaxPage, readdir(n) PROVE ListInv'
  BY <1>4, readdirList
<1>5. ASSUME SnapBegin \/ SnapStep \/ SnapAttrsFails \/ SnapFails PROVE ListInv'
  BY <1>5, SnapList
<1> QED BY <1>1, <1>2, <1>3, <1>4, <1>5 DEF Next

\* A readdir in pages of any length, beside files, directories and symlinks
\* that are made, linked, renamed and removed, for every limit of a scan:
\* it shows nothing twice unless something was added, and all that was there
\* all the time unless something was removed.  In a directory that has more
\* entries than a scan returns, a removal counts as an addition.
THEOREM ListingStaysExact == Spec => []ListingExact
<1>1. StoreInv /\ ProgsInv /\ ListInv /\ (StoreInv /\ ProgsInv)' /\ [Next]_vars => ListInv'
  BY NextList
<1>2. ListInv => ListingExact
  BY DEF ListInv, ListOK, ListingExact
<1> QED BY <1>1, <1>2, InitList, StoreKept, PTL DEF Spec

=============================================================================
