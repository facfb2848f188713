------------------------- MODULE HashedBlocksProofs -------------------------
(***************************************************************************)
(* Proofs about HashedBlocks for every number of clients, addresses and    *)
(* hashes and every number of failures.                                    *)
(***************************************************************************)
EXTENDS HashedBlocks, FiniteSetTheorems, TLAPS

\* What an operation holds in its local variables at each of its steps.
HeldMatchesStep ==
    \A w \in Clients :
        /\ pc[w] \in {"idle", "inc", "clone_inc", "fetch"} => held[w] = NoRefs
        /\ pc[w] \in {"upload", "replace", "clone_write"} =>
               held[w] = RefsOfJob(job[w])

\* The inductive invariant: the counters cover all references, and the
\* references are where the step of each operation says.
IInv == TypeOK /\ HeldMatchesStep /\ RefCountCovers

\* The inductive invariant of the executions without failures and snapshots.
IInvReliable == TypeOK /\ HeldMatchesStep /\ RefCountExact

HeldIn(H, h) == {r \in Clients \X Addrs : H[r[1]][r[2]] = h}

-----------------------------------------------------------------------------

\* The type invariant holds in every behaviour, with snapshots and failures.
LEMMA TypeInductive == TypeOK /\ [Next]_vars => TypeOK'
<1> SUFFICES ASSUME TypeOK, [Next]_vars PROVE TypeOK'
  OBVIOUS
<1> USE ConstantsAssumption DEF TypeOK, Steps, store, NoJob, NoRefs
<1>0. ASSUME NEW f, NEW h \in Hashes
      PROVE  Cardinality(At(f, h)) \in Nat
  BY FS_Subset, FS_CardinalityType DEF At
<1>1. ASSUME NEW w \in Clients, Begin(w) PROVE TypeOK'
  <2>1. ASSUME NEW j \in Jobs, BeginWrite(w, j) PROVE TypeOK'
    BY <2>1 DEF BeginWrite, Jobs
  <2>2. ASSUME NEW a \in Addrs, BeginClear(w, a) PROVE TypeOK'
    <3>1. [NoJob EXCEPT ![a] = Hole] \in [Addrs -> Hashes \cup {Hole, Skip}]
      OBVIOUS
    <3> QED BY <2>2, <3>1 DEF BeginClear
  <2>3. ASSUME NEW s \in SUBSET Reachable, BeginRead(w, s) PROVE TypeOK'
    BY <2>3 DEF BeginRead
  <2> QED BY <1>1, <2>1, <2>2, <2>3 DEF Begin
<1>2. ASSUME NEW w \in Clients, Increment(w) PROVE TypeOK'
  <2>1. cnt' \in [Hashes -> Nat]
    BY <1>0, <1>2 DEF Increment, Incremented
  <2>2. held' \in [Clients -> [Addrs -> Hashes \cup {Hole}]]
    BY <1>2 DEF Increment, RefsOfJob
  <2> QED BY <2>1, <2>2, <1>2 DEF Increment
<1>3. ASSUME NEW w \in Clients, Upload(w) PROVE TypeOK'
  BY <1>3 DEF Upload
<1>4. ASSUME NEW w \in Clients, Replace(w) PROVE TypeOK'
  BY <1>4 DEF Replace, Written, Replaced
<1>5. ASSUME NEW w \in Clients, Decrement(w) PROVE TypeOK'
  <2>1. cnt' \in [Hashes -> Nat]
    BY <1>0, <1>5 DEF Decrement, Decremented
  <2>2. data' \in SUBSET Hashes
    BY <1>5 DEF Decrement
  <2> QED BY <2>1, <2>2, <1>5 DEF Decrement, Finish
<1>6. ASSUME NEW w \in Clients, FetchData(w) PROVE TypeOK'
  BY <1>6 DEF FetchData, Finish
<1>7. ASSUME NEW w \in Clients, BeginClone(w) PROVE TypeOK'
  BY <1>7 DEF BeginClone
<1>8. ASSUME NEW w \in Clients, CloneIncrement(w) PROVE TypeOK'
  <2>1. cnt' \in [Hashes -> Nat]
    BY <1>0, <1>8 DEF CloneIncrement, Incremented
  <2>2. held' \in [Clients -> [Addrs -> Hashes \cup {Hole}]]
    BY <1>8 DEF CloneIncrement, RefsOfJob
  <2> QED BY <2>1, <2>2, <1>8 DEF CloneIncrement
<1>9. ASSUME NEW w \in Clients, CloneWrite(w) PROVE TypeOK'
  BY <1>9 DEF CloneWrite, Finish, Written
<1>10. ASSUME NEW w \in Clients, Abort(w) PROVE TypeOK'
  BY <1>10 DEF Abort, Finish
<1>11. CASE UNCHANGED vars
  BY <1>11 DEF vars
<1> QED
  BY <1>1, <1>2, <1>3, <1>4, <1>5, <1>6, <1>7, <1>8, <1>9, <1>10, <1>11
  DEF Next, NextReliable, Step, CloneStep

\* Every behaviour of the block store stays within its types; in particular
\* no counter becomes negative.
THEOREM TypeCorrect == Spec => []TypeOK
<1>1. Init => TypeOK
  <2> SUFFICES ASSUME Init PROVE TypeOK
    OBVIOUS
  <2>1. 0 \in 0..MaxAborts /\ 0 \in 0..MaxRepeats
    BY ConstantsAssumption
  <2> QED BY <2>1 DEF Init, TypeOK, Steps, NoJob, NoRefs
<1> QED BY <1>1, TypeInductive, PTL DEF Spec

-----------------------------------------------------------------------------

\* The sets of addresses that name a hash are finite.
LEMMA AtFinite ==
    ASSUME NEW f, NEW h
    PROVE  IsFiniteSet(At(f, h)) /\ Cardinality(At(f, h)) \in Nat
  BY ConstantsAssumption, FS_Subset, FS_CardinalityType DEF At

\* The sets of references held by operations are finite.
LEMMA HeldInFinite ==
    ASSUME NEW H, NEW h
    PROVE  IsFiniteSet(HeldIn(H, h)) /\ Cardinality(HeldIn(H, h)) \in Nat
<1>1. IsFiniteSet(Clients \X Addrs)
  BY ConstantsAssumption, FS_Product
<1>2. HeldIn(H, h) \in SUBSET (Clients \X Addrs)
  BY DEF HeldIn
<1> QED BY <1>1, <1>2, FS_Subset, FS_CardinalityType

\* Changing what one client holds changes the number of held references by
\* the difference of that client's own references.
LEMMA HeldUpdate ==
    ASSUME NEW H \in [Clients -> [Addrs -> Hashes \cup {Hole}]],
           NEW w \in Clients,
           NEW f \in [Addrs -> Hashes \cup {Hole}],
           NEW h \in Hashes
    PROVE  Cardinality(HeldIn([H EXCEPT ![w] = f], h))
             = Cardinality(HeldIn(H, h)) - Cardinality(At(H[w], h))
               + Cardinality(At(f, h))
<1> DEFINE G == [H EXCEPT ![w] = f]
           Others == {r \in Clients \X Addrs : r[1] # w /\ H[r[1]][r[2]] = h}
<1>1. ASSUME NEW g
      PROVE  /\ IsFiniteSet({w} \X At(g, h))
             /\ Cardinality({w} \X At(g, h)) = Cardinality(At(g, h))
  <2>1. IsFiniteSet({w}) /\ Cardinality({w}) = 1
    BY FS_Singleton
  <2>2. IsFiniteSet(At(g, h)) /\ Cardinality(At(g, h)) \in Nat
    BY AtFinite
  <2>3. /\ IsFiniteSet({w} \X At(g, h))
        /\ Cardinality({w} \X At(g, h)) = Cardinality({w}) * Cardinality(At(g, h))
    BY <2>1, <2>2, FS_Product
  <2> QED BY <2>1, <2>2, <2>3
<1>2. IsFiniteSet(Others) /\ Cardinality(Others) \in Nat
  <2>1. Others \in SUBSET HeldIn(H, h)
    BY DEF HeldIn
  <2> QED BY <2>1, HeldInFinite, FS_Subset, FS_CardinalityType
<1>3. ASSUME NEW g
      PROVE  Cardinality(Others \cup ({w} \X At(g, h)))
               = Cardinality(Others) + Cardinality(At(g, h))
  <2>1. Others \cap ({w} \X At(g, h)) = {}
    OBVIOUS
  <2>2. /\ IsFiniteSet({w} \X At(g, h))
        /\ Cardinality({w} \X At(g, h)) = Cardinality(At(g, h))
    BY <1>1
  <2>3. Cardinality(Others \cup ({w} \X At(g, h)))
          = Cardinality(Others) + Cardinality({w} \X At(g, h)) - Cardinality({})
    BY <1>2, <2>1, <2>2, FS_Union
  <2> QED BY <1>2, <2>2, <2>3, FS_EmptySet, AtFinite
<1>4. HeldIn(H, h) = Others \cup ({w} \X At(H[w], h))
  BY DEF HeldIn, At
<1>5. HeldIn(G, h) = Others \cup ({w} \X At(f, h))
  BY DEF HeldIn, At
<1>6. Cardinality(HeldIn(H, h)) = Cardinality(Others) + Cardinality(At(H[w], h))
  BY <1>3, <1>4
<1>7. Cardinality(HeldIn(G, h)) = Cardinality(Others) + Cardinality(At(f, h))
  BY <1>3, <1>5
<1>8. Cardinality(At(H[w], h)) \in Nat /\ Cardinality(At(f, h)) \in Nat
  BY AtFinite
<1> QED BY <1>2, <1>6, <1>7, <1>8

\* The number of references after a step in which the client w changes what
\* it holds to f.
LEMMA ReferencesUpdate ==
    ASSUME TypeOK,
           NEW w \in Clients,
           NEW f \in [Addrs -> Hashes \cup {Hole}],
           NEW h \in Hashes,
           held' = [held EXCEPT ![w] = f]
    PROVE  References(h)' = Cardinality(At(map', h)) + Cardinality(Held(h))
                            - Cardinality(At(held[w], h)) + Cardinality(At(f, h))
<1>1. Held(h) = HeldIn(held, h) /\ Held(h)' = HeldIn([held EXCEPT ![w] = f], h)
  BY DEF Held, HeldIn
<1>2. Cardinality(Held(h)') = Cardinality(Held(h)) - Cardinality(At(held[w], h))
                              + Cardinality(At(f, h))
  <2>1. held \in [Clients -> [Addrs -> Hashes \cup {Hole}]]
    BY DEF TypeOK
  <2>2. Cardinality(HeldIn([held EXCEPT ![w] = f], h))
          = Cardinality(HeldIn(held, h)) - Cardinality(At(held[w], h))
            + Cardinality(At(f, h))
    BY <2>1, HeldUpdate
  <2> QED BY <1>1, <2>2
<1>3. /\ Cardinality(Held(h)) \in Nat
      /\ Cardinality(At(map', h)) \in Nat
      /\ Cardinality(At(held[w], h)) \in Nat
      /\ Cardinality(At(f, h)) \in Nat
  BY <1>1, AtFinite, HeldInFinite
<1>4. References(h)' = Cardinality(At(map', h)) + Cardinality(Held(h)')
  BY DEF References, At
<1> QED BY <1>2, <1>3, <1>4

\* Writing a job to the mapping takes in the references of the job and gives
\* out the replaced ones: their number stays the same.
LEMMA WrittenBalance ==
    ASSUME TypeOK,
           NEW j \in [Addrs -> Hashes \cup {Hole, Skip}],
           NEW h \in Hashes
    PROVE  Cardinality(At(Written(j), h)) + Cardinality(At(Replaced(j), h))
             = Cardinality(At(map, h)) + Cardinality(At(j, h))
<1> DEFINE T == {a \in Addrs : j[a] # Skip}
           M == At(map, h)
           J == At(j, h)
<1>1. At(Written(j), h) = (M \ T) \cup J /\ (M \ T) \cap J = {}
  BY ConstantsAssumption DEF TypeOK, Written, At
<1>2. At(Replaced(j), h) = M \cap T
  BY ConstantsAssumption DEF TypeOK, Replaced, At
<1>3. IsFiniteSet(M) /\ IsFiniteSet(J) /\ IsFiniteSet(M \cap T)
      /\ Cardinality(M) \in Nat /\ Cardinality(J) \in Nat
      /\ Cardinality(M \cap T) \in Nat
  BY <1>2, AtFinite
<1> HIDE DEF T, M, J
<1>4. IsFiniteSet(M \ T) /\ Cardinality(M \ T) = Cardinality(M) - Cardinality(M \cap T)
  BY <1>3, FS_Difference
<1>5. Cardinality((M \ T) \cup J)
        = Cardinality(M \ T) + Cardinality(J) - Cardinality({})
  <2>1. Cardinality((M \ T) \cup J)
          = Cardinality(M \ T) + Cardinality(J) - Cardinality((M \ T) \cap J)
    BY <1>3, <1>4, FS_Union
  <2> QED BY <1>1, <2>1
<1>6. Cardinality(At(Written(j), h)) = Cardinality(M) - Cardinality(M \cap T) + Cardinality(J)
  BY <1>1, <1>3, <1>4, <1>5, FS_EmptySet
<1> QED BY <1>2, <1>3, <1>6 DEF M, J

\* The references of a job are the hashes it names.
LEMMA RefsOfJobAt ==
    ASSUME NEW j \in [Addrs -> Hashes \cup {Hole, Skip}], NEW h \in Hashes
    PROVE  /\ RefsOfJob(j) \in [Addrs -> Hashes \cup {Hole}]
           /\ At(RefsOfJob(j), h) = At(j, h)
  BY ConstantsAssumption DEF RefsOfJob, At

\* No references, no addresses.
LEMMA NoRefsAt ==
    ASSUME NEW h \in Hashes
    PROVE  /\ NoRefs \in [Addrs -> Hashes \cup {Hole}]
           /\ Cardinality(At(NoRefs, h)) = 0
<1>1. At(NoRefs, h) = {}
  BY ConstantsAssumption DEF NoRefs, At
<1> QED BY <1>1, FS_EmptySet DEF NoRefs

\* Each operation holds what its step says.
LEMMA HeldMatchesStepInductive ==
    TypeOK /\ HeldMatchesStep /\ [Next]_vars => HeldMatchesStep'
<1> SUFFICES ASSUME TypeOK, HeldMatchesStep, [Next]_vars
             PROVE  HeldMatchesStep'
  OBVIOUS
<1> USE DEF TypeOK, HeldMatchesStep, RefsOfJob, store
<1>1. ASSUME NEW w \in Clients, Begin(w) PROVE HeldMatchesStep'
  <2>1. ASSUME NEW j \in Jobs, BeginWrite(w, j) PROVE HeldMatchesStep'
    BY <2>1 DEF BeginWrite
  <2>2. ASSUME NEW a \in Addrs, BeginClear(w, a) PROVE HeldMatchesStep'
    <3>1. RefsOfJob([NoJob EXCEPT ![a] = Hole]) = NoRefs
      BY ConstantsAssumption DEF NoJob, NoRefs
    <3> QED BY <2>2, <3>1 DEF BeginClear
  <2>3. ASSUME NEW s \in SUBSET Reachable, BeginRead(w, s) PROVE HeldMatchesStep'
    BY <2>3 DEF BeginRead
  <2> QED BY <1>1, <2>1, <2>2, <2>3 DEF Begin
<1>2. ASSUME NEW w \in Clients, Increment(w) PROVE HeldMatchesStep'
  BY <1>2 DEF Increment
<1>3. ASSUME NEW w \in Clients, Upload(w) PROVE HeldMatchesStep'
  BY <1>3 DEF Upload
<1>4. ASSUME NEW w \in Clients, Replace(w) PROVE HeldMatchesStep'
  BY <1>4 DEF Replace
<1>5. ASSUME NEW w \in Clients, Decrement(w) PROVE HeldMatchesStep'
  BY <1>5 DEF Decrement, Finish
<1>6. ASSUME NEW w \in Clients, FetchData(w) PROVE HeldMatchesStep'
  BY <1>6 DEF FetchData, Finish
<1>7. ASSUME NEW w \in Clients, BeginClone(w) PROVE HeldMatchesStep'
  BY <1>7 DEF BeginClone
<1>8. ASSUME NEW w \in Clients, CloneIncrement(w) PROVE HeldMatchesStep'
  BY <1>8 DEF CloneIncrement
<1>9. ASSUME NEW w \in Clients, CloneWrite(w) PROVE HeldMatchesStep'
  BY <1>9 DEF CloneWrite, Finish
<1>10. ASSUME NEW w \in Clients, Abort(w) PROVE HeldMatchesStep'
  BY <1>10 DEF Abort, Finish
<1>11. CASE UNCHANGED vars
  BY <1>11 DEF vars
<1> QED
  BY <1>1, <1>2, <1>3, <1>4, <1>5, <1>6, <1>7, <1>8, <1>9, <1>10, <1>11
  DEF Next, NextReliable, Step, CloneStep

\* A client's own references are among the held ones.
LEMMA OwnReferences ==
    ASSUME TypeOK, NEW w \in Clients, NEW h \in Hashes
    PROVE  /\ Cardinality(At(map, h)) \in Nat
           /\ Cardinality(Held(h)) \in Nat
           /\ Cardinality(At(held[w], h)) \in Nat
           /\ Cardinality(Held(h)) >= Cardinality(At(held[w], h))
           /\ References(h) = Cardinality(At(map, h)) + Cardinality(Held(h))
<1>1. Held(h) = HeldIn(held, h)
  BY DEF Held, HeldIn
<1>2. held \in [Clients -> [Addrs -> Hashes \cup {Hole}]]
  BY DEF TypeOK
<1>3. Cardinality(HeldIn([held EXCEPT ![w] = NoRefs], h))
        = Cardinality(HeldIn(held, h)) - Cardinality(At(held[w], h))
          + Cardinality(At(NoRefs, h))
  BY <1>2, HeldUpdate, NoRefsAt
<1>4. /\ Cardinality(HeldIn([held EXCEPT ![w] = NoRefs], h)) \in Nat
      /\ Cardinality(HeldIn(held, h)) \in Nat
      /\ Cardinality(At(held[w], h)) \in Nat
      /\ Cardinality(At(map, h)) \in Nat
  BY AtFinite, HeldInFinite
<1>5. Cardinality(At(NoRefs, h)) = 0
  BY NoRefsAt
<1> QED BY <1>1, <1>3, <1>4, <1>5 DEF References

\* The counter moves with the number of references in every step of the
\* writers, cleaners and readers.
LEMMA ReliableBalance ==
    ASSUME TypeOK, HeldMatchesStep, RefCountCovers, NextReliable, NEW h \in Hashes
    PROVE  cnt'[h] - References(h)' = cnt[h] - References(h)
<1> PICK w \in Clients : Begin(w) \/ Step(w)
  BY DEF NextReliable
<1>0. /\ cnt[h] \in Nat
      /\ job[w] \in [Addrs -> Hashes \cup {Hole, Skip}]
      /\ held[w] \in [Addrs -> Hashes \cup {Hole}]
      /\ held \in [Clients -> [Addrs -> Hashes \cup {Hole}]]
  BY DEF TypeOK
<1>a. /\ Cardinality(At(map, h)) \in Nat
      /\ Cardinality(Held(h)) \in Nat
      /\ Cardinality(At(held[w], h)) \in Nat
      /\ Cardinality(Held(h)) >= Cardinality(At(held[w], h))
      /\ References(h) = Cardinality(At(map, h)) + Cardinality(Held(h))
  BY OwnReferences
<1>b. Cardinality(At(job[w], h)) \in Nat
  BY AtFinite
<1>c. ASSUME UNCHANGED <<map, cnt, held>>
      PROVE  cnt'[h] - References(h)' = cnt[h] - References(h)
  BY <1>c DEF References, Held, At
<1>1. CASE Begin(w)
  <2>1. UNCHANGED <<map, cnt, held>>
    BY <1>1 DEF Begin, BeginWrite, BeginClear, BeginRead, store
  <2> QED BY <1>c, <2>1
<1>2. CASE Increment(w)
  <2>1. held[w] = NoRefs /\ held' = [held EXCEPT ![w] = RefsOfJob(job[w])] /\ map' = map
    BY <1>2 DEF Increment, HeldMatchesStep
  <2>2. cnt'[h] = cnt[h] + Cardinality(At(job[w], h))
    BY <1>2 DEF Increment, Incremented
  <2>3. /\ RefsOfJob(job[w]) \in [Addrs -> Hashes \cup {Hole}]
        /\ At(RefsOfJob(job[w]), h) = At(job[w], h)
    BY <1>0, RefsOfJobAt
  <2>4. References(h)' = Cardinality(At(map, h)) + Cardinality(Held(h))
                         - Cardinality(At(held[w], h)) + Cardinality(At(job[w], h))
    BY <2>1, <2>3, ReferencesUpdate
  <2>5. Cardinality(At(held[w], h)) = 0
    BY <2>1, NoRefsAt
  <2> QED BY <1>0, <1>a, <1>b, <2>2, <2>4, <2>5
<1>3. CASE Upload(w)
  BY <1>c, <1>3 DEF Upload
<1>4. CASE Replace(w)
  <2>1. /\ held[w] = RefsOfJob(job[w])
        /\ held' = [held EXCEPT ![w] = Replaced(job[w])]
        /\ map' = Written(job[w])
        /\ cnt' = cnt
    BY <1>4 DEF Replace, HeldMatchesStep
  <2>2. Replaced(job[w]) \in [Addrs -> Hashes \cup {Hole}]
    BY DEF Replaced, TypeOK
  <2>3. References(h)' = Cardinality(At(Written(job[w]), h)) + Cardinality(Held(h))
                         - Cardinality(At(held[w], h))
                         + Cardinality(At(Replaced(job[w]), h))
    BY <2>1, <2>2, ReferencesUpdate
  <2>4. Cardinality(At(held[w], h)) = Cardinality(At(job[w], h))
    BY <1>0, <2>1, RefsOfJobAt
  <2>5. Cardinality(At(Written(job[w]), h)) + Cardinality(At(Replaced(job[w]), h))
          = Cardinality(At(map, h)) + Cardinality(At(job[w], h))
    BY <1>0, WrittenBalance
  <2>6. /\ Cardinality(At(Written(job[w]), h)) \in Nat
        /\ Cardinality(At(Replaced(job[w]), h)) \in Nat
    BY AtFinite
  <2>7. cnt'[h] = cnt[h]
    BY <2>1
  <2>8. References(h)' = References(h)
    BY <1>a, <1>b, <2>3, <2>4, <2>5, <2>6
  <2> QED BY <1>0, <1>a, <2>7, <2>8
<1>5. CASE Decrement(w)
  <2>1. held' = [held EXCEPT ![w] = NoRefs] /\ map' = map /\ cnt' = Decremented(held[w])
    BY <1>5 DEF Decrement, Finish
  <2>2. References(h)' = Cardinality(At(map, h)) + Cardinality(Held(h))
                         - Cardinality(At(held[w], h)) + Cardinality(At(NoRefs, h))
    BY <2>1, NoRefsAt, ReferencesUpdate
  <2>3. cnt[h] >= Cardinality(At(held[w], h))
    BY <1>0, <1>a DEF RefCountCovers
  <2>4. cnt'[h] = cnt[h] - Cardinality(At(held[w], h))
    BY <1>0, <1>a, <2>1, <2>3 DEF Decremented
  <2>5. Cardinality(At(NoRefs, h)) = 0
    BY NoRefsAt
  <2> QED BY <1>0, <1>a, <2>2, <2>4, <2>5
<1>6. CASE FetchData(w)
  <2>1. held[w] = NoRefs /\ held' = [held EXCEPT ![w] = NoRefs] /\ UNCHANGED <<map, cnt>>
    BY <1>6 DEF FetchData, Finish, HeldMatchesStep, store
  <2>2. held' = held
    BY <1>0, <2>1
  <2> QED BY <1>c, <2>1, <2>2
<1> QED BY <1>1, <1>2, <1>3, <1>4, <1>5, <1>6 DEF Step

\* Snapshots and failures lose owners of references, never a reference: the
\* distance between counter and references never shrinks.
LEMMA FailureBalance ==
    ASSUME TypeOK, HeldMatchesStep, NEW w \in Clients, NEW h \in Hashes,
           BeginClone(w) \/ CloneStep(w) \/ Abort(w)
    PROVE  cnt'[h] - References(h)' >= cnt[h] - References(h)
<1>0. /\ cnt[h] \in Nat
      /\ job[w] \in [Addrs -> Hashes \cup {Hole, Skip}]
      /\ held \in [Clients -> [Addrs -> Hashes \cup {Hole}]]
  BY DEF TypeOK
<1>a. /\ Cardinality(At(map, h)) \in Nat
      /\ Cardinality(Held(h)) \in Nat
      /\ Cardinality(At(held[w], h)) \in Nat
      /\ References(h) = Cardinality(At(map, h)) + Cardinality(Held(h))
  BY OwnReferences
<1>b. /\ Cardinality(At(job[w], h)) \in Nat
      /\ Cardinality(At(NoRefs, h)) = 0
  BY AtFinite, NoRefsAt
<1>1. CASE BeginClone(w)
  <2>1. UNCHANGED <<map, cnt, held>>
    BY <1>1 DEF BeginClone
  <2>2. References(h)' = References(h)
    BY <2>1 DEF References, Held, At
  <2> QED BY <1>0, <1>a, <2>1, <2>2
<1>2. CASE CloneIncrement(w)
  <2>1. held[w] = NoRefs /\ held' = [held EXCEPT ![w] = RefsOfJob(job[w])] /\ map' = map
    BY <1>2 DEF CloneIncrement, HeldMatchesStep
  <2>2. cnt'[h] = cnt[h] + Cardinality(At(job[w], h))
    BY <1>2 DEF CloneIncrement, Incremented
  <2>3. /\ RefsOfJob(job[w]) \in [Addrs -> Hashes \cup {Hole}]
        /\ At(RefsOfJob(job[w]), h) = At(job[w], h)
    BY <1>0, RefsOfJobAt
  <2>4. References(h)' = Cardinality(At(map, h)) + Cardinality(Held(h))
                         - Cardinality(At(held[w], h)) + Cardinality(At(job[w], h))
    BY <2>1, <2>3, ReferencesUpdate
  <2>5. Cardinality(At(held[w], h)) = 0
    BY <2>1, NoRefsAt
  <2> QED BY <1>0, <1>a, <1>b, <2>2, <2>4, <2>5
<1>3. CASE CloneWrite(w)
  <2>1. /\ held[w] = RefsOfJob(job[w])
        /\ held' = [held EXCEPT ![w] = NoRefs]
        /\ map' = Written(job[w])
        /\ cnt' = cnt
    BY <1>3 DEF CloneWrite, Finish, HeldMatchesStep
  <2>2. References(h)' = Cardinality(At(Written(job[w]), h)) + Cardinality(Held(h))
                         - Cardinality(At(held[w], h)) + Cardinality(At(NoRefs, h))
    BY <2>1, NoRefsAt, ReferencesUpdate
  <2>3. Cardinality(At(held[w], h)) = Cardinality(At(job[w], h))
    BY <1>0, <2>1, RefsOfJobAt
  <2>4. Cardinality(At(Written(job[w]), h)) + Cardinality(At(Replaced(job[w]), h))
          = Cardinality(At(map, h)) + Cardinality(At(job[w], h))
    BY <1>0, WrittenBalance
  <2>5. /\ Cardinality(At(Written(job[w]), h)) \in Nat
        /\ Cardinality(At(Replaced(job[w]), h)) \in Nat
    BY AtFinite
  <2> QED BY <1>0, <1>a, <1>b, <2>1, <2>2, <2>3, <2>4, <2>5
<1>4. CASE Abort(w)
  <2>1. held' = [held EXCEPT ![w] = NoRefs] /\ map' = map /\ cnt' = cnt
    BY <1>4 DEF Abort, Finish, store
  <2>2. References(h)' = Cardinality(At(map, h)) + Cardinality(Held(h))
                         - Cardinality(At(held[w], h)) + Cardinality(At(NoRefs, h))
    BY <2>1, NoRefsAt, ReferencesUpdate
  <2> QED BY <1>0, <1>a, <1>b, <2>1, <2>2
<1> QED BY <1>1, <1>2, <1>3, <1>4 DEF CloneStep

-----------------------------------------------------------------------------

\* References are counted by a natural number.
LEMMA ReferencesType ==
    ASSUME TypeOK, NEW h \in Hashes
    PROVE  References(h) \in Nat
<1>1. Held(h) = HeldIn(held, h)
  BY DEF Held, HeldIn
<1>2. Cardinality(At(map, h)) \in Nat /\ Cardinality(HeldIn(held, h)) \in Nat
  BY AtFinite, HeldInFinite
<1> QED BY <1>1, <1>2 DEF References

\* The same after a step.
LEMMA ReferencesTypePrimed ==
    ASSUME NEW h \in Hashes
    PROVE  /\ Cardinality(At(map, h))' \in Nat
           /\ Cardinality(Held(h))' \in Nat
           /\ References(h)' = Cardinality(At(map, h))' + Cardinality(Held(h))'
           /\ References(h)' \in Nat
<1>1. Held(h)' = HeldIn(held', h) /\ At(map, h)' = At(map', h)
  BY DEF Held, HeldIn, At
<1>2. Cardinality(At(map', h)) \in Nat /\ Cardinality(HeldIn(held', h)) \in Nat
  BY AtFinite, HeldInFinite
<1> QED BY <1>1, <1>2 DEF References

\* Initially nothing is mapped, held or counted.
LEMMA InitIInv == Init => IInv /\ IInvReliable
<1> SUFFICES ASSUME Init PROVE IInv /\ IInvReliable
  OBVIOUS
<1>1. TypeOK
  <2>1. 0 \in 0..MaxAborts /\ 0 \in 0..MaxRepeats
    BY ConstantsAssumption
  <2> QED BY <2>1 DEF Init, TypeOK, Steps, NoJob, NoRefs
<1>2. HeldMatchesStep
  BY DEF Init, HeldMatchesStep
<1>3. ASSUME NEW h \in Hashes PROVE cnt[h] = 0 /\ References(h) = 0
  <2>1. Held(h) = {}
    BY ConstantsAssumption DEF Init, Held, NoRefs
  <2>2. Cardinality(At(map, h)) = 0
    BY NoRefsAt DEF Init
  <2>3. cnt[h] = 0
    BY DEF Init
  <2> QED BY <2>1, <2>2, <2>3, FS_EmptySet DEF References
<1> QED BY <1>1, <1>2, <1>3 DEF IInv, IInvReliable, RefCountCovers, RefCountExact

\* The inductive step with snapshots and failures.
LEMMA IInvInductive == IInv /\ [Next]_vars => IInv'
<1> SUFFICES ASSUME IInv, [Next]_vars PROVE IInv'
  OBVIOUS
<1>1. TypeOK' /\ HeldMatchesStep'
  BY TypeInductive, HeldMatchesStepInductive DEF IInv
<1>2. ASSUME NEW h \in Hashes PROVE cnt'[h] >= References(h)'
  <2>1. cnt[h] \in Nat /\ References(h) \in Nat /\ cnt[h] >= References(h)
    BY ReferencesType DEF IInv, TypeOK, RefCountCovers
  <2>2. cnt'[h] \in Nat
    BY <1>1 DEF TypeOK
  <2>3. References(h)' \in Nat
    BY ReferencesTypePrimed
  <2>4. CASE NextReliable
    <3>1. cnt'[h] - References(h)' = cnt[h] - References(h)
      BY <2>4, ReliableBalance DEF IInv
    <3> QED BY <2>1, <2>2, <2>3, <3>1
  <2>5. ASSUME NEW w \in Clients, BeginClone(w) \/ CloneStep(w) \/ Abort(w)
        PROVE  cnt'[h] >= References(h)'
    <3>1. cnt'[h] - References(h)' >= cnt[h] - References(h)
      BY <2>5, FailureBalance DEF IInv
    <3> QED BY <2>1, <2>2, <2>3, <3>1
  <2>6. CASE UNCHANGED vars
    BY <2>1, <2>6 DEF vars, References, Held, At
  <2> QED BY <2>4, <2>5, <2>6 DEF Next
<1> QED BY <1>1, <1>2 DEF IInv, RefCountCovers

\* With any number of clients, snapshots, crashes and failed operations, no
\* counter is ever smaller than the number of references to its block.
THEOREM RefCountSafe == Spec => []RefCountCovers
<1>1. IInv => RefCountCovers
  BY DEF IInv
<1> QED BY <1>1, InitIInv, IInvInductive, PTL DEF Spec

\* Only an unreferenced block is ever deleted, whatever fails.
THEOREM ReleaseSafe == Spec => ReleaseOnlyUnreferenced
<1>1. ASSUME IInv, IInv', [Next]_vars
      PROVE  [\A h \in Hashes : h \in data /\ h \notin data' => ~Referenced(h)']_vars
  <2> SUFFICES ASSUME NEW h \in Hashes, Next, h \in data, h \notin data'
               PROVE  ~Referenced(h)'
    BY <1>1
  <2>1. PICK w \in Clients : Decrement(w)
    BY <1>1 DEF Next, NextReliable, Begin, Step, CloneStep, BeginWrite, BeginClear,
           BeginRead, Increment, Upload, Replace, Decrement, FetchData, BeginClone,
           CloneIncrement, CloneWrite, Abort, store
  <2>2. cnt'[h] = 0
    BY <2>1 DEF Decrement, Released
  <2>3. cnt'[h] >= References(h)'
    BY <1>1 DEF IInv, RefCountCovers
  <2>4. /\ Cardinality(At(map, h))' \in Nat
        /\ Cardinality(Held(h))' \in Nat
        /\ References(h)' = Cardinality(At(map, h))' + Cardinality(Held(h))'
    BY ReferencesTypePrimed
  <2>5. Cardinality(At(map, h))' = 0 /\ Cardinality(Held(h))' = 0
    BY <2>2, <2>3, <2>4
  <2>6. IsFiniteSet(At(map', h)) /\ IsFiniteSet(HeldIn(held', h))
    BY AtFinite, HeldInFinite
  <2>7. At(map', h) = {} /\ HeldIn(held', h) = {}
    BY <2>5, <2>6, FS_EmptySet DEF At, Held, HeldIn
  <2> QED BY <2>7 DEF Referenced, At, Held, HeldIn
<1>2. IInv /\ IInv' /\ [Next]_vars
        => [\A h \in Hashes : h \in data /\ h \notin data' => ~Referenced(h)']_vars
  BY <1>1
<1> QED BY <1>2, InitIInv, IInvInductive, PTL DEF Spec, ReleaseOnlyUnreferenced

\* The inductive step without failures and snapshots.
LEMMA IInvReliableInductive == IInvReliable /\ [NextReliable]_vars => IInvReliable'
<1> SUFFICES ASSUME IInvReliable, [NextReliable]_vars PROVE IInvReliable'
  OBVIOUS
<1>1. [Next]_vars
  BY DEF Next
<1>2. TypeOK' /\ HeldMatchesStep'
  BY <1>1, TypeInductive, HeldMatchesStepInductive DEF IInvReliable
<1>3. ASSUME NEW h \in Hashes PROVE cnt'[h] = References(h)'
  <2>1. cnt[h] \in Nat /\ References(h) \in Nat /\ cnt[h] = References(h)
    BY ReferencesType DEF IInvReliable, TypeOK, RefCountExact
  <2>2. cnt'[h] \in Nat
    BY <1>2 DEF TypeOK
  <2>3. References(h)' \in Nat
    BY ReferencesTypePrimed
  <2>4. RefCountCovers
    BY ReferencesType DEF IInvReliable, TypeOK, RefCountExact, RefCountCovers
  <2>5. CASE NextReliable
    <3>1. cnt'[h] - References(h)' = cnt[h] - References(h)
      BY <2>4, <2>5, ReliableBalance DEF IInvReliable
    <3> QED BY <2>1, <2>2, <2>3, <3>1
  <2>6. CASE UNCHANGED vars
    BY <2>1, <2>6 DEF vars, References, Held, At
  <2> QED BY <2>5, <2>6
<1> QED BY <1>2, <1>3 DEF IInvReliable, RefCountExact

\* Without failures and snapshots the counters are exact in every state.
THEOREM RefCountExactReliable == SpecReliable => []RefCountExact
<1>1. IInvReliable => RefCountExact
  BY DEF IInvReliable
<1> QED BY <1>1, InitIInv, IInvReliableInductive, PTL DEF SpecReliable

-----------------------------------------------------------------------------

\* The hashes that a writer will upload are among those it holds.
FreshHeld ==
    \A w \in Clients :
        /\ pc[w] # "upload" => fresh[w] = {}
        /\ \A h \in fresh[w] : At(job[w], h) # {}

\* A stored block is counted, and a counted one is stored or about to be.
StoredCounted == \A h \in data : cnt[h] > 0
CountedStored ==
    \A h \in Hashes : cnt[h] > 0 =>
        h \in data \/ \E w \in Clients : pc[w] = "upload" /\ h \in fresh[w]

\* The inductive invariant behind the properties of the stored data.
IInvData == IInvReliable /\ FreshHeld /\ StoredCounted /\ CountedStored

\* With exact counters, a hash is counted exactly when it is referenced.
LEMMA CountedReferenced ==
    ASSUME TypeOK, RefCountExact, NEW h \in Hashes
    PROVE  cnt[h] > 0 <=> Referenced(h)
<1>1. Held(h) = HeldIn(held, h)
  BY DEF Held, HeldIn
<1>2. /\ IsFiniteSet(At(map, h)) /\ Cardinality(At(map, h)) \in Nat
      /\ IsFiniteSet(Held(h)) /\ Cardinality(Held(h)) \in Nat
  BY <1>1, AtFinite, HeldInFinite
<1>3. /\ Cardinality(At(map, h)) = 0 <=> At(map, h) = {}
      /\ Cardinality(Held(h)) = 0 <=> Held(h) = {}
  BY <1>2, FS_EmptySet
<1>4. cnt[h] = Cardinality(At(map, h)) + Cardinality(Held(h))
  BY DEF RefCountExact, References
<1> QED BY <1>2, <1>3, <1>4 DEF Referenced

\* A hash that a job names and holds is counted.
LEMMA OwnCounted ==
    ASSUME IInvReliable, NEW w \in Clients, pc[w] = "upload",
           NEW h \in Hashes, At(job[w], h) # {}
    PROVE  cnt[h] > 0
<1>1. held[w] = RefsOfJob(job[w])
  BY DEF IInvReliable, HeldMatchesStep
<1>2. PICK a \in Addrs : job[w][a] = h
  BY DEF At
<1>3. held[w][a] = h
  BY <1>1, <1>2 DEF RefsOfJob
<1>4. <<w, a>> \in Held(h)
  BY <1>3 DEF Held
<1> QED BY <1>4, CountedReferenced DEF Referenced, IInvReliable

\* Uploads in progress, stored data and counters keep together.
LEMMA DataInductive == IInvData /\ [NextReliable]_vars => IInvData'
<1> SUFFICES ASSUME IInvData, [NextReliable]_vars PROVE IInvData'
  OBVIOUS
<1>0. IInvReliable'
  BY IInvReliableInductive DEF IInvData
<1>t. TypeOK /\ TypeOK' /\ FreshHeld /\ StoredCounted /\ CountedStored
  BY <1>0 DEF IInvData, IInvReliable
<1>c. ASSUME NEW f, NEW h \in Hashes PROVE Cardinality(At(f, h)) \in Nat
  BY AtFinite
<1>e. ASSUME NEW f, NEW h \in Hashes, At(f, h) = {} PROVE Cardinality(At(f, h)) = 0
  BY <1>e, FS_EmptySet
<1> USE <1>t
<1>1. ASSUME NEW w \in Clients, Increment(w)
      PROVE  FreshHeld' /\ StoredCounted' /\ CountedStored'
  <2>1. \A h \in Hashes : cnt'[h] = cnt[h] + Cardinality(At(job[w], h))
    BY <1>1 DEF Increment, Incremented
  <2>2. \A h \in Hashes : cnt'[h] >= cnt[h]
    BY <1>c, <2>1 DEF TypeOK
  <2>3. StoredCounted'
    BY <1>1, <2>2 DEF Increment, StoredCounted, TypeOK
  <2>4. FreshHeld'
    BY <1>1 DEF Increment, FreshHeld, TypeOK, At
  <2>5. ASSUME NEW h \in Hashes, cnt'[h] > 0
        PROVE  h \in data' \/ \E v \in Clients : pc'[v] = "upload" /\ h \in fresh'[v]
    <3>1. CASE cnt[h] > 0
      BY <1>1, <3>1 DEF Increment, CountedStored, TypeOK
    <3>2. CASE ~(cnt[h] > 0)
      <4>1. cnt[h] = 0
        BY <3>2 DEF TypeOK
      <4>2. At(job[w], h) # {}
        BY <1>e, <2>1, <2>5, <4>1
      <4>3. h \in fresh'[w] /\ pc'[w] = "upload"
        BY <1>1, <4>1, <4>2 DEF Increment, TypeOK
      <4> QED BY <4>3
    <3> QED BY <3>1, <3>2
  <2>6. CountedStored'
    BY <2>5 DEF CountedStored
  <2> QED BY <2>3, <2>4, <2>6
<1>2. ASSUME NEW w \in Clients, Upload(w)
      PROVE  FreshHeld' /\ StoredCounted' /\ CountedStored'
  <2>1. ASSUME NEW h \in fresh[w] PROVE cnt[h] > 0
    BY <1>2, OwnCounted DEF Upload, IInvData, FreshHeld, TypeOK
  <2>2. StoredCounted'
    BY <1>2, <2>1 DEF Upload, StoredCounted
  <2>3. FreshHeld'
    BY <1>2 DEF Upload, FreshHeld, TypeOK, At
  <2>4. CountedStored'
    BY <1>2 DEF Upload, CountedStored, TypeOK
  <2> QED BY <2>2, <2>3, <2>4
<1>3. ASSUME NEW w \in Clients, Decrement(w)
      PROVE  FreshHeld' /\ StoredCounted' /\ CountedStored'
  <2>1. ASSUME NEW h \in Hashes
        PROVE  /\ cnt'[h] \in Nat /\ cnt'[h] <= cnt[h]
               /\ At(held[w], h) = {} => cnt'[h] = cnt[h]
               /\ h \in data' <=> h \in data /\ ~(At(held[w], h) # {} /\ cnt'[h] = 0)
    <3>1. cnt' = Decremented(held[w])
      BY <1>3 DEF Decrement
    <3>2. cnt'[h] = IF cnt[h] < Cardinality(At(held[w], h))
                    THEN 0 ELSE cnt[h] - Cardinality(At(held[w], h))
      BY <3>1 DEF Decremented
    <3>3. cnt[h] \in Nat /\ Cardinality(At(held[w], h)) \in Nat
      BY <1>c DEF TypeOK
    <3>4. cnt'[h] \in Nat /\ cnt'[h] <= cnt[h]
      BY <3>2, <3>3
    <3>5. At(held[w], h) = {} => cnt'[h] = cnt[h]
      BY <1>e, <3>2, <3>3
    <3>6. data' = data \ Released(held[w])
      BY <1>3 DEF Decrement
    <3>7. h \in Released(held[w]) <=> At(held[w], h) # {} /\ cnt'[h] = 0
      BY <3>1 DEF Released
    <3> QED BY <3>4, <3>5, <3>6, <3>7
  <2>2. data' \subseteq data /\ data \subseteq Hashes
    BY <1>3 DEF Decrement, TypeOK
  <2>3. ASSUME NEW h \in data' PROVE cnt'[h] > 0
    <3>1. h \in Hashes /\ cnt[h] > 0 /\ h \in data
      BY <2>2 DEF StoredCounted
    <3>2. cnt'[h] \in Nat /\ (At(held[w], h) = {} => cnt'[h] > 0)
      BY <2>1, <3>1
    <3>3. At(held[w], h) # {} => cnt'[h] # 0
      BY <2>1, <3>1
    <3> QED BY <3>2, <3>3
  <2>4. FreshHeld'
    BY <1>3 DEF Decrement, Finish, FreshHeld, TypeOK, At
  <2>5. ASSUME NEW h \in Hashes, cnt'[h] > 0
        PROVE  h \in data' \/ \E v \in Clients : pc'[v] = "upload" /\ h \in fresh'[v]
    <3>1. cnt[h] > 0
      BY <2>1, <2>5 DEF TypeOK
    <3>2. CASE h \in data
      BY <2>1, <2>5, <3>2
    <3>3. ASSUME NEW v \in Clients, pc[v] = "upload", h \in fresh[v]
          PROVE  pc'[v] = "upload" /\ h \in fresh'[v]
      BY <1>3, <3>3 DEF Decrement, Finish, TypeOK
    <3> QED BY <3>1, <3>2, <3>3 DEF CountedStored
  <2>6. CountedStored'
    BY <2>5 DEF CountedStored
  <2> QED BY <2>3, <2>4, <2>6 DEF StoredCounted
<1>4. ASSUME NEW w \in Clients, Begin(w) \/ Replace(w) \/ FetchData(w)
      PROVE  FreshHeld' /\ StoredCounted' /\ CountedStored'
  <2>1. UNCHANGED <<cnt, data>> /\ pc[w] # "upload" /\ pc'[w] # "upload"
    BY <1>4 DEF Begin, BeginWrite, BeginClear, BeginRead, Replace, FetchData, Finish, store,
                TypeOK
  <2>2. \A v \in Clients \ {w} : pc'[v] = pc[v] /\ fresh'[v] = fresh[v] /\ job'[v] = job[v]
    BY <1>4 DEF Begin, BeginWrite, BeginClear, BeginRead, Replace, FetchData, Finish, store,
                TypeOK
  <2>3. fresh'[w] = {}
    BY <1>4, <2>1 DEF Begin, BeginWrite, BeginClear, BeginRead, Replace, FetchData, Finish,
                store, TypeOK, FreshHeld
  <2>4. FreshHeld'
    BY <2>1, <2>2, <2>3 DEF FreshHeld, At
  <2>5. StoredCounted' /\ CountedStored'
    BY <2>1, <2>2 DEF StoredCounted, CountedStored
  <2> QED BY <2>4, <2>5
<1>5. CASE UNCHANGED vars
  BY <1>0, <1>5 DEF vars, IInvData, FreshHeld, StoredCounted, CountedStored, At
<1> QED
  BY <1>0, <1>1, <1>2, <1>3, <1>4, <1>5 DEF NextReliable, Step, IInvData

\* Initially nothing is stored.
LEMMA InitData == Init => IInvData
<1> SUFFICES ASSUME Init PROVE IInvData
  OBVIOUS
<1>1. FreshHeld /\ StoredCounted /\ CountedStored
  BY DEF Init, FreshHeld, StoredCounted, CountedStored
<1> QED BY <1>1, InitIInv DEF IInvData

\* Without failures, a referenced block is stored or its first writer is
\* about to upload it, for any number of writers that share it and of
\* cleaners that give it up meanwhile (hb_write_data skips the upload when it
\* is not the first).
THEOREM StoredUnlessUploading == SpecReliable => []StoredOrUploading
<1>1. IInvData => StoredOrUploading
  <2> SUFFICES ASSUME IInvData, NEW h \in Hashes, Referenced(h)
               PROVE  h \in data \/ \E w \in Clients : pc[w] = "upload" /\ h \in fresh[w]
    BY DEF StoredOrUploading
  <2>1. cnt[h] > 0
    BY CountedReferenced DEF IInvData, IInvReliable
  <2> QED BY <2>1 DEF IInvData, CountedStored
<1> QED BY <1>1, InitData, DataInductive, PTL DEF SpecReliable

\* Without failures nothing leaks and nothing is missing: when no operation is
\* under way, the stored blocks are exactly the mapped ones.
THEOREM QuiescentExact == SpecReliable => []QuiescentStoreExact
<1>1. IInvData => QuiescentStoreExact
  <2> SUFFICES ASSUME IInvData, \A w \in Clients : pc[w] \in {"idle", "fetch"}
               PROVE  data = {h \in Hashes : At(map, h) # {}}
    BY DEF QuiescentStoreExact
  <2>1. ASSUME NEW h \in Hashes PROVE h \in data <=> At(map, h) # {}
    <3>1. Held(h) = {}
      BY ConstantsAssumption
      DEF IInvData, IInvReliable, HeldMatchesStep, Held, NoRefs
    <3>2. cnt[h] > 0 <=> At(map, h) # {}
      BY <3>1, CountedReferenced DEF Referenced, IInvData, IInvReliable
    <3>3. h \in data <=> cnt[h] > 0
      BY DEF IInvData, StoredCounted, CountedStored
    <3> QED BY <3>2, <3>3
  <2> QED BY <2>1 DEF IInvData, IInvReliable, TypeOK
<1> QED BY <1>1, InitData, DataInductive, PTL DEF SpecReliable

=============================================================================
