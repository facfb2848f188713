----------------------------- MODULE LockProofs -----------------------------
(***************************************************************************)
(* The two components in which somebody waits for a lock.                  *)
(*                                                                         *)
(* The key lock: mutual exclusion, for any number of lock objects, any     *)
(* order of their ids and any number of failures.                          *)
(*                                                                         *)
(* The client mux: every slot has one owner, for any number of tasks,      *)
(* slots and failures, and the bookkeeping of its read-write lock agrees   *)
(* with the steps of the tasks.                                            *)
(***************************************************************************)
EXTENDS KeyLock, ClientMux, SequenceTheorems, TLAPS

(***************************************************************************)
(* KeyLock                                                                 *)
(***************************************************************************)

\* The published state follows from the step, unless the object is gone.
StateOfStep ==
    \A p \in Ids :
        /\ turn[p] = "outside" => state[p] = S0Noncritical
        /\ turn[p] \in {"poll_open", "put_door_in"} => state[p] = S1Intention
        /\ turn[p] \in {"scan", "put_waiting"} => state[p] = S3DoorIn
        /\ turn[p] = "poll_out" => state[p] = S2WaitingRoom
        /\ turn[p] = "put_door_out" => state[p] \in {S2WaitingRoom, S3DoorIn}
        /\ turn[p] \in {"poll_lower", "entered", "put_noncritical"} => state[p] = S4DoorOut

\* Nobody with a smaller id is past the first door when p has entered.
LowerOutside ==
    \A p, q \in Ids : InCriticalSection(p) /\ q < p => state[q] <= S1Intention

\* Everybody with a larger id has left the doorway before p leaves.
HigherReady ==
    \A p, q \in Ids :
        turn[p] = "put_noncritical" /\ q > p =>
            state[q] \in {S0Noncritical, S1Intention, S4DoorOut}

\* Whoever leaves the waiting room does so while another one is at the exit.
ExitHeldOpen ==
    \A q \in Ids :
        turn[q] = "put_door_out" /\ state[q] = S2WaitingRoom =>
            \E s \in Ids : state[s] = S4DoorOut

\* The inductive invariant.
LockInv ==
    LockTypeOK /\ StateOfStep /\ DoorClosed /\ LowerOutside /\ HigherReady /\ ExitHeldOpen

StateValues ==
    /\ S0Noncritical = 0 /\ S1Intention = 1 /\ S2WaitingRoom = 2
    /\ S3DoorIn = 3 /\ S4DoorOut = 4

-----------------------------------------------------------------------------

\* The published states are the numbers that from_u8 reads back.
LEMMA Values == StateValues
  BY DEF StateValues, S0Noncritical, S1Intention, S2WaitingRoom, S3DoorIn, S4DoorOut

\* Whoever is about to leave is the only one between the two doors: everybody
\* else is outside, before the door, or waits for its turn at the exit.
LEMMA LeaverAlone ==
    ASSUME LockInv, NEW p \in Ids, turn[p] = "put_noncritical", NEW q \in Ids, q # p
    PROVE  state[q] \in {S0Noncritical, S1Intention, S4DoorOut}
<1>1. p \in Nat /\ q \in Nat /\ state[q] \in 0..4
  BY Values, LockAssumption DEF LockInv, LockTypeOK, StateValues
<1>2. CASE q > p
  BY <1>2 DEF LockInv, HigherReady
<1>3. CASE q < p
  BY <1>1, <1>3, Values DEF LockInv, LowerOutside, InCriticalSection, StateValues
<1> QED BY <1>1, <1>2, <1>3

\* Types and the relation of steps and states, for every action.
LEMMA StateOfStepInv ==
    ASSUME LockInv, [LockNext]_lockVars
    PROVE  LockTypeOK' /\ StateOfStep'
<1> USE Values DEF LockInv, StateValues
<1>1. ASSUME NEW p \in Ids, Intend(p) \/ LockStep(p) PROVE LockTypeOK' /\ StateOfStep'
  <2>1. LockTypeOK'
    BY <1>1 DEF LockTypeOK, LockSteps, Intend, LockStep, PollOpen, DoorIn, Scan, WaitingRoom, PollOut,
       DoorOut, PollLower, PollHigher, Exit, ChangeOwnState, Poll
  <2>2. StateOfStep'
    BY <1>1 DEF LockTypeOK, StateOfStep, Intend, LockStep, PollOpen, DoorIn, Scan, WaitingRoom,
       PollOut, DoorOut, PollLower, PollHigher, Exit, ChangeOwnState, Poll
  <2> QED BY <2>1, <2>2
<1>2. ASSUME NEW p \in Ids, Fail(p) PROVE LockTypeOK' /\ StateOfStep'
  BY <1>2, LockAssumption DEF LockTypeOK, StateOfStep, LockSteps, Fail
<1>3. CASE UNCHANGED lockVars
  BY <1>3 DEF lockVars, LockTypeOK, StateOfStep
<1> QED BY <1>1, <1>2, <1>3 DEF LockNext

\* The four facts about the doors.
Doors == DoorClosed /\ LowerOutside /\ HigherReady /\ ExitHeldOpen

\* Every action preserves the facts about the doors.
LEMMA DoorsInv ==
    ASSUME LockInv, LockTypeOK', StateOfStep', [LockNext]_lockVars
    PROVE  Doors'
<1> USE Values DEF StateValues
<1>0. /\ \A q \in Ids : q \in Nat /\ state[q] \in 0..4
      /\ state \in [Ids -> 0..4] /\ turn \in [Ids -> LockSteps]
  BY LockAssumption DEF LockInv, LockTypeOK
<1>1. ASSUME NEW p \in Ids, Intend(p) PROVE Doors'
  BY <1>0, <1>1 DEF LockInv, Doors, StateOfStep, DoorClosed, GoingOut, LowerOutside,
     InCriticalSection, HigherReady, ExitHeldOpen, Intend, ChangeOwnState
<1>2. ASSUME NEW p \in Ids, PollOpen(p) PROVE Doors'
  <2>1. ASSUME NEW q \in Ids PROVE ~GoingOut(q)
    <3>1. turn[p] = "poll_open" /\ state[p] = S1Intention
      BY <1>2 DEF PollOpen, Poll, LockInv, StateOfStep
    <3>2. \A r \in Ids : state[r] <= S2WaitingRoom
      BY <1>2, <3>1 DEF PollOpen, Poll, Others
    <3>3. \A r \in Ids : state[r] # S4DoorOut
      BY <3>2
    <3>4. ~(turn[q] = "put_door_out" /\ state[q] = S2WaitingRoom)
      BY <3>3 DEF LockInv, ExitHeldOpen
    <3>5. turn[q] = "put_door_out" => state[q] \in {S2WaitingRoom, S3DoorIn}
      BY DEF LockInv, StateOfStep
    <3> QED BY <3>2, <3>3, <3>4, <3>5 DEF GoingOut
  <2>2. ASSUME NEW q \in Ids PROVE ~GoingOut(q)'
    BY <1>0, <1>2, <2>1 DEF GoingOut, PollOpen, Poll
  <2>3. DoorClosed'
    BY <2>2 DEF DoorClosed
  <2> QED
    BY <1>0, <1>2, <2>3 DEF LockInv, Doors, LowerOutside, InCriticalSection, HigherReady,
       ExitHeldOpen, PollOpen, Poll
<1>3. ASSUME NEW p \in Ids, DoorIn(p) PROVE Doors'
  <2>1. \A q \in Ids : state[q] # S4DoorOut /\ turn[q] # "put_door_out"
    BY <1>3 DEF DoorIn, ChangeOwnState, LockInv, DoorClosed, GoingOut
  <2>2. \A q \in Ids : ~InCriticalSection(q)
    BY <2>1 DEF LockInv, StateOfStep, InCriticalSection
  <2> QED
    BY <1>0, <1>3, <2>1, <2>2 DEF Doors, DoorClosed, GoingOut, LowerOutside,
       InCriticalSection, HigherReady, ExitHeldOpen, DoorIn, ChangeOwnState
<1>4. ASSUME NEW p \in Ids, Scan(p) PROVE Doors'
  <2>1. CASE \E q \in Others(p) : state[q] = S1Intention
    BY <1>0, <1>4, <2>1 DEF Scan, Poll, Others, LockInv, Doors, DoorClosed, GoingOut,
       LowerOutside, InCriticalSection, HigherReady, ExitHeldOpen
  <2>2. CASE \A q \in Others(p) : state[q] # S1Intention
    <3>1. \A q \in Ids : turn'[q] # "put_door_in"
      BY <1>0, <1>4, <2>2 DEF Scan, Poll, Others, LockInv, StateOfStep
    <3>2. state[p] = S3DoorIn
      BY <1>4 DEF Scan, Poll, LockInv, StateOfStep
    <3> QED
      BY <1>0, <1>4, <2>2, <3>1, <3>2 DEF Scan, Poll, LockInv, Doors, DoorClosed,
         LowerOutside, InCriticalSection, HigherReady, ExitHeldOpen
  <2> QED BY <2>1, <2>2
<1>5. ASSUME NEW p \in Ids, WaitingRoom(p) PROVE Doors'
  <2>1. turn[p] = "put_waiting" /\ state[p] = S3DoorIn
    BY <1>5 DEF WaitingRoom, ChangeOwnState, LockInv, StateOfStep
  <2>2. ASSUME NEW q \in Ids, turn[q] = "put_noncritical" PROVE FALSE
    BY <2>1, <2>2, LeaverAlone
  <2> QED
    BY <1>0, <1>5, <2>1, <2>2 DEF WaitingRoom, ChangeOwnState, LockInv, Doors, DoorClosed,
       GoingOut, LowerOutside, InCriticalSection, HigherReady, ExitHeldOpen
<1>6. ASSUME NEW p \in Ids, PollOut(p) PROVE Doors'
  BY <1>0, <1>6 DEF PollOut, Poll, Others, LockInv, Doors, DoorClosed, GoingOut, LowerOutside,
     InCriticalSection, HigherReady, ExitHeldOpen
<1>7. ASSUME NEW p \in Ids, DoorOut(p) PROVE Doors'
  <2>1. state[p] \in {S2WaitingRoom, S3DoorIn}
    BY <1>7 DEF DoorOut, ChangeOwnState, LockInv, StateOfStep
  <2> QED
    BY <1>0, <1>7, <2>1 DEF DoorOut, ChangeOwnState, LockInv, Doors, DoorClosed, GoingOut,
       LowerOutside, InCriticalSection, HigherReady, ExitHeldOpen
<1>8. ASSUME NEW p \in Ids, PollLower(p) PROVE Doors'
  BY <1>0, <1>8 DEF PollLower, Poll, Others, LockInv, Doors, DoorClosed, GoingOut,
     LowerOutside, InCriticalSection, HigherReady, ExitHeldOpen
<1>9. ASSUME NEW p \in Ids, PollHigher(p) PROVE Doors'
  BY <1>0, <1>9 DEF PollHigher, Poll, Others, LockInv, Doors, DoorClosed, GoingOut,
     LowerOutside, InCriticalSection, HigherReady, ExitHeldOpen
<1>10. ASSUME NEW p \in Ids, Exit(p) PROVE Doors'
  <2>1. turn[p] = "put_noncritical"
    BY <1>10 DEF Exit, ChangeOwnState
  <2>2. \A q \in Ids : q # p => state[q] \in {S0Noncritical, S1Intention, S4DoorOut}
    BY <2>1, LeaverAlone
  <2> QED
    BY <1>0, <1>10, <2>1, <2>2 DEF Exit, ChangeOwnState, LockInv, Doors, DoorClosed, GoingOut,
       LowerOutside, InCriticalSection, HigherReady, ExitHeldOpen
<1>11. ASSUME NEW p \in Ids, Fail(p) PROVE Doors'
  BY <1>0, <1>11 DEF Fail, LockInv, Doors, DoorClosed, GoingOut, LowerOutside,
     InCriticalSection, HigherReady, ExitHeldOpen
<1>12. CASE UNCHANGED lockVars
  BY <1>12 DEF lockVars, LockInv, Doors, DoorClosed, GoingOut, LowerOutside,
     InCriticalSection, HigherReady, ExitHeldOpen
<1> QED
  BY <1>1, <1>2, <1>3, <1>4, <1>5, <1>6, <1>7, <1>8, <1>9, <1>10, <1>11, <1>12
     DEF LockNext, LockStep

\* Nobody has published anything in the initial state.
LEMMA LockInitInv == LockInit => LockInv
  BY Values, LockAssumption DEF LockInit, LockInv, StateValues, LockTypeOK, LockSteps, StateOfStep,
     DoorClosed, GoingOut, LowerOutside, InCriticalSection, HigherReady, ExitHeldOpen

\* Every step preserves the inductive invariant.
LEMMA LockNextInv == LockInv /\ [LockNext]_lockVars => LockInv'
  BY StateOfStepInv, DoorsInv DEF LockInv, Doors

-----------------------------------------------------------------------------

\* Once somebody goes out through the second door of the lock, nobody passes
\* the first: the order of publishing and scanning closes it for everybody.
THEOREM DoorStaysClosed == LockSpec => []DoorClosed
<1>1. LockInv => DoorClosed
  BY DEF LockInv
<1> QED BY <1>1, LockInitInv, LockNextInv, PTL DEF LockSpec

\* At most one lock object is inside, whatever the others do and wherever
\* they fail.
THEOREM MutuallyExclusive == LockSpec => []MutualExclusion
<1>1. LockInv => MutualExclusion
  <2> SUFFICES ASSUME LockInv, NEW p \in Ids, NEW q \in Ids,
                      InCriticalSection(p), InCriticalSection(q), p # q
               PROVE  FALSE
    BY DEF MutualExclusion
  <2>1. state[p] = 4 /\ state[q] = 4
    BY Values DEF LockInv, StateOfStep, InCriticalSection, StateValues
  <2>2. p \in Nat /\ q \in Nat
    BY LockAssumption
  <2>3. CASE p < q
    BY <2>1, <2>3, Values DEF LockInv, LowerOutside, StateValues
  <2>4. CASE q < p
    BY <2>1, <2>4, Values DEF LockInv, LowerOutside, StateValues
  <2> QED BY <2>2, <2>3, <2>4
<1> QED BY <1>1, LockInitInv, LockNextInv, PTL DEF LockSpec

-----------------------------------------------------------------------------
(***************************************************************************)
(* ClientMux                                                               *)
(***************************************************************************)

\* The types of what SlotOwned is about.
SlotsTyped ==
    /\ filled \in SUBSET SlotIds
    /\ pc \in [Tasks -> TaskSteps]
    /\ slot \in [Tasks -> SlotIds]
    /\ idx \in SlotIds
    /\ giveups \in Nat

\* The tasks that wait for the lock stand in the queue, each of them once.
QueueOnce ==
    /\ queue \in Seq(Tasks)
    /\ \A i, j \in 1..Len(queue) : queue[i] = queue[j] => i = j

\* The round robin counter and the counter of misses.
CountersTyped ==
    /\ sent \in BOOLEAN
    /\ misses \in [Tasks -> 0..(Slots + 1)]
    /\ \A t \in Tasks : pc[t] \in {"fetch", "wait_read", "look"} => misses[t] <= Slots
    /\ outages \in 0..MaxOutages
    /\ giveups \in 0..MaxGiveUps

\* Readers, writer and queue agree with the steps of the tasks.
LockAgrees ==
    /\ readers = {t \in Tasks : pc[t] \in ReadSteps}
    /\ writer = {t \in Tasks : pc[t] \in WriteSteps}
    /\ ToSet(queue) = {t \in Tasks : pc[t] \in Waiting}

\* A task that works on the slots under the write lock is alone: no other
\* one looks at the slots, and none changes them.
WriterAlone ==
    \A t, u \in Tasks : pc[t] \in WriteSteps /\ pc[u] \in ReadSteps \cup WriteSteps => t = u

\* The inductive invariants.
IInvLock == SlotsTyped /\ QueueOnce /\ CountersTyped /\ LockAgrees /\ WriterAlone
IInvSlots == SlotsTyped /\ SlotOwned

-----------------------------------------------------------------------------
(***************************************************************************)
(* The owners of the slots.                                                *)
(***************************************************************************)

\* The steps keep the types that SlotOwned is about.
LEMMA SlotsTypedInductive ==
    ASSUME SlotsTyped, [Next]_vars
    PROVE  SlotsTyped'
<1> USE DEF SlotsTyped, TaskSteps, Waiting, ReadSteps, WriteSteps, Goto
<1>1. CASE Grant
  BY <1>1 DEF Grant
<1>2. ASSUME NEW t \in Tasks, Call(t) PROVE SlotsTyped'
  BY <1>2 DEF Call
<1>3. ASSUME NEW t \in Tasks, FetchIndex(t) PROVE SlotsTyped'
  <2>1. (idx + 1) % Slots \in SlotIds
    BY ConstantsAssumption DEF SlotIds
  <2> QED BY <1>3, <2>1 DEF FetchIndex, Request
<1>4. ASSUME NEW t \in Tasks, Look(t) PROVE SlotsTyped'
  BY <1>4 DEF Look
<1>5. ASSUME NEW t \in Tasks, AwaitChange(t) \/ BeginOk(t) \/ BeginFails(t) \/ Send(t)
      PROVE  SlotsTyped'
  BY <1>5 DEF AwaitChange, BeginOk, BeginFails, Send, Request
<1>6. ASSUME NEW t \in Tasks, Take(t) PROVE SlotsTyped'
  BY <1>6 DEF Take
<1>7. ASSUME NEW t \in Tasks, MakeOne(t) \/ GiveUp(t) \/ Put(t) PROVE SlotsTyped'
  BY <1>7 DEF MakeOne, GiveUp, Put, Request
<1>8. CASE UNCHANGED vars
  BY <1>8 DEF vars
<1> QED BY <1>1, <1>2, <1>3, <1>4, <1>5, <1>6, <1>7, <1>8 DEF Next, Step

\* A step that neither fills nor empties a slot, and neither makes a task an
\* owner nor stops it being one, keeps the owners.
LEMMA OwnersKept ==
    ASSUME SlotOwned, UNCHANGED <<filled, giveups>>,
           \A i \in SlotIds : Replacing(i)' = Replacing(i)
    PROVE  SlotOwned'
  BY DEF SlotOwned

\* The steps of a task that owns no slot, before and after.
LEMMA NotAnOwner ==
    ASSUME SlotsTyped, NEW t \in Tasks, NEW step \in TaskSteps,
           pc[t] \notin {"make", "wait_put", "put"}, step \notin {"make", "wait_put", "put"},
           pc' = [pc EXCEPT ![t] = step],
           \A u \in Tasks : u # t => slot'[u] = slot[u]
    PROVE  \A i \in SlotIds : Replacing(i)' = Replacing(i)
  BY DEF SlotsTyped, Replacing

\* Every step keeps the owners of the slots.
LEMMA SlotOwnedInductive ==
    ASSUME SlotsTyped, SlotOwned, [Next]_vars
    PROVE  SlotOwned'
<1>t. /\ pc \in [Tasks -> TaskSteps] /\ slot \in [Tasks -> SlotIds]
      /\ filled \in SUBSET SlotIds /\ giveups \in Nat
  BY DEF SlotsTyped
<1> USE DEF Goto
<1>1. CASE Grant
  <2>1. \A u \in Tasks : pc'[u] = pc[u]
            \/ {pc[u], pc'[u]} = {"wait_put", "put"}
            \/ ({pc[u], pc'[u]} \cap {"make", "wait_put", "put"} = {})
    BY <1>t, <1>1 DEF Grant
  <2>2. UNCHANGED <<filled, giveups, slot>>
    BY <1>1 DEF Grant
  <2>3. \A i \in SlotIds : Replacing(i)' = Replacing(i)
    BY <2>1, <2>2 DEF Replacing
  <2> QED BY <2>2, <2>3, OwnersKept
<1>2. ASSUME NEW t \in Tasks,
             Call(t) \/ FetchIndex(t) \/ Look(t) \/ AwaitChange(t) \/ BeginOk(t) \/ BeginFails(t)
               \/ Send(t)
      PROVE  SlotOwned'
  <2>1. UNCHANGED <<filled, giveups>>
    BY <1>2 DEF Call, FetchIndex, Look, AwaitChange, BeginOk, BeginFails, Send
  <2>2. \A u \in Tasks : u # t => slot'[u] = slot[u]
    BY <1>t, <1>2 DEF Call, FetchIndex, Look, AwaitChange, BeginOk, BeginFails, Send
  <2>3. \E step \in {"idle", "fetch", "wait_read", "begin", "await", "wait_take"} :
            pc' = [pc EXCEPT ![t] = step]
    BY <1>2 DEF Call, FetchIndex, Look, AwaitChange, BeginOk, BeginFails, Send, Request
  <2>4. pc[t] \notin {"make", "wait_put", "put"}
    BY <1>2 DEF Call, FetchIndex, Look, AwaitChange, BeginOk, BeginFails, Send
  <2>5. \A i \in SlotIds : Replacing(i)' = Replacing(i)
    BY <2>2, <2>3, <2>4, NotAnOwner DEF TaskSteps, Waiting, ReadSteps
  <2> QED BY <2>1, <2>5, OwnersKept
<1>3. ASSUME NEW t \in Tasks, Take(t) PROVE SlotOwned'
  <2>1. CASE slot[t] \in filled
    <3>1. /\ filled' = filled \ {slot[t]} /\ UNCHANGED <<slot, giveups>>
          /\ pc' = [pc EXCEPT ![t] = "make"] /\ pc[t] = "take"
      BY <1>3, <2>1 DEF Take
    <3>2. \A i \in SlotIds : Replacing(i)' = IF i = slot[t] THEN Replacing(i) \cup {t}
                                             ELSE Replacing(i)
      BY <1>t, <3>1 DEF Replacing
    <3>3. Replacing(slot[t]) = {}
      BY <1>t, <2>1 DEF SlotOwned
    <3> QED BY <1>t, <3>1, <3>2, <3>3 DEF SlotOwned
  <2>2. CASE slot[t] \notin filled
    <3>1. /\ UNCHANGED <<filled, slot, giveups>>
          /\ pc' = [pc EXCEPT ![t] = "fetch"] /\ pc[t] = "take"
      BY <1>t, <1>3, <2>2 DEF Take
    <3>2. \A i \in SlotIds : Replacing(i)' = Replacing(i)
      BY <1>t, <3>1 DEF Replacing
    <3> QED BY <3>1, <3>2, OwnersKept
  <2> QED BY <2>1, <2>2
<1>4. ASSUME NEW t \in Tasks, MakeOne(t) PROVE SlotOwned'
  <2>1. /\ UNCHANGED <<filled, slot, giveups>>
        /\ pc' = [pc EXCEPT ![t] = "wait_put"] /\ pc[t] = "make"
    BY <1>4 DEF MakeOne, Request
  <2>2. \A i \in SlotIds : Replacing(i)' = Replacing(i)
    BY <1>t, <2>1 DEF Replacing
  <2> QED BY <2>1, <2>2, OwnersKept
<1>5. ASSUME NEW t \in Tasks, GiveUp(t) PROVE SlotOwned'
  <2>1. /\ UNCHANGED <<filled, slot>> /\ giveups' = giveups + 1
        /\ pc' = [pc EXCEPT ![t] = "idle"]
    BY <1>5 DEF GiveUp
  <2>2. \A i \in SlotIds : Replacing(i)' \subseteq Replacing(i)
    BY <1>t, <2>1 DEF Replacing
  <2>3. giveups' # 0
    BY <1>t, <2>1
  <2> QED BY <2>1, <2>2, <2>3 DEF SlotOwned
<1>6. ASSUME NEW t \in Tasks, Put(t) PROVE SlotOwned'
  <2>1. /\ filled' = filled \cup {slot[t]} /\ UNCHANGED <<slot, giveups>>
        /\ pc' = [pc EXCEPT ![t] = "send"] /\ pc[t] = "put"
    BY <1>6 DEF Put
  <2>2. \A i \in SlotIds : Replacing(i)' = Replacing(i) \ {t}
    BY <1>t, <2>1 DEF Replacing
  <2>3. \A i \in SlotIds : t \in Replacing(i) <=> i = slot[t]
    BY <1>t, <2>1 DEF Replacing
  <2> QED BY <1>t, <2>1, <2>2, <2>3 DEF SlotOwned
<1>7. CASE UNCHANGED vars
  <2>1. UNCHANGED <<filled, giveups>> /\ \A i \in SlotIds : Replacing(i)' = Replacing(i)
    BY <1>7 DEF vars, Replacing
  <2> QED BY <2>1, OwnersKept
<1> QED BY <1>1, <1>2, <1>3, <1>4, <1>5, <1>6, <1>7 DEF Next, Step

-----------------------------------------------------------------------------
(***************************************************************************)
(* The lock.                                                               *)
(***************************************************************************)

\* A task that is not in the queue is put at its end.
LEMMA Enqueued ==
    ASSUME QueueOnce, NEW t \in Tasks, t \notin ToSet(queue), queue' = Append(queue, t)
    PROVE  QueueOnce' /\ ToSet(queue)' = ToSet(queue) \cup {t}
<1>1. /\ queue' \in Seq(Tasks) /\ Len(queue') = Len(queue) + 1 /\ Len(queue) \in Nat
      /\ \A i \in 1..Len(queue) : queue'[i] = queue[i]
      /\ queue'[Len(queue) + 1] = t
  BY AppendProperties DEF QueueOnce
<1>2. DOMAIN queue = 1..Len(queue) /\ DOMAIN queue' = 1..(Len(queue) + 1)
  BY <1>1 DEF QueueOnce
<1>3. \A i \in 1..Len(queue) : queue[i] # t
  BY <1>2 DEF ToSet
<1>4. ASSUME NEW i \in 1..Len(queue'), NEW j \in 1..Len(queue'), queue'[i] = queue'[j]
      PROVE  i = j
  <2>1. CASE i \in 1..Len(queue) /\ j \in 1..Len(queue)
    BY <1>1, <1>4, <2>1 DEF QueueOnce
  <2>2. CASE i = Len(queue) + 1 \/ j = Len(queue) + 1
    BY <1>1, <1>3, <1>4, <2>2
  <2> QED BY <1>1, <2>1, <2>2
<1>5. ToSet(queue)' = ToSet(queue) \cup {t}
  BY <1>1, <1>2 DEF ToSet
<1> QED BY <1>1, <1>4, <1>5 DEF QueueOnce

\* The first in the queue leaves it, and is not in it a second time.
LEMMA Dequeued ==
    ASSUME QueueOnce, queue # <<>>, queue' = Tail(queue)
    PROVE  /\ QueueOnce' /\ Head(queue) \in ToSet(queue)
           /\ ToSet(queue)' = ToSet(queue) \ {Head(queue)}
<1>1. /\ queue' \in Seq(Tasks) /\ Len(queue) \in Nat /\ Len(queue) > 0
      /\ Len(queue') = Len(queue) - 1
      /\ \A i \in 1..Len(queue') : queue'[i] = queue[i + 1]
      /\ Head(queue) = queue[1]
  BY HeadTailProperties DEF QueueOnce
<1>2. DOMAIN queue = 1..Len(queue) /\ DOMAIN queue' = 1..(Len(queue) - 1)
  BY <1>1 DEF QueueOnce
<1>3. QueueOnce'
  BY <1>1 DEF QueueOnce
<1>4. ASSUME NEW x \in ToSet(queue) \ {Head(queue)} PROVE x \in ToSet(queue)'
  <2>1. PICK i \in 1..Len(queue) : x = queue[i]
    BY <1>2 DEF ToSet
  <2>2. i - 1 \in 1..Len(queue') /\ queue'[i - 1] = x
    BY <1>1, <1>4, <2>1
  <2> QED BY <1>1, <1>2, <2>2 DEF ToSet
<1>5. ASSUME NEW x \in ToSet(queue)' PROVE x \in ToSet(queue) \ {Head(queue)}
  <2>1. PICK i \in 1..Len(queue') : x = queue'[i]
    BY <1>1, <1>2 DEF ToSet
  <2>2. i + 1 \in 1..Len(queue) /\ queue[i + 1] = x /\ 1 \in 1..Len(queue) /\ i + 1 # 1
    BY <1>1, <2>1
  <2>3. x # queue[1]
    BY <2>2 DEF QueueOnce
  <2> QED BY <1>1, <1>2, <2>2, <2>3 DEF ToSet
<1>6. Head(queue) \in ToSet(queue)
  BY <1>1, <1>2 DEF ToSet
<1> QED BY <1>3, <1>4, <1>5, <1>6

\* The counters keep their types: a task that has seen more empty slots than
\* there are starts over before it looks again.
LEMMA CountersInductive ==
    ASSUME IInvLock, [Next]_vars
    PROVE  CountersTyped'
<1>t. /\ pc \in [Tasks -> TaskSteps] /\ misses \in [Tasks -> 0..(Slots + 1)]
      /\ \A t \in Tasks : pc[t] \in {"fetch", "wait_read", "look"} => misses[t] <= Slots
      /\ outages \in 0..MaxOutages /\ giveups \in 0..MaxGiveUps /\ sent \in BOOLEAN
      /\ Slots \in Nat /\ MaxOutages \in Nat /\ MaxGiveUps \in Nat
  BY ConstantsAssumption DEF IInvLock, SlotsTyped, CountersTyped
<1> USE DEF CountersTyped, Goto
<1>1. CASE Grant
  BY <1>t, <1>1 DEF Grant
<1>2. ASSUME NEW t \in Tasks, Call(t) \/ AwaitChange(t) \/ Send(t) PROVE CountersTyped'
  <2>1. misses' = [misses EXCEPT ![t] = 0] /\ pc' = [pc EXCEPT ![t] = "fetch"]
    BY <1>2 DEF Call, AwaitChange, Send
  <2>2. sent' \in BOOLEAN /\ UNCHANGED <<outages, giveups>>
    BY <1>t, <1>2 DEF Call, AwaitChange, Send
  <2> QED BY <1>t, <2>1, <2>2
<1>3. ASSUME NEW t \in Tasks, FetchIndex(t) \/ MakeOne(t) PROVE CountersTyped'
  BY <1>t, <1>3 DEF FetchIndex, MakeOne, Request
<1>4. ASSUME NEW t \in Tasks, Look(t) PROVE CountersTyped'
  BY <1>t, <1>4 DEF Look
<1>5. ASSUME NEW t \in Tasks, BeginOk(t) \/ BeginFails(t) \/ GiveUp(t) \/ Put(t)
      PROVE  CountersTyped'
  BY <1>t, <1>5 DEF BeginOk, BeginFails, GiveUp, Put, Request
<1>6. ASSUME NEW t \in Tasks, Take(t) PROVE CountersTyped'
  BY <1>t, <1>6 DEF Take
<1>7. CASE UNCHANGED vars
  BY <1>t, <1>7 DEF vars
<1> QED BY <1>1, <1>2, <1>3, <1>4, <1>5, <1>6, <1>7 DEF Next, Step

\* What the lock knows about a task that moves from one step to another.
Lock == QueueOnce /\ LockAgrees /\ WriterAlone

\* A task without the lock, that goes on without asking for it.
LEMMA GoesOnWithout ==
    ASSUME Lock, pc \in [Tasks -> TaskSteps], NEW t \in Tasks, NEW step \in TaskSteps,
           pc[t] \notin Waiting \cup ReadSteps \cup WriteSteps,
           step \notin Waiting \cup ReadSteps \cup WriteSteps,
           pc' = [pc EXCEPT ![t] = step], UNCHANGED lock
    PROVE  Lock'
<1>1. \A S \in {ReadSteps, WriteSteps, Waiting} :
        {u \in Tasks : pc'[u] \in S} = {u \in Tasks : pc[u] \in S}
  OBVIOUS
<1>2. LockAgrees' /\ QueueOnce'
  BY <1>1 DEF Lock, LockAgrees, QueueOnce, lock
<1>3. WriterAlone'
  BY DEF Lock, WriterAlone
<1> QED BY <1>2, <1>3 DEF Lock

\* A task without the lock that asks for it.
LEMMA Asks ==
    ASSUME Lock, pc \in [Tasks -> TaskSteps], NEW t \in Tasks, NEW step \in Waiting,
           pc[t] \notin Waiting \cup ReadSteps \cup WriteSteps, Request(t, step)
    PROVE  Lock'
<1>0. pc' = [pc EXCEPT ![t] = step] /\ UNCHANGED <<readers, writer>> /\ queue' = Append(queue, t)
  BY DEF Request, Goto
<1>1. step \notin ReadSteps \cup WriteSteps
  BY DEF Waiting, ReadSteps, WriteSteps
<1>2. \A S \in {ReadSteps, WriteSteps} :
        {u \in Tasks : pc'[u] \in S} = {u \in Tasks : pc[u] \in S}
  BY <1>0, <1>1
<1>3. {u \in Tasks : pc'[u] \in Waiting} = {u \in Tasks : pc[u] \in Waiting} \cup {t}
  BY <1>0
<1>4. QueueOnce' /\ ToSet(queue)' = ToSet(queue) \cup {t}
  <2>1. t \notin ToSet(queue)
    BY DEF Lock, LockAgrees
  <2> QED BY <1>0, <2>1, Enqueued DEF Lock
<1>5. WriterAlone'
  BY <1>0, <1>1 DEF Lock, WriterAlone
<1> QED BY <1>0, <1>2, <1>3, <1>4, <1>5 DEF Lock, LockAgrees

\* A task with the lock that gives it back.
LEMMA GivesBack ==
    ASSUME Lock, pc \in [Tasks -> TaskSteps], NEW t \in Tasks, NEW step \in TaskSteps,
           pc[t] \in ReadSteps \cup WriteSteps,
           step \notin Waiting \cup ReadSteps \cup WriteSteps,
           pc' = [pc EXCEPT ![t] = step], Release(t)
    PROVE  Lock'
<1>0. pc[t] \notin Waiting
  BY DEF Waiting, ReadSteps, WriteSteps
<1>1. {u \in Tasks : pc'[u] \in Waiting} = {u \in Tasks : pc[u] \in Waiting}
  BY <1>0
<1>2. \A S \in {ReadSteps, WriteSteps} :
        {u \in Tasks : pc'[u] \in S} = {u \in Tasks : pc[u] \in S} \ {t}
  OBVIOUS
<1>3. QueueOnce' /\ LockAgrees'
  BY <1>1, <1>2 DEF Lock, LockAgrees, QueueOnce, Release
<1>4. WriterAlone'
  BY DEF Lock, WriterAlone
<1> QED BY <1>3, <1>4 DEF Lock

\* The lock is given to the first in the queue, to a writer only when nobody
\* has it.
LEMMA Granted ==
    ASSUME Lock, pc \in [Tasks -> TaskSteps], Grant
    PROVE  Lock'
<1> DEFINE t == Head(queue)
<1>0. QueueOnce' /\ t \in ToSet(queue) /\ ToSet(queue)' = ToSet(queue) \ {t}
  BY Dequeued DEF Lock, Grant
<1>1. t \in Tasks /\ pc[t] \in Waiting
  BY <1>0 DEF Lock, LockAgrees
<1>2. \A u \in Tasks : pc[u] \notin WriteSteps
  BY DEF Lock, LockAgrees, Grant
<1>3. CASE pc[t] = "wait_read"
  <2>1. pc' = [pc EXCEPT ![t] = "look"] /\ readers' = readers \cup {t} /\ UNCHANGED writer
    BY <1>3 DEF Grant, Goto
  <2> HIDE DEF t
  <2>2. /\ {u \in Tasks : pc'[u] \in ReadSteps} = {u \in Tasks : pc[u] \in ReadSteps} \cup {t}
        /\ {u \in Tasks : pc'[u] \in WriteSteps} = {u \in Tasks : pc[u] \in WriteSteps}
        /\ {u \in Tasks : pc'[u] \in Waiting} = {u \in Tasks : pc[u] \in Waiting} \ {t}
    BY <1>1, <1>3, <2>1 DEF Waiting, ReadSteps, WriteSteps
  <2>3. WriterAlone'
    BY <1>1, <1>2, <2>1 DEF WriterAlone, WriteSteps
  <2> QED BY <1>0, <2>1, <2>2, <2>3 DEF Lock, LockAgrees
<1>4. CASE pc[t] \in {"wait_take", "wait_put"}
  <2>1. \E step \in WriteSteps : pc' = [pc EXCEPT ![t] = step]
    BY <1>4 DEF Grant, Goto, WriteSteps
  <2>2. writer = {} /\ readers = {} /\ writer' = {t} /\ UNCHANGED readers
    BY <1>4 DEF Grant
  <2> HIDE DEF t
  <2>3. PICK step \in WriteSteps : pc' = [pc EXCEPT ![t] = step]
    BY <2>1
  <2>4. /\ {u \in Tasks : pc'[u] \in ReadSteps} = {u \in Tasks : pc[u] \in ReadSteps}
        /\ {u \in Tasks : pc'[u] \in WriteSteps} = {u \in Tasks : pc[u] \in WriteSteps} \cup {t}
        /\ {u \in Tasks : pc'[u] \in Waiting} = {u \in Tasks : pc[u] \in Waiting} \ {t}
    BY <1>1, <2>3 DEF Waiting, ReadSteps, WriteSteps
  <2>5. \A u \in Tasks : pc[u] \notin ReadSteps \cup WriteSteps
    BY <2>2 DEF Lock, LockAgrees
  <2>6. WriterAlone'
    BY <1>1, <2>3, <2>5 DEF WriterAlone
  <2> QED BY <1>0, <2>2, <2>4, <2>6 DEF Lock, LockAgrees
<1> QED BY <1>1, <1>3, <1>4 DEF Waiting

\* Every step keeps the lock's bookkeeping.
LEMMA LockInductive ==
    ASSUME IInvLock, [Next]_vars
    PROVE  Lock'
<1>t. Lock /\ pc \in [Tasks -> TaskSteps]
  BY DEF IInvLock, Lock, SlotsTyped
<1> USE DEF Goto, TaskSteps, Waiting, ReadSteps, WriteSteps
<1>1. CASE Grant
  BY <1>t, <1>1, Granted
<1>2. ASSUME NEW t \in Tasks, Call(t) \/ BeginOk(t) \/ GiveUp(t) \/ Send(t) PROVE Lock'
  <2>1. \E step \in {"idle", "fetch"} : pc' = [pc EXCEPT ![t] = step]
    BY <1>2 DEF Call, BeginOk, GiveUp, Send
  <2>2. pc[t] \in {"idle", "begin", "make", "send"} /\ UNCHANGED lock
    BY <1>2 DEF Call, BeginOk, GiveUp, Send
  <2> QED BY <1>t, <2>1, <2>2, GoesOnWithout
<1>3. ASSUME NEW t \in Tasks, FetchIndex(t) \/ BeginFails(t) \/ MakeOne(t) PROVE Lock'
  <2>1. \E step \in Waiting : Request(t, step)
    BY <1>3 DEF FetchIndex, BeginFails, MakeOne
  <2>2. pc[t] \in {"fetch", "begin", "make"}
    BY <1>3 DEF FetchIndex, BeginFails, MakeOne
  <2> QED BY <1>t, <2>1, <2>2, Asks
<1>4. ASSUME NEW t \in Tasks, Look(t), ~Release(t) PROVE Lock'
  <2>1. pc' = [pc EXCEPT ![t] = "await"] /\ pc[t] = "look" /\ UNCHANGED lock
    BY <1>4 DEF Look
  <2>2. /\ {u \in Tasks : pc'[u] \in ReadSteps} = {u \in Tasks : pc[u] \in ReadSteps}
        /\ {u \in Tasks : pc'[u] \in WriteSteps} = {u \in Tasks : pc[u] \in WriteSteps}
        /\ {u \in Tasks : pc'[u] \in Waiting} = {u \in Tasks : pc[u] \in Waiting}
    BY <1>t, <2>1
  <2>3. WriterAlone'
    BY <1>t, <2>1 DEF Lock, WriterAlone
  <2> QED BY <1>t, <2>1, <2>2, <2>3 DEF Lock, LockAgrees, QueueOnce, lock
<1>5. ASSUME NEW t \in Tasks, Release(t), Look(t) \/ AwaitChange(t) \/ Take(t) \/ Put(t)
      PROVE  Lock'
  <2>1. CASE \E step \in {"begin", "fetch", "make", "send"} : pc' = [pc EXCEPT ![t] = step]
    <3>1. pc[t] \in {"look", "await", "take", "put"}
      BY <1>5 DEF Look, AwaitChange, Take, Put
    <3> QED BY <1>t, <1>5, <2>1, <3>1, GivesBack
  <2>2. CASE Look(t) /\ pc' = [pc EXCEPT ![t] = "await"]
    <3>1. UNCHANGED lock /\ pc[t] = "look"
      BY <1>t, <1>5, <2>2 DEF Look
    <3>2. t \in readers /\ t \notin readers'
      BY <1>t, <1>5, <3>1 DEF Lock, LockAgrees, Release
    <3> QED BY <3>1, <3>2 DEF lock
  <2> QED BY <1>5, <2>1, <2>2 DEF Look, AwaitChange, Take, Put
<1>6. CASE UNCHANGED vars
  BY <1>t, <1>6 DEF vars, Lock, LockAgrees, QueueOnce, WriterAlone
<1>7. ASSUME NEW t \in Tasks, AwaitChange(t) \/ Take(t) \/ Put(t) PROVE Release(t)
  BY <1>7 DEF AwaitChange, Take, Put
<1> QED BY <1>1, <1>2, <1>3, <1>4, <1>5, <1>6, <1>7 DEF Next, Step

-----------------------------------------------------------------------------

\* The bookkeeping is an invariant.
LEMMA LockInvariance == Spec => []IInvLock
<1>1. Init => IInvLock
  <2> SUFFICES ASSUME Init PROVE IInvLock
    OBVIOUS
  <2>1. SlotsTyped
    BY ConstantsAssumption DEF Init, SlotsTyped, SlotIds, TaskSteps
  <2>5. CountersTyped
    <3>1. sent \in BOOLEAN
      BY DEF Init
    <3>2. misses \in [Tasks -> 0..(Slots + 1)] /\ \A t \in Tasks : misses[t] <= Slots
      BY ConstantsAssumption DEF Init
    <3>3. outages \in 0..MaxOutages /\ giveups \in 0..MaxGiveUps
      BY ConstantsAssumption DEF Init
    <3> QED BY <3>1, <3>2, <3>3 DEF CountersTyped
  <2>2. queue = <<>> /\ Len(queue) = 0 /\ queue \in Seq(Tasks) /\ ToSet(queue) = {}
    BY DEF Init, ToSet
  <2>3. QueueOnce
    BY <2>2 DEF QueueOnce
  <2>4. LockAgrees /\ WriterAlone
    BY <2>2 DEF Init, LockAgrees, WriterAlone, ReadSteps, WriteSteps, Waiting
  <2> QED BY <2>1, <2>3, <2>4, <2>5 DEF IInvLock
<1>2. IInvLock /\ [Next]_vars => IInvLock'
  <2> SUFFICES ASSUME IInvLock, [Next]_vars PROVE IInvLock'
    OBVIOUS
  <2> QED BY SlotsTypedInductive, CountersInductive, LockInductive DEF IInvLock, Lock
<1> QED BY <1>1, <1>2, PTL DEF Spec

\* Type correctness: the sets of readers and writers and the queue of the lock
\* are the tasks that are at the corresponding steps of give_one and
\* replace_one_due_to_error, whatever the order in which the lock is granted.
THEOREM TypeCorrect == Spec => []TypeOK
<1>1. IInvLock => TypeOK
  BY DEF IInvLock, SlotsTyped, CountersTyped, LockAgrees, TypeOK
<1> QED BY <1>1, LockInvariance, PTL

\* A slot is re-created by at most one task, never while it holds a client,
\* and an empty slot is being re-created unless a re-creation was given up.
THEOREM SlotsOwned == Spec => []SlotOwned
<1>1. Init => IInvSlots
  <2> SUFFICES ASSUME Init PROVE IInvSlots
    OBVIOUS
  <2>1. SlotsTyped
    BY ConstantsAssumption DEF Init, SlotsTyped, SlotIds, TaskSteps
  <2>2. SlotOwned
    BY DEF Init, SlotOwned, Replacing
  <2> QED BY <2>1, <2>2 DEF IInvSlots
<1>2. IInvSlots /\ [Next]_vars => IInvSlots'
  BY SlotsTypedInductive, SlotOwnedInductive DEF IInvSlots
<1>3. IInvSlots => SlotOwned
  BY DEF IInvSlots
<1> QED BY <1>1, <1>2, <1>3, PTL DEF Spec

=============================================================================
