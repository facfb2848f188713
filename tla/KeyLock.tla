------------------------------ MODULE KeyLock ------------------------------
(***************************************************************************)
(* The distributed key lock: Szymanski's critical section, with the state  *)
(* of every participant published under a key of its own.  Publishing a    *)
(* state and scanning the states of the others are separate TiKV           *)
(* transactions, so each is one action.  A scan sees one snapshot of all   *)
(* states.  A poll that finds its condition false scans again; that is no  *)
(* step here.                                                              *)
(***************************************************************************)
EXTENDS Integers

CONSTANTS
    Ids,         \* the UUIDs of the lock objects, ordered by <
    MaxFailures  \* bound: lock objects that fail or crash half-way

ASSUME LockAssumption == Ids \subseteq Nat /\ MaxFailures \in Nat

\* SzymanskisState; a missing key reads as S0Noncritical.
S0Noncritical == 0
S1Intention == 1
S2WaitingRoom == 2
S3DoorIn == 3
S4DoorOut == 4

VARIABLES
    state,    \* id -> the published state
    turn,     \* id -> the next transaction of enter or leave
    failures

lockVars == <<state, turn, failures>>

LockSteps == {"outside", "poll_open", "put_door_in", "scan", "put_waiting", "poll_out",
              "put_door_out", "poll_lower", "entered", "put_noncritical", "gone"}

LockTypeOK ==
    /\ state \in [Ids -> S0Noncritical..S4DoorOut]
    /\ turn \in [Ids -> LockSteps]
    /\ failures \in 0..MaxFailures

LockInit ==
    /\ state = [p \in Ids |-> S0Noncritical]
    /\ turn = [p \in Ids |-> "outside"]
    /\ failures = 0

-----------------------------------------------------------------------------

\* get_current_states_excluding_mine
Others(p) == Ids \ {p}

\* change_own_state: at step `at`, publish s and go on with step `to`.
ChangeOwnState(p, at, s, to) ==
    /\ turn[p] = at
    /\ state' = [state EXCEPT ![p] = s]
    /\ turn' = [turn EXCEPT ![p] = to]
    /\ UNCHANGED failures

\* poll_for_condition: the condition holds in the scan of step `at`.
Poll(p, at, condition, to) ==
    /\ turn[p] = at
    /\ condition
    /\ turn' = [turn EXCEPT ![p] = to]
    /\ UNCHANGED <<state, failures>>

\* enter, in the order of its transactions
Intend(p) == ChangeOwnState(p, "outside", S1Intention, "poll_open")

\* Mutant: the door is not closed by a participant in the doorway.
MutPollOpen(p) ==
    Poll(p, "poll_open", \A q \in Others(p) : state[q] <= S3DoorIn, "put_door_in")

PollOpen(p) ==
    Poll(p, "poll_open", \A q \in Others(p) : state[q] <= S2WaitingRoom, "put_door_in")

DoorIn(p) == ChangeOwnState(p, "put_door_in", S3DoorIn, "scan")

\* Is another one waiting before the door?
Scan(p) ==
    \/ Poll(p, "scan", \E q \in Others(p) : state[q] = S1Intention, "put_waiting")
    \/ Poll(p, "scan", \A q \in Others(p) : state[q] # S1Intention, "put_door_out")

WaitingRoom(p) == ChangeOwnState(p, "put_waiting", S2WaitingRoom, "poll_out")

\* Mutant: somebody in the doorway is enough to leave the waiting room.
MutPollOut(p) ==
    Poll(p, "poll_out", \E q \in Others(p) : state[q] >= S3DoorIn, "put_door_out")

PollOut(p) ==
    Poll(p, "poll_out", \E q \in Others(p) : state[q] = S4DoorOut, "put_door_out")

DoorOut(p) == ChangeOwnState(p, "put_door_out", S4DoorOut, "poll_lower")

PollLower(p) ==
    Poll(p, "poll_lower",
         \A q \in Others(p) : q >= p \/ state[q] <= S1Intention, "entered")

\* Mutant: leave does not wait for the participants in the waiting room.
MutPollHigher(p) == Poll(p, "entered", TRUE, "put_noncritical")

\* leave
PollHigher(p) ==
    Poll(p, "entered",
         \A q \in Others(p) :
             q <= p \/ state[q] \in {S0Noncritical, S1Intention, S4DoorOut},
         "put_noncritical")

Exit(p) == ChangeOwnState(p, "put_noncritical", S0Noncritical, "outside")

\* The process stops, or an error leaves enter or leave through `?`: the
\* published state stays behind and the lock object is never used again.
Fail(p) ==
    /\ turn[p] \notin {"outside", "gone"}
    /\ failures < MaxFailures
    /\ failures' = failures + 1
    /\ turn' = [turn EXCEPT ![p] = "gone"]
    /\ UNCHANGED state

LockStep(p) ==
    \/ PollOpen(p)
    \/ DoorIn(p)
    \/ Scan(p)
    \/ WaitingRoom(p)
    \/ PollOut(p)
    \/ DoorOut(p)
    \/ PollLower(p)
    \/ PollHigher(p)
    \/ Exit(p)

LockNext == \E p \in Ids : Intend(p) \/ LockStep(p) \/ Fail(p)

LockSpec == LockInit /\ [][LockNext]_lockVars

\* enter and leave scan in a loop until their condition holds, and whoever
\* entered leaves: unlock or the Drop implementation calls leave.
FairLockSpec == LockSpec /\ \A p \in Ids : WF_lockVars(LockStep(p))

-----------------------------------------------------------------------------

InCriticalSection(p) == turn[p] \in {"entered", "put_noncritical"}

\* At most one lock object is between a successful enter and the end of its
\* leave, also when others fail and leave their published states behind.
MutualExclusion ==
    \A p, q \in Ids : InCriticalSection(p) /\ InCriticalSection(q) => p = q

\* Without failures every enter succeeds: nobody is left in the waiting room
\* and nobody starves before the door, although the scans of poll_for_condition
\* only sample the states.
EnterSucceeds ==
    [](failures = 0) => \A p \in Ids : turn[p] = "poll_open" ~> turn[p] = "entered"

\* q is going out through the second door, or stopped there.
GoingOut(q) == turn[q] = "put_door_out" \/ state[q] = S4DoorOut

\* Once somebody goes out through the second door, nobody passes the first one
\* until everybody in between is through: who arrives later waits.
DoorClosed ==
    \A p, q \in Ids : GoingOut(q) => turn[p] # "put_door_in"

=============================================================================
