----------------------------- MODULE ClientMux -----------------------------
(***************************************************************************)
(* TransactionClientMux: a fixed number of TiKV clients behind a tokio     *)
(* RwLock, handed out round robin.  A task whose client fails takes it out *)
(* of its slot, makes a new one without the lock and puts it back.  Tasks  *)
(* that find only empty slots wait on a watch channel, with the read lock  *)
(* still in their hands.                                                   *)
(***************************************************************************)
EXTENDS Integers, Sequences, SequencesExt

CONSTANTS
    Tasks,        \* tasks that ask for a transaction
    Slots,        \* number of slots (16 in the code)
    MaxOutages,   \* bound: begin_with_options calls that fail
    MaxGiveUps    \* bound: re-creations that fail after all retries

ASSUME ConstantsAssumption ==
    /\ Slots \in Nat \ {0}
    /\ MaxOutages \in Nat /\ MaxGiveUps \in Nat

SlotIds == 0..(Slots - 1)

VARIABLES
    filled,    \* the slots that hold a client
    idx,       \* the round robin counter, modulo Slots
    sent,      \* a new client has been sent on the watch channel
    readers,   \* tasks that hold the read lock
    writer,    \* {} or the task that holds the write lock
    queue,     \* tasks waiting for the lock: tokio serves them in order
    pc, slot,  \* task -> its step and the slot it works on
    misses,    \* task -> i of give_one: the empty slots it has seen
    outages, giveups

lock == <<readers, writer, queue>>
vars == <<filled, idx, sent, readers, writer, queue, pc, slot, misses, outages, giveups>>

Waiting == {"wait_read", "wait_take", "wait_put"}
ReadSteps == {"look", "await"}
WriteSteps == {"take", "put"}
TaskSteps == {"idle", "fetch", "begin", "make", "send"} \cup Waiting \cup ReadSteps \cup WriteSteps

TypeOK ==
    /\ filled \in SUBSET SlotIds
    /\ idx \in SlotIds
    /\ sent \in BOOLEAN
    /\ readers = {t \in Tasks : pc[t] \in ReadSteps}
    /\ writer = {t \in Tasks : pc[t] \in WriteSteps}
    /\ ToSet(queue) = {t \in Tasks : pc[t] \in Waiting}
    /\ pc \in [Tasks -> TaskSteps]
    /\ slot \in [Tasks -> SlotIds]
    /\ misses \in [Tasks -> 0..(Slots + 1)]
    /\ outages \in 0..MaxOutages
    /\ giveups \in 0..MaxGiveUps

Init ==
    /\ filled = SlotIds
    /\ idx = 0
    /\ sent = FALSE
    /\ readers = {} /\ writer = {} /\ queue = <<>>
    /\ pc = [t \in Tasks |-> "idle"]
    /\ slot = [t \in Tasks |-> 0]
    /\ misses = [t \in Tasks |-> 0]
    /\ outages = 0 /\ giveups = 0

-----------------------------------------------------------------------------

Goto(t, step) == pc' = [pc EXCEPT ![t] = step]

\* Ask for the lock; the task goes on when Grant has served it.
Request(t, step) ==
    /\ queue' = Append(queue, t)
    /\ Goto(t, step)
    /\ UNCHANGED <<readers, writer>>

\* tokio::sync::RwLock: first come, first served, readers together.
Grant ==
    /\ queue # <<>>
    /\ writer = {}
    /\ LET t == Head(queue) IN
       /\ \/ /\ pc[t] = "wait_read"
             /\ readers' = readers \cup {t}
             /\ Goto(t, "look")
             /\ UNCHANGED writer
          \/ /\ pc[t] \in {"wait_take", "wait_put"}
             /\ readers = {}
             /\ writer' = {t}
             /\ Goto(t, IF pc[t] = "wait_take" THEN "take" ELSE "put")
             /\ UNCHANGED readers
    /\ queue' = Tail(queue)
    /\ UNCHANGED <<filled, idx, sent, slot, misses, outages, giveups>>

\* The guard goes out of scope.
Release(t) ==
    /\ readers' = readers \ {t}
    /\ writer' = writer \ {t}
    /\ UNCHANGED queue

\* give_one_transaction calls give_one with no misses yet.
Call(t) ==
    /\ pc[t] = "idle"
    /\ misses' = [misses EXCEPT ![t] = 0]
    /\ Goto(t, "fetch")
    /\ UNCHANGED <<filled, idx, sent, lock, slot, outages, giveups>>

\* give_one: idx.fetch_add, then the read lock.
FetchIndex(t) ==
    /\ pc[t] = "fetch"
    /\ slot' = [slot EXCEPT ![t] = idx]
    /\ idx' = (idx + 1) % Slots
    /\ Request(t, "wait_read")
    /\ UNCHANGED <<filled, sent, misses, outages, giveups>>

\* The slot has a client, or it is empty: try the next, or wait for a new
\* client when more slots were empty than there are.
Look(t) ==
    /\ pc[t] = "look"
    /\ \/ /\ slot[t] \in filled
          /\ Release(t)
          /\ Goto(t, "begin")
          /\ UNCHANGED misses
       \/ /\ slot[t] \notin filled
          /\ misses' = [misses EXCEPT ![t] = @ + 1]
          /\ \/ /\ misses[t] + 1 <= Slots
                /\ Release(t)
                /\ Goto(t, "fetch")
             \/ /\ misses[t] + 1 > Slots
                /\ Goto(t, "await")
                /\ UNCHANGED lock
    /\ UNCHANGED <<filled, idx, sent, slot, outages, giveups>>

\* channel.changed() on a clone of the receiver that has never been read: it
\* returns as soon as anything was ever sent.
AwaitChange(t) ==
    /\ pc[t] = "await"
    /\ sent
    /\ Release(t)
    /\ misses' = [misses EXCEPT ![t] = 0]
    /\ Goto(t, "fetch")
    /\ UNCHANGED <<filled, idx, sent, slot, outages, giveups>>

\* begin_with_options succeeds and the transaction is returned, or it fails
\* and replace_one_due_to_error is called.
BeginOk(t) ==
    /\ pc[t] = "begin"
    /\ Goto(t, "idle")
    /\ UNCHANGED <<filled, idx, sent, lock, slot, misses, outages, giveups>>

BeginFails(t) ==
    /\ pc[t] = "begin"
    /\ outages < MaxOutages
    /\ outages' = outages + 1
    /\ Request(t, "wait_take")
    /\ UNCHANGED <<filled, idx, sent, slot, misses, giveups>>

\* Mutant: whether somebody else has taken the client is not checked.
MutTake(t) ==
    /\ pc[t] = "take"
    /\ filled' = filled \ {slot[t]}
    /\ Release(t)
    /\ Goto(t, "make")
    /\ UNCHANGED <<idx, sent, slot, misses, outages, giveups>>

\* replace_one_due_to_error: take the client out; if somebody else was first,
\* start over with give_one.
Take(t) ==
    /\ pc[t] = "take"
    /\ filled' = filled \ {slot[t]}
    /\ Release(t)
    /\ \/ /\ slot[t] \in filled
          /\ Goto(t, "make")
          /\ UNCHANGED misses
       \/ /\ slot[t] \notin filled
          /\ Goto(t, "fetch")
          /\ misses' = [misses EXCEPT ![t] = 0]
    /\ UNCHANGED <<idx, sent, slot, outages, giveups>>

\* make_one, with its retries: a new client, or an error for the caller.
MakeOne(t) ==
    /\ pc[t] = "make"
    /\ Request(t, "wait_put")
    /\ UNCHANGED <<filled, idx, sent, slot, misses, outages, giveups>>

GiveUp(t) ==
    /\ pc[t] = "make"
    /\ giveups < MaxGiveUps
    /\ giveups' = giveups + 1
    /\ Goto(t, "idle")
    /\ UNCHANGED <<filled, idx, sent, lock, slot, misses, outages>>

\* Mutant: the new client is not put into its slot.
MutPut(t) ==
    /\ pc[t] = "put"
    /\ UNCHANGED filled
    /\ Release(t)
    /\ Goto(t, "send")
    /\ UNCHANGED <<idx, sent, slot, misses, outages, giveups>>

Put(t) ==
    /\ pc[t] = "put"
    /\ filled' = filled \cup {slot[t]}
    /\ Release(t)
    /\ Goto(t, "send")
    /\ UNCHANGED <<idx, sent, slot, misses, outages, giveups>>

\* new_client_tx.send, then give_one once more.
Send(t) ==
    /\ pc[t] = "send"
    /\ sent' = TRUE
    /\ misses' = [misses EXCEPT ![t] = 0]
    /\ Goto(t, "fetch")
    /\ UNCHANGED <<filled, idx, lock, slot, outages, giveups>>

Step(t) ==
    \/ FetchIndex(t)
    \/ Look(t)
    \/ AwaitChange(t)
    \/ BeginOk(t)
    \/ BeginFails(t)
    \/ Take(t)
    \/ MakeOne(t)
    \/ GiveUp(t)
    \/ Put(t)
    \/ Send(t)

Next == Grant \/ \E t \in Tasks : Call(t) \/ Step(t)

\* Every task that can run is polled by the tokio runtime, and the lock is
\* handed on as soon as it is free.
Fairness == WF_vars(Grant) /\ \A t \in Tasks : WF_vars(Step(t))

Spec == Init /\ [][Next]_vars /\ Fairness

-----------------------------------------------------------------------------

\* The tasks that have taken the client of slot i out and bring a new one.
Replacing(i) == {t \in Tasks : pc[t] \in {"make", "wait_put", "put"} /\ slot[t] = i}

\* A slot is never re-created by two tasks, never while it still holds a
\* client (we_were_first in replace_one_due_to_error), and an empty one always
\* is, unless a re-creation has failed for good.
SlotOwned ==
    \A i \in SlotIds :
        /\ i \in filled => Replacing(i) = {}
        /\ \A t, u \in Replacing(i) : t = u
        /\ i \notin filled /\ giveups = 0 => Replacing(i) # {}

\* When a new client has been sent once and no re-creation is given up, every
\* task gets its transaction: whoever waits on the channel of give_one releases
\* the read lock again, so that replace_one_due_to_error can put the new client
\* into its slot.  (A slot that stays empty can starve a task: whenever it is
\* its turn, the round-robin index may point to that slot.)
ServedOnceSent ==
    [](giveups = 0) => \A t \in Tasks : (sent /\ pc[t] # "idle") ~> pc[t] = "idle"

=============================================================================
