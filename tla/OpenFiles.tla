----------------------------- MODULE OpenFiles ------------------------------
(***************************************************************************)
(* The open files of one mount: the table of file handles, the uses of an  *)
(* inode that keep it from being deleted, and the way of a write from the  *)
(* kernel's request through the write cache (spawned futures) and the      *)
(* accumulator of its handle to the store, with the requests open, write,  *)
(* flush, fsync, read and release of the kernel running concurrently.      *)
(*                                                                         *)
(* All opens are of one inode.  A handle is named by the number of the     *)
(* open that made it, fh is the number under which the kernel knows it.    *)
(***************************************************************************)
EXTENDS Naturals, Sequences, FiniteSets, Functions

CONSTANTS
    MaxTasks,     \* bound: requests that are served at the same time
    MaxWrites,    \* bound: write requests, each with data of its own
    Writable,     \* the opens that are for writing (OpenMode)
    Limit,        \* write_in_progress_limit
    Threshold,    \* write_accumulator_flush_threshold, in writes
    MaxOpens,     \* bound: calls of open
    MaxSyncs,     \* bound: calls of flush, fsync and read
    MaxFails      \* bound: requests to the store that fail

ASSUME OpenFilesAssumption ==
    /\ Limit \in Nat \ {0} /\ Threshold \in Nat
    /\ MaxTasks \in Nat /\ MaxWrites \in Nat /\ Writable \subseteq Nat
    /\ MaxOpens \in Nat /\ MaxSyncs \in Nat /\ MaxFails \in Nat

None == "none"
Writes == 1..MaxWrites
Tasks == (MaxWrites + 1)..(MaxWrites + MaxTasks)
Handles == 1..MaxOpens
Uses == 1..(MaxOpens + MaxFails)

VARIABLES
    task,      \* what the requests under way are and where they are
    table,     \* TiFsMutable.file_handlers: fh -> handle
    freed,     \* freed_fhs
    next_fh,   \* next_fh
    opened,    \* opened_ino of the inode: a weak pointer to its use
    useOf,     \* FileHandler.ino_use, with 0 for handles not made yet
    fhOf,      \* handles that the kernel has and has not released -> fh
    uses,      \* the store: published uses of the inode
    leaked,    \* uses that nobody will close any more
    made,      \* uses made so far
    lock,      \* the task with the lock of FileHandler.write_cache, or 0
    stage,     \* AsyncParallelPipeStage.in_progress
    acc,       \* FileHandler.write_accumulator
    fut,       \* the spun closures: spawned writes, and flushes of a task
    stored,    \* the store: writes whose data is stored
    lost,      \* writes in a batch that failed
    acked,     \* writes that were answered without an error
    durable,   \* writes that an answered flush or release has covered
    opens, syncs, fails

files == <<table, freed, next_fh, useOf, fhOf>>
inode == <<opened, uses, leaked, made>>
cache == <<lock, stage, acc, fut>>
data == <<stored, lost, acked, durable>>
bounds == <<opens, syncs, fails>>
vars == <<task, files, inode, cache, data, bounds>>

Idle == [op |-> None, pc |-> None, handle |-> 0, use |-> 0, write |-> 0, covers |-> {}]
Free(t) == task[t] = Idle
\* Tasks are alike: a new request is served by the first one that is free.
Serves(t) == Free(t) /\ \A s \in Tasks : s < t => ~Free(s)
At(t, step) == task[t].pc = step
Goto(t, step) == task' = [task EXCEPT ![t].pc = step]
Reply(t) == task' = [task EXCEPT ![t] = Idle]

NoFut == [step |-> None, handle |-> 0, batch |-> <<>>]
Done(r) == fut[r].step \in {"ok", "err"}

\* A handle lives while the table, a request or a spawned write has it.
HandleAlive(h) ==
    \/ h \in Range(table)
    \/ \E t \in Tasks : task[t].handle = h
    \/ \E w \in Writes : fut[w].handle = h /\ fut[w].step \in {"push", "store"}

\* Mutant: opened_ino keeps the use alive.
MutUseAlive(u) == \/ u = opened
                  \/ \E h \in Handles : useOf[h] = u /\ HandleAlive(h)
                  \/ \E t \in Tasks : task[t].use = u

\* Whether the weak pointer to a use can be upgraded.
UseAlive(u) ==
    \/ \E h \in Handles : useOf[h] = u /\ HandleAlive(h)
    \/ \E t \in Tasks : task[t].use = u

Init ==
    /\ task = [t \in Tasks |-> Idle]
    /\ table = <<>> /\ freed = {} /\ next_fh = 0
    /\ opened = 0 /\ useOf = [h \in Handles |-> 0] /\ fhOf = <<>>
    /\ uses = {} /\ leaked = {} /\ made = 0
    /\ lock = [h \in Handles |-> 0]
    /\ stage = [h \in Handles |-> {}]
    /\ acc = [h \in Handles |-> <<>>]
    /\ fut = [r \in Writes \cup Tasks |-> NoFut]
    /\ stored = {} /\ lost = {} /\ acked = {} /\ durable = {}
    /\ opens = 0 /\ syncs = 0 /\ fails = 0

-----------------------------------------------------------------------------
(***************************************************************************)
(* open                                                                    *)
(***************************************************************************)

\* Mutant: the weak pointer is not upgraded.
MutGetInoUse == opened

get_ino_use == IF opened # 0 /\ UseAlive(opened) THEN opened ELSE 0

Open(t) ==
    /\ Serves(t)
    /\ opens < MaxOpens
    /\ opens' = opens + 1
    /\ task' = [task EXCEPT ![t] =
            [Idle EXCEPT !.op = "open", !.use = get_ino_use,
                         !.pc = IF get_ino_use = 0 THEN "publish" ELSE "install"]]
    /\ UNCHANGED <<files, inode, cache, data, syncs, fails>>

\* The spun call of txn.open
Publish(t) ==
    /\ At(t, "publish")
    /\ made' = made + 1
    /\ uses' = uses \cup {made'}
    /\ task' = [task EXCEPT ![t].pc = "register", ![t].use = made']
    /\ UNCHANGED <<files, opened, leaked, cache, data, bounds>>

\* It fails, after or before it took effect, and is repeated or given up.
PublishFails(t) ==
    /\ At(t, "publish")
    /\ fails < MaxFails /\ fails' = fails + 1
    /\ \/ UNCHANGED <<uses, leaked, made>>
       \/ /\ made' = made + 1
          /\ uses' = uses \cup {made'}
          /\ leaked' = leaked \cup {made'}
    /\ UNCHANGED task \/ Reply(t)
    /\ UNCHANGED <<files, opened, cache, data, opens, syncs>>

Register(t) ==
    /\ At(t, "register")
    /\ opened' = task[t].use
    /\ Goto(t, "install")
    /\ UNCHANGED <<files, uses, leaked, made, cache, data, bounds>>

\* Mutant: next_fh is not advanced.
MutGetFreeFh(fh) ==
    \/ fh \in freed /\ freed' = freed \ {fh} /\ UNCHANGED next_fh
    \/ freed = {} /\ fh = next_fh /\ UNCHANGED <<freed, next_fh>>

get_free_fh(fh) ==
    \/ fh \in freed /\ freed' = freed \ {fh} /\ UNCHANGED next_fh
    \/ freed = {} /\ fh = next_fh /\ next_fh' = next_fh + 1 /\ UNCHANGED freed

Install(t) ==
    /\ At(t, "install")
    /\ \E h \in Handles, fh \in 0..next_fh :
        /\ useOf[h] = 0 /\ \A g \in 1..(h - 1) : useOf[g] # 0
        /\ get_free_fh(fh)
        /\ table' = [x \in DOMAIN table \cup {fh} |-> IF x = fh THEN h ELSE table[x]]
        /\ useOf' = [useOf EXCEPT ![h] = task[t].use]
        /\ fhOf' = [g \in DOMAIN fhOf \cup {h} |-> IF g = h THEN fh ELSE fhOf[g]]
    /\ Reply(t)
    /\ UNCHANGED <<inode, cache, data, bounds>>

\* Drop of InoUse: release_inode_use is spawned and closes the use, or fails
\* and is only logged.
CloseUse(u) ==
    /\ u \in uses \ leaked
    /\ ~UseAlive(u)
    /\ uses' = uses \ {u}
    /\ UNCHANGED <<task, files, opened, leaked, made, cache, data, bounds>>

CloseUseFails(u) ==
    /\ u \in uses \ leaked
    /\ ~UseAlive(u)
    /\ fails < MaxFails /\ fails' = fails + 1
    /\ leaked' = leaked \cup {u}
    /\ UNCHANGED <<task, files, opened, uses, made, cache, data, opens, syncs>>

-----------------------------------------------------------------------------
(***************************************************************************)
(* write                                                                   *)
(***************************************************************************)

\* Mutant: release does not flush.
MutFirstStep(op) == IF op = "release" THEN "remove" ELSE "lock"

FirstStep(op) == "lock"

\* The kernel sends a request for a handle that it has; covers are the
\* writes that a flush or a release makes durable.
Request(t, op, h, w) ==
    /\ Serves(t)
    /\ h \in DOMAIN fhOf
    /\ fhOf[h] \in DOMAIN table
    /\ LET handle == table[fhOf[h]]
           covers == IF op \in {"flush", "release"}
                     THEN {v \in acked \ durable : fut[v].handle = handle} ELSE {}
       IN task' = [task EXCEPT ![t] =
            [Idle EXCEPT !.op = op, !.pc = FirstStep(op), !.handle = handle,
                         !.write = w, !.covers = covers]]

\* Only handles with open_mode.allows_write() get past the first checks.
Write(t, h, w) ==
    /\ h \in Writable
    /\ fut[w] = NoFut
    /\ \A s \in Tasks : task[s].write # w
    /\ \A v \in 1..(w - 1) : fut[v] # NoFut \/ \E s \in Tasks : task[s].write = v
    /\ Request(t, "write", h, w)
    /\ UNCHANGED <<files, inode, cache, data, bounds>>

Unlock(h) == lock' = [lock EXCEPT ![h] = 0]

\* The end of write: the results of the earlier writes that were awaited by
\* this call are taken, and the first error among them is the answer.
\* (AsyncParallelPipeStage.results is empty whenever the lock is free.)
AnswerWrite(t, h, taken) ==
    /\ acked' = IF \E v \in taken : fut[v].step = "err" THEN acked
                ELSE acked \cup {task[t].write}
    /\ Unlock(h)
    /\ Reply(t)

\* The future of a write whose result was taken.
Taken(h) == [NoFut EXCEPT !.step = "taken", !.handle = h]

\* Mutant: one write too many may be in progress.
MutFull(inProgress) == Cardinality(inProgress) > Limit

Full(inProgress) == Cardinality(inProgress) >= Limit

\* write_cache.push: the write is spawned; a full stage waits for one.
Push(t) ==
    LET h == task[t].handle
        w == task[t].write
    IN
    /\ At(t, "lock") /\ task[t].op = "write"
    /\ lock[h] = 0
    /\ fut' = [fut EXCEPT ![w] = [NoFut EXCEPT !.step = "push", !.handle = h]]
    /\ stage' = [stage EXCEPT ![h] = @ \cup {w}]
    /\ IF Full(stage[h] \cup {w})
       THEN /\ lock' = [lock EXCEPT ![h] = t]
            /\ Goto(t, "full")
            /\ UNCHANGED acked
       ELSE AnswerWrite(t, h, {})
    /\ UNCHANGED <<files, inode, acc, stored, lost, durable, bounds>>

AwaitOne(t) ==
    LET h == task[t].handle IN
    /\ At(t, "full")
    /\ \E v \in stage[h] :
        /\ Done(v)
        /\ stage' = [stage EXCEPT ![h] = @ \ {v}]
        /\ fut' = [fut EXCEPT ![v] = Taken(h)]
        /\ AnswerWrite(t, h, {v})
    /\ UNCHANGED <<files, inode, acc, stored, lost, durable, bounds>>

-----------------------------------------------------------------------------
(***************************************************************************)
(* The closures that spin runs: TxnArc::write of a spawned write (r is the *)
(* write) or of a flush (r is the task).  None of them needs write_cache.  *)
(***************************************************************************)

\* Whether all that was accumulated is taken for hb_write_data.
TakeBatch(r, joined) == r \in Tasks \/ Len(joined) > Threshold

\* The write joins the accumulator, and takes it when it is long enough.
\* Then hb_write_data begins, unless there is nothing to write.
Accumulate(r) ==
    LET h == fut[r].handle
        joined == IF r \in Writes THEN Append(acc[h], r) ELSE acc[h]
    IN
    /\ fut[r].step = "push"
    /\ IF TakeBatch(r, joined)
       THEN /\ acc' = [acc EXCEPT ![h] = <<>>]
            /\ fut' = [fut EXCEPT ![r].batch = joined,
                                  ![r].step = IF joined = <<>> THEN "ok" ELSE "store"]
       ELSE /\ acc' = [acc EXCEPT ![h] = joined]
            /\ fut' = [fut EXCEPT ![r].step = "ok"]
    /\ UNCHANGED <<task, files, inode, lock, stage, data, bounds>>

\* hb_write_data (FileBlocks): every job of the batch is written.
StoreBatch(r) ==
    /\ fut[r].step = "store"
    /\ stored' = stored \cup Range(fut[r].batch)
    /\ fut' = [fut EXCEPT ![r].step = "ok", ![r].batch = <<>>]
    /\ UNCHANGED <<task, files, inode, lock, stage, acc, lost, acked, durable, bounds>>

\* It fails when some of the blocks are written.  The batch is dropped: an
\* unknown error repeats the closure, which has only its own data left.
StoreFails(r) ==
    /\ fut[r].step = "store"
    /\ fails < MaxFails /\ fails' = fails + 1
    /\ \E written \in SUBSET Range(fut[r].batch) :
        /\ stored' = stored \cup written
        /\ lost' = lost \cup (Range(fut[r].batch) \ written)
    /\ \E step \in {"push", "err"} :
        fut' = [fut EXCEPT ![r].step = step, ![r].batch = <<>>]
    /\ UNCHANGED <<task, files, inode, lock, stage, acc, acked, durable, opens, syncs>>

-----------------------------------------------------------------------------
(***************************************************************************)
(* flush and fsync, read, release                                          *)
(***************************************************************************)

Sync(t, op, h) ==
    /\ op \in {"flush", "read"}
    /\ syncs < MaxSyncs /\ syncs' = syncs + 1
    /\ Request(t, op, h, 0)
    /\ UNCHANGED <<files, inode, cache, data, opens, fails>>

\* The kernel's last request for a handle.
Release(t, h) ==
    /\ Request(t, "release", h, 0)
    /\ \A s \in Tasks : task[s].handle # h
    /\ fhOf' = Restrict(fhOf, DOMAIN fhOf \ {h})
    /\ UNCHANGED <<table, freed, next_fh, useOf, inode, cache, data, bounds>>

LockCache(t) ==
    LET h == task[t].handle IN
    /\ At(t, "lock") /\ task[t].op # "write"
    /\ lock[h] = 0
    /\ lock' = [lock EXCEPT ![h] = t]
    /\ Goto(t, "drain")
    /\ UNCHANGED <<files, inode, stage, acc, fut, data, bounds>>

\* Mutant: what is in progress is not waited for.
MutDrained(h) == TRUE

\* wait_finish_all
Drained(h) == \A v \in stage[h] : Done(v)

TakeResults(h) ==
    [r \in DOMAIN fut |-> IF r \in stage[h] THEN Taken(h) ELSE fut[r]]

\* flush_write_cache ends with the first error; a read looks at none.
FirstError(op, h) ==
    op # "read" /\ \E v \in stage[h] : fut[v].step = "err"

Drain(t) ==
    LET h == task[t].handle IN
    /\ At(t, "drain")
    /\ Drained(h)
    /\ stage' = [stage EXCEPT ![h] = {}]
    /\ IF task[t].op = "read" \/ FirstError(task[t].op, h)
       THEN /\ Unlock(h)
            /\ Reply(t)
            /\ fut' = TakeResults(h)
       ELSE /\ fut' = [TakeResults(h) EXCEPT ![t] = [NoFut EXCEPT !.step = "push", !.handle = h]]
            /\ Goto(t, "sync")
            /\ UNCHANGED lock
    /\ UNCHANGED <<files, inode, acc, data, bounds>>

\* The flush has returned; its error ends release too, before the handle
\* is taken out of the table.
SyncDone(t) ==
    LET h == task[t].handle IN
    /\ At(t, "sync") /\ Done(t)
    /\ fut' = [fut EXCEPT ![t] = NoFut]
    /\ Unlock(h)
    /\ durable' = IF fut[t].step = "ok" THEN durable \cup task[t].covers ELSE durable
    /\ IF task[t].op = "release" /\ fut[t].step = "ok" THEN Goto(t, "remove") ELSE Reply(t)
    /\ UNCHANGED <<files, inode, stage, acc, stored, lost, acked, bounds>>

release_file_handler(t) ==
    LET gone == {fh \in DOMAIN table : table[fh] = task[t].handle} IN
    /\ At(t, "remove")
    /\ table' = Restrict(table, DOMAIN table \ gone)
    /\ freed' = freed \cup gone
    /\ Goto(t, "last")
    /\ UNCHANGED <<next_fh, useOf, fhOf, inode, cache, data, bounds>>

\* The end of release_file_handler: what is left is waited for and logged.
LastDrain(t) ==
    LET h == task[t].handle IN
    /\ At(t, "last")
    /\ lock[h] = 0
    /\ Drained(h)
    /\ stage' = [stage EXCEPT ![h] = {}]
    /\ fut' = TakeResults(h)
    /\ Reply(t)
    /\ UNCHANGED <<files, inode, lock, acc, data, bounds>>

-----------------------------------------------------------------------------
Step(t) ==
    \/ Publish(t) \/ Register(t) \/ Install(t)
    \/ Push(t) \/ AwaitOne(t)
    \/ LockCache(t) \/ Drain(t) \/ SyncDone(t)
    \/ release_file_handler(t) \/ LastDrain(t)

\* Mutant: the closure waits for the lock of write_cache.
MutRun(r) == /\ fut[r] # NoFut
             /\ lock[fut[r].handle] = 0
             /\ Accumulate(r) \/ StoreBatch(r)

Run(r) == Accumulate(r) \/ StoreBatch(r)

Next ==
    \/ \E t \in Tasks :
        \/ Open(t) \/ PublishFails(t) \/ Step(t)
        \/ \E h \in Handles :
            \/ Release(t, h)
            \/ \E w \in Writes : Write(t, h, w)
            \/ \E op \in {"flush", "read"} : Sync(t, op, h)
    \/ \E r \in Writes \cup Tasks : Run(r) \/ StoreFails(r)
    \/ \E u \in Uses : CloseUse(u) \/ CloseUseFails(u)

(***************************************************************************)
(* tokio runs every task that can go on, and its locks are fair.  Nothing  *)
(* is assumed of the kernel: it need not send any request.                 *)
(***************************************************************************)
Fairness ==
    /\ \A t \in Tasks : SF_vars(Step(t))
    /\ \A r \in Writes \cup Tasks : WF_vars(Run(r))
    /\ WF_vars(\E u \in Uses : CloseUse(u))

Spec == Init /\ [][Next]_vars /\ Fairness

-----------------------------------------------------------------------------
(***************************************************************************)
(* Properties                                                              *)
(***************************************************************************)

\* The state has its type; the lock of a write cache is held by a request
\* of that handle, and a spun flush belongs to a request that waits for it.
TypeOK ==
    /\ DOMAIN table \subseteq 0..MaxOpens /\ Range(table) \subseteq Handles
    /\ freed \subseteq 0..next_fh /\ next_fh \in 0..MaxOpens
    /\ useOf \in [Handles -> {0} \cup Uses] /\ opened \in {0} \cup Uses
    /\ DOMAIN fhOf \subseteq Handles
    /\ uses \subseteq Uses /\ leaked \subseteq uses /\ made \in {0} \cup Uses
    /\ \A h \in Handles :
        /\ stage[h] \subseteq Writes
        /\ Range(acc[h]) \subseteq Writes
        /\ lock[h] # 0 => task[lock[h]].handle = h
    /\ \A t \in Tasks : fut[t] # NoFut => At(t, "sync")
    /\ stored \cup lost \cup acked \cup durable \subseteq Writes

\* The number that the kernel has for an open file names the handle of that
\* open, however numbers are freed and used again by concurrent releases
\* and opens: no write goes to another handle.
HandleOfOpen ==
    \A h \in DOMAIN fhOf : fhOf[h] \in DOMAIN table /\ table[fhOf[h]] = h

\* While a handle is in the table, the use it was opened with is published
\* in the store, so that no other mount deletes the inode: also when an open
\* meets the last release, and when two opens both publish a use.
UsePublished == \A fh \in DOMAIN table : useOf[table[fh]] \in uses

\* What was answered before a flush or a release began is stored when this
\* is answered without an error, unless it was in a batch that failed.
DurableKept == durable \subseteq stored \cup lost

\* No handle has more writes in progress than write_in_progress_limit, and
\* one less when nobody has the lock to wait for them.
InProgressBounded ==
    \A h \in Handles :
        Cardinality(stage[h]) <= (IF lock[h] = 0 THEN Limit - 1 ELSE Limit)

\* A handle that is gone has nothing left in its accumulator, where no one
\* would find it any more.
DroppedEmpty ==
    \A h \in Handles : useOf[h] # 0 /\ ~HandleAlive(h) => acc[h] = <<>>

\* Every request of the kernel is answered: whoever waits with the lock of
\* a write cache waits for closures that need no lock of it.
EveryRequestAnswered == \A t \in Tasks : ~Free(t) ~> Free(t)

\* When the kernel has released its files for good, no use is left in the
\* store to keep the inode from being deleted, unless a request failed.
UsesReleased ==
    <>[](fhOf = <<>> /\ \A t \in Tasks : Free(t)) => <>[](uses = {} \/ fails > 0)

=============================================================================
