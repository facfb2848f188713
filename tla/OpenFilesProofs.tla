--------------------------- MODULE OpenFilesProofs --------------------------
(***************************************************************************)
(* The file handles, the uses of the inode and the way of the written data *)
(* of one mount, for any number of requests, opens, writes and failures.   *)
(***************************************************************************)
EXTENDS OpenFiles, Integers, FiniteSetTheorems, SequenceTheorems, TLAPS

Closures == Writes \cup Tasks
ServeSteps == {"lock", "full", "drain", "sync", "remove", "last"}
FutSteps == {None, "push", "store", "ok", "err", "taken"}

TaskType ==
    [op : {None, "open", "write", "flush", "read", "release"},
     pc : {None, "publish", "register", "install"} \cup ServeSteps,
     handle : 0..MaxOpens, use : Nat, write : 0..MaxWrites, covers : SUBSET Writes]
FutType == [step : FutSteps, handle : 0..MaxOpens, batch : Seq(Writes)]

\* The types of the tasks, of the table of handles and of the write caches.
Typed ==
    /\ task \in [Tasks -> TaskType]
    /\ table \in [DOMAIN table -> Handles] /\ fhOf \in [DOMAIN fhOf -> Nat]
    /\ DOMAIN fhOf \subseteq Handles
    /\ next_fh \in Nat /\ made \in Nat
    /\ useOf \in [Handles -> Nat]
    /\ lock \in [Handles -> {0} \cup Tasks]
    /\ stage \in [Handles -> SUBSET Writes]
    /\ acc \in [Handles -> Seq(Writes)]
    /\ fut \in [Closures -> FutType]
    /\ acked \subseteq Writes

\* What a request has at its steps: a handle once it has been looked up, a
\* use when it is to be installed, data if it is a write.
TaskShape ==
    \A t \in Tasks :
        /\ task[t].handle # 0 <=> task[t].pc \in ServeSteps
        /\ task[t].pc \in {"register", "install"} => task[t].use # 0
        /\ task[t].pc = "full" => task[t].op = "write"
        /\ task[t].pc \in {"drain", "sync"} => task[t].op # "write"
        /\ task[t].pc \in {"remove", "last"} => task[t].op = "release"
        /\ task[t].write # 0 <=> task[t].op = "write"
        /\ task[t].handle = 0 => task[t].op # "write" /\ task[t].covers = {}

\* Numbers are free or in the table; a request has a handle of the table until
\* release has taken it out, and a release has its handle for itself.
FhTable ==
    /\ DOMAIN table \cup freed \subseteq 0..(next_fh - 1) /\ DOMAIN table \cap freed = {}
    /\ \A fh \in DOMAIN table : useOf[table[fh]] # 0
    /\ \A t \in Tasks : task[t].handle # 0 =>
        /\ useOf[task[t].handle] # 0
        /\ task[t].pc = "last" \/ task[t].handle \in Range(table)
        /\ task[t].op = "release" =>
            /\ task[t].handle \notin DOMAIN fhOf
            /\ \A s \in Tasks : task[s].handle = task[t].handle => s = t

\* A use is published while a handle that lives or an open has it.
AlivePublished ==
    /\ \A h \in Handles : useOf[h] # 0 /\ HandleAlive(h) => useOf[h] \in uses
    /\ \A t \in Tasks : task[t].use # 0 => task[t].use \in uses

\* The lock of a write cache is with the request that waits under it.
LockHeld ==
    /\ \A h \in Handles : lock[h] # 0 =>
        task[lock[h]].handle = h /\ task[lock[h]].pc \in {"full", "drain", "sync"}
    /\ \A t \in Tasks : task[t].pc \in {"full", "drain", "sync"} => lock[task[t].handle] = t

\* Every spawned write that is not done is in progress at its handle, a spun
\* flush belongs to the request that waits for it, with nothing in progress.
StageShape ==
    /\ \A h \in Handles : \A v \in stage[h] :
        fut[v].handle = h /\ fut[v].step \in {"push", "store", "ok", "err"}
    /\ \A v \in Writes : fut[v].step \in {"push", "store"} =>
        fut[v].handle # 0 /\ v \in stage[fut[v].handle]
    /\ \A t \in Tasks : fut[t].step # None =>
        task[t].pc = "sync" /\ fut[t].handle = task[t].handle
    /\ \A t \in Tasks : task[t].pc = "sync" => stage[task[t].handle] = {}

\* A write that is to be pushed has not been spawned, by nobody.
WritesOnce ==
    /\ \A t \in Tasks : task[t].op = "write" =>
        IF task[t].pc = "lock" THEN fut[task[t].write] = NoFut
                               ELSE fut[task[t].write].step # None
    /\ \A s, t \in Tasks : task[s].write # 0 /\ task[s].write = task[t].write => s = t

\* The accumulator is empty once a flush has taken it, up to the end of the
\* release that the flush belongs to and after it.
FlushedEmpty ==
    /\ \A t \in Tasks :
        /\ task[t].pc = "sync" /\ fut[t].step \in {"store", "ok"} => acc[task[t].handle] = <<>>
        /\ task[t].pc \in {"remove", "last"} =>
            acc[task[t].handle] = <<>> /\ stage[task[t].handle] = {}
    /\ \A h \in Handles : useOf[h] # 0 /\ h \notin Range(table) => acc[h] = <<>> /\ stage[h] = {}

\* Where the data of a write is that its closure has handed on.
HandedOn(v) ==
    \/ v \in stored \cup lost
    \/ v \in Range(acc[fut[v].handle])
    \/ \E r \in Closures :
        fut[r].step = "store" /\ fut[r].handle = fut[v].handle /\ v \in Range(fut[r].batch)

\* No data gets out of sight, and what a flush covers was spawned before.
Tracked ==
    /\ \A v \in Writes : fut[v].step \notin {None, "push"} => fut[v].handle # 0 /\ HandedOn(v)
    /\ \A v \in acked : fut[v].step # None
    /\ \A t \in Tasks : \A v \in task[t].covers :
        fut[v].step # None /\ fut[v].handle = task[t].handle

\* The inductive invariants: the handles, the uses, the caches, the data.
IInvFiles == Typed /\ TaskShape /\ FhTable /\ HandleOfOpen
IInvCache == LockHeld /\ StageShape /\ WritesOnce /\ InProgressBounded
IInv == IInvFiles /\ AlivePublished /\ IInvCache /\ FlushedEmpty /\ Tracked /\ DurableKept

-----------------------------------------------------------------------------
(***************************************************************************)
(* What the steps do to a task.                                            *)
(***************************************************************************)

\* Tasks, writes and handles are named by numbers of their own, not by 0.
LEMMA Names ==
    /\ Writes \cap Tasks = {} /\ 0 \notin Writes /\ 0 \notin Tasks /\ 0 \notin Handles
    /\ 0..MaxOpens = {0} \cup Handles /\ 0..MaxWrites = {0} \cup Writes
    /\ IsFiniteSet(Writes)
<1>1. MaxWrites \in Nat /\ MaxTasks \in Nat /\ MaxOpens \in Nat
  BY OpenFilesAssumption
<1>2. IsFiniteSet(Writes)
  BY <1>1, FS_Interval DEF Writes
<1> QED BY <1>1, <1>2 DEF Writes, Tasks, Handles

\* The fields of a task that a step leaves alone.
SameBut(t, pc) ==
    /\ \A s \in Tasks : s # t => task'[s] = task[s]
    /\ task'[t].pc = pc
    /\ task'[t].op = task[t].op /\ task'[t].handle = task[t].handle
    /\ task'[t].use = task[t].use /\ task'[t].write = task[t].write
    /\ task'[t].covers = task[t].covers

\* A request that goes on to its next step.
LEMMA GotoStep ==
    ASSUME task \in [Tasks -> TaskType], NEW t \in Tasks,
           NEW step \in {"install"} \cup ServeSteps, Goto(t, step)
    PROVE  task' \in [Tasks -> TaskType] /\ SameBut(t, step)
<1>1. task[t] \in TaskType
  OBVIOUS
<1>2. task' = [task EXCEPT ![t] = [task[t] EXCEPT !.pc = step]]
  BY DEF Goto
<1>3. [task[t] EXCEPT !.pc = step] \in TaskType
  BY <1>1 DEF TaskType
<1>4. task'[t] = [task[t] EXCEPT !.pc = step]
  BY <1>2
<1>5. /\ task'[t].pc = step
      /\ task'[t].op = task[t].op /\ task'[t].handle = task[t].handle
      /\ task'[t].use = task[t].use /\ task'[t].write = task[t].write
      /\ task'[t].covers = task[t].covers
  BY <1>1, <1>4 DEF TaskType
<1>6. \A s \in Tasks : s # t => task'[s] = task[s]
  BY <1>2
<1> QED BY <1>2, <1>3, <1>5, <1>6 DEF SameBut

\* The fields of a task that is free.
IsIdle(t) ==
    /\ task'[t].op = None /\ task'[t].pc = None /\ task'[t].handle = 0
    /\ task'[t].use = 0 /\ task'[t].write = 0 /\ task'[t].covers = {}

\* A request that is answered.
LEMMA ReplyStep ==
    ASSUME task \in [Tasks -> TaskType], NEW t \in Tasks, Reply(t)
    PROVE  /\ task' \in [Tasks -> TaskType] /\ IsIdle(t)
           /\ \A s \in Tasks : s # t => task'[s] = task[s]
<1>1. Idle \in TaskType
  BY OpenFilesAssumption DEF Idle, TaskType
<1>2. task'[t] = Idle
  BY DEF Reply
<1>3. IsIdle(t)
  BY <1>2 DEF Idle, IsIdle
<1> QED BY <1>1, <1>3 DEF Reply

\* A request is served for the handle that the kernel means.
LEMMA RequestStep ==
    ASSUME Typed, HandleOfOpen, NEW t \in Tasks, NEW op \in {"write", "flush", "read", "release"},
           NEW h \in Handles, NEW w \in 0..MaxWrites, Request(t, op, h, w)
    PROVE  /\ task' \in [Tasks -> TaskType]
           /\ \A s \in Tasks : s # t => task'[s] = task[s]
           /\ task[t] = Idle
           /\ h \in DOMAIN fhOf /\ h \in Range(table)
           /\ task'[t].op = op /\ task'[t].pc = "lock" /\ task'[t].handle = h
           /\ task'[t].use = 0 /\ task'[t].write = w
           /\ \A v \in task'[t].covers : v \in acked /\ fut[v].handle = h
<1> DEFINE covers == IF op \in {"flush", "release"}
                     THEN {v \in acked \ durable : fut[v].handle = table[fhOf[h]]} ELSE {}
           r == [Idle EXCEPT !.op = op, !.pc = FirstStep(op), !.handle = table[fhOf[h]],
                             !.write = w, !.covers = covers]
<1>1. table[fhOf[h]] = h /\ h \in DOMAIN fhOf /\ fhOf[h] \in DOMAIN table
  BY DEF Request, HandleOfOpen
<1>2. task' = [task EXCEPT ![t] = r] /\ task[t] = Idle
  BY DEF Request, Serves, Free
<1>3. covers \in SUBSET Writes /\ h \in 0..MaxOpens
  BY Names DEF Typed
<1>4. Idle \in TaskType /\ Idle.use = 0
  BY OpenFilesAssumption DEF Idle, TaskType
<1>5. h \in Range(table)
  BY <1>1 DEF Range
<1>6. \A v \in covers : v \in acked /\ fut[v].handle = h
  BY <1>1
<1> HIDE DEF covers
<1>7. /\ r \in TaskType /\ r.op = op /\ r.pc = "lock" /\ r.handle = h
      /\ r.use = 0 /\ r.write = w /\ r.covers = covers
  <2> HIDE DEF Idle
  <2> QED BY <1>1, <1>3, <1>4 DEF TaskType, FirstStep, ServeSteps
<1> HIDE DEF r
<1>8. task'[t] = r /\ task' \in [Tasks -> TaskType]
  BY <1>2, <1>7 DEF Typed
<1> QED BY <1>1, <1>2, <1>5, <1>6, <1>7, <1>8 DEF Typed

\* A task that begins with an open.
LEMMA OpenStep ==
    ASSUME Typed, NEW t \in Tasks, Open(t), get_ino_use \in Nat
    PROVE  /\ task' \in [Tasks -> TaskType]
           /\ \A s \in Tasks : s # t => task'[s] = task[s]
           /\ task[t] = Idle /\ task'[t].op = "open" /\ task'[t].handle = 0
           /\ task'[t].pc \in {"publish", "install"} /\ task'[t].use = get_ino_use
           /\ task'[t].pc = "install" => task'[t].use # 0
           /\ task'[t].write = 0 /\ task'[t].covers = {}
<1> DEFINE pc == IF get_ino_use = 0 THEN "publish" ELSE "install"
<1>1. task' = [task EXCEPT ![t] =
            [Idle EXCEPT !.op = "open", !.use = get_ino_use, !.pc = pc]]
  BY DEF Open
<1> DEFINE r == [Idle EXCEPT !.op = "open", !.use = get_ino_use, !.pc = pc]
<1>2. Idle \in TaskType /\ Idle.handle = 0 /\ Idle.write = 0 /\ Idle.covers = {}
  BY OpenFilesAssumption DEF Idle, TaskType
<1>3. /\ r \in TaskType /\ r.op = "open" /\ r.pc = pc /\ r.use = get_ino_use
      /\ r.handle = 0 /\ r.write = 0 /\ r.covers = {}
  BY <1>2 DEF TaskType
<1>4. task' = [task EXCEPT ![t] = r] /\ task[t] = Idle
  BY <1>1 DEF Open, Serves, Free
<1> HIDE DEF r
<1>5. task'[t] = r /\ task' \in [Tasks -> TaskType]
  BY <1>3, <1>4 DEF Typed
<1> QED BY <1>3, <1>4, <1>5 DEF Typed

\* A task that publishes a use.
LEMMA PublishStep ==
    ASSUME Typed, NEW t \in Tasks, Publish(t)
    PROVE  /\ task' \in [Tasks -> TaskType]
           /\ \A s \in Tasks : s # t => task'[s] = task[s]
           /\ made' \in Nat /\ made' # 0
           /\ task'[t].op = task[t].op /\ task'[t].pc = "register" /\ task'[t].use = made'
           /\ task'[t].handle = task[t].handle /\ task'[t].write = task[t].write
           /\ task'[t].covers = task[t].covers
<1>1. made' = made + 1 /\ made' \in Nat /\ made' # 0
  BY DEF Publish, Typed
<1>2. task[t] \in TaskType
  BY DEF Typed
<1>3. task' = [task EXCEPT ![t] = [task[t] EXCEPT !.pc = "register", !.use = made']]
  BY DEF Publish, Typed
<1>4. task'[t] = [task[t] EXCEPT !.pc = "register", !.use = made']
  BY <1>3 DEF Typed
<1>5. [task[t] EXCEPT !.pc = "register", !.use = made'] \in TaskType
  BY <1>1, <1>2 DEF TaskType
<1>6. /\ task'[t].op = task[t].op /\ task'[t].pc = "register" /\ task'[t].use = made'
      /\ task'[t].handle = task[t].handle /\ task'[t].write = task[t].write
      /\ task'[t].covers = task[t].covers
  BY <1>2, <1>4 DEF TaskType
<1> QED BY <1>1, <1>3, <1>5, <1>6 DEF Typed

-----------------------------------------------------------------------------
(***************************************************************************)
(* What the steps do to the closures.                                      *)
(***************************************************************************)

Spawned(h) == [NoFut EXCEPT !.step = "push", !.handle = h]

\* The values that a closure gets.
LEMMA FutValues ==
    ASSUME NEW h \in Handles
    PROVE  /\ NoFut \in FutType /\ NoFut.step = None /\ NoFut.handle = 0
           /\ Spawned(h) \in FutType /\ Spawned(h).step = "push" /\ Spawned(h).handle = h
           /\ Taken(h) \in FutType /\ Taken(h).step = "taken" /\ Taken(h).handle = h
<1>1. NoFut \in FutType /\ NoFut.step = None /\ NoFut.handle = 0
  BY OpenFilesAssumption DEF NoFut, FutType, FutSteps
<1>2. h \in 0..MaxOpens
  BY Names
<1>3. Spawned(h) \in FutType /\ Spawned(h).step = "push" /\ Spawned(h).handle = h
  BY <1>1, <1>2 DEF Spawned, FutType, FutSteps
<1>4. Taken(h) \in FutType /\ Taken(h).step = "taken" /\ Taken(h).handle = h
  BY <1>1, <1>2 DEF Taken, FutType, FutSteps
<1> QED BY <1>1, <1>3, <1>4

\* A request at one of its steps has a handle.
LEMMA HandleAt ==
    ASSUME Typed, TaskShape, NEW t \in Tasks, task[t].pc \in ServeSteps
    PROVE  task[t].handle \in Handles
<1>1. task[t].handle \in 0..MaxOpens
  BY DEF Typed, TaskType
<1> QED BY <1>1, Names DEF TaskShape

\* A closure that runs has a handle.
LEMMA HandleOfClosure ==
    ASSUME Typed, TaskShape, StageShape, NEW r \in Closures, fut[r].step \in {"push", "store"}
    PROVE  fut[r].handle \in Handles
<1>1. fut[r].handle \in 0..MaxOpens
  BY DEF Typed, FutType
<1>2. CASE r \in Writes
  BY <1>1, <1>2, Names DEF StageShape
<1>3. CASE r \in Tasks
  BY <1>3, HandleAt DEF StageShape, ServeSteps, None
<1> QED BY <1>2, <1>3 DEF Closures

\* What an accumulator holds with one write more.
LEMMA RangeAppend ==
    ASSUME NEW q \in Seq(Writes), NEW v \in Writes
    PROVE  Append(q, v) \in Seq(Writes) /\ Range(Append(q, v)) = Range(q) \cup {v}
           /\ Append(q, v) # <<>>
<1>1. /\ Append(q, v) \in Seq(Writes) /\ Len(q) \in Nat /\ Len(Append(q, v)) = Len(q) + 1
      /\ \A i \in 1..Len(q) : Append(q, v)[i] = q[i]
      /\ Append(q, v)[Len(q) + 1] = v
  BY AppendProperties
<1>2. DOMAIN q = 1..Len(q) /\ DOMAIN Append(q, v) = 1..(Len(q) + 1)
  BY <1>1
<1>3. Range(Append(q, v)) = Range(q) \cup {v}
  BY <1>1, <1>2 DEF Range
<1>4. Append(q, v) # <<>>
  BY <1>1
<1> QED BY <1>1, <1>3, <1>4

Joined(r) == IF r \in Writes THEN Append(acc[fut[r].handle], r) ELSE acc[fut[r].handle]

\* What a closure adds to the accumulator is kept there, or is what it takes.
LEMMA AccumulateStep ==
    ASSUME Typed, TaskShape, StageShape, NEW r \in Closures, Accumulate(r)
    PROVE  /\ fut[r].step = "push" /\ fut[r].handle \in Handles
           /\ fut' \in [Closures -> FutType] /\ acc' \in [Handles -> Seq(Writes)]
           /\ \A q \in Closures : q # r => fut'[q] = fut[q]
           /\ fut'[r].handle = fut[r].handle /\ fut'[r].step \in {"store", "ok"}
           /\ \A h \in Handles : h # fut[r].handle => acc'[h] = acc[h]
           /\ acc'[fut[r].handle] \in {<<>>, Joined(r)}
           /\ acc'[fut[r].handle] # <<>> => r \in Writes
           /\ \A v \in Range(Joined(r)) :
                \/ v \in Range(acc'[fut[r].handle])
                \/ fut'[r].step = "store" /\ v \in Range(fut'[r].batch)
           /\ \A v \in Range(acc[fut[r].handle]) : v \in Range(Joined(r))
           /\ r \in Writes => r \in Range(Joined(r))
<1> DEFINE h == fut[r].handle
<1>1. fut[r].step = "push" /\ h \in Handles
  BY HandleOfClosure DEF Accumulate
<1>2. fut[r] \in FutType /\ acc[h] \in Seq(Writes)
  BY <1>1 DEF Typed
<1>3. /\ Joined(r) \in Seq(Writes)
      /\ \A v \in Range(acc[h]) : v \in Range(Joined(r))
      /\ r \in Writes => r \in Range(Joined(r))
  BY <1>2, RangeAppend DEF Joined
<1>4. CASE TakeBatch(r, Joined(r))
  <2> DEFINE step == IF Joined(r) = <<>> THEN "ok" ELSE "store"
             f == [fut[r] EXCEPT !.batch = Joined(r), !.step = step]
  <2>1. acc' = [acc EXCEPT ![h] = <<>>] /\ fut' = [fut EXCEPT ![r] = f]
    BY <1>4 DEF Accumulate, Joined, Typed
  <2>2. f \in FutType /\ f.step = step /\ f.handle = h /\ f.batch = Joined(r)
    BY <1>2, <1>3 DEF FutType, FutSteps
  <2>3. \A v \in Range(Joined(r)) : Joined(r) # <<>>
    BY DEF Range
  <2>4. <<>> \in Seq(Writes)
    OBVIOUS
  <2> HIDE DEF f
  <2>5. fut'[r] = f /\ acc'[h] = <<>>
    BY <1>1, <2>1 DEF Typed
  <2>6. fut' \in [Closures -> FutType] /\ acc' \in [Handles -> Seq(Writes)]
    BY <2>1, <2>2, <2>4 DEF Typed
  <2>7. \A q \in Closures : q # r => fut'[q] = fut[q]
    BY <2>1 DEF Typed
  <2>8. \A g \in Handles : g # h => acc'[g] = acc[g]
    BY <2>1 DEF Typed
  <2>9. \A v \in Range(Joined(r)) : fut'[r].step = "store" /\ v \in Range(fut'[r].batch)
    BY <2>2, <2>3, <2>5
  <2> QED BY <1>1, <1>3, <2>2, <2>5, <2>6, <2>7, <2>8, <2>9
<1>5. CASE ~TakeBatch(r, Joined(r))
  <2> DEFINE f == [fut[r] EXCEPT !.step = "ok"]
  <2>1. acc' = [acc EXCEPT ![h] = Joined(r)] /\ fut' = [fut EXCEPT ![r] = f]
    BY <1>5 DEF Accumulate, Joined, Typed
  <2>2. f \in FutType /\ f.step = "ok" /\ f.handle = h
    BY <1>2 DEF FutType, FutSteps
  <2>3. r \in Writes
    BY <1>5 DEF TakeBatch, Closures
  <2> HIDE DEF f
  <2>5. fut'[r] = f /\ acc'[h] = Joined(r)
    BY <1>1, <2>1 DEF Typed
  <2>6. fut' \in [Closures -> FutType] /\ acc' \in [Handles -> Seq(Writes)]
    BY <1>3, <2>1, <2>2 DEF Typed
  <2>7. \A q \in Closures : q # r => fut'[q] = fut[q]
    BY <2>1 DEF Typed
  <2>8. \A g \in Handles : g # h => acc'[g] = acc[g]
    BY <2>1 DEF Typed
  <2> QED BY <1>1, <1>3, <2>2, <2>3, <2>5, <2>6, <2>7, <2>8
<1> QED BY <1>4, <1>5

\* hb_write_data of a batch ends: its writes are stored, or lost for good.
LEMMA StoreStep ==
    ASSUME Typed, NEW r \in Closures, StoreBatch(r) \/ StoreFails(r)
    PROVE  /\ fut[r].step = "store"
           /\ fut' \in [Closures -> FutType]
           /\ \A q \in Closures : q # r => fut'[q] = fut[q]
           /\ fut'[r].handle = fut[r].handle /\ fut'[r].step \in {"push", "ok", "err"}
           /\ stored \subseteq stored' /\ lost \subseteq lost'
           /\ Range(fut[r].batch) \subseteq stored' \cup lost'
<1>1. fut[r].step = "store" /\ fut[r] \in FutType
  BY DEF StoreBatch, StoreFails, Typed
<1>2. PICK step \in {"push", "ok", "err"} :
        fut' = [fut EXCEPT ![r] = [fut[r] EXCEPT !.step = step, !.batch = <<>>]]
  BY DEF StoreBatch, StoreFails, Typed
<1>3. /\ stored \subseteq stored' /\ lost \subseteq lost'
      /\ Range(fut[r].batch) \subseteq stored' \cup lost'
  BY DEF StoreBatch, StoreFails
<1> DEFINE f == [fut[r] EXCEPT !.step = step, !.batch = <<>>]
<1>4. f \in FutType /\ f.step = step /\ f.handle = fut[r].handle
  <2>1. <<>> \in Seq(Writes)
    OBVIOUS
  <2>2. step \in FutSteps
    BY DEF FutSteps
  <2> QED BY <1>1, <2>1, <2>2 DEF FutType
<1> HIDE DEF f
<1>5. fut' = [fut EXCEPT ![r] = f] /\ fut'[r] = f
  BY <1>2 DEF Typed, f
<1> QED BY <1>1, <1>3, <1>4, <1>5 DEF Typed

-----------------------------------------------------------------------------
(***************************************************************************)
(* What the steps of a request do to the write cache of its handle.        *)
(***************************************************************************)

\* A function is as it was for the others.
Others(f, g, S, x) == \A y \in S : y # x => g[y] = f[y]

\* Task t is answered, or goes on with step pc.
Answered(t) == IsIdle(t) /\ Others(task, task', Tasks, t)

\* A write is spawned; the caller waits under the lock when the stage is full.
LEMMA PushStep ==
    ASSUME Typed, TaskShape, WritesOnce, NEW t \in Tasks, Push(t),
           NEW h, h = task[t].handle, NEW w, w = task[t].write
    PROVE  /\ task[t].pc = "lock" /\ task[t].op = "write" /\ h \in Handles /\ w \in Writes
           /\ lock[h] = 0 /\ fut[w] = NoFut
           /\ Typed' /\ UNCHANGED <<files, inode, acc, stored, lost, durable>>
           /\ Others(fut, fut', Closures, w) /\ fut'[w] = Spawned(h)
           /\ Others(stage, stage', Handles, h) /\ stage'[h] = stage[h] \cup {w}
           /\ Others(lock, lock', Handles, h)
           /\ \/ Full(stage'[h]) /\ lock'[h] = t /\ SameBut(t, "full") /\ acked' = acked
              \/ ~Full(stage'[h]) /\ lock'[h] = 0 /\ Answered(t) /\ acked' = acked \cup {w}
<1>1. task[t].pc = "lock" /\ task[t].op = "write" /\ lock[h] = 0
  BY DEF Push, At
<1>2. h \in Handles
  BY <1>1, HandleAt DEF ServeSteps
<1>3. w \in Writes
  <2>1. w \in 0..MaxWrites
    BY DEF Typed, TaskType
  <2> QED BY <1>1, <2>1, Names DEF TaskShape
<1>4. fut[w] = NoFut
  BY <1>1 DEF WritesOnce
<1>5. fut' = [fut EXCEPT ![w] = Spawned(h)] /\ stage' = [stage EXCEPT ![h] = stage[h] \cup {w}]
  BY DEF Push, Spawned, Typed
<1>6. fut' \in [Closures -> FutType] /\ Others(fut, fut', Closures, w) /\ fut'[w] = Spawned(h)
  BY <1>2, <1>3, <1>5, FutValues DEF Typed, Others, Closures
<1>7. /\ stage' \in [Handles -> SUBSET Writes] /\ Others(stage, stage', Handles, h)
      /\ stage'[h] = stage[h] \cup {w}
  BY <1>2, <1>3, <1>5 DEF Typed, Others
<1>8. /\ lock' \in [Handles -> {0} \cup Tasks] /\ Others(lock, lock', Handles, h)
      /\ acked' \subseteq Writes /\ task' \in [Tasks -> TaskType]
      /\ \/ Full(stage'[h]) /\ lock'[h] = t /\ SameBut(t, "full") /\ acked' = acked
         \/ ~Full(stage'[h]) /\ lock'[h] = 0 /\ Answered(t) /\ acked' = acked \cup {w}
  <2>1. CASE Full(stage[h] \cup {w})
    <3>1. lock' = [lock EXCEPT ![h] = t] /\ Goto(t, "full") /\ acked' = acked
      BY <2>1 DEF Push
    <3>2. task' \in [Tasks -> TaskType] /\ SameBut(t, "full")
      BY <3>1, GotoStep DEF Typed, ServeSteps
    <3> QED BY <1>2, <1>7, <2>1, <3>1, <3>2 DEF Typed, Others
  <2>2. CASE ~Full(stage[h] \cup {w})
    <3>1. lock' = [lock EXCEPT ![h] = 0] /\ Reply(t) /\ acked' = acked \cup {w}
      BY <2>2 DEF Push, AnswerWrite, Unlock
    <3>2. task' \in [Tasks -> TaskType] /\ Answered(t)
      BY <3>1, ReplyStep DEF Typed, Answered, Others
    <3> QED BY <1>2, <1>3, <1>7, <2>2, <3>1, <3>2 DEF Typed, Others
  <2> QED BY <2>1, <2>2
<1>9. UNCHANGED <<files, inode, acc, stored, lost, durable>>
  BY DEF Push
<1>10. Typed'
  BY <1>6, <1>7, <1>8, <1>9 DEF Typed, files, inode
<1> QED BY <1>1, <1>2, <1>3, <1>4, <1>6, <1>7, <1>8, <1>9, <1>10

\* One of the writes in progress is done; its result is the caller's.
LEMMA AwaitStep ==
    ASSUME Typed, TaskShape, NEW t \in Tasks, AwaitOne(t), NEW h, h = task[t].handle
    PROVE  /\ task[t].pc = "full" /\ task[t].op = "write" /\ h \in Handles
           /\ task[t].write \in Writes
           /\ Typed' /\ UNCHANGED <<files, inode, acc, stored, lost, durable>>
           /\ \E v \in stage[h] :
                /\ Done(v) /\ Others(fut, fut', Closures, v) /\ fut'[v] = Taken(h)
                /\ Others(stage, stage', Handles, h) /\ stage'[h] = stage[h] \ {v}
           /\ Others(lock, lock', Handles, h) /\ lock'[h] = 0
           /\ Answered(t) /\ acked' \subseteq acked \cup {task[t].write}
<1>1. task[t].pc = "full" /\ task[t].op = "write"
  BY DEF AwaitOne, At, TaskShape
<1>2. h \in Handles
  BY <1>1, HandleAt DEF ServeSteps
<1>3. task[t].write \in Writes
  <2>1. task[t].write \in 0..MaxWrites
    BY DEF Typed, TaskType
  <2> QED BY <1>1, <2>1, Names DEF TaskShape
<1>4. PICK v \in stage[h] :
        /\ Done(v)
        /\ stage' = [stage EXCEPT ![h] = stage[h] \ {v}]
        /\ fut' = [fut EXCEPT ![v] = Taken(h)]
        /\ AnswerWrite(t, h, {v})
  BY DEF AwaitOne, Typed
<1>5. v \in Writes
  BY <1>2 DEF Typed
<1>6. fut' \in [Closures -> FutType] /\ Others(fut, fut', Closures, v) /\ fut'[v] = Taken(h)
  BY <1>2, <1>4, <1>5, FutValues DEF Typed, Others, Closures
<1>7. /\ stage' \in [Handles -> SUBSET Writes] /\ Others(stage, stage', Handles, h)
      /\ stage'[h] = stage[h] \ {v}
  BY <1>2, <1>4 DEF Typed, Others
<1>8. /\ lock' = [lock EXCEPT ![h] = 0] /\ Reply(t) /\ acked' \subseteq acked \cup {task[t].write}
  BY <1>4 DEF AnswerWrite, Unlock
<1>9. /\ lock' \in [Handles -> {0} \cup Tasks] /\ Others(lock, lock', Handles, h) /\ lock'[h] = 0
      /\ acked' \subseteq Writes
  BY <1>2, <1>3, <1>8 DEF Typed, Others
<1>10. task' \in [Tasks -> TaskType] /\ Answered(t)
  BY <1>8, ReplyStep DEF Typed, Answered, Others
<1>11. UNCHANGED <<files, inode, acc, stored, lost, durable>>
  BY DEF AwaitOne
<1>12. Typed'
  BY <1>6, <1>7, <1>9, <1>10, <1>11 DEF Typed, files, inode
<1> QED BY <1>1, <1>2, <1>3, <1>4, <1>6, <1>7, <1>8, <1>9, <1>10, <1>11, <1>12

\* The results of all writes in progress are taken.
LEMMA TakeStep ==
    ASSUME Typed, NEW h \in Handles
    PROVE  /\ TakeResults(h) \in [Closures -> FutType]
           /\ \A v \in stage[h] : v \in Closures /\ TakeResults(h)[v] = Taken(h)
           /\ \A r \in Closures : r \notin stage[h] => TakeResults(h)[r] = fut[r]
<1>1. DOMAIN fut = Closures /\ stage[h] \subseteq Writes
  BY DEF Typed
<1> QED BY <1>1, FutValues DEF TakeResults, Typed, Closures

\* All writes in progress are done; a flush goes on with what is accumulated.
LEMMA DrainStep ==
    ASSUME Typed, TaskShape, NEW t \in Tasks, Drain(t), NEW h, h = task[t].handle
    PROVE  /\ task[t].pc = "drain" /\ h \in Handles /\ \A v \in stage[h] : Done(v)
           /\ Typed' /\ UNCHANGED <<files, inode, acc, data>>
           /\ Others(stage, stage', Handles, h) /\ stage'[h] = {}
           /\ \A v \in stage[h] : v \in Writes /\ fut'[v] = Taken(h)
           /\ \A r \in Closures : r \notin stage[h] /\ r # t => fut'[r] = fut[r]
           /\ \/ /\ Others(lock, lock', Handles, h) /\ lock'[h] = 0
                 /\ Answered(t) /\ fut'[t] = fut[t]
              \/ /\ lock' = lock /\ SameBut(t, "sync") /\ fut'[t] = Spawned(h)
<1>1. task[t].pc = "drain" /\ \A v \in stage[h] : Done(v)
  BY DEF Drain, At, Drained
<1>2. h \in Handles
  BY <1>1, HandleAt DEF ServeSteps
<1>3. stage' = [stage EXCEPT ![h] = {}]
  BY DEF Drain
<1>4. stage' \in [Handles -> SUBSET Writes] /\ Others(stage, stage', Handles, h) /\ stage'[h] = {}
  BY <1>2, <1>3 DEF Typed, Others
<1>5. t \in Closures /\ t \notin stage[h] /\ stage[h] \subseteq Writes
  BY <1>2, Names DEF Typed, Closures
<1>6. UNCHANGED <<files, inode, acc, data>>
  BY DEF Drain
<1>7. CASE task[t].op = "read" \/ FirstError(task[t].op, h)
  <2>1. lock' = [lock EXCEPT ![h] = 0] /\ Reply(t) /\ fut' = TakeResults(h)
    BY <1>7 DEF Drain, Unlock
  <2>2. task' \in [Tasks -> TaskType] /\ Answered(t)
    BY <2>1, ReplyStep DEF Typed, Answered, Others
  <2>3. lock' \in [Handles -> {0} \cup Tasks] /\ Others(lock, lock', Handles, h) /\ lock'[h] = 0
    BY <1>2, <2>1 DEF Typed, Others
  <2>4. /\ fut' \in [Closures -> FutType] /\ \A v \in stage[h] : fut'[v] = Taken(h)
        /\ \A r \in Closures : r \notin stage[h] => fut'[r] = fut[r]
    BY <1>2, <2>1, TakeStep
  <2>5. Typed'
    BY <1>4, <1>6, <2>2, <2>3, <2>4 DEF Typed, files, inode, data
  <2> QED BY <1>1, <1>2, <1>4, <1>5, <1>6, <2>2, <2>3, <2>4, <2>5
<1>8. CASE ~(task[t].op = "read" \/ FirstError(task[t].op, h))
  <2>1. lock' = lock /\ Goto(t, "sync") /\ fut' = [TakeResults(h) EXCEPT ![t] = Spawned(h)]
    BY <1>8 DEF Drain, Spawned
  <2>2. task' \in [Tasks -> TaskType] /\ SameBut(t, "sync")
    BY <2>1, GotoStep DEF Typed, ServeSteps
  <2>3. /\ TakeResults(h) \in [Closures -> FutType]
        /\ \A v \in stage[h] : TakeResults(h)[v] = Taken(h)
        /\ \A r \in Closures : r \notin stage[h] => TakeResults(h)[r] = fut[r]
    BY <1>2, TakeStep
  <2>4. Spawned(h) \in FutType
    BY <1>2, FutValues
  <2>5. /\ fut' \in [Closures -> FutType] /\ fut'[t] = Spawned(h)
        /\ \A r \in Closures : r # t => fut'[r] = TakeResults(h)[r]
    BY <1>5, <2>1, <2>3, <2>4
  <2>6. \A v \in stage[h] : v \in Closures /\ v # t
    BY <1>5 DEF Closures
  <2>7. Typed'
    BY <1>4, <1>6, <2>1, <2>2, <2>5 DEF Typed, files, inode, data
  <2> QED BY <1>1, <1>2, <1>4, <1>5, <1>6, <2>1, <2>2, <2>3, <2>5, <2>6, <2>7
<1> QED BY <1>7, <1>8

\* The flush of a request has ended, well or with an error.
LEMMA SyncStep ==
    ASSUME Typed, TaskShape, NEW t \in Tasks, SyncDone(t), NEW h, h = task[t].handle
    PROVE  /\ task[t].pc = "sync" /\ h \in Handles /\ Done(t)
           /\ Typed' /\ UNCHANGED <<files, inode, stage, acc, stored, lost, acked>>
           /\ Others(lock, lock', Handles, h) /\ lock'[h] = 0
           /\ Others(fut, fut', Closures, t) /\ fut'[t] = NoFut
           /\ durable' = IF fut[t].step = "ok" THEN durable \cup task[t].covers ELSE durable
           /\ \/ Answered(t)
              \/ SameBut(t, "remove") /\ task[t].op = "release" /\ fut[t].step = "ok"
<1>1. task[t].pc = "sync" /\ Done(t)
  BY DEF SyncDone, At
<1>2. h \in Handles
  BY <1>1, HandleAt DEF ServeSteps
<1>3. t \in Closures
  BY DEF Closures
<1>4. lock' = [lock EXCEPT ![h] = 0] /\ fut' = [fut EXCEPT ![t] = NoFut]
  BY DEF SyncDone, Unlock
<1>5. lock' \in [Handles -> {0} \cup Tasks] /\ Others(lock, lock', Handles, h) /\ lock'[h] = 0
  BY <1>2, <1>4 DEF Typed, Others
<1>6. fut' \in [Closures -> FutType] /\ Others(fut, fut', Closures, t) /\ fut'[t] = NoFut
  BY <1>2, <1>3, <1>4, FutValues DEF Typed, Others
<1>7. /\ task' \in [Tasks -> TaskType]
      /\ \/ Answered(t)
         \/ SameBut(t, "remove") /\ task[t].op = "release" /\ fut[t].step = "ok"
  <2>1. CASE task[t].op = "release" /\ fut[t].step = "ok"
    <3>1. Goto(t, "remove")
      BY <2>1 DEF SyncDone
    <3> QED BY <2>1, <3>1, GotoStep DEF Typed, ServeSteps
  <2>2. CASE ~(task[t].op = "release" /\ fut[t].step = "ok")
    <3>1. Reply(t)
      BY <2>2 DEF SyncDone
    <3> QED BY <3>1, ReplyStep DEF Typed, Answered, Others
  <2> QED BY <2>1, <2>2
<1>8. UNCHANGED <<files, inode, stage, acc, stored, lost, acked>>
  BY DEF SyncDone
<1>9. durable' = IF fut[t].step = "ok" THEN durable \cup task[t].covers ELSE durable
  BY DEF SyncDone
<1>10. Typed'
  BY <1>5, <1>6, <1>7, <1>8 DEF Typed, files, inode
<1> QED BY <1>1, <1>2, <1>5, <1>6, <1>7, <1>8, <1>9, <1>10

\* The end of a release.
LEMMA LastStep ==
    ASSUME Typed, TaskShape, NEW t \in Tasks, LastDrain(t), NEW h, h = task[t].handle
    PROVE  /\ task[t].pc = "last" /\ h \in Handles /\ lock[h] = 0 /\ \A v \in stage[h] : Done(v)
           /\ Typed' /\ UNCHANGED <<files, inode, lock, acc, data>>
           /\ Others(stage, stage', Handles, h) /\ stage'[h] = {}
           /\ \A v \in stage[h] : v \in Writes /\ fut'[v] = Taken(h)
           /\ \A r \in Closures : r \notin stage[h] => fut'[r] = fut[r]
           /\ Answered(t)
<1>1. task[t].pc = "last" /\ lock[h] = 0 /\ \A v \in stage[h] : Done(v)
  BY DEF LastDrain, At, Drained
<1>2. h \in Handles
  BY <1>1, HandleAt DEF ServeSteps
<1>3. stage' = [stage EXCEPT ![h] = {}] /\ fut' = TakeResults(h) /\ Reply(t)
  BY DEF LastDrain
<1>4. stage' \in [Handles -> SUBSET Writes] /\ Others(stage, stage', Handles, h) /\ stage'[h] = {}
  BY <1>2, <1>3 DEF Typed, Others
<1>5. /\ fut' \in [Closures -> FutType] /\ \A v \in stage[h] : fut'[v] = Taken(h)
      /\ \A r \in Closures : r \notin stage[h] => fut'[r] = fut[r]
  BY <1>2, <1>3, TakeStep
<1>6. task' \in [Tasks -> TaskType] /\ Answered(t)
  BY <1>3, ReplyStep DEF Typed, Answered, Others
<1>7. UNCHANGED <<files, inode, lock, acc, data>>
  BY DEF LastDrain
<1>8. Typed'
  BY <1>4, <1>5, <1>6, <1>7 DEF Typed, files, inode, data
<1> QED BY <1>1, <1>2, <1>4, <1>5, <1>6, <1>7, <1>8 DEF Typed

-----------------------------------------------------------------------------
(***************************************************************************)
(* The steps of open.                                                      *)
(***************************************************************************)

\* The part of the invariant that is not about the uses.
IInvRest == IInvFiles /\ IInvCache /\ FlushedEmpty /\ Tracked /\ DurableKept

\* A task without a handle that gets none has no effect on files and data.
LEMMA WithoutHandle ==
    ASSUME IInvRest, UNCHANGED <<files, cache, data>>, made' \in Nat,
           task' \in [Tasks -> TaskType], NEW t \in Tasks, Others(task, task', Tasks, t),
           task[t].handle = 0, task'[t].handle = 0, task'[t].write = 0, task'[t].covers = {},
           task'[t].op # "write", task'[t].pc \notin ServeSteps,
           task'[t].pc \in {"register", "install"} => task'[t].use # 0
    PROVE  IInvRest'
<1>t. Typed /\ TaskShape /\ FhTable /\ HandleOfOpen
  BY DEF IInvRest, IInvFiles
<1>u. /\ UNCHANGED <<table, freed, next_fh, useOf, fhOf, lock, stage, acc, fut>>
      /\ UNCHANGED <<stored, lost, acked, durable>>
  BY DEF files, cache, data
<1>1. Typed'
  BY <1>t, <1>u DEF Typed
<1>2. TaskShape'
  BY <1>t DEF TaskShape, ServeSteps, Others
<1>3. FhTable' /\ HandleOfOpen'
  BY <1>t, <1>u DEF FhTable, HandleOfOpen, Others
<1>4. LockHeld'
  <2>1. \A h \in Handles : lock[h] \in {0} \cup Tasks
    BY <1>t DEF Typed
  <2>2. \A h \in Handles : lock[h] # t
    BY <1>t, Names DEF IInvRest, IInvCache, LockHeld
  <2> QED BY <1>u, <2>1, <2>2 DEF IInvRest, IInvCache, LockHeld, Others, ServeSteps
<1>5. StageShape'
  <2>1. fut[t].step = None
    BY <1>t DEF IInvRest, IInvCache, StageShape, TaskShape, ServeSteps
  <2>2. \A r \in Tasks : fut'[r].step # None =>
            task'[r].pc = "sync" /\ fut'[r].handle = task'[r].handle
    BY <1>u, <2>1 DEF IInvRest, IInvCache, StageShape, Others
  <2>3. \A r \in Tasks : task'[r].pc = "sync" => stage'[task'[r].handle] = {}
    BY <1>u DEF IInvRest, IInvCache, StageShape, Others, ServeSteps
  <2> QED BY <1>u, <2>2, <2>3 DEF IInvRest, IInvCache, StageShape
<1>6. WritesOnce'
  BY <1>u DEF IInvRest, IInvCache, WritesOnce, Others
<1>7. InProgressBounded'
  BY <1>u DEF IInvRest, IInvCache, InProgressBounded
<1>8. FlushedEmpty'
  BY <1>u DEF IInvRest, FlushedEmpty, Others, ServeSteps
<1>9. Tracked' /\ DurableKept'
  BY <1>u DEF IInvRest, Tracked, DurableKept, HandedOn, Others
<1> QED BY <1>1, <1>2, <1>3, <1>4, <1>5, <1>6, <1>7, <1>8, <1>9 DEF IInvRest, IInvFiles, IInvCache

\* What lives after such a step has lived before it.
LEMMA AliveBefore ==
    ASSUME UNCHANGED <<files, cache>>, NEW t \in Tasks, Others(task, task', Tasks, t),
           task'[t].handle = 0, NEW h \in Handles, HandleAlive(h)'
    PROVE  HandleAlive(h)
<1>1. UNCHANGED <<table, fut>> /\ h # 0
  BY Names DEF files, cache
<1> QED BY <1>1 DEF HandleAlive, Others

\* The steps of open up to the install keep the invariant.
LEMMA OpenInductive ==
    ASSUME IInv, NEW t \in Tasks, Open(t) \/ Publish(t) \/ PublishFails(t) \/ Register(t)
    PROVE  IInv'
<1>t. Typed /\ TaskShape /\ AlivePublished /\ IInvRest
  BY DEF IInv, IInvFiles, IInvRest
<1>n. task[t] \in TaskType /\ useOf \in [Handles -> Nat] /\ made \in Nat
  BY <1>t DEF Typed
<1>0. CASE task' = task /\ PublishFails(t)
  <2>1. /\ UNCHANGED <<files, opened, cache, data>> /\ uses \subseteq uses' /\ made' \in Nat
        /\ task[t].pc = "publish"
    BY <1>0, <1>n DEF PublishFails, At
  <2>2. UNCHANGED <<table, freed, next_fh, useOf, fhOf, lock, stage, acc, fut>>
          /\ UNCHANGED <<stored, lost, acked, durable>>
    BY <2>1 DEF files, cache, data
  <2>3. AlivePublished'
    BY <1>0, <1>t, <2>1, <2>2 DEF AlivePublished, HandleAlive
  <2>4. IInvFiles'
    BY <1>0, <1>t, <2>1, <2>2 DEF IInvRest, IInvFiles, Typed, TaskShape, FhTable, HandleOfOpen
  <2>5. IInvCache'
    BY <1>0, <1>t, <2>2 DEF IInvRest, IInvCache, LockHeld, StageShape, WritesOnce, InProgressBounded
  <2>6. FlushedEmpty' /\ Tracked' /\ DurableKept'
    BY <1>0, <1>t, <2>2 DEF IInvRest, FlushedEmpty, Tracked, DurableKept, HandedOn
  <2> QED BY <2>3, <2>4, <2>5, <2>6 DEF IInv
<1>1. CASE Open(t)
  <2>1. get_ino_use \in Nat /\ (get_ino_use # 0 => get_ino_use \in uses)
    <3>1. CASE get_ino_use = 0
      BY <3>1
    <3>2. CASE get_ino_use # 0
      <4>1. get_ino_use = opened /\ UseAlive(opened) /\ opened # 0
        BY <3>2 DEF get_ino_use
      <4>2. CASE \E h \in Handles : useOf[h] = opened /\ HandleAlive(h)
        BY <1>t, <1>n, <4>1, <4>2 DEF AlivePublished
      <4>3. CASE \E s \in Tasks : task[s].use = opened
        BY <1>t, <4>1, <4>3 DEF AlivePublished, Typed, TaskType
      <4> QED BY <4>1, <4>2, <4>3 DEF UseAlive
    <3> QED BY <3>1, <3>2
  <2>2. /\ task' \in [Tasks -> TaskType] /\ Others(task, task', Tasks, t)
        /\ task[t] = Idle /\ task'[t].op = "open" /\ task'[t].handle = 0
        /\ task'[t].pc \in {"publish", "install"} /\ task'[t].use = get_ino_use
        /\ task'[t].pc = "install" => task'[t].use # 0
        /\ task'[t].write = 0 /\ task'[t].covers = {}
    BY <1>1, <1>t, <2>1, OpenStep DEF Others
  <2>3. UNCHANGED <<files, inode, cache, data>> /\ UNCHANGED <<uses, made, useOf>>
    BY <1>1 DEF Open, inode, files
  <2>4. task[t].handle = 0
    BY <2>2 DEF Idle
  <2>5. IInvRest'
    <3>1. made' \in Nat /\ task'[t].op # "write" /\ task'[t].pc \notin ServeSteps
      BY <1>n, <2>2, <2>3 DEF ServeSteps
    <3> QED BY <1>t, <2>2, <2>3, <2>4, <3>1, WithoutHandle
  <2>6. AlivePublished'
    BY <1>t, <2>1, <2>2, <2>3, AliveBefore DEF AlivePublished, Others
  <2> QED BY <2>5, <2>6 DEF IInv, IInvRest
<1>2. CASE Publish(t)
  <2>1. /\ task' \in [Tasks -> TaskType] /\ Others(task, task', Tasks, t)
        /\ made' \in Nat /\ made' # 0
        /\ task'[t].op = task[t].op /\ task'[t].pc = "register" /\ task'[t].use = made'
        /\ task'[t].handle = task[t].handle /\ task'[t].write = task[t].write
        /\ task'[t].covers = task[t].covers
    BY <1>2, <1>t, PublishStep DEF Others
  <2>2. UNCHANGED <<files, cache, data>> /\ uses' = uses \cup {made'} /\ useOf' = useOf
    BY <1>2 DEF Publish, files
  <2>3. task[t].pc = "publish" /\ task[t].handle = 0
    BY <1>2, <1>t DEF Publish, At, TaskShape, ServeSteps
  <2>4. task[t].op # "write" /\ task[t].write = 0 /\ task[t].covers = {}
    BY <1>t, <2>3 DEF TaskShape
  <2>5. IInvRest'
    BY <1>t, <2>1, <2>2, <2>3, <2>4, WithoutHandle DEF ServeSteps
  <2>6. AlivePublished'
    BY <1>t, <2>1, <2>2, <2>3, AliveBefore DEF AlivePublished, Others
  <2> QED BY <2>5, <2>6 DEF IInv, IInvRest
<1>3. CASE PublishFails(t) /\ Reply(t)
  <2>1. task' \in [Tasks -> TaskType] /\ IsIdle(t) /\ Others(task, task', Tasks, t)
    BY <1>3, <1>t, ReplyStep DEF Typed, Others
  <2>2. /\ UNCHANGED <<files, cache, data>> /\ uses \subseteq uses' /\ made' \in Nat
        /\ useOf' = useOf
    BY <1>3, <1>n DEF PublishFails, files
  <2>3. task[t].handle = 0
    BY <1>3, <1>t DEF PublishFails, At, TaskShape, ServeSteps
  <2>5. IInvRest'
    BY <1>t, <2>1, <2>2, <2>3, WithoutHandle DEF ServeSteps, IsIdle, None
  <2>6. AlivePublished'
    BY <1>t, <2>1, <2>2, AliveBefore DEF AlivePublished, Others, IsIdle
  <2> QED BY <2>5, <2>6 DEF IInv, IInvRest
<1>4. CASE Register(t)
  <2>1. task' \in [Tasks -> TaskType] /\ SameBut(t, "install")
    BY <1>4, <1>t, GotoStep DEF Register, Typed
  <2>2. UNCHANGED <<files, cache, data>> /\ UNCHANGED <<uses, made, useOf>>
    BY <1>4 DEF Register, files
  <2>3. task[t].pc = "register" /\ task[t].handle = 0 /\ task[t].use # 0
    BY <1>4, <1>t DEF Register, At, TaskShape, ServeSteps
  <2>4. task[t].op # "write" /\ task[t].write = 0 /\ task[t].covers = {}
    BY <1>t, <2>3 DEF TaskShape
  <2>5. Others(task, task', Tasks, t)
    BY <2>1 DEF SameBut, Others
  <2>6. IInvRest'
    BY <1>t, <1>n, <2>1, <2>2, <2>3, <2>4, <2>5, WithoutHandle DEF ServeSteps, SameBut
  <2>7. AlivePublished'
    BY <1>t, <2>1, <2>2, <2>3, <2>5, AliveBefore DEF AlivePublished, Others, SameBut
  <2> QED BY <2>6, <2>7 DEF IInv, IInvRest
<1> QED BY <1>0, <1>1, <1>2, <1>3, <1>4 DEF PublishFails

\* Drop of a use that nobody has any more keeps the invariant.
LEMMA CloseInductive ==
    ASSUME IInv, NEW u \in Uses, CloseUse(u) \/ CloseUseFails(u)
    PROVE  IInv'
<1>1. /\ UNCHANGED <<task, table, freed, next_fh, useOf, fhOf, made>>
      /\ UNCHANGED <<lock, stage, acc, fut, stored, lost, acked, durable>>
      /\ ~UseAlive(u) /\ uses \ {u} \subseteq uses'
  BY DEF CloseUse, CloseUseFails, files, cache, data
<1>2. AlivePublished'
  BY <1>1 DEF IInv, AlivePublished, HandleAlive, UseAlive
<1>3. IInvFiles'
  BY <1>1 DEF IInv, IInvFiles, Typed, TaskShape, FhTable, HandleOfOpen
<1>4. IInvCache'
  BY <1>1 DEF IInv, IInvCache, LockHeld, StageShape, WritesOnce, InProgressBounded
<1>5. FlushedEmpty' /\ Tracked' /\ DurableKept'
  BY <1>1 DEF IInv, FlushedEmpty, Tracked, DurableKept, HandedOn
<1> QED BY <1>2, <1>3, <1>4, <1>5 DEF IInv

\* Install enters a new handle under a number that no other one has.
LEMMA InstallInductive ==
    ASSUME IInv, NEW t \in Tasks, Install(t)
    PROVE  IInv'
<1>t. Typed /\ TaskShape /\ FhTable /\ HandleOfOpen /\ AlivePublished
  BY DEF IInv, IInvFiles
<1>1. PICK h \in Handles, fh \in 0..next_fh :
        /\ useOf[h] = 0
        /\ get_free_fh(fh)
        /\ table' = [x \in DOMAIN table \cup {fh} |-> IF x = fh THEN h ELSE table[x]]
        /\ useOf' = [useOf EXCEPT ![h] = task[t].use]
        /\ fhOf' = [g \in DOMAIN fhOf \cup {h} |-> IF g = h THEN fh ELSE fhOf[g]]
  BY DEF Install
<1>2. task' \in [Tasks -> TaskType] /\ Answered(t)
  BY <1>t, ReplyStep DEF Install, Typed, Answered, Others
<1>3. task[t].pc = "install" /\ task[t].handle = 0 /\ task[t].use # 0 /\ task[t].use \in Nat
  BY <1>t DEF Install, At, TaskShape, ServeSteps, Typed, TaskType
<1>4. /\ UNCHANGED <<uses, made, lock, stage, acc, fut, stored, lost, acked, durable>>
  BY DEF Install, inode, cache, data
<1>5. /\ fh \notin DOMAIN table /\ next_fh' \in Nat
      /\ freed' = freed \ {fh} /\ freed' \cup {fh} \cup DOMAIN table \subseteq 0..(next_fh' - 1)
  BY <1>1, <1>t DEF get_free_fh, FhTable, Typed
<1>6. Range(table') = Range(table) \cup {h} /\ h \notin Range(table) /\ h \notin DOMAIN fhOf
  <2>1. h \notin Range(table)
    BY <1>1, <1>t DEF FhTable, Range
  <2>2. h \notin DOMAIN fhOf
    BY <1>t, <2>1 DEF HandleOfOpen, Range
  <2>3. Range(table') = Range(table) \cup {h}
    BY <1>1, <1>5 DEF Range
  <2> QED BY <2>1, <2>2, <2>3
<1>7. /\ useOf' \in [Handles -> Nat] /\ useOf'[h] = task[t].use
      /\ \A g \in Handles : g # h => useOf'[g] = useOf[g]
  BY <1>1, <1>3, <1>t DEF Typed
<1>8. Typed'
  <2>1. table' \in [DOMAIN table' -> Handles]
    BY <1>1, <1>t DEF Typed
  <2>2. fhOf' \in [DOMAIN fhOf' -> Nat] /\ DOMAIN fhOf' \subseteq Handles
    BY <1>1, <1>t DEF Typed
  <2> QED BY <1>2, <1>4, <1>5, <1>7, <1>t, <2>1, <2>2 DEF Typed
<1>9. TaskShape'
  BY <1>2, <1>t DEF TaskShape, ServeSteps, Answered, IsIdle, Others, None
<1>10. HandleOfOpen'
  BY <1>1, <1>5, <1>6, <1>t DEF HandleOfOpen
<1>11. FhTable'
  <2>1. DOMAIN table' \cup freed' \subseteq 0..(next_fh' - 1) /\ DOMAIN table' \cap freed' = {}
    <3>1. DOMAIN table' = DOMAIN table \cup {fh}
      BY <1>1
    <3> QED BY <1>5, <1>t, <3>1 DEF FhTable
  <2>2. \A x \in DOMAIN table' : useOf'[table'[x]] # 0
    BY <1>1, <1>3, <1>7, <1>t DEF FhTable, Typed
  <2>3. ASSUME NEW s \in Tasks, task'[s].handle # 0
        PROVE  /\ useOf'[task'[s].handle] # 0
               /\ task'[s].pc = "last" \/ task'[s].handle \in Range(table')
               /\ task'[s].op = "release" =>
                    /\ task'[s].handle \notin DOMAIN fhOf'
                    /\ \A r \in Tasks : task'[r].handle = task'[s].handle => r = s
    <3>1. s # t /\ task'[s] = task[s]
      BY <1>2, <2>3 DEF Answered, IsIdle, Others
    <3>2. task[s].handle \in Handles
      BY <1>t, <2>3, <3>1, HandleAt DEF TaskShape
    <3>3. task[s].handle # h
      BY <1>1, <1>t, <2>3, <3>1 DEF FhTable
    <3>4. DOMAIN fhOf' = DOMAIN fhOf \cup {h}
      BY <1>1
    <3> QED BY <1>2, <1>6, <1>7, <1>t, <2>3, <3>1, <3>2, <3>3, <3>4 DEF FhTable, Answered, IsIdle, Others
  <2> QED BY <2>1, <2>2, <2>3 DEF FhTable
<1>12. AlivePublished'
  <2>1. ASSUME NEW g \in Handles, useOf'[g] # 0, HandleAlive(g)' PROVE useOf'[g] \in uses'
    <3>1. CASE g = h
      BY <1>3, <1>4, <1>7, <1>t, <3>1 DEF AlivePublished
    <3>2. CASE g # h
      <4>1. HandleAlive(g)
        BY <1>2, <1>4, <1>6, <2>1, <3>2, Names DEF HandleAlive, Answered, IsIdle, Others
      <4> QED BY <1>4, <1>7, <1>t, <2>1, <3>2, <4>1 DEF AlivePublished
    <3> QED BY <3>1, <3>2
  <2>2. ASSUME NEW s \in Tasks, task'[s].use # 0 PROVE task'[s].use \in uses'
    BY <1>2, <1>4, <1>t, <2>2 DEF AlivePublished, Answered, IsIdle, Others
  <2> QED BY <2>1, <2>2 DEF AlivePublished
<1>13. LockHeld'
  <2>1. \A g \in Handles : lock[g] \in {0} \cup Tasks /\ lock[g] # t
    BY <1>3, <1>t, Names DEF IInv, IInvCache, LockHeld, Typed
  <2> QED BY <1>2, <1>4, <2>1 DEF IInv, IInvCache, LockHeld, Answered, IsIdle, Others, None
<1>14. StageShape'
  <2>1. fut[t].step = None
    BY <1>3 DEF IInv, IInvCache, StageShape
  <2>2. \A r \in Tasks : fut'[r].step # None =>
            task'[r].pc = "sync" /\ fut'[r].handle = task'[r].handle
    BY <1>2, <1>4, <2>1 DEF IInv, IInvCache, StageShape, Answered, Others
  <2>3. \A r \in Tasks : task'[r].pc = "sync" => stage'[task'[r].handle] = {}
    BY <1>2, <1>4 DEF IInv, IInvCache, StageShape, Answered, IsIdle, Others, None
  <2> QED BY <1>4, <2>2, <2>3 DEF IInv, IInvCache, StageShape
<1>15. WritesOnce' /\ InProgressBounded'
  BY <1>2, <1>4 DEF IInv, IInvCache, WritesOnce, InProgressBounded, Answered, IsIdle, Others, None
<1>16. FlushedEmpty'
  <2>1. \A g \in Handles : useOf'[g] # 0 /\ g \notin Range(table') =>
            acc'[g] = <<>> /\ stage'[g] = {}
    BY <1>4, <1>6, <1>7 DEF IInv, FlushedEmpty
  <2>2. \A r \in Tasks :
        /\ task'[r].pc = "sync" /\ fut'[r].step \in {"store", "ok"} => acc'[task'[r].handle] = <<>>
        /\ task'[r].pc \in {"remove", "last"} =>
            acc'[task'[r].handle] = <<>> /\ stage'[task'[r].handle] = {}
    BY <1>2, <1>4 DEF IInv, FlushedEmpty, Answered, IsIdle, Others, None
  <2> QED BY <2>1, <2>2 DEF FlushedEmpty
<1>17. Tracked' /\ DurableKept'
  BY <1>2, <1>4 DEF IInv, Tracked, DurableKept, HandedOn, Answered, IsIdle, Others
<1> QED
  BY <1>8, <1>9, <1>10, <1>11, <1>12, <1>13, <1>14, <1>15, <1>16, <1>17
     DEF IInv, IInvFiles, IInvCache

-----------------------------------------------------------------------------
(***************************************************************************)
(* The requests of the kernel, and their steps.                            *)
(***************************************************************************)

\* A new request keeps the invariant: a write with data of its own, or a
\* release with a handle of its own that the kernel does not have any more.
LEMMA RequestInductive ==
    ASSUME IInv, NEW t \in Tasks, NEW op \in {"write", "flush", "read", "release"},
           NEW h \in Handles, NEW w \in 0..MaxWrites, Request(t, op, h, w),
           UNCHANGED <<table, freed, next_fh, useOf, inode, cache, data>>,
           op = "write" <=> w # 0,
           w # 0 => fut[w] = NoFut /\ \A s \in Tasks : task[s].write # w,
           IF op = "release" THEN /\ \A s \in Tasks : task[s].handle # h
                                  /\ fhOf' = Restrict(fhOf, DOMAIN fhOf \ {h})
                             ELSE fhOf' = fhOf
    PROVE  IInv'
<1>t. Typed /\ TaskShape /\ FhTable /\ HandleOfOpen /\ AlivePublished
  BY DEF IInv, IInvFiles
<1>1. /\ task' \in [Tasks -> TaskType]
      /\ \A s \in Tasks : s # t => task'[s] = task[s]
      /\ task[t] = Idle
      /\ h \in DOMAIN fhOf /\ h \in Range(table)
      /\ task'[t].op = op /\ task'[t].pc = "lock" /\ task'[t].handle = h
      /\ task'[t].use = 0 /\ task'[t].write = w
      /\ \A v \in task'[t].covers : v \in acked /\ fut[v].handle = h
  BY <1>t, RequestStep
<1>2. task[t].handle = 0 /\ task[t].pc = None /\ h # 0 /\ task[t].write = 0
  BY <1>1, Names DEF Idle
<1>3. /\ UNCHANGED <<uses, made, lock, stage, acc, fut, stored, lost, acked, durable>>
      /\ UNCHANGED <<table, freed, next_fh, useOf>>
  BY DEF inode, cache, data
<1>4. /\ DOMAIN fhOf' \subseteq DOMAIN fhOf /\ \A g \in DOMAIN fhOf' : fhOf'[g] = fhOf[g]
      /\ op = "release" => h \notin DOMAIN fhOf'
      /\ fhOf' \in [DOMAIN fhOf' -> Nat]
  BY <1>t DEF Restrict, Typed
<1>5. Typed'
  BY <1>1, <1>3, <1>4, <1>t DEF Typed
<1>6. TaskShape'
  BY <1>1, <1>2, <1>t DEF TaskShape, ServeSteps
<1>7. HandleOfOpen'
  BY <1>3, <1>4, <1>t DEF HandleOfOpen
<1>8. FhTable'
  <2>1. useOf[h] # 0
    BY <1>1, <1>t DEF FhTable, Range
  <2>2. \A s \in Tasks : task[s].handle # 0 /\ task[s].op = "release" => task[s].handle # h
    BY <1>1, <1>t DEF FhTable
  <2>3. ASSUME NEW s \in Tasks, task'[s].handle # 0
        PROVE  /\ useOf'[task'[s].handle] # 0
               /\ task'[s].pc = "last" \/ task'[s].handle \in Range(table')
               /\ task'[s].op = "release" =>
                    /\ task'[s].handle \notin DOMAIN fhOf'
                    /\ \A r \in Tasks : task'[r].handle = task'[s].handle => r = s
    <3>1. CASE s = t
      BY <1>1, <1>2, <1>3, <1>4, <2>1, <3>1
    <3>2. CASE s # t
      BY <1>1, <1>2, <1>3, <1>4, <1>t, <2>2, <2>3, <3>2 DEF FhTable
    <3> QED BY <3>1, <3>2
  <2> QED BY <1>3, <1>t, <2>3 DEF FhTable
<1>9. AlivePublished'
  <2>1. ASSUME NEW g \in Handles, HandleAlive(g)' PROVE HandleAlive(g)
    BY <1>1, <1>3, <2>1 DEF HandleAlive
  <2> QED BY <1>1, <1>3, <1>t, <2>1 DEF AlivePublished
<1>10. LockHeld'
  <2>1. \A g \in Handles : lock[g] \in {0} \cup Tasks /\ lock[g] # t
    BY <1>2, <1>t, Names DEF IInv, IInvCache, LockHeld, Typed
  <2> QED BY <1>1, <1>3, <2>1 DEF IInv, IInvCache, LockHeld
<1>11. StageShape'
  <2>1. fut[t].step = None
    BY <1>2 DEF IInv, IInvCache, StageShape, None
  <2>2. \A r \in Tasks : fut'[r].step # None =>
            task'[r].pc = "sync" /\ fut'[r].handle = task'[r].handle
    BY <1>1, <1>3, <2>1 DEF IInv, IInvCache, StageShape
  <2>3. \A r \in Tasks : task'[r].pc = "sync" => stage'[task'[r].handle] = {}
    BY <1>1, <1>3 DEF IInv, IInvCache, StageShape
  <2> QED BY <1>3, <2>2, <2>3 DEF IInv, IInvCache, StageShape
<1>12. WritesOnce'
  BY <1>1, <1>2, <1>3 DEF IInv, IInvCache, WritesOnce
<1>13. InProgressBounded'
  BY <1>3 DEF IInv, IInvCache, InProgressBounded
<1>14. FlushedEmpty'
  BY <1>1, <1>3 DEF IInv, FlushedEmpty
<1>15. Tracked' /\ DurableKept'
  BY <1>1, <1>3 DEF IInv, Tracked, DurableKept, HandedOn
<1> QED
  BY <1>5, <1>6, <1>7, <1>8, <1>9, <1>10, <1>11, <1>12, <1>13, <1>14, <1>15
     DEF IInv, IInvFiles, IInvCache

\* The three kinds of requests.
LEMMA RequestsInductive ==
    ASSUME IInv, NEW t \in Tasks, NEW h \in Handles,
           \/ Release(t, h)
           \/ \E w \in Writes : Write(t, h, w)
           \/ \E op \in {"flush", "read"} : Sync(t, op, h)
    PROVE  IInv'
<1>1. CASE Release(t, h)
  <2>1. 0 \in 0..MaxWrites
    BY OpenFilesAssumption
  <2> QED BY <1>1, <2>1, RequestInductive DEF Release
<1>2. ASSUME NEW w \in Writes, Write(t, h, w) PROVE IInv'
  <2>1. w \in 0..MaxWrites /\ w # 0
    BY Names
  <2>2. /\ Request(t, "write", h, w) /\ fut[w] = NoFut /\ \A s \in Tasks : task[s].write # w
        /\ UNCHANGED <<table, freed, next_fh, useOf, inode, cache, data>> /\ fhOf' = fhOf
    BY <1>2 DEF Write, files
  <2> QED BY <2>1, <2>2, RequestInductive
<1>3. ASSUME NEW op \in {"flush", "read"}, Sync(t, op, h) PROVE IInv'
  <2>1. 0 \in 0..MaxWrites
    BY OpenFilesAssumption
  <2>2. /\ Request(t, op, h, 0) /\ fhOf' = fhOf
        /\ UNCHANGED <<table, freed, next_fh, useOf, inode, cache, data>>
    BY <1>3 DEF Sync, files
  <2> QED BY <2>1, <2>2, RequestInductive
<1> QED BY <1>1, <1>2, <1>3

\* Request t is answered, or goes on to a step that its operation has.
Moves(t) ==
    \/ Answered(t)
    \/ \E pc \in {"full", "drain", "sync", "remove"} :
        /\ SameBut(t, pc) /\ task[t].pc # "last"
        /\ pc = "full" => task[t].op = "write"
        /\ pc \in {"drain", "sync"} => task[t].op # "write"
        /\ pc = "remove" => task[t].op = "release"

\* A request that moves on leaves the table as it is.
LEMMA FilesKept ==
    ASSUME IInvFiles, Typed', UNCHANGED files, NEW t \in Tasks, task[t].pc \in ServeSteps, Moves(t)
    PROVE  IInvFiles'
<1>1. UNCHANGED <<table, freed, next_fh, useOf, fhOf>>
  BY DEF files
<1>2. HandleOfOpen'
  BY <1>1 DEF IInvFiles, HandleOfOpen
<1>3. CASE Answered(t)
  <2>1. TaskShape'
    BY <1>3 DEF IInvFiles, TaskShape, ServeSteps, Answered, IsIdle, Others, None
  <2>2. FhTable'
    BY <1>1, <1>3 DEF IInvFiles, FhTable, Answered, IsIdle, Others
  <2> QED BY <1>2, <2>1, <2>2 DEF IInvFiles
<1>4. ASSUME NEW pc \in {"full", "drain", "sync", "remove"},
             SameBut(t, pc), task[t].pc # "last",
             pc = "full" => task[t].op = "write",
             pc \in {"drain", "sync"} => task[t].op # "write",
             pc = "remove" => task[t].op = "release"
      PROVE  IInvFiles'
  <2>1. \A s \in Tasks : /\ task'[s].handle = task[s].handle /\ task'[s].op = task[s].op
                         /\ task'[s].write = task[s].write /\ task'[s].covers = task[s].covers
                         /\ s # t => task'[s].pc = task[s].pc
                         /\ s # t => task'[s].use = task[s].use
    BY <1>4 DEF SameBut
  <2>2. task'[t].pc = pc /\ pc \in ServeSteps \ {"last"}
    BY <1>4 DEF SameBut, ServeSteps
  <2>3. TaskShape'
    BY <1>4, <2>1, <2>2 DEF IInvFiles, TaskShape, ServeSteps
  <2>4. FhTable'
    BY <1>1, <1>4, <2>1, <2>2 DEF IInvFiles, FhTable
  <2> QED BY <1>2, <2>3, <2>4 DEF IInvFiles
<1> QED BY <1>3, <1>4 DEF Moves

\* It also brings no handle back to life.
LEMMA UsesKept ==
    ASSUME AlivePublished, UNCHANGED <<files, inode>>, NEW t \in Tasks, Moves(t),
           \A v \in Writes : fut'[v].step \in {"push", "store"} =>
                \/ fut[v].step \in {"push", "store"} /\ fut'[v].handle = fut[v].handle
                \/ fut'[v].handle = task[t].handle
    PROVE  AlivePublished'
<1>1. UNCHANGED <<table, useOf, uses>>
  BY DEF files, inode
<1>2. \A s \in Tasks : task'[s].handle # 0 => task'[s].handle = task[s].handle
  BY DEF Moves, Answered, IsIdle, Others, SameBut
<1>3. \A s \in Tasks : task'[s].use # 0 => task'[s].use = task[s].use
  BY DEF Moves, Answered, IsIdle, Others, SameBut
<1>4. ASSUME NEW g \in Handles, HandleAlive(g)' PROVE HandleAlive(g)
  BY <1>1, <1>2, <1>4, Names DEF HandleAlive
<1> QED BY <1>1, <1>3, <1>4 DEF AlivePublished

\* A set of writes is finite.
LEMMA WritesFinite ==
    ASSUME NEW S, S \subseteq Writes
    PROVE  IsFiniteSet(S) /\ Cardinality(S) \in Nat
<1>1. IsFiniteSet(S)
  BY Names, FS_Subset
<1> QED BY <1>1, FS_CardinalityType

\* write_cache.push keeps the invariant.
LEMMA PushInductive ==
    ASSUME IInv, NEW t \in Tasks, Push(t)
    PROVE  IInv'
<1> DEFINE h == task[t].handle
           w == task[t].write
<1>t. Typed /\ TaskShape /\ FhTable /\ IInvFiles /\ AlivePublished /\ LockHeld /\ StageShape
        /\ WritesOnce /\ InProgressBounded /\ FlushedEmpty /\ Tracked
  BY DEF IInv, IInvFiles, IInvCache
<1>1. /\ task[t].pc = "lock" /\ task[t].op = "write" /\ h \in Handles /\ w \in Writes
      /\ lock[h] = 0 /\ fut[w] = NoFut
      /\ Typed' /\ UNCHANGED <<files, inode, acc, stored, lost, durable>>
      /\ Others(fut, fut', Closures, w) /\ fut'[w] = Spawned(h)
      /\ Others(stage, stage', Handles, h) /\ stage'[h] = stage[h] \cup {w}
      /\ Others(lock, lock', Handles, h)
      /\ \/ Full(stage'[h]) /\ lock'[h] = t /\ SameBut(t, "full") /\ acked' = acked
         \/ ~Full(stage'[h]) /\ lock'[h] = 0 /\ Answered(t) /\ acked' = acked \cup {w}
  BY <1>t, PushStep
<1> HIDE DEF h, w
<1>2. /\ fut'[w].step = "push" /\ fut'[w].handle = h /\ fut[w].step = None /\ w \in Closures
      /\ h = task[t].handle /\ w = task[t].write
  BY <1>1, FutValues DEF Closures, h, w
<1>3. \A r \in Tasks : fut'[r] = fut[r] /\ r # w
  BY <1>1, Names DEF Others, Closures
<1>4. IInvFiles'
  BY <1>1, <1>t, FilesKept DEF Moves, ServeSteps
<1>5. AlivePublished'
  <2>1. Moves(t)
    BY <1>1 DEF Moves
  <2>2. \A v \in Writes : fut'[v].step \in {"push", "store"} =>
                \/ fut[v].step \in {"push", "store"} /\ fut'[v].handle = fut[v].handle
                \/ fut'[v].handle = task[t].handle
    BY <1>1, <1>2 DEF Others, Closures
  <2> QED BY <1>1, <1>t, <2>1, <2>2, UsesKept
<1>6. LockHeld'
  <2>1. \A s \in Tasks : task[s].pc \in {"full", "drain", "sync"} =>
            task[s].handle # h /\ task[s].handle \in Handles
    BY <1>1, <1>t, Names, HandleAt DEF LockHeld, ServeSteps
  <2>2. \A g \in Handles : lock[g] \in {0} \cup Tasks /\ lock[g] # t
    <3>1. \A g \in Handles : lock[g] # 0 => task[lock[g]].pc # "lock"
      BY <1>t DEF LockHeld
    <3> QED BY <1>1, <1>t, <3>1, Names DEF Typed
  <2>3. CASE lock'[h] = t /\ SameBut(t, "full")
    <3>1. \A g \in Handles : lock'[g] # 0 =>
            task'[lock'[g]].handle = g /\ task'[lock'[g]].pc \in {"full", "drain", "sync"}
      BY <1>1, <1>2, <1>t, <2>2, <2>3 DEF LockHeld, Others, SameBut
    <3>2. \A s \in Tasks : task'[s].pc \in {"full", "drain", "sync"} => lock'[task'[s].handle] = s
      BY <1>1, <1>2, <1>t, <2>1, <2>3 DEF LockHeld, Others, SameBut
    <3> QED BY <3>1, <3>2 DEF LockHeld
  <2>4. CASE lock'[h] = 0 /\ Answered(t)
    <3>1. \A g \in Handles : lock'[g] # 0 =>
            task'[lock'[g]].handle = g /\ task'[lock'[g]].pc \in {"full", "drain", "sync"}
      BY <1>1, <1>t, <2>2, <2>4 DEF LockHeld, Others, Answered
    <3>2. \A s \in Tasks : task'[s].pc \in {"full", "drain", "sync"} => lock'[task'[s].handle] = s
      BY <1>1, <1>t, <2>1, <2>4 DEF LockHeld, Others, Answered, IsIdle, None
    <3> QED BY <3>1, <3>2 DEF LockHeld
  <2> QED BY <1>1, <2>3, <2>4
<1>7. StageShape'
  <2>0. \A g \in Handles : stage[g] \subseteq Writes /\ w \notin stage[g]
    BY <1>2, <1>t DEF StageShape, Typed, None
  <2>1. \A g \in Handles : \A v \in stage'[g] :
            fut'[v].handle = g /\ fut'[v].step \in {"push", "store", "ok", "err"}
    BY <1>1, <1>2, <1>t, <2>0 DEF StageShape, Others, Closures
  <2>2. \A v \in Writes : fut'[v].step \in {"push", "store"} =>
            fut'[v].handle # 0 /\ v \in stage'[fut'[v].handle]
    <3>1. ASSUME NEW v \in Writes, v # w, fut[v].step \in {"push", "store"}
          PROVE  fut[v].handle # 0 /\ v \in stage'[fut[v].handle]
      <4>1. fut[v].handle \in Handles
        BY <1>t, <3>1, HandleOfClosure DEF Closures
      <4> QED BY <1>1, <1>t, <3>1, <4>1 DEF StageShape, Others
    <3> QED BY <1>1, <1>2, <3>1, Names DEF Others, Closures
  <2>3. \A r \in Tasks : fut'[r].step # None =>
            task'[r].pc = "sync" /\ fut'[r].handle = task'[r].handle
    <3>1. \A r \in Tasks : fut[r].step # None => r # t
      BY <1>1, <1>t DEF StageShape
    <3> QED BY <1>1, <1>3, <1>t, <3>1 DEF StageShape, SameBut, Answered, Others
  <2>4. \A r \in Tasks : task'[r].pc = "sync" => stage'[task'[r].handle] = {}
    <3>1. \A r \in Tasks : task'[r].pc = "sync" => r # t /\ task'[r] = task[r]
      BY <1>1 DEF SameBut, Answered, IsIdle, Others, None
    <3>2. \A r \in Tasks : task[r].pc = "sync" => task[r].handle \in Handles /\ task[r].handle # h
      BY <1>1, <1>t, Names, HandleAt DEF LockHeld, ServeSteps
    <3> QED BY <1>1, <1>t, <3>1, <3>2 DEF StageShape, Others
  <2> QED BY <2>1, <2>2, <2>3, <2>4 DEF StageShape
<1>8. WritesOnce'
  <2>1. \A s \in Tasks : s # t => task[s].write # w
    BY <1>2, <1>1, <1>t, Names DEF WritesOnce
  <2>2. \A s \in Tasks : s # t => task'[s] = task[s]
    BY <1>1 DEF SameBut, Answered, Others
  <2>3. \A s \in Tasks : task[s].op = "write" => task[s].write \in Writes
    BY <1>t, Names DEF TaskShape, Typed, TaskType
  <2>4. ASSUME NEW s \in Tasks, task'[s].op = "write"
        PROVE  IF task'[s].pc = "lock" THEN fut'[task'[s].write] = NoFut
                                       ELSE fut'[task'[s].write].step # None
    <3>1. CASE s = t
      BY <1>1, <1>2, <2>4, <3>1 DEF SameBut, Answered, IsIdle, None
    <3>2. CASE s # t
      BY <1>1, <1>t, <2>1, <2>2, <2>3, <2>4, <3>2 DEF WritesOnce, Others, Closures
    <3> QED BY <3>1, <3>2
  <2>5. \A r, s \in Tasks : task'[s].write # 0 /\ task'[s].write = task'[r].write => s = r
    BY <1>1, <1>t, <2>2 DEF WritesOnce, SameBut, Answered, IsIdle
  <2> QED BY <2>4, <2>5 DEF WritesOnce
<1>9. InProgressBounded'
  <2>1. Cardinality(stage[h]) <= Limit - 1
    BY <1>1, <1>t DEF InProgressBounded
  <2>2. /\ IsFiniteSet(stage[h]) /\ Cardinality(stage[h]) \in Nat
        /\ Cardinality(stage'[h]) \in Nat /\ Limit \in Nat \ {0}
    <3>1. stage[h] \subseteq Writes /\ stage'[h] \subseteq Writes
      BY <1>1, <1>t DEF Typed
    <3> QED BY <3>1, WritesFinite, OpenFilesAssumption
  <2>3. Cardinality(stage'[h]) <= Cardinality(stage[h]) + 1
    <3>1. Cardinality(stage[h] \cup {w}) =
            IF w \in stage[h] THEN Cardinality(stage[h]) ELSE Cardinality(stage[h]) + 1
      BY <2>2, FS_AddElement
    <3> QED BY <1>1, <2>2, <3>1
  <2>4. Cardinality(stage'[h]) <= IF lock'[h] = 0 THEN Limit - 1 ELSE Limit
    BY <1>1, <2>1, <2>2, <2>3, Names DEF Full
  <2> QED BY <1>1, <1>t, <2>4 DEF InProgressBounded, Others
<1>10. FlushedEmpty'
  <2>1. h \in Range(table)
    BY <1>1, <1>2, <1>t, Names DEF FhTable
  <2>2. \A r \in Tasks : task'[r].pc \in {"sync", "remove", "last"} => r # t /\ task'[r] = task[r]
    BY <1>1 DEF SameBut, Answered, IsIdle, Others, None
  <2>3. \A r \in Tasks : task[r].pc \in {"remove", "last"} =>
            task[r].handle \in Handles /\ task[r].handle # h
    <3>1. ASSUME NEW r \in Tasks, task[r].pc \in {"remove", "last"}, task[r].handle = h
          PROVE  FALSE
      <4>1. task[r].op = "release" /\ r # t
        BY <1>1, <1>t, <3>1 DEF TaskShape
      <4> QED BY <1>1, <1>2, <1>t, <3>1, <4>1, Names DEF FhTable
    <3> QED BY <1>t, <3>1, HandleAt DEF ServeSteps
  <2>4. UNCHANGED <<acc, table, useOf>>
    BY <1>1 DEF files
  <2>5. \A r \in Tasks :
        /\ task'[r].pc = "sync" /\ fut'[r].step \in {"store", "ok"} => acc'[task'[r].handle] = <<>>
        /\ task'[r].pc \in {"remove", "last"} =>
            acc'[task'[r].handle] = <<>> /\ stage'[task'[r].handle] = {}
    BY <1>1, <1>3, <1>t, <2>2, <2>3, <2>4 DEF FlushedEmpty, Others
  <2>6. \A g \in Handles : useOf'[g] # 0 /\ g \notin Range(table') =>
            acc'[g] = <<>> /\ stage'[g] = {}
    BY <1>1, <1>t, <2>1, <2>4 DEF FlushedEmpty, Others
  <2> QED BY <2>5, <2>6 DEF FlushedEmpty
<1>11. Tracked' /\ DurableKept'
  <2>1. UNCHANGED <<acc, stored, lost, durable>>
    BY <1>1
  <2>2. \A v \in Writes : v # w => fut'[v] = fut[v]
    BY <1>1 DEF Others, Closures
  <2>3. ASSUME NEW v \in Writes, v # w, HandedOn(v) PROVE HandedOn(v)'
    BY <1>1, <1>2, <2>1, <2>2, <2>3 DEF HandedOn, Others, None
  <2>4. \A v \in Writes : fut'[v].step \notin {None, "push"} => fut'[v].handle # 0 /\ HandedOn(v)'
    BY <1>2, <1>t, <2>2, <2>3 DEF Tracked
  <2>5. acked \subseteq Writes /\ \A v \in acked' : fut'[v].step # None
    BY <1>1, <1>2, <1>t, <2>2 DEF Tracked, Typed, None
  <2>6. \A s \in Tasks : \A v \in task'[s].covers : v \in task[s].covers /\ task'[s].handle = task[s].handle
    BY <1>1 DEF SameBut, Answered, IsIdle, Others
  <2>7. \A s \in Tasks : task[s].covers \subseteq Writes /\ w \notin task[s].covers
    BY <1>2, <1>t DEF Tracked, Typed, TaskType
  <2>8. \A s \in Tasks : \A v \in task'[s].covers :
            fut'[v].step # None /\ fut'[v].handle = task'[s].handle
    BY <1>t, <2>2, <2>6, <2>7 DEF Tracked
  <2>9. DurableKept'
    BY <2>1 DEF IInv, DurableKept
  <2> QED BY <2>4, <2>5, <2>8, <2>9 DEF Tracked
<1> QED BY <1>4, <1>5, <1>6, <1>7, <1>8, <1>9, <1>10, <1>11 DEF IInv, IInvCache

\* The results of some writes that are done are taken, and nothing else
\* happens to the closures of writes.
TakesDone(h, S) ==
    /\ S \subseteq stage[h]
    /\ \A v \in S : Done(v) /\ fut'[v] = Taken(h)
    /\ \A v \in Writes : v \notin S => fut'[v] = fut[v]
    /\ Others(stage, stage', Handles, h) /\ stage'[h] = stage[h] \ S

\* Taking results leaves the writes that are under way, and all data, alone.
LEMMA TakenKept ==
    ASSUME IInv, NEW h \in Handles, NEW S, TakesDone(h, S)
    PROVE  /\ \A v \in Writes : fut'[v].step \in {"push", "store"} =>
                fut[v].step \in {"push", "store"} /\ fut'[v].handle = fut[v].handle
           /\ \A v \in Writes : fut'[v].handle = fut[v].handle
           /\ \A v \in Writes : fut[v].step = "store" => fut'[v] = fut[v]
           /\ \A v \in Writes : fut'[v].step = None <=> fut[v].step = None
           /\ \A v \in Writes : fut[v] = NoFut => fut'[v] = fut[v]
           /\ \A v \in Writes : fut[v].step = "push" => fut'[v].step = "push"
           /\ \A g \in Handles : \A v \in stage'[g] :
                fut'[v].handle = g /\ fut'[v].step \in {"push", "store", "ok", "err"}
           /\ \A v \in Writes : fut'[v].step \in {"push", "store"} =>
                fut'[v].handle # 0 /\ v \in stage'[fut'[v].handle]
           /\ \A g \in Handles : stage'[g] \subseteq stage[g]
<1>t. Typed /\ TaskShape /\ StageShape
  BY DEF IInv, IInvFiles, IInvCache
<1>0. \A v \in S : /\ v \in Writes /\ v \in stage[h] /\ fut[v].handle = h
                   /\ fut[v].step \in {"ok", "err"}
                   /\ fut'[v].step = "taken" /\ fut'[v].handle = h
  BY <1>t, FutValues DEF TakesDone, Typed, StageShape, Done
<1>1. \A v \in Writes : v \notin S => fut'[v] = fut[v]
  BY DEF TakesDone
<1>2. NoFut.step = None
  BY DEF NoFut
<1>3. \A g \in Handles : stage'[g] \subseteq stage[g] /\ stage[g] \subseteq Writes
  BY <1>t DEF TakesDone, Others, Typed
<1>4. \A g \in Handles : \A v \in stage'[g] :
        fut'[v].handle = g /\ fut'[v].step \in {"push", "store", "ok", "err"}
  <2>1. ASSUME NEW g \in Handles, NEW v \in stage'[g] PROVE v \notin S
    BY <1>0, <1>3, <1>t DEF TakesDone, Others, StageShape
  <2> QED BY <1>1, <1>3, <1>t, <2>1 DEF StageShape
<1>5. ASSUME NEW v \in Writes, fut'[v].step \in {"push", "store"}
      PROVE  fut'[v].handle # 0 /\ v \in stage'[fut'[v].handle]
  <2>1. v \notin S /\ fut'[v] = fut[v]
    BY <1>0, <1>1, <1>5
  <2>2. fut[v].handle \in Handles
    BY <1>5, <1>t, <2>1, HandleOfClosure DEF Closures
  <2>3. v \in stage[fut[v].handle] /\ fut[v].handle # 0
    BY <1>5, <1>t, <2>1 DEF StageShape
  <2> QED BY <2>1, <2>2, <2>3 DEF TakesDone, Others
<1>6. \A v \in Writes : fut[v] = NoFut => v \notin S
  BY <1>0, <1>2 DEF None
<1>7. \A v \in Writes : v \in S => fut'[v].step # None /\ fut[v].step # None
  BY <1>0 DEF None
<1> QED BY <1>0, <1>1, <1>3, <1>4, <1>5, <1>6, <1>7

\* Whoever has the lock of a handle has no rival for it.
LEMMA HolderAlone ==
    ASSUME IInv, NEW t \in Tasks, task[t].pc \in {"full", "drain", "sync"},
           NEW s \in Tasks, s # t, task[s].handle = task[t].handle
    PROVE  task[s].pc \notin {"full", "drain", "sync"}
  BY DEF IInv, IInvCache, LockHeld

\* The lock is given back by a request that is answered or goes on without.
LEMMA LockGivenBack ==
    ASSUME IInv, NEW t \in Tasks, NEW h \in Handles, h = task[t].handle,
           task[t].pc \in {"full", "drain", "sync"},
           Others(lock, lock', Handles, h), lock'[h] = 0,
           Answered(t) \/ SameBut(t, "remove")
    PROVE  LockHeld'
<1>1. /\ \A s \in Tasks : s # t => task'[s] = task[s]
      /\ task'[t].pc \notin {"full", "drain", "sync"}
  BY DEF Answered, IsIdle, SameBut, Others, None
<1>2. \A g \in Handles : g # h => lock'[g] = lock[g] /\ lock[g] # t
  BY Names DEF IInv, IInvCache, LockHeld, Others
<1>3. \A g \in Handles : lock[g] \in {0} \cup Tasks
  BY DEF IInv, IInvFiles, Typed
<1>4. \A s \in Tasks : s # t /\ task[s].pc \in {"full", "drain", "sync"} =>
        task[s].handle # h /\ task[s].handle \in Handles
  <2>1. Typed /\ TaskShape
    BY DEF IInv, IInvFiles
  <2> QED BY <2>1, HolderAlone, HandleAt DEF ServeSteps
<1>5. \A g \in Handles : lock'[g] # 0 =>
        task'[lock'[g]].handle = g /\ task'[lock'[g]].pc \in {"full", "drain", "sync"}
  BY <1>1, <1>2, <1>3 DEF IInv, IInvCache, LockHeld
<1>6. \A s \in Tasks : task'[s].pc \in {"full", "drain", "sync"} => lock'[task'[s].handle] = s
  BY <1>1, <1>2, <1>4 DEF IInv, IInvCache, LockHeld
<1> QED BY <1>5, <1>6 DEF LockHeld

\* What remains true of requests and data when results are taken.
LEMMA DataKept ==
    ASSUME IInv, NEW t \in Tasks, NEW h \in Handles, NEW S, TakesDone(h, S), Moves(t),
           task'[t].op # "write", Typed', UNCHANGED <<files, acc, stored, lost, durable>>,
           acked' \subseteq acked \cup {task[t].write},
           acked' # acked => task[t].pc = "full",
           \A s \in Tasks : fut[s].step = "store" => fut'[s] = fut[s]
    PROVE  /\ WritesOnce' /\ Tracked' /\ DurableKept'
           /\ \A g \in Handles : useOf'[g] # 0 /\ g \notin Range(table') =>
                acc'[g] = <<>> /\ stage'[g] = {}
<1>t. Typed /\ TaskShape /\ WritesOnce /\ Tracked /\ FlushedEmpty /\ DurableKept
  BY DEF IInv, IInvFiles, IInvCache
<1>1. /\ \A v \in Writes : fut'[v].handle = fut[v].handle
      /\ \A v \in Writes : fut[v].step = "store" => fut'[v] = fut[v]
      /\ \A v \in Writes : fut'[v].step = None <=> fut[v].step = None
      /\ \A v \in Writes : fut[v] = NoFut => fut'[v] = fut[v]
      /\ \A v \in Writes : fut[v].step = "push" => fut'[v].step = "push"
      /\ \A g \in Handles : stage'[g] \subseteq stage[g]
  BY TakenKept
<1>2. \A s \in Tasks :
        /\ s # t => task'[s] = task[s]
        /\ task'[s].op = "write" => task[s].op = "write" /\ task'[s].write = task[s].write
        /\ task'[s].op = "write" /\ task'[s].pc = "lock" => task[s].pc = "lock"
        /\ task'[s].write # 0 => task'[s].write = task[s].write
        /\ \A v \in task'[s].covers : v \in task[s].covers /\ task'[s].handle = task[s].handle
  BY DEF Moves, Answered, IsIdle, SameBut, Others, None
<1>3. \A s \in Tasks : /\ task[s].op = "write" => task[s].write \in Writes
                       /\ task[s].covers \subseteq Writes
  BY <1>t, Names DEF TaskShape, Typed, TaskType
<1>4. WritesOnce'
  <2>1. ASSUME NEW s \in Tasks, task'[s].op = "write"
        PROVE  IF task'[s].pc = "lock" THEN fut'[task'[s].write] = NoFut
                                       ELSE fut'[task'[s].write].step # None
    <3>1. CASE s # t
      BY <1>1, <1>2, <1>3, <1>t, <2>1, <3>1 DEF WritesOnce
    <3>2. CASE s = t
      BY <2>1, <3>2
    <3> QED BY <3>1, <3>2
  <2>2. \A r, s \in Tasks : task'[s].write # 0 /\ task'[s].write = task'[r].write => s = r
    BY <1>2, <1>t DEF WritesOnce
  <2> QED BY <2>1, <2>2 DEF WritesOnce
<1>5. Tracked'
  <2>1. ASSUME NEW v \in Writes, HandedOn(v) PROVE HandedOn(v)'
    BY <1>1, <2>1 DEF HandedOn, Closures
  <2>2. \A v \in Writes : fut'[v].step \notin {None, "push"} => fut'[v].handle # 0 /\ HandedOn(v)'
    BY <1>1, <1>t, <2>1 DEF Tracked
  <2>3. \A v \in acked' : fut'[v].step # None
    <3>1. ASSUME NEW v \in acked' PROVE v \in Writes /\ fut[v].step # None
      <4>1. CASE v \in acked
        BY <1>t, <4>1 DEF Tracked, Typed
      <4>2. CASE v \notin acked
        <5>1. v = task[t].write /\ task[t].pc = "full"
          BY <3>1, <4>2
        <5>2. task[t].op = "write"
          BY <1>t, <5>1 DEF TaskShape
        <5> QED BY <1>3, <1>t, <5>1, <5>2 DEF WritesOnce
      <4> QED BY <4>1, <4>2
    <3> QED BY <1>1, <3>1
  <2>4. \A s \in Tasks : \A v \in task'[s].covers :
            fut'[v].step # None /\ fut'[v].handle = task'[s].handle
    BY <1>1, <1>2, <1>3, <1>t DEF Tracked
  <2> QED BY <2>2, <2>3, <2>4 DEF Tracked
<1>6. \A g \in Handles : useOf'[g] # 0 /\ g \notin Range(table') =>
        acc'[g] = <<>> /\ stage'[g] = {}
  BY <1>1, <1>t DEF FlushedEmpty, files
<1> QED BY <1>4, <1>5, <1>6, <1>t DEF DurableKept

\* The write that a full stage waits for keeps the invariant.
LEMMA AwaitInductive ==
    ASSUME IInv, NEW t \in Tasks, AwaitOne(t)
    PROVE  IInv'
<1> DEFINE h == task[t].handle
<1>t. Typed /\ TaskShape /\ IInvFiles /\ AlivePublished /\ StageShape /\ InProgressBounded
        /\ FlushedEmpty
  BY DEF IInv, IInvFiles, IInvCache
<1>1. /\ task[t].pc = "full" /\ h \in Handles
      /\ Typed' /\ UNCHANGED <<files, inode, acc, stored, lost, durable>>
      /\ \E v \in stage[h] :
           /\ Done(v) /\ Others(fut, fut', Closures, v) /\ fut'[v] = Taken(h)
           /\ Others(stage, stage', Handles, h) /\ stage'[h] = stage[h] \ {v}
      /\ Others(lock, lock', Handles, h) /\ lock'[h] = 0
      /\ Answered(t) /\ acked' \subseteq acked \cup {task[t].write}
  BY <1>t, AwaitStep
<1> HIDE DEF h
<1>2. PICK v \in stage[h] :
           /\ Done(v) /\ Others(fut, fut', Closures, v) /\ fut'[v] = Taken(h)
           /\ Others(stage, stage', Handles, h) /\ stage'[h] = stage[h] \ {v}
  BY <1>1
<1>3. v \in Writes /\ stage[h] \subseteq Writes /\ h = task[t].handle
  BY <1>1, <1>t DEF Typed, h
<1>4. TakesDone(h, {v})
  BY <1>2 DEF TakesDone, Others, Closures
<1>5. \A s \in Tasks : fut'[s] = fut[s]
  BY <1>2, <1>3, Names DEF Others, Closures
<1>6. Moves(t) /\ task'[t].op # "write"
  BY <1>1 DEF Moves, Answered, IsIdle, None
<1>7. IInvFiles'
  BY <1>1, <1>6, <1>t, FilesKept DEF ServeSteps
<1>8. AlivePublished'
  BY <1>1, <1>4, <1>6, <1>t, TakenKept, UsesKept
<1>9. LockHeld'
  BY <1>1, <1>3, LockGivenBack
<1>10. StageShape'
  <2>1. \A r \in Tasks : fut'[r].step # None =>
            task'[r].pc = "sync" /\ fut'[r].handle = task'[r].handle
    BY <1>1, <1>5, <1>t DEF StageShape, Answered, Others
  <2>2. \A r \in Tasks : task'[r].pc = "sync" => stage'[task'[r].handle] = {}
    <3>1. \A r \in Tasks : task'[r].pc = "sync" => task'[r] = task[r]
      BY <1>1 DEF Answered, IsIdle, Others, None
    <3>2. \A r \in Tasks : task[r].pc = "sync" => task[r].handle \in Handles
      BY <1>t, HandleAt DEF ServeSteps
    <3>3. \A g \in Handles : stage'[g] \subseteq stage[g]
      BY <1>1, <1>4, TakenKept
    <3> QED BY <1>t, <3>1, <3>2, <3>3 DEF StageShape
  <2> QED BY <1>1, <1>4, <2>1, <2>2, TakenKept DEF StageShape
<1>11. InProgressBounded'
  <2>1. Cardinality(stage[h]) <= Limit /\ Limit \in Nat \ {0} /\ IsFiniteSet(stage[h])
          /\ Cardinality(stage[h]) \in Nat
    BY <1>1, <1>3, <1>t, WritesFinite, OpenFilesAssumption DEF InProgressBounded
  <2>2. Cardinality(stage'[h]) = Cardinality(stage[h]) - 1
    BY <1>2, <2>1, FS_RemoveElement
  <2>3. Cardinality(stage'[h]) <= IF lock'[h] = 0 THEN Limit - 1 ELSE Limit
    BY <1>1, <2>1, <2>2
  <2> QED BY <1>1, <1>2, <1>t, <2>3 DEF InProgressBounded, Others
<1>12. /\ WritesOnce' /\ Tracked' /\ DurableKept'
       /\ \A g \in Handles : useOf'[g] # 0 /\ g \notin Range(table') =>
            acc'[g] = <<>> /\ stage'[g] = {}
  BY <1>1, <1>4, <1>5, <1>6, DataKept
<1>13. FlushedEmpty'
  <2>1. \A r \in Tasks : task'[r].pc \in {"sync", "remove", "last"} => task'[r] = task[r]
    BY <1>1 DEF Answered, IsIdle, Others, None
  <2>2. \A r \in Tasks : task[r].pc \in {"remove", "last"} => task[r].handle \in Handles
    BY <1>t, HandleAt DEF ServeSteps
  <2>3. acc' = acc /\ \A g \in Handles : stage'[g] \subseteq stage[g]
    BY <1>1, <1>4, TakenKept
  <2> QED BY <1>5, <1>12, <1>t, <2>1, <2>2, <2>3 DEF FlushedEmpty
<1> QED BY <1>7, <1>8, <1>9, <1>10, <1>11, <1>12, <1>13 DEF IInv, IInvCache

\* Taking the lock for a flush or a read keeps the invariant.
LEMMA LockInductive ==
    ASSUME IInv, NEW t \in Tasks, LockCache(t)
    PROVE  IInv'
<1> DEFINE h == task[t].handle
<1>t. Typed /\ TaskShape /\ IInvFiles /\ AlivePublished /\ LockHeld /\ StageShape /\ WritesOnce
        /\ InProgressBounded /\ FlushedEmpty /\ Tracked /\ DurableKept
  BY DEF IInv, IInvFiles, IInvCache
<1>1. /\ task[t].pc = "lock" /\ task[t].op # "write" /\ lock[h] = 0
      /\ lock' = [lock EXCEPT ![h] = t] /\ Goto(t, "drain")
      /\ UNCHANGED <<files, inode, stage, acc, fut, data>>
  BY DEF LockCache, At
<1>2. task' \in [Tasks -> TaskType] /\ SameBut(t, "drain")
  BY <1>1, <1>t, GotoStep DEF Typed, ServeSteps
<1>3. h \in Handles
  BY <1>1, <1>t, HandleAt DEF ServeSteps
<1>u. UNCHANGED <<table, freed, next_fh, useOf, fhOf, made, uses, stored, lost, acked, durable>>
  BY <1>1 DEF files, inode, data
<1> HIDE DEF h
<1>h. h = task[t].handle
  BY DEF h
<1>4. Typed' /\ lock'[h] = t /\ Others(lock, lock', Handles, h)
  BY <1>1, <1>2, <1>3, <1>t, <1>u DEF Typed, Others
<1>5. Moves(t)
  BY <1>1, <1>2 DEF Moves
<1>6. IInvFiles'
  BY <1>1, <1>4, <1>5, <1>t, FilesKept DEF ServeSteps
<1>7. AlivePublished'
  BY <1>1, <1>5, <1>t, UsesKept
<1>8. LockHeld'
  <2>1. \A s \in Tasks : task[s].pc \in {"full", "drain", "sync"} =>
            task[s].handle # h /\ task[s].handle \in Handles
    BY <1>1, <1>t, Names, HandleAt DEF LockHeld, ServeSteps
  <2>2. \A g \in Handles : lock[g] \in {0} \cup Tasks /\ lock[g] # t
    <3>1. \A g \in Handles : lock[g] # 0 => task[lock[g]].pc # "lock"
      BY <1>t DEF LockHeld
    <3> QED BY <1>1, <1>t, <3>1, Names DEF Typed
  <2>3. \A g \in Handles : lock'[g] # 0 =>
            task'[lock'[g]].handle = g /\ task'[lock'[g]].pc \in {"full", "drain", "sync"}
    BY <1>2, <1>4, <1>h, <1>t, <2>2 DEF LockHeld, Others, SameBut
  <2>4. \A s \in Tasks : task'[s].pc \in {"full", "drain", "sync"} => lock'[task'[s].handle] = s
    BY <1>2, <1>4, <1>h, <1>t, <2>1 DEF LockHeld, Others, SameBut
  <2> QED BY <2>3, <2>4 DEF LockHeld
<1>9. StageShape'
  <2>1. \A r \in Tasks : fut'[r].step # None =>
            task'[r].pc = "sync" /\ fut'[r].handle = task'[r].handle
    BY <1>1, <1>2, <1>t DEF StageShape, SameBut
  <2>2. \A r \in Tasks : task'[r].pc = "sync" => stage'[task'[r].handle] = {}
    BY <1>1, <1>2, <1>t DEF StageShape, SameBut
  <2> QED BY <1>1, <1>t, <2>1, <2>2 DEF StageShape
<1>10. WritesOnce'
  BY <1>1, <1>2, <1>t DEF WritesOnce, SameBut
<1>11. InProgressBounded'
  <2>1. Cardinality(stage[h]) <= Limit - 1 /\ Limit \in Nat
    BY <1>1, <1>3, <1>t, OpenFilesAssumption DEF InProgressBounded
  <2>2. Cardinality(stage[h]) \in Nat
    BY <1>3, <1>t, WritesFinite DEF Typed
  <2>3. Cardinality(stage[h]) <= Limit
    BY <2>1, <2>2
  <2> QED BY <1>1, <1>4, <1>t, <2>3, Names DEF InProgressBounded, Others
<1>12. FlushedEmpty'
  BY <1>1, <1>2, <1>u, <1>t DEF FlushedEmpty, SameBut
<1>13. Tracked' /\ DurableKept'
  <2>1. \A s \in Tasks : task'[s].covers = task[s].covers /\ task'[s].handle = task[s].handle
    BY <1>2 DEF SameBut
  <2> QED BY <1>1, <1>u, <1>t, <2>1 DEF Tracked, DurableKept, HandedOn
<1> QED BY <1>6, <1>7, <1>8, <1>9, <1>10, <1>11, <1>12, <1>13 DEF IInv, IInvCache

\* The end of waiting for all writes in progress keeps the invariant.
LEMMA DrainInductive ==
    ASSUME IInv, NEW t \in Tasks, Drain(t)
    PROVE  IInv'
<1> DEFINE h == task[t].handle
<1>t. Typed /\ TaskShape /\ IInvFiles /\ AlivePublished /\ LockHeld /\ StageShape
        /\ InProgressBounded /\ FlushedEmpty
  BY DEF IInv, IInvFiles, IInvCache
<1>1. /\ task[t].pc = "drain" /\ h \in Handles /\ \A v \in stage[h] : Done(v)
      /\ Typed' /\ UNCHANGED <<files, inode, acc, data>>
      /\ Others(stage, stage', Handles, h) /\ stage'[h] = {}
      /\ \A v \in stage[h] : v \in Writes /\ fut'[v] = Taken(h)
      /\ \A r \in Closures : r \notin stage[h] /\ r # t => fut'[r] = fut[r]
      /\ \/ /\ Others(lock, lock', Handles, h) /\ lock'[h] = 0
            /\ Answered(t) /\ fut'[t] = fut[t]
         \/ /\ lock' = lock /\ SameBut(t, "sync") /\ fut'[t] = Spawned(h)
  BY <1>t, DrainStep
<1> HIDE DEF h
<1>h. h = task[t].handle
  BY DEF h
<1>u. UNCHANGED <<acc, stored, lost, acked, durable>>
  BY <1>1 DEF data
<1>2. TakesDone(h, stage[h])
  BY <1>1, Names DEF TakesDone, Closures
<1>3. fut[t].step = None /\ task[t].op # "write"
  BY <1>1, <1>t DEF StageShape, TaskShape
<1>4. \A s \in Tasks : s # t => fut'[s] = fut[s]
  BY <1>1, Names DEF Closures
<1>5. fut'[t].step \in {None, "push"} /\ (fut'[t].step # None => fut'[t].handle = h)
  BY <1>1, <1>3, FutValues
<1>6. Moves(t) /\ task'[t].op # "write"
  BY <1>1, <1>3 DEF Moves, Answered, IsIdle, SameBut, None
<1>7. IInvFiles'
  BY <1>1, <1>6, <1>t, FilesKept DEF ServeSteps
<1>8. AlivePublished'
  BY <1>1, <1>2, <1>6, <1>t, TakenKept, UsesKept
<1>9. LockHeld'
  <2>1. CASE Answered(t) /\ lock'[h] = 0 /\ Others(lock, lock', Handles, h)
    BY <1>1, <1>h, <2>1, LockGivenBack
  <2>2. CASE lock' = lock /\ SameBut(t, "sync")
    <3>1. \A s \in Tasks : /\ task'[s].handle = task[s].handle
                           /\ task'[s].pc \in {"full", "drain", "sync"} <=>
                                task[s].pc \in {"full", "drain", "sync"}
      BY <1>1, <2>2 DEF SameBut
    <3>2. \A g \in Handles : lock[g] \in {0} \cup Tasks
      BY <1>t DEF Typed
    <3> QED BY <1>t, <2>2, <3>1, <3>2 DEF LockHeld
  <2> QED BY <1>1, <2>1, <2>2
<1>10. StageShape'
  <2>1. \A r \in Tasks : fut'[r].step # None =>
            task'[r].pc = "sync" /\ fut'[r].handle = task'[r].handle
    <3>1. ASSUME NEW r \in Tasks, r # t, fut'[r].step # None
          PROVE  task'[r].pc = "sync" /\ fut'[r].handle = task'[r].handle
      BY <1>1, <1>4, <1>t, <3>1 DEF StageShape, Answered, SameBut, Others
    <3>2. ASSUME fut'[t].step # None
          PROVE  task'[t].pc = "sync" /\ fut'[t].handle = task'[t].handle
      <4>1. SameBut(t, "sync")
        BY <1>1, <1>3, <3>2
      <4> QED BY <1>5, <1>h, <3>2, <4>1 DEF SameBut
    <3> QED BY <3>1, <3>2
  <2>2. \A r \in Tasks : task'[r].pc = "sync" => stage'[task'[r].handle] = {}
    <3>1. \A r \in Tasks : task'[r].handle # 0 => task'[r].handle = task[r].handle
      BY <1>1 DEF Answered, IsIdle, SameBut, Others
    <3>2. ASSUME NEW r \in Tasks, task'[r].pc = "sync" PROVE stage'[task'[r].handle] = {}
      <4>1. CASE r = t
        BY <1>1, <1>h, <3>2, <4>1 DEF Answered, IsIdle, SameBut, None
      <4>2. CASE r # t
        <5>1. task'[r] = task[r]
          BY <1>1, <4>2 DEF Answered, SameBut, Others
        <5>2. task[r].handle \in Handles
          BY <1>t, <3>2, <5>1, HandleAt DEF ServeSteps
        <5> QED BY <1>1, <1>t, <3>2, <5>1, <5>2 DEF StageShape, Others
      <4> QED BY <4>1, <4>2
    <3> QED BY <3>2
  <2>3. /\ \A g \in Handles : \A v \in stage'[g] :
                fut'[v].handle = g /\ fut'[v].step \in {"push", "store", "ok", "err"}
        /\ \A v \in Writes : fut'[v].step \in {"push", "store"} =>
                fut'[v].handle # 0 /\ v \in stage'[fut'[v].handle]
    BY <1>1, <1>2, TakenKept
  <2> QED BY <2>1, <2>2, <2>3 DEF StageShape
<1>11. InProgressBounded'
  <2>1. Cardinality(stage'[h]) = 0 /\ Limit \in Nat \ {0}
    BY <1>1, FS_EmptySet, OpenFilesAssumption
  <2>2. Cardinality(stage'[h]) <= IF lock'[h] = 0 THEN Limit - 1 ELSE Limit
    BY <2>1
  <2>3. \A g \in Handles : g # h => lock'[g] = lock[g] /\ stage'[g] = stage[g]
    BY <1>1 DEF Others
  <2> QED BY <1>t, <2>2, <2>3 DEF InProgressBounded
<1>12. /\ WritesOnce' /\ Tracked' /\ DurableKept'
       /\ \A g \in Handles : useOf'[g] # 0 /\ g \notin Range(table') =>
            acc'[g] = <<>> /\ stage'[g] = {}
  <2>1. \A s \in Tasks : fut[s].step = "store" => fut'[s] = fut[s]
    BY <1>3, <1>4 DEF None
  <2> QED BY <1>1, <1>2, <1>6, <1>u, <2>1, DataKept
<1>13. FlushedEmpty'
  <2>1. \A r \in Tasks : task'[r].pc \in {"remove", "last"} => task'[r] = task[r] /\ r # t
    BY <1>1 DEF Answered, IsIdle, SameBut, Others, None
  <2>2. \A r \in Tasks : task[r].pc \in {"remove", "last"} => task[r].handle \in Handles
    BY <1>t, HandleAt DEF ServeSteps
  <2>3. acc' = acc /\ \A g \in Handles : stage'[g] \subseteq stage[g]
    BY <1>1, <1>2, TakenKept
  <2>4. \A r \in Tasks : task'[r].pc = "sync" /\ fut'[r].step \in {"store", "ok"} =>
            r # t /\ task'[r] = task[r] /\ fut'[r] = fut[r]
    BY <1>1, <1>4, <1>5 DEF Answered, SameBut, Others, None
  <2> QED BY <1>12, <1>t, <2>1, <2>2, <2>3, <2>4 DEF FlushedEmpty
<1> QED BY <1>7, <1>8, <1>9, <1>10, <1>11, <1>12, <1>13 DEF IInv, IInvCache

\* The end of a release keeps the invariant.
LEMMA LastInductive ==
    ASSUME IInv, NEW t \in Tasks, LastDrain(t)
    PROVE  IInv'
<1> DEFINE h == task[t].handle
<1>t. Typed /\ TaskShape /\ IInvFiles /\ AlivePublished /\ LockHeld /\ StageShape
        /\ InProgressBounded /\ FlushedEmpty
  BY DEF IInv, IInvFiles, IInvCache
<1>1. /\ task[t].pc = "last" /\ h \in Handles /\ lock[h] = 0 /\ \A v \in stage[h] : Done(v)
      /\ Typed' /\ UNCHANGED <<files, inode, lock, acc, data>>
      /\ Others(stage, stage', Handles, h) /\ stage'[h] = {}
      /\ \A v \in stage[h] : v \in Writes /\ fut'[v] = Taken(h)
      /\ \A r \in Closures : r \notin stage[h] => fut'[r] = fut[r]
      /\ Answered(t)
  BY <1>t, LastStep
<1> HIDE DEF h
<1>u. UNCHANGED <<acc, stored, lost, acked, durable>>
  BY <1>1 DEF data
<1>2. TakesDone(h, stage[h])
  BY <1>1 DEF TakesDone, Closures
<1>3. \A s \in Tasks : fut'[s] = fut[s]
  BY <1>1, Names DEF Closures
<1>6. Moves(t) /\ task'[t].op # "write"
  BY <1>1 DEF Moves, Answered, IsIdle, None
<1>7. IInvFiles'
  BY <1>1, <1>6, <1>t, FilesKept DEF ServeSteps
<1>8. AlivePublished'
  BY <1>1, <1>2, <1>6, <1>t, TakenKept, UsesKept
<1>s. /\ \A r \in Tasks : task'[r].pc \in {"full", "drain", "sync", "remove", "last"} =>
            task'[r] = task[r] /\ r # t
      /\ \A r \in Tasks : r # t => task'[r] = task[r]
  BY <1>1 DEF Answered, IsIdle, Others, None
<1>9. LockHeld'
  <2>1. \A g \in Handles : lock[g] \in {0} \cup Tasks /\ lock[g] # t
    <3>1. \A g \in Handles : lock[g] # 0 => task[lock[g]].pc # "last"
      BY <1>t DEF LockHeld
    <3> QED BY <1>1, <1>t, <3>1, Names DEF Typed
  <2> QED BY <1>1, <1>s, <1>t, <2>1 DEF LockHeld
<1>10. StageShape'
  <2>1. \A r \in Tasks : fut'[r].step # None =>
            task'[r].pc = "sync" /\ fut'[r].handle = task'[r].handle
    BY <1>1, <1>3, <1>s, <1>t DEF StageShape
  <2>2. \A r \in Tasks : task'[r].pc = "sync" => stage'[task'[r].handle] = {}
    <3>1. \A r \in Tasks : task[r].pc = "sync" => task[r].handle \in Handles
      BY <1>t, HandleAt DEF ServeSteps
    <3>2. \A g \in Handles : stage'[g] \subseteq stage[g]
      BY <1>1, <1>2, TakenKept
    <3> QED BY <1>s, <1>t, <3>1, <3>2 DEF StageShape
  <2>3. /\ \A g \in Handles : \A v \in stage'[g] :
                fut'[v].handle = g /\ fut'[v].step \in {"push", "store", "ok", "err"}
        /\ \A v \in Writes : fut'[v].step \in {"push", "store"} =>
                fut'[v].handle # 0 /\ v \in stage'[fut'[v].handle]
    BY <1>1, <1>2, TakenKept
  <2> QED BY <2>1, <2>2, <2>3 DEF StageShape
<1>11. InProgressBounded'
  <2>1. Cardinality(stage'[h]) = 0 /\ Limit \in Nat \ {0}
    BY <1>1, FS_EmptySet, OpenFilesAssumption
  <2>2. Cardinality(stage'[h]) <= IF lock'[h] = 0 THEN Limit - 1 ELSE Limit
    BY <2>1
  <2>3. \A g \in Handles : g # h => lock'[g] = lock[g] /\ stage'[g] = stage[g]
    BY <1>1 DEF Others
  <2> QED BY <1>t, <2>2, <2>3 DEF InProgressBounded
<1>12. /\ WritesOnce' /\ Tracked' /\ DurableKept'
       /\ \A g \in Handles : useOf'[g] # 0 /\ g \notin Range(table') =>
            acc'[g] = <<>> /\ stage'[g] = {}
  BY <1>1, <1>2, <1>3, <1>6, <1>u, DataKept
<1>13. FlushedEmpty'
  <2>2. \A r \in Tasks : task[r].pc \in {"remove", "last"} => task[r].handle \in Handles
    BY <1>t, HandleAt DEF ServeSteps
  <2>3. acc' = acc /\ \A g \in Handles : stage'[g] \subseteq stage[g]
    BY <1>1, <1>2, TakenKept
  <2> QED BY <1>3, <1>12, <1>s, <1>t, <2>2, <2>3 DEF FlushedEmpty
<1> QED BY <1>7, <1>8, <1>9, <1>10, <1>11, <1>12, <1>13 DEF IInv, IInvCache

\* The end of a flush keeps the invariant: what it covers is stored or lost.
LEMMA SyncInductive ==
    ASSUME IInv, NEW t \in Tasks, SyncDone(t)
    PROVE  IInv'
<1> DEFINE h == task[t].handle
<1>t. Typed /\ TaskShape /\ IInvFiles /\ AlivePublished /\ LockHeld /\ StageShape /\ WritesOnce
        /\ InProgressBounded /\ FlushedEmpty /\ Tracked /\ DurableKept
  BY DEF IInv, IInvFiles, IInvCache
<1>1. /\ task[t].pc = "sync" /\ h \in Handles /\ Done(t)
      /\ Typed' /\ UNCHANGED <<files, inode, stage, acc, stored, lost, acked>>
      /\ Others(lock, lock', Handles, h) /\ lock'[h] = 0
      /\ Others(fut, fut', Closures, t) /\ fut'[t] = NoFut
      /\ durable' = IF fut[t].step = "ok" THEN durable \cup task[t].covers ELSE durable
      /\ \/ Answered(t)
         \/ SameBut(t, "remove") /\ task[t].op = "release" /\ fut[t].step = "ok"
  BY <1>t, SyncStep
<1> HIDE DEF h
<1>h. h = task[t].handle /\ stage[h] = {}
  BY <1>1, <1>t DEF h, StageShape
<1>2. fut[t].step \in {"ok", "err"} /\ fut'[t].step = None
  BY <1>1 DEF Done, NoFut
<1>3. /\ \A v \in Writes : fut'[v] = fut[v]
      /\ \A s \in Tasks : s # t => fut'[s] = fut[s] /\ task'[s] = task[s]
  BY <1>1, Names DEF Others, Closures, Answered, SameBut
<1>4. Moves(t)
  BY <1>1 DEF Moves
<1>5. IInvFiles'
  BY <1>1, <1>4, <1>t, FilesKept DEF ServeSteps
<1>6. AlivePublished'
  BY <1>1, <1>3, <1>4, <1>t, UsesKept
<1>7. LockHeld'
  BY <1>1, <1>h, LockGivenBack
<1>8. task'[t].pc # "sync" /\ task'[t].op # "write"
  BY <1>1, <1>t DEF Answered, IsIdle, SameBut, None, TaskShape
<1>9. StageShape'
  <2>1. \A g \in Handles : stage[g] \subseteq Writes
    BY <1>t DEF Typed
  <2>2. /\ \A g \in Handles : \A v \in stage'[g] :
                fut'[v].handle = g /\ fut'[v].step \in {"push", "store", "ok", "err"}
        /\ \A v \in Writes : fut'[v].step \in {"push", "store"} =>
                fut'[v].handle # 0 /\ v \in stage'[fut'[v].handle]
    BY <1>1, <1>3, <1>t, <2>1 DEF StageShape
  <2>3. \A r \in Tasks : fut'[r].step # None =>
            task'[r].pc = "sync" /\ fut'[r].handle = task'[r].handle
    BY <1>2, <1>3, <1>t DEF StageShape
  <2>4. \A r \in Tasks : task'[r].pc = "sync" => stage'[task'[r].handle] = {}
    BY <1>1, <1>3, <1>8, <1>t DEF StageShape
  <2> QED BY <2>2, <2>3, <2>4 DEF StageShape
<1>10. WritesOnce'
  <2>1. \A s \in Tasks : task[s].op = "write" => task[s].write \in Writes
    BY <1>t, Names DEF TaskShape, Typed, TaskType
  <2>2. task'[t].write = 0
    BY <1>1, <1>t DEF Answered, IsIdle, SameBut, TaskShape
  <2> QED BY <1>3, <1>8, <1>t, <2>1, <2>2 DEF WritesOnce
<1>11. InProgressBounded'
  <2>1. Cardinality(stage[h]) = 0 /\ Limit \in Nat \ {0}
    BY <1>h, FS_EmptySet, OpenFilesAssumption
  <2> QED BY <1>1, <1>t, <2>1 DEF InProgressBounded, Others
<1>12. FlushedEmpty'
  <2>1. task'[t].pc \in {"remove", "last"} => task'[t].handle = h /\ acc[h] = <<>> /\ stage[h] = {}
    BY <1>1, <1>h, <1>t DEF Answered, IsIdle, SameBut, None, FlushedEmpty
  <2>2. UNCHANGED <<acc, stage, useOf, table>>
    BY <1>1 DEF files
  <2> QED BY <1>3, <1>8, <1>t, <2>1, <2>2 DEF FlushedEmpty
<1>13. Tracked'
  <2>1. ASSUME NEW v \in Writes, HandedOn(v) PROVE HandedOn(v)'
    <3>1. \A r \in Closures : fut[r].step = "store" => r # t /\ fut'[r] = fut[r]
      BY <1>2, <1>3 DEF Closures
    <3> QED BY <1>1, <1>3, <2>1, <3>1 DEF HandedOn
  <2>2. \A s \in Tasks : \A v \in task'[s].covers :
            v \in task[s].covers /\ task'[s].handle = task[s].handle
    BY <1>1, <1>3 DEF Answered, IsIdle, SameBut
  <2>3. acked \subseteq Writes /\ \A s \in Tasks : task[s].covers \subseteq Writes
    BY <1>t DEF Typed, TaskType
  <2> QED BY <1>1, <1>3, <1>t, <2>1, <2>2, <2>3 DEF Tracked
<1>14. DurableKept'
  <2>1. ASSUME fut[t].step = "ok", NEW v \in task[t].covers PROVE v \in stored \cup lost
    <3>1. v \in Writes /\ fut[v].step # None /\ fut[v].handle = h
      BY <1>h, <1>t DEF Tracked, Typed, TaskType
    <3>2. fut[v].step \notin {"push", "store"}
      BY <1>h, <1>t, <3>1 DEF StageShape
    <3>3. acc[h] = <<>>
      BY <1>1, <1>h, <1>t, <2>1 DEF FlushedEmpty
    <3>4. ASSUME NEW r \in Closures, fut[r].step = "store", fut[r].handle = h PROVE FALSE
      <4>1. CASE r \in Writes
        BY <1>h, <1>t, <3>4, <4>1 DEF StageShape
      <4>2. CASE r \in Tasks
        <5>1. task[r].pc = "sync" /\ task[r].handle = h
          BY <1>t, <3>4, <4>2 DEF StageShape, None
        <5>2. r = t
          BY <1>1, <1>h, <4>2, <5>1, HolderAlone
        <5> QED BY <2>1, <3>4, <5>2
      <4> QED BY <4>1, <4>2 DEF Closures
    <3>5. HandedOn(v)
      BY <1>t, <3>1, <3>2 DEF Tracked
    <3>6. v \notin Range(<<>>)
      BY DEF Range
    <3> QED BY <3>1, <3>3, <3>4, <3>5, <3>6 DEF HandedOn
  <2> QED BY <1>1, <1>t, <2>1 DEF DurableKept
<1> QED BY <1>5, <1>6, <1>7, <1>9, <1>10, <1>11, <1>12, <1>13, <1>14 DEF IInv, IInvCache

\* Taking a handle out of the table keeps the invariant.
LEMMA RemoveInductive ==
    ASSUME IInv, NEW t \in Tasks, release_file_handler(t)
    PROVE  IInv'
<1> DEFINE h == task[t].handle
           gone == {fh \in DOMAIN table : table[fh] = h}
<1>t. Typed /\ TaskShape /\ FhTable /\ HandleOfOpen /\ AlivePublished /\ LockHeld /\ StageShape
        /\ WritesOnce /\ InProgressBounded /\ FlushedEmpty /\ Tracked /\ DurableKept
  BY DEF IInv, IInvFiles, IInvCache
<1>1. /\ task[t].pc = "remove" /\ Goto(t, "last")
      /\ table' = Restrict(table, DOMAIN table \ gone) /\ freed' = freed \cup gone
      /\ UNCHANGED <<next_fh, useOf, fhOf, inode, cache, data>>
  BY DEF release_file_handler, At
<1>u. UNCHANGED <<uses, made, lock, stage, acc, fut, stored, lost, acked, durable>>
  BY <1>1 DEF inode, cache, data
<1>2. task' \in [Tasks -> TaskType] /\ SameBut(t, "last")
  BY <1>1, <1>t, GotoStep DEF Typed, ServeSteps
<1>3. h \in Handles /\ task[t].op = "release" /\ h # 0
  BY <1>1, <1>t, HandleAt, Names DEF ServeSteps, TaskShape
<1>4. /\ DOMAIN table' = DOMAIN table \ gone
      /\ \A x \in DOMAIN table' : table'[x] = table[x] /\ table[x] # h
      /\ table' \in [DOMAIN table' -> Handles]
  BY <1>1, <1>t DEF Restrict, Typed
<1>5. h \notin DOMAIN fhOf /\ \A s \in Tasks : task[s].handle = h => s = t
  BY <1>3, <1>t DEF FhTable
<1>6. Range(table') = Range(table) \ {h}
  BY <1>4 DEF Range
<1> HIDE DEF h
<1>h. h = task[t].handle
  BY DEF h
<1>s. \A s \in Tasks : /\ task'[s].handle = task[s].handle /\ task'[s].op = task[s].op
                       /\ task'[s].use = task[s].use /\ task'[s].write = task[s].write
                       /\ task'[s].covers = task[s].covers
                       /\ s # t => task'[s].pc = task[s].pc
  BY <1>2 DEF SameBut
<1>p. task'[t].pc = "last"
  BY <1>2 DEF SameBut
<1>7. Typed'
  BY <1>1, <1>2, <1>4, <1>u, <1>t DEF Typed
<1>8. TaskShape'
  BY <1>1, <1>3, <1>h, <1>p, <1>s, <1>t DEF TaskShape, ServeSteps
<1>9. HandleOfOpen'
  BY <1>1, <1>4, <1>5, <1>t DEF HandleOfOpen
<1>10. FhTable'
  <2>1. DOMAIN table' \cup freed' \subseteq 0..(next_fh' - 1) /\ DOMAIN table' \cap freed' = {}
    BY <1>1, <1>4, <1>t DEF FhTable
  <2>2. \A x \in DOMAIN table' : useOf'[table'[x]] # 0
    BY <1>1, <1>4, <1>t DEF FhTable
  <2>3. ASSUME NEW s \in Tasks, task'[s].handle # 0
        PROVE  /\ useOf'[task'[s].handle] # 0
               /\ task'[s].pc = "last" \/ task'[s].handle \in Range(table')
               /\ task'[s].op = "release" =>
                    /\ task'[s].handle \notin DOMAIN fhOf'
                    /\ \A r \in Tasks : task'[r].handle = task'[s].handle => r = s
    BY <1>1, <1>5, <1>6, <1>p, <1>s, <1>t, <2>3 DEF FhTable
  <2> QED BY <2>1, <2>2, <2>3 DEF FhTable
<1>11. AlivePublished'
  <2>1. ASSUME NEW g \in Handles, HandleAlive(g)' PROVE HandleAlive(g)
    BY <1>6, <1>s, <1>u, <2>1 DEF HandleAlive
  <2> QED BY <1>1, <1>s, <1>u, <1>t, <2>1 DEF AlivePublished
<1>12. LockHeld'
  <2>1. \A g \in Handles : lock[g] \in {0} \cup Tasks /\ lock[g] # t
    <3>1. \A g \in Handles : lock[g] # 0 => task[lock[g]].pc # "remove"
      BY <1>t DEF LockHeld
    <3> QED BY <1>1, <1>t, <3>1, Names DEF Typed
  <2> QED BY <1>p, <1>s, <1>u, <1>t, <2>1 DEF LockHeld
<1>13. StageShape'
  <2>1. fut[t].step = None
    BY <1>1, <1>t DEF StageShape
  <2> QED BY <1>p, <1>s, <1>u, <1>t, <2>1 DEF StageShape
<1>14. WritesOnce' /\ InProgressBounded'
  BY <1>3, <1>s, <1>u, <1>t DEF WritesOnce, InProgressBounded
<1>15. FlushedEmpty'
  <2>1. acc[h] = <<>> /\ stage[h] = {}
    BY <1>1, <1>h, <1>t DEF FlushedEmpty
  <2> QED BY <1>1, <1>6, <1>h, <1>p, <1>s, <1>u, <1>t, <2>1 DEF FlushedEmpty
<1>16. Tracked' /\ DurableKept'
  BY <1>s, <1>u, <1>t DEF Tracked, DurableKept, HandedOn
<1> QED
  BY <1>7, <1>8, <1>9, <1>10, <1>11, <1>12, <1>13, <1>14, <1>15, <1>16
     DEF IInv, IInvFiles, IInvCache

-----------------------------------------------------------------------------
(***************************************************************************)
(* The closures.                                                           *)
(***************************************************************************)

\* What is true whatever a closure does that keeps its handle and is not done
\* before: the requests, the table and the lock.
LEMMA ClosureRuns ==
    ASSUME IInv, Typed', NEW r \in Closures, fut[r].step \in {"push", "store"},
           UNCHANGED <<task, files, inode, lock, stage, acked, durable>>,
           Others(fut, fut', Closures, r), fut'[r].handle = fut[r].handle,
           fut'[r].step \in {"push", "store", "ok", "err"}
    PROVE  IInvFiles' /\ AlivePublished' /\ IInvCache'
<1>t. Typed /\ TaskShape /\ IInvFiles /\ AlivePublished /\ LockHeld /\ StageShape /\ WritesOnce
        /\ InProgressBounded
  BY DEF IInv, IInvFiles, IInvCache
<1>u. UNCHANGED <<table, freed, next_fh, useOf, fhOf, uses>>
  BY DEF files, inode
<1>1. IInvFiles'
  BY <1>t, <1>u DEF IInvFiles, TaskShape, FhTable, HandleOfOpen
<1>2. \A q \in Closures : /\ fut'[q].handle = fut[q].handle
                          /\ fut'[q].step \in {"push", "store"} => fut[q].step \in {"push", "store"}
                          /\ fut'[q].step = None <=> fut[q].step = None
                          /\ fut[q] = NoFut => fut'[q] = fut[q]
                          /\ fut[q].step \in {"push", "store", "ok", "err"} =>
                                fut'[q].step \in {"push", "store", "ok", "err"}
  BY DEF Others, None, NoFut
<1>3. AlivePublished'
  <2>1. ASSUME NEW g \in Handles, HandleAlive(g)' PROVE HandleAlive(g)
    BY <1>2, <1>u, <2>1 DEF HandleAlive, Closures
  <2> QED BY <1>t, <1>u, <2>1 DEF AlivePublished
<1>4. LockHeld'
  BY <1>t DEF LockHeld
<1>5. StageShape'
  <2>1. \A g \in Handles : stage[g] \subseteq Writes
    BY <1>t DEF Typed
  <2>2. \A g \in Handles : \A v \in stage'[g] :
                fut'[v].handle = g /\ fut'[v].step \in {"push", "store", "ok", "err"}
    BY <1>2, <1>t, <2>1 DEF StageShape, Closures
  <2>3. \A v \in Writes : fut'[v].step \in {"push", "store"} =>
                fut'[v].handle # 0 /\ v \in stage'[fut'[v].handle]
    BY <1>2, <1>t DEF StageShape, Closures
  <2>4. \A s \in Tasks : fut'[s].step # None =>
            task'[s].pc = "sync" /\ fut'[s].handle = task'[s].handle
    BY <1>2, <1>t DEF StageShape, Closures
  <2>5. \A s \in Tasks : task'[s].pc = "sync" => stage'[task'[s].handle] = {}
    BY <1>t DEF StageShape
  <2> QED BY <2>2, <2>3, <2>4, <2>5 DEF StageShape
<1>6. WritesOnce'
  <2>1. \A s \in Tasks : task[s].op = "write" => task[s].write \in Closures
    BY <1>t, Names DEF TaskShape, Typed, TaskType, Closures
  <2> QED BY <1>2, <1>t, <2>1 DEF WritesOnce
<1>7. InProgressBounded'
  BY <1>t DEF InProgressBounded
<1> QED BY <1>1, <1>3, <1>4, <1>5, <1>6, <1>7 DEF IInvCache

\* A closure that accumulates or takes a batch keeps the invariant.
LEMMA AccumulateInductive ==
    ASSUME IInv, NEW r \in Closures, Accumulate(r)
    PROVE  IInv'
<1> DEFINE h == fut[r].handle
<1>t. Typed /\ TaskShape /\ FhTable /\ StageShape /\ LockHeld /\ FlushedEmpty /\ Tracked
        /\ DurableKept
  BY DEF IInv, IInvFiles, IInvCache
<1>1. /\ fut[r].step = "push" /\ h \in Handles
      /\ fut' \in [Closures -> FutType] /\ acc' \in [Handles -> Seq(Writes)]
      /\ \A q \in Closures : q # r => fut'[q] = fut[q]
      /\ fut'[r].handle = h /\ fut'[r].step \in {"store", "ok"}
      /\ \A g \in Handles : g # h => acc'[g] = acc[g]
      /\ acc'[h] \in {<<>>, Joined(r)}
      /\ acc'[h] # <<>> => r \in Writes
      /\ \A v \in Range(Joined(r)) :
           \/ v \in Range(acc'[h])
           \/ fut'[r].step = "store" /\ v \in Range(fut'[r].batch)
      /\ \A v \in Range(acc[h]) : v \in Range(Joined(r))
      /\ r \in Writes => r \in Range(Joined(r))
  BY <1>t, AccumulateStep
<1>u. UNCHANGED <<task, files, inode, lock, stage, data>>
  BY DEF Accumulate
<1> HIDE DEF h
<1>v. /\ UNCHANGED <<task, table, freed, next_fh, useOf, fhOf, uses, made>>
      /\ UNCHANGED <<lock, stage, stored, lost, acked, durable>>
  BY <1>u DEF files, inode, data
<1>2. Typed'
  BY <1>1, <1>v, <1>t DEF Typed
<1>3. IInvFiles' /\ AlivePublished' /\ IInvCache'
  BY <1>1, <1>2, <1>u, <1>v, ClosureRuns DEF Others, h
<1>h. h = fut[r].handle /\ h # 0
  BY <1>1, Names DEF h
<1>4. r \in Writes => r \in stage[h]
  BY <1>1, <1>h, <1>t DEF StageShape
<1>5. FlushedEmpty'
  <2>2. ASSUME NEW s \in Tasks, task[s].pc = "sync", fut'[s].step \in {"store", "ok"}
        PROVE  acc'[task[s].handle] = <<>>
    <3>1. task[s].handle \in Handles /\ stage[task[s].handle] = {}
      BY <1>t, <2>2, HandleAt DEF ServeSteps, StageShape
    <3>2. CASE task[s].handle = h
      BY <1>1, <1>4, <3>1, <3>2
    <3>3. CASE task[s].handle # h
      <4>1. s # r
        BY <1>1, <1>h, <1>t, <3>3 DEF StageShape, None
      <4>2. fut'[s] = fut[s] /\ acc'[task[s].handle] = acc[task[s].handle]
        BY <1>1, <3>1, <3>3, <4>1 DEF Closures
      <4> QED BY <1>t, <2>2, <4>2 DEF FlushedEmpty
    <3> QED BY <3>2, <3>3
  <2>3. ASSUME NEW g \in Handles, acc[g] = <<>>, stage[g] = {} PROVE acc'[g] = <<>>
    BY <1>1, <1>4, <2>3
  <2>4. \A s \in Tasks : task[s].pc \in {"remove", "last"} => task[s].handle \in Handles
    BY <1>t, HandleAt DEF ServeSteps
  <2> QED BY <1>v, <1>t, <2>2, <2>3, <2>4 DEF FlushedEmpty
<1>6. ASSUME NEW v \in Writes, fut'[v].step \notin {None, "push"}
      PROVE  fut'[v].handle # 0 /\ HandedOn(v)'
  <2>1. fut'[v].handle = fut[v].handle /\ v \in Closures
    BY <1>1, <1>h DEF Closures
  <2>2. CASE v \in Range(Joined(r)) /\ fut[v].handle = h
    BY <1>1, <1>h, <2>1, <2>2 DEF HandedOn
  <2>3. CASE ~(v \in Range(Joined(r)) /\ fut[v].handle = h)
    <3>1. v # r
      BY <1>1, <1>h, <2>3
    <3>2. fut'[v] = fut[v] /\ HandedOn(v) /\ fut[v].handle # 0
      BY <1>1, <1>6, <1>t, <2>1, <3>1 DEF Tracked
    <3>3. CASE v \in stored \cup lost
      BY <1>v, <3>2, <3>3 DEF HandedOn
    <3>4. CASE v \in Range(acc[fut[v].handle])
      <4>1. fut[v].handle # h
        BY <1>1, <2>3, <3>4
      <4>2. fut[v].handle \in Handles
        BY <1>t, <2>1, <3>2, Names DEF Typed, FutType
      <4> QED BY <1>1, <3>2, <3>4, <4>1, <4>2 DEF HandedOn
    <3>5. ASSUME NEW q \in Closures, fut[q].step = "store", fut[q].handle = fut[v].handle,
                 v \in Range(fut[q].batch)
          PROVE  HandedOn(v)'
      <4>1. fut'[q] = fut[q]
        BY <1>1, <3>5
      <4> QED BY <3>2, <3>5, <4>1 DEF HandedOn
    <3> QED BY <3>2, <3>3, <3>4, <3>5 DEF HandedOn
  <2> QED BY <2>2, <2>3
<1>7. Tracked' /\ DurableKept'
  <2>1. \A q \in Closures : fut'[q].handle = fut[q].handle /\ (fut[q].step # None => fut'[q].step # None)
    BY <1>1, <1>h DEF None
  <2>2. acked \subseteq Closures /\ \A s \in Tasks : task[s].covers \subseteq Closures
    BY <1>t DEF Typed, TaskType, Closures
  <2> QED BY <1>6, <1>v, <1>t, <2>1, <2>2 DEF Tracked, DurableKept
<1> QED BY <1>3, <1>5, <1>7 DEF IInv

\* The end of hb_write_data keeps the invariant.
LEMMA StoreInductive ==
    ASSUME IInv, NEW r \in Closures, StoreBatch(r) \/ StoreFails(r)
    PROVE  IInv'
<1>t. Typed /\ TaskShape /\ StageShape /\ FlushedEmpty /\ Tracked /\ DurableKept
  BY DEF IInv, IInvFiles, IInvCache
<1>1. /\ fut[r].step = "store"
      /\ fut' \in [Closures -> FutType]
      /\ \A q \in Closures : q # r => fut'[q] = fut[q]
      /\ fut'[r].handle = fut[r].handle /\ fut'[r].step \in {"push", "ok", "err"}
      /\ stored \subseteq stored' /\ lost \subseteq lost'
      /\ Range(fut[r].batch) \subseteq stored' \cup lost'
  BY <1>t, StoreStep
<1>u. UNCHANGED <<task, files, inode, lock, stage, acc, acked, durable>>
  BY DEF StoreBatch, StoreFails
<1>v. UNCHANGED <<table, freed, next_fh, useOf, fhOf, uses, made>>
  BY <1>u DEF files, inode
<1>2. Typed'
  BY <1>1, <1>u, <1>v, <1>t DEF Typed
<1>3. IInvFiles' /\ AlivePublished' /\ IInvCache'
  BY <1>1, <1>2, <1>u, ClosureRuns DEF Others
<1>4. \A q \in Closures : /\ fut'[q].handle = fut[q].handle
                          /\ fut'[q].step \notin {None, "push"} => fut[q].step \notin {None, "push"}
                          /\ fut[q].step # None => fut'[q].step # None
                          /\ fut'[q].step \in {"store", "ok"} => fut[q].step \in {"store", "ok"}
  BY <1>1 DEF None
<1>5. FlushedEmpty'
  BY <1>4, <1>u, <1>v, <1>t DEF FlushedEmpty, Closures
<1>6. ASSUME NEW v \in Writes, HandedOn(v) PROVE HandedOn(v)'
  <2>1. v \in Closures
    BY DEF Closures
  <2>2. CASE v \in stored \cup lost
    BY <1>1, <2>2 DEF HandedOn
  <2>3. CASE v \in Range(acc[fut[v].handle])
    BY <1>4, <1>u, <2>1, <2>3 DEF HandedOn
  <2>4. ASSUME NEW q \in Closures, fut[q].step = "store", fut[q].handle = fut[v].handle,
               v \in Range(fut[q].batch)
        PROVE  HandedOn(v)'
    <3>1. CASE q = r
      BY <1>1, <2>4, <3>1 DEF HandedOn
    <3>2. CASE q # r
      BY <1>1, <1>4, <2>1, <2>4, <3>2 DEF HandedOn
    <3> QED BY <3>1, <3>2
  <2> QED BY <1>6, <2>2, <2>3, <2>4 DEF HandedOn
<1>7. Tracked' /\ DurableKept'
  <2>1. acked \subseteq Closures /\ \A s \in Tasks : task[s].covers \subseteq Closures
    BY <1>t DEF Typed, TaskType, Closures
  <2>2. Writes \subseteq Closures
    BY DEF Closures
  <2> QED BY <1>1, <1>4, <1>6, <1>u, <1>t, <2>1, <2>2 DEF Tracked, DurableKept
<1> QED BY <1>3, <1>5, <1>7 DEF IInv

-----------------------------------------------------------------------------

\* The inductive invariant holds initially and is kept by every step.
LEMMA Invariance == Spec => []IInv
<1>1. Init => IInv
  <2> SUFFICES ASSUME Init PROVE IInv
    OBVIOUS
  <2>1. \A t \in Tasks : /\ task[t] = Idle /\ task[t].handle = 0 /\ task[t].use = 0
                         /\ task[t].write = 0 /\ task[t].covers = {}
                         /\ task[t].op = None /\ task[t].pc = None
    BY DEF Init, Idle
  <2>2. Idle \in TaskType /\ NoFut \in FutType
    BY OpenFilesAssumption DEF Idle, TaskType, NoFut, FutType, FutSteps
  <2>3. DOMAIN table = {} /\ DOMAIN fhOf = {} /\ Range(table) = {}
    BY DEF Init, Range
  <2>4. \A r \in Closures : fut[r] = NoFut /\ fut[r].step = None
    BY DEF Init, Closures, NoFut
  <2>5. Typed
    <3>1. table \in [DOMAIN table -> Handles] /\ fhOf \in [DOMAIN fhOf -> Nat]
      BY DEF Init
    <3>2. <<>> \in Seq(Writes)
      OBVIOUS
    <3> QED BY <2>2, <2>3, <3>1, <3>2 DEF Init, Typed, Closures
  <2>6. TaskShape /\ FhTable /\ HandleOfOpen
    BY <2>1, <2>3 DEF Init, TaskShape, FhTable, HandleOfOpen, ServeSteps, None
  <2>7. AlivePublished
    BY <2>1 DEF Init, AlivePublished
  <2>8. LockHeld /\ WritesOnce
    BY <2>1 DEF Init, LockHeld, WritesOnce, None
  <2>9. StageShape
    BY <2>1, <2>4 DEF Init, StageShape, Closures, None
  <2>10. InProgressBounded
    <3>1. Cardinality({}) = 0
      BY FS_EmptySet
    <3> QED BY <3>1, OpenFilesAssumption DEF Init, InProgressBounded
  <2>11. FlushedEmpty
    BY <2>1 DEF Init, FlushedEmpty, None
  <2>12. Tracked /\ DurableKept
    BY <2>1, <2>4 DEF Init, Tracked, DurableKept, Closures
  <2> QED BY <2>5, <2>6, <2>7, <2>8, <2>9, <2>10, <2>11, <2>12 DEF IInv, IInvFiles, IInvCache
<1>2. IInv /\ [Next]_vars => IInv'
  <2> SUFFICES ASSUME IInv, [Next]_vars PROVE IInv'
    OBVIOUS
  <2>1. ASSUME NEW t \in Tasks, Step(t) PROVE IInv'
    BY <2>1, OpenInductive, InstallInductive, PushInductive, AwaitInductive, LockInductive,
       DrainInductive, SyncInductive, RemoveInductive, LastInductive DEF Step
  <2>2. CASE UNCHANGED vars
    <3>1. /\ UNCHANGED <<task, table, freed, next_fh, useOf, fhOf, made, uses>>
          /\ UNCHANGED <<lock, stage, acc, fut, stored, lost, acked, durable>>
      BY <2>2 DEF vars, files, inode, cache, data
    <3>2. IInvFiles' /\ AlivePublished'
      BY <3>1 DEF IInv, IInvFiles, Typed, TaskShape, FhTable, HandleOfOpen, AlivePublished,
         HandleAlive
    <3>3. IInvCache'
      BY <3>1 DEF IInv, IInvCache, LockHeld, StageShape, WritesOnce, InProgressBounded
    <3>4. FlushedEmpty' /\ Tracked' /\ DurableKept'
      BY <3>1 DEF IInv, FlushedEmpty, Tracked, DurableKept, HandedOn
    <3> QED BY <3>2, <3>3, <3>4 DEF IInv
  <2>3. ASSUME NEW r \in Writes \cup Tasks, Run(r) \/ StoreFails(r) PROVE IInv'
    BY <2>3, AccumulateInductive, StoreInductive DEF Run, Closures
  <2>4. CASE Next
    BY <2>1, <2>3, <2>4, OpenInductive, RequestsInductive, CloseInductive DEF Next
  <2> QED BY <2>2, <2>4
<1> QED BY <1>1, <1>2, PTL DEF Spec

\* The number that the kernel has for an open file names the handle of that
\* open, through all releases and reuses of numbers (get_free_fh,
\* release_file_handler).
THEOREM HandlesRight == Spec => []HandleOfOpen
<1>1. IInv => HandleOfOpen
  BY DEF IInv, IInvFiles
<1> QED BY <1>1, Invariance, PTL

\* The use that a handle of the table was opened with is published: get_ino_use
\* never revives one that the last drop has closed.
THEOREM UsesPublished == Spec => []UsePublished
<1>1. IInv => UsePublished
  <2> SUFFICES ASSUME IInv, NEW fh \in DOMAIN table PROVE useOf[table[fh]] \in uses
    BY DEF UsePublished
  <2>1. table[fh] \in Handles /\ useOf[table[fh]] # 0
    BY DEF IInv, IInvFiles, Typed, FhTable
  <2>2. HandleAlive(table[fh])
    BY DEF HandleAlive, Range
  <2> QED BY <2>1, <2>2 DEF IInv, AlivePublished
<1> QED BY <1>1, Invariance, PTL

\* What was answered before a flush or release began is stored, or was in a
\* batch that failed, when the flush is answered without an error.
THEOREM DurableIsKept == Spec => []DurableKept
<1>1. IInv => DurableKept
  BY DEF IInv
<1> QED BY <1>1, Invariance, PTL

\* No handle exceeds write_in_progress_limit.
THEOREM WritesBounded == Spec => []InProgressBounded
<1>1. IInv => InProgressBounded
  BY DEF IInv, IInvCache
<1> QED BY <1>1, Invariance, PTL

\* A handle that is gone leaves nothing in its accumulator.
THEOREM DroppedIsEmpty == Spec => []DroppedEmpty
<1>1. IInv => DroppedEmpty
  BY DEF IInv, FlushedEmpty, DroppedEmpty, HandleAlive
<1> QED BY <1>1, Invariance, PTL

=============================================================================
