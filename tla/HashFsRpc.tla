----------------------------- MODULE HashFsRpc ------------------------------
(***************************************************************************)
(* HashFsInterface over gRPC: HashFsClient with its pool of connections,   *)
(* the server, the messages between them, and the retry loop (spin) of     *)
(* TiFs around a sequence of requests.  The connection may break at any    *)
(* time: the client then gets a status error, and the request may have     *)
(* run, may still run, or may be gone.                                     *)
(***************************************************************************)
EXTENDS Naturals, Sequences, FiniteSets

CONSTANTS
    Callers,     \* FUSE requests that are served at the same time
    Plans,       \* caller -> sequences of requests that its closure may make
    Gives,       \* method -> what the store may give for it
    MaxErrors,   \* retries of spin after an unknown error: 3
    MaxTries,    \* bound: failed connects before ten minutes have passed
    MaxBreaks    \* bound: broken connections

VARIABLES
    free,       \* Pool.free: connections that nobody uses
    counter,    \* Pool.counter
    pc,         \* what a caller does next
    plan,       \* the requests of a caller's closure
    at,         \* the index of the present one
    errors,     \* other_error_count of spin
    conn,       \* the connection a caller holds, 0 for none
    tries,      \* failed connects of the present request
    wire,       \* the request or the response of a caller that is under way
    given,      \* what the present request gave on the server
    stray,      \* indexes of given-up requests that may still run
    runs,       \* how often each request of the plan ran
    last,       \* the answer to the last request as an FsResult
    breaks      \* broken connections so far

pool == <<free, counter>>
caller == <<pc, plan, at, errors, tries, last>>
server == <<given, stray, runs>>
vars == <<pool, caller, conn, wire, server, breaks>>

Nothing == [kind |-> "nothing"]
NoPlan == <<>>

-----------------------------------------------------------------------------
(***************************************************************************)
(* The methods.  sets: the optional parameters that the client fills in.   *)
(* early: an empty list is answered without a request.  checks: the client *)
(* looks at the error field.  needs: the optional response fields without  *)
(* which the answer is incomplete.                                         *)
(***************************************************************************)
Stub(sets, early, checks, needs) ==
    [sets |-> sets, early |-> early, checks |-> checks, needs |-> needs]

ClientDirectory ==
    [init |-> Stub({}, FALSE, TRUE, {"value"}),
     meta_static_read |-> Stub({}, FALSE, TRUE, {"value"}),
     directory_read_children |-> Stub({"dir_ino"}, FALSE, FALSE, {}),
     directory_add_child_checked_existing_inode |-> Stub({"ino", "parent"}, FALSE, TRUE, {}),
     directory_add_child_checked_new_inode |-> Stub({"parent", "perm"}, FALSE, TRUE, {"item"}),
     directory_remove_child_file |-> Stub({"parent"}, FALSE, TRUE, {}),
     directory_remove_child_directory |-> Stub({"parent"}, FALSE, TRUE, {}),
     directory_rename_child |-> Stub({"parent", "new_parent"}, FALSE, TRUE, {}),
     directory_child_get_all_attributes |-> Stub({"parent"}, FALSE, TRUE, {"all"})]

ClientInode ==
    [directory_add_new_symlink |-> Stub({"parent"}, FALSE, TRUE, {"item"}),
     inode_get_all_attributes |-> Stub({"ino"}, FALSE, TRUE, {"all"}),
     inode_set_all_attributes |-> Stub({"ino"}, FALSE, TRUE, {}),
     inode_open |-> Stub({"ino"}, FALSE, TRUE, {"use_id"}),
     inode_close |-> Stub({"ino", "use_id"}, FALSE, TRUE, {}),
     inode_allocate_size |-> Stub({"ino"}, FALSE, TRUE, {}),
     inode_read_inline_data |-> Stub({"ino"}, FALSE, TRUE, {}),
     inode_read_block_hashes_data_range |-> Stub({"ino"}, FALSE, TRUE, {}),
     inode_read_block_hashes_block_range |-> Stub({"ino"}, FALSE, TRUE, {})]

\* Mutant: an empty list of increments is sent.
MutClientBlocks ==
    [hb_get_block_data_by_hashes |-> Stub({}, FALSE, TRUE, {}),
     file_get_hash |-> Stub({"ino"}, FALSE, TRUE, {"hash"}),
     file_read_block_hashes |-> Stub({"ino", "block_range"}, FALSE, TRUE, {}),
     hb_increment_reference_count |-> Stub({}, FALSE, TRUE, {}),
     hb_upload_new_block |-> Stub({}, TRUE, TRUE, {}),
     inode_write_hash_block_to_addresses |-> Stub({"ino"}, TRUE, TRUE, {}),
     snapshot_create |-> Stub({}, FALSE, TRUE, {"item"})]

ClientBlocks ==
    [hb_get_block_data_by_hashes |-> Stub({}, FALSE, TRUE, {}),
     file_get_hash |-> Stub({"ino"}, FALSE, TRUE, {"hash"}),
     file_read_block_hashes |-> Stub({"ino", "block_range"}, FALSE, TRUE, {}),
     hb_increment_reference_count |-> Stub({}, TRUE, TRUE, {}),
     hb_upload_new_block |-> Stub({}, TRUE, TRUE, {}),
     inode_write_hash_block_to_addresses |-> Stub({"ino"}, TRUE, TRUE, {}),
     snapshot_create |-> Stub({}, FALSE, TRUE, {"item"})]

Join(f, g) ==
    [m \in DOMAIN f \cup DOMAIN g |-> IF m \in DOMAIN f THEN f[m] ELSE g[m]]

Client == Join(ClientDirectory, Join(ClientInode, ClientBlocks))
Methods == DOMAIN Client

(***************************************************************************)
(* The same methods on the server.  requires: parameters without which it  *)
(* refuses.  list: it refuses an empty list.  gives: the optional fields   *)
(* of a successful response.                                               *)
(***************************************************************************)
Handler(requires, list, gives) == [requires |-> requires, list |-> list, gives |-> gives]

ServerDirectory ==
    [init |-> Handler({}, FALSE, {"value"}),
     meta_static_read |-> Handler({}, FALSE, {"value"}),
     directory_read_children |-> Handler({"dir_ino"}, FALSE, {}),
     directory_add_child_checked_new_inode |-> Handler({"parent", "perm"}, FALSE, {"item"}),
     directory_add_child_checked_existing_inode |-> Handler({"parent", "ino"}, FALSE, {}),
     directory_remove_child_file |-> Handler({"parent"}, FALSE, {})]

ServerChild ==
    [directory_remove_child_directory |-> Handler({"parent"}, FALSE, {}),
     directory_rename_child |-> Handler({"parent", "new_parent"}, FALSE, {}),
     directory_child_get_all_attributes |-> Handler({"parent"}, FALSE, {"all"}),
     directory_add_new_symlink |-> Handler({"parent"}, FALSE, {"item"}),
     inode_get_all_attributes |-> Handler({"ino"}, FALSE, {"all"})]

ServerInode ==
    [inode_set_all_attributes |-> Handler({"ino"}, FALSE, {}),
     inode_open |-> Handler({"ino"}, FALSE, {"use_id"}),
     inode_close |-> Handler({"ino", "use_id"}, FALSE, {}),
     inode_allocate_size |-> Handler({"ino"}, FALSE, {}),
     inode_read_inline_data |-> Handler({"ino"}, FALSE, {}),
     inode_read_block_hashes_data_range |-> Handler({"ino"}, FALSE, {})]

ServerHashes ==
    [inode_read_block_hashes_block_range |-> Handler({"ino"}, TRUE, {}),
     hb_get_block_data_by_hashes |-> Handler({}, FALSE, {}),
     file_get_hash |-> Handler({"ino"}, FALSE, {"hash"}),
     file_read_block_hashes |-> Handler({"ino", "block_range"}, FALSE, {}),
     hb_increment_reference_count |-> Handler({}, TRUE, {})]

ServerBlocks ==
    [hb_upload_new_block |-> Handler({}, TRUE, {}),
     inode_write_hash_block_to_addresses |-> Handler({"ino"}, TRUE, {}),
     snapshot_create |-> Handler({}, FALSE, {"item"})]

Server ==
    Join(ServerDirectory, Join(ServerChild, Join(ServerInode, Join(ServerHashes, ServerBlocks))))

-----------------------------------------------------------------------------
(***************************************************************************)
(* Messages.                                                               *)
(***************************************************************************)
Service == INSTANCE HashFsService WITH
    open <- [c \in Callers |->
                IF pc[c] \in {"connect", "wait"} THEN plan[c][at[c]].method ELSE "no_request"],
    effect <- given,
    loose <- [c \in Callers |-> Cardinality(stray[c])],
    result <- last

Request(c) == plan[c][at[c]]

Requests == [method : Methods, empty : BOOLEAN]

\* A closure makes at least one request.  The store gives results of its own.
ASSUME ConstantsAssumption ==
    /\ IsFiniteSet(Callers)
    /\ MaxErrors \in Nat /\ MaxTries \in Nat /\ MaxBreaks \in Nat
    /\ \A c \in Callers : \A p \in Plans[c] : p \in Seq(Requests) /\ p # <<>>
    /\ \A m \in Methods : Gives[m] \subseteq Service!Outcomes

\* TiFs::write calls hb_write_data only if there are jobs, so the list of their
\* block ranges is never empty.
ASSUME RangesAssumption ==
    \A c \in Callers : \A p \in Plans[c] : \A i \in 1..Len(p) :
        p[i].method = "inode_read_block_hashes_block_range" => ~p[i].empty

\* From<&HashFsError> for the message, and back.
EncodeError(e) == IF e = "FsHasMissingData" THEN "FsDataIsMissing" ELSE e
DecodeError(id) == IF id = "FsDataIsMissing" THEN "FsHasMissingData" ELSE id

\* The server refuses a request without a parameter or with an empty list.
Refuses(c) ==
    LET m == Request(c).method IN
    \/ ~ Server[m].requires \subseteq Client[m].sets
    \/ Server[m].list /\ Request(c).empty

\* The response of the server to a request that gave o.
Response(m, o) ==
    IF o = "Ok" THEN [kind |-> "response", error |-> {}, fields |-> Server[m].gives]
    ELSE [kind |-> "response", error |-> {EncodeError(o)}, fields |-> {}]

InvalidArgument == [kind |-> "status"]

\* Mutant: methods without a value do not look at the error field.
MutHandleError(m, rs) ==
    IF Client[m].needs # {} /\ rs.error # {}
    THEN DecodeError(CHOOSE id \in rs.error : TRUE)
    ELSE "Ok"

\* handle_error, and for one method its absence
HandleError(m, rs) ==
    IF Client[m].checks /\ rs.error # {}
    THEN DecodeError(CHOOSE id \in rs.error : TRUE)
    ELSE "Ok"

\* What a method of the client returns for what came from the wire.
Decode(m, rs) ==
    IF rs.kind = "status" THEN "RawGrpcStatus"
    ELSE IF HandleError(m, rs) # "Ok" THEN HandleError(m, rs)
    ELSE IF ~ Client[m].needs \subseteq rs.fields THEN "GrpcMessageIncomplete"
    ELSE "Ok"

-----------------------------------------------------------------------------
(***************************************************************************)
(* The pool and the caller.                                                *)
(***************************************************************************)
Init ==
    /\ free = <<>>
    /\ counter = 0
    /\ pc = [c \in Callers |-> "idle"]
    /\ plan = [c \in Callers |-> NoPlan]
    /\ at = [c \in Callers |-> 1]
    /\ errors = [c \in Callers |-> 0]
    /\ conn = [c \in Callers |-> 0]
    /\ tries = [c \in Callers |-> 0]
    /\ wire = [c \in Callers |-> Nothing]
    /\ given = [c \in Callers |-> Service!NotYet]
    /\ stray = [c \in Callers |-> {}]
    /\ runs = [c \in Callers |-> <<>>]
    /\ last = [c \in Callers |-> "Ok"]
    /\ breaks = 0

\* Mutant: the connection of a request that got no answer is dropped.
MutGiveBack(c) ==
    free' = IF conn[c] = 0 \/ wire[c].kind = "request" THEN free ELSE Append(free, conn[c])

\* Drop of HandedOutPoolElement
GiveBack(c) == free' = IF conn[c] = 0 THEN free ELSE Append(free, conn[c])

Goto(c, step, index, count) ==
    /\ pc' = [pc EXCEPT ![c] = step]
    /\ at' = [at EXCEPT ![c] = index]
    /\ errors' = [errors EXCEPT ![c] = count]

\* Mutant: the errors are not counted.
MutRetryUncounted(c, r) ==
    IF r = "UnknownError" THEN Goto(c, "call", 1, errors[c])
    ELSE Goto(c, "done", at[c], errors[c])

\* Mutant: the closure goes on after the request that failed.
MutRetryContinues(c, r) ==
    IF r = "UnknownError" /\ errors[c] < MaxErrors /\ at[c] < Len(plan[c])
    THEN Goto(c, "call", at[c] + 1, errors[c] + 1)
    ELSE Goto(c, "done", at[c], errors[c])

\* spin after an error r: the closure starts again or gives up.  No FsError
\* of the interface is a KeyError, the one that is repeated without end.
Retry(c, r) ==
    CASE r = "KeyError" -> Goto(c, "call", 1, errors[c])
      [] r = "UnknownError" /\ errors[c] < MaxErrors -> Goto(c, "call", 1, errors[c] + 1)
      [] OTHER -> Goto(c, "done", at[c], errors[c])

\* The closure with the answer r to its present request.
Proceed(c, r) ==
    /\ last' = [last EXCEPT ![c] = r]
    /\ IF r # "Ok" THEN Retry(c, r)
       ELSE IF at[c] < Len(plan[c]) THEN Goto(c, "call", at[c] + 1, errors[c])
       ELSE Goto(c, "done", at[c], errors[c])

\* The request ends with the answer r; its connection goes back to the pool.
Finish(c, r) ==
    /\ Proceed(c, r)
    /\ GiveBack(c)
    /\ conn' = [conn EXCEPT ![c] = 0]
    /\ tries' = [tries EXCEPT ![c] = 0]
    /\ wire' = [wire EXCEPT ![c] = Nothing]
    /\ given' = [given EXCEPT ![c] = Service!NotYet]
    /\ UNCHANGED <<plan, counter>>

Start(c) ==
    /\ pc[c] = "idle"
    /\ plan' \in {[plan EXCEPT ![c] = p] : p \in Plans[c]}
    /\ runs' = [runs EXCEPT ![c] = [i \in 1..Len(plan'[c]) |-> 0]]
    /\ pc' = [pc EXCEPT ![c] = "call"]
    /\ UNCHANGED <<pool, at, errors, tries, last, conn, wire, given, stray, breaks>>

\* A method with an empty list that the client answers itself.
AnswerEmpty(c) ==
    /\ pc[c] = "call"
    /\ Request(c).empty /\ Client[Request(c).method].early
    /\ Finish(c, "Ok")
    /\ UNCHANGED <<stray, runs, breaks>>

Send(c, connection) ==
    /\ conn' = [conn EXCEPT ![c] = connection]
    /\ wire' = [wire EXCEPT ![c] = [kind |-> "request"]]
    /\ pc' = [pc EXCEPT ![c] = "wait"]

\* lock_grpc: get_one_free, or the beginning of a connect
Lock(c) ==
    /\ pc[c] = "call"
    /\ ~(Request(c).empty /\ Client[Request(c).method].early)
    /\ \/ /\ free # <<>>
          /\ free' = Tail(free)
          /\ Send(c, Head(free))
       \/ /\ free = <<>>
          /\ pc' = [pc EXCEPT ![c] = "connect"]
          /\ UNCHANGED <<free, conn, wire>>
    /\ UNCHANGED <<counter, plan, at, errors, tries, last, server, breaks>>

\* connect_with_retries succeeds: add_new_busy_to_pool
Connect(c) ==
    /\ pc[c] = "connect"
    /\ counter' = counter + 1
    /\ Send(c, counter + 1)
    /\ UNCHANGED <<free, plan, at, errors, tries, last, server, breaks>>

\* Mutant: the time is taken anew for each try.
MutConnectFails(c) ==
    /\ pc[c] = "connect"
    /\ tries' = [tries EXCEPT ![c] = (@ + 1) % (MaxTries + 1)]
    /\ UNCHANGED <<pool, pc, plan, at, errors, last, conn, wire, given, stray, runs, breaks>>

\* It fails, and is tried again until ten minutes have passed.
ConnectFails(c) ==
    /\ pc[c] = "connect"
    /\ IF tries[c] < MaxTries
       THEN /\ tries' = [tries EXCEPT ![c] = @ + 1]
            /\ UNCHANGED <<pool, pc, plan, at, errors, last, conn, wire, given>>
       ELSE Finish(c, Service!FsErrorOf("RawTonicTransportError"))
    /\ UNCHANGED <<stray, runs, breaks>>

Receive(c) ==
    /\ wire[c].kind \in {"response", "status"}
    /\ LET e == Decode(Request(c).method, wire[c]) IN Finish(c, Service!FsResult(e))
    /\ UNCHANGED <<stray, runs, breaks>>

-----------------------------------------------------------------------------
(***************************************************************************)
(* The server and the network.                                             *)
(***************************************************************************)
\* A handler: it refuses the request, or calls the file system and answers.
Serve(c) ==
    /\ wire[c].kind = "request"
    /\ IF Refuses(c)
       THEN /\ wire' = [wire EXCEPT ![c] = InvalidArgument]
            /\ UNCHANGED <<given, runs>>
       ELSE /\ \E o \in Gives[Request(c).method] :
                /\ wire' = [wire EXCEPT ![c] = Response(Request(c).method, o)]
                /\ given' = [given EXCEPT ![c] = o]
            /\ runs' = [runs EXCEPT ![c][at[c]] = @ + 1]
    /\ UNCHANGED <<pool, caller, conn, stray, breaks>>

\* The connection breaks while the caller waits.  A request that has not run
\* is gone, or runs later.
Break(c) ==
    /\ pc[c] = "wait"
    /\ breaks < MaxBreaks
    /\ breaks' = breaks + 1
    /\ Finish(c, Service!FsErrorOf("RawGrpcStatus"))
    /\ \/ UNCHANGED stray
       \/ /\ wire[c].kind = "request" /\ ~Refuses(c)
          /\ stray' = [stray EXCEPT ![c] = @ \cup {<<errors[c], at[c]>>}]
    /\ UNCHANGED runs

RunLate(c) ==
    /\ \E id \in stray[c] :
        /\ stray' = [stray EXCEPT ![c] = @ \ {id}]
        /\ runs' = [runs EXCEPT ![c][id[2]] = @ + 1]
    /\ UNCHANGED <<pool, caller, conn, wire, given, breaks>>

CallerStep(c) ==
    AnswerEmpty(c) \/ Lock(c) \/ Connect(c) \/ ConnectFails(c) \/ Receive(c)

Next ==
    \E c \in Callers : Start(c) \/ CallerStep(c) \/ Serve(c) \/ Break(c) \/ RunLate(c)

Spec ==
    /\ Init /\ [][Next]_vars
    /\ \A c \in Callers : WF_vars(CallerStep(c)) /\ WF_vars(Serve(c))

-----------------------------------------------------------------------------
(***************************************************************************)
(* Properties.                                                             *)
(***************************************************************************)
Busy == {c \in Callers : conn[c] # 0}
Connecting == {c \in Callers : pc[c] = "connect"}

TypeOK ==
    /\ free \in Seq(1..counter) /\ counter \in Nat
    /\ pc \in [Callers -> {"idle", "call", "connect", "wait", "done"}]
    /\ \A c \in Callers : plan[c] \in Plans[c] \cup {NoPlan}
    /\ at \in [Callers -> Nat \ {0}]
    /\ errors \in [Callers -> 0..MaxErrors]
    /\ conn \in [Callers -> 0..counter]
    /\ tries \in [Callers -> 0..MaxTries]
    /\ \A c \in Callers : wire[c].kind \in {"nothing", "request", "response", "status"}
    /\ given \in [Callers -> Service!Outcomes \cup {Service!NotYet}]
    /\ last \in [Callers -> {"Ok"} \cup {Service!FsErrorOf(e) : e \in Service!HashFsErrors}]
    /\ breaks \in 0..MaxBreaks

\* No connection is lost or used by two callers, whichever way a request
\* ends: every connection that was ever made (Pool.counter) is either once
\* in the pool or held by one caller.  Although the look into the pool and
\* the new connection are apart, there are never more than callers.
PoolExact ==
    /\ counter = Len(free) + Cardinality(Busy)
    /\ \A n \in 1..counter :
        Cardinality({i \in DOMAIN free : free[i] = n})
            + Cardinality({c \in Busy : conn[c] = n}) = 1
    /\ counter + Cardinality(Connecting) <= Cardinality(Callers)

\* Client and server agree on every method: the server refuses no request,
\* no answer is incomplete, and empty lists never reach the server.
NothingRefused ==
    \A c \in Callers : wire[c].kind # "status" /\ last[c] # "GrpcMessageIncomplete"

\* A closure that returns without an error has had every request executed,
\* in whatever attempt, except those with nothing to do.
OkMeansRan ==
    \A c \in Callers :
        pc[c] = "done" /\ last[c] = "Ok" =>
            \A i \in DOMAIN plan[c] : plan[c][i].empty \/ runs[c][i] > 0

\* A request runs at most once for each attempt of spin, stray requests that
\* run after their caller has given them up included.
RunsBounded ==
    \A c \in Callers : \A i \in DOMAIN runs[c] :
        runs[c][i] + Cardinality({id \in stray[c] : id[2] = i}) <= errors[c] + 1

\* The interface over the network is the interface, in the sense of
\* HashFsService: no answer is made up and every error arrives as it would
\* from a local implementation.
ImplementsService == Service!Spec

\* Every closure returns, even if no connection can be made: the ten minutes
\* of connect_with_retries and the count of unknown errors end it.
EveryCallReturns == \A c \in Callers : pc[c] = "call" ~> pc[c] = "done"

=============================================================================
