-------------------------- MODULE HashFsRpcProofs ---------------------------
(***************************************************************************)
(* HashFsInterface over gRPC implements HashFsService, loses no connection *)
(* and repeats no request more often than spin allows: for any number of   *)
(* callers, any closures, any errors of the store and any broken           *)
(* connections.                                                            *)
(***************************************************************************)
EXTENDS HashFsRpc, FiniteSetTheorems, SequenceTheorems, TLAPS

-----------------------------------------------------------------------------
(***************************************************************************)
(* The methods.                                                            *)
(***************************************************************************)

\* What the two sides must agree on for one method: the client sets what the
\* server requires, the server gives what the client needs, and a list that
\* the server wants is not empty, as far as the client sees to it.
Agrees(m, stub, handler) ==
    /\ handler.requires \subseteq stub.sets
    /\ stub.needs \subseteq handler.gives
    /\ handler.list => stub.early \/ m = "inode_read_block_hashes_block_range"
    /\ stub.checks \/ (m = "directory_read_children" /\ stub.needs = {})

\* The methods of the three tables of the client.
LEMMA ClientTables ==
    /\ Methods = DOMAIN ClientDirectory \cup DOMAIN ClientInode \cup DOMAIN ClientBlocks
    /\ \A m \in DOMAIN ClientDirectory : Client[m] = ClientDirectory[m]
    /\ \A m \in DOMAIN ClientInode : Client[m] = ClientInode[m]
    /\ \A m \in DOMAIN ClientBlocks : Client[m] = ClientBlocks[m]
<1>1. \A m \in DOMAIN ClientInode : m \notin DOMAIN ClientDirectory
  BY DEF ClientInode, ClientDirectory
<1>2. \A m \in DOMAIN ClientBlocks : m \notin DOMAIN ClientDirectory /\ m \notin DOMAIN ClientInode
  BY DEF ClientBlocks, ClientInode, ClientDirectory
<1> QED BY <1>1, <1>2 DEF Join, Client, Methods

\* The methods of the five tables of the server.
LEMMA ServerTables ==
    /\ \A m \in DOMAIN ServerDirectory : Server[m] = ServerDirectory[m]
    /\ \A m \in DOMAIN ServerChild : Server[m] = ServerChild[m]
    /\ \A m \in DOMAIN ServerInode : Server[m] = ServerInode[m]
    /\ \A m \in DOMAIN ServerHashes : Server[m] = ServerHashes[m]
    /\ \A m \in DOMAIN ServerBlocks : Server[m] = ServerBlocks[m]
<1>1. \A m \in DOMAIN ServerChild : m \notin DOMAIN ServerDirectory
  BY DEF ServerChild, ServerDirectory
<1>2. \A m \in DOMAIN ServerInode : m \notin DOMAIN ServerDirectory /\ m \notin DOMAIN ServerChild
  BY DEF ServerInode, ServerChild, ServerDirectory
<1>3. \A m \in DOMAIN ServerHashes : /\ m \notin DOMAIN ServerDirectory
                                     /\ m \notin DOMAIN ServerChild
                                     /\ m \notin DOMAIN ServerInode
  BY DEF ServerHashes, ServerInode, ServerChild, ServerDirectory
<1>4. \A m \in DOMAIN ServerBlocks : /\ m \notin DOMAIN ServerDirectory
                                     /\ m \notin DOMAIN ServerChild
                                     /\ m \notin DOMAIN ServerInode
                                     /\ m \notin DOMAIN ServerHashes
  BY DEF ServerBlocks, ServerHashes, ServerInode, ServerChild, ServerDirectory
<1> DEFINE C4 == Join(ServerHashes, ServerBlocks)
           C3 == Join(ServerInode, C4)
           C2 == Join(ServerChild, C3)
<1>5. Server = Join(ServerDirectory, C2)
  BY DEF Server
<1>6. /\ DOMAIN C4 = DOMAIN ServerHashes \cup DOMAIN ServerBlocks
      /\ DOMAIN C3 = DOMAIN ServerInode \cup DOMAIN C4
      /\ DOMAIN C2 = DOMAIN ServerChild \cup DOMAIN C3
  BY DEF Join
<1>7. /\ \A m \in DOMAIN ServerHashes : C4[m] = ServerHashes[m]
      /\ \A m \in DOMAIN ServerBlocks : C4[m] = ServerBlocks[m]
  BY <1>4 DEF Join
<1> HIDE DEF C4
<1>8. /\ \A m \in DOMAIN ServerInode : C3[m] = ServerInode[m]
      /\ \A m \in DOMAIN ServerHashes : C3[m] = ServerHashes[m]
      /\ \A m \in DOMAIN ServerBlocks : C3[m] = ServerBlocks[m]
  BY <1>3, <1>4, <1>6, <1>7 DEF Join
<1> HIDE DEF C3
<1>9. /\ \A m \in DOMAIN ServerChild : C2[m] = ServerChild[m]
      /\ \A m \in DOMAIN ServerInode : C2[m] = ServerInode[m]
      /\ \A m \in DOMAIN ServerHashes : C2[m] = ServerHashes[m]
      /\ \A m \in DOMAIN ServerBlocks : C2[m] = ServerBlocks[m]
  BY <1>2, <1>3, <1>4, <1>6, <1>8 DEF Join
<1> HIDE DEF C2
<1> QED BY <1>1, <1>2, <1>3, <1>4, <1>5, <1>6, <1>9 DEF Join

\* Client and server agree on the methods that read and change directories.
LEMMA DirectoryAgrees ==
    \A m \in DOMAIN ClientDirectory : Agrees(m, Client[m], Server[m])
<1>1. \A m \in DOMAIN ClientDirectory :
          m \in DOMAIN ServerDirectory \/ m \in DOMAIN ServerChild
  BY DEF ClientDirectory, ServerDirectory, ServerChild
<1>2. \A m \in DOMAIN ClientDirectory \cap DOMAIN ServerDirectory :
          Agrees(m, ClientDirectory[m], ServerDirectory[m])
  BY DEF Agrees, Stub, Handler, ClientDirectory, ServerDirectory
<1>3. \A m \in DOMAIN ClientDirectory \cap DOMAIN ServerChild :
          Agrees(m, ClientDirectory[m], ServerChild[m])
  BY DEF Agrees, Stub, Handler, ClientDirectory, ServerChild
<1> QED BY <1>1, <1>2, <1>3, ClientTables, ServerTables

\* Client and server agree on the methods of one inode.
LEMMA InodeAgrees ==
    \A m \in DOMAIN ClientInode : Agrees(m, Client[m], Server[m])
<1>1. \A m \in DOMAIN ClientInode :
          m \in DOMAIN ServerChild \/ m \in DOMAIN ServerInode \/ m \in DOMAIN ServerHashes
  BY DEF ClientInode, ServerInode, ServerChild, ServerHashes
<1>2. \A m \in DOMAIN ClientInode \cap DOMAIN ServerChild :
          Agrees(m, ClientInode[m], ServerChild[m])
  BY DEF Agrees, Stub, Handler, ClientInode, ServerChild
<1>3. \A m \in DOMAIN ClientInode \cap DOMAIN ServerInode :
          Agrees(m, ClientInode[m], ServerInode[m])
  BY DEF Agrees, Stub, Handler, ClientInode, ServerInode
<1>4. \A m \in DOMAIN ClientInode \cap DOMAIN ServerHashes :
          Agrees(m, ClientInode[m], ServerHashes[m])
  BY DEF Agrees, Stub, Handler, ClientInode, ServerHashes
<1> QED BY <1>1, <1>2, <1>3, <1>4, ClientTables, ServerTables

\* Client and server agree on the methods of blocks and snapshots.
LEMMA BlocksAgree ==
    \A m \in DOMAIN ClientBlocks : Agrees(m, Client[m], Server[m])
<1>1. \A m \in DOMAIN ClientBlocks : m \in DOMAIN ServerHashes \/ m \in DOMAIN ServerBlocks
  BY DEF ClientBlocks, ServerHashes, ServerBlocks
<1>2. \A m \in DOMAIN ClientBlocks \cap DOMAIN ServerHashes :
          Agrees(m, ClientBlocks[m], ServerHashes[m])
  BY DEF Agrees, Stub, Handler, ClientBlocks, ServerHashes
<1>3. \A m \in DOMAIN ClientBlocks \cap DOMAIN ServerBlocks :
          Agrees(m, ClientBlocks[m], ServerBlocks[m])
  BY DEF Agrees, Stub, Handler, ClientBlocks, ServerBlocks
<1> QED BY <1>1, <1>2, <1>3, ClientTables, ServerTables

\* The client stubs and the server handlers agree on every method of the
\* interface.
THEOREM MethodsAgree == \A m \in Methods : Agrees(m, Client[m], Server[m])
BY DirectoryAgrees, InodeAgrees, BlocksAgree, ClientTables

\* No method has the name that stands for no request.
LEMMA MethodNames == "no_request" \notin Methods
<1>1. /\ "no_request" \notin DOMAIN ClientDirectory
      /\ "no_request" \notin DOMAIN ClientInode
      /\ "no_request" \notin DOMAIN ClientBlocks
  BY DEF ClientDirectory, ClientInode, ClientBlocks
<1> QED BY <1>1, ClientTables

-----------------------------------------------------------------------------
(***************************************************************************)
(* Answers.                                                                *)
(***************************************************************************)

\* What a caller of the interface can get: the results of the store, and the
\* error of a lost request.
Answers ==
    {"Ok", "ConfigParsingFailed", "FileNotFound", "KeyNotFound", "FileExist", "UnknownError"}

\* Every result of the store is one of the answers.
LEMMA ResultsAnswer ==
    ASSUME NEW o \in Service!Outcomes
    PROVE  Service!FsResult(o) \in Answers
<1>1. o \in {"Unspecific", "FsNotInitialized", "FsHasInvalidData", "FsHasMissingData",
             "FileNotFound", "FileAlreadyExists", "Ok"}
  BY DEF Service!Outcomes, Service!StoreErrors, Service!HashFsErrors
<1> QED BY <1>1 DEF Service!FsResult, Service!FsErrorOf, Answers

\* A lost request is answered with an unknown error, a failed connect too.
LEMMA LostAnswers ==
    /\ Service!FsErrorOf("RawGrpcStatus") = Service!Lost
    /\ Service!FsErrorOf("RawTonicTransportError") = Service!Lost
    /\ Service!Lost = "UnknownError"
BY DEF Service!FsErrorOf, Service!Lost

\* The message for an error is read as that error.
LEMMA ErrorRoundTrip ==
    ASSUME NEW o \in Service!Outcomes
    PROVE  DecodeError(EncodeError(o)) = o
<1>1. o # "FsDataIsMissing"
  BY DEF Service!Outcomes, Service!StoreErrors, Service!HashFsErrors
<1> QED BY <1>1 DEF DecodeError, EncodeError

\* The client makes of a response what the store gave, but for a listing.
LEMMA DecodeResponse ==
    ASSUME NEW m \in Methods, NEW o \in Service!Outcomes
    PROVE  \/ Decode(m, Response(m, o)) = o
           \/ m = "directory_read_children" /\ Decode(m, Response(m, o)) = "Ok"
<1> DEFINE rs == Response(m, o)
<1>1. rs.kind = "response"
  BY DEF Response
<1>2. Agrees(m, Client[m], Server[m])
  BY MethodsAgree
<1>3. CASE o = "Ok"
  <2>1. rs.error = {} /\ rs.fields = Server[m].gives
    BY <1>3 DEF Response
  <2>2. HandleError(m, rs) = "Ok" /\ Client[m].needs \subseteq rs.fields
    BY <1>2, <2>1 DEF HandleError, Agrees
  <2> HIDE DEF rs
  <2>3. Decode(m, rs) = "Ok"
    BY <1>1, <2>2 DEF Decode
  <2> QED BY <1>3, <2>3 DEF rs
<1>4. CASE o # "Ok" /\ Client[m].checks
  <2>1. rs.error = {EncodeError(o)}
    BY <1>4 DEF Response
  <2>2. (CHOOSE id \in rs.error : TRUE) = EncodeError(o)
    BY <2>1
  <2>3. HandleError(m, rs) = o
    BY <1>4, <2>1, <2>2, ErrorRoundTrip DEF HandleError
  <2> HIDE DEF rs
  <2>4. Decode(m, rs) = o
    BY <1>1, <1>4, <2>3 DEF Decode
  <2> QED BY <2>4 DEF rs
<1>5. CASE o # "Ok" /\ ~Client[m].checks
  <2>1. m = "directory_read_children" /\ Client[m].needs = {}
    BY <1>2, <1>5 DEF Agrees
  <2>2. HandleError(m, rs) = "Ok"
    BY <1>5 DEF HandleError
  <2> HIDE DEF rs
  <2>3. Decode(m, rs) = "Ok"
    BY <1>1, <2>1, <2>2 DEF Decode
  <2> QED BY <2>1, <2>3 DEF rs
<1> QED BY <1>3, <1>4, <1>5

-----------------------------------------------------------------------------
(***************************************************************************)
(* The inductive invariant.                                                *)
(***************************************************************************)
RequestMessage == [kind |-> "request"]
Messages ==
    {Nothing, RequestMessage, InvalidArgument}
        \cup {Response(m, o) : m \in Methods, o \in Service!Outcomes}

Typed ==
    /\ free \in Seq(Nat) /\ counter \in Nat
    /\ pc \in [Callers -> {"idle", "call", "connect", "wait", "done"}]
    /\ plan \in [Callers -> Seq(Requests)]
    /\ at \in [Callers -> Nat \ {0}]
    /\ errors \in [Callers -> 0..MaxErrors]
    /\ conn \in [Callers -> Nat]
    /\ tries \in [Callers -> 0..MaxTries]
    /\ wire \in [Callers -> Messages]
    /\ given \in [Callers -> Service!Outcomes \cup {Service!NotYet}]
    /\ stray \in [Callers -> SUBSET (Nat \X Nat)]
    /\ runs \in [Callers -> Seq(Nat)]
    /\ last \in [Callers -> Answers]
    /\ breaks \in 0..MaxBreaks

\* A caller is idle, or is at a request of one of its plans; it asks only for
\* what it cannot answer itself.
Shape(c) ==
    /\ pc[c] = "idle" =>
          plan[c] = NoPlan /\ at[c] = 1 /\ errors[c] = 0 /\ stray[c] = {}
    /\ pc[c] # "idle" => plan[c] \in Plans[c] /\ at[c] \in 1..Len(plan[c])
    /\ Len(runs[c]) = Len(plan[c])
    /\ pc[c] \in {"connect", "wait"} =>
          ~(Request(c).empty /\ Client[Request(c).method].early)

\* While a caller waits it holds a connection, and its request is under way or
\* has been answered with what it gave; otherwise there is none of this.
Exchange(c) ==
    IF pc[c] = "wait"
    THEN /\ conn[c] # 0
         /\ \/ wire[c] = RequestMessage /\ given[c] = Service!NotYet
            \/ /\ given[c] \in Service!Outcomes
               /\ wire[c] = Response(Request(c).method, given[c])
    ELSE conn[c] = 0 /\ wire[c] = Nothing /\ given[c] = Service!NotYet

\* The requests before the present one have run, or had nothing to do.
Executed(c, i) == plan[c][i].empty \/ runs[c][i] > 0

OkSoFar(c) ==
    /\ \A i \in 1..Len(plan[c]) : i < at[c] => Executed(c, i)
    /\ pc[c] = "done" /\ last[c] = "Ok" => at[c] = Len(plan[c]) /\ Executed(c, at[c])
    /\ given[c] # Service!NotYet => runs[c][at[c]] > 0

\* How often a request has run or may still run.
Times(c, i) == runs[c][i] + Cardinality({id \in stray[c] : id[2] = i})

\* The present request has not run in this attempt.
Waiting(c) == pc[c] # "done" /\ given[c] = Service!NotYet

\* A request runs once in every attempt, and later ones not yet in this one.
Bounded(c) ==
    \A i \in 1..Len(plan[c]) :
        /\ Times(c, i) <= errors[c] + 1
        /\ i > at[c] \/ (i = at[c] /\ Waiting(c)) => Times(c, i) <= errors[c]

\* A stray request is of an attempt that is over.
StrayOld(c) ==
    /\ IsFiniteSet(stray[c])
    /\ \A id \in stray[c] :
          /\ id[2] \in 1..Len(plan[c])
          /\ id[1] < errors[c] \/ pc[c] = "done"

Local(c) == Shape(c) /\ Exchange(c) /\ OkSoFar(c) /\ Bounded(c) /\ StrayOld(c)

\* Every connection that was made is in one place.
PoolDistinct ==
    /\ \A i \in 1..Len(free) : free[i] \in 1..counter
    /\ \A i, j \in 1..Len(free) : free[i] = free[j] => i = j
    /\ \A c \in Callers : conn[c] \in 0..counter
    /\ \A c, d \in Callers : conn[c] = conn[d] /\ conn[c] # 0 => c = d
    /\ \A c \in Callers, i \in 1..Len(free) : conn[c] # free[i]
    /\ \A n \in 1..counter :
          (\E i \in 1..Len(free) : free[i] = n) \/ (\E c \in Callers : conn[c] = n)

\* There are no more connections than callers.
PoolCounts ==
    /\ counter = Len(free) + Cardinality(Busy)
    /\ counter + Cardinality(Connecting) <= Cardinality(Callers)

IInv == Typed /\ PoolDistinct /\ PoolCounts /\ \A c \in Callers : Local(c)

-----------------------------------------------------------------------------
(***************************************************************************)
(* Steps of one caller.                                                    *)
(***************************************************************************)

\* The state of the caller d stays as it is.
Same(d) ==
    /\ pc'[d] = pc[d] /\ plan'[d] = plan[d] /\ at'[d] = at[d]
    /\ errors'[d] = errors[d] /\ conn'[d] = conn[d] /\ wire'[d] = wire[d]
    /\ given'[d] = given[d] /\ stray'[d] = stray[d] /\ runs'[d] = runs[d]
    /\ last'[d] = last[d]

\* Only the state of c changes.
Alone(c) == \A d \in Callers \ {c} : Same(d)

\* A caller to whom nothing happens stays in order.
LEMMA SameKeeps ==
    ASSUME NEW d \in Callers, Same(d), Local(d)
    PROVE  Local(d)'
<1>1. Shape(d)'
  BY DEF Same, Local, Shape, Request
<1>2. Exchange(d)'
  BY DEF Same, Local, Exchange, Request
<1>3. OkSoFar(d)'
  BY DEF Same, Local, OkSoFar, Executed
<1>4. Bounded(d)'
  BY DEF Same, Local, Bounded, Times, Waiting
<1>5. StrayOld(d)'
  BY DEF Same, Local, StrayOld
<1> QED BY <1>1, <1>2, <1>3, <1>4, <1>5 DEF Local

\* How a closure goes on after the answer r.
GoesOn(c, r) ==
    \/ /\ r = "Ok" /\ at[c] < Len(plan[c])
       /\ pc'[c] = "call" /\ at'[c] = at[c] + 1 /\ errors'[c] = errors[c]
    \/ /\ r = "UnknownError" /\ errors[c] < MaxErrors
       /\ pc'[c] = "call" /\ at'[c] = 1 /\ errors'[c] = errors[c] + 1
    \/ /\ r = "Ok" => at[c] >= Len(plan[c])
       /\ pc'[c] = "done" /\ at'[c] = at[c] /\ errors'[c] = errors[c]

\* What the end of a request changes.
LEMMA FinishStep ==
    ASSUME Typed, NEW c \in Callers, NEW r \in Answers, Finish(c, r)
    PROVE  /\ GoesOn(c, r)
           /\ conn'[c] = 0 /\ wire'[c] = Nothing /\ given'[c] = Service!NotYet
           /\ last'[c] = r
           /\ \A d \in Callers \ {c} :
                  /\ pc'[d] = pc[d] /\ plan'[d] = plan[d] /\ at'[d] = at[d]
                  /\ errors'[d] = errors[d] /\ conn'[d] = conn[d] /\ wire'[d] = wire[d]
                  /\ given'[d] = given[d] /\ last'[d] = last[d]
           /\ plan' = plan /\ counter' = counter
           /\ free' = IF conn[c] = 0 THEN free ELSE Append(free, conn[c])
<1>1. /\ conn' = [conn EXCEPT ![c] = 0]
      /\ wire' = [wire EXCEPT ![c] = Nothing]
      /\ given' = [given EXCEPT ![c] = Service!NotYet]
      /\ last' = [last EXCEPT ![c] = r]
      /\ plan' = plan /\ counter' = counter
      /\ free' = IF conn[c] = 0 THEN free ELSE Append(free, conn[c])
  BY DEF Finish, Proceed, GiveBack
<1>2. PICK step, index, count :
          /\ Goto(c, step, index, count)
          /\ \/ /\ r = "Ok" /\ at[c] < Len(plan[c])
                /\ step = "call" /\ index = at[c] + 1 /\ count = errors[c]
             \/ /\ r = "UnknownError" /\ errors[c] < MaxErrors
                /\ step = "call" /\ index = 1 /\ count = errors[c] + 1
             \/ /\ r = "Ok" => ~(at[c] < Len(plan[c]))
                /\ step = "done" /\ index = at[c] /\ count = errors[c]
  <2>1. r # "KeyError"
    BY DEF Answers
  <2>2. CASE r = "Ok"
    BY <2>2 DEF Finish, Proceed
  <2>3. CASE r # "Ok"
    BY <2>1, <2>3 DEF Finish, Proceed, Retry
  <2> QED BY <2>2, <2>3
<1>3. /\ pc' = [pc EXCEPT ![c] = step]
      /\ at' = [at EXCEPT ![c] = index]
      /\ errors' = [errors EXCEPT ![c] = count]
  BY <1>2 DEF Goto
<1>4. pc'[c] = step /\ at'[c] = index /\ errors'[c] = count
  BY <1>3 DEF Typed
<1>5. at[c] \in Nat /\ Len(plan[c]) \in Nat
  BY DEF Typed
<1>6. GoesOn(c, r)
  BY <1>2, <1>4, <1>5 DEF GoesOn
<1>7. conn'[c] = 0 /\ wire'[c] = Nothing /\ given'[c] = Service!NotYet /\ last'[c] = r
  BY <1>1 DEF Typed
<1>8. ASSUME NEW d \in Callers \ {c}
      PROVE  /\ pc'[d] = pc[d] /\ plan'[d] = plan[d] /\ at'[d] = at[d]
             /\ errors'[d] = errors[d] /\ conn'[d] = conn[d] /\ wire'[d] = wire[d]
             /\ given'[d] = given[d] /\ last'[d] = last[d]
  BY <1>1, <1>3 DEF Typed
<1> QED BY <1>1, <1>6, <1>7, <1>8

\* The end of a request keeps the types of what it changes.
LEMMA FinishTypes ==
    ASSUME Typed, NEW c \in Callers, NEW r \in Answers, Finish(c, r),
           stray' \in [Callers -> SUBSET (Nat \X Nat)],
           runs' \in [Callers -> Seq(Nat)], breaks' \in 0..MaxBreaks
    PROVE  Typed'
<1>1. GoesOn(c, r)
  BY FinishStep
<1>2. at[c] \in Nat \ {0} /\ errors[c] \in 0..MaxErrors /\ MaxErrors \in Nat /\ MaxTries \in Nat
  BY ConstantsAssumption DEF Typed
<1>3. /\ pc'[c] \in {"idle", "call", "connect", "wait", "done"}
      /\ at'[c] \in Nat \ {0} /\ errors'[c] \in 0..MaxErrors
  BY <1>1, <1>2 DEF GoesOn
<1>4. \E step, index, count : Goto(c, step, index, count)
  BY DEF Finish, Proceed, Retry
<1>5. /\ pc' = [pc EXCEPT ![c] = pc'[c]]
      /\ at' = [at EXCEPT ![c] = at'[c]]
      /\ errors' = [errors EXCEPT ![c] = errors'[c]]
  BY <1>4 DEF Goto, Typed
<1>6. /\ pc' \in [Callers -> {"idle", "call", "connect", "wait", "done"}]
      /\ at' \in [Callers -> Nat \ {0}]
      /\ errors' \in [Callers -> 0..MaxErrors]
  BY <1>3, <1>5 DEF Typed
<1>7. /\ conn' \in [Callers -> Nat]
      /\ tries' \in [Callers -> 0..MaxTries]
      /\ plan' \in [Callers -> Seq(Requests)]
      /\ counter' \in Nat
  BY <1>2 DEF Finish, Typed
<1>8. wire' \in [Callers -> Messages]
  BY DEF Finish, Typed, Messages
<1>9. /\ given' \in [Callers -> Service!Outcomes \cup {Service!NotYet}]
      /\ last' \in [Callers -> Answers]
  BY DEF Finish, Proceed, Typed
<1>10. free' \in Seq(Nat)
  BY DEF Finish, GiveBack, Typed
<1> QED BY <1>6, <1>7, <1>8, <1>9, <1>10 DEF Typed

\* Types of the numbers of one caller.
LEMMA LocalTypes ==
    ASSUME Typed, NEW c \in Callers, Local(c)
    PROVE  /\ at[c] \in Nat \ {0} /\ errors[c] \in Nat /\ Len(plan[c]) \in Nat
           /\ \A i \in 1..Len(plan[c]) : runs[c][i] \in Nat /\ Times(c, i) \in Nat
<1>1. at[c] \in Nat \ {0} /\ errors[c] \in Nat /\ Len(plan[c]) \in Nat
  BY ConstantsAssumption DEF Typed
<1>2. Len(runs[c]) = Len(plan[c]) /\ runs[c] \in Seq(Nat)
  BY DEF Local, Shape, Typed
<1>3. ASSUME NEW i \in 1..Len(plan[c])
      PROVE  runs[c][i] \in Nat /\ Times(c, i) \in Nat
  <2>1. runs[c][i] \in Nat
    BY <1>2
  <2>2. IsFiniteSet({id \in stray[c] : id[2] = i})
    BY FS_Subset DEF Local, StrayOld
  <2>3. Cardinality({id \in stray[c] : id[2] = i}) \in Nat
    BY <2>2, FS_CardinalityType
  <2> QED BY <2>1, <2>3 DEF Times
<1> QED BY <1>1, <1>3

\* The request at which a caller is.
LEMMA PresentRequest ==
    ASSUME Typed, NEW c \in Callers, Shape(c), pc[c] # "idle"
    PROVE  /\ at[c] \in 1..Len(plan[c])
           /\ Request(c) \in Requests
           /\ Request(c).method \in Methods
<1>1. plan[c] \in Seq(Requests) /\ at[c] \in 1..Len(plan[c])
  BY DEF Typed, Shape
<1>2. plan[c][at[c]] \in Requests
  BY <1>1
<1> QED BY <1>1, <1>2 DEF Request, Requests

\* The end of a request keeps the caller's own state in order: what it says
\* has run has run, and a request that goes astray is counted.
LEMMA FinishLocal ==
    ASSUME IInv, NEW c \in Callers, NEW r \in Answers, Finish(c, r),
           pc[c] \in {"call", "connect", "wait"},
           r = "Ok" => Executed(c, at[c]),
           runs'[c] = runs[c], IsFiniteSet(stray'[c]),
           \A id \in stray'[c] :
               id \in stray[c] \/ (id = <<errors[c], at[c]>> /\ r = "UnknownError"),
           NEW a \in Nat, a = at[c], Times(c, a)' <= errors[c] + 1,
           \A i \in 1..Len(plan[c]) : i # a => Times(c, i)' = Times(c, i)
    PROVE  Local(c)'
<1> USE DEF IInv
<1>1. /\ GoesOn(c, r)
      /\ conn'[c] = 0 /\ wire'[c] = Nothing /\ given'[c] = Service!NotYet
      /\ last'[c] = r /\ plan'[c] = plan[c]
  BY FinishStep
<1>2. Local(c)
  OBVIOUS
<1>3. /\ at[c] \in 1..Len(plan[c]) /\ errors[c] \in Nat /\ Len(plan[c]) \in Nat
      /\ plan[c] \in Plans[c]
  BY <1>2, LocalTypes DEF Local, Shape
<1>4. \A i \in 1..Len(plan[c]) : Times(c, i) \in Nat
  BY <1>2, LocalTypes
<1>5. Shape(c)'
  <2>1. pc'[c] \in {"call", "done"} /\ at'[c] \in 1..Len(plan[c])
    BY <1>1, <1>3 DEF GoesOn
  <2> QED BY <1>1, <1>2, <1>3, <2>1 DEF Shape, Local
<1>6. Exchange(c)'
  <2>1. pc'[c] # "wait"
    BY <1>1 DEF GoesOn
  <2> QED BY <1>1, <2>1 DEF Exchange
<1>7. OkSoFar(c)'
  <2>1. \A i \in 1..Len(plan[c]) : Executed(c, i)' <=> Executed(c, i)
    BY <1>1 DEF Executed
  <2>2. \A i \in 1..Len(plan[c]) : i < at[c] => Executed(c, i)
    BY <1>2 DEF Local, OkSoFar
  <2>3. ASSUME NEW i \in 1..Len(plan[c]), i < at'[c] PROVE Executed(c, i)
    <3>1. i < at[c] \/ (i = at[c] /\ r = "Ok")
      BY <1>1, <1>3, <2>3 DEF GoesOn
    <3> QED BY <2>2, <3>1
  <2>4. ASSUME pc'[c] = "done", last'[c] = "Ok"
        PROVE  at'[c] = Len(plan[c]) /\ at'[c] = a /\ Executed(c, a)'
    <3>1. r = "Ok" /\ at'[c] = at[c] /\ at[c] = Len(plan[c])
      BY <1>1, <1>3, <2>4 DEF GoesOn
    <3>2. Executed(c, a)
      BY <3>1
    <3>3. Executed(c, a)'
      BY <1>3, <2>1, <3>2
    <3> QED BY <3>1, <3>3
  <2> QED BY <1>1, <2>1, <2>3, <2>4 DEF OkSoFar, Executed
<1>8. Bounded(c)'
  <2> SUFFICES ASSUME NEW i \in 1..Len(plan[c])
               PROVE  /\ Times(c, i)' <= errors'[c] + 1
                      /\ i > at'[c] \/ (i = at'[c] /\ Waiting(c)') => Times(c, i)' <= errors'[c]
    BY <1>1 DEF Bounded
  <2>1. /\ Times(c, i) <= errors[c] + 1
        /\ i > at[c] => Times(c, i) <= errors[c]
    BY <1>2 DEF Local, Bounded
  <2>2. CASE i = at[c]
    <3>1. Times(c, i)' <= errors[c] + 1
      <4>1. Times(c, i)' = Times(c, a)'
        BY <2>2 DEF Times
      <4> QED BY <4>1
    <3>2. Times(c, i)' \in Nat
      <4>1. IsFiniteSet({id \in stray'[c] : id[2] = i})
        BY FS_Subset
      <4>2. Cardinality({id \in stray'[c] : id[2] = i}) \in Nat
        BY <4>1, FS_CardinalityType
      <4>3. runs[c][i] \in Nat
        BY <1>2, LocalTypes
      <4> QED BY <4>2, <4>3 DEF Times
    <3>3. Waiting(c)' => pc'[c] # "done"
      BY DEF Waiting
    <3> QED BY <1>1, <1>3, <2>2, <3>1, <3>2, <3>3 DEF GoesOn
  <2>3. CASE i # at[c]
    <3>1. Times(c, i)' = Times(c, i) /\ Times(c, i) \in Nat
      BY <1>4, <2>3
    <3>2. Waiting(c)' => pc'[c] # "done"
      BY DEF Waiting
    <3> QED BY <1>1, <1>3, <2>1, <2>3, <3>1, <3>2 DEF GoesOn
  <2> QED BY <2>2, <2>3
<1>9. StrayOld(c)'
  <2> SUFFICES ASSUME NEW id \in stray'[c]
               PROVE  id[2] \in 1..Len(plan[c]) /\ (id[1] < errors'[c] \/ pc'[c] = "done")
    BY <1>1 DEF StrayOld
  <2>1. CASE id \in stray[c]
    <3>1. id[2] \in 1..Len(plan[c]) /\ id[1] < errors[c] /\ id[1] \in Nat
      BY <1>2, <2>1 DEF Local, StrayOld, Typed
    <3> QED BY <1>1, <1>3, <3>1 DEF GoesOn
  <2>2. CASE id = <<errors[c], at[c]>> /\ r = "UnknownError"
    BY <1>1, <1>3, <2>2 DEF GoesOn
  <2> QED BY <2>1, <2>2
<1> QED BY <1>5, <1>6, <1>7, <1>8, <1>9 DEF Local

\* The same when nothing goes astray.
LEMMA FinishQuiet ==
    ASSUME IInv, NEW c \in Callers, NEW r \in Answers, Finish(c, r),
           pc[c] \in {"call", "connect", "wait"},
           r = "Ok" => Executed(c, at[c]),
           UNCHANGED <<stray, runs, breaks>>
    PROVE  Typed' /\ Alone(c) /\ Local(c)'
<1>1. Typed'
  BY FinishTypes DEF IInv, Typed
<1>2. Alone(c)
  BY FinishStep DEF IInv, Alone, Same
<1>3. \A i : Times(c, i)' = Times(c, i)
  BY DEF Times
<1>4. Local(c) /\ at[c] \in 1..Len(plan[c])
  BY DEF IInv, Local, Shape
<1>5. IsFiniteSet(stray'[c])
  BY <1>4 DEF Local, StrayOld
<1>6. PICK a \in Nat : a = at[c]
  BY <1>4 DEF IInv, Typed
<1>7. Times(c, a)' <= errors[c] + 1
  BY <1>3, <1>4, <1>6 DEF Local, Bounded
<1>8. Local(c)'
  BY <1>3, <1>5, <1>6, <1>7, FinishLocal
<1> QED BY <1>1, <1>2, <1>8

-----------------------------------------------------------------------------
(***************************************************************************)
(* The pool.                                                               *)
(***************************************************************************)

\* Busy and connecting callers can be counted.
LEMMA CountTypes ==
    /\ IsFiniteSet(Busy) /\ Cardinality(Busy) \in Nat
    /\ IsFiniteSet(Connecting) /\ Cardinality(Connecting) \in Nat
    /\ Cardinality(Callers) \in Nat
<1>1. Busy \subseteq Callers /\ Connecting \subseteq Callers
  BY DEF Busy, Connecting
<1>2. IsFiniteSet(Busy) /\ IsFiniteSet(Connecting)
  BY <1>1, FS_Subset, ConstantsAssumption
<1> QED BY <1>2, FS_CardinalityType, ConstantsAssumption

\* A connection from the pool goes to one caller.
LEMMA TakeFree ==
    ASSUME Typed, Typed', PoolDistinct, PoolCounts, NEW c \in Callers, conn[c] = 0,
           free # <<>>, free' = Tail(free), counter' = counter,
           conn' = [conn EXCEPT ![c] = Head(free)],
           Connecting' = Connecting
    PROVE  PoolDistinct' /\ PoolCounts'
<1>1. /\ Len(free) \in Nat \ {0} /\ Len(free') = Len(free) - 1 /\ Head(free) = free[1]
      /\ \A i \in 1..Len(free') : free'[i] = free[i + 1] /\ i + 1 \in 1..Len(free)
  <2>1. free \in Seq(Nat) /\ free # <<>>
    BY DEF Typed
  <2>2. /\ Head(free) = free[1] /\ Len(Tail(free)) = Len(free) - 1
        /\ \A i \in 1..Len(Tail(free)) : Tail(free)[i] = free[i + 1]
    BY <2>1, HeadTailProperties
  <2>3. Len(free) \in Nat \ {0}
    BY <2>1, EmptySeq
  <2> QED BY <2>2, <2>3
<1>2. conn'[c] = free[1] /\ \A d \in Callers \ {c} : conn'[d] = conn[d]
  BY <1>1 DEF Typed
<1>3. 1 \in 1..Len(free) /\ free[1] \in 1..counter
  BY <1>1 DEF PoolDistinct
<1>4. PoolDistinct'
  <2>1. \A i \in 1..Len(free') : free'[i] \in 1..counter' /\ free'[i] # free[1]
    BY <1>1, <1>3 DEF PoolDistinct
  <2>2. \A i, j \in 1..Len(free') : free'[i] = free'[j] => i = j
    BY <1>1 DEF PoolDistinct
  <2>3. \A d \in Callers : conn'[d] \in 0..counter'
    BY <1>2, <1>3 DEF PoolDistinct
  <2>4. \A d, e \in Callers : conn'[d] = conn'[e] /\ conn'[d] # 0 => d = e
    BY <1>2, <1>3 DEF PoolDistinct
  <2>5. \A d \in Callers, i \in 1..Len(free') : conn'[d] # free'[i]
    BY <1>1, <1>2, <2>1 DEF PoolDistinct
  <2>6. ASSUME NEW n \in 1..counter'
        PROVE  (\E i \in 1..Len(free') : free'[i] = n) \/ (\E d \in Callers : conn'[d] = n)
    <3>1. CASE \E i \in 1..Len(free) : free[i] = n
      <4>1. PICK i \in 1..Len(free) : free[i] = n
        BY <3>1
      <4>2. CASE i = 1
        BY <1>2, <4>1, <4>2
      <4>3. CASE i # 1
        <5>1. i - 1 \in 1..Len(free') /\ i = (i - 1) + 1
          BY <1>1, <4>3
        <5>2. free'[i - 1] = n
          BY <1>1, <4>1, <5>1
        <5> QED BY <5>1, <5>2
      <4> QED BY <4>2, <4>3
    <3>2. CASE \E d \in Callers : conn[d] = n
      <4>1. PICK d \in Callers : conn[d] = n
        BY <3>2
      <4>2. d # c
        BY <4>1
      <4> QED BY <1>2, <4>1, <4>2
    <3> QED BY <3>1, <3>2 DEF PoolDistinct
  <2> QED BY <2>1, <2>2, <2>3, <2>4, <2>5, <2>6 DEF PoolDistinct
<1>5. PoolCounts'
  <2>1. Busy' = Busy \cup {c} /\ c \notin Busy
    BY <1>2, <1>3 DEF Busy
  <2>2. Cardinality(Busy') = Cardinality(Busy) + 1
    BY <2>1, CountTypes, FS_AddElement
  <2> QED BY <1>1, <2>2, CountTypes DEF PoolCounts, Typed
<1> QED BY <1>4, <1>5

\* A new connection is a new number, held by the caller that made it.
LEMMA MakeNew ==
    ASSUME Typed, Typed', PoolDistinct, PoolCounts, NEW c \in Callers, conn[c] = 0,
           free' = free, counter' = counter + 1,
           conn' = [conn EXCEPT ![c] = counter + 1],
           c \in Connecting, Connecting' = Connecting \ {c}
    PROVE  PoolDistinct' /\ PoolCounts'
<1>1. counter \in Nat /\ Len(free) \in Nat
  BY DEF Typed
<1>2. conn'[c] = counter + 1 /\ \A d \in Callers \ {c} : conn'[d] = conn[d]
  BY DEF Typed
<1>3. PoolDistinct'
  <2>1. \A i \in 1..Len(free') : free'[i] \in 1..counter' /\ free'[i] # counter + 1
    BY <1>1 DEF PoolDistinct
  <2>2. \A i, j \in 1..Len(free') : free'[i] = free'[j] => i = j
    BY DEF PoolDistinct
  <2>3. \A d \in Callers : conn'[d] \in 0..counter' /\ (d # c => conn'[d] # counter + 1)
    BY <1>1, <1>2 DEF PoolDistinct
  <2>4. \A d, e \in Callers : conn'[d] = conn'[e] /\ conn'[d] # 0 => d = e
    BY <1>2, <2>3 DEF PoolDistinct
  <2>5. \A d \in Callers, i \in 1..Len(free') : conn'[d] # free'[i]
    BY <1>2, <2>1 DEF PoolDistinct
  <2>6. ASSUME NEW n \in 1..counter'
        PROVE  (\E i \in 1..Len(free') : free'[i] = n) \/ (\E d \in Callers : conn'[d] = n)
    <3>1. CASE n = counter + 1
      BY <1>2, <3>1
    <3>2. CASE n \in 1..counter
      <4>1. CASE \E d \in Callers : conn[d] = n
        <5>1. PICK d \in Callers : conn[d] = n
          BY <4>1
        <5>2. d # c
          BY <3>2, <5>1
        <5> QED BY <1>2, <5>1, <5>2
      <4> QED BY <3>2, <4>1 DEF PoolDistinct
    <3> QED BY <1>1, <3>1, <3>2
  <2> QED BY <2>1, <2>2, <2>3, <2>4, <2>5, <2>6 DEF PoolDistinct
<1>4. PoolCounts'
  <2>1. Busy' = Busy \cup {c} /\ c \notin Busy
    BY <1>1, <1>2 DEF Busy
  <2>2. Cardinality(Busy') = Cardinality(Busy) + 1
    BY <2>1, CountTypes, FS_AddElement
  <2>3. Cardinality(Connecting') = Cardinality(Connecting) - 1
    BY CountTypes, FS_RemoveElement
  <2> QED BY <1>1, <2>2, <2>3, CountTypes DEF PoolCounts
<1> QED BY <1>3, <1>4

\* The connection of a caller goes back to the pool.
LEMMA GiveBackOne ==
    ASSUME Typed, Typed', PoolDistinct, PoolCounts, NEW c \in Callers,
           free' = IF conn[c] = 0 THEN free ELSE Append(free, conn[c]),
           counter' = counter, conn' = [conn EXCEPT ![c] = 0],
           Connecting' = Connecting \ {c}
    PROVE  PoolDistinct' /\ PoolCounts'
<1>1. counter \in Nat /\ Len(free) \in Nat
  BY DEF Typed
<1>2. conn'[c] = 0 /\ \A d \in Callers \ {c} : conn'[d] = conn[d]
  BY DEF Typed
<1>3. Cardinality(Connecting') \in Nat /\ Cardinality(Connecting') <= Cardinality(Connecting)
  BY CountTypes, FS_Subset, FS_CardinalityType
<1>4. CASE conn[c] = 0
  <2>1. conn' = conn /\ free' = free
    BY <1>4 DEF Typed
  <2>2. PoolDistinct'
    BY <2>1 DEF PoolDistinct
  <2>3. Busy' = Busy
    BY <2>1 DEF Busy
  <2> QED BY <1>1, <1>3, <2>1, <2>2, <2>3, CountTypes DEF PoolCounts
<1>5. CASE conn[c] # 0
  <2>1. /\ Len(free') = Len(free) + 1 /\ free'[Len(free) + 1] = conn[c]
        /\ \A i \in 1..Len(free) : free'[i] = free[i] /\ i \in 1..Len(free')
        /\ \A i \in 1..Len(free') : i \in 1..Len(free) \/ i = Len(free) + 1
        /\ Len(free) + 1 \in 1..Len(free')
    <3>1. free \in Seq(Nat) /\ conn[c] \in Nat /\ free' = Append(free, conn[c])
      BY <1>5 DEF Typed
    <3>2. /\ Len(free') = Len(free) + 1 /\ free'[Len(free) + 1] = conn[c]
          /\ \A i \in 1..Len(free) : free'[i] = free[i]
      BY <3>1, AppendProperties
    <3> QED BY <1>1, <3>2
  <2>2. conn[c] \in 1..counter
    BY <1>5 DEF PoolDistinct
  <2>3. \A i \in 1..Len(free') : free'[i] \in 1..counter'
    BY <2>1, <2>2 DEF PoolDistinct
  <2>4. \A i, j \in 1..Len(free') : free'[i] = free'[j] => i = j
    BY <2>1 DEF PoolDistinct
  <2>5. \A d \in Callers : conn'[d] \in 0..counter'
    BY <1>1, <1>2 DEF PoolDistinct
  <2>6. \A d, e \in Callers : conn'[d] = conn'[e] /\ conn'[d] # 0 => d = e
    BY <1>2 DEF PoolDistinct
  <2>7. \A d \in Callers, i \in 1..Len(free') : conn'[d] # free'[i]
    <3> SUFFICES ASSUME NEW d \in Callers, NEW i \in 1..Len(free')
                 PROVE  conn'[d] # free'[i]
      OBVIOUS
    <3>1. CASE d = c
      BY <1>2, <2>3, <3>1
    <3>2. CASE d # c /\ i \in 1..Len(free)
      BY <1>2, <2>1, <3>2 DEF PoolDistinct
    <3>3. CASE d # c /\ i = Len(free) + 1
      BY <1>2, <1>5, <2>1, <3>3 DEF PoolDistinct
    <3> QED BY <2>1, <3>1, <3>2, <3>3
  <2>8. ASSUME NEW n \in 1..counter'
        PROVE  (\E i \in 1..Len(free') : free'[i] = n) \/ (\E d \in Callers : conn'[d] = n)
    <3>1. CASE \E i \in 1..Len(free) : free[i] = n
      BY <2>1, <3>1
    <3>2. CASE n = conn[c]
      BY <2>1, <3>2
    <3>3. CASE \E d \in Callers \ {c} : conn[d] = n
      BY <1>2, <3>3
    <3> QED BY <3>1, <3>2, <3>3 DEF PoolDistinct
  <2>9. PoolDistinct'
    BY <2>3, <2>4, <2>5, <2>6, <2>7, <2>8 DEF PoolDistinct
  <2>10. Busy' = Busy \ {c} /\ c \in Busy
    BY <1>2, <1>5 DEF Busy
  <2>11. Cardinality(Busy') = Cardinality(Busy) - 1
    BY <2>10, CountTypes, FS_RemoveElement
  <2> QED BY <1>1, <1>3, <2>1, <2>9, <2>11, CountTypes DEF PoolCounts
<1> QED BY <1>4, <1>5

\* A caller that finds the pool empty is the only new one to connect: all
\* connections are held by others.
LEMMA BeginConnect ==
    ASSUME Typed, PoolDistinct, PoolCounts, NEW c \in Callers,
           \A d \in Callers : conn[d] # 0 => pc[d] = "wait",
           pc[c] \notin {"connect", "wait"},
           free = <<>>, UNCHANGED <<free, counter, conn>>,
           Connecting' = Connecting \cup {c}
    PROVE  PoolDistinct' /\ PoolCounts'
<1>1. PoolDistinct'
  BY DEF PoolDistinct
<1>2. Busy' = Busy
  BY DEF Busy
<1>3. c \notin Connecting /\ c \notin Busy /\ Busy \cap Connecting = {}
  BY DEF Connecting, Busy
<1>4. Cardinality(Connecting') = Cardinality(Connecting) + 1
  BY <1>3, CountTypes, FS_AddElement
<1>5. IsFiniteSet(Connecting \cup {c})
  BY CountTypes, FS_AddElement
<1>6. /\ IsFiniteSet(Busy \cup (Connecting \cup {c}))
      /\ Cardinality(Busy \cup (Connecting \cup {c}))
            = Cardinality(Busy) + Cardinality(Connecting \cup {c})
  <2>1. Busy \cap (Connecting \cup {c}) = {}
    BY <1>3
  <2>2. Cardinality(Busy \cap (Connecting \cup {c})) = 0
    BY <2>1, FS_EmptySet
  <2>3. Cardinality(Connecting \cup {c}) \in Nat
    BY <1>5, FS_CardinalityType
  <2>4. /\ IsFiniteSet(Busy \cup (Connecting \cup {c}))
        /\ Cardinality(Busy \cup (Connecting \cup {c}))
              = Cardinality(Busy) + Cardinality(Connecting \cup {c})
                  - Cardinality(Busy \cap (Connecting \cup {c}))
    BY <1>5, CountTypes, FS_Union
  <2> HIDE DEF Busy, Connecting
  <2> QED BY <2>2, <2>3, <2>4, CountTypes
<1>7. Busy \cup (Connecting \cup {c}) \subseteq Callers
  BY DEF Busy, Connecting
<1>8. Cardinality(Busy) + Cardinality(Connecting \cup {c}) <= Cardinality(Callers)
  BY <1>6, <1>7, FS_Subset, ConstantsAssumption
<1>9. Len(free) = 0
  OBVIOUS
<1> QED BY <1>1, <1>2, <1>4, <1>8, <1>9, CountTypes DEF PoolCounts, Typed

\* A step that leaves the pool alone.
LEMMA PoolQuiet ==
    ASSUME PoolDistinct, PoolCounts, UNCHANGED <<free, counter, conn>>,
           Connecting' = Connecting
    PROVE  PoolDistinct' /\ PoolCounts'
<1>1. Busy' = Busy
  BY DEF Busy
<1>2. PoolDistinct'
  BY DEF PoolDistinct
<1> QED BY <1>1, <1>2 DEF PoolCounts

\* The end of a request keeps the pool exact.
LEMMA FinishPool ==
    ASSUME IInv, NEW c \in Callers, NEW r \in Answers, Finish(c, r), Typed'
    PROVE  PoolDistinct' /\ PoolCounts'
<1>1. GoesOn(c, r) /\ \A d \in Callers \ {c} : pc'[d] = pc[d]
  BY FinishStep DEF IInv
<1>2. Connecting' = Connecting \ {c}
  <2>1. pc'[c] # "connect"
    BY <1>1 DEF GoesOn
  <2> QED BY <1>1, <2>1 DEF Connecting
<1>3. /\ conn' = [conn EXCEPT ![c] = 0] /\ counter' = counter
      /\ free' = IF conn[c] = 0 THEN free ELSE Append(free, conn[c])
  BY DEF Finish, GiveBack
<1> QED BY <1>2, <1>3, GiveBackOne DEF IInv

\* A step of one caller keeps the invariant if it keeps the caller's own state,
\* the types and the pool in order.
LEMMA Assemble ==
    ASSUME IInv, NEW c \in Callers, Typed', Alone(c), Local(c)', PoolDistinct', PoolCounts'
    PROVE  IInv'
<1>1. ASSUME NEW d \in Callers PROVE Local(d)'
  <2>1. CASE d # c
    BY <2>1, SameKeeps DEF IInv, Alone
  <2>2. CASE d = c
    <3>1. Local(c)'
      OBVIOUS
    <3> QED BY <2>2, <3>1
  <2> QED BY <2>1, <2>2
<1> QED BY <1>1 DEF IInv

-----------------------------------------------------------------------------
(***************************************************************************)
(* The inductive step, one lemma per action.                               *)
(***************************************************************************)

\* A caller starts with a plan and nothing done of it.
LEMMA StartKeeps ==
    ASSUME IInv, NEW c \in Callers, Start(c)
    PROVE  IInv' /\ Alone(c)
<1>1. Typed /\ Local(c) /\ pc[c] = "idle"
  BY DEF IInv, Start
<1>2. PICK p \in Plans[c] : plan' = [plan EXCEPT ![c] = p]
  BY DEF Start
<1>3. p \in Seq(Requests) /\ Len(p) \in Nat \ {0}
  BY <1>2, ConstantsAssumption, EmptySeq
<1>4. /\ plan'[c] = p /\ pc'[c] = "call"
      /\ runs'[c] = [i \in 1..Len(p) |-> 0]
      /\ at'[c] = 1 /\ errors'[c] = 0 /\ stray'[c] = {}
      /\ conn'[c] = 0 /\ wire'[c] = Nothing /\ given'[c] = Service!NotYet
  <2>1. plan'[c] = p /\ pc'[c] = "call"
    BY <1>1, <1>2 DEF Typed, Start
  <2>2. runs'[c] = [i \in 1..Len(p) |-> 0]
    BY <1>1, <2>1 DEF Typed, Start
  <2>3. at[c] = 1 /\ errors[c] = 0 /\ stray[c] = {}
    BY <1>1 DEF Local, Shape
  <2>4. conn[c] = 0 /\ wire[c] = Nothing /\ given[c] = Service!NotYet
    BY <1>1 DEF Local, Exchange
  <2> QED BY <2>1, <2>2, <2>3, <2>4 DEF Start
<1>5. runs'[c] \in Seq(Nat) /\ Len(runs'[c]) = Len(p)
  BY <1>3, <1>4
<1>6. Typed'
  <2>1. plan' \in [Callers -> Seq(Requests)]
    BY <1>1, <1>2, <1>3 DEF Typed
  <2>2. runs' = [runs EXCEPT ![c] = runs'[c]]
    BY <1>1 DEF Typed, Start
  <2>3. runs' \in [Callers -> Seq(Nat)]
    BY <1>1, <1>5, <2>2 DEF Typed
  <2>4. pc' \in [Callers -> {"idle", "call", "connect", "wait", "done"}]
    BY <1>1 DEF Typed, Start
  <2>5. UNCHANGED <<free, counter, at, errors, tries, last, conn, wire, given, stray, breaks>>
    BY DEF Start, pool
  <2> QED BY <1>1, <2>1, <2>3, <2>4, <2>5 DEF Typed
<1>7. Alone(c)
  BY <1>1, <1>2 DEF Alone, Same, Typed, Start
<1>8. Local(c)'
  <2>1. Shape(c)'
    BY <1>2, <1>3, <1>4, <1>5 DEF Shape
  <2>2. Exchange(c)'
    BY <1>4 DEF Exchange
  <2>3. OkSoFar(c)'
    BY <1>4 DEF OkSoFar
  <2>4. Bounded(c)'
    <3>1. ASSUME NEW i \in 1..Len(p) PROVE Times(c, i)' = 0
      <4>1. {id \in stray'[c] : id[2] = i} = {}
        BY <1>4
      <4>2. runs'[c][i] = 0
        BY <1>4
      <4>3. Cardinality({id \in stray'[c] : id[2] = i}) = 0
        BY <4>1, FS_EmptySet
      <4> QED BY <4>2, <4>3 DEF Times
    <3> QED BY <1>4, <3>1 DEF Bounded
  <2>5. StrayOld(c)'
    BY <1>4, FS_EmptySet DEF StrayOld
  <2> QED BY <2>1, <2>2, <2>3, <2>4, <2>5 DEF Local
<1>9. PoolDistinct' /\ PoolCounts'
  <2>1. Connecting' = Connecting
    BY <1>1 DEF Typed, Start, Connecting
  <2> QED BY <2>1, PoolQuiet DEF IInv, Start, pool
<1> QED BY <1>6, <1>7, <1>8, <1>9, Assemble

\* An empty list is answered without a request: there is nothing to do.
LEMMA AnswerEmptyKeeps ==
    ASSUME IInv, NEW c \in Callers, AnswerEmpty(c)
    PROVE  IInv' /\ Alone(c)
<1>1. pc[c] = "call" /\ Finish(c, "Ok") /\ UNCHANGED <<stray, runs, breaks>>
  BY DEF AnswerEmpty
<1>2. Executed(c, at[c])
  BY DEF AnswerEmpty, Request, Executed
<1>3. "Ok" \in Answers
  BY DEF Answers
<1>4. Typed' /\ Alone(c) /\ Local(c)'
  BY <1>1, <1>2, <1>3, FinishQuiet
<1>5. PoolDistinct' /\ PoolCounts'
  BY <1>1, <1>3, <1>4, FinishPool
<1> QED BY <1>4, <1>5, Assemble

\* A caller that goes on with its present request keeps what it has done.
LEMMA LocalStays ==
    ASSUME IInv, NEW c \in Callers, pc[c] \in {"call", "connect"},
           pc'[c] \in {"connect", "wait"},
           plan'[c] = plan[c], at'[c] = at[c], errors'[c] = errors[c],
           given'[c] = given[c], stray'[c] = stray[c], runs'[c] = runs[c],
           ~(Request(c).empty /\ Client[Request(c).method].early),
           Exchange(c)'
    PROVE  Local(c)'
<1>1. Local(c)
  BY DEF IInv
<1>2. Shape(c)'
  BY <1>1 DEF Local, Shape, Request
<1>3. OkSoFar(c)'
  BY <1>1 DEF Local, OkSoFar, Executed
<1>4. Bounded(c)'
  BY <1>1 DEF Local, Bounded, Times, Waiting
<1>5. StrayOld(c)'
  BY <1>1 DEF Local, StrayOld
<1> QED BY <1>2, <1>3, <1>4, <1>5 DEF Local

\* A caller takes a connection, or begins to connect.
LEMMA LockKeeps ==
    ASSUME IInv, NEW c \in Callers, Lock(c)
    PROVE  IInv' /\ Alone(c)
<1>1. Typed /\ Local(c) /\ pc[c] = "call"
  BY DEF IInv, Lock
<1>2. conn[c] = 0 /\ wire[c] = Nothing /\ given[c] = Service!NotYet
  BY <1>1 DEF Local, Exchange
<1>3. /\ UNCHANGED <<counter, plan, at, errors, tries, last, given, stray, runs, breaks>>
      /\ ~(Request(c).empty /\ Client[Request(c).method].early)
  BY DEF Lock, server
<1>4. CASE free # <<>> /\ free' = Tail(free) /\ Send(c, Head(free))
  <2>1. /\ conn' = [conn EXCEPT ![c] = Head(free)]
        /\ wire' = [wire EXCEPT ![c] = RequestMessage]
        /\ pc' = [pc EXCEPT ![c] = "wait"]
    BY <1>4 DEF Send, RequestMessage
  <2>2. Head(free) \in Nat /\ Tail(free) \in Seq(Nat) /\ Head(free) = free[1]
    BY <1>1, <1>4, HeadTailProperties DEF Typed
  <2>3. Head(free) # 0
    <3>1. 1 \in 1..Len(free)
      BY <1>1, <1>4, EmptySeq DEF Typed
    <3> QED BY <2>2, <3>1 DEF IInv, PoolDistinct
  <2>4. Typed'
    <3>1. conn' \in [Callers -> Nat] /\ free' \in Seq(Nat)
      BY <1>1, <1>4, <2>1, <2>2 DEF Typed
    <3>2. wire' \in [Callers -> Messages]
      BY <1>1, <2>1 DEF Typed, Messages
    <3>3. pc' \in [Callers -> {"idle", "call", "connect", "wait", "done"}]
      BY <1>1, <2>1 DEF Typed
    <3> QED BY <1>1, <1>3, <3>1, <3>2, <3>3 DEF Typed
  <2>5. Alone(c)
    BY <1>1, <1>3, <2>1 DEF Alone, Same, Typed
  <2>6. pc'[c] = "wait" /\ wire'[c] = RequestMessage /\ conn'[c] # 0
    BY <1>1, <2>1, <2>3 DEF Typed
  <2>7. Exchange(c)'
    BY <1>2, <1>3, <2>6 DEF Exchange
  <2>8. Local(c)'
    BY <1>1, <1>3, <2>6, <2>7, LocalStays
  <2>9. Connecting' = Connecting
    BY <1>1, <2>1 DEF Typed, Connecting
  <2>10. PoolDistinct' /\ PoolCounts'
    BY <1>2, <1>3, <1>4, <2>1, <2>4, <2>9, TakeFree DEF IInv
  <2> QED BY <2>4, <2>5, <2>8, <2>10, Assemble
<1>5. CASE free = <<>> /\ pc' = [pc EXCEPT ![c] = "connect"] /\ UNCHANGED <<free, conn, wire>>
  <2>1. Typed'
    BY <1>1, <1>3, <1>5 DEF Typed
  <2>2. Alone(c)
    BY <1>1, <1>3, <1>5 DEF Alone, Same, Typed
  <2>3. pc'[c] = "connect"
    BY <1>1, <1>5 DEF Typed
  <2>4. Exchange(c)'
    BY <1>2, <1>3, <1>5, <2>3 DEF Exchange
  <2>5. Local(c)'
    BY <1>1, <1>3, <2>3, <2>4, LocalStays
  <2>6. Connecting' = Connecting \cup {c}
    BY <1>1, <1>5 DEF Typed, Connecting
  <2>7. \A d \in Callers : conn[d] # 0 => pc[d] = "wait"
    BY DEF IInv, Local, Exchange
  <2>8. pc[c] \notin {"connect", "wait"} /\ UNCHANGED <<free, counter, conn>>
    BY <1>1, <1>3, <1>5
  <2>9. PoolDistinct' /\ PoolCounts'
    BY <1>5, <2>6, <2>7, <2>8, BeginConnect DEF IInv
  <2> QED BY <2>1, <2>2, <2>5, <2>9, Assemble
<1> QED BY <1>4, <1>5 DEF Lock

\* A new connection carries the request.
LEMMA ConnectKeeps ==
    ASSUME IInv, NEW c \in Callers, Connect(c)
    PROVE  IInv' /\ Alone(c)
<1>1. Typed /\ Local(c) /\ pc[c] = "connect"
  BY DEF IInv, Connect
<1>2. conn[c] = 0 /\ given[c] = Service!NotYet
  BY <1>1 DEF Local, Exchange
<1>3. /\ UNCHANGED <<free, plan, at, errors, tries, last, given, stray, runs, breaks>>
      /\ counter' = counter + 1
      /\ conn' = [conn EXCEPT ![c] = counter + 1]
      /\ wire' = [wire EXCEPT ![c] = RequestMessage]
      /\ pc' = [pc EXCEPT ![c] = "wait"]
  BY DEF Connect, Send, server, RequestMessage
<1>4. Typed'
  <2>1. conn' \in [Callers -> Nat] /\ counter' \in Nat
    BY <1>1, <1>3 DEF Typed
  <2>2. wire' \in [Callers -> Messages]
    BY <1>1, <1>3 DEF Typed, Messages
  <2>3. pc' \in [Callers -> {"idle", "call", "connect", "wait", "done"}]
    BY <1>1, <1>3 DEF Typed
  <2> QED BY <1>1, <1>3, <2>1, <2>2, <2>3 DEF Typed
<1>5. Alone(c)
  BY <1>1, <1>3 DEF Alone, Same, Typed
<1>6. pc'[c] = "wait" /\ wire'[c] = RequestMessage /\ conn'[c] # 0
  BY <1>1, <1>3 DEF Typed
<1>7. Exchange(c)'
  BY <1>2, <1>3, <1>6 DEF Exchange
<1>8. Local(c)'
  <2>1. ~(Request(c).empty /\ Client[Request(c).method].early)
    BY <1>1 DEF Local, Shape
  <2> QED BY <1>1, <1>3, <1>6, <1>7, <2>1, LocalStays
<1>9. c \in Connecting /\ Connecting' = Connecting \ {c}
  BY <1>1, <1>3 DEF Typed, Connecting
<1>10. PoolDistinct' /\ PoolCounts'
  BY <1>2, <1>3, <1>4, <1>9, MakeNew DEF IInv
<1> QED BY <1>4, <1>5, <1>8, <1>10, Assemble

\* A failed connect is tried again, or ends the request as lost.
LEMMA ConnectFailsKeeps ==
    ASSUME IInv, NEW c \in Callers, ConnectFails(c)
    PROVE  IInv' /\ Alone(c)
<1>1. Typed /\ Local(c) /\ pc[c] = "connect" /\ UNCHANGED <<stray, runs, breaks>>
  BY DEF IInv, ConnectFails
<1>2. CASE /\ tries[c] < MaxTries /\ tries' = [tries EXCEPT ![c] = @ + 1]
           /\ UNCHANGED <<pool, pc, plan, at, errors, last, conn, wire, given>>
  <2>1. tries' \in [Callers -> 0..MaxTries]
    BY <1>1, <1>2, ConstantsAssumption DEF Typed
  <2>2. UNCHANGED <<free, counter>>
    BY <1>2 DEF pool
  <2>3. Typed'
    BY <1>1, <1>2, <2>1, <2>2 DEF Typed
  <2>4. Alone(c) /\ Same(c)
    BY <1>1, <1>2 DEF Alone, Same
  <2>5. Local(c)'
    BY <1>1, <2>4, SameKeeps
  <2>6. PoolDistinct' /\ PoolCounts'
    BY <1>2, <2>2, PoolQuiet DEF IInv, Connecting
  <2> QED BY <2>3, <2>4, <2>5, <2>6, Assemble
<1>3. CASE Finish(c, Service!FsErrorOf("RawTonicTransportError"))
  <2>1. Finish(c, "UnknownError") /\ "UnknownError" \in Answers
    BY <1>3, LostAnswers DEF Answers
  <2>2. Typed' /\ Alone(c) /\ Local(c)'
    BY <1>1, <2>1, FinishQuiet
  <2>3. PoolDistinct' /\ PoolCounts'
    BY <2>1, <2>2, FinishPool
  <2> QED BY <2>2, <2>3, Assemble
<1> QED BY <1>2, <1>3 DEF ConnectFails

\* What has come back to a caller: the result of the store, or for a failed
\* listing an empty one.
LEMMA ReceiveAnswer ==
    ASSUME Typed, NEW c \in Callers, Local(c), wire[c].kind \in {"response", "status"}
    PROVE  /\ pc[c] = "wait" /\ given[c] \in Service!Outcomes
           /\ \/ Decode(Request(c).method, wire[c]) = given[c]
              \/ /\ Request(c).method = "directory_read_children"
                 /\ Decode(Request(c).method, wire[c]) = "Ok"
           /\ Service!FsResult(Decode(Request(c).method, wire[c])) \in Answers
<1>1. pc[c] = "wait"
  BY DEF Local, Exchange, Nothing
<1>2. given[c] \in Service!Outcomes /\ wire[c] = Response(Request(c).method, given[c])
  BY <1>1 DEF Local, Exchange, RequestMessage
<1>3. Request(c).method \in Methods
  BY <1>1, PresentRequest DEF Local
<1>4. \/ Decode(Request(c).method, wire[c]) = given[c]
      \/ /\ Request(c).method = "directory_read_children"
         /\ Decode(Request(c).method, wire[c]) = "Ok"
  BY <1>2, <1>3, DecodeResponse
<1>5. Decode(Request(c).method, wire[c]) \in Service!Outcomes
  BY <1>2, <1>4 DEF Service!Outcomes
<1> QED BY <1>1, <1>2, <1>4, <1>5, ResultsAnswer

\* The answer to a request that has run ends it.
LEMMA ReceiveKeeps ==
    ASSUME IInv, NEW c \in Callers, Receive(c)
    PROVE  IInv' /\ Alone(c)
<1> DEFINE r == Service!FsResult(Decode(Request(c).method, wire[c]))
<1>1. Typed /\ Local(c) /\ wire[c].kind \in {"response", "status"}
  BY DEF IInv, Receive
<1>2. pc[c] = "wait" /\ given[c] \in Service!Outcomes /\ r \in Answers
  BY <1>1, ReceiveAnswer
<1>3. Finish(c, r) /\ UNCHANGED <<stray, runs, breaks>>
  BY DEF Receive
<1>4. Executed(c, at[c])
  <2>1. given[c] # Service!NotYet
    BY <1>2 DEF Service!NotYet, Service!Outcomes, Service!StoreErrors, Service!HashFsErrors
  <2> QED BY <1>1, <2>1 DEF Local, OkSoFar, Executed
<1> HIDE DEF r
<1>5. Typed' /\ Alone(c) /\ Local(c)'
  BY <1>2, <1>3, <1>4, FinishQuiet
<1>6. PoolDistinct' /\ PoolCounts'
  BY <1>2, <1>3, <1>5, FinishPool
<1> QED BY <1>5, <1>6, Assemble

\* The server refuses nothing that a caller sends.
LEMMA NeverRefused ==
    ASSUME Typed, NEW c \in Callers, Shape(c), pc[c] = "wait"
    PROVE  ~Refuses(c)
<1> DEFINE m == Request(c).method
<1>1. m \in Methods /\ at[c] \in 1..Len(plan[c])
  BY PresentRequest
<1>2. Agrees(m, Client[m], Server[m])
  BY <1>1, MethodsAgree
<1>3. ~(Request(c).empty /\ Client[m].early)
  BY DEF Shape
<1>4. m = "inode_read_block_hashes_block_range" => ~Request(c).empty
  BY <1>1, RangesAssumption DEF Shape, Request
<1> HIDE DEF m
<1> QED BY <1>2, <1>3, <1>4 DEF Refuses, Agrees, m

\* The server runs the present request once more and answers it.
LEMMA ServeKeeps ==
    ASSUME IInv, NEW c \in Callers, Serve(c)
    PROVE  IInv' /\ Alone(c)
<1>1. Typed /\ Local(c) /\ wire[c].kind = "request"
  BY DEF IInv, Serve
<1>2. pc[c] = "wait"
  BY <1>1 DEF Local, Exchange, Nothing
<1>3. given[c] = Service!NotYet /\ conn[c] # 0
  BY <1>1, <1>2 DEF Local, Exchange, Response
<1>4. ~Refuses(c)
  BY <1>1, <1>2, NeverRefused DEF Local
<1>5. at[c] \in 1..Len(plan[c]) /\ Request(c).method \in Methods
  BY <1>1, <1>2, PresentRequest DEF Local
<1>6. PICK o \in Gives[Request(c).method] :
          /\ wire' = [wire EXCEPT ![c] = Response(Request(c).method, o)]
          /\ given' = [given EXCEPT ![c] = o]
          /\ runs' = [runs EXCEPT ![c][at[c]] = @ + 1]
  BY <1>4 DEF Serve
<1>7. o \in Service!Outcomes
  BY <1>5, <1>6, ConstantsAssumption
<1>8. UNCHANGED <<free, counter, pc, plan, at, errors, tries, last, conn, stray, breaks>>
  BY DEF Serve, pool, caller
<1>9. /\ wire'[c] = Response(Request(c).method, o) /\ given'[c] = o
      /\ runs'[c] = [runs[c] EXCEPT ![at[c]] = @ + 1]
  BY <1>1, <1>6 DEF Typed
<1>10. Len(runs[c]) = Len(plan[c]) /\ runs[c] \in Seq(Nat) /\ runs[c][at[c]] \in Nat
  BY <1>1, <1>5, LocalTypes DEF Local, Shape, Typed
<1>11. /\ runs'[c] \in Seq(Nat) /\ Len(runs'[c]) = Len(plan[c])
       /\ \A i \in 1..Len(plan[c]) :
              runs'[c][i] = IF i = at[c] THEN runs[c][i] + 1 ELSE runs[c][i]
  BY <1>5, <1>9, <1>10
<1>12. Typed'
  <2>1. wire' \in [Callers -> Messages]
    BY <1>1, <1>5, <1>6, <1>7 DEF Typed, Messages
  <2>2. given' \in [Callers -> Service!Outcomes \cup {Service!NotYet}]
    BY <1>1, <1>6, <1>7 DEF Typed
  <2>3. runs' = [runs EXCEPT ![c] = runs'[c]]
    BY <1>1, <1>6, <1>9 DEF Typed
  <2>4. runs' \in [Callers -> Seq(Nat)]
    BY <1>1, <1>11, <2>3 DEF Typed
  <2> QED BY <1>1, <1>8, <2>1, <2>2, <2>4 DEF Typed
<1>13. Alone(c)
  BY <1>1, <1>6, <1>8 DEF Alone, Same, Typed
<1>14. o # Service!NotYet
  BY <1>7 DEF Service!NotYet, Service!Outcomes, Service!StoreErrors, Service!HashFsErrors
<1>15. Local(c)'
  <2>1. Shape(c)'
    BY <1>1, <1>8, <1>11 DEF Local, Shape, Request
  <2>2. Exchange(c)'
    BY <1>2, <1>3, <1>7, <1>8, <1>9 DEF Exchange, Request
  <2>3. OkSoFar(c)'
    <3>1. \A i \in 1..Len(plan[c]) : Executed(c, i) => Executed(c, i)'
      <4> SUFFICES ASSUME NEW i \in 1..Len(plan[c]), Executed(c, i) PROVE Executed(c, i)'
        OBVIOUS
      <4>1. runs[c][i] \in Nat
        BY <1>1, LocalTypes
      <4> QED BY <1>8, <1>11, <4>1 DEF Executed
    <3>2. runs'[c][at[c]] > 0
      BY <1>5, <1>10, <1>11
    <3>3. \A i \in 1..Len(plan[c]) : i < at[c] => Executed(c, i)'
      BY <1>1, <3>1 DEF Local, OkSoFar
    <3> QED BY <1>2, <1>8, <3>2, <3>3 DEF OkSoFar
  <2>4. Bounded(c)'
    <3> SUFFICES ASSUME NEW i \in 1..Len(plan[c])
                 PROVE  /\ Times(c, i)' <= errors[c] + 1
                        /\ i > at[c] \/ (i = at[c] /\ Waiting(c)') => Times(c, i)' <= errors[c]
      BY <1>8 DEF Bounded
    <3>1. Times(c, i) \in Nat /\ at[c] \in Nat /\ errors[c] \in Nat
      BY <1>1, LocalTypes
    <3>2. ~Waiting(c)'
      BY <1>9, <1>14 DEF Waiting
    <3>3. Waiting(c)
      BY <1>2, <1>3 DEF Waiting
    <3>4. Times(c, i)' = IF i = at[c] THEN Times(c, i) + 1 ELSE Times(c, i)
      <4>1. IsFiniteSet({id \in stray[c] : id[2] = i})
        BY <1>1, FS_Subset DEF Local, StrayOld
      <4>2. Cardinality({id \in stray[c] : id[2] = i}) \in Nat /\ runs[c][i] \in Nat
        BY <1>1, <4>1, FS_CardinalityType, LocalTypes
      <4> DEFINE n == Cardinality({id \in stray[c] : id[2] = i})
      <4>3. Times(c, i)' = runs'[c][i] + n /\ Times(c, i) = runs[c][i] + n
        BY <1>8 DEF Times
      <4>4. runs'[c][i] = IF i = at[c] THEN runs[c][i] + 1 ELSE runs[c][i]
        BY <1>11
      <4> HIDE DEF n
      <4>5. n \in Nat /\ runs[c][i] \in Nat
        BY <4>2 DEF n
      <4> QED BY <4>3, <4>4, <4>5
    <3>5. /\ Times(c, i) <= errors[c] + 1
          /\ i > at[c] \/ i = at[c] => Times(c, i) <= errors[c]
      BY <1>1, <3>3 DEF Local, Bounded
    <3> QED BY <3>1, <3>2, <3>4, <3>5
  <2>5. StrayOld(c)'
    BY <1>1, <1>8 DEF Local, StrayOld
  <2> QED BY <2>1, <2>2, <2>3, <2>4, <2>5 DEF Local
<1>16. PoolDistinct' /\ PoolCounts'
  BY <1>8, PoolQuiet DEF IInv, Connecting
<1> QED BY <1>12, <1>13, <1>15, <1>16, Assemble

\* The connection breaks: the request is given up, and may run later.
LEMMA BreakKeeps ==
    ASSUME IInv, NEW c \in Callers, Break(c)
    PROVE  IInv' /\ Alone(c)
<1>1. Typed /\ Local(c) /\ pc[c] = "wait" /\ runs' = runs
  BY DEF IInv, Break
<1>2. Finish(c, "UnknownError") /\ "UnknownError" \in Answers
  BY LostAnswers DEF Break, Answers
<1>3. breaks' \in 0..MaxBreaks
  BY <1>1, ConstantsAssumption DEF Break, Typed
<1>4. at[c] \in 1..Len(plan[c]) /\ errors[c] \in Nat /\ at[c] \in Nat
  BY <1>1, PresentRequest, LocalTypes DEF Local
<1>5. PICK a \in Nat : a = at[c]
  BY <1>4
<1>6. IsFiniteSet(stray[c])
  BY <1>1 DEF Local, StrayOld
<1>7. runs[c][a] \in Nat /\ Times(c, a) <= errors[c] + 1 /\ Times(c, a) \in Nat
  BY <1>1, <1>4, <1>5, LocalTypes DEF Local, Bounded
<1>8. CASE stray' = stray
  <2>1. \A i : Times(c, i)' = Times(c, i)
    BY <1>1, <1>8 DEF Times
  <2>2. Times(c, a)' <= errors[c] + 1
    BY <1>7, <2>1
  <2>3. Typed'
    BY <1>1, <1>2, <1>3, <1>8, FinishTypes DEF Typed
  <2>4. Alone(c)
    BY <1>1, <1>2, <1>8, FinishStep DEF Alone, Same
  <2>5. Local(c)'
    BY <1>1, <1>2, <1>5, <1>6, <1>8, <2>1, <2>2, FinishLocal
  <2>6. PoolDistinct' /\ PoolCounts'
    BY <1>2, <2>3, FinishPool
  <2> QED BY <2>3, <2>4, <2>5, <2>6, Assemble
<1>9. CASE /\ wire[c].kind = "request"
           /\ stray' = [stray EXCEPT ![c] = @ \cup {<<errors[c], at[c]>>}]
  <2>1. stray'[c] = stray[c] \cup {<<errors[c], at[c]>>}
    BY <1>1, <1>9 DEF Typed
  <2>2. IsFiniteSet(stray'[c])
    BY <1>6, <2>1, FS_AddElement
  <2>3. stray' \in [Callers -> SUBSET (Nat \X Nat)]
    <3>1. <<errors[c], at[c]>> \in Nat \X Nat
      BY <1>4
    <3> QED BY <1>1, <1>9, <3>1 DEF Typed
  <2>4. Waiting(c)
    BY <1>1, <1>9 DEF Waiting, Local, Exchange, Response
  <2>5. Times(c, a) <= errors[c]
    BY <1>1, <1>4, <1>5, <2>4 DEF Local, Bounded
  <2>6. Times(c, a)' <= errors[c] + 1
    <3> DEFINE S == {id \in stray[c] : id[2] = a}
    <3>1. {id \in stray'[c] : id[2] = a} = S \cup {<<errors[c], at[c]>>}
      BY <1>5, <2>1
    <3>2. IsFiniteSet(S)
      BY <1>6, FS_Subset
    <3>3. Cardinality(S) \in Nat
      BY <3>2, FS_CardinalityType
    <3>4. Cardinality(S \cup {<<errors[c], at[c]>>}) \in {Cardinality(S), Cardinality(S) + 1}
      BY <3>2, FS_AddElement
    <3>5. Times(c, a)' = runs[c][a] + Cardinality(S \cup {<<errors[c], at[c]>>})
      BY <1>1, <3>1 DEF Times
    <3>6. Times(c, a) = runs[c][a] + Cardinality(S)
      BY DEF Times
    <3> HIDE DEF S
    <3> QED BY <1>4, <1>7, <2>5, <3>3, <3>4, <3>5, <3>6
  <2>7. ASSUME NEW i \in 1..Len(plan[c]), i # a PROVE Times(c, i)' = Times(c, i)
    <3>1. {id \in stray'[c] : id[2] = i} = {id \in stray[c] : id[2] = i}
      BY <1>5, <2>1, <2>7
    <3> QED BY <1>1, <3>1 DEF Times
  <2>8. Typed'
    BY <1>1, <1>2, <1>3, <2>3, FinishTypes DEF Typed
  <2>9. Alone(c)
    <3>1. \A d \in Callers \ {c} : stray'[d] = stray[d] /\ runs'[d] = runs[d]
      BY <1>1, <1>9 DEF Typed
    <3> QED BY <1>1, <1>2, <3>1, FinishStep DEF Alone, Same
  <2>10. Local(c)'
    BY <1>1, <1>2, <1>5, <2>1, <2>2, <2>6, <2>7, FinishLocal
  <2>11. PoolDistinct' /\ PoolCounts'
    BY <1>2, <2>8, FinishPool
  <2> QED BY <2>8, <2>9, <2>10, <2>11, Assemble
<1> QED BY <1>8, <1>9 DEF Break

\* A stray request runs after all.
LEMMA RunLateKeeps ==
    ASSUME IInv, NEW c \in Callers, RunLate(c)
    PROVE  IInv' /\ Alone(c)
<1>1. Typed /\ Local(c)
  BY DEF IInv
<1>2. PICK id \in stray[c] :
          /\ stray' = [stray EXCEPT ![c] = @ \ {id}]
          /\ runs' = [runs EXCEPT ![c][id[2]] = @ + 1]
  BY DEF RunLate
<1>3. UNCHANGED <<free, counter, pc, plan, at, errors, tries, last, conn, wire, given, breaks>>
  BY DEF RunLate, pool, caller
<1>4. id[2] \in 1..Len(plan[c]) /\ IsFiniteSet(stray[c]) /\ pc[c] # "idle"
  BY <1>1, <1>2 DEF Local, StrayOld, Shape
<1>5. PICK a \in 1..Len(plan[c]) : a = id[2]
  BY <1>4
<1>6. stray'[c] = stray[c] \ {id} /\ runs'[c] = [runs[c] EXCEPT ![a] = @ + 1]
  BY <1>1, <1>2, <1>5 DEF Typed
<1>7. Len(runs[c]) = Len(plan[c]) /\ runs[c] \in Seq(Nat) /\ runs[c][a] \in Nat
  BY <1>1, <1>5, LocalTypes DEF Local, Shape, Typed
<1>8. /\ runs'[c] \in Seq(Nat) /\ Len(runs'[c]) = Len(plan[c])
      /\ \A i \in 1..Len(plan[c]) : runs'[c][i] = IF i = a THEN runs[c][i] + 1 ELSE runs[c][i]
  BY <1>5, <1>6, <1>7
<1>9. Typed'
  <2>1. stray' \in [Callers -> SUBSET (Nat \X Nat)]
    BY <1>1, <1>2 DEF Typed
  <2>2. runs' = [runs EXCEPT ![c] = runs'[c]]
    BY <1>1, <1>2, <1>6 DEF Typed
  <2>3. runs' \in [Callers -> Seq(Nat)]
    BY <1>1, <1>8, <2>2 DEF Typed
  <2> QED BY <1>1, <1>3, <2>1, <2>3 DEF Typed
<1>10. Alone(c)
  <2>1. \A d \in Callers \ {c} : stray'[d] = stray[d] /\ runs'[d] = runs[d]
    BY <1>1, <1>2 DEF Typed
  <2> QED BY <1>3, <2>1 DEF Alone, Same
<1>11. ASSUME NEW i \in 1..Len(plan[c]) PROVE Times(c, i)' = Times(c, i)
  <2> DEFINE S == {x \in stray[c] : x[2] = i}
             T == {x \in stray'[c] : x[2] = i}
  <2>1. Times(c, i)' = runs'[c][i] + Cardinality(T) /\ Times(c, i) = runs[c][i] + Cardinality(S)
    BY DEF Times
  <2>2. IsFiniteSet(S)
    BY <1>4, FS_Subset
  <2>3. Cardinality(S) \in Nat /\ runs[c][i] \in Nat
    BY <1>1, <2>2, FS_CardinalityType, LocalTypes
  <2>4. CASE i = a
    <3>1. T = S \ {id} /\ id \in S
      BY <1>2, <1>5, <1>6, <2>4
    <3> HIDE DEF S, T
    <3>2. Cardinality(T) = Cardinality(S) - 1
      BY <2>2, <3>1, FS_RemoveElement
    <3>3. runs'[c][i] = runs[c][i] + 1
      BY <1>8, <2>4
    <3> QED BY <2>1, <2>3, <3>2, <3>3
  <2>5. CASE i # a
    <3>1. T = S
      BY <1>5, <1>6, <2>5
    <3>2. runs'[c][i] = runs[c][i]
      BY <1>8, <2>5
    <3> HIDE DEF S, T
    <3> QED BY <2>1, <3>1, <3>2
  <2> QED BY <2>4, <2>5
<1>12. Local(c)'
  <2>1. Shape(c)'
    BY <1>1, <1>3, <1>4, <1>8 DEF Local, Shape, Request
  <2>2. Exchange(c)'
    BY <1>1, <1>3 DEF Local, Exchange, Request
  <2>3. OkSoFar(c)'
    <3>1. \A i \in 1..Len(plan[c]) : runs[c][i] > 0 => runs'[c][i] > 0
      <4> SUFFICES ASSUME NEW i \in 1..Len(plan[c]), runs[c][i] > 0 PROVE runs'[c][i] > 0
        OBVIOUS
      <4>1. runs[c][i] \in Nat
        BY <1>1, LocalTypes
      <4> QED BY <1>8, <4>1
    <3>2. at[c] \in 1..Len(plan[c])
      BY <1>1, <1>4 DEF Local, Shape
    <3>3. \A i \in 1..Len(plan[c]) : Executed(c, i) => Executed(c, i)'
      BY <1>3, <3>1 DEF Executed
    <3>4. \A i \in 1..Len(plan[c]) : i < at[c] => Executed(c, i)'
      BY <1>1, <3>3 DEF Local, OkSoFar
    <3>5. given[c] # Service!NotYet => runs'[c][at[c]] > 0
      BY <1>1, <3>1, <3>2 DEF Local, OkSoFar
    <3>6. PICK n \in 1..Len(plan[c]) : n = at[c]
      BY <3>2
    <3>7. pc[c] = "done" /\ last[c] = "Ok" => n = Len(plan[c]) /\ Executed(c, n)'
      BY <1>1, <3>3, <3>6 DEF Local, OkSoFar
    <3> QED BY <1>3, <3>4, <3>5, <3>6, <3>7 DEF OkSoFar
  <2>4. Bounded(c)'
    BY <1>1, <1>3, <1>11 DEF Local, Bounded, Waiting
  <2>5. StrayOld(c)'
    <3>1. IsFiniteSet(stray'[c])
      BY <1>4, <1>6, FS_RemoveElement
    <3> QED BY <1>1, <1>3, <1>6, <3>1 DEF Local, StrayOld
  <2> QED BY <2>1, <2>2, <2>3, <2>4, <2>5 DEF Local
<1>13. PoolDistinct' /\ PoolCounts'
  BY <1>3, PoolQuiet DEF IInv, Connecting
<1> QED BY <1>9, <1>10, <1>12, <1>13, Assemble

-----------------------------------------------------------------------------

\* Initially nobody does anything and the pool is empty.
LEMMA InitKeeps == Init => IInv
<1> SUFFICES ASSUME Init PROVE IInv
  OBVIOUS
<1>1. Typed
  <2>1. free \in Seq(Nat) /\ counter \in Nat /\ breaks \in 0..MaxBreaks
    BY ConstantsAssumption DEF Init
  <2>2. /\ pc \in [Callers -> {"idle", "call", "connect", "wait", "done"}]
        /\ plan \in [Callers -> Seq(Requests)]
        /\ at \in [Callers -> Nat \ {0}]
        /\ errors \in [Callers -> 0..MaxErrors]
        /\ conn \in [Callers -> Nat]
        /\ tries \in [Callers -> 0..MaxTries]
    BY ConstantsAssumption DEF Init, NoPlan
  <2>3. /\ wire \in [Callers -> Messages]
        /\ given \in [Callers -> Service!Outcomes \cup {Service!NotYet}]
        /\ stray \in [Callers -> SUBSET (Nat \X Nat)]
        /\ runs \in [Callers -> Seq(Nat)]
        /\ last \in [Callers -> Answers]
    BY DEF Init, Messages, Answers
  <2> QED BY <2>1, <2>2, <2>3 DEF Typed
<1>2. PoolDistinct
  BY DEF Init, PoolDistinct
<1>3. PoolCounts
  <2>1. Busy = {} /\ Connecting = {}
    BY DEF Init, Busy, Connecting
  <2>2. Cardinality(Busy) = 0 /\ Cardinality(Connecting) = 0
    BY <2>1, FS_EmptySet
  <2> QED BY <2>2, CountTypes DEF Init, PoolCounts
<1>4. ASSUME NEW c \in Callers PROVE Local(c)
  <2>1. Shape(c)
    BY DEF Init, Shape, NoPlan
  <2>2. Exchange(c)
    BY DEF Init, Exchange
  <2>3. OkSoFar(c) /\ Bounded(c)
    BY DEF Init, OkSoFar, Bounded, NoPlan
  <2>4. StrayOld(c)
    BY FS_EmptySet DEF Init, StrayOld
  <2> QED BY <2>1, <2>2, <2>3, <2>4 DEF Local
<1> QED BY <1>1, <1>2, <1>3, <1>4 DEF IInv

\* Every step preserves the inductive invariant.
LEMMA NextKeeps == IInv /\ [Next]_vars => IInv'
<1> SUFFICES ASSUME IInv, [Next]_vars PROVE IInv'
  OBVIOUS
<1>1. ASSUME NEW c \in Callers,
             Start(c) \/ CallerStep(c) \/ Serve(c) \/ Break(c) \/ RunLate(c)
      PROVE  IInv'
  BY <1>1, StartKeeps, AnswerEmptyKeeps, LockKeeps, ConnectKeeps, ConnectFailsKeeps,
     ReceiveKeeps, ServeKeeps, BreakKeeps, RunLateKeeps DEF CallerStep
<1>2. ASSUME UNCHANGED vars PROVE IInv'
  <2>1. /\ UNCHANGED <<free, counter, pc, plan, at, errors, tries, last>>
        /\ UNCHANGED <<conn, wire, given, stray, runs, breaks>>
    BY <1>2 DEF vars, pool, caller, server
  <2>2. Typed'
    BY <2>1 DEF IInv, Typed
  <2>3. PoolDistinct' /\ PoolCounts'
    BY <2>1, PoolQuiet DEF IInv, Connecting
  <2>4. \A c \in Callers : Local(c)'
    BY <2>1, SameKeeps DEF IInv, Same
  <2> QED BY <2>2, <2>3, <2>4 DEF IInv
<1> QED BY <1>1, <1>2 DEF Next

\* The inductive invariant holds in every reachable state.
LEMMA Invariance == Spec => []IInv
BY InitKeeps, NextKeeps, PTL DEF Spec

\* Type correctness of the pool, the callers, the messages and the server.
THEOREM RpcTypeCorrect == Spec => []TypeOK
<1>1. ASSUME IInv PROVE TypeOK
  <2>1. Typed
    BY <1>1 DEF IInv
  <2>2. free \in Seq(1..counter)
    <3>1. \A i \in 1..Len(free) : free[i] \in 1..counter
      BY <1>1 DEF IInv, PoolDistinct
    <3>2. free \in Seq(Nat) /\ Len(free) \in Nat
      BY <2>1 DEF Typed
    <3>3. free \in [1..Len(free) -> 1..counter]
      BY <3>1, <3>2
    <3> DEFINE F == [1..Len(free) -> 1..counter]
    <3>4. F \in {[1..n -> 1..counter] : n \in Nat}
      BY <3>2
    <3>5. Seq(1..counter) = UNION {[1..n -> 1..counter] : n \in Nat}
      BY SeqDef, Zenon
    <3>6. free \in F
      BY <3>3
    <3> HIDE DEF F
    <3> QED BY <3>4, <3>5, <3>6
  <2>3. conn \in [Callers -> 0..counter]
    BY <1>1, <2>1 DEF IInv, PoolDistinct, Typed
  <2>4. ASSUME NEW c \in Callers
        PROVE  /\ plan[c] \in Plans[c] \cup {NoPlan}
               /\ wire[c].kind \in {"nothing", "request", "response", "status"}
    <3>1. plan[c] \in Plans[c] \cup {NoPlan}
      BY <1>1 DEF IInv, Local, Shape
    <3>2. wire[c] \in Messages
      BY <2>1 DEF Typed
    <3>3. wire[c].kind \in {"nothing", "request", "response", "status"}
      BY <3>2 DEF Messages, Nothing, RequestMessage, InvalidArgument, Response
    <3> QED BY <3>1, <3>3
  <2>5. ASSUME NEW r \in Answers
        PROVE  r \in {"Ok"} \cup {Service!FsErrorOf(e) : e \in Service!HashFsErrors}
    <3>1. /\ Service!FsErrorOf("FsNotInitialized") = "ConfigParsingFailed"
          /\ Service!FsErrorOf("FileNotFound") = "FileNotFound"
          /\ Service!FsErrorOf("FsHasMissingData") = "KeyNotFound"
          /\ Service!FsErrorOf("FileAlreadyExists") = "FileExist"
          /\ Service!FsErrorOf("Unspecific") = "UnknownError"
      BY DEF Service!FsErrorOf
    <3> QED BY <3>1 DEF Answers, Service!HashFsErrors
  <2>6. last \in [Callers -> {"Ok"} \cup {Service!FsErrorOf(e) : e \in Service!HashFsErrors}]
    BY <2>1, <2>5 DEF Typed
  <2> QED BY <2>1, <2>2, <2>3, <2>4, <2>6 DEF Typed, TypeOK
<1>2. IInv => TypeOK
  BY <1>1
<1> QED BY <1>2, Invariance, PTL

\* The pool loses no connection and gives none to two callers, and there are
\* never more connections than callers.
THEOREM PoolIsExact == Spec => []PoolExact
<1>1. ASSUME IInv PROVE PoolExact
  <2>1. Typed /\ PoolDistinct /\ PoolCounts
    BY <1>1 DEF IInv
  <2>2. DOMAIN free = 1..Len(free)
    BY <2>1 DEF Typed
  <2>3. ASSUME NEW n \in 1..counter
        PROVE  Cardinality({i \in DOMAIN free : free[i] = n})
                   + Cardinality({c \in Busy : conn[c] = n}) = 1
    <3> DEFINE F == {i \in DOMAIN free : free[i] = n}
               B == {c \in Busy : conn[c] = n}
    <3>1. CASE \E i \in 1..Len(free) : free[i] = n
      <4>1. PICK i \in 1..Len(free) : free[i] = n
        BY <3>1
      <4>2. F = {i}
        BY <2>1, <2>2, <4>1 DEF PoolDistinct
      <4>3. B = {}
        BY <2>1, <4>1 DEF PoolDistinct, Busy
      <4>4. Cardinality(F) = 1 /\ Cardinality(B) = 0
        <5> HIDE DEF F, B
        <5> QED BY <4>2, <4>3, FS_Singleton, FS_EmptySet
      <4> QED BY <4>4
    <3>2. CASE ~(\E i \in 1..Len(free) : free[i] = n)
      <4>1. PICK c \in Callers : conn[c] = n
        BY <2>1, <3>2 DEF PoolDistinct
      <4>2. B = {c}
        BY <2>1, <4>1 DEF PoolDistinct, Busy
      <4>3. F = {}
        BY <2>2, <3>2
      <4>4. Cardinality(F) = 0 /\ Cardinality(B) = 1
        <5> HIDE DEF F, B
        <5> QED BY <4>2, <4>3, FS_Singleton, FS_EmptySet
      <4> QED BY <4>4
    <3> QED BY <3>1, <3>2
  <2> QED BY <2>1, <2>3 DEF PoolExact, PoolCounts
<1>2. IInv => PoolExact
  BY <1>1
<1> QED BY <1>2, Invariance, PTL

\* The server refuses no request and no answer is incomplete, for every method
\* of the interface and any closures, as long as the list of block ranges is
\* not empty.
THEOREM NoneRefused == Spec => []NothingRefused
<1>1. ASSUME IInv, NEW c \in Callers
      PROVE  wire[c].kind # "status" /\ last[c] # "GrpcMessageIncomplete"
  <2>1. wire[c] = Nothing \/ wire[c] = RequestMessage
           \/ wire[c] = Response(Request(c).method, given[c])
    BY <1>1 DEF IInv, Local, Exchange
  <2>2. wire[c].kind # "status"
    BY <2>1 DEF Nothing, RequestMessage, Response
  <2>3. last[c] \in Answers
    BY <1>1 DEF IInv, Typed
  <2> QED BY <2>2, <2>3 DEF Answers
<1>2. IInv => NothingRefused
  BY <1>1 DEF NothingRefused
<1> QED BY <1>2, Invariance, PTL

\* A closure that returns without an error has had all its requests executed.
THEOREM OkRan == Spec => []OkMeansRan
<1>1. ASSUME IInv, NEW c \in Callers, pc[c] = "done", last[c] = "Ok",
             NEW i \in DOMAIN plan[c]
      PROVE  plan[c][i].empty \/ runs[c][i] > 0
  <2>1. i \in 1..Len(plan[c]) /\ Len(plan[c]) \in Nat
    BY <1>1 DEF IInv, Typed
  <2>2. at[c] = Len(plan[c]) /\ Executed(c, at[c])
    BY <1>1 DEF IInv, Local, OkSoFar
  <2>3. i < at[c] => Executed(c, i)
    BY <1>1, <2>1 DEF IInv, Local, OkSoFar
  <2>4. i < at[c] \/ i = at[c]
    BY <2>1, <2>2
  <2> QED BY <2>2, <2>3, <2>4 DEF Executed
<1>2. IInv => OkMeansRan
  BY <1>1 DEF OkMeansRan
<1> QED BY <1>2, Invariance, PTL

\* A request runs at most once for each attempt of spin, those that run after
\* they were given up included.
THEOREM RunsAreBounded == Spec => []RunsBounded
<1>1. ASSUME IInv, NEW c \in Callers, NEW i \in DOMAIN runs[c]
      PROVE  runs[c][i] + Cardinality({id \in stray[c] : id[2] = i}) <= errors[c] + 1
  <2>1. i \in 1..Len(plan[c])
    BY <1>1 DEF IInv, Typed, Local, Shape
  <2> QED BY <1>1, <2>1 DEF IInv, Local, Bounded, Times
<1>2. IInv => RunsBounded
  BY <1>1 DEF RunsBounded
<1> QED BY <1>2, Invariance, PTL

-----------------------------------------------------------------------------
(***************************************************************************)
(* The refinement: what the service shows of the state of HashFsRpc.       *)
(***************************************************************************)
Asked(c) == IF pc[c] \in {"connect", "wait"} THEN plan[c][at[c]].method ELSE "no_request"
Open == [c \in Callers |-> Asked(c)]
Loose == [c \in Callers |-> Cardinality(stray[c])]

\* A step of c changes what the service shows of c.
LEMMA ShownOfOne ==
    ASSUME Typed, Typed', NEW c \in Callers, Alone(c)
    PROVE  /\ Open' = [Open EXCEPT ![c] = Asked(c)']
           /\ given' = [given EXCEPT ![c] = given'[c]]
           /\ Loose' = [Loose EXCEPT ![c] = Cardinality(stray'[c])]
           /\ last' = [last EXCEPT ![c] = last'[c]]
<1>1. \A d \in Callers \ {c} :
          Asked(d)' = Asked(d) /\ given'[d] = given[d] /\ stray'[d] = stray[d] /\ last'[d] = last[d]
  BY DEF Alone, Same, Asked
<1>2. Open' = [Open EXCEPT ![c] = Asked(c)']
  BY <1>1 DEF Open
<1>3. Loose' = [Loose EXCEPT ![c] = Cardinality(stray'[c])]
  BY <1>1 DEF Loose
<1>4. given' = [given EXCEPT ![c] = given'[c]] /\ last' = [last EXCEPT ![c] = last'[c]]
  BY <1>1 DEF Typed
<1> QED BY <1>2, <1>3, <1>4

\* What does not change for c does not change.
LEMMA ShownSame ==
    ASSUME Typed, Typed', NEW c \in Callers, Alone(c)
    PROVE  /\ Asked(c)' = Asked(c) => Open' = Open
           /\ given'[c] = given[c] => given' = given
           /\ stray'[c] = stray[c] => Loose' = Loose
           /\ last'[c] = last[c] => last' = last
<1>1. \A d \in Callers \ {c} :
          Asked(d)' = Asked(d) /\ given'[d] = given[d] /\ stray'[d] = stray[d] /\ last'[d] = last[d]
  BY DEF Alone, Same, Asked
<1>2. Asked(c)' = Asked(c) => Open' = Open
  BY <1>1 DEF Open
<1>3. stray'[c] = stray[c] => Loose' = Loose
  BY <1>1 DEF Loose
<1>4. (given'[c] = given[c] => given' = given) /\ (last'[c] = last[c] => last' = last)
  BY <1>1 DEF Typed
<1> QED BY <1>2, <1>3, <1>4

\* What the service shows of one caller.
LEMMA ShownNow ==
    ASSUME Typed, NEW c \in Callers, Local(c)
    PROVE  /\ Open[c] = Asked(c) /\ Loose[c] = Cardinality(stray[c]) /\ Loose[c] \in Nat
           /\ pc[c] \in {"connect", "wait"} => Asked(c) \in Methods /\ Asked(c) # "no_request"
           /\ pc[c] \notin {"connect", "wait"} => Asked(c) = "no_request"
<1>1. Open[c] = Asked(c) /\ Loose[c] = Cardinality(stray[c])
  BY DEF Open, Loose
<1>2. Loose[c] \in Nat
  BY <1>1, FS_CardinalityType DEF Local, StrayOld
<1>3. ASSUME pc[c] \in {"connect", "wait"} PROVE Asked(c) \in Methods /\ Asked(c) # "no_request"
  <2>1. Request(c).method \in Methods
    BY <1>3, PresentRequest DEF Local
  <2> QED BY <1>3, <2>1, MethodNames DEF Asked, Request
<1>4. pc[c] \notin {"connect", "wait"} => Asked(c) = "no_request"
  BY DEF Asked
<1> QED BY <1>1, <1>2, <1>3, <1>4

\* The actions of the service in terms of what it shows.
LEMMA ServiceActions ==
    ASSUME NEW c \in Callers
    PROVE  /\ \A m \in Methods :
                 /\ Open[c] = "no_request" /\ Open' = [Open EXCEPT ![c] = m]
                 /\ given' = [given EXCEPT ![c] = Service!NotYet]
                 /\ Loose' = Loose /\ last' = last
                 => Service!Next
           /\ \A o \in Service!Outcomes :
                 /\ Open[c] # "no_request" /\ given[c] = Service!NotYet
                 /\ given' = [given EXCEPT ![c] = o]
                 /\ Open' = Open /\ Loose' = Loose /\ last' = last
                 => Service!Next
           /\ /\ Loose[c] > 0 /\ Loose' = [Loose EXCEPT ![c] = @ - 1]
              /\ Open' = Open /\ given' = given /\ last' = last
              => Service!Next
           /\ /\ Open[c] # "no_request" /\ given[c] # Service!NotYet
              /\ \/ last' = [last EXCEPT ![c] = Service!FsResult(given[c])]
                 \/ /\ Open[c] = "directory_read_children"
                    /\ last' = [last EXCEPT ![c] = "Ok"]
              /\ Open' = [Open EXCEPT ![c] = "no_request"]
              /\ given' = [given EXCEPT ![c] = Service!NotYet]
              /\ Loose' = Loose
              => Service!Next
           /\ /\ Open[c] # "no_request"
              /\ last' = [last EXCEPT ![c] = Service!Lost]
              /\ Open' = [Open EXCEPT ![c] = "no_request"]
              /\ given' = [given EXCEPT ![c] = Service!NotYet]
              /\ \/ Loose' = Loose
                 \/ given[c] = Service!NotYet /\ Loose' = [Loose EXCEPT ![c] = @ + 1]
              => Service!Next
           /\ /\ Open[c] = "no_request"
              /\ last' = [last EXCEPT ![c] = "Ok"]
              /\ Open' = Open /\ given' = given /\ Loose' = Loose
              => Service!Next
<1> USE DEF Open, Loose, Asked, Service!NoRequest
<1>1. ASSUME NEW m \in Methods,
             Open[c] = "no_request", Open' = [Open EXCEPT ![c] = m],
             given' = [given EXCEPT ![c] = Service!NotYet], Loose' = Loose, last' = last
      PROVE  Service!Invoke(c, m)
  BY <1>1 DEF Service!Invoke
<1>2. ASSUME NEW o \in Service!Outcomes, Open[c] # "no_request", given[c] = Service!NotYet,
             given' = [given EXCEPT ![c] = o], Open' = Open, Loose' = Loose, last' = last
      PROVE  Service!TakeEffect(c, o)
  BY <1>2 DEF Service!TakeEffect
<1>3. ASSUME Loose[c] > 0, Loose' = [Loose EXCEPT ![c] = @ - 1],
             Open' = Open, given' = given, last' = last
      PROVE  Service!TakeEffectLate(c)
  BY <1>3 DEF Service!TakeEffectLate
<1>4. ASSUME Open[c] # "no_request", given[c] # Service!NotYet,
             \/ last' = [last EXCEPT ![c] = Service!FsResult(given[c])]
             \/ /\ Open[c] = "directory_read_children"
                /\ last' = [last EXCEPT ![c] = "Ok"],
             Open' = [Open EXCEPT ![c] = "no_request"],
             given' = [given EXCEPT ![c] = Service!NotYet], Loose' = Loose
      PROVE  Service!Answer(c)
  BY <1>4 DEF Service!Answer
<1>5. ASSUME Open[c] # "no_request", last' = [last EXCEPT ![c] = Service!Lost],
             Open' = [Open EXCEPT ![c] = "no_request"],
             given' = [given EXCEPT ![c] = Service!NotYet],
             \/ Loose' = Loose
             \/ given[c] = Service!NotYet /\ Loose' = [Loose EXCEPT ![c] = @ + 1]
      PROVE  Service!GiveUp(c)
  BY <1>5 DEF Service!GiveUp
<1>6. ASSUME Open[c] = "no_request", last' = [last EXCEPT ![c] = "Ok"],
             Open' = Open, given' = given, Loose' = Loose
      PROVE  Service!AnswerEmpty(c)
  BY <1>6 DEF Service!AnswerEmpty
<1> HIDE DEF Open, Loose, Asked, Service!NoRequest
<1> QED BY <1>1, <1>2, <1>3, <1>4, <1>5, <1>6 DEF Service!Next

\* The steps of the service and its stuttering steps.
ServiceStep == [Service!Next]_(Service!vars)

\* A step that the service does not see.
LEMMA Unseen ==
    ASSUME Open' = Open, given' = given, Loose' = Loose, last' = last
    PROVE  ServiceStep
BY DEF ServiceStep, Service!vars, Open, Loose, Asked

\* A caller that starts is not seen; a request is invoked with Lock.
LEMMA StartOrLock ==
    ASSUME IInv, IInv', NEW c \in Callers, Alone(c), Start(c) \/ Lock(c) \/ Connect(c)
    PROVE  ServiceStep
<1> USE DEF IInv
<1>1. Typed /\ Typed' /\ Local(c)
  OBVIOUS
<1>2. Local(c)'
  OBVIOUS
<1>3. given'[c] = given[c] /\ stray'[c] = stray[c] /\ last'[c] = last[c]
  BY DEF Start, Lock, Connect, server
<1>4. given' = given /\ Loose' = Loose /\ last' = last
  BY <1>1, <1>3, ShownSame
<1>5. CASE Start(c)
  <2>1. pc[c] = "idle" /\ pc'[c] = "call"
    BY <1>1, <1>5 DEF Start, Typed
  <2>2. Asked(c)' = Asked(c)
    BY <2>1 DEF Asked
  <2>3. Open' = Open
    BY <1>1, <2>2, ShownSame
  <2> QED BY <1>4, <2>3, Unseen
<1>6. CASE Connect(c)
  <2>1. pc[c] = "connect" /\ pc'[c] = "wait" /\ plan' = plan /\ at' = at
    BY <1>1, <1>6 DEF Connect, Send, Typed
  <2>2. Asked(c)' = Asked(c)
    BY <2>1 DEF Asked
  <2>3. Open' = Open
    BY <1>1, <2>2, ShownSame
  <2> QED BY <1>4, <2>3, Unseen
<1>7. CASE Lock(c)
  <2>1. pc[c] = "call" /\ pc'[c] \in {"connect", "wait"}
    BY <1>1, <1>7 DEF Lock, Send, Typed
  <2>2. plan' = plan /\ at' = at
    BY <1>7 DEF Lock
  <2>3. PICK m \in Methods : m = Request(c).method
    BY <1>1, <2>1, PresentRequest DEF Local
  <2>4. Asked(c)' = m
    BY <2>1, <2>2, <2>3 DEF Asked, Request
  <2>5. Open' = [Open EXCEPT ![c] = m]
    BY <1>1, <2>4, ShownOfOne
  <2>6. Open[c] = "no_request"
    BY <1>1, <2>1, ShownNow
  <2>7. given[c] = Service!NotYet
    BY <1>1, <2>1 DEF Local, Exchange
  <2>8. given' = [given EXCEPT ![c] = Service!NotYet]
    BY <1>1, <1>4, <2>7 DEF Typed
  <2>9. Service!Next
    BY <1>4, <2>5, <2>6, <2>8, ServiceActions
  <2> QED BY <2>9 DEF ServiceStep
<1> QED BY <1>5, <1>6, <1>7

\* What the service shows of the end of a request.
LEMMA FinishShown ==
    ASSUME IInv, IInv', NEW c \in Callers, NEW r \in Answers, Alone(c), Finish(c, r)
    PROVE  /\ Open' = [Open EXCEPT ![c] = "no_request"]
           /\ given' = [given EXCEPT ![c] = Service!NotYet]
           /\ last' = [last EXCEPT ![c] = r]
<1>1. Typed /\ Typed'
  BY DEF IInv
<1>2. GoesOn(c, r) /\ given'[c] = Service!NotYet /\ last'[c] = r
  BY <1>1, FinishStep
<1>3. Asked(c)' = "no_request"
  BY <1>2 DEF GoesOn, Asked
<1> QED BY <1>1, <1>2, <1>3, ShownOfOne

\* An empty list is answered at once.
LEMMA AnswerEmptyShown ==
    ASSUME IInv, IInv', NEW c \in Callers, Alone(c), AnswerEmpty(c)
    PROVE  ServiceStep
<1>1. Typed /\ Typed' /\ Local(c) /\ pc[c] = "call"
  BY DEF IInv, AnswerEmpty
<1>2. "Ok" \in Answers /\ Finish(c, "Ok") /\ stray'[c] = stray[c]
  BY DEF AnswerEmpty, Answers
<1>3. /\ Open' = [Open EXCEPT ![c] = "no_request"]
      /\ given' = [given EXCEPT ![c] = Service!NotYet]
      /\ last' = [last EXCEPT ![c] = "Ok"]
  BY <1>2, FinishShown
<1>4. Open[c] = "no_request" /\ given[c] = Service!NotYet
  BY <1>1, ShownNow DEF Local, Exchange
<1>5. Open' = Open
  BY <1>3, <1>4 DEF Open
<1>6. given' = given
  BY <1>1, <1>3, <1>4 DEF Typed
<1>7. Loose' = Loose
  BY <1>1, <1>2, ShownSame
<1>8. Service!Next
  BY <1>3, <1>4, <1>5, <1>6, <1>7, ServiceActions
<1> QED BY <1>8 DEF ServiceStep

\* An answer is the result of the request, or an empty listing.
LEMMA ReceiveShown ==
    ASSUME IInv, IInv', NEW c \in Callers, Alone(c), Receive(c)
    PROVE  ServiceStep
<1> DEFINE e == Decode(Request(c).method, wire[c])
           r == Service!FsResult(e)
<1>1. Typed /\ Typed' /\ Local(c) /\ wire[c].kind \in {"response", "status"}
  BY DEF IInv, Receive
<1>2. /\ pc[c] = "wait" /\ given[c] \in Service!Outcomes /\ r \in Answers
      /\ e = given[c] \/ (Request(c).method = "directory_read_children" /\ e = "Ok")
  BY <1>1, ReceiveAnswer
<1>3. Finish(c, r) /\ stray'[c] = stray[c]
  BY DEF Receive
<1>4. e = "Ok" => r = "Ok"
  BY DEF Service!FsResult
<1>5. e = given[c] => r = Service!FsResult(given[c])
  OBVIOUS
<1> HIDE DEF e, r
<1>6. /\ Open' = [Open EXCEPT ![c] = "no_request"]
      /\ given' = [given EXCEPT ![c] = Service!NotYet]
      /\ last' = [last EXCEPT ![c] = r]
  BY <1>2, <1>3, FinishShown
<1>7. Loose' = Loose
  BY <1>1, <1>3, ShownSame
<1>8. Open[c] = Request(c).method /\ Open[c] # "no_request"
  BY <1>1, <1>2, ShownNow DEF Asked, Request
<1>9. given[c] # Service!NotYet
  BY <1>2 DEF Service!NotYet, Service!Outcomes, Service!StoreErrors, Service!HashFsErrors
<1>10. \/ last' = [last EXCEPT ![c] = Service!FsResult(given[c])]
       \/ Open[c] = "directory_read_children" /\ last' = [last EXCEPT ![c] = "Ok"]
  BY <1>2, <1>4, <1>5, <1>6, <1>8
<1>11. Service!Next
  BY <1>6, <1>7, <1>8, <1>9, <1>10, ServiceActions
<1> QED BY <1>11 DEF ServiceStep

\* The server's work is the effect of the request.
LEMMA ServeShown ==
    ASSUME IInv, IInv', NEW c \in Callers, Alone(c), Serve(c)
    PROVE  ServiceStep
<1>1. Typed /\ Typed' /\ Local(c) /\ wire[c].kind = "request"
  BY DEF IInv, Serve
<1>2. pc[c] = "wait"
  BY <1>1 DEF Local, Exchange, Nothing
<1>3. given[c] = Service!NotYet
  BY <1>1, <1>2 DEF Local, Exchange, Response
<1>4. ~Refuses(c) /\ Request(c).method \in Methods
  BY <1>1, <1>2, NeverRefused, PresentRequest DEF Local
<1>5. PICK o \in Gives[Request(c).method] : given' = [given EXCEPT ![c] = o]
  BY <1>4 DEF Serve
<1>6. o \in Service!Outcomes
  BY <1>4, <1>5, ConstantsAssumption
<1>7. UNCHANGED <<pc, plan, at, last, stray>>
  BY DEF Serve, caller
<1>8. Open' = Open /\ Loose' = Loose
  BY <1>7 DEF Open, Loose, Asked
<1>9. Open[c] # "no_request"
  BY <1>1, <1>2, ShownNow
<1>10. last' = last
  BY <1>7
<1>11. Service!Next
  BY <1>3, <1>5, <1>6, <1>8, <1>9, <1>10, ServiceActions
<1> QED BY <1>11 DEF ServiceStep

\* A request that cannot be sent is given up.
LEMMA ConnectFailsShown ==
    ASSUME IInv, IInv', NEW c \in Callers, Alone(c), ConnectFails(c)
    PROVE  ServiceStep
<1>1. Typed /\ Typed' /\ Local(c) /\ pc[c] = "connect" /\ stray' = stray
  BY DEF IInv, ConnectFails
<1>2. CASE UNCHANGED <<pc, plan, at, last, given>>
  <2>1. Open' = Open /\ Loose' = Loose
    BY <1>1, <1>2 DEF Open, Loose, Asked
  <2> QED BY <1>2, <2>1, Unseen
<1>3. CASE Finish(c, Service!FsErrorOf("RawTonicTransportError"))
  <2>1. Finish(c, Service!Lost) /\ Service!Lost \in Answers
    BY <1>3, LostAnswers DEF Answers
  <2>2. /\ Open' = [Open EXCEPT ![c] = "no_request"]
        /\ given' = [given EXCEPT ![c] = Service!NotYet]
        /\ last' = [last EXCEPT ![c] = Service!Lost]
    BY <2>1, FinishShown
  <2>3. Loose' = Loose
    BY <1>1 DEF Loose
  <2>4. Open[c] # "no_request"
    BY <1>1, ShownNow
  <2>5. Service!Next
    BY <2>2, <2>3, <2>4, ServiceActions
  <2> QED BY <2>5 DEF ServiceStep
<1> QED BY <1>2, <1>3 DEF ConnectFails

\* A request whose connection breaks is given up; if it goes astray it is one
\* more that may still take effect, because no other stray one is of this
\* attempt.
LEMMA BreakShown ==
    ASSUME IInv, IInv', NEW c \in Callers, Alone(c), Break(c)
    PROVE  ServiceStep
<1>1. Typed /\ Typed' /\ Local(c) /\ pc[c] = "wait"
  BY DEF IInv, Break
<1>2. Finish(c, Service!Lost) /\ Service!Lost \in Answers
  BY LostAnswers DEF Break, Answers
<1>3. /\ Open' = [Open EXCEPT ![c] = "no_request"]
      /\ given' = [given EXCEPT ![c] = Service!NotYet]
      /\ last' = [last EXCEPT ![c] = Service!Lost]
  BY <1>2, FinishShown
<1>4. Open[c] # "no_request"
  BY <1>1, ShownNow
<1>5. \/ Loose' = Loose
      \/ given[c] = Service!NotYet /\ Loose' = [Loose EXCEPT ![c] = @ + 1]
  <2>1. CASE stray' = stray
    BY <2>1 DEF Loose
  <2>2. CASE /\ wire[c].kind = "request"
             /\ stray' = [stray EXCEPT ![c] = @ \cup {<<errors[c], at[c]>>}]
    <3>1. stray'[c] = stray[c] \cup {<<errors[c], at[c]>>}
      BY <1>1, <2>2 DEF Typed
    <3>2. <<errors[c], at[c]>> \notin stray[c]
      <4>1. errors[c] \in Nat
        BY <1>1, LocalTypes
      <4>2. \A id \in stray[c] : id[1] < errors[c]
        BY <1>1 DEF Local, StrayOld
      <4> QED BY <4>1, <4>2
    <3>3. Cardinality(stray'[c]) = Cardinality(stray[c]) + 1
      BY <1>1, <3>1, <3>2, FS_AddElement DEF Local, StrayOld
    <3>4. Loose' = [Loose EXCEPT ![c] = Cardinality(stray'[c])]
      BY <1>1, ShownOfOne
    <3>5. Loose' = [Loose EXCEPT ![c] = @ + 1]
      BY <3>3, <3>4 DEF Loose
    <3>6. given[c] = Service!NotYet
      BY <1>1, <2>2 DEF Local, Exchange, Response
    <3> QED BY <3>5, <3>6
  <2> QED BY <2>1, <2>2 DEF Break
<1>6. Service!Next
  BY <1>3, <1>4, <1>5, ServiceActions
<1> QED BY <1>6 DEF ServiceStep

\* A stray request takes effect late.
LEMMA RunLateShown ==
    ASSUME IInv, IInv', NEW c \in Callers, Alone(c), RunLate(c)
    PROVE  ServiceStep
<1>1. Typed /\ Typed' /\ Local(c)
  BY DEF IInv
<1>2. PICK id \in stray[c] : stray' = [stray EXCEPT ![c] = @ \ {id}]
  BY DEF RunLate
<1>3. stray'[c] = stray[c] \ {id}
  BY <1>1, <1>2 DEF Typed
<1>4. IsFiniteSet(stray[c]) /\ Cardinality(stray[c]) \in Nat
  BY <1>1, FS_CardinalityType DEF Local, StrayOld
<1>5. Cardinality(stray'[c]) = Cardinality(stray[c]) - 1 /\ Cardinality(stray[c]) > 0
  <2>1. Cardinality(stray[c]) # 0
    BY <1>2, <1>4, FS_EmptySet
  <2> QED BY <1>2, <1>3, <1>4, <2>1, FS_RemoveElement
<1>6. Loose' = [Loose EXCEPT ![c] = Cardinality(stray'[c])]
  BY <1>1, ShownOfOne
<1>7. Loose' = [Loose EXCEPT ![c] = @ - 1] /\ Loose[c] > 0
  BY <1>5, <1>6 DEF Loose
<1>8. UNCHANGED <<pc, plan, at, last, given>>
  BY DEF RunLate, caller
<1>9. Open' = Open
  BY <1>8 DEF Open, Asked
<1>10. given' = given /\ last' = last
  BY <1>8
<1>11. Service!Next
  BY <1>7, <1>9, <1>10, ServiceActions
<1> QED BY <1>11 DEF ServiceStep

\* The interface over gRPC implements the service: every step of the pool, the
\* callers, the server and the network is a step of HashFsService or none.
THEOREM Implements == Spec => ImplementsService
<1>1. Init => Service!Init
  <2> SUFFICES ASSUME Init PROVE Service!Init
    OBVIOUS
  <2>1. Open = [c \in Callers |-> "no_request"]
    BY DEF Open, Asked, Init
  <2>2. Loose = [c \in Callers |-> 0]
    BY FS_EmptySet DEF Loose, Init
  <2> QED BY <2>1, <2>2 DEF Init, Service!Init, Service!NoRequest, Open, Loose, Asked
<1>2. IInv /\ IInv' /\ [Next]_vars => [Service!Next]_(Service!vars)
  <2> SUFFICES ASSUME IInv, IInv', [Next]_vars PROVE ServiceStep
    BY DEF ServiceStep
  <2>1. ASSUME NEW c \in Callers,
               Start(c) \/ CallerStep(c) \/ Serve(c) \/ Break(c) \/ RunLate(c)
        PROVE  ServiceStep
    <3>1. Alone(c)
      BY <2>1, StartKeeps, AnswerEmptyKeeps, LockKeeps, ConnectKeeps, ConnectFailsKeeps,
         ReceiveKeeps, ServeKeeps, BreakKeeps, RunLateKeeps DEF CallerStep
    <3> QED BY <2>1, <3>1, StartOrLock, AnswerEmptyShown, ConnectFailsShown, ReceiveShown,
               ServeShown, BreakShown, RunLateShown DEF CallerStep
  <2>2. ASSUME UNCHANGED vars PROVE ServiceStep
    <3>1. UNCHANGED <<pc, plan, at, given, stray, last>>
      BY <2>2 DEF vars, caller, server
    <3>2. Open' = Open /\ Loose' = Loose
      BY <3>1 DEF Open, Loose, Asked
    <3> QED BY <3>1, <3>2, Unseen
  <2> QED BY <2>1, <2>2 DEF Next
<1> QED BY <1>1, <1>2, Invariance, PTL DEF Spec, ImplementsService, Service!Spec

=============================================================================
