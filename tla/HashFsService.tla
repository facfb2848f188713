--------------------------- MODULE HashFsService ----------------------------
(***************************************************************************)
(* What a user of HashFsInterface may rely on, wherever the implementation *)
(* runs: a request takes effect at most once, a request that is answered   *)
(* with a result has taken effect and got that result, and a request that  *)
(* is given up as lost has taken effect, or will still do so, or never     *)
(* will.  Only a listing may look empty although it failed.                *)
(***************************************************************************)
EXTENDS Naturals

CONSTANTS Callers, Methods

VARIABLES
    open,      \* caller -> the method it waits for, or NoRequest
    effect,    \* caller -> what its request gave, NotYet before it ran
    loose,     \* caller -> given-up requests that may still take effect
    result     \* caller -> the last answer as an FsResult

vars == <<open, effect, loose, result>>

NoRequest == "no_request"
NotYet == "not_yet"

HashFsErrors ==
    {"Unspecific", "RawGrpcStatus", "FsNotInitialized", "FsHasInvalidData",
     "FsHasMissingData", "FileNotFound", "FileAlreadyExists",
     "InodeHasNoInlineData", "GrpcMessageIncomplete", "RawTonicTransportError"}

\* The errors that an implementation on a store gives.
StoreErrors ==
    HashFsErrors \ {"RawGrpcStatus", "GrpcMessageIncomplete", "RawTonicTransportError",
                    "InodeHasNoInlineData"}

Outcomes == StoreErrors \cup {"Ok"}

\* From<HashFsError> for FsError
FsErrorOf(e) ==
    CASE e = "FsNotInitialized"      -> "ConfigParsingFailed"
      [] e = "FileNotFound"          -> "FileNotFound"
      [] e = "FsHasMissingData"      -> "KeyNotFound"
      [] e = "FileAlreadyExists"     -> "FileExist"
      [] e = "InodeHasNoInlineData"  -> "WrongFileType"
      [] e = "GrpcMessageIncomplete" -> "GrpcMessageIncomplete"
      [] OTHER                       -> "UnknownError"

\* The result of a request as its caller gets it.
FsResult(o) == IF o = "Ok" THEN "Ok" ELSE FsErrorOf(o)

\* The answer to a request that was lost.
Lost == "UnknownError"

Init ==
    /\ open = [c \in Callers |-> NoRequest]
    /\ effect = [c \in Callers |-> NotYet]
    /\ loose = [c \in Callers |-> 0]
    /\ result = [c \in Callers |-> "Ok"]

Invoke(c, m) ==
    /\ open[c] = NoRequest
    /\ open' = [open EXCEPT ![c] = m]
    /\ effect' = [effect EXCEPT ![c] = NotYet]
    /\ UNCHANGED <<loose, result>>

TakeEffect(c, o) ==
    /\ open[c] # NoRequest
    /\ effect[c] = NotYet
    /\ effect' = [effect EXCEPT ![c] = o]
    /\ UNCHANGED <<open, loose, result>>

TakeEffectLate(c) ==
    /\ loose[c] > 0
    /\ loose' = [loose EXCEPT ![c] = @ - 1]
    /\ UNCHANGED <<open, effect, result>>

\* The answer, with the one exception of a failed listing.
Answer(c) ==
    /\ open[c] # NoRequest
    /\ effect[c] # NotYet
    /\ \/ result' = [result EXCEPT ![c] = FsResult(effect[c])]
       \/ /\ open[c] = "directory_read_children"
          /\ result' = [result EXCEPT ![c] = "Ok"]
    /\ open' = [open EXCEPT ![c] = NoRequest]
    /\ effect' = [effect EXCEPT ![c] = NotYet]
    /\ UNCHANGED loose

GiveUp(c) ==
    /\ open[c] # NoRequest
    /\ result' = [result EXCEPT ![c] = Lost]
    /\ open' = [open EXCEPT ![c] = NoRequest]
    /\ effect' = [effect EXCEPT ![c] = NotYet]
    /\ \/ UNCHANGED loose
       \/ effect[c] = NotYet /\ loose' = [loose EXCEPT ![c] = @ + 1]

\* Nothing is asked for: an empty list of blocks.
AnswerEmpty(c) ==
    /\ open[c] = NoRequest
    /\ result' = [result EXCEPT ![c] = "Ok"]
    /\ UNCHANGED <<open, effect, loose>>

Next ==
    \E c \in Callers :
        \/ \E m \in Methods : Invoke(c, m)
        \/ \E o \in Outcomes : TakeEffect(c, o)
        \/ TakeEffectLate(c)
        \/ Answer(c)
        \/ GiveUp(c)
        \/ AnswerEmpty(c)

Spec == Init /\ [][Next]_vars

=============================================================================
