------------------------------ MODULE ResponseApi ------------------------------
(***************************************************************************)
(* What the response helpers of a Context promise to the tasks that share   *)
(* its clones: each call is one atomic operation on the acknowledgement      *)
(* state, made while it is in progress.  It takes effect and returns Ok,     *)
(* returns the error this state calls for, or fails and changes nothing.     *)
(* No mutex, no requests, no Discord: Response implements this.              *)
(***************************************************************************)
EXTENDS Integers

CONSTANT Callers

VARIABLES state,    \* the acknowledgement state
          calling,  \* the operation each caller is in, if any
          outcome   \* what its last call came to

apivars == <<state, calling, outcome>>

Visibilities == {"public", "ephemeral"}
Unset == "unset"
Idle == <<"none", Unset>>
Operations ==
  {"reply", "defer", "followup"} \X Visibilities \cup {<<"edit", Unset>>, <<"delete", Unset>>}

Is(s) == state[1] = s

\* The error an operation meets in this state, or "none".
Error(o) ==
  CASE o[1] = "reply" /\ Is("Deferred") /\ state[2] # o[2] -> "VisibilityMismatch"
    [] o[1] = "defer" /\ ~Is("Pending") -> "AlreadyAcknowledged"
    [] o[1] \in {"edit", "delete", "followup"} /\ Is("Pending") -> "NotAcknowledged"
    [] o[1] \in {"edit", "delete"} /\ Is("Deleted") -> "OriginalDeleted"
    [] OTHER -> "none"

\* The state a successful operation leaves.
After(o) ==
  CASE o[1] = "defer" -> <<"Deferred", o[2]>>
    [] o[1] = "edit" \/ (o[1] = "reply" /\ ~Is("Deleted")) -> <<"Responded", Unset>>
    [] o[1] = "delete" -> <<"Deleted", Unset>>
    [] OTHER -> state

AInit ==
  /\ state = <<"Pending", Unset>>
  /\ calling = [c \in Callers |-> Idle]
  /\ outcome = [c \in Callers |-> "none"]

Begin(c) ==
  /\ calling[c] = Idle
  /\ \E o \in Operations : calling' = [calling EXCEPT ![c] = o]
  /\ outcome' = [outcome EXCEPT ![c] = "none"]
  /\ UNCHANGED state

End(c, how) ==
  /\ calling[c] # Idle
  /\ calling' = [calling EXCEPT ![c] = Idle]
  /\ outcome' = [outcome EXCEPT ![c] = how]

Succeed(c) == End(c, "Ok") /\ Error(calling[c]) = "none" /\ state' = After(calling[c])

Refuse(c) ==
  /\ Error(calling[c]) # "none"
  /\ End(c, Error(calling[c]))
  /\ UNCHANGED state

\* The request fails, or the caller no longer waits for it.
Fail(c) == (End(c, "RestError") \/ End(c, "Dropped")) /\ UNCHANGED state

ANext == \E c \in Callers : Begin(c) \/ Succeed(c) \/ Refuse(c) \/ Fail(c)

ASpec == AInit /\ [][ANext]_apivars
=============================================================================
