------------------------------ MODULE Response ------------------------------
(***************************************************************************)
(* The acknowledgement state one interaction's context clones share         *)
(* (crates/gloam-commands/src/response.rs, context.rs).                     *)
(*                                                                         *)
(* Each caller is a task holding a clone of the Context; it calls one        *)
(* helper after another.  Every helper awaits a Tokio mutex, reads the       *)
(* local ResponseState, and awaits a REST request; all but followup keep     *)
(* the guard across the request, and move the state only if it succeeded.    *)
(* Discord's own view of the interaction is the external part: what it has   *)
(* applied may be ahead of what the caller has been told.                    *)
(***************************************************************************)
EXTENDS Integers, FiniteSets, SequencesExt

CONSTANTS Callers,    \* tasks that hold clones of one Context
          Nobody,     \* owner of a free mutex
          MaxFaults   \* bound on REST calls that end without Discord's answer

ASSUME ResponseAssumption == Nobody \notin Callers /\ MaxFaults \in Nat

VARIABLES state,       \* the shared ResponseState
          owner,       \* who holds its mutex
          waiters,     \* Tokio's FIFO queue of tasks awaiting it
          stage,       \* where each caller is in its helper
          op,          \* the helper it is in
          outcome,     \* what its last call came to
          request,     \* its REST request, or the last one
          answer,      \* what Discord answered to that request
          orphans,     \* requests whose caller gave up, not yet at Discord
          original,    \* Discord: the original response
          visibility,  \* Discord: its visibility
          faults,      \* REST calls given up so far
          refused      \* Discord has refused a request somebody waits for

local == <<state, owner, waiters, stage, op, outcome>>
discord == <<original, visibility>>
vars == <<local, request, answer, orphans, discord, faults, refused>>

Visibilities == {"public", "ephemeral"}
Unset == "unset"

Pending == <<"Pending", Unset>>
Deferred(v) == <<"Deferred", v>>
Responded == <<"Responded", Unset>>
Deleted == <<"Deleted", Unset>>
ResponseState == {Pending, Responded, Deleted} \cup {Deferred(v) : v \in Visibilities}

Ops == {"reply", "defer", "followup"} \X Visibilities \cup {<<"edit", Unset>>, <<"delete", Unset>>}
NoOp == <<"none", Unset>>
Errors == {"VisibilityMismatch", "AlreadyAcknowledged", "NotAcknowledged", "OriginalDeleted",
           "RestError"}

\* Callback with a message, deferring callback, edit or delete of @original, and
\* webhook followup, with the visibility the caller asked for.
Requests == {"message", "deferral", "edit", "followup"} \X Visibilities
              \cup {<<"edit", Unset>>, <<"delete", Unset>>}
NoRequest == <<"none", Unset>>
Initial == {"message", "deferral"}

Existing == {"loading", "message"}

TypeOK ==
  /\ state \in ResponseState
  /\ owner \in Callers \cup {Nobody}
  /\ waiters \in Seq(Callers)
  /\ stage \in [Callers -> {"idle", "waiting", "locked", "cleared", "sending"}]
  /\ op \in [Callers -> Ops \cup {NoOp}]
  /\ outcome \in [Callers -> {"none", "Ok", "Dropped"} \cup Errors]
  /\ request \in [Callers -> Requests \cup {NoRequest}]
  /\ answer \in [Callers -> {"none", "accepted", "refused"}]
  /\ orphans \subseteq Requests
  /\ original \in {"none", "deleted"} \cup Existing
  /\ visibility \in Visibilities \cup {Unset}
  /\ faults \in 0..MaxFaults
  /\ refused \in BOOLEAN

Init ==
  /\ state = Pending
  /\ owner = Nobody
  /\ waiters = <<>>
  /\ stage = [c \in Callers |-> "idle"]
  /\ op = [c \in Callers |-> NoOp]
  /\ outcome = [c \in Callers |-> "none"]
  /\ request = [c \in Callers |-> NoRequest]
  /\ answer = [c \in Callers |-> "none"]
  /\ orphans = {}
  /\ original = "none"
  /\ visibility = Unset
  /\ faults = 0
  /\ refused = FALSE

-----------------------------------------------------------------------------
(* Helpers of the framework.                                               *)

IsAcknowledged == state # Pending

Unlock == owner' = Nobody
StaysLocked == UNCHANGED owner

\* The helper returns, or its future is dropped.
Leave(c, how) ==
  /\ outcome' = [outcome EXCEPT ![c] = how]
  /\ stage' = [stage EXCEPT ![c] = "idle"]
  /\ op' = [op EXCEPT ![c] = NoOp]
  /\ request' = [request EXCEPT ![c] = NoRequest]
  /\ answer' = [answer EXCEPT ![c] = "none"]

Send(c, r) ==
  /\ stage' = [stage EXCEPT ![c] = "sending"]
  /\ request' = [request EXCEPT ![c] = r]
  /\ UNCHANGED <<op, outcome, answer>>

\* response_state().lock().await, first half: queue for the mutex.
Call(c) ==
  /\ stage[c] = "idle"
  /\ \E o \in Ops : op' = [op EXCEPT ![c] = o]
  /\ stage' = [stage EXCEPT ![c] = "waiting"]
  /\ outcome' = [outcome EXCEPT ![c] = "none"]
  /\ waiters' = Append(waiters, c)
  /\ UNCHANGED <<state, owner, request, answer, orphans, discord, faults, refused>>

\* Mutant: a mutex that serves the latest waiter first.
LockLatest(c) ==
  /\ stage[c] = "waiting"
  /\ waiters # <<>> /\ waiters[Len(waiters)] = c
  /\ owner = Nobody
  /\ owner' = c
  /\ waiters' = SubSeq(waiters, 1, Len(waiters) - 1)
  /\ stage' = [stage EXCEPT ![c] = "locked"]
  /\ UNCHANGED <<state, op, outcome, request, answer, orphans, discord, faults, refused>>

\* Second half: the mutex serves its waiters first come, first served.
Lock(c) ==
  /\ stage[c] = "waiting"
  /\ waiters # <<>> /\ Head(waiters) = c
  /\ owner = Nobody
  /\ owner' = c
  /\ waiters' = Tail(waiters)
  /\ stage' = [stage EXCEPT ![c] = "locked"]
  /\ UNCHANGED <<state, op, outcome, request, answer, orphans, discord, faults, refused>>

\* Mutant: a deferral may be completed whatever its visibility.
DeferredAnyhow(v) == \E w \in Visibilities : state = Deferred(w)

DeferredAs(v) == state = Deferred(v)

\* reply_inner: what ResponseState::reply_action picks.
DecideReply(c, v) ==
  /\ op[c] = <<"reply", v>>
  /\ \/ state = Pending /\ StaysLocked /\ Send(c, <<"message", v>>)
     \/ DeferredAs(v) /\ StaysLocked /\ Send(c, <<"edit", v>>)
     \/ state \in {Deferred(w) : w \in Visibilities} /\ ~DeferredAs(v)
        /\ Unlock /\ Leave(c, "VisibilityMismatch")
     \/ state \in {Responded, Deleted} /\ StaysLocked /\ Send(c, <<"followup", v>>)

\* Mutant: the guard is dropped before the deferring callback is sent.
DeferUnlocked(c, v) ==
  /\ op[c] = <<"defer", v>>
  /\ \/ ~IsAcknowledged /\ Unlock /\ Send(c, <<"deferral", v>>)
     \/ IsAcknowledged /\ Unlock /\ Leave(c, "AlreadyAcknowledged")

DecideDefer(c, v) ==
  /\ op[c] = <<"defer", v>>
  /\ \/ ~IsAcknowledged /\ StaysLocked /\ Send(c, <<"deferral", v>>)
     \/ IsAcknowledged /\ Unlock /\ Leave(c, "AlreadyAcknowledged")

\* edit_response_inner and delete_response refuse Pending and Deleted.
DecideOriginal(c) ==
  /\ op[c] \in {<<"edit", Unset>>, <<"delete", Unset>>}
  /\ \/ state \notin {Pending, Deleted} /\ StaysLocked /\ Send(c, op[c])
     \/ state = Pending /\ Unlock /\ Leave(c, "NotAcknowledged")
     \/ state = Deleted /\ Unlock /\ Leave(c, "OriginalDeleted")

\* Mutant: the followup is cleared whatever the state.
PeekUnchecked(c) ==
  /\ op[c][1] = "followup"
  /\ Unlock
  /\ stage' = [stage EXCEPT ![c] = "cleared"]
  /\ UNCHANGED <<op, outcome, request, answer>>

\* followup_inner: the guard is a temporary, gone before the request is built.
PeekFollowup(c) ==
  /\ op[c][1] = "followup"
  /\ Unlock
  /\ \/ /\ IsAcknowledged
        /\ stage' = [stage EXCEPT ![c] = "cleared"]
        /\ UNCHANGED <<op, outcome, request, answer>>
     \/ ~IsAcknowledged /\ Leave(c, "NotAcknowledged")

\* No await separates taking the lock from the decision; other tasks run anyway.
Decide(c) ==
  /\ stage[c] = "locked"
  /\ \/ \E v \in Visibilities : DecideReply(c, v) \/ DecideDefer(c, v)
     \/ DecideOriginal(c)
     \/ PeekFollowup(c)
  /\ UNCHANGED <<state, waiters, orphans, discord, faults, refused>>

SendFollowup(c) ==
  /\ stage[c] = "cleared"
  /\ Send(c, <<"followup", op[c][2]>>)
  /\ UNCHANGED <<state, owner, waiters, orphans, discord, faults, refused>>

ReleaseIfHeld(c) == owner' = IF owner = c THEN Nobody ELSE owner

\* Mutant: a deferral is recorded without its visibility.
StateAfterBlindDeferral(c) ==
  CASE request[c][1] = "deferral" -> Deferred(Unset)
    [] request[c][1] \in {"message", "edit"} -> Responded
    [] request[c][1] = "delete" -> Deleted
    [] request[c][1] = "followup" -> state

\* Mutant: a followup marks the response as sent.
StateAfterEagerFollowup(c) ==
  CASE request[c][1] = "deferral" -> Deferred(request[c][2])
    [] request[c][1] \in {"message", "edit", "followup"} -> Responded
    [] request[c][1] = "delete" -> Deleted

StateAfter(c) ==
  CASE request[c][1] = "deferral" -> Deferred(request[c][2])
    [] request[c][1] \in {"message", "edit"} -> Responded
    [] request[c][1] = "delete" -> Deleted
    [] request[c][1] = "followup" -> state

\* The REST call returns Ok: the state moves and the guard is dropped.
CallSucceeds(c) ==
  /\ stage[c] = "sending"
  /\ answer[c] = "accepted"
  /\ state' = StateAfter(c)
  /\ ReleaseIfHeld(c)
  /\ Leave(c, "Ok")
  /\ UNCHANGED <<waiters, orphans, discord, faults, refused>>

\* Mutant: the state is moved whatever the REST call returned.
StateAfterRefusal(c) == StateAfter(c)

StateAfterError(c) == state

\* The REST call returns Discord's refusal: `?` leaves the state alone.
CallRefused(c) ==
  /\ stage[c] = "sending"
  /\ answer[c] = "refused"
  /\ state' = StateAfterError(c)
  /\ ReleaseIfHeld(c)
  /\ Leave(c, "RestError")
  /\ UNCHANGED <<waiters, orphans, discord, faults, refused>>

\* No answer: a transport error, or the caller's task is aborted or times out and
\* drops the helper's future.  A request not yet at Discord is lost or arrives late.
CallGivenUp(c) ==
  /\ stage[c] = "sending"
  /\ faults < MaxFaults
  /\ faults' = faults + 1
  /\ orphans' \in {orphans} \cup (IF answer[c] = "none" THEN {orphans \cup {request[c]}} ELSE {})
  /\ ReleaseIfHeld(c)
  /\ \E how \in {"RestError", "Dropped"} : Leave(c, how)
  /\ UNCHANGED <<state, waiters, discord, refused>>

\* Mutant: a dropped helper keeps its place in the queue.
CallDroppedInQueue(c) ==
  /\ stage[c] \in {"waiting", "cleared"}
  /\ Leave(c, "Dropped")
  /\ UNCHANGED <<state, owner, waiters, orphans, discord, faults, refused>>

\* A helper dropped while it waits leaves the queue; one dropped after the peek
\* has sent nothing.
CallDropped(c) ==
  /\ \/ /\ stage[c] = "waiting"
        /\ \E n \in DOMAIN waiters :
             waiters[n] = c /\ waiters' = RemoveAt(waiters, n)
     \/ stage[c] = "cleared" /\ UNCHANGED waiters
  /\ Leave(c, "Dropped")
  /\ UNCHANGED <<state, owner, orphans, discord, faults, refused>>

-----------------------------------------------------------------------------
(* Discord (external): one initial acknowledgement; @original can be edited   *)
(* and deleted while it exists; followups need an acknowledged interaction.   *)

Accepts(r) ==
  CASE r[1] \in Initial -> original = "none"
    [] r[1] \in {"edit", "delete"} -> original \in Existing
    [] r[1] = "followup" -> original # "none"

Apply(r) ==
  /\ original' = CASE r[1] = "deferral" -> "loading"
                   [] r[1] \in {"message", "edit"} -> "message"
                   [] r[1] = "delete" -> "deleted"
                   [] r[1] = "followup" -> original
  /\ visibility' = IF r[1] \in Initial THEN r[2] ELSE visibility

DiscordAnswers(c) ==
  /\ stage[c] = "sending"
  /\ answer[c] = "none"
  /\ \/ /\ Accepts(request[c])
        /\ Apply(request[c])
        /\ answer' = [answer EXCEPT ![c] = "accepted"]
        /\ UNCHANGED refused
     \/ /\ ~Accepts(request[c])
        /\ answer' = [answer EXCEPT ![c] = "refused"]
        /\ refused' = TRUE
        /\ UNCHANGED discord
  /\ UNCHANGED <<local, request, orphans, faults>>

OrphanArrives(r) ==
  /\ r \in orphans
  /\ orphans' = orphans \ {r}
  /\ IF Accepts(r) THEN Apply(r) ELSE UNCHANGED discord
  /\ UNCHANGED <<local, request, answer, faults, refused>>

-----------------------------------------------------------------------------

\* One caller running on, or the answer to its request.
Progress(c) ==
  \/ Lock(c)
  \/ Decide(c)
  \/ SendFollowup(c)
  \/ DiscordAnswers(c)
  \/ CallSucceeds(c)
  \/ CallRefused(c)

Next ==
  \/ \E c \in Callers :
       \/ Call(c)
       \/ Progress(c)
       \/ CallGivenUp(c)
       \/ CallDropped(c)
  \/ \E r \in orphans : OrphanArrives(r)

Spec == Init /\ [][Next]_vars

\* Tasks are polled and REST requests are answered; nobody has to call or cancel.
FairSpec == Spec /\ \A c \in Callers : WF_vars(Progress(c))

-----------------------------------------------------------------------------
(* Safety.                                                                 *)

\* Whatever is lost, late or cancelled, the local state never claims more than
\* Discord has applied: a state past Pending means Discord took the callback, with
\* the deferral's own visibility; Responded means the original was filled in;
\* Deleted means it is gone (response.rs moves the state after `.await?`).
LocalTrailsDiscord ==
  /\ state # Pending => original # "none"
  /\ \A v \in Visibilities : state = Deferred(v) => visibility = v
  /\ state = Responded => original \in {"message", "deleted"}
  /\ state = Deleted => original = "deleted"

\* followup_inner reads the state, drops the guard and only then sends; still no
\* followup is ever under way before Discord has acknowledged the interaction.
FollowupsFollowAcknowledgement ==
  \A c \in Callers :
    stage[c] = "cleared" \/ request[c][1] = "followup" => original # "none"

\* Two clones never await initial acknowledgements together, whatever fails or is
\* dropped; and until a REST call is given up none is under way that nobody awaits,
\* so there is at most one in all (the mutex is held across the request).
OneInitialInFlight ==
  /\ \A c, d \in Callers :
       request[c][1] \in Initial /\ request[d][1] \in Initial => c = d
  /\ faults = 0 => \A r \in orphans : r[1] \notin Initial

\* As long as no REST call was given up, Discord never refuses a request: whatever
\* the interleaving of clones, each helper asks only for what is still possible.
RefusalsNeedFaults == refused => faults > 0

\* A reply that completes a deferral has the visibility the deferral fixed.
DeferralVisibilityKept ==
  \A c \in Callers :
    op[c][1] = "reply" /\ request[c][1] = "edit" => visibility = op[c][2]

\* The mutex is free unless somebody is inside a helper: no error path or dropped
\* future keeps it, and nobody waits for it twice or without being in the queue.
MutexDiscipline ==
  /\ \A c \in Callers :
       /\ stage[c] = "locked" => owner = c
       /\ owner = c => stage[c] \in {"locked", "sending"}
       /\ stage[c] = "waiting" <=> \E n \in DOMAIN waiters : waiters[n] = c
  /\ \A m, n \in DOMAIN waiters : waiters[m] = waiters[n] => m = n

\* The helpers promise what ResponseApi says: although each is spread over a lock, a
\* request and its answer, and may fail anywhere, together they act on the state as
\* if one at a time, and each returns what that state calls for.
Api == INSTANCE ResponseApi WITH calling <- op
HelpersAreAtomic == Api!ASpec

-----------------------------------------------------------------------------
(* Liveness.                                                               *)

\* Every helper returns: the mutex starves nobody although other clones keep
\* calling, and no outcome of a request leaves it locked.
CallsReturn == \A c \in Callers : stage[c] = "waiting" ~> stage[c] = "idle"

-----------------------------------------------------------------------------
(* What README.md:368 says of concurrency and README.md:379 of failures.     *)

\* "Response transitions are serialized so concurrent handlers cannot accidentally
\* send two initial acknowledgements": no clone sends one while another is under way,
\* be that one awaited or left behind by a helper that was dropped.
NeverTwoInitials ==
  \A c \in Callers : request[c][1] \in Initial => \A r \in orphans : r[1] \notin Initial

\* "failed acknowledgements remain retryable": with no call under way, a Pending
\* interaction is one whose initial acknowledgement Discord would still take.
PendingStaysRetryable == state = Pending /\ owner = Nobody => original = "none"
=============================================================================
