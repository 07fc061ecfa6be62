---------------------------- MODULE ResponseProofs ----------------------------
(* Theorems about Response, for every number of clones and of faults.         *)
EXTENDS Response, SequenceTheorems, TLAPS

(***************************************************************************)
(* The inductive invariant.  What a helper is allowed to record depends on  *)
(* what Discord did in answering it, and on nothing Discord applied later    *)
(* having undone that.                                                     *)
(***************************************************************************)

\* TypeOK but for the queue: FIFO order is not needed for what follows.
Typed ==
  /\ state \in ResponseState
  /\ stage \in [Callers -> {"idle", "waiting", "locked", "cleared", "sending"}]
  /\ op \in [Callers -> Ops \cup {NoOp}]
  /\ request \in [Callers -> Requests \cup {NoRequest}]
  /\ answer \in [Callers -> {"none", "accepted", "refused"}]
  /\ orphans \subseteq Requests
  /\ original \in {"none", "deleted"} \cup Existing
  /\ visibility \in Visibilities \cup {Unset}

\* A request exists exactly while its helper is sending; the lock is held from the
\* decision until then, except by followup.
Phase(c) ==
  /\ stage[c] = "sending" <=> request[c] # NoRequest
  /\ stage[c] = "idle" <=> op[c] = NoOp
  /\ answer[c] # "none" => stage[c] = "sending"
  /\ stage[c] = "cleared" => op[c][1] = "followup"
  /\ stage[c] = "locked" => owner = c
  /\ stage[c] = "sending" /\ op[c][1] # "followup" => owner = c
  /\ request[c][1] \in Initial => op[c][1] # "followup"

\* An accepted request has been applied, and nothing undoes it.
Applied(r) ==
  /\ r[1] = "deferral" => original # "none" /\ visibility = r[2]
  /\ r[1] \in {"message", "edit"} => original \in {"message", "deleted"}
  /\ r[1] = "delete" => original = "deleted"
  /\ r[1] = "followup" => original # "none"

Phases == \A c \in Callers : Phase(c)

AnswersApplied == \A c \in Callers : answer[c] = "accepted" => Applied(request[c])

\* Only the initial acknowledgement sets a visibility.
VisibilityFixed == visibility # Unset => original # "none"

ResponseInv ==
  /\ Typed
  /\ Phases
  /\ AnswersApplied
  /\ VisibilityFixed
  /\ LocalTrailsDiscord
  /\ FollowupsFollowAcknowledgement
  /\ DeferralVisibilityKept

LEMMA InitInv == Init => ResponseInv
<1>. SUFFICES ASSUME Init PROVE ResponseInv
  OBVIOUS
<1>1. Typed
  BY DEF Init, Typed, ResponseState, Pending, NoOp, NoRequest
<1>2. Phases /\ AnswersApplied
  BY ResponseAssumption
  DEF Init, Phases, Phase, AnswersApplied, NoOp, NoRequest, Initial
<1>3. /\ VisibilityFixed /\ LocalTrailsDiscord
      /\ FollowupsFollowAcknowledgement /\ DeferralVisibilityKept
  BY DEF Init, VisibilityFixed, LocalTrailsDiscord, FollowupsFollowAcknowledgement, DeferralVisibilityKept, NoOp,
         NoRequest, Pending, Deferred, Responded, Deleted
<1>. QED
  BY <1>1, <1>2, <1>3 DEF ResponseInv

\* What Discord applies never takes back what it has told anybody.
DiscordOnly ==
  /\ VisibilityFixed => VisibilityFixed'
  /\ original # "none" =>
       /\ original' # "none"
       /\ visibility' = visibility
       /\ original \in {"message", "deleted"} => original' \in {"message", "deleted"}
       /\ original = "deleted" => original' = "deleted"

LEMMA RequestShape ==
  ASSUME NEW r \in Requests
  PROVE  /\ r[1] \in {"message", "deferral", "edit", "delete", "followup"}
         /\ r[1] \in Initial => r[2] \in Visibilities
  BY DEF Requests, Initial

LEMMA Applying ==
  ASSUME NEW r \in Requests, Accepts(r), Apply(r)
  PROVE  DiscordOnly /\ Applied(r)'
<1>. USE RequestShape DEF Accepts, Apply, Applied, DiscordOnly, VisibilityFixed, Initial, Existing
<1>1. CASE r[1] = "deferral"
  BY <1>1
<1>2. CASE r[1] = "message"
  BY <1>2
<1>3. CASE r[1] = "edit"
  BY <1>3
<1>4. CASE r[1] = "delete"
  BY <1>4
<1>5. CASE r[1] = "followup"
  BY <1>5
<1>. QED
  BY <1>1, <1>2, <1>3, <1>4, <1>5

LEMMA AppliedKept ==
  ASSUME NEW r, Applied(r), DiscordOnly
  PROVE  Applied(r)'
  BY DEF Applied, DiscordOnly

(***************************************************************************)
(* The steps of the helpers.                                               *)
(***************************************************************************)

\* The helper is over, whatever it returned.
Left(c) ==
  /\ stage' = [stage EXCEPT ![c] = "idle"]
  /\ op' = [op EXCEPT ![c] = NoOp]
  /\ request' = [request EXCEPT ![c] = NoRequest]
  /\ answer' = [answer EXCEPT ![c] = "none"]

\* Whatever the helper, a decision returns, sends under the lock, or clears a
\* followup to be sent without it.
LEMMA DecisionCases ==
  ASSUME Typed, NEW c \in Callers, Decide(c)
  PROVE  \/ Unlock /\ Left(c)
         \/ \E r \in Requests :
              /\ StaysLocked /\ Send(c, r)
              /\ op[c][1] # "followup"
              /\ r[1] = "followup" => state # Pending
              /\ op[c][1] = "reply" /\ r[1] = "edit" => state = Deferred(op[c][2])
         \/ /\ Unlock /\ op[c][1] = "followup" /\ state # Pending
            /\ stage' = [stage EXCEPT ![c] = "cleared"]
            /\ UNCHANGED <<op, request, answer>>
<1>1. ASSUME NEW v \in Visibilities, DecideReply(c, v)
      PROVE  \/ Unlock /\ Left(c)
             \/ \E r \in Requests :
                  /\ StaysLocked /\ Send(c, r)
                  /\ op[c][1] # "followup"
                  /\ r[1] = "followup" => state # Pending
                  /\ op[c][1] = "reply" /\ r[1] = "edit" => state = Deferred(op[c][2])
  <2>1. op[c][1] = "reply" /\ op[c][2] = v
    BY <1>1 DEF DecideReply
  <2>2. /\ <<"message", v>> \in Requests
        /\ <<"edit", v>> \in Requests
        /\ <<"followup", v>> \in Requests
    BY DEF Requests
  <2>3. CASE state = Pending /\ StaysLocked /\ Send(c, <<"message", v>>)
    BY <2>1, <2>2, <2>3
  <2>4. CASE DeferredAs(v) /\ StaysLocked /\ Send(c, <<"edit", v>>)
    BY <2>1, <2>2, <2>4 DEF DeferredAs
  <2>5. CASE state \in {Responded, Deleted} /\ StaysLocked /\ Send(c, <<"followup", v>>)
    BY <2>1, <2>2, <2>5 DEF Responded, Deleted, Pending
  <2>6. CASE Unlock /\ Leave(c, "VisibilityMismatch")
    BY <2>6 DEF Leave, Left
  <2>. QED
    BY <1>1, <2>3, <2>4, <2>5, <2>6 DEF DecideReply
<1>2. ASSUME NEW v \in Visibilities, DecideDefer(c, v)
      PROVE  \/ Unlock /\ Left(c)
             \/ \E r \in Requests :
                  /\ StaysLocked /\ Send(c, r)
                  /\ op[c][1] # "followup"
                  /\ r[1] = "followup" => state # Pending
                  /\ op[c][1] = "reply" /\ r[1] = "edit" => state = Deferred(op[c][2])
  <2>1. <<"deferral", v>> \in Requests /\ op[c][1] = "defer"
    BY <1>2 DEF Requests, DecideDefer
  <2>. QED
    BY <1>2, <2>1 DEF DecideDefer, Leave, Left
<1>3. ASSUME DecideOriginal(c)
      PROVE  \/ Unlock /\ Left(c)
             \/ \E r \in Requests :
                  /\ StaysLocked /\ Send(c, r)
                  /\ op[c][1] # "followup"
                  /\ r[1] = "followup" => state # Pending
                  /\ op[c][1] = "reply" /\ r[1] = "edit" => state = Deferred(op[c][2])
  <2>1. op[c] \in Requests /\ op[c][1] \in {"edit", "delete"}
    BY <1>3 DEF Requests, DecideOriginal
  <2>. QED
    BY <1>3, <2>1 DEF DecideOriginal, Leave, Left
<1>4. ASSUME PeekFollowup(c)
      PROVE  \/ Unlock /\ Left(c)
             \/ /\ Unlock /\ op[c][1] = "followup" /\ state # Pending
                /\ stage' = [stage EXCEPT ![c] = "cleared"]
                /\ UNCHANGED <<op, request, answer>>
  BY <1>4 DEF PeekFollowup, IsAcknowledged, Leave, Left
<1>. QED
  BY <1>1, <1>2, <1>3, <1>4 DEF Decide

\* A REST call whose answer, or absence of one, ends the helper.
LEMMA EndCases ==
  ASSUME NEW c \in Callers, CallSucceeds(c) \/ CallRefused(c) \/ CallGivenUp(c) \/ CallDropped(c)
  PROVE  /\ Left(c)
         /\ UNCHANGED discord
         /\ stage[c] \in {"sending", "waiting", "cleared"}
         /\ CallSucceeds(c) \/ state' = state
         /\ ReleaseIfHeld(c) \/ (owner' = owner /\ stage[c] # "sending")
         /\ orphans' \in {orphans, orphans \cup {request[c]}}
         /\ orphans' # orphans => stage[c] = "sending"
  BY DEF CallSucceeds, CallRefused, CallGivenUp, CallDropped, StateAfterError, Leave, Left

LEMMA TypedStep == ResponseInv /\ [Next]_vars => Typed'
<1>. SUFFICES ASSUME ResponseInv, [Next]_vars PROVE Typed'
  OBVIOUS
<1>. USE DEF ResponseInv
<1>1. ASSUME NEW c \in Callers, Call(c) PROVE Typed'
  BY <1>1 DEF Call, Typed, discord
<1>2. ASSUME NEW c \in Callers, Lock(c) PROVE Typed'
  BY <1>2 DEF Lock, Typed, discord
<1>3. ASSUME NEW c \in Callers, Decide(c) PROVE Typed'
  <2>1. UNCHANGED <<state, orphans, discord>>
    BY <1>3 DEF Decide
  <2>2. CASE Left(c)
    BY <2>1, <2>2 DEF Left, Typed, discord
  <2>3. CASE \E r \in Requests : Send(c, r)
    BY <2>1, <2>3 DEF Send, Typed, discord
  <2>4. CASE stage' = [stage EXCEPT ![c] = "cleared"] /\ UNCHANGED <<op, request, answer>>
    BY <2>1, <2>4 DEF Typed, discord
  <2>. QED
    BY <1>3, <2>2, <2>3, <2>4, DecisionCases
<1>4. ASSUME NEW c \in Callers, SendFollowup(c) PROVE Typed'
  <2>1. <<"followup", op[c][2]>> \in Requests
    BY <1>4 DEF SendFollowup, Phases, Phase, Typed, Ops, NoOp, Requests
  <2>. QED
    BY <1>4, <2>1 DEF SendFollowup, Send, Typed, discord
<1>5. ASSUME NEW c \in Callers, DiscordAnswers(c) PROVE Typed'
  <2>1. request[c] \in Requests
    BY <1>5 DEF DiscordAnswers, Phases, Phase, Typed
  <2>2. original' \in {"none", "deleted"} \cup Existing /\ visibility' \in Visibilities \cup {Unset}
    <3>1. CASE Apply(request[c])
      BY <2>1, <3>1, RequestShape DEF Apply, Typed, Existing
    <3>2. CASE UNCHANGED discord
      BY <3>2 DEF discord, Typed
    <3>. QED
      BY <1>5, <3>1, <3>2 DEF DiscordAnswers
  <2>. QED
    BY <1>5, <2>2 DEF DiscordAnswers, Typed, local
<1>6. ASSUME NEW r \in orphans, OrphanArrives(r) PROVE Typed'
  <2>1. r \in Requests
    BY DEF Typed
  <2>2. original' \in {"none", "deleted"} \cup Existing /\ visibility' \in Visibilities \cup {Unset}
    <3>1. CASE Apply(r)
      BY <2>1, <3>1, RequestShape DEF Apply, Typed, Existing
    <3>2. CASE UNCHANGED discord
      BY <3>2 DEF discord, Typed
    <3>. QED
      BY <1>6, <3>1, <3>2 DEF OrphanArrives
  <2>. QED
    BY <1>6, <2>2 DEF OrphanArrives, Typed, local
<1>7. ASSUME NEW c \in Callers,
             CallSucceeds(c) \/ CallRefused(c) \/ CallGivenUp(c) \/ CallDropped(c)
      PROVE  Typed'
  <2>1. state' \in ResponseState
    <3>1. CASE CallSucceeds(c)
      <4>1. request[c] \in Requests
        BY <3>1 DEF CallSucceeds, Phases, Phase, Typed
      <4>. QED
        BY <3>1, <4>1, RequestShape
        DEF CallSucceeds, StateAfter, ResponseState, Typed, Initial
    <3>. QED
      BY <1>7, <3>1, EndCases DEF Typed
  <2>2. orphans' \subseteq Requests
    BY <1>7, EndCases DEF Phases, Phase, Typed
  <2>. QED
    BY <1>7, <2>1, <2>2, EndCases DEF Left, Typed, discord
<1>8. CASE UNCHANGED vars
  BY <1>8 DEF vars, local, discord, Typed
<1>. QED
  BY <1>1, <1>2, <1>3, <1>4, <1>5, <1>6, <1>7, <1>8 DEF Next, Progress

LEMMA PhaseStep == ResponseInv /\ [Next]_vars => Phases'
<1>. SUFFICES ASSUME ResponseInv, [Next]_vars, NEW d \in Callers PROVE Phase(d)'
  BY DEF Phases
<1>0. Phase(d) /\ \A c \in Callers : Phase(c)
  BY DEF ResponseInv, Phases
<1>t. Typed
  BY DEF ResponseInv
<1>. USE <1>0, <1>t DEF Phase, Typed, NoOp, NoRequest
<1>1. ASSUME NEW c \in Callers, Call(c) PROVE Phase(d)'
  <2>1. PICK o \in Ops : op' = [op EXCEPT ![c] = o]
    BY <1>1 DEF Call
  <2>2. o # NoOp /\ stage[c] = "idle" /\ request[c] = NoRequest /\ NoRequest[1] \notin Initial
    BY <1>1 DEF Call, Ops, Initial
  <2>3. answer'[c] = "none" /\ answer' = answer /\ request' = request /\ owner' = owner
        /\ stage' = [stage EXCEPT ![c] = "waiting"]
    BY <1>1 DEF Call
  <2>4. CASE d = c
    BY <2>1, <2>2, <2>3, <2>4
  <2>5. CASE d # c
    BY <2>1, <2>3, <2>5
  <2>. QED
    BY <2>4, <2>5
<1>2. ASSUME NEW c \in Callers, Lock(c) PROVE Phase(d)'
  BY <1>2, ResponseAssumption DEF Lock
<1>3. ASSUME NEW c \in Callers, Decide(c) PROVE Phase(d)'
  <2>1. stage[c] = "locked" /\ owner = c
    BY <1>3 DEF Decide
  <2>2. CASE Unlock /\ Left(c)
    BY <2>1, <2>2, ResponseAssumption DEF Unlock, Left, Initial
  <2>3. ASSUME NEW r \in Requests, StaysLocked, Send(c, r), op[c][1] # "followup"
        PROVE  Phase(d)'
    <3>1. r # NoRequest
      BY RequestShape DEF NoRequest
    <3>. QED
      BY <2>1, <2>3, <3>1 DEF StaysLocked, Send
  <2>4. CASE /\ Unlock /\ op[c][1] = "followup"
             /\ stage' = [stage EXCEPT ![c] = "cleared"]
             /\ UNCHANGED <<op, request, answer>>
    BY <2>1, <2>4, ResponseAssumption DEF Unlock
  <2>. QED
    BY <1>3, <2>2, <2>3, <2>4, DecisionCases
<1>4. ASSUME NEW c \in Callers, SendFollowup(c) PROVE Phase(d)'
  BY <1>4 DEF SendFollowup, Send, Initial
<1>5. ASSUME NEW c \in Callers, DiscordAnswers(c) PROVE Phase(d)'
  BY <1>5 DEF DiscordAnswers, local
<1>6. ASSUME NEW r \in orphans, OrphanArrives(r) PROVE Phase(d)'
  BY <1>6 DEF OrphanArrives, local
<1>7. ASSUME NEW c \in Callers,
             CallSucceeds(c) \/ CallRefused(c) \/ CallGivenUp(c) \/ CallDropped(c)
      PROVE  Phase(d)'
  <2>1. Left(c) /\ (ReleaseIfHeld(c) \/ owner' = owner) /\ stage[c] # "locked"
    BY <1>7, EndCases
  <2>. QED
    BY <2>1 DEF Left, ReleaseIfHeld, Initial
<1>8. CASE UNCHANGED vars
  BY <1>8 DEF vars, local
<1>. QED
  BY <1>1, <1>2, <1>3, <1>4, <1>5, <1>6, <1>7, <1>8 DEF Next, Progress

(***************************************************************************)
(* The steps of Discord, and what they leave true.                          *)
(***************************************************************************)

LEMMA DiscordForward ==
  ASSUME ResponseInv, [Next]_vars
  PROVE  DiscordOnly
<1>1. ASSUME NEW c \in Callers, DiscordAnswers(c) PROVE DiscordOnly
  <2>1. request[c] \in Requests
    BY <1>1 DEF DiscordAnswers, ResponseInv, Phases, Phase, Typed
  <2>. QED
    BY <1>1, <2>1, Applying DEF DiscordAnswers, DiscordOnly, VisibilityFixed, discord
<1>2. ASSUME NEW r \in orphans, OrphanArrives(r) PROVE DiscordOnly
  BY <1>2, Applying DEF OrphanArrives, DiscordOnly, VisibilityFixed, discord, ResponseInv, Typed
<1>3. ASSUME UNCHANGED discord PROVE DiscordOnly
  BY <1>3 DEF DiscordOnly, VisibilityFixed, discord
<1>4. ASSUME NEW c \in Callers, Call(c) \/ Lock(c) \/ Decide(c) \/ SendFollowup(c)
      PROVE  UNCHANGED discord
  BY <1>4 DEF Call, Lock, Decide, SendFollowup
<1>. QED
  BY <1>1, <1>2, <1>3, <1>4, EndCases DEF Next, Progress, vars


LEMMA AnswersStep == ResponseInv /\ [Next]_vars => AnswersApplied'
<1>. SUFFICES ASSUME ResponseInv, [Next]_vars, NEW d \in Callers, answer'[d] = "accepted",
                     NEW r, r = request'[d]
              PROVE  Applied(r)'
  BY DEF AnswersApplied, Applied
<1>0. Typed /\ Phases
  BY DEF ResponseInv
<1>1. CASE answer[d] = "accepted" /\ request'[d] = request[d]
  <2>1. Applied(r)
    BY <1>1 DEF ResponseInv, AnswersApplied, Applied
  <2>. QED
    BY <1>1, <2>1, DiscordForward, AppliedKept
<1>2. CASE \E c \in Callers : DiscordAnswers(c)
  <2>1. PICK c \in Callers : DiscordAnswers(c)
    BY <1>2
  <2>2. CASE d = c /\ Accepts(request[d]) /\ Apply(request[d])
    <3>1. r \in Requests /\ r = request[d]
      BY <1>0, <2>1, <2>2 DEF DiscordAnswers, Phases, Phase, Typed
    <3>2. Accepts(r) /\ Apply(r)
      BY <2>2, <3>1
    <3>. QED
      BY <3>1, <3>2, Applying
  <2>3. CASE d # c
    BY <1>0, <1>1, <2>1, <2>3 DEF DiscordAnswers, Typed
  <2>. QED
    BY <1>0, <2>1, <2>2, <2>3 DEF DiscordAnswers, Typed
<1>3. ASSUME NEW c \in Callers, Call(c) \/ Lock(c) \/ Decide(c) \/ SendFollowup(c)
      PROVE  answer[d] = "accepted" /\ request'[d] = request[d]
  <2>1. answer[c] = "none"
    BY <1>0, <1>3 DEF Phases, Phase, Typed, Call, Lock, Decide, SendFollowup
  <2>2. CASE Call(c) \/ Lock(c) \/ SendFollowup(c)
    BY <1>0, <2>1, <2>2 DEF Call, Lock, SendFollowup, Send, Typed
  <2>3. CASE Decide(c)
    BY <1>0, <2>1, <2>3, DecisionCases DEF Left, Send, Typed
  <2>. QED
    BY <1>3, <2>2, <2>3
<1>4. ASSUME NEW c \in Callers,
             CallSucceeds(c) \/ CallRefused(c) \/ CallGivenUp(c) \/ CallDropped(c)
      PROVE  answer[d] = "accepted" /\ request'[d] = request[d]
  BY <1>0, <1>4, EndCases DEF Left, Typed
<1>5. ASSUME NEW o \in orphans, OrphanArrives(o)
      PROVE  answer[d] = "accepted" /\ request'[d] = request[d]
  BY <1>5 DEF OrphanArrives
<1>6. CASE UNCHANGED vars
  BY <1>1, <1>6 DEF vars
<1>. QED
  BY <1>1, <1>2, <1>3, <1>4, <1>5, <1>6 DEF Next, Progress

LEMMA LocalTrailsStep == ResponseInv /\ [Next]_vars => LocalTrailsDiscord'
<1>. SUFFICES ASSUME ResponseInv, [Next]_vars PROVE LocalTrailsDiscord'
  OBVIOUS
<1>. USE DEF LocalTrailsDiscord, Pending, Deferred, Responded, Deleted
<1>1. ASSUME NEW c \in Callers, CallSucceeds(c) PROVE LocalTrailsDiscord'
  <2>1. /\ request[c] \in Requests /\ Applied(request[c])
        /\ state' = StateAfter(c) /\ UNCHANGED <<original, visibility>>
    BY <1>1 DEF CallSucceeds, ResponseInv, Phases, Phase, Typed, AnswersApplied, discord
  <2>2. CASE request[c][1] = "deferral"
    BY <2>1, <2>2 DEF StateAfter, Applied
  <2>3. CASE request[c][1] \in {"message", "edit"}
    BY <2>1, <2>3 DEF StateAfter, Applied
  <2>4. CASE request[c][1] = "delete"
    BY <2>1, <2>4 DEF StateAfter, Applied
  <2>5. CASE request[c][1] = "followup"
    BY <2>1, <2>5 DEF StateAfter, ResponseInv
  <2>. QED
    BY <2>1, <2>2, <2>3, <2>4, <2>5, RequestShape
<1>2. CASE state' = state
  BY <1>2, DiscordForward DEF DiscordOnly, ResponseInv
<1>3. ASSUME ~\E c \in Callers : CallSucceeds(c) PROVE state' = state
  <2>1. ASSUME NEW c \in Callers, Call(c) \/ Lock(c) \/ Decide(c) \/ SendFollowup(c)
               \/ DiscordAnswers(c)
        PROVE  state' = state
    BY <2>1 DEF Call, Lock, Decide, SendFollowup, DiscordAnswers, local
  <2>2. ASSUME NEW r \in orphans, OrphanArrives(r) PROVE state' = state
    BY <2>2 DEF OrphanArrives, local
  <2>. QED
    BY <1>3, <2>1, <2>2, EndCases DEF Next, Progress, vars, local
<1>. QED
  BY <1>1, <1>2, <1>3

LEMMA FollowupStep == ResponseInv /\ [Next]_vars => FollowupsFollowAcknowledgement'
<1>. SUFFICES ASSUME ResponseInv, [Next]_vars, NEW d \in Callers,
                     stage'[d] = "cleared" \/ request'[d][1] = "followup"
              PROVE  original' # "none"
  BY DEF FollowupsFollowAcknowledgement
<1>0. Typed /\ (state # Pending => original # "none")
  BY DEF ResponseInv, LocalTrailsDiscord
<1>1. stage[d] = "cleared" \/ request[d][1] = "followup" => original # "none"
  BY DEF ResponseInv, FollowupsFollowAcknowledgement
<1>. SUFFICES original # "none"
  BY DiscordForward DEF DiscordOnly
<1>2. ASSUME NEW c \in Callers, Decide(c) PROVE original # "none"
  BY <1>0, <1>1, <1>2, DecisionCases DEF Left, Send, Typed, NoRequest
<1>3. ASSUME NEW c \in Callers, Call(c) \/ Lock(c) \/ SendFollowup(c) PROVE original # "none"
  BY <1>0, <1>1, <1>3 DEF Call, Lock, SendFollowup, Send, Typed
<1>4. ASSUME NEW c \in Callers,
             CallSucceeds(c) \/ CallRefused(c) \/ CallGivenUp(c) \/ CallDropped(c)
      PROVE  original # "none"
  BY <1>0, <1>1, <1>4, EndCases DEF Left, Typed, NoRequest
<1>5. ASSUME NEW c \in Callers, DiscordAnswers(c) PROVE original # "none"
  BY <1>1, <1>5 DEF DiscordAnswers, local
<1>6. ASSUME NEW r \in orphans, OrphanArrives(r) PROVE original # "none"
  BY <1>1, <1>6 DEF OrphanArrives, local
<1>7. CASE UNCHANGED vars
  BY <1>1, <1>7 DEF vars, local
<1>. QED
  BY <1>2, <1>3, <1>4, <1>5, <1>6, <1>7 DEF Next, Progress

LEMMA VisibilityStep == ResponseInv /\ [Next]_vars => DeferralVisibilityKept'
<1>. SUFFICES ASSUME ResponseInv, [Next]_vars, NEW d \in Callers,
                     op'[d][1] = "reply", request'[d][1] = "edit"
              PROVE  visibility' = op'[d][2]
  BY DEF DeferralVisibilityKept
<1>0. Typed /\ LocalTrailsDiscord /\ VisibilityFixed
  BY DEF ResponseInv
<1>1. ASSUME op'[d] = op[d], visibility = op[d][2] PROVE visibility' = op'[d][2]
  <2>1. op[d][2] # Unset
    BY <1>0, <1>1 DEF Typed, Ops, NoOp, Visibilities, Unset
  <2>. QED
    BY <1>0, <1>1, <2>1, DiscordForward DEF DiscordOnly, VisibilityFixed
<1>2. ASSUME op'[d] = op[d], request'[d] = request[d] PROVE visibility' = op'[d][2]
  BY <1>1, <1>2 DEF ResponseInv, DeferralVisibilityKept
<1>3. ASSUME NEW c \in Callers, Decide(c) PROVE visibility' = op'[d][2]
  <2>1. CASE Left(c)
    BY <1>0, <1>2, <2>1 DEF Left, Typed, NoRequest
  <2>2. ASSUME NEW r \in Requests, Send(c, r),
               op[c][1] = "reply" /\ r[1] = "edit" => state = Deferred(op[c][2])
        PROVE  visibility' = op'[d][2]
    <3>1. op' = op /\ request' = [request EXCEPT ![c] = r]
      BY <2>2 DEF Send
    <3>2. CASE d = c
      <4>1. op[d][1] = "reply" /\ state = Deferred(op[d][2])
        BY <1>0, <2>2, <3>1, <3>2 DEF Typed
      <4>2. op[d][2] \in Visibilities
        BY <1>0, <4>1 DEF Typed, Ops, NoOp
      <4>3. visibility = op[d][2]
        BY <1>0, <4>1, <4>2 DEF LocalTrailsDiscord
      <4>. QED
        BY <1>1, <3>1, <4>3
    <3>3. CASE d # c
      BY <1>0, <1>2, <3>1, <3>3 DEF Typed
    <3>. QED
      BY <3>2, <3>3
  <2>3. CASE UNCHANGED <<op, request, answer>>
    BY <1>2, <2>3
  <2>. QED
    BY <1>0, <1>3, <2>1, <2>2, <2>3, DecisionCases
<1>4. ASSUME NEW c \in Callers, Call(c) PROVE visibility' = op'[d][2]
  <2>1. request[c] = NoRequest
    BY <1>4 DEF Call, ResponseInv, Phases, Phase
  <2>. QED
    BY <1>0, <1>2, <1>4, <2>1 DEF Call, Typed, NoRequest
<1>5. ASSUME NEW c \in Callers, Lock(c) \/ SendFollowup(c) PROVE visibility' = op'[d][2]
  BY <1>0, <1>2, <1>5 DEF Lock, SendFollowup, Send, Typed
<1>6. ASSUME NEW c \in Callers,
             CallSucceeds(c) \/ CallRefused(c) \/ CallGivenUp(c) \/ CallDropped(c)
      PROVE  visibility' = op'[d][2]
  BY <1>0, <1>2, <1>6, EndCases DEF Left, Typed, NoRequest
<1>7. ASSUME NEW c \in Callers, DiscordAnswers(c) PROVE visibility' = op'[d][2]
  BY <1>2, <1>7 DEF DiscordAnswers, local
<1>8. ASSUME NEW r \in orphans, OrphanArrives(r) PROVE visibility' = op'[d][2]
  BY <1>2, <1>8 DEF OrphanArrives, local
<1>9. CASE UNCHANGED vars
  BY <1>2, <1>9 DEF vars, local
<1>. QED
  BY <1>3, <1>4, <1>5, <1>6, <1>7, <1>8, <1>9 DEF Next, Progress

(***************************************************************************)
(* Theorems.                                                               *)
(***************************************************************************)

THEOREM ResponseInvariant == Spec => []ResponseInv
<1>1. ResponseInv /\ [Next]_vars => VisibilityFixed'
  BY DiscordForward DEF ResponseInv, DiscordOnly
<1>2. ResponseInv /\ [Next]_vars => ResponseInv'
  BY <1>1, TypedStep, PhaseStep, AnswersStep, LocalTrailsStep, FollowupStep, VisibilityStep
  DEF ResponseInv
<1>. QED
  BY <1>2, InitInv, PTL DEF Spec

\* Whatever is lost, late or cancelled, the local state claims nothing that Discord
\* has not applied.
THEOREM LocalNeverAhead == Spec => []LocalTrailsDiscord
  BY ResponseInvariant, PTL DEF ResponseInv

\* No followup is sent for an interaction Discord has not acknowledged, although the
\* guard is dropped between the look and the request.
THEOREM FollowupsAcknowledged == Spec => []FollowupsFollowAcknowledgement
  BY ResponseInvariant, PTL DEF ResponseInv

\* A reply never completes a deferral of the other visibility.
THEOREM VisibilityKept == Spec => []DeferralVisibilityKept
  BY ResponseInvariant, PTL DEF ResponseInv

(***************************************************************************)
(* Response implements ResponseApi.  A request under way was decided in the *)
(* state that is still there when it is answered.                          *)
(***************************************************************************)

StillRight(c) ==
  /\ stage[c] = "cleared" => state # Pending
  /\ request[c][1] \in Initial => state = Pending
  /\ request[c][1] = "message" => op[c][1] = "reply"
  /\ request[c][1] = "deferral" => op[c][1] = "defer" /\ request[c][2] = op[c][2]
  /\ request[c][1] = "edit" =>
       \/ op[c][1] = "edit" /\ state \notin {Pending, Deleted}
       \/ op[c][1] = "reply" /\ state = Deferred(op[c][2])
  /\ request[c][1] = "delete" => op[c][1] = "delete" /\ state \notin {Pending, Deleted}
  /\ request[c][1] = "followup" =>
       \/ op[c][1] = "followup" /\ state # Pending
       \/ op[c][1] = "reply" /\ state \in {Responded, Deleted}

ApiInv == ResponseInv /\ \A c \in Callers : StillRight(c)

LEMMA InitStillRight == Init => \A c \in Callers : StillRight(c)
  BY DEF Init, StillRight, NoRequest, Initial

\* The state moves only for the request of the mutex's owner, never back to Pending.
LEMMA StateMoves ==
  ASSUME ApiInv, NEW c \in Callers, CallSucceeds(c)
  PROVE  /\ state' # state => owner = c
         /\ state # Pending => state' # Pending
<1>1. request[c] \in Requests /\ stage[c] = "sending"
  BY DEF CallSucceeds, ApiInv, ResponseInv, Typed, Phases, Phase
<1>2. state' # state => request[c][1] \in {"message", "deferral", "edit", "delete"}
  BY <1>1, RequestShape DEF CallSucceeds, StateAfter
<1>3. request[c][1] \in {"message", "deferral", "edit", "delete"} => op[c][1] # "followup"
  BY DEF ApiInv, StillRight
<1>4. state # Pending => state' # Pending
  BY <1>1, RequestShape
  DEF CallSucceeds, StateAfter, Initial, Pending, Deferred, Responded, Deleted
<1>. QED
  BY <1>1, <1>2, <1>3, <1>4 DEF ApiInv, ResponseInv, Phases, Phase

\* A caller that does nothing stays right whatever another one does.
LEMMA OthersStayRight ==
  ASSUME ApiInv, NEW c \in Callers,
         stage'[c] = stage[c], op'[c] = op[c], request'[c] = request[c],
         \/ state' = state
         \/ \E d \in Callers \ {c} : CallSucceeds(d)
  PROVE  StillRight(c)'
<1>1. CASE state' = state
  BY <1>1 DEF ApiInv, StillRight
<1>2. ASSUME NEW d \in Callers \ {c}, CallSucceeds(d), state' # state PROVE StillRight(c)'
  <2>1. owner = d /\ (state # Pending => state' # Pending)
    BY <1>2, StateMoves
  <2>2. stage[c] = "sending" => op[c][1] = "followup"
    BY <1>2, <2>1 DEF ApiInv, ResponseInv, Phases, Phase
  <2>3. stage[c] # "sending" => request[c] = NoRequest
    BY DEF ApiInv, ResponseInv, Phases, Phase
  <2>4. op[c][1] = "followup" => request[c][1] \notin Initial \cup {"edit", "delete"}
    BY DEF ApiInv, ResponseInv, Phases, Phase, StillRight
  <2>. QED
    BY <2>1, <2>2, <2>3, <2>4 DEF ApiInv, StillRight, NoRequest, Initial
<1>. QED
  BY <1>1, <1>2

\* A decision sends what the state it was taken in allows.
LEMMA DecisionRight ==
  ASSUME ApiInv, NEW c \in Callers, Decide(c)
  PROVE  StillRight(c)'
<1>. USE DEF ApiInv, ResponseInv, Typed
<1>0. state' = state /\ stage[c] = "locked"
  BY DEF Decide
<1>1. CASE \E how : Leave(c, how)
  BY <1>1 DEF Leave, StillRight, NoRequest, Initial
<1>2. ASSUME NEW v \in Visibilities, DecideReply(c, v), ~ \E how : Leave(c, how)
      PROVE  StillRight(c)'
  BY <1>0, <1>2
  DEF DecideReply, DeferredAs, Send, StillRight, Initial, Responded, Deleted, Pending
<1>3. ASSUME NEW v \in Visibilities, DecideDefer(c, v), ~ \E how : Leave(c, how)
      PROVE  StillRight(c)'
  BY <1>0, <1>3 DEF DecideDefer, IsAcknowledged, Send, StillRight, Initial
<1>4. ASSUME DecideOriginal(c), ~ \E how : Leave(c, how) PROVE StillRight(c)'
  BY <1>0, <1>4 DEF DecideOriginal, Send, StillRight, Initial
<1>5. ASSUME PeekFollowup(c), ~ \E how : Leave(c, how) PROVE StillRight(c)'
  <2>1. request[c] = NoRequest
    BY <1>0 DEF Phases, Phase
  <2>. QED
    BY <1>0, <1>5, <2>1 DEF PeekFollowup, IsAcknowledged, StillRight, NoRequest, Initial
<1>. QED
  BY <1>1, <1>2, <1>3, <1>4, <1>5 DEF Decide

LEMMA StillRightStep == ApiInv /\ [Next]_vars => \A c \in Callers : StillRight(c)'
<1>. SUFFICES ASSUME ApiInv, [Next]_vars, NEW c \in Callers PROVE StillRight(c)'
  OBVIOUS
<1>. USE DEF ApiInv, ResponseInv, Typed
<1>1. ASSUME NEW d \in Callers, Call(d) PROVE StillRight(c)'
  <2>1. CASE d = c
    BY <1>1, <2>1 DEF Call, StillRight, Phases, Phase, NoRequest, Initial
  <2>2. CASE d # c
    BY <1>1, <2>2, OthersStayRight DEF Call
  <2>. QED
    BY <2>1, <2>2
<1>2. ASSUME NEW d \in Callers, Lock(d) PROVE StillRight(c)'
  BY <1>2 DEF Lock, StillRight
<1>3. ASSUME NEW d \in Callers, Decide(d) PROVE StillRight(c)'
  <2>1. CASE d # c
    <3>1. stage'[c] = stage[c] /\ op'[c] = op[c] /\ request'[c] = request[c]
      BY <1>3, <2>1, DecisionCases DEF Left, Send
    <3>. QED
      BY <1>3, <3>1, OthersStayRight DEF Decide
  <2>. QED
    BY <1>3, <2>1, DecisionRight
<1>4. ASSUME NEW d \in Callers, SendFollowup(d) PROVE StillRight(c)'
  <2>1. CASE d = c
    <3>1. op[c][1] = "followup" /\ state # Pending
      BY <1>4, <2>1 DEF SendFollowup, Phases, Phase, StillRight
    <3>. QED
      BY <1>4, <2>1, <3>1 DEF SendFollowup, Send, StillRight, Initial
  <2>2. CASE d # c
    BY <1>4, <2>2, OthersStayRight DEF SendFollowup, Send
  <2>. QED
    BY <2>1, <2>2
<1>5. ASSUME NEW d \in Callers, DiscordAnswers(d) PROVE StillRight(c)'
  BY <1>5 DEF DiscordAnswers, local, StillRight
<1>6. ASSUME NEW r \in orphans, OrphanArrives(r) PROVE StillRight(c)'
  BY <1>6 DEF OrphanArrives, local, StillRight
<1>7. ASSUME NEW d \in Callers,
             CallSucceeds(d) \/ CallRefused(d) \/ CallGivenUp(d) \/ CallDropped(d)
      PROVE  StillRight(c)'
  <2>1. CASE d = c
    BY <1>7, <2>1, EndCases DEF Left, StillRight, NoRequest, Initial
  <2>2. CASE d # c
    <3>1. stage'[c] = stage[c] /\ op'[c] = op[c] /\ request'[c] = request[c]
      BY <1>7, <2>2, EndCases DEF Left
    <3>. QED
      BY <1>7, <2>2, <3>1, EndCases, OthersStayRight
  <2>. QED
    BY <2>1, <2>2
<1>8. CASE UNCHANGED vars
  BY <1>8 DEF vars, local, StillRight
<1>. QED
  BY <1>1, <1>2, <1>3, <1>4, <1>5, <1>6, <1>7, <1>8 DEF Next, Progress

\* The answer to a request lets its operation succeed, and what the operation does in
\* ResponseApi is what the request's answer records.
LEMMA SuccessIsAtomic ==
  ASSUME ApiInv, NEW c \in Callers, CallSucceeds(c)
  PROVE  Api!Succeed(c)
<1>. USE DEF ApiInv, ResponseInv, Typed, Pending, Deferred, Responded, Deleted
<1>1. /\ request[c] \in Requests /\ stage[c] = "sending"
      /\ op[c] \in Ops /\ op[c] # NoOp
      /\ state' = StateAfter(c)
  BY DEF CallSucceeds, Phases, Phase
<1>2. Api!End(c, "Ok")
  BY <1>1 DEF CallSucceeds, Leave, Api!End, Api!Idle, Api!Unset, NoOp, Unset
<1>3. Api!Error(op[c]) = "none" /\ StateAfter(c) = Api!After(op[c])
  <2>. USE DEF StillRight, StateAfter, Api!Error, Api!After, Api!Is, Api!Unset, Unset, Initial
  <2>1. CASE request[c][1] = "message"
    BY <1>1, <2>1
  <2>2. CASE request[c][1] = "deferral"
    BY <1>1, <2>2
  <2>3. CASE request[c][1] = "edit"
    BY <1>1, <2>3 DEF ResponseState
  <2>4. CASE request[c][1] = "delete"
    BY <1>1, <2>4 DEF ResponseState
  <2>5. CASE request[c][1] = "followup"
    BY <1>1, <2>5 DEF ResponseState
  <2>. QED
    BY <1>1, <2>1, <2>2, <2>3, <2>4, <2>5, RequestShape
<1>. QED
  BY <1>1, <1>2, <1>3 DEF Api!Succeed

\* A decision that does not send, or clear a followup, returns the error of the state.
LEMMA DecisionIsAtomic ==
  ASSUME ApiInv, NEW c \in Callers, Decide(c)
  PROVE  Api!Refuse(c) \/ UNCHANGED <<state, op, outcome>>
<1>. USE DEF ApiInv, ResponseInv, Typed, Pending, Deferred, Responded, Deleted
<1>1. state' = state /\ stage[c] = "locked" /\ op[c] # NoOp
  BY DEF Decide, Phases, Phase
<1>2. ASSUME NEW how, how # "none", Leave(c, how), Api!Error(op[c]) = how
      PROVE  Api!Refuse(c)
  BY <1>1, <1>2 DEF Leave, Api!Refuse, Api!End, Api!Idle, Api!Unset, NoOp, Unset
<1>. USE DEF Api!Error, Api!Is
<1>3. ASSUME NEW v \in Visibilities, DecideReply(c, v)
      PROVE  Api!Refuse(c) \/ UNCHANGED <<op, outcome>>
  BY <1>1, <1>2, <1>3 DEF DecideReply, DeferredAs, Send
<1>4. ASSUME NEW v \in Visibilities, DecideDefer(c, v)
      PROVE  Api!Refuse(c) \/ UNCHANGED <<op, outcome>>
  BY <1>1, <1>2, <1>4 DEF DecideDefer, IsAcknowledged, Send, ResponseState
<1>5. ASSUME DecideOriginal(c) PROVE Api!Refuse(c) \/ UNCHANGED <<op, outcome>>
  BY <1>1, <1>2, <1>5 DEF DecideOriginal, Send
<1>6. ASSUME PeekFollowup(c) PROVE Api!Refuse(c) \/ UNCHANGED <<op, outcome>>
  BY <1>1, <1>2, <1>6 DEF PeekFollowup, IsAcknowledged
<1>. QED
  BY <1>1, <1>3, <1>4, <1>5, <1>6 DEF Decide

LEMMA StepIsAtomic == ApiInv /\ [Next]_vars => [Api!ANext]_(Api!apivars)
<1>. SUFFICES ASSUME ApiInv, [Next]_vars
              PROVE  Api!ANext \/ UNCHANGED <<state, op, outcome>>
  BY DEF Api!apivars
<1>. USE DEF ApiInv, ResponseInv
<1>1. ASSUME NEW c \in Callers, Call(c) PROVE Api!Begin(c)
  <2>1. op[c] = Api!Idle
    BY <1>1 DEF Call, Phases, Phase, Api!Idle, Api!Unset, NoOp, Unset
  <2>. QED
    BY <1>1, <2>1 DEF Call, Api!Begin, Api!Operations, Api!Visibilities, Api!Unset,
                      Ops, Visibilities, Unset
<1>2. ASSUME NEW c \in Callers, Lock(c) \/ SendFollowup(c) \/ DiscordAnswers(c)
      PROVE  UNCHANGED <<state, op, outcome>>
  BY <1>2 DEF Lock, SendFollowup, Send, DiscordAnswers, local
<1>3. ASSUME NEW c \in Callers, CallRefused(c) \/ CallGivenUp(c) \/ CallDropped(c)
      PROVE  Api!Fail(c)
  <2>1. op[c] # NoOp
    BY <1>3 DEF CallRefused, CallGivenUp, CallDropped, Phases, Phase
  <2>. QED
    BY <1>3, <2>1 DEF CallRefused, CallGivenUp, CallDropped, StateAfterError, Leave,
                      Api!Fail, Api!End, Api!Idle, Api!Unset, NoOp, Unset
<1>4. ASSUME NEW r \in orphans, OrphanArrives(r) PROVE UNCHANGED <<state, op, outcome>>
  BY <1>4 DEF OrphanArrives, local
<1>5. CASE UNCHANGED vars
  BY <1>5 DEF vars, local
<1>. QED
  BY <1>1, <1>2, <1>3, <1>4, <1>5, SuccessIsAtomic, DecisionIsAtomic
  DEF Next, Progress, Api!ANext

\* The helpers are atomic operations on the acknowledgement state, for any number of
\* clones: each call takes effect once and returns Ok, returns the error of the state it
\* is in, or fails and leaves the state alone.
THEOREM HelpersImplementApi == Spec => HelpersAreAtomic
<1>1. Init => \A c \in Callers : StillRight(c)
  BY InitStillRight
<1>2. ResponseInv /\ ResponseInv' /\ (\A c \in Callers : StillRight(c)) /\ [Next]_vars
        => (\A c \in Callers : StillRight(c))'
  BY StillRightStep DEF ApiInv
<1>3. Init => Api!AInit
  BY DEF Init, Api!AInit, Api!Idle, Api!Unset, Pending, NoOp, Unset
<1>. QED
  BY <1>1, <1>2, <1>3, ResponseInvariant, StepIsAtomic, PTL
  DEF ApiInv, Spec, HelpersAreAtomic, Api!ASpec

(***************************************************************************)
(* The mutex and its queue.                                                *)
(***************************************************************************)

Waits(c) == \E n \in DOMAIN waiters : waiters[n] = c

\* MutexDiscipline, with the queue's type.
QueueFacts ==
  /\ waiters \in Seq(Callers)
  /\ \A m, n \in DOMAIN waiters : waiters[m] = waiters[n] => m = n
  /\ \A c \in Callers : stage[c] = "waiting" <=> Waits(c)
  /\ \A c \in Callers : stage[c] = "locked" => owner = c
  /\ \A c \in Callers : owner = c => stage[c] \in {"locked", "sending"}

LEMMA Enqueued ==
  ASSUME waiters \in Seq(Callers), NEW c \in Callers, waiters' = Append(waiters, c)
  PROVE  /\ waiters' \in Seq(Callers)
         /\ \A d : Waits(d)' <=> Waits(d) \/ d = c
         /\ ~Waits(c) /\ (\A m, n \in DOMAIN waiters : waiters[m] = waiters[n] => m = n) =>
              \A m, n \in DOMAIN waiters' : waiters'[m] = waiters'[n] => m = n
<1>1. /\ waiters' \in Seq(Callers) /\ Len(waiters) \in Nat
      /\ DOMAIN waiters = 1..Len(waiters) /\ DOMAIN waiters' = 1..(Len(waiters) + 1)
      /\ waiters'[Len(waiters) + 1] = c
      /\ \A n \in DOMAIN waiters : waiters'[n] = waiters[n]
  OBVIOUS
<1>2. \A d : Waits(d)' <=> Waits(d) \/ d = c
  BY <1>1 DEF Waits
<1>3. ASSUME ~Waits(c), \A m, n \in DOMAIN waiters : waiters[m] = waiters[n] => m = n,
             NEW m \in DOMAIN waiters', NEW n \in DOMAIN waiters', waiters'[m] = waiters'[n]
      PROVE  m = n
  <2>1. \A k \in DOMAIN waiters : waiters[k] # c
    BY <1>3 DEF Waits
  <2>. QED
    BY <1>1, <1>3, <2>1
<1>. QED
  BY <1>1, <1>2, <1>3

\* Taking any place out of the queue, the first one included.
LEMMA Dequeued ==
  ASSUME waiters \in Seq(Callers), NEW i \in DOMAIN waiters, waiters' = RemoveAt(waiters, i),
         \A m, n \in DOMAIN waiters : waiters[m] = waiters[n] => m = n
  PROVE  /\ waiters' \in Seq(Callers)
         /\ \A d : Waits(d)' <=> Waits(d) /\ d # waiters[i]
         /\ \A m, n \in DOMAIN waiters' : waiters'[m] = waiters'[n] => m = n
<1>1. /\ Len(waiters) \in Nat /\ DOMAIN waiters = 1..Len(waiters) /\ i \in 1..Len(waiters)
  OBVIOUS
<1>. DEFINE before == SubSeq(waiters, 1, i - 1)
            behind == SubSeq(waiters, i + 1, Len(waiters))
<1>2. /\ before \in Seq(Callers) /\ Len(before) = i - 1
      /\ \A k \in 1..(i - 1) : before[k] = waiters[k]
  BY <1>1
<1>3. /\ behind \in Seq(Callers) /\ Len(behind) = Len(waiters) - i
      /\ \A k \in 1..(Len(waiters) - i) : behind[k] = waiters[i + k]
  BY <1>1
<1>4. waiters' = before \o behind
  BY DEF RemoveAt
<1>. HIDE DEF before, behind
<1>5. /\ waiters' \in Seq(Callers)
      /\ DOMAIN waiters' = 1..(Len(waiters) - 1)
      /\ \A k \in 1..(Len(waiters) - 1) :
           waiters'[k] = IF k < i THEN waiters[k] ELSE waiters[k + 1]
  <2>1. /\ waiters' \in Seq(Callers) /\ Len(waiters') = Len(waiters) - 1
        /\ DOMAIN waiters' = 1..Len(waiters')
    <3>1. /\ waiters' \in Seq(Callers)
          /\ Len(waiters') = Len(before) + Len(behind)
      BY <1>2, <1>3, <1>4, ConcatProperties
    <3>. QED
      BY <1>1, <1>2, <1>3, <3>1
  <2>2. ASSUME NEW k \in 1..(Len(waiters) - 1)
        PROVE  waiters'[k] = IF k < i THEN waiters[k] ELSE waiters[k + 1]
    <3>1. CASE k < i
      <4>1. k \in 1..Len(before) /\ waiters'[k] = before[k]
        BY <1>1, <1>2, <1>3, <1>4, <3>1
      <4>. QED
        BY <1>1, <1>2, <3>1, <4>1
    <3>2. CASE k >= i
      <4>1. /\ k - (i - 1) \in 1..(Len(waiters) - i)
            /\ waiters'[k] = behind[k - (i - 1)]
        BY <1>1, <1>2, <1>3, <1>4, <3>2
      <4>2. behind[k - (i - 1)] = waiters[i + (k - (i - 1))] /\ i + (k - (i - 1)) = k + 1
        BY <1>1, <1>3, <4>1
      <4>. QED
        BY <1>1, <3>2, <4>1, <4>2
    <3>. QED
      BY <1>1, <3>1, <3>2
  <2>. QED
    BY <2>1, <2>2
<1>6. ASSUME NEW d PROVE Waits(d)' <=> Waits(d) /\ d # waiters[i]
  <2>1. ASSUME NEW k \in DOMAIN waiters', waiters'[k] = d PROVE Waits(d) /\ d # waiters[i]
    BY <1>1, <1>5, <2>1 DEF Waits
  <2>2. ASSUME NEW k \in DOMAIN waiters, waiters[k] = d, d # waiters[i] PROVE Waits(d)'
    <3>1. CASE k < i
      BY <1>1, <1>5, <2>2, <3>1 DEF Waits
    <3>2. CASE k > i
      <4>1. k - 1 \in DOMAIN waiters' /\ waiters'[k - 1] = d
        BY <1>1, <1>5, <2>2, <3>2
      <4>. QED
        BY <4>1 DEF Waits
    <3>. QED
      BY <1>1, <2>2, <3>1, <3>2
  <2>. QED
    BY <2>1, <2>2 DEF Waits
<1>7. \A m, n \in DOMAIN waiters' : waiters'[m] = waiters'[n] => m = n
  BY <1>1, <1>5
<1>. QED
  BY <1>5, <1>6, <1>7

LEMMA HeadRemoved ==
  ASSUME waiters \in Seq(Callers), waiters # <<>>
  PROVE  1 \in DOMAIN waiters /\ Head(waiters) = waiters[1] /\ Tail(waiters) = RemoveAt(waiters, 1)
<1>1. Len(waiters) \in Nat \ {0} /\ DOMAIN waiters = 1..Len(waiters)
  OBVIOUS
<1>2. SubSeq(waiters, 1, 0) = <<>>
  BY <1>1
<1>. QED
  BY <1>1, <1>2 DEF RemoveAt

LEMMA QueueStep ==
  ASSUME ResponseInv, QueueFacts, [Next]_vars
  PROVE  QueueFacts'
<1>0. /\ stage \in [Callers -> {"idle", "waiting", "locked", "cleared", "sending"}]
      /\ Nobody \notin Callers
      /\ \A c \in Callers : stage[c] = "sending" /\ op[c][1] # "followup" => owner = c
  BY ResponseAssumption DEF ResponseInv, Typed, Phases, Phase
<1>. USE <1>0 DEF QueueFacts
<1>w. ASSUME UNCHANGED waiters PROVE \A d : Waits(d)' <=> Waits(d)
  BY <1>w DEF Waits
<1>1. ASSUME NEW c \in Callers, Call(c) PROVE QueueFacts'
  <2>1. /\ waiters' = Append(waiters, c) /\ ~Waits(c) /\ owner' = owner /\ owner # c
        /\ stage' = [stage EXCEPT ![c] = "waiting"]
    BY <1>1 DEF Call
  <2>. QED
    BY <2>1, Enqueued
<1>2. ASSUME NEW c \in Callers, Lock(c) PROVE QueueFacts'
  <2>1. /\ 1 \in DOMAIN waiters /\ waiters[1] = c /\ waiters' = RemoveAt(waiters, 1)
        /\ owner = Nobody /\ owner' = c /\ stage' = [stage EXCEPT ![c] = "locked"]
    BY <1>2, HeadRemoved DEF Lock
  <2>. QED
    BY <2>1, Dequeued
<1>3. ASSUME NEW c \in Callers, Decide(c) PROVE QueueFacts'
  <2>1. UNCHANGED waiters /\ stage[c] = "locked" /\ owner = c
    BY <1>3 DEF Decide
  <2>2. \/ owner' = Nobody /\ stage' = [stage EXCEPT ![c] = "idle"]
        \/ owner' = c /\ stage' = [stage EXCEPT ![c] = "sending"]
        \/ owner' = Nobody /\ stage' = [stage EXCEPT ![c] = "cleared"]
    <3>1. Typed
      BY DEF ResponseInv
    <3>. QED
      BY <1>3, <2>1, <3>1, DecisionCases DEF Unlock, StaysLocked, Left, Send
  <2>. QED
    BY <1>w, <2>1, <2>2
<1>4. ASSUME NEW c \in Callers, SendFollowup(c) PROVE QueueFacts'
  BY <1>4, <1>w DEF SendFollowup, Send
<1>5. ASSUME NEW c \in Callers, CallSucceeds(c) \/ CallRefused(c) \/ CallGivenUp(c)
      PROVE  QueueFacts'
  <2>1. /\ UNCHANGED waiters /\ stage[c] = "sending" /\ ReleaseIfHeld(c)
        /\ stage' = [stage EXCEPT ![c] = "idle"]
    BY <1>5 DEF CallSucceeds, CallRefused, CallGivenUp, Leave
  <2>. QED
    BY <1>w, <2>1 DEF ReleaseIfHeld
<1>6. ASSUME NEW c \in Callers, CallDropped(c) PROVE QueueFacts'
  <2>1. owner' = owner /\ owner # c /\ stage' = [stage EXCEPT ![c] = "idle"]
    BY <1>6 DEF CallDropped, Leave
  <2>2. CASE stage[c] = "cleared" /\ UNCHANGED waiters
    BY <1>w, <2>1, <2>2
  <2>3. ASSUME NEW n \in DOMAIN waiters, waiters[n] = c, waiters' = RemoveAt(waiters, n),
               stage[c] = "waiting"
        PROVE  QueueFacts'
    BY <2>1, <2>3, Dequeued
  <2>. QED
    BY <1>6, <2>2, <2>3 DEF CallDropped
<1>7. ASSUME NEW c \in Callers, DiscordAnswers(c) PROVE QueueFacts'
  BY <1>7, <1>w DEF DiscordAnswers, local
<1>8. ASSUME NEW r \in orphans, OrphanArrives(r) PROVE QueueFacts'
  BY <1>8, <1>w DEF OrphanArrives, local
<1>9. CASE UNCHANGED vars
  BY <1>9, <1>w DEF vars, local
<1>. QED
  BY <1>1, <1>2, <1>3, <1>4, <1>5, <1>6, <1>7, <1>8, <1>9 DEF Next, Progress

\* What TypeOK says beyond Typed and the queue.
Counted ==
  /\ owner \in Callers \cup {Nobody}
  /\ outcome \in [Callers -> {"none", "Ok", "Dropped"} \cup Errors]
  /\ faults \in 0..MaxFaults
  /\ refused \in BOOLEAN

LEMMA CountedStep == ResponseInv /\ Counted /\ [Next]_vars => Counted'
<1>. SUFFICES ASSUME ResponseInv, Counted, [Next]_vars PROVE Counted'
  OBVIOUS
<1>. USE ResponseAssumption DEF Counted
<1>1. ASSUME NEW c \in Callers, Call(c) \/ Lock(c) \/ SendFollowup(c) PROVE Counted'
  BY <1>1 DEF Call, Lock, SendFollowup, Send
<1>2. ASSUME NEW c \in Callers, Decide(c) PROVE Counted'
  <2>1. owner' \in Callers \cup {Nobody} /\ UNCHANGED <<faults, refused>>
    <3>1. Typed
      BY DEF ResponseInv
    <3>. QED
      BY <1>2, <3>1, DecisionCases DEF Decide, Unlock, StaysLocked
  <2>2. \/ UNCHANGED outcome
        \/ \E how \in Errors : outcome' = [outcome EXCEPT ![c] = how]
    BY <1>2 DEF Decide, DecideReply, DecideDefer, DecideOriginal, PeekFollowup, Leave, Send, Errors
  <2>. QED
    BY <2>1, <2>2
<1>3. ASSUME NEW c \in Callers, CallSucceeds(c) \/ CallRefused(c) \/ CallGivenUp(c) \/ CallDropped(c)
      PROVE  Counted'
  <2>1. owner' \in Callers \cup {Nobody}
    BY <1>3, EndCases DEF ReleaseIfHeld
  <2>2. refused' = refused /\ faults' \in 0..MaxFaults
    BY <1>3 DEF CallSucceeds, CallRefused, CallGivenUp, CallDropped
  <2>3. \E how \in {"Ok", "Dropped"} \cup Errors : outcome' = [outcome EXCEPT ![c] = how]
    BY <1>3 DEF CallSucceeds, CallRefused, CallGivenUp, CallDropped, Leave, Errors
  <2>. QED
    BY <2>1, <2>2, <2>3
<1>4. ASSUME NEW c \in Callers, DiscordAnswers(c) PROVE Counted'
  BY <1>4 DEF DiscordAnswers, local
<1>5. ASSUME NEW r \in orphans, OrphanArrives(r) PROVE Counted'
  BY <1>5 DEF OrphanArrives, local
<1>6. CASE UNCHANGED vars
  BY <1>6 DEF vars, local
<1>. QED
  BY <1>1, <1>2, <1>3, <1>4, <1>5, <1>6 DEF Next, Progress

MutexInv == QueueFacts /\ Counted

LEMMA MutexInvariant == Spec => []MutexInv
<1>1. Init => MutexInv
  <2>. SUFFICES ASSUME Init PROVE MutexInv
    OBVIOUS
  <2>1. waiters = <<>> /\ owner = Nobody /\ \A c \in Callers : stage[c] = "idle"
    BY DEF Init
  <2>2. QueueFacts
    BY <2>1, ResponseAssumption DEF QueueFacts, Waits
  <2>3. Counted
    <3>1. refused \in BOOLEAN
      BY Zenon DEF Init
    <3>2. owner = Nobody /\ faults = 0 /\ outcome = [c \in Callers |-> "none"]
      BY Zenon DEF Init
    <3>. QED
      BY <3>1, <3>2, ResponseAssumption DEF Counted
  <2>. QED
    BY <2>2, <2>3 DEF MutexInv
<1>2. ResponseInv /\ MutexInv /\ [Next]_vars => MutexInv'
  BY QueueStep, CountedStep DEF MutexInv
<1>. QED
  BY <1>1, <1>2, ResponseInvariant, PTL DEF Spec

\* Every variable of the clones, the queue and Discord keeps its type.
THEOREM ResponseTypeCorrect == Spec => []TypeOK
<1>1. ResponseInv /\ MutexInv => TypeOK
  BY DEF ResponseInv, Typed, MutexInv, QueueFacts, Counted, TypeOK
<1>. QED
  BY <1>1, ResponseInvariant, MutexInvariant, PTL

\* For any number of clones and however their helpers end or are dropped, nobody keeps
\* the mutex outside a helper, and the queue holds those who wait for it, each once.
THEOREM MutexIsHandedOver == Spec => []MutexDiscipline
<1>1. MutexInv => MutexDiscipline
  BY DEF MutexInv, QueueFacts, MutexDiscipline, Waits
<1>. QED
  BY <1>1, MutexInvariant, PTL

(***************************************************************************)
(* While no REST call is given up, what the local state says is what Discord *)
(* says, but for the one request of the mutex's owner that Discord has        *)
(* accepted and the owner has not yet recorded.                              *)
(***************************************************************************)

StateIsDiscords ==
  /\ state = Pending => original = "none"
  /\ state \notin {Pending, Deleted} => original \in Existing

Unrecorded(c) == answer[c] = "accepted" /\ request[c][1] # "followup"

InStep ==
  /\ ~refused
  /\ orphans = {}
  /\ \A c \in Callers : answer[c] # "refused"
  /\ (\A c \in Callers : ~Unrecorded(c)) => StateIsDiscords
  /\ \A c \in Callers : Unrecorded(c) /\ request[c][1] # "delete" => original \in Existing

Faultless == faults = 0 => InStep

\* A request that is no followup belongs to the owner of the mutex.
LEMMA OwnerSends ==
  ASSUME ApiInv, NEW c \in Callers, stage[c] = "sending", request[c][1] # "followup"
  PROVE  owner = c
<1>1. op[c][1] # "followup"
  BY RequestShape DEF ApiInv, StillRight, ResponseInv, Typed, Phases, Phase, Initial
<1>. QED
  BY <1>1 DEF ApiInv, ResponseInv, Phases, Phase

LEMMA DiscordWouldAccept ==
  ASSUME ApiInv, InStep, NEW c \in Callers, stage[c] = "sending", answer[c] = "none"
  PROVE  Accepts(request[c]) /\ (request[c][1] # "followup" => StateIsDiscords)
<1>1. request[c] \in Requests
  BY DEF ApiInv, ResponseInv, Phases, Phase, Typed
<1>2. CASE request[c][1] = "followup"
  <2>1. original # "none"
    BY <1>2 DEF ApiInv, ResponseInv, FollowupsFollowAcknowledgement
  <2>. QED
    BY <1>2, <2>1 DEF Accepts, Initial
<1>3. CASE request[c][1] # "followup"
  <2>1. \A d \in Callers : ~Unrecorded(d)
    <3>. SUFFICES ASSUME NEW d \in Callers, Unrecorded(d) PROVE FALSE
      OBVIOUS
    <3>1. stage[d] = "sending" /\ request[d][1] # "followup" /\ answer[d] = "accepted"
      BY DEF Unrecorded, ApiInv, ResponseInv, Phases, Phase
    <3>. QED
      BY <1>3, <3>1, OwnerSends
  <2>2. StateIsDiscords
    BY <2>1 DEF InStep
  <2>3. CASE request[c][1] \in Initial
    <3>1. original = "none"
      BY <2>2, <2>3 DEF ApiInv, StillRight, StateIsDiscords
    <3>2. Accepts(request[c])
      BY <2>3, <3>1 DEF Accepts, Initial
    <3>. QED
      BY <2>2, <3>2
  <2>4. CASE request[c][1] \in {"edit", "delete"}
    <3>1. state \notin {Pending, Deleted}
      BY <2>4 DEF ApiInv, StillRight, Pending, Deleted, Deferred
    <3>2. original \in Existing
      BY <2>2, <3>1 DEF StateIsDiscords
    <3>3. Accepts(request[c])
      BY <2>4, <3>2 DEF Accepts, Initial
    <3>. QED
      BY <2>2, <3>3
  <2>5. request[c][1] \in Initial \cup {"edit", "delete"}
    BY <1>1, <1>3, RequestShape DEF Initial
  <2>. QED
    BY <2>2, <2>3, <2>4, <2>5
<1>. QED
  BY <1>2, <1>3

LEMMA FaultlessStep ==
  ASSUME ApiInv, Counted, Faultless, [Next]_vars
  PROVE  Faultless'
<1>. SUFFICES ASSUME faults' = 0 PROVE InStep'
  BY DEF Faultless
<1>0. faults = 0 /\ InStep
  <2>1. faults \in Nat
    BY ResponseAssumption DEF Counted
  <2>2. faults' \in {faults, faults + 1}
    BY DEF Next, Progress, vars, Call, Lock, Decide, SendFollowup, DiscordAnswers, CallSucceeds,
           CallRefused, CallGivenUp, CallDropped, OrphanArrives
  <2>. QED
    BY <2>1, <2>2 DEF Faultless
<1>t. Typed /\ Phases
  BY DEF ApiInv, ResponseInv
<1>. USE <1>0, <1>t DEF InStep, StateIsDiscords, Unrecorded
<1>1. ASSUME UNCHANGED <<state, original, refused, orphans>>,
             \A c \in Callers : answer'[c] = answer[c] \/ answer'[c] = "none",
             \A c \in Callers : answer'[c] = "accepted" => request'[c] = request[c],
             \A c \in Callers : Unrecorded(c) => answer'[c] = answer[c] /\ request'[c] = request[c]
      PROVE  InStep'
  BY <1>1
<1>2. ASSUME NEW c \in Callers, Call(c) \/ Lock(c) \/ SendFollowup(c) PROVE InStep'
  <2>1. answer[c] = "none"
    BY <1>2 DEF Call, Lock, SendFollowup, Phases, Phase, Typed
  <2>. QED
    BY <1>1, <1>2, <2>1 DEF Call, Lock, SendFollowup, Send, discord, Typed
<1>3. ASSUME NEW c \in Callers, Decide(c) PROVE InStep'
  <2>1. answer[c] = "none" /\ UNCHANGED <<state, original, refused, orphans>>
    BY <1>3 DEF Decide, discord, Phases, Phase, Typed
  <2>. QED
    BY <1>1, <1>3, <2>1, DecisionCases DEF Left, Send, Typed
<1>4. ASSUME NEW c \in Callers, CallDropped(c) PROVE InStep'
  <2>1. answer[c] = "none"
    BY <1>4 DEF CallDropped, Phases, Phase, Typed
  <2>. QED
    BY <1>1, <1>4, <2>1 DEF CallDropped, Leave, discord, Typed
<1>5. ASSUME NEW c \in Callers, CallRefused(c) PROVE FALSE
  BY <1>5 DEF CallRefused
<1>6. ASSUME NEW c \in Callers, CallGivenUp(c) PROVE FALSE
  BY <1>6 DEF CallGivenUp
<1>7. ASSUME NEW c \in Callers, CallSucceeds(c) PROVE InStep'
  <2>0. /\ stage[c] = "sending" /\ answer[c] = "accepted" /\ request[c] \in Requests
        /\ UNCHANGED <<original, refused, orphans>> /\ state' = StateAfter(c)
        /\ \A d \in Callers \ {c} : answer'[d] = answer[d] /\ request'[d] = request[d]
        /\ answer'[c] = "none"
    BY <1>7 DEF CallSucceeds, Leave, discord, Phases, Phase, Typed
  <2>1. CASE request[c][1] = "followup"
    <3>1. state' = state
      BY <2>0, <2>1 DEF StateAfter
    <3>. QED
      BY <2>0, <2>1, <3>1
  <2>2. CASE request[c][1] = "delete"
    BY <2>0, <2>2 DEF StateAfter, Deleted, Pending
  <2>3. CASE request[c][1] \in {"message", "deferral", "edit"}
    <3>1. state' # Pending /\ original \in Existing
      BY <2>0, <2>3 DEF StateAfter, Deferred, Responded, Pending
    <3>. QED
      BY <2>0, <3>1
  <2>. QED
    BY <2>0, <2>1, <2>2, <2>3, RequestShape
<1>8. ASSUME NEW c \in Callers, DiscordAnswers(c) PROVE InStep'
  <2>1. stage[c] = "sending" /\ answer[c] = "none" /\ request[c] \in Requests
    BY <1>8 DEF DiscordAnswers, Phases, Phase, Typed
  <2>2. Accepts(request[c])
    BY <2>1, DiscordWouldAccept
  <2>3. /\ Apply(request[c]) /\ UNCHANGED <<state, refused, orphans>>
        /\ answer' = [answer EXCEPT ![c] = "accepted"] /\ request' = request
    BY <1>8, <2>2 DEF DiscordAnswers, local
  <2>4. CASE request[c][1] = "followup"
    <3>1. original' = original
      BY <2>3, <2>4 DEF Apply
    <3>. QED
      BY <2>1, <2>3, <2>4, <3>1 DEF Typed
  <2>5. CASE request[c][1] # "followup"
    <3>1. \A d \in Callers \ {c} : ~Unrecorded(d)
      BY <2>1, <2>5, OwnerSends DEF Phases, Phase
    <3>2. request[c][1] # "delete" => original' \in Existing
      BY <2>1, <2>3, <2>5, RequestShape DEF Apply, Existing
    <3>. QED
      BY <2>1, <2>3, <2>5, <3>1, <3>2 DEF Typed
  <2>. QED
    BY <2>4, <2>5
<1>9. ASSUME NEW r \in orphans, OrphanArrives(r) PROVE FALSE
  BY <1>9
<1>10. CASE UNCHANGED vars
  BY <1>1, <1>10 DEF vars, local, discord
<1>. QED
  BY <1>2, <1>3, <1>4, <1>5, <1>6, <1>7, <1>8, <1>9, <1>10 DEF Next, Progress

\* Discord is never ahead by more than one request while no REST call was given up.
LEMMA FaultlessAlways == Spec => []Faultless
<1>1. Init => Faultless /\ \A c \in Callers : StillRight(c)
  <2>1. Init => Faultless
    BY DEF Init, Faultless, InStep, StateIsDiscords, Unrecorded, Pending
  <2>. QED
    BY <2>1, InitStillRight
<1>2. /\ ResponseInv /\ ResponseInv' /\ MutexInv /\ [Next]_vars
      /\ Faultless /\ \A c \in Callers : StillRight(c)
      => (Faultless /\ \A c \in Callers : StillRight(c))'
  BY StillRightStep, FaultlessStep DEF ApiInv, MutexInv
<1>. QED
  BY <1>1, <1>2, ResponseInvariant, MutexInvariant, PTL DEF Spec

\* As long as every REST call is answered, Discord never refuses a helper's request,
\* whatever the number of clones and the order of their calls.
THEOREM RefusalsOnlyAfterFaults == Spec => []RefusalsNeedFaults
<1>1. Faultless /\ MutexInv => RefusalsNeedFaults
  BY ResponseAssumption DEF Faultless, InStep, RefusalsNeedFaults, MutexInv, Counted
<1>. QED
  BY <1>1, FaultlessAlways, MutexInvariant, PTL

\* Whatever the number of clones, two never await initial acknowledgements together,
\* and none is under way unawaited before a REST call was given up.
THEOREM InitialAlone == Spec => []OneInitialInFlight
<1>1. ResponseInv /\ Faultless => OneInitialInFlight
  <2>1. ASSUME ResponseInv, NEW c \in Callers, request[c][1] \in Initial PROVE owner = c
    <3>1. request[c] # NoRequest
      BY <2>1 DEF NoRequest, Initial
    <3>. QED
      BY <2>1, <3>1 DEF ResponseInv, Phases, Phase
  <2>. QED
    BY <2>1 DEF OneInitialInFlight, Faultless, InStep
<1>. QED
  BY <1>1, ResponseInvariant, FaultlessAlways, PTL
=============================================================================
