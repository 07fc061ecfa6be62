------------------------------ MODULE Cooldown ------------------------------
(***************************************************************************)
(* CommandPolicy::evaluate of one leaf                                      *)
(* (crates/gloam-commands/src/policy.rs).                                   *)
(*                                                                         *)
(* Executions of the leaf evaluate its policy concurrently in their own      *)
(* tasks.  Contexts and permissions are judged at once from the interaction, *)
(* custom checks are awaited; reserve_cooldown reads the clock, then awaits  *)
(* the mutex of the deadline map, then reads, inserts and prunes without     *)
(* another await.  Time passes between any two of these steps.               *)
(***************************************************************************)
EXTENDS Integers, FiniteSets, Functions

CONSTANTS Executions,   \* invocations of the leaf
          Users,
          Contexts,
          Permissions,
          Absent,       \* an Option that is None
          Interaction,  \* what Discord says of the interaction of each execution
          Policies,     \* policies the leaf may have been built with
          LastInstant   \* the largest Instant; also bounds the clock

ASSUME CooldownAssumption ==
  /\ Absent \notin Users \cup Contexts \cup Permissions
  /\ Interaction \in [Executions ->
       [context: {Absent} \cup Contexts,
        user: {Absent} \cup Users,
        memberUser: {Absent} \cup Users,
        memberPermissions: {Absent} \cup SUBSET Permissions,
        appPermissions: {Absent} \cup SUBSET Permissions]]
  /\ Policies \subseteq
       [contexts: SUBSET Contexts,
        memberPermissions: {Absent} \cup SUBSET Permissions,
        botPermissions: {Absent} \cup SUBSET Permissions,
        checks: Nat,
        cooldown: {Absent} \cup Nat]
  /\ LastInstant \in Nat

VARIABLES policy,      \* what the leaf was built with; never changes
          clock,       \* the monotonic clock
          pc,          \* where each execution is in evaluate
          passed,      \* custom checks it has passed
          stamp,       \* its `now`
          deadlines,   \* the HashMap: users to the instant they are ready again
          verdict,     \* what evaluate returned
          retryAfter   \* the duration CommandOnCooldown reports

vars == <<policy, clock, pc, passed, stamp, deadlines, verdict, retryAfter>>

Verdicts ==
  {"none", "ContextNotAllowed", "MissingMemberPermissions", "MissingBotPermissions",
   "CheckFailed", "CheckError", "UserUnavailable", "InvalidPolicy", "OnCooldown", "Ok",
   "Aborted"}

Duration == policy.cooldown
HasCooldown == Duration # Absent

TypeOK ==
  /\ policy \in Policies
  /\ clock \in 0..LastInstant
  /\ pc \in [Executions -> {"new", "checks", "cooldown", "lock", "done"}]
  /\ passed \in [Executions -> 0..policy.checks]
  /\ stamp \in [Executions -> 0..LastInstant]
  /\ DOMAIN deadlines \subseteq Users
  /\ \A u \in DOMAIN deadlines : deadlines[u] \in 0..LastInstant
  /\ verdict \in [Executions -> Verdicts]
  /\ retryAfter \in [Executions -> 0..LastInstant]

Init ==
  /\ policy \in Policies
  /\ clock = 0
  /\ pc = [e \in Executions |-> "new"]
  /\ passed = [e \in Executions |-> 0]
  /\ stamp = [e \in Executions |-> 0]
  /\ deadlines = <<>>
  /\ verdict = [e \in Executions |-> "none"]
  /\ retryAfter = [e \in Executions |-> 0]

-----------------------------------------------------------------------------

Return(e, v) ==
  /\ pc' = [pc EXCEPT ![e] = "done"]
  /\ verdict' = [verdict EXCEPT ![e] = v]

\* To the next check, to the cooldown once n checks are passed, or done.
Proceed(e, n) ==
  \/ n < policy.checks /\ pc' = [pc EXCEPT ![e] = "checks"] /\ UNCHANGED verdict
  \/ /\ n >= policy.checks /\ HasCooldown
     /\ pc' = [pc EXCEPT ![e] = "cooldown"]
     /\ UNCHANGED verdict
  \/ n >= policy.checks /\ ~HasCooldown /\ Return(e, "Ok")

ContextAllowed(e) ==
  policy.contexts # {} => Interaction[e].context \in policy.contexts

\* unwrap_or_else(Permissions::empty)
OrEmpty(permissions) == IF permissions = Absent THEN {} ELSE permissions

\* Mutant: `intersects` in place of `contains`.
HoldsAny(required, actual) ==
  OrEmpty(required) # {} => OrEmpty(required) \cap OrEmpty(actual) # {}

\* actual.contains(required), which an absent requirement does not ask.
Holds(required, actual) == OrEmpty(required) \subseteq OrEmpty(actual)

MemberAllowed(e) == Holds(policy.memberPermissions, Interaction[e].memberPermissions)
BotAllowed(e) == Holds(policy.botPermissions, Interaction[e].appPermissions)

\* Contexts, member permissions and bot permissions, the first denial returned.
PassGates(e) ==
  /\ pc[e] = "new"
  /\ \/ ~ContextAllowed(e) /\ Return(e, "ContextNotAllowed")
     \/ ContextAllowed(e) /\ ~MemberAllowed(e) /\ Return(e, "MissingMemberPermissions")
     \/ /\ ContextAllowed(e) /\ MemberAllowed(e) /\ ~BotAllowed(e)
        /\ Return(e, "MissingBotPermissions")
     \/ ContextAllowed(e) /\ MemberAllowed(e) /\ BotAllowed(e) /\ Proceed(e, 0)
  /\ UNCHANGED <<policy, clock, passed, stamp, deadlines, retryAfter>>

CheckReturns(e) ==
  /\ pc[e] = "checks"
  /\ \/ passed' = [passed EXCEPT ![e] = @ + 1] /\ Proceed(e, passed[e] + 1)
     \/ Return(e, "CheckFailed") /\ UNCHANGED passed
     \/ Return(e, "CheckError") /\ UNCHANGED passed
  /\ UNCHANGED <<policy, clock, stamp, deadlines, retryAfter>>

\* Mutant: saturating arithmetic let through.
ReadyAtUnchecked(now) == TRUE

\* now.checked_add(duration).is_some()
ReadyAtExists(now) == now + Duration <= LastInstant

\* The interaction's user, or else its member's.
UserOf(e) ==
  IF Interaction[e].user # Absent THEN Interaction[e].user ELSE Interaction[e].memberUser

\* reserve_cooldown up to the await of the mutex.
Stamp(e) ==
  /\ pc[e] = "cooldown"
  /\ \/ UserOf(e) = Absent /\ Return(e, "UserUnavailable") /\ UNCHANGED stamp
     \/ /\ UserOf(e) # Absent
        /\ ~ReadyAtExists(clock)
        /\ Return(e, "InvalidPolicy")
        /\ UNCHANGED stamp
     \/ /\ UserOf(e) # Absent
        /\ ReadyAtExists(clock)
        /\ stamp' = [stamp EXCEPT ![e] = clock]
        /\ pc' = [pc EXCEPT ![e] = "lock"]
        /\ UNCHANGED verdict
  /\ UNCHANGED <<policy, clock, passed, deadlines, retryAfter>>

OnCooldown(e) ==
  UserOf(e) \in DOMAIN deadlines /\ deadlines[UserOf(e)] > stamp[e]

Reject(e) ==
  /\ pc[e] = "lock"
  /\ OnCooldown(e)
  /\ retryAfter' = [retryAfter EXCEPT ![e] = deadlines[UserOf(e)] - stamp[e]]
  /\ Return(e, "OnCooldown")
  /\ UNCHANGED <<policy, clock, passed, stamp, deadlines>>

\* Mutant: the map is pruned of everything that is not this caller's.
PrunedToOwn(map, e) == Restrict(map, {UserOf(e)})

\* cooldowns.retain(deadline > now)
Pruned(map, e) == Restrict(map, {u \in DOMAIN map : map[u] > stamp[e]})

\* Mutant: a reservation lasts a tick longer than the cooldown.
ReadyAtLate(e) == stamp[e] + Duration + 1

ReadyAt(e) == stamp[e] + Duration

\* cooldowns.insert(user_id, ready_at)
Inserted(map, e) ==
  [u \in DOMAIN map \cup {UserOf(e)} |-> IF u = UserOf(e) THEN ReadyAt(e) ELSE map[u]]

\* The guarded section of an accepted execution: insert, then prune.
Accept(e) ==
  /\ pc[e] = "lock"
  /\ ~OnCooldown(e)
  /\ deadlines' = Pruned(Inserted(deadlines, e), e)
  /\ Return(e, "Ok")
  /\ UNCHANGED <<policy, clock, passed, stamp, retryAfter>>

\* The execution's task is aborted at an await.
Abort(e) ==
  /\ pc[e] \in {"checks", "lock"}
  /\ Return(e, "Aborted")
  /\ UNCHANGED <<policy, clock, passed, stamp, deadlines, retryAfter>>

Tick ==
  /\ clock < LastInstant
  /\ clock' = clock + 1
  /\ UNCHANGED <<policy, pc, passed, stamp, deadlines, verdict, retryAfter>>

Quiet ==
  /\ clock = LastInstant
  /\ \A e \in Executions : pc[e] = "done"
  /\ UNCHANGED vars

Next ==
  \/ \E e \in Executions :
       \/ PassGates(e)
       \/ CheckReturns(e)
       \/ Stamp(e)
       \/ Reject(e)
       \/ Accept(e)
       \/ Abort(e)
  \/ Tick
  \/ Quiet

Spec == Init /\ [][Next]_vars

-----------------------------------------------------------------------------
(* Safety.                                                                 *)

Accepted(e) == verdict[e] = "Ok"

\* A reservation made is not forgotten while it still binds: whatever other users
\* reserve and prune meanwhile, an accepted execution's deadline that lies ahead
\* of the clock is in the map, unless a later reservation of the user replaced it.
BindingReservationsKept ==
  \A e \in Executions :
    Accepted(e) /\ HasCooldown /\ stamp[e] + Duration > clock =>
      /\ UserOf(e) \in DOMAIN deadlines
      /\ deadlines[UserOf(e)] >= stamp[e] + Duration

\* The user is not served again before the cooldown is really over: at the moment
\* an execution is accepted, the deadline of every one accepted earlier for that
\* user has been reached, although `now` was read before the mutex was awaited.
NoEarlyAcceptance ==
  [][\A e, f \in Executions :
       /\ ~Accepted(e) /\ verdict'[e] = "Ok"
       /\ Accepted(f) /\ UserOf(f) = UserOf(e)
       /\ HasCooldown
       => clock >= stamp[f] + Duration]_vars

\* Only the user's own accepted execution makes one wait, and retry_after leads
\* exactly to the end of its cooldown.
RejectionsJustified ==
  \A e \in Executions :
    verdict[e] = "OnCooldown" =>
      \E f \in Executions :
        /\ f # e /\ Accepted(f) /\ UserOf(f) = UserOf(e)
        /\ retryAfter[e] > 0
        /\ stamp[e] + retryAfter[e] = stamp[f] + Duration

\* A cooldown is charged only to a user whose execution came in an allowed context,
\* held each permission the policy asks of the member and of the application, and
\* passed every check: a denied, failed, rejected or aborted evaluation leaves no
\* entry behind, and a policy without a cooldown none at all.
OnlyAcceptedExecutionsCharge ==
  \A u \in DOMAIN deadlines :
    \E e \in Executions :
      LET i == Interaction[e]
      IN  /\ Accepted(e) /\ u \in {i.user, i.memberUser}
          /\ HasCooldown /\ deadlines[u] = stamp[e] + Duration
          /\ policy.contexts = {} \/ i.context \in policy.contexts
          /\ OrEmpty(policy.memberPermissions) \subseteq OrEmpty(i.memberPermissions)
          /\ OrEmpty(policy.botPermissions) \subseteq OrEmpty(i.appPermissions)
          /\ passed[e] = policy.checks

-----------------------------------------------------------------------------
(* What the documents say of cooldowns.                                     *)

\* error.rs:101, "Remaining cooldown duration": it is at most the cooldown.
RetryAfterWithinCooldown ==
  \A e \in Executions : verdict[e] = "OnCooldown" => retryAfter[e] <= Duration
=============================================================================
