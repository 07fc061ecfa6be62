---------------------------- MODULE CooldownProofs ----------------------------
(* Theorems about Cooldown, for all executions and interactions, every policy  *)
(* and every clock.                                                           *)
EXTENDS Cooldown, TLAPS

\* Who awaits the mutex, or got past it, read the clock before; who awaits a check
\* has one left.
Stamped ==
  \A e \in Executions :
    /\ pc[e] \in {"cooldown", "lock"} => HasCooldown
    /\ pc[e] = "lock" \/ (Accepted(e) /\ HasCooldown) =>
         /\ UserOf(e) \in Users
         /\ stamp[e] <= clock
         /\ stamp[e] + Duration <= LastInstant
    /\ pc[e] # "done" => verdict[e] = "none"
    /\ pc[e] = "new" => passed[e] = 0
    /\ pc[e] = "checks" => passed[e] < policy.checks

CooldownInv == TypeOK /\ Stamped /\ BindingReservationsKept

\* The policy is one of those assumed, and does not change.
LEMMA PolicyTyped ==
  ASSUME policy \in Policies
  PROVE  policy.checks \in Nat /\ (HasCooldown => Duration \in Nat)
  BY CooldownAssumption DEF Duration, HasCooldown

LEMMA UserTyped ==
  ASSUME NEW e \in Executions
  PROVE  UserOf(e) \in Users \cup {Absent}
  BY CooldownAssumption DEF UserOf

LEMMA PolicyFixed == [Next]_vars => policy' = policy /\ Duration' = Duration
                                     /\ (HasCooldown' <=> HasCooldown)
<1>1. [Next]_vars => policy' = policy
  BY DEF Next, vars, PassGates, CheckReturns, Stamp, Reject, Accept, Abort, Tick, Quiet
<1>. QED
  BY <1>1 DEF Duration, HasCooldown

\* The map after an accepted execution, entry by entry.
LEMMA AcceptedMap ==
  ASSUME NEW e \in Executions, NEW map,
         map = Pruned(Inserted(deadlines, e), e)
  PROVE  /\ DOMAIN map \subseteq DOMAIN deadlines \cup {UserOf(e)}
         /\ \A u \in DOMAIN map :
              map[u] = IF u = UserOf(e) THEN ReadyAt(e) ELSE deadlines[u]
         /\ \A u \in DOMAIN deadlines \ {UserOf(e)} : deadlines[u] > stamp[e] => u \in DOMAIN map
         /\ ReadyAt(e) > stamp[e] => UserOf(e) \in DOMAIN map
  BY DEF Pruned, Inserted, Restrict

LEMMA InitCooldown == Init => CooldownInv
<1>. SUFFICES ASSUME Init PROVE CooldownInv
  OBVIOUS
<1>1. TypeOK
  BY CooldownAssumption DEF Init, TypeOK, Verdicts
<1>2. Stamped /\ BindingReservationsKept
  BY DEF Init, Stamped, BindingReservationsKept, Accepted
<1>. QED
  BY <1>1, <1>2 DEF CooldownInv

\* What Proceed does to the place and the verdict of its execution.
LEMMA ProceedStep ==
  ASSUME TypeOK, NEW e \in Executions, NEW n \in Nat, Proceed(e, n)
  PROVE  /\ pc' \in [Executions -> {"new", "checks", "cooldown", "lock", "done"}]
         /\ verdict' \in [Executions -> Verdicts]
         /\ \A f \in Executions \ {e} : pc'[f] = pc[f] /\ verdict'[f] = verdict[f]
         /\ \/ pc'[e] = "checks" /\ verdict'[e] = verdict[e] /\ n < policy.checks
            \/ /\ pc'[e] = "cooldown" /\ verdict'[e] = verdict[e]
               /\ HasCooldown /\ n >= policy.checks
            \/ pc'[e] = "done" /\ verdict'[e] = "Ok" /\ ~HasCooldown /\ n >= policy.checks
<1>. USE DEF TypeOK, Verdicts
<1>1. CASE n < policy.checks /\ pc' = [pc EXCEPT ![e] = "checks"] /\ UNCHANGED verdict
  BY <1>1
<1>2. CASE n >= policy.checks /\ HasCooldown
           /\ pc' = [pc EXCEPT ![e] = "cooldown"] /\ UNCHANGED verdict
  BY <1>2
<1>3. CASE n >= policy.checks /\ ~HasCooldown /\ Return(e, "Ok")
  BY <1>3 DEF Return
<1>. QED
  BY <1>1, <1>2, <1>3 DEF Proceed

LEMMA StampStep == CooldownInv /\ [Next]_vars => Stamped'
<1>. SUFFICES ASSUME CooldownInv, [Next]_vars PROVE Stamped'
  OBVIOUS
<1>0. /\ policy.checks \in Nat /\ (HasCooldown => Duration \in Nat)
      /\ policy' = policy /\ Duration' = Duration /\ (HasCooldown' <=> HasCooldown)
      /\ LastInstant \in Nat
  BY PolicyTyped, PolicyFixed, CooldownAssumption DEF CooldownInv, TypeOK
<1>. USE <1>0 DEF CooldownInv, Stamped, Accepted
<1>1. ASSUME NEW e \in Executions, PassGates(e) PROVE Stamped'
  <2>1. CASE Proceed(e, 0)
    BY <1>1, <2>1, ProceedStep DEF PassGates
  <2>2. CASE ~Proceed(e, 0)
    BY <1>1, <2>2 DEF PassGates, Return, TypeOK, Verdicts
  <2>. QED
    BY <2>1, <2>2
<1>2. ASSUME NEW e \in Executions, CheckReturns(e) PROVE Stamped'
  <2>1. CASE passed' = [passed EXCEPT ![e] = @ + 1] /\ Proceed(e, passed[e] + 1)
    <3>1. passed[e] + 1 \in Nat
      BY DEF TypeOK
    <3>. QED
      BY <1>2, <2>1, <3>1, ProceedStep DEF CheckReturns, TypeOK
  <2>2. CASE (Return(e, "CheckFailed") \/ Return(e, "CheckError")) /\ UNCHANGED passed
    BY <1>2, <2>2 DEF CheckReturns, Return, TypeOK, Verdicts
  <2>. QED
    BY <1>2, <2>1, <2>2 DEF CheckReturns
<1>3. ASSUME NEW e \in Executions, Stamp(e) PROVE Stamped'
  BY <1>3, UserTyped DEF Stamp, ReadyAtExists, Return, TypeOK, Verdicts
<1>4. ASSUME NEW e \in Executions, Reject(e) \/ Accept(e) \/ Abort(e) PROVE Stamped'
  BY <1>4 DEF Reject, Accept, Abort, Return, TypeOK, Verdicts
<1>5. CASE Tick
  BY <1>5 DEF Tick, TypeOK
<1>6. CASE UNCHANGED vars
  BY <1>6 DEF vars
<1>. QED
  BY <1>1, <1>2, <1>3, <1>4, <1>5, <1>6 DEF Next, Quiet

LEMMA TypeStep == CooldownInv /\ [Next]_vars => TypeOK'
<1>. SUFFICES ASSUME CooldownInv, [Next]_vars PROVE TypeOK'
  OBVIOUS
<1>0. /\ policy.checks \in Nat /\ (HasCooldown => Duration \in Nat)
      /\ policy' = policy /\ LastInstant \in Nat
  BY PolicyTyped, PolicyFixed, CooldownAssumption DEF CooldownInv, TypeOK
<1>. USE <1>0 DEF CooldownInv, TypeOK
<1>1. ASSUME NEW e \in Executions, PassGates(e) PROVE TypeOK'
  <2>1. CASE Proceed(e, 0)
    BY <1>1, <2>1, ProceedStep DEF PassGates
  <2>2. CASE ~Proceed(e, 0)
    BY <1>1, <2>2 DEF PassGates, Return, Verdicts
  <2>. QED
    BY <2>1, <2>2
<1>2. ASSUME NEW e \in Executions, CheckReturns(e) PROVE TypeOK'
  <2>1. CASE passed' = [passed EXCEPT ![e] = @ + 1] /\ Proceed(e, passed[e] + 1)
    <3>1. passed[e] + 1 \in Nat /\ passed[e] < policy.checks
      BY <1>2 DEF CheckReturns, Stamped
    <3>2. passed' \in [Executions -> 0..policy.checks]
      BY <2>1, <3>1
    <3>. QED
      BY <1>2, <2>1, <3>1, <3>2, ProceedStep DEF CheckReturns
  <2>2. CASE (Return(e, "CheckFailed") \/ Return(e, "CheckError")) /\ UNCHANGED passed
    BY <1>2, <2>2 DEF CheckReturns, Return, Verdicts
  <2>. QED
    BY <1>2, <2>1, <2>2 DEF CheckReturns
<1>3. ASSUME NEW e \in Executions, Stamp(e) PROVE TypeOK'
  BY <1>3 DEF Stamp, ReadyAtExists, Return, Verdicts
<1>4. ASSUME NEW e \in Executions, Reject(e) PROVE TypeOK'
  <2>1. deadlines[UserOf(e)] - stamp[e] \in 0..LastInstant
    BY <1>4 DEF Reject, OnCooldown
  <2>. QED
    BY <1>4, <2>1 DEF Reject, Return, Verdicts
<1>5. ASSUME NEW e \in Executions, Accept(e) PROVE TypeOK'
  <2>1. UserOf(e) \in Users /\ ReadyAt(e) \in 0..LastInstant
    BY <1>5 DEF Accept, Stamped, ReadyAt
  <2>2. DOMAIN deadlines' \subseteq Users
        /\ \A u \in DOMAIN deadlines' : deadlines'[u] \in 0..LastInstant
    BY <1>5, <2>1, AcceptedMap DEF Accept
  <2>. QED
    BY <1>5, <2>2 DEF Accept, Return, Verdicts
<1>6. ASSUME NEW e \in Executions, Abort(e) PROVE TypeOK'
  BY <1>6 DEF Abort, Return, Verdicts
<1>7. CASE Tick
  BY <1>7 DEF Tick
<1>8. CASE UNCHANGED vars
  BY <1>8 DEF vars
<1>. QED
  BY <1>1, <1>2, <1>3, <1>4, <1>5, <1>6, <1>7, <1>8 DEF Next, Quiet

\* Who is accepted under a policy with a cooldown passed through the map; every other
\* step leaves acceptances, their stamps and the map alone.
OtherStep(f) ==
  /\ Accepted(f) => Accepted(f)' /\ stamp'[f] = stamp[f]
  /\ HasCooldown /\ Accepted(f)' => Accepted(f)

LEMMA OtherSteps ==
  ASSUME CooldownInv, [Next]_vars, \A e \in Executions : ~Accept(e)
  PROVE  /\ \A f \in Executions : OtherStep(f)
         /\ deadlines' = deadlines
<1>. USE DEF CooldownInv, TypeOK, Accepted, Stamped, OtherStep
<1>0. policy.checks \in Nat
  BY PolicyTyped
<1>1. ASSUME NEW e \in Executions, PassGates(e)
      PROVE  (\A f \in Executions : OtherStep(f)) /\ deadlines' = deadlines
  <2>1. CASE Proceed(e, 0)
    BY <1>1, <2>1, ProceedStep DEF PassGates
  <2>2. CASE ~Proceed(e, 0)
    BY <1>1, <2>2 DEF PassGates, Return
  <2>. QED
    BY <2>1, <2>2
<1>2. ASSUME NEW e \in Executions, CheckReturns(e)
      PROVE  (\A f \in Executions : OtherStep(f)) /\ deadlines' = deadlines
  <2>1. CASE Proceed(e, passed[e] + 1)
    BY <1>0, <1>2, <2>1, ProceedStep DEF CheckReturns
  <2>2. CASE Return(e, "CheckFailed") \/ Return(e, "CheckError")
    BY <1>2, <2>2 DEF CheckReturns, Return
  <2>. QED
    BY <1>2, <2>1, <2>2 DEF CheckReturns
<1>3. ASSUME NEW e \in Executions, Stamp(e)
      PROVE  (\A f \in Executions : OtherStep(f)) /\ deadlines' = deadlines
  BY <1>3 DEF Stamp, Return
<1>4. ASSUME NEW e \in Executions, Reject(e) \/ Abort(e)
      PROVE  (\A f \in Executions : OtherStep(f)) /\ deadlines' = deadlines
  BY <1>4 DEF Reject, Abort, Return
<1>5. CASE Tick \/ UNCHANGED vars
  BY <1>5 DEF Tick, vars
<1>. QED
  BY <1>1, <1>2, <1>3, <1>4, <1>5 DEF Next, Quiet

\* A user whom a reservation still binds is not accepted, however old the stamp.
LEMMA BoundUserWaits ==
  ASSUME CooldownInv, NEW e \in Executions, Accept(e), NEW f \in Executions,
         Accepted(f), UserOf(f) = UserOf(e)
  PROVE  stamp[f] + Duration <= clock
<1>0. HasCooldown /\ Duration \in Nat
  BY PolicyTyped DEF Accept, CooldownInv, TypeOK, Stamped
<1>. SUFFICES ASSUME stamp[f] + Duration > clock PROVE FALSE
  BY <1>0, CooldownAssumption DEF CooldownInv, TypeOK
<1>1. UserOf(e) \in DOMAIN deadlines /\ deadlines[UserOf(e)] >= stamp[f] + Duration
  BY <1>0 DEF CooldownInv, BindingReservationsKept
<1>2. stamp[e] <= clock
  BY DEF Accept, CooldownInv, Stamped
<1>3. deadlines[UserOf(e)] > stamp[e]
  BY <1>0, <1>1, <1>2, CooldownAssumption DEF CooldownInv, TypeOK
<1>. QED
  BY <1>1, <1>3 DEF Accept, OnCooldown

LEMMA ReservationStep == CooldownInv /\ [Next]_vars => BindingReservationsKept'
<1>. SUFFICES ASSUME CooldownInv, [Next]_vars, NEW f \in Executions,
                     Accepted(f)', HasCooldown, stamp'[f] + Duration > clock'
              PROVE  /\ UserOf(f) \in DOMAIN deadlines'
                     /\ deadlines'[UserOf(f)] >= stamp'[f] + Duration
  BY PolicyFixed DEF BindingReservationsKept
<1>0. HasCooldown /\ Duration \in Nat /\ Duration' = Duration /\ LastInstant \in Nat
  BY PolicyFixed, PolicyTyped, CooldownAssumption DEF CooldownInv, TypeOK
<1>. USE <1>0 DEF CooldownInv, TypeOK
<1>1. ASSUME NEW e \in Executions, Accept(e)
      PROVE  /\ UserOf(f) \in DOMAIN deadlines'
             /\ deadlines'[UserOf(f)] >= stamp'[f] + Duration
  <2>0. /\ stamp[e] <= clock /\ UserOf(e) \in Users
        /\ stamp' = stamp /\ clock' = clock
        /\ f # e => (Accepted(f)' <=> Accepted(f))
    BY <1>1 DEF Accept, Stamped, Accepted, Return
  <2>1. CASE f = e
    <3>1. ReadyAt(e) > stamp[e]
      BY <2>0, <2>1 DEF ReadyAt
    <3>2. UserOf(e) \in DOMAIN deadlines' /\ deadlines'[UserOf(e)] = ReadyAt(e)
      BY <1>1, <3>1, AcceptedMap DEF Accept
    <3>. QED
      BY <2>0, <2>1, <3>2 DEF ReadyAt
  <2>2. CASE f # e /\ UserOf(f) = UserOf(e)
    BY <1>1, <2>0, <2>2, BoundUserWaits
  <2>3. CASE f # e /\ UserOf(f) # UserOf(e)
    <3>1. UserOf(f) \in DOMAIN deadlines /\ deadlines[UserOf(f)] >= stamp[f] + Duration
      BY <2>0, <2>3 DEF BindingReservationsKept
    <3>2. deadlines[UserOf(f)] > stamp[e]
      BY <2>0, <3>1
    <3>. QED
      BY <1>1, <2>0, <2>3, <3>1, <3>2, AcceptedMap DEF Accept
  <2>. QED
    BY <2>1, <2>2, <2>3
<1>2. CASE \A e \in Executions : ~Accept(e)
  <2>1. Accepted(f) /\ stamp'[f] = stamp[f] /\ deadlines' = deadlines
    BY <1>2, OtherSteps DEF OtherStep
  <2>2. clock' >= clock
    BY DEF Next, vars, PassGates, CheckReturns, Stamp, Reject, Accept, Abort, Tick, Quiet
  <2>3. clock' \in Nat
    BY TypeStep
  <2>. QED
    BY <2>1, <2>2, <2>3 DEF BindingReservationsKept
<1>. QED
  BY <1>1, <1>2

THEOREM CooldownInvariant == Spec => []CooldownInv
<1>1. CooldownInv /\ [Next]_vars => CooldownInv'
  BY TypeStep, StampStep, ReservationStep DEF CooldownInv
<1>. QED
  BY <1>1, InitCooldown, PTL DEF Spec

\* Every reachable state is well typed: retry_after never underflows and no deadline
\* passes the end of the clock.
THEOREM CooldownTypeCorrect == Spec => []TypeOK
  BY CooldownInvariant, PTL DEF CooldownInv

\* Pruning with a stale `now` never drops a reservation that still binds.
THEOREM ReservationsKept == Spec => []BindingReservationsKept
  BY CooldownInvariant, PTL DEF CooldownInv

\* No user is served before the cooldown of the last accepted execution is over.
THEOREM NotServedEarly == Spec => NoEarlyAcceptance
<1>1. CooldownInv /\ [Next]_vars =>
        \A e, f \in Executions :
          /\ ~Accepted(e) /\ verdict'[e] = "Ok"
          /\ Accepted(f) /\ UserOf(f) = UserOf(e)
          /\ HasCooldown
          => clock >= stamp[f] + Duration
  <2>. SUFFICES ASSUME CooldownInv, [Next]_vars, NEW e \in Executions, NEW f \in Executions,
                       ~Accepted(e), verdict'[e] = "Ok", Accepted(f), UserOf(f) = UserOf(e),
                       HasCooldown
                PROVE  clock >= stamp[f] + Duration
    OBVIOUS
  <2>1. Accept(e)
    <3>1. PICK d \in Executions : Accept(d)
      BY OtherSteps DEF Accepted, OtherStep
    <3>. QED
      BY <3>1 DEF Accept, Return, Accepted, CooldownInv, TypeOK
  <2>2. stamp[f] + Duration <= clock
    BY <2>1, BoundUserWaits
  <2>. QED
    BY <2>2, PolicyTyped, CooldownAssumption DEF CooldownInv, TypeOK
<1>. QED
  BY <1>1, CooldownInvariant, PTL DEF Spec, NoEarlyAcceptance

\* What the map owes to whom: each entry is the deadline of an accepted execution of
\* that user, and who got past the gates or the checks really passed them.
Charged ==
  \A u \in DOMAIN deadlines :
    \E e \in Executions :
      Accepted(e) /\ HasCooldown /\ UserOf(e) = u /\ deadlines[u] = stamp[e] + Duration

GatesPassed(e) == ContextAllowed(e) /\ MemberAllowed(e) /\ BotAllowed(e)

Vetted ==
  \A e \in Executions :
    /\ pc[e] \in {"checks", "cooldown", "lock"} \/ Accepted(e) => GatesPassed(e)
    /\ pc[e] \in {"cooldown", "lock"} \/ Accepted(e) => passed[e] = policy.checks

AccountInv == CooldownInv /\ Charged /\ Vetted /\ RejectionsJustified

LEMMA InitAccount == Init => AccountInv
<1>. SUFFICES ASSUME Init PROVE AccountInv
  OBVIOUS
<1>1. Charged /\ Vetted /\ RejectionsJustified
  BY DEF Init, Charged, Vetted, RejectionsJustified, Accepted
<1>. QED
  BY <1>1, InitCooldown DEF AccountInv

LEMMA ChargeStep == CooldownInv /\ Charged /\ [Next]_vars => Charged'
<1>. SUFFICES ASSUME CooldownInv, Charged, [Next]_vars, NEW u \in DOMAIN deadlines'
              PROVE  \E e \in Executions :
                       /\ Accepted(e)' /\ HasCooldown /\ UserOf(e) = u
                       /\ deadlines'[u] = stamp'[e] + Duration
  BY PolicyFixed DEF Charged
<1>1. ASSUME NEW e \in Executions, Accept(e), u = UserOf(e)
      PROVE  /\ Accepted(e)' /\ HasCooldown
             /\ deadlines'[u] = stamp'[e] + Duration
  <2>1. Accepted(e)' /\ HasCooldown /\ stamp' = stamp
    BY <1>1 DEF Accept, Return, Accepted, CooldownInv, TypeOK, Stamped
  <2>. QED
    BY <1>1, <2>1, AcceptedMap DEF Accept, ReadyAt
<1>2. ASSUME NEW e \in Executions, Accept(e), u # UserOf(e)
      PROVE  \E f \in Executions :
               /\ Accepted(f)' /\ HasCooldown /\ UserOf(f) = u
               /\ deadlines'[u] = stamp'[f] + Duration
  <2>1. u \in DOMAIN deadlines /\ deadlines'[u] = deadlines[u]
    BY <1>2, AcceptedMap DEF Accept
  <2>2. PICK f \in Executions :
          Accepted(f) /\ HasCooldown /\ UserOf(f) = u /\ deadlines[u] = stamp[f] + Duration
    BY <2>1 DEF Charged
  <2>3. Accepted(f)' /\ stamp'[f] = stamp[f]
    BY <1>2, <2>2 DEF Accept, Return, Accepted, CooldownInv, TypeOK
  <2>. QED
    BY <2>1, <2>2, <2>3
<1>3. CASE \A e \in Executions : ~Accept(e)
  <2>1. PICK f \in Executions :
          Accepted(f) /\ HasCooldown /\ UserOf(f) = u /\ deadlines[u] = stamp[f] + Duration
    BY <1>3, OtherSteps DEF Charged
  <2>. QED
    BY <1>3, <2>1, OtherSteps DEF OtherStep
<1>. QED
  BY <1>1, <1>2, <1>3

LEMMA VettedStep == CooldownInv /\ Vetted /\ [Next]_vars => Vetted'
<1>. SUFFICES ASSUME CooldownInv, Vetted, [Next]_vars PROVE Vetted'
  OBVIOUS
<1>0. /\ policy' = policy /\ policy.checks \in Nat
      /\ \A e \in Executions : GatesPassed(e)' <=> GatesPassed(e)
  BY PolicyFixed, PolicyTyped
  DEF CooldownInv, TypeOK, GatesPassed, ContextAllowed, MemberAllowed, BotAllowed
<1>. USE <1>0 DEF CooldownInv, TypeOK, Stamped, Vetted, Accepted
<1>1. ASSUME NEW e \in Executions, PassGates(e) PROVE Vetted'
  <2>1. CASE GatesPassed(e) /\ Proceed(e, 0)
    BY <1>1, <2>1, ProceedStep DEF PassGates
  <2>2. CASE ~GatesPassed(e)
    BY <1>1, <2>2 DEF PassGates, GatesPassed, Return, Verdicts
  <2>. QED
    BY <1>1, <2>1, <2>2 DEF PassGates, GatesPassed
<1>2. ASSUME NEW e \in Executions, CheckReturns(e) PROVE Vetted'
  <2>1. CASE passed' = [passed EXCEPT ![e] = @ + 1] /\ Proceed(e, passed[e] + 1)
    <3>1. passed[e] + 1 \in Nat /\ passed[e] < policy.checks /\ GatesPassed(e)
      BY <1>2 DEF CheckReturns
    <3>2. passed'[e] = passed[e] + 1 /\ \A f \in Executions \ {e} : passed'[f] = passed[f]
      BY <2>1
    <3>3. /\ \A f \in Executions \ {e} : pc'[f] = pc[f] /\ verdict'[f] = verdict[f]
          /\ \/ pc'[e] = "checks" /\ verdict'[e] = verdict[e]
             \/ passed[e] + 1 >= policy.checks
      BY <2>1, <3>1, ProceedStep
    <3>4. pc[e] = "checks" /\ ~Accepted(e)
      BY <1>2 DEF CheckReturns
    <3>5. passed'[e] = policy.checks \/ (pc'[e] = "checks" /\ verdict'[e] = verdict[e])
      BY <3>1, <3>2, <3>3
    <3>. QED
      BY <3>1, <3>2, <3>3, <3>4, <3>5
  <2>2. CASE (Return(e, "CheckFailed") \/ Return(e, "CheckError")) /\ UNCHANGED passed
    BY <1>2, <2>2 DEF CheckReturns, Return, Verdicts
  <2>. QED
    BY <1>2, <2>1, <2>2 DEF CheckReturns
<1>3. ASSUME NEW e \in Executions, Stamp(e) PROVE Vetted'
  BY <1>3 DEF Stamp, Return, Verdicts
<1>4. ASSUME NEW e \in Executions, Reject(e) \/ Accept(e) \/ Abort(e) PROVE Vetted'
  BY <1>4 DEF Reject, Accept, Abort, Return, Verdicts
<1>5. CASE Tick \/ UNCHANGED vars
  BY <1>5 DEF Tick, vars
<1>. QED
  BY <1>1, <1>2, <1>3, <1>4, <1>5 DEF Next, Quiet

\* Which step rejects, and what every other step does to a rejected execution and to
\* the accepted one that justifies it.
LEMMA RejectionStep ==
  ASSUME CooldownInv, [Next]_vars, NEW e \in Executions, verdict'[e] = "OnCooldown"
  PROVE  \/ Reject(e)
         \/ /\ verdict[e] = "OnCooldown"
            /\ retryAfter'[e] = retryAfter[e] /\ stamp'[e] = stamp[e]
<1>. USE DEF CooldownInv, TypeOK, Stamped, Return
<1>0. policy.checks \in Nat
  BY PolicyTyped
<1>1. ASSUME NEW f \in Executions, PassGates(f)
      PROVE  verdict[e] = "OnCooldown" /\ UNCHANGED <<retryAfter, stamp>>
  <2>1. CASE Proceed(f, 0)
    BY <1>1, <2>1, ProceedStep DEF PassGates, Accepted
  <2>2. CASE ~Proceed(f, 0)
    BY <1>1, <2>2 DEF PassGates
  <2>. QED
    BY <2>1, <2>2
<1>2. ASSUME NEW f \in Executions, CheckReturns(f)
      PROVE  verdict[e] = "OnCooldown" /\ UNCHANGED <<retryAfter, stamp>>
  <2>1. CASE Proceed(f, passed[f] + 1)
    BY <1>0, <1>2, <2>1, ProceedStep DEF CheckReturns
  <2>2. CASE Return(f, "CheckFailed") \/ Return(f, "CheckError")
    BY <1>2, <2>2 DEF CheckReturns
  <2>. QED
    BY <1>2, <2>1, <2>2 DEF CheckReturns
<1>3. ASSUME NEW f \in Executions, Stamp(f)
      PROVE  verdict[e] = "OnCooldown" /\ UNCHANGED retryAfter /\ stamp'[e] = stamp[e]
  BY <1>3 DEF Stamp
<1>4. ASSUME NEW f \in Executions, Reject(f), f # e
      PROVE  /\ verdict[e] = "OnCooldown"
             /\ retryAfter'[e] = retryAfter[e] /\ stamp'[e] = stamp[e]
  BY <1>4 DEF Reject
<1>5. ASSUME NEW f \in Executions, Accept(f) \/ Abort(f)
      PROVE  verdict[e] = "OnCooldown" /\ UNCHANGED <<retryAfter, stamp>>
  BY <1>5 DEF Accept, Abort
<1>6. CASE Tick \/ UNCHANGED vars
  BY <1>6 DEF Tick, vars
<1>. QED
  BY <1>1, <1>2, <1>3, <1>4, <1>5, <1>6 DEF Next, Quiet

LEMMA JustifiedStep == CooldownInv /\ Charged /\ RejectionsJustified /\ [Next]_vars
                         => RejectionsJustified'
<1>. SUFFICES ASSUME CooldownInv, Charged, RejectionsJustified, [Next]_vars,
                     NEW e \in Executions, verdict'[e] = "OnCooldown"
              PROVE  \E f \in Executions :
                       /\ f # e /\ Accepted(f)' /\ UserOf(f) = UserOf(e)
                       /\ retryAfter'[e] > 0
                       /\ stamp'[e] + retryAfter'[e] = stamp'[f] + Duration
  BY PolicyFixed DEF RejectionsJustified
<1>1. CASE Reject(e)
  <2>1. PICK f \in Executions :
          /\ Accepted(f) /\ HasCooldown /\ UserOf(f) = UserOf(e)
          /\ deadlines[UserOf(e)] = stamp[f] + Duration
    BY <1>1 DEF Reject, OnCooldown, Charged
  <2>2. f # e /\ Accepted(f)' /\ stamp' = stamp
    BY <1>1, <2>1 DEF Reject, Return, Accepted, CooldownInv, TypeOK, Stamped
  <2>3. retryAfter'[e] = deadlines[UserOf(e)] - stamp[e] /\ deadlines[UserOf(e)] > stamp[e]
    BY <1>1 DEF Reject, OnCooldown, CooldownInv, TypeOK
  <2>4. stamp[e] \in Nat /\ deadlines[UserOf(e)] \in Nat
    BY <1>1, CooldownAssumption DEF Reject, OnCooldown, CooldownInv, TypeOK
  <2>. QED
    BY <2>1, <2>2, <2>3, <2>4
<1>2. CASE ~Reject(e)
  <2>1. /\ verdict[e] = "OnCooldown"
        /\ retryAfter'[e] = retryAfter[e] /\ stamp'[e] = stamp[e]
    BY <1>2, RejectionStep
  <2>2. PICK f \in Executions :
          /\ f # e /\ Accepted(f) /\ UserOf(f) = UserOf(e)
          /\ retryAfter[e] > 0
          /\ stamp[e] + retryAfter[e] = stamp[f] + Duration
    BY <2>1 DEF RejectionsJustified
  <2>3. Accepted(f)' /\ stamp'[f] = stamp[f]
    <3>1. ASSUME NEW d \in Executions, Accept(d) PROVE Accepted(f)' /\ stamp'[f] = stamp[f]
      BY <2>2, <3>1 DEF Accept, Return, Accepted, CooldownInv, TypeOK
    <3>. QED
      BY <2>2, <3>1, OtherSteps DEF OtherStep
  <2>. QED
    BY <2>1, <2>2, <2>3
<1>. QED
  BY <1>1, <1>2

THEOREM AccountInvariant == Spec => []AccountInv
<1>1. AccountInv /\ [Next]_vars => AccountInv'
  BY TypeStep, StampStep, ReservationStep, ChargeStep, VettedStep, JustifiedStep
  DEF AccountInv, CooldownInv
<1>. QED
  BY <1>1, InitAccount, PTL DEF Spec

\* A rejection is always owed to another execution of the same user that was accepted,
\* and retry_after ends exactly with that one's cooldown.
THEOREM RejectionsAreJustified == Spec => []RejectionsJustified
  BY AccountInvariant, PTL DEF AccountInv

\* What retry_after does keep within: the whole cooldown, and on top of it the time that
\* the rejected execution awaited the mutex after it had read the clock.
RetryAfterWithinCooldownAndWait ==
  [][\A e \in Executions :
       verdict[e] # "OnCooldown" /\ verdict'[e] = "OnCooldown" =>
         0 < retryAfter'[e] /\ retryAfter'[e] <= Duration + (clock - stamp[e])]_vars

\* retry_after exceeds the cooldown only by what reserve_cooldown spent at the lock: no
\* reservation, whoever made it, reaches further than a cooldown from the present.
THEOREM RetryAfterBounded == Spec => RetryAfterWithinCooldownAndWait
<1>1. AccountInv /\ [Next]_vars =>
        [\A e \in Executions :
           verdict[e] # "OnCooldown" /\ verdict'[e] = "OnCooldown" =>
             0 < retryAfter'[e] /\ retryAfter'[e] <= Duration + (clock - stamp[e])]_vars
  <2>. SUFFICES ASSUME AccountInv, [Next]_vars, NEW e \in Executions,
                       verdict[e] # "OnCooldown", verdict'[e] = "OnCooldown"
                PROVE  0 < retryAfter'[e] /\ retryAfter'[e] <= Duration + (clock - stamp[e])
    OBVIOUS
  <2>1. Reject(e)
    BY RejectionStep DEF AccountInv
  <2>2. PICK f \in Executions :
          /\ Accepted(f) /\ HasCooldown
          /\ deadlines[UserOf(e)] = stamp[f] + Duration
    BY <2>1 DEF AccountInv, Charged, Reject, OnCooldown
  <2>3. stamp[f] <= clock
    BY <2>2 DEF AccountInv, CooldownInv, Stamped
  <2>4. /\ retryAfter'[e] = deadlines[UserOf(e)] - stamp[e]
        /\ deadlines[UserOf(e)] > stamp[e]
    BY <2>1 DEF Reject, OnCooldown, AccountInv, CooldownInv, TypeOK
  <2>5. stamp[e] \in Int /\ stamp[f] \in Int /\ clock \in Int /\ Duration \in Int
    BY <2>2, PolicyTyped DEF AccountInv, CooldownInv, TypeOK
  <2>. QED
    BY <2>2, <2>3, <2>4, <2>5
<1>. QED
  BY <1>1, AccountInvariant, PTL DEF Spec, RetryAfterWithinCooldownAndWait

\* Nobody is charged for an execution that a gate, a check or an error stopped.
THEOREM ChargesAreJustified == Spec => []OnlyAcceptedExecutionsCharge
<1>1. AccountInv => OnlyAcceptedExecutionsCharge
  <2>. SUFFICES ASSUME AccountInv, NEW u \in DOMAIN deadlines
                PROVE  \E e \in Executions :
                         LET i == Interaction[e]
                         IN  /\ Accepted(e) /\ u \in {i.user, i.memberUser}
                             /\ HasCooldown /\ deadlines[u] = stamp[e] + Duration
                             /\ policy.contexts = {} \/ i.context \in policy.contexts
                             /\ OrEmpty(policy.memberPermissions) \subseteq OrEmpty(i.memberPermissions)
                             /\ OrEmpty(policy.botPermissions) \subseteq OrEmpty(i.appPermissions)
                             /\ passed[e] = policy.checks
    BY DEF OnlyAcceptedExecutionsCharge
  <2>1. PICK e \in Executions :
          Accepted(e) /\ HasCooldown /\ UserOf(e) = u /\ deadlines[u] = stamp[e] + Duration
    BY DEF AccountInv, Charged
  <2>2. u \in {Interaction[e].user, Interaction[e].memberUser}
    BY <2>1 DEF UserOf
  <2>3. GatesPassed(e) /\ passed[e] = policy.checks
    BY <2>1 DEF AccountInv, Vetted
  <2>. QED
    BY <2>1, <2>2, <2>3 DEF GatesPassed, ContextAllowed, MemberAllowed, BotAllowed, Holds
<1>. QED
  BY <1>1, AccountInvariant, PTL
=============================================================================
