--------------------------- MODULE ExecutionProofs ---------------------------
(* Theorems about Execution, for every number of interactions, commands, hooks *)
(* and permits.                                                              *)
EXTENDS Execution, FiniteSetTheorems, SequenceTheorems, TLAPS

(***************************************************************************)
(* Typing.                                                                 *)
(***************************************************************************)

\* Entering a call, ending the task and concluding the pipeline keep the types
\* of what they change.
LEMMA EnterTyped ==
  ASSUME TypeOK, NEW i \in Interactions, NEW stage \in UserCalls, NEW k \in Nat,
         Enter(i, stage, k)
  PROVE  /\ pc' \in [Interactions -> Stages]
         /\ hook' \in [Interactions -> Nat]
         /\ calls' \in [Interactions -> Seq(Call)]
<1>1. <<stage, k>> \in Call
  BY DEF Call
<1>2. Append(calls[i], <<stage, k>>) \in Seq(Call)
  BY <1>1 DEF TypeOK
<1>. QED
  BY <1>2 DEF Enter, GoTo, TypeOK, Stages

LEMMA EndTaskTyped ==
  ASSUME TypeOK, NEW i \in Interactions, NEW verdict \in {"Ok", "Err", "Panicked", "Cancelled"},
         EndTask(i, verdict)
  PROVE  /\ pc' \in [Interactions -> Stages]
         /\ hook' \in [Interactions -> Nat]
         /\ calls' \in [Interactions -> Seq(Call)]
         /\ joined' \in [Interactions -> {"none", "Ok", "Err", "Panicked", "Cancelled"}]
  BY DEF EndTask, GoTo, TypeOK, Stages

LEMMA ConcludeTyped ==
  ASSUME TypeOK, NEW i \in Interactions, NEW r, Conclude(i, r)
  PROVE  /\ pc' \in [Interactions -> Stages]
         /\ hook' \in [Interactions -> Nat]
         /\ calls' \in [Interactions -> Seq(Call)]
         /\ joined' \in [Interactions -> {"none", "Ok", "Err", "Panicked", "Cancelled"}]
<1>1. CASE Enter(i, "errorHandler", 1) /\ UNCHANGED joined
  BY <1>1, EnterTyped DEF TypeOK, UserCalls, CommandCalls
<1>2. CASE \E verdict \in {"Ok", "Err"} : EndTask(i, verdict)
  BY <1>2, EndTaskTyped
<1>. QED
  BY <1>1, <1>2 DEF Conclude

LEMMA EnterBeforeTyped ==
  ASSUME TypeOK, NEW i \in Interactions, NEW k \in Nat, EnterBefore(i, k)
  PROVE  /\ pc' \in [Interactions -> Stages]
         /\ hook' \in [Interactions -> Nat]
         /\ calls' \in [Interactions -> Seq(Call)]
         /\ joined' \in [Interactions -> {"none", "Ok", "Err", "Panicked", "Cancelled"}]
<1>1. CASE Enter(i, "before", k)
  BY <1>1, EnterTyped DEF EnterBefore, TypeOK, UserCalls, CommandCalls
<1>2. CASE Enter(i, "handler", 1)
  BY <1>2, EnterTyped DEF EnterBefore, TypeOK, UserCalls, CommandCalls
<1>. QED
  BY <1>1, <1>2 DEF EnterBefore

LEMMA EnterAfterTyped ==
  ASSUME TypeOK, NEW i \in Interactions, NEW k \in Nat, NEW r, EnterAfter(i, k, r)
  PROVE  /\ pc' \in [Interactions -> Stages]
         /\ hook' \in [Interactions -> Nat]
         /\ calls' \in [Interactions -> Seq(Call)]
         /\ joined' \in [Interactions -> {"none", "Ok", "Err", "Panicked", "Cancelled"}]
<1>1. CASE Enter(i, "after", k) /\ UNCHANGED joined
  BY <1>1, EnterTyped DEF TypeOK, UserCalls, CommandCalls
<1>2. CASE Conclude(i, r)
  BY <1>2, ConcludeTyped
<1>. QED
  BY <1>1, <1>2 DEF EnterAfter

\* What a returning call records of its result.
LEMMA RunningTyped ==
  ASSUME TypeOK, NEW i \in Interactions, pc[i] \in UserCalls
  PROVE  /\ Running(i) \in Call
         /\ Running(i) # NoError
         /\ Fails(i) => failures' \in [Interactions -> Seq(Call)]
<1>1. Running(i) \in Call /\ Running(i) # NoError
  BY DEF Running, Call, NoError, TypeOK, UserCalls, CommandCalls, AutocompleteCalls
<1>2. Append(failures[i], Running(i)) \in Seq(Call)
  BY <1>1 DEF TypeOK
<1>. QED
  BY <1>1, <1>2 DEF Fails, TypeOK

LEMMA ReturnedPermitTyped ==
  ASSUME TypeOK, NEW i \in Interactions, ReturnCommandPermit(i)
  PROVE  commandFree' \in [Limited -> Nat] /\ commandHeld' \subseteq Interactions
<1>1. CASE target[i] \in Limited
  <2>1. commandFree[target[i]] + 1 \in Nat
    BY <1>1 DEF TypeOK
  <2>. QED
    BY <2>1 DEF ReturnCommandPermit, TypeOK
<1>2. CASE target[i] \notin Limited
  <2>1. commandFree' = commandFree
    BY <1>2 DEF ReturnCommandPermit, TypeOK
  <2>. QED
    BY <2>1 DEF ReturnCommandPermit, TypeOK
<1>. QED
  BY <1>1, <1>2

LEMMA InitTyped == Init => TypeOK
<1>1. CommandLimit \in [Limited -> Nat] /\ GlobalLimit \in Nat
  BY ExecutionAssumption
<1>2. <<>> \in Seq(Call)
  OBVIOUS
<1>. QED
  BY <1>1, <1>2 DEF Init, TypeOK, Stages, NoError

LEMMA NextTyped == TypeOK /\ [Next]_vars => TypeOK'
<1>. SUFFICES ASSUME TypeOK, [Next]_vars PROVE TypeOK'
  OBVIOUS
<1>1. ASSUME NEW i \in Interactions, PrepareWithoutTask(i) PROVE TypeOK'
  BY <1>1 DEF TypeOK, PrepareWithoutTask, Close, GoTo, permits, history, Stages, Settled
<1>2. ASSUME NEW i \in Interactions, PrepareCommand(i) PROVE TypeOK'
  BY <1>2 DEF TypeOK, PrepareCommand, GoTo, permits, history, Stages, Dispatching
<1>3. ASSUME NEW i \in Interactions, PrepareAutocomplete(i) PROVE TypeOK'
  BY <1>3 DEF TypeOK, PrepareAutocomplete, GoTo, permits, history, Stages, Dispatching
<1>4. ASSUME NEW i \in Interactions, Dispatch(i) PROVE TypeOK'
  <2>1. CASE AcquireCommandPermit(i)
    <3>1. /\ pc' \in [Interactions -> Stages]
          /\ outcome' \in [Interactions ->
                {"none", "Ignored", "Unregistered", "Error", "AtCapacity", "Spawned"}]
      BY <2>1 DEF TypeOK, AcquireCommandPermit, Close, GoTo, Stages, Dispatching, Settled
    <3>2. commandFree' \in [Limited -> Nat]
      <4>1. CASE UNCHANGED commandFree
        BY <4>1 DEF TypeOK
      <4>2. CASE /\ target[i] \in Limited
                 /\ commandFree[target[i]] > 0
                 /\ commandFree' = [commandFree EXCEPT ![target[i]] = @ - 1]
        <5>1. commandFree[target[i]] - 1 \in Nat
          BY <4>2 DEF TypeOK
        <5>. QED
          BY <4>2, <5>1 DEF TypeOK
      <4>. QED
        BY <2>1, <4>1, <4>2 DEF AcquireCommandPermit, CommandSlotFree, permits
    <3>. QED
      BY <2>1, <3>1, <3>2 DEF TypeOK, AcquireCommandPermit, permits, history
  <2>2. CASE AcquireGlobalPermit(i)
    BY <2>2 DEF TypeOK, AcquireGlobalPermit, GoTo, history, Stages, Dispatching
  <2>3. CASE RefuseGlobal(i)
    BY <2>3 DEF TypeOK, RefuseGlobal, Close, GoTo, permits, history, Stages, Dispatching, Settled
  <2>4. CASE DropRefusedPermit(i)
    BY <2>4, ReturnedPermitTyped DEF TypeOK, DropRefusedPermit, GoTo, history, Stages, Settled
  <2>5. CASE Spawn(i)
    BY <2>5 DEF TypeOK, Spawn, GoTo, permits, history, Stages
  <2>. QED
    BY <1>4, <2>1, <2>2, <2>3, <2>4, <2>5 DEF Dispatch
<1>5. ASSUME NEW i \in Interactions, Runtime(i) PROVE TypeOK'
  <2>1. CASE Start(i)
    BY <2>1, EnterTyped DEF TypeOK, Start, permits, UserCalls, CommandCalls, AutocompleteCalls
  <2>2. CASE ReleaseCommandPermit(i)
    BY <2>2, ReturnedPermitTyped DEF TypeOK, ReleaseCommandPermit, GoTo, history, Stages, Settled
  <2>3. CASE ReleaseGlobalPermit(i)
    BY <2>3 DEF TypeOK, ReleaseGlobalPermit, GoTo, history, Stages, Settled
  <2>. QED
    BY <1>5, <2>1, <2>2, <2>3 DEF Runtime
<1>6. ASSUME NEW i \in Interactions, UserReturns(i) PROVE TypeOK'
  <2>. USE DEF permits
  <2>1. pc[i] \in UserCalls
    BY <1>6 DEF UserReturns, PolicyReturns, BeforeHookReturns, HandlerReturns, AfterHookReturns,
                ErrorHandlerReturns, AutocompleteReturns, CallbackReturns, UserCalls,
                CommandCalls, AutocompleteCalls
  <2>2. /\ Running(i) \in Call \cup {NoError}
        /\ result[i] \in Call \cup {NoError}
        /\ Fails(i) \/ Succeeds => failures' \in [Interactions -> Seq(Call)]
        /\ hook[i] + 1 \in Nat
    BY <2>1, RunningTyped DEF TypeOK, Succeeds
  <2>3. ASSUME NEW r \in Call \cup {NoError}, Retain(i, r)
        PROVE  result' \in [Interactions -> Call \cup {NoError}]
    BY <2>3 DEF Retain, TypeOK
  <2>4. CASE PolicyReturns(i)
    BY <2>4, <2>2, <2>3, EnterBeforeTyped, ConcludeTyped DEF PolicyReturns, Abandon, TypeOK
  <2>5. CASE BeforeHookReturns(i)
    BY <2>5, <2>2, <2>3, EnterBeforeTyped, ConcludeTyped DEF BeforeHookReturns, Abandon, TypeOK
  <2>6. CASE HandlerReturns(i)
    BY <2>6, <2>2, <2>3, EnterAfterTyped DEF HandlerReturns, TypeOK
  <2>7. CASE AfterHookReturns(i)
    <3>1. PICK latest \in {NoError, Running(i)} :
            /\ IF latest = NoError THEN Succeeds ELSE Fails(i)
            /\ Retain(i, FirstError(result[i], latest))
            /\ EnterAfter(i, hook[i] + 1, FirstError(result[i], latest))
      BY <2>7 DEF AfterHookReturns
    <3>2. FirstError(result[i], latest) \in Call \cup {NoError}
      BY <2>2 DEF FirstError
    <3>. QED
      BY <2>7, <2>2, <2>3, <3>1, <3>2, EnterAfterTyped DEF AfterHookReturns, TypeOK
  <2>8. CASE ErrorHandlerReturns(i)
    BY <2>8, <2>2, EndTaskTyped DEF ErrorHandlerReturns, TypeOK
  <2>9. CASE AutocompleteReturns(i)
    <3>1. CASE Fails(i) /\ Retain(i, Running(i)) /\ EndTask(i, "Err")
      BY <2>9, <2>2, <2>3, <3>1, EndTaskTyped DEF AutocompleteReturns, TypeOK
    <3>2. CASE Succeeds /\ Enter(i, "callback", 1) /\ UNCHANGED <<joined, result>>
      BY <2>9, <2>2, <3>2, EnterTyped
      DEF AutocompleteReturns, TypeOK, UserCalls, AutocompleteCalls
    <3>. QED
      BY <2>9, <3>1, <3>2 DEF AutocompleteReturns
  <2>10. CASE CallbackReturns(i)
    BY <2>10, <2>2, <2>3, EndTaskTyped DEF CallbackReturns, TypeOK
  <2>. QED
    BY <1>6, <2>4, <2>5, <2>6, <2>7, <2>8, <2>9, <2>10 DEF UserReturns
<1>7. ASSUME NEW i \in Interactions, TaskPanics(i) \/ TaskAborted(i) PROVE TypeOK'
  BY <1>7, EndTaskTyped DEF TypeOK, TaskPanics, TaskAborted, permits
<1>8. CASE UNCHANGED vars
  BY <1>8 DEF TypeOK, vars, permits, history
<1>. QED
  BY <1>1, <1>2, <1>3, <1>4, <1>5, <1>6, <1>7, <1>8 DEF Next, Quiet

\* Every reachable state is well typed.
THEOREM TypeCorrect == Spec => []TypeOK
  BY InitTyped, NextTyped, PTL DEF Spec

(***************************************************************************)
(* Permits.  Neither conservation nor the bounds are inductive: that a      *)
(* permit is taken once and given back once depends on where its owner is.  *)
(***************************************************************************)

\* Who owns what, at each place of the code.
Owns(i) ==
  /\ i \in globalHeld => pc[i] \in Admitted \cup {"releasing"}
  /\ i \in commandHeld =>
       /\ target[i] \in Limited
       /\ pc[i] \in {"acquireGlobal", "refusing", "releasing"} \cup Admitted
  /\ pc[i] \in Admitted => i \in globalHeld
  /\ pc[i] \in {"acquireGlobal"} \cup Admitted /\ target[i] \in Limited => i \in commandHeld
  /\ pc[i] = "refusing" => i \in commandHeld
  /\ pc[i] = "new" => target[i] = NoCommand

Ownership == \A i \in Interactions : Owns(i)

PermitInv == TypeOK /\ Ownership /\ PermitConservation

LEMMA HeldFinite ==
  ASSUME TypeOK
  PROVE  /\ IsFiniteSet(globalHeld)
         /\ \A c : IsFiniteSet(CommandOwners(c))
<1>1. IsFiniteSet(globalHeld) /\ IsFiniteSet(commandHeld)
  BY ExecutionAssumption, FS_Subset DEF TypeOK
<1>. QED
  BY <1>1, FS_Subset DEF CommandOwners

\* Between its spawn and its end a task moves only among the user calls; it keeps
\* its permits, and ends in the stage that gives them back.
TaskMoves(i) ==
  /\ pc[i] \in {"queued"} \cup UserCalls
  /\ \E stage \in UserCalls \cup {"releasing"} : pc' = [pc EXCEPT ![i] = stage]
  /\ UNCHANGED <<target, permits, outcome>>

LEMMA StepsMoveTask ==
  ASSUME NEW i \in Interactions,
         Start(i) \/ UserReturns(i) \/ TaskPanics(i) \/ TaskAborted(i)
  PROVE  TaskMoves(i)
<1>. USE DEF TaskMoves, UserCalls, CommandCalls, AutocompleteCalls, GoTo, Enter, EndTask,
             Conclude, EnterBefore, EnterAfter, Abandon
<1>1. CASE Start(i)
  BY <1>1 DEF Start
<1>2. CASE PolicyReturns(i)
  BY <1>2 DEF PolicyReturns
<1>3. CASE BeforeHookReturns(i)
  BY <1>3 DEF BeforeHookReturns
<1>4. CASE HandlerReturns(i)
  BY <1>4 DEF HandlerReturns
<1>5. CASE AfterHookReturns(i)
  BY <1>5 DEF AfterHookReturns
<1>6. CASE ErrorHandlerReturns(i)
  BY <1>6 DEF ErrorHandlerReturns
<1>7. CASE AutocompleteReturns(i)
  BY <1>7 DEF AutocompleteReturns
<1>8. CASE CallbackReturns(i)
  BY <1>8 DEF CallbackReturns
<1>9. CASE TaskPanics(i) \/ TaskAborted(i)
  BY <1>9 DEF TaskPanics, TaskAborted
<1>. QED
  BY <1>1, <1>2, <1>3, <1>4, <1>5, <1>6, <1>7, <1>8, <1>9 DEF UserReturns

LEMMA InitPermits == Init => Ownership /\ PermitConservation
<1>. SUFFICES ASSUME Init PROVE Ownership /\ PermitConservation
  OBVIOUS
<1>1. Ownership
  BY DEF Init, Ownership, Owns, Admitted, UserCalls, CommandCalls, AutocompleteCalls
<1>2. Cardinality(globalHeld) = 0 /\ \A c \in Limited : Cardinality(CommandOwners(c)) = 0
  <2>1. \A c \in Limited : CommandOwners(c) = {}
    BY DEF Init, CommandOwners
  <2>. QED
    BY <2>1, FS_EmptySet DEF Init
<1>3. GlobalLimit + 0 = GlobalLimit /\ \A c \in Limited : CommandLimit[c] + 0 = CommandLimit[c]
  BY ExecutionAssumption
<1>. QED
  BY <1>1, <1>2, <1>3 DEF Init, PermitConservation

\* The steps that are no TaskMoves, and what they do to the permits.
LEMMA StepCases ==
  ASSUME [Next]_vars
  PROVE  \/ \E i \in Interactions :
              \/ PrepareWithoutTask(i) \/ PrepareCommand(i) \/ PrepareAutocomplete(i)
              \/ Dispatch(i)
              \/ ReleaseCommandPermit(i) \/ ReleaseGlobalPermit(i)
              \/ TaskMoves(i)
         \/ UNCHANGED vars
  BY StepsMoveTask DEF Next, Quiet, Runtime

LEMMA OwnershipStep == TypeOK /\ Ownership /\ [Next]_vars => Ownership'
<1>. SUFFICES ASSUME TypeOK, Ownership, [Next]_vars, NEW j \in Interactions
              PROVE  Owns(j)'
  BY DEF Ownership
<1>0. Owns(j)
  BY DEF Ownership
<1>. USE <1>0 DEF Owns, Admitted, UserCalls, CommandCalls, AutocompleteCalls, permits, GoTo, Close
<1>1. ASSUME NEW i \in Interactions, PrepareWithoutTask(i) PROVE Owns(j)'
  BY <1>1 DEF PrepareWithoutTask, TypeOK
<1>2. ASSUME NEW i \in Interactions, PrepareCommand(i) PROVE Owns(j)'
  BY <1>2 DEF PrepareCommand, TypeOK
<1>3. ASSUME NEW i \in Interactions, PrepareAutocomplete(i) PROVE Owns(j)'
  BY <1>3, ExecutionAssumption DEF PrepareAutocomplete, TypeOK
<1>4. ASSUME NEW i \in Interactions, Dispatch(i) PROVE Owns(j)'
  <2>1. CASE AcquireCommandPermit(i)
    BY <2>1 DEF AcquireCommandPermit, TypeOK
  <2>2. CASE AcquireGlobalPermit(i)
    BY <2>2 DEF AcquireGlobalPermit, TypeOK
  <2>3. CASE RefuseGlobal(i)
    BY <2>3 DEF RefuseGlobal, TypeOK
  <2>4. CASE DropRefusedPermit(i)
    BY <2>4 DEF DropRefusedPermit, ReturnCommandPermit, TypeOK
  <2>5. CASE Spawn(i)
    BY <2>5 DEF Spawn, TypeOK
  <2>. QED
    BY <1>4, <2>1, <2>2, <2>3, <2>4, <2>5 DEF Dispatch
<1>5. ASSUME NEW i \in Interactions, ReleaseCommandPermit(i) PROVE Owns(j)'
  BY <1>5 DEF ReleaseCommandPermit, ReturnCommandPermit, TypeOK
<1>6. ASSUME NEW i \in Interactions, ReleaseGlobalPermit(i) PROVE Owns(j)'
  BY <1>6 DEF ReleaseGlobalPermit, TypeOK
<1>7. ASSUME NEW i \in Interactions, TaskMoves(i) PROVE Owns(j)'
  BY <1>7 DEF TaskMoves, TypeOK
<1>8. CASE UNCHANGED vars
  BY <1>8 DEF vars
<1>. QED
  BY StepCases, <1>1, <1>2, <1>3, <1>4, <1>5, <1>6, <1>7, <1>8

\* One command permit taken or given back keeps the books of every command.
LEMMA CommandPermitTaken ==
  ASSUME PermitInv, NEW i \in Interactions, i \notin commandHeld,
         target[i] \in Limited, commandFree[target[i]] > 0,
         commandFree' = [commandFree EXCEPT ![target[i]] = @ - 1],
         commandHeld' = commandHeld \cup {i}, target' = target,
         NEW c \in Limited
  PROVE  commandFree'[c] + Cardinality(CommandOwners(c)') = CommandLimit[c]
<1>1. /\ IsFiniteSet(CommandOwners(c))
      /\ commandFree[c] + Cardinality(CommandOwners(c)) = CommandLimit[c]
      /\ Cardinality(CommandOwners(c)) \in Nat
      /\ commandFree[c] \in Nat
  BY HeldFinite, FS_CardinalityType DEF PermitInv, PermitConservation, TypeOK
<1>2. CASE c = target[i]
  <2>1. CommandOwners(c)' = CommandOwners(c) \cup {i} /\ i \notin CommandOwners(c)
    BY <1>2 DEF CommandOwners
  <2>2. Cardinality(CommandOwners(c)') = Cardinality(CommandOwners(c)) + 1
    BY <2>1, <1>1, FS_AddElement
  <2>3. commandFree'[c] = commandFree[c] - 1
    BY <1>2 DEF PermitInv, TypeOK
  <2>. QED
    BY <1>1, <2>2, <2>3
<1>3. CASE c # target[i]
  <2>1. CommandOwners(c)' = CommandOwners(c) /\ commandFree'[c] = commandFree[c]
    BY <1>3 DEF CommandOwners, PermitInv, TypeOK
  <2>. QED
    BY <1>1, <2>1
<1>. QED
  BY <1>2, <1>3

LEMMA CommandPermitReturned ==
  ASSUME PermitInv, NEW i \in commandHeld, ReturnCommandPermit(i), target' = target,
         NEW c \in Limited
  PROVE  commandFree'[c] + Cardinality(CommandOwners(c)') = CommandLimit[c]
<1>1. /\ IsFiniteSet(CommandOwners(c))
      /\ commandFree[c] + Cardinality(CommandOwners(c)) = CommandLimit[c]
      /\ Cardinality(CommandOwners(c)) \in Nat
      /\ commandFree[c] \in Nat
  BY HeldFinite, FS_CardinalityType DEF PermitInv, PermitConservation, TypeOK
<1>2. CASE c = target[i]
  <2>1. CommandOwners(c)' = CommandOwners(c) \ {i} /\ i \in CommandOwners(c)
    BY <1>2 DEF CommandOwners, ReturnCommandPermit
  <2>2. Cardinality(CommandOwners(c)') = Cardinality(CommandOwners(c)) - 1
    BY <2>1, <1>1, FS_RemoveElement
  <2>3. commandFree'[c] = commandFree[c] + 1
    BY <1>2 DEF ReturnCommandPermit, PermitInv, TypeOK
  <2>. QED
    BY <1>1, <2>2, <2>3
<1>3. CASE c # target[i]
  <2>1. CommandOwners(c)' = CommandOwners(c) /\ commandFree'[c] = commandFree[c]
    BY <1>3 DEF CommandOwners, ReturnCommandPermit, PermitInv, TypeOK
  <2>. QED
    BY <1>1, <2>1
<1>. QED
  BY <1>2, <1>3

LEMMA ConservationStep == PermitInv /\ [Next]_vars => PermitConservation'
<1>. SUFFICES ASSUME PermitInv, [Next]_vars
              PROVE  /\ globalFree' + Cardinality(globalHeld') = GlobalLimit
                     /\ \A c \in Limited :
                          commandFree'[c] + Cardinality(CommandOwners(c)') = CommandLimit[c]
  BY DEF PermitConservation
<1>. DEFINE GlobalKept == UNCHANGED <<globalFree, globalHeld>>
            CommandKept == UNCHANGED commandFree /\ \A c \in Limited : UNCHANGED CommandOwners(c)
<1>0. /\ globalFree + Cardinality(globalHeld) = GlobalLimit
      /\ \A c \in Limited : commandFree[c] + Cardinality(CommandOwners(c)) = CommandLimit[c]
  BY DEF PermitInv, PermitConservation
<1>1. GlobalKept => globalFree' + Cardinality(globalHeld') = GlobalLimit
  BY <1>0
<1>2. CommandKept =>
        \A c \in Limited : commandFree'[c] + Cardinality(CommandOwners(c)') = CommandLimit[c]
  BY <1>0
<1>3. UNCHANGED <<target, permits>> => GlobalKept /\ CommandKept
  BY DEF permits, CommandOwners
<1>. HIDE DEF GlobalKept, CommandKept
<1>4. ASSUME NEW i \in Interactions,
             PrepareWithoutTask(i) \/ PrepareAutocomplete(i) \/ RefuseGlobal(i) \/ Spawn(i)
               \/ TaskMoves(i)
      PROVE  GlobalKept /\ CommandKept
  BY <1>3, <1>4 DEF PrepareWithoutTask, PrepareAutocomplete, RefuseGlobal, Spawn, TaskMoves
<1>5. ASSUME NEW i \in Interactions, PrepareCommand(i) PROVE GlobalKept /\ CommandKept
  <2>1. i \notin commandHeld
    BY <1>5 DEF PrepareCommand, PermitInv, Ownership, Owns, Admitted, UserCalls, CommandCalls,
                AutocompleteCalls
  <2>2. \A c \in Limited : UNCHANGED CommandOwners(c)
    BY <1>5, <2>1 DEF PrepareCommand, CommandOwners, permits, PermitInv, TypeOK
  <2>. QED
    BY <1>5, <2>2 DEF PrepareCommand, permits, GlobalKept, CommandKept
<1>6. ASSUME NEW i \in Interactions, AcquireCommandPermit(i)
      PROVE  /\ GlobalKept
             /\ \A c \in Limited : commandFree'[c] + Cardinality(CommandOwners(c)') = CommandLimit[c]
  <2>1. i \notin commandHeld
    BY <1>6 DEF AcquireCommandPermit, PermitInv, Ownership, Owns, Admitted, UserCalls,
                CommandCalls, AutocompleteCalls
  <2>2. GlobalKept
    BY <1>6 DEF AcquireCommandPermit, permits, GlobalKept
  <2>3. CASE UNCHANGED permits
    BY <1>2, <1>3, <1>6, <2>2, <2>3 DEF AcquireCommandPermit
  <2>4. CASE ~UNCHANGED permits
    BY <1>6, <2>1, <2>2, <2>4, CommandPermitTaken DEF AcquireCommandPermit, CommandSlotFree
  <2>. QED
    BY <2>3, <2>4
<1>7. ASSUME NEW i \in Interactions, AcquireGlobalPermit(i)
      PROVE  CommandKept /\ globalFree' + Cardinality(globalHeld') = GlobalLimit
  <2>1. i \notin globalHeld
    BY <1>7 DEF AcquireGlobalPermit, PermitInv, Ownership, Owns, Admitted, UserCalls,
                CommandCalls, AutocompleteCalls
  <2>2. Cardinality(globalHeld') = Cardinality(globalHeld) + 1 /\ Cardinality(globalHeld) \in Nat
    BY <1>7, <2>1, HeldFinite, FS_AddElement, FS_CardinalityType DEF AcquireGlobalPermit, PermitInv
  <2>3. globalFree' + Cardinality(globalHeld') = GlobalLimit
    BY <1>0, <1>7, <2>2 DEF AcquireGlobalPermit, PermitInv, TypeOK
  <2>. QED
    BY <1>7, <2>3 DEF AcquireGlobalPermit, CommandKept, CommandOwners
<1>8. ASSUME NEW i \in Interactions, ReleaseGlobalPermit(i)
      PROVE  CommandKept /\ globalFree' + Cardinality(globalHeld') = GlobalLimit
  <2>1. Cardinality(globalHeld') = Cardinality(globalHeld) - 1 /\ Cardinality(globalHeld) \in Nat
    BY <1>8, HeldFinite, FS_RemoveElement, FS_CardinalityType DEF ReleaseGlobalPermit, PermitInv
  <2>2. globalFree' + Cardinality(globalHeld') = GlobalLimit
    BY <1>0, <1>8, <2>1 DEF ReleaseGlobalPermit, PermitInv, TypeOK
  <2>. QED
    BY <1>8, <2>2 DEF ReleaseGlobalPermit, CommandKept, CommandOwners
<1>9. ASSUME NEW i \in Interactions, DropRefusedPermit(i) \/ ReleaseCommandPermit(i)
      PROVE  /\ GlobalKept
             /\ \A c \in Limited : commandFree'[c] + Cardinality(CommandOwners(c)') = CommandLimit[c]
  <2>1. i \in commandHeld
    BY <1>9 DEF DropRefusedPermit, ReleaseCommandPermit, PermitInv, Ownership, Owns
  <2>. QED
    BY <1>9, <2>1, CommandPermitReturned DEF DropRefusedPermit, ReleaseCommandPermit, GlobalKept
<1>10. CASE UNCHANGED vars
  BY <1>1, <1>2, <1>3, <1>10 DEF vars
<1>11. CASE \E i \in Interactions :
              \/ PrepareWithoutTask(i) \/ PrepareCommand(i) \/ PrepareAutocomplete(i)
              \/ Dispatch(i)
              \/ ReleaseCommandPermit(i) \/ ReleaseGlobalPermit(i)
              \/ TaskMoves(i)
  BY <1>1, <1>2, <1>4, <1>5, <1>6, <1>7, <1>8, <1>9, <1>11 DEF Dispatch
<1>. QED
  BY StepCases, <1>10, <1>11

THEOREM PermitInvariant == Spec => []PermitInv
<1>1. Init => PermitInv
  BY InitTyped, InitPermits DEF PermitInv
<1>2. PermitInv /\ [Next]_vars => PermitInv'
  BY NextTyped, OwnershipStep, ConservationStep DEF PermitInv
<1>. QED
  BY <1>1, <1>2, PTL DEF Spec

\* No refusal, panic, abort or error path leaks a permit or returns one twice.
THEOREM PermitsConserved == Spec => []PermitConservation
  BY PermitInvariant, PTL DEF PermitInv

\* A refused dispatch and a task that has ended own no permit.
THEOREM SettledOwnNothing == Spec => []SettledOwnsNothing
<1>1. PermitInv => SettledOwnsNothing
  BY DEF PermitInv, Ownership, Owns, SettledOwnsNothing, Settled, Admitted, UserCalls,
         CommandCalls, AutocompleteCalls, TypeOK
<1>. QED
  BY <1>1, PermitInvariant, PTL

LEMMA Bounded == PermitInv => BoundedExecution
<1>. SUFFICES ASSUME PermitInv PROVE BoundedExecution
  OBVIOUS
<1>. DEFINE Running_ == {i \in Interactions : pc[i] \in Admitted}
            Of(c) == {i \in Interactions : pc[i] \in Admitted /\ target[i] = c}
<1>1. Cardinality(Running_) <= GlobalLimit
  <2>1. Running_ \subseteq globalHeld
    BY DEF PermitInv, Ownership, Owns
  <2>2. Cardinality(Running_) <= Cardinality(globalHeld) /\ Cardinality(Running_) \in Nat
    BY <2>1, HeldFinite, FS_Subset, FS_CardinalityType DEF PermitInv
  <2>. QED
    BY <2>2, HeldFinite, FS_CardinalityType, ExecutionAssumption
    DEF PermitInv, PermitConservation, TypeOK
<1>2. ASSUME NEW c \in Limited PROVE Cardinality(Of(c)) <= CommandLimit[c]
  <2>1. Of(c) \subseteq CommandOwners(c)
    BY DEF PermitInv, Ownership, Owns, CommandOwners
  <2>2. Cardinality(Of(c)) <= Cardinality(CommandOwners(c)) /\ Cardinality(Of(c)) \in Nat
    BY <2>1, HeldFinite, FS_Subset, FS_CardinalityType DEF PermitInv
  <2>. QED
    BY <2>2, HeldFinite, FS_CardinalityType, ExecutionAssumption
    DEF PermitInv, PermitConservation, TypeOK
<1>. QED
  BY <1>1, <1>2 DEF BoundedExecution

\* However many threads dispatch, neither limit is ever exceeded.
THEOREM ExecutionBounded == Spec => []BoundedExecution
  BY Bounded, PermitInvariant, PTL

\* Only the two refusals answer AtCapacity.
LEMMA AnsweredAtCapacity ==
  ASSUME TypeOK, [Next]_vars, NEW i \in Interactions,
         outcome[i] # "AtCapacity", outcome'[i] = "AtCapacity"
  PROVE  \/ RefuseGlobal(i)
         \/ AcquireCommandPermit(i) /\ target[i] \in Limited /\ ~CommandSlotFree(target[i])
<1>. USE DEF TypeOK, Close
<1>1. ASSUME NEW j \in Interactions,
             PrepareWithoutTask(j) \/ PrepareCommand(j) \/ PrepareAutocomplete(j)
      PROVE  FALSE
  BY <1>1 DEF PrepareWithoutTask, PrepareCommand, PrepareAutocomplete
<1>2. ASSUME NEW j \in Interactions,
             \/ AcquireGlobalPermit(j) \/ DropRefusedPermit(j) \/ Spawn(j)
             \/ ReleaseCommandPermit(j) \/ ReleaseGlobalPermit(j) \/ TaskMoves(j)
      PROVE  FALSE
  BY <1>2 DEF AcquireGlobalPermit, DropRefusedPermit, Spawn, ReleaseCommandPermit,
              ReleaseGlobalPermit, TaskMoves
<1>3. ASSUME NEW j \in Interactions, AcquireCommandPermit(j)
      PROVE  j = i /\ target[i] \in Limited /\ ~CommandSlotFree(target[i])
  BY <1>3 DEF AcquireCommandPermit
<1>4. ASSUME NEW j \in Interactions, RefuseGlobal(j)
      PROVE  j = i
  BY <1>4 DEF RefuseGlobal
<1>5. CASE UNCHANGED vars
  BY <1>5 DEF vars
<1>. QED
  BY StepCases, <1>1, <1>2, <1>3, <1>4, <1>5 DEF Dispatch

\* What AtCapacity does mean: at the moment a dispatch is refused, the global limit is
\* used up by the permits of other interactions, or its own leaf's limit is.
RefusedOnlyWhenFull ==
  [][\A i \in Interactions :
       outcome[i] # "AtCapacity" /\ outcome'[i] = "AtCapacity" =>
         \/ Cardinality(globalHeld \ {i}) = GlobalLimit
         \/ /\ target[i] \in Limited
            /\ Cardinality(CommandOwners(target[i]) \ {i}) = CommandLimit[target[i]]]_vars

\* No dispatch is turned away while both limits have room: a free count of zero always
\* stands for as many owners as the limit, whatever was refused or aborted before.
THEOREM RefusalsJustified == Spec => RefusedOnlyWhenFull
<1>1. PermitInv /\ [Next]_vars =>
        [\A i \in Interactions :
           outcome[i] # "AtCapacity" /\ outcome'[i] = "AtCapacity" =>
             \/ Cardinality(globalHeld \ {i}) = GlobalLimit
             \/ /\ target[i] \in Limited
                /\ Cardinality(CommandOwners(target[i]) \ {i}) = CommandLimit[target[i]]]_vars
  <2>. SUFFICES ASSUME PermitInv, [Next]_vars, NEW i \in Interactions,
                       outcome[i] # "AtCapacity", outcome'[i] = "AtCapacity"
                PROVE  \/ Cardinality(globalHeld \ {i}) = GlobalLimit
                       \/ /\ target[i] \in Limited
                          /\ Cardinality(CommandOwners(target[i]) \ {i})
                               = CommandLimit[target[i]]
    OBVIOUS
  <2>1. \/ RefuseGlobal(i)
        \/ AcquireCommandPermit(i) /\ target[i] \in Limited /\ ~CommandSlotFree(target[i])
    BY AnsweredAtCapacity DEF PermitInv
  <2>2. CASE RefuseGlobal(i)
    <3>1. i \notin globalHeld /\ globalFree = 0
      BY <2>2 DEF RefuseGlobal, PermitInv, Ownership, Owns, Admitted, UserCalls,
                        CommandCalls, AutocompleteCalls
    <3>2. Cardinality(globalHeld) \in Nat
      BY HeldFinite, FS_CardinalityType DEF PermitInv
    <3>3. Cardinality(globalHeld) = GlobalLimit
      BY <3>1, <3>2, ExecutionAssumption DEF PermitInv, PermitConservation
    <3>4. globalHeld \ {i} = globalHeld
      BY <3>1
    <3>. QED
      BY <3>3, <3>4, Zenon
  <2>3. CASE AcquireCommandPermit(i) /\ target[i] \in Limited /\ ~CommandSlotFree(target[i])
    <3>1. CommandOwners(target[i]) \ {i} = CommandOwners(target[i])
      BY <2>3 DEF AcquireCommandPermit, PermitInv, Ownership, Owns, CommandOwners,
                        Admitted, UserCalls, CommandCalls, AutocompleteCalls
    <3>2. commandFree[target[i]] = 0
      BY <2>3 DEF CommandSlotFree, PermitInv, TypeOK
    <3>3. Cardinality(CommandOwners(target[i])) \in Nat
      BY HeldFinite, FS_CardinalityType DEF PermitInv
    <3>4. Cardinality(CommandOwners(target[i])) = CommandLimit[target[i]]
      BY <2>3, <3>2, <3>3, ExecutionAssumption DEF PermitInv, PermitConservation
    <3>. QED
      BY <2>3, <3>1, <3>4, Zenon
  <2>. QED
    BY <2>1, <2>2, <2>3
<1>. QED
  BY <1>1, PermitInvariant, PTL DEF Spec, RefusedOnlyWhenFull

(***************************************************************************)
(* Execution implements AdmissionControl.                                   *)
(***************************************************************************)

Active == {i \in Interactions : pc[i] \in Admitted}
Departed == {i \in Interactions : pc[i] \in {"releasing", "finished"}}

\* The instance has its own copy of Cardinality.
LEMMA SameCardinality == \A S : Admission!Cardinality(S) = Cardinality(S)
  BY DEF Admission!Cardinality, Cardinality

LEMMA AdmissionInit == Init => Admission!AInit
  BY DEF Init, Admission!AInit, Admitted, UserCalls, CommandCalls, AutocompleteCalls

\* Winning the global permit is the step in which both limits are respected: the
\* command's permit was already taken and is not yet counted among the active.
LEMMA AcquireAdmits ==
  ASSUME PermitInv, NEW i \in Interactions, AcquireGlobalPermit(i)
  PROVE  Admission!Admit(i)
<1>. DEFINE Of(c) == {j \in Active : target[j] = c}
<1>1. i \notin Active \cup Departed
  BY DEF AcquireGlobalPermit, Active, Departed, Admitted, UserCalls, CommandCalls,
              AutocompleteCalls
<1>2. Cardinality(Active) < GlobalLimit
  <2>1. Active \subseteq globalHeld
    BY DEF PermitInv, Ownership, Owns, Active
  <2>2. Cardinality(Active) <= Cardinality(globalHeld) /\ Cardinality(Active) \in Nat
    BY <2>1, HeldFinite, FS_Subset, FS_CardinalityType DEF PermitInv
  <2>. QED
    BY <2>2, HeldFinite, FS_CardinalityType, ExecutionAssumption
    DEF PermitInv, PermitConservation, TypeOK, AcquireGlobalPermit
<1>3. ASSUME target[i] \in Limited PROVE Cardinality(Of(target[i])) < CommandLimit[target[i]]
  <2>1. Of(target[i]) \subseteq CommandOwners(target[i]) \ {i}
    BY <1>1, <1>3 DEF PermitInv, Ownership, Owns, Active, CommandOwners
  <2>2. i \in CommandOwners(target[i])
    BY <1>3 DEF AcquireGlobalPermit, PermitInv, Ownership, Owns, CommandOwners
  <2>3. /\ IsFiniteSet(CommandOwners(target[i]) \ {i})
        /\ Cardinality(CommandOwners(target[i]) \ {i}) = Cardinality(CommandOwners(target[i])) - 1
        /\ Cardinality(CommandOwners(target[i])) \in Nat
    BY <2>2, HeldFinite, FS_RemoveElement, FS_CardinalityType DEF PermitInv
  <2>4. /\ Cardinality(Of(target[i])) <= Cardinality(CommandOwners(target[i]) \ {i})
        /\ Cardinality(Of(target[i])) \in Nat
    BY <2>1, <2>3, FS_Subset, FS_CardinalityType
  <2>5. /\ commandFree[target[i]] + Cardinality(CommandOwners(target[i])) = CommandLimit[target[i]]
        /\ commandFree[target[i]] \in Nat
        /\ CommandLimit[target[i]] \in Nat
    BY <1>3, ExecutionAssumption DEF PermitInv, PermitConservation, TypeOK
  <2>. QED
    BY <2>3, <2>4, <2>5
<1>4. Active' = Active \cup {i} /\ Departed' = Departed /\ target' = target
  BY DEF AcquireGlobalPermit, GoTo, PermitInv, TypeOK, Active, Departed, Admitted, UserCalls,
         CommandCalls, AutocompleteCalls
<1>. QED
  BY <1>1, <1>2, <1>3, <1>4, SameCardinality DEF Admission!Admit, Admission!Of, Active, Departed

LEMMA AdmissionStep == PermitInv /\ [Next]_vars => [Admission!ANext]_(Admission!avars)
<1>. SUFFICES ASSUME PermitInv, [Next]_vars
              PROVE  Admission!ANext \/ UNCHANGED <<target, Active, Departed>>
  BY DEF Admission!avars, Active, Departed
<1>. USE DEF Admitted, UserCalls, CommandCalls, AutocompleteCalls, GoTo, PermitInv, TypeOK
<1>1. ASSUME NEW i \in Interactions, PrepareCommand(i) PROVE Admission!ANext
  <2>1. PICK c \in Commands : target' = [target EXCEPT ![i] = c]
    BY <1>1 DEF PrepareCommand
  <2>2. UNCHANGED <<Active, Departed>> /\ i \notin Active \cup Departed
    BY <1>1 DEF PrepareCommand, Active, Departed
  <2>3. target[i] = NoCommand
    BY <1>1 DEF PrepareCommand, Ownership, Owns
  <2>4. Admission!Bind(i, c)
    BY <2>1, <2>2, <2>3 DEF Admission!Bind, Active, Departed
  <2>. QED
    BY <2>4 DEF Admission!ANext
<1>2. ASSUME NEW i \in Interactions, AcquireGlobalPermit(i) PROVE Admission!ANext
  BY <1>2, AcquireAdmits DEF Admission!ANext
<1>3. ASSUME NEW i \in Interactions, TaskMoves(i)
      PROVE  Admission!ANext \/ UNCHANGED <<target, Active, Departed>>
  <2>1. PICK stage \in UserCalls \cup {"releasing"} : pc' = [pc EXCEPT ![i] = stage]
    BY <1>3 DEF TaskMoves
  <2>2. CASE stage \in UserCalls
    BY <1>3, <2>1, <2>2 DEF TaskMoves, Active, Departed
  <2>3. CASE stage = "releasing"
    <3>1. /\ i \in Active
          /\ Active' = Active \ {i}
          /\ Departed' = Departed \cup {i}
      BY <1>3, <2>1, <2>3 DEF TaskMoves, Active, Departed
    <3>2. Admission!Leave(i)
      BY <1>3, <3>1 DEF TaskMoves, Admission!Leave, Active, Departed
    <3>. QED
      BY <3>2 DEF Admission!ANext
  <2>. QED
    BY <2>1, <2>2, <2>3
<1>4. ASSUME NEW i \in Interactions,
             PrepareWithoutTask(i) \/ PrepareAutocomplete(i) \/ AcquireCommandPermit(i)
      PROVE  UNCHANGED <<target, Active, Departed>>
  BY <1>4 DEF PrepareWithoutTask, PrepareAutocomplete, AcquireCommandPermit, Close, Active, Departed
<1>5. ASSUME NEW i \in Interactions, RefuseGlobal(i) \/ DropRefusedPermit(i) \/ Spawn(i)
      PROVE  UNCHANGED <<target, Active, Departed>>
  BY <1>5 DEF RefuseGlobal, DropRefusedPermit, Spawn, Close, Active, Departed
<1>6. ASSUME NEW i \in Interactions, ReleaseCommandPermit(i) \/ ReleaseGlobalPermit(i)
      PROVE  UNCHANGED <<target, Active, Departed>>
  BY <1>6 DEF ReleaseCommandPermit, ReleaseGlobalPermit, Active, Departed
<1>7. CASE UNCHANGED vars
  BY <1>7 DEF vars, Active, Departed
<1>. HIDE DEF Admitted, UserCalls, CommandCalls, AutocompleteCalls, GoTo, PermitInv, TypeOK
<1>8. ASSUME NEW i \in Interactions, Dispatch(i)
      PROVE  Admission!ANext \/ UNCHANGED <<target, Active, Departed>>
  BY <1>2, <1>4, <1>5, <1>8 DEF Dispatch
<1>. QED
  BY StepCases, <1>1, <1>3, <1>4, <1>6, <1>7, <1>8

\* Two semaphores taken and returned one after the other, with a refusal in between,
\* look from outside like one atomic admission under both limits.
THEOREM AdmissionIsAtomic == Spec => AtomicAdmission
  BY AdmissionInit, AdmissionStep, PermitInvariant, PTL DEF Spec, AtomicAdmission, Admission!ASpec

(***************************************************************************)
(* Errors.                                                                 *)
(***************************************************************************)

\* The stages in which no call can have failed yet.
Unfailed == {"new", "queued", "policy", "before", "handler", "autocomplete", "callback"}
              \cup Dispatching \cup {"closed"}

Over == {"releasing", "finished"}

\* What the error handler was given, and what it may have made of it.
ErrorHandled(i) ==
  /\ Started(i, <<"errorHandler", 1>>)
  /\ \A n \in DOMAIN failures[i] : failures[i][n] # <<"errorHandler", 1>>

Errors(i) ==
  /\ result[i] = IF failures[i] = <<>> THEN NoError ELSE failures[i][1]
  /\ pc[i] \in Unfailed => failures[i] = <<>>
  /\ pc[i] \notin Over => \A n \in DOMAIN failures[i] : failures[i][n] # <<"errorHandler", 1>>
  /\ pc[i] = "errorHandler" => failures[i] # <<>> /\ Started(i, <<"errorHandler", 1>>)
  /\ joined[i] # "none" => pc[i] \in Over
  /\ joined[i] = "Ok" /\ failures[i] # <<>> => ErrorHandled(i)

ErrorInv == \A i \in Interactions : Errors(i)

LEMMA AppendFacts ==
  ASSUME NEW S, NEW s \in Seq(S), NEW x \in S
  PROVE  /\ Append(s, x) \in Seq(S)
         /\ Append(s, x) # <<>>
         /\ Append(s, x)[1] = IF s = <<>> THEN x ELSE s[1]
         /\ DOMAIN Append(s, x) = DOMAIN s \cup {Len(s) + 1}
         /\ \A n \in DOMAIN s : Append(s, x)[n] = s[n]
         /\ Append(s, x)[Len(s) + 1] = x
  OBVIOUS

\* A call that fails anywhere but in the error handler.
LEMMA FailureRecorded ==
  ASSUME TypeOK, ErrorInv, NEW i \in Interactions, pc[i] \in UserCalls \ {"errorHandler"}, Fails(i)
  PROVE  /\ failures'[i] # <<>>
         /\ failures'[i][1] = IF failures[i] = <<>> THEN Running(i) ELSE failures[i][1]
         /\ \A n \in DOMAIN failures'[i] : failures'[i][n] # <<"errorHandler", 1>>
<1>1. Running(i) \in Call /\ failures[i] \in Seq(Call)
  BY RunningTyped DEF TypeOK
<1>2. failures'[i] = Append(failures[i], Running(i))
  BY DEF Fails, TypeOK
<1>3. Running(i) # <<"errorHandler", 1>>
  BY DEF Running
<1>4. \A n \in DOMAIN failures[i] : failures[i][n] # <<"errorHandler", 1>>
  BY DEF ErrorInv, Errors, Over, UserCalls, CommandCalls, AutocompleteCalls
<1>5. /\ failures'[i] # <<>>
      /\ failures'[i][1] = IF failures[i] = <<>> THEN Running(i) ELSE failures[i][1]
      /\ DOMAIN failures'[i] = DOMAIN failures[i] \cup {Len(failures[i]) + 1}
      /\ \A n \in DOMAIN failures[i] : failures'[i][n] = failures[i][n]
      /\ failures'[i][Len(failures[i]) + 1] = Running(i)
  BY <1>1, <1>2, AppendFacts
<1>. QED
  BY <1>3, <1>4, <1>5

\* What Conclude does with the error it is given.
LEMMA Concluded ==
  ASSUME TypeOK, NEW i \in Interactions, NEW r, Conclude(i, r)
  PROVE  \/ /\ pc'[i] = "errorHandler" /\ joined' = joined /\ r # NoError
            /\ Started(i, <<"errorHandler", 1>>)'
         \/ /\ pc'[i] = "releasing" /\ joined'[i] \in {"Ok", "Err"}
            /\ joined'[i] = "Ok" => r = NoError
<1>1. CASE Enter(i, "errorHandler", 1) /\ UNCHANGED joined /\ r # NoError
  <2>1. calls'[i] = Append(calls[i], <<"errorHandler", 1>>) /\ calls[i] \in Seq(Call)
    BY <1>1 DEF Enter, TypeOK
  <2>2. <<"errorHandler", 1>> \in Call
    BY DEF Call, UserCalls, CommandCalls
  <2>3. Started(i, <<"errorHandler", 1>>)'
    BY <2>1, <2>2, AppendFacts DEF Started
  <2>. QED
    BY <1>1, <2>3 DEF Enter, GoTo, TypeOK
<1>2. CASE \/ r = NoError /\ EndTask(i, "Ok")
           \/ r # NoError /\ EndTask(i, "Err")
  BY <1>2 DEF EndTask, GoTo, TypeOK
<1>. QED
  BY <1>1, <1>2 DEF Conclude

LEMMA OthersKept ==
  ASSUME NEW j \in Interactions, Errors(j),
         UNCHANGED <<pc[j], result[j], failures[j], joined[j], calls[j]>>
  PROVE  Errors(j)'
  BY DEF Errors, ErrorHandled, Started

\* Dispatching, and dropping permits, tell nothing of errors.
LEMMA BookkeepingKeeps ==
  ASSUME ErrorInv, NEW i \in Interactions,
         \/ pc[i] \in Unfailed /\ pc'[i] \in Unfailed
         \/ pc[i] \in Over /\ pc'[i] \in Over,
         UNCHANGED <<result, failures, joined, calls>>
  PROVE  Errors(i)'
  BY DEF ErrorInv, Errors, ErrorHandled, Started, Unfailed, Dispatching, Over

\* The pipeline's result is that of the first failure, and no failure is the error
\* handler's.
ResultSound(i) ==
  /\ result[i] = IF failures[i] = <<>> THEN NoError ELSE failures[i][1]
  /\ \A n \in DOMAIN failures[i] : failures[i][n] # <<"errorHandler", 1>>

LEMMA EnterKeeps ==
  ASSUME TypeOK, ErrorInv, NEW i \in Interactions, pc[i] \notin Over,
         NEW stage \in UserCalls \ {"errorHandler"}, NEW k, Enter(i, stage, k),
         UNCHANGED joined, ResultSound(i)', stage \in Unfailed => failures'[i] = <<>>
  PROVE  Errors(i)'
<1>1. pc'[i] = stage
  BY DEF Enter, GoTo, TypeOK
<1>2. joined'[i] = "none"
  BY DEF ErrorInv, Errors
<1>. QED
  BY <1>1, <1>2 DEF Errors, ResultSound, Over, UserCalls, CommandCalls, AutocompleteCalls

LEMMA ConcludeKeeps ==
  ASSUME TypeOK, TypeOK', ErrorInv, NEW i \in Interactions, pc[i] \notin Over,
         Conclude(i, result'[i]), ResultSound(i)'
  PROVE  Errors(i)'
<1>1. joined[i] = "none"
  BY DEF ErrorInv, Errors
<1>2. \/ /\ pc'[i] = "errorHandler" /\ joined'[i] = "none" /\ failures'[i] # <<>>
         /\ Started(i, <<"errorHandler", 1>>)'
      \/ /\ pc'[i] = "releasing"
         /\ joined'[i] = "Ok" => result'[i] = NoError
  BY <1>1, Concluded DEF ResultSound
<1>3. failures'[i] # <<>> => result'[i] # NoError
  <2>1. failures'[i] \in Seq(Call)
    BY DEF TypeOK
  <2>2. failures'[i] # <<>> => failures'[i][1] \in Call
    BY <2>1
  <2>3. NoError \notin Call
    BY DEF NoError, Call, UserCalls, CommandCalls, AutocompleteCalls
  <2>. QED
    BY <2>2, <2>3 DEF ResultSound
<1>. QED
  BY <1>2, <1>3 DEF Errors, ResultSound, Over, Unfailed, Dispatching, ErrorHandled

LEMMA EndTaskKeeps ==
  ASSUME TypeOK, NEW i \in Interactions, NEW verdict, EndTask(i, verdict), ResultSound(i)',
         verdict = "Ok" => failures'[i] = <<>>
  PROVE  Errors(i)'
<1>1. pc'[i] = "releasing" /\ joined'[i] = verdict
  BY DEF EndTask, GoTo, TypeOK
<1>. QED
  BY <1>1 DEF Errors, ResultSound, Over, Unfailed, Dispatching

\* What a call of a pipeline that has not failed leaves behind.
LEMMA FirstFailure ==
  ASSUME TypeOK, ErrorInv, NEW i \in Interactions,
         pc[i] \in {"policy", "before", "handler", "autocomplete", "callback"}
  PROVE  /\ pc[i] \notin Over
         /\ Succeeds /\ UNCHANGED result =>
              ResultSound(i)' /\ failures'[i] = <<>> /\ result'[i] = NoError
         /\ Fails(i) /\ Retain(i, Running(i)) =>
              ResultSound(i)' /\ failures'[i] # <<>> /\ result'[i] = Running(i)
<1>1. failures[i] = <<>> /\ result[i] = NoError /\ pc[i] \notin Over
  BY DEF ErrorInv, Errors, Unfailed, Over
<1>2. Succeeds /\ UNCHANGED result =>
        ResultSound(i)' /\ failures'[i] = <<>> /\ result'[i] = NoError
  BY <1>1 DEF Succeeds, ResultSound
<1>3. ASSUME Fails(i), Retain(i, Running(i))
      PROVE  ResultSound(i)' /\ failures'[i] # <<>> /\ result'[i] = Running(i)
  <2>1. result'[i] = Running(i)
    BY <1>3 DEF Retain, TypeOK
  <2>2. pc[i] \in UserCalls \ {"errorHandler"}
    BY DEF UserCalls, CommandCalls, AutocompleteCalls
  <2>. QED
    BY <1>1, <1>3, <2>1, <2>2, FailureRecorded DEF ResultSound
<1>. QED
  BY <1>1, <1>2, <1>3

LEMMA ErrorStep == TypeOK /\ TypeOK' /\ ErrorInv /\ [Next]_vars => ErrorInv'
<1>. SUFFICES ASSUME TypeOK, TypeOK', ErrorInv, [Next]_vars, NEW j \in Interactions
              PROVE  Errors(j)'
  BY DEF ErrorInv
<1>0. \A i \in Interactions : Errors(i)
  BY DEF ErrorInv
<1>1. ASSUME NEW i \in Interactions, Dispatch(i) \/ PrepareWithoutTask(i) \/ PrepareCommand(i)
               \/ PrepareAutocomplete(i) \/ ReleaseCommandPermit(i) \/ ReleaseGlobalPermit(i)
      PROVE  Errors(j)'
  <2>. DEFINE Moves(from, to) == /\ pc[i] \in from
                                 /\ \E stage \in to : pc' = [pc EXCEPT ![i] = stage]
                                 /\ UNCHANGED <<result, failures, joined, calls>>
  <2>1. Moves(Unfailed, Unfailed) \/ Moves(Over, Over)
    <3>. USE DEF GoTo, Close, Unfailed, Dispatching, history
    <3>1. CASE PrepareWithoutTask(i) \/ PrepareCommand(i) \/ PrepareAutocomplete(i)
      BY <3>1 DEF PrepareWithoutTask, PrepareCommand, PrepareAutocomplete
    <3>2. CASE AcquireCommandPermit(i)
      BY <3>2 DEF AcquireCommandPermit
    <3>3. CASE AcquireGlobalPermit(i)
      BY <3>3 DEF AcquireGlobalPermit
    <3>4. CASE RefuseGlobal(i)
      BY <3>4 DEF RefuseGlobal
    <3>5. CASE DropRefusedPermit(i) \/ Spawn(i)
      BY <3>5 DEF DropRefusedPermit, Spawn
    <3>6. CASE ReleaseCommandPermit(i) \/ ReleaseGlobalPermit(i)
      BY <3>6 DEF ReleaseCommandPermit, ReleaseGlobalPermit, Over
    <3>. QED
      BY <1>1, <3>1, <3>2, <3>3, <3>4, <3>5, <3>6 DEF Dispatch
  <2>2. /\ UNCHANGED <<result, failures, joined, calls>>
        /\ j # i => UNCHANGED pc[j]
        /\ \/ pc[i] \in Unfailed /\ pc'[i] \in Unfailed
           \/ pc[i] \in Over /\ pc'[i] \in Over
    BY <2>1 DEF TypeOK
  <2>. QED
    BY <1>0, <2>2, OthersKept, BookkeepingKeeps
<1>2. ASSUME NEW i \in Interactions,
             Start(i) \/ UserReturns(i) \/ TaskPanics(i) \/ TaskAborted(i), j # i
      PROVE  Errors(j)'
  <2>1. UNCHANGED <<pc[j], result[j], failures[j], joined[j], calls[j]>>
    <3>1. /\ \A stage, k : Enter(i, stage, k) => UNCHANGED <<pc[j], calls[j]>>
          /\ \A verdict : EndTask(i, verdict) => UNCHANGED <<pc[j], calls[j], joined[j]>>
      BY <1>2 DEF Enter, EndTask, GoTo, TypeOK
    <3>2. /\ \A r : Retain(i, r) => UNCHANGED result[j]
          /\ Fails(i) \/ Succeeds => UNCHANGED failures[j]
      BY <1>2 DEF Retain, Fails, Succeeds, TypeOK
    <3>3. \A r : Conclude(i, r) => UNCHANGED <<pc[j], calls[j], joined[j]>>
      BY <3>1 DEF Conclude
    <3>4. /\ \A k : EnterBefore(i, k) => UNCHANGED <<pc[j], calls[j], joined[j]>>
          /\ \A k, r : EnterAfter(i, k, r) => UNCHANGED <<pc[j], calls[j], joined[j]>>
      BY <3>1, <3>3 DEF EnterBefore, EnterAfter
    <3>5. CASE Start(i) \/ TaskPanics(i) \/ TaskAborted(i)
      BY <3>1, <3>5 DEF Start, TaskPanics, TaskAborted
    <3>6. CASE PolicyReturns(i) \/ BeforeHookReturns(i)
      BY <3>2, <3>3, <3>4, <3>6 DEF PolicyReturns, BeforeHookReturns, Abandon
    <3>7. CASE HandlerReturns(i)
      BY <3>2, <3>4, <3>7 DEF HandlerReturns
    <3>8. CASE AfterHookReturns(i)
      BY <3>2, <3>4, <3>8 DEF AfterHookReturns
    <3>9. CASE ErrorHandlerReturns(i) \/ AutocompleteReturns(i) \/ CallbackReturns(i)
      BY <3>1, <3>2, <3>9 DEF ErrorHandlerReturns, AutocompleteReturns, CallbackReturns
    <3>. QED
      BY <1>2, <3>5, <3>6, <3>7, <3>8, <3>9 DEF UserReturns
  <2>. QED
    BY <1>0, <2>1, OthersKept
<1>3. CASE Start(j)
  <2>1. pc[j] \notin Over /\ failures[j] = <<>> /\ ResultSound(j) /\ UNCHANGED joined
        /\ UNCHANGED <<result, failures>>
    BY <1>0, <1>3 DEF Start, Over, Errors, Unfailed, ResultSound
  <2>2. \E stage \in {"autocomplete", "policy"} : Enter(j, stage, 1)
    BY <1>3 DEF Start
  <2>3. ResultSound(j)' /\ failures'[j] = <<>>
    BY <2>1 DEF ResultSound
  <2>. QED
    BY <2>1, <2>2, <2>3, EnterKeeps DEF UserCalls, CommandCalls, AutocompleteCalls
<1>4. CASE PolicyReturns(j) \/ BeforeHookReturns(j)
  <2>1. pc[j] \in {"policy", "before"}
    BY <1>4 DEF PolicyReturns, BeforeHookReturns
  <2>2. CASE Abandon(j)
    BY <2>1, <2>2, FirstFailure, ConcludeKeeps DEF Abandon
  <2>3. CASE Succeeds /\ UNCHANGED result /\ \E k : EnterBefore(j, k)
    <3>1. \E stage \in {"before", "handler"} : \E k : Enter(j, stage, k) /\ UNCHANGED joined
      BY <2>3 DEF EnterBefore
    <3>. QED
      BY <2>1, <2>3, <3>1, FirstFailure, EnterKeeps DEF UserCalls, CommandCalls
  <2>. QED
    BY <1>4, <2>2, <2>3 DEF PolicyReturns, BeforeHookReturns
<1>5. CASE HandlerReturns(j)
  <2>1. pc[j] = "handler" /\ ResultSound(j)' /\ pc[j] \notin Over
    BY <1>5, FirstFailure DEF HandlerReturns
  <2>2. EnterAfter(j, 1, result'[j])
    BY <1>5, FirstFailure DEF HandlerReturns
  <2>3. CASE Enter(j, "after", 1) /\ UNCHANGED joined
    BY <2>1, <2>3, EnterKeeps DEF UserCalls, CommandCalls, Unfailed, Dispatching
  <2>4. CASE Conclude(j, result'[j])
    BY <2>1, <2>4, ConcludeKeeps
  <2>. QED
    BY <2>2, <2>3, <2>4 DEF EnterAfter
<1>6. CASE AfterHookReturns(j)
  <2>1. PICK latest \in {NoError, Running(j)} :
          /\ IF latest = NoError THEN Succeeds ELSE Fails(j)
          /\ Retain(j, FirstError(result[j], latest))
          /\ EnterAfter(j, hook[j] + 1, FirstError(result[j], latest))
    BY <1>6 DEF AfterHookReturns
  <2>2. /\ pc[j] = "after" /\ pc[j] \notin Over /\ pc[j] \in UserCalls \ {"errorHandler"}
        /\ Running(j) # NoError
        /\ ResultSound(j)
    BY <1>0, <1>6, RunningTyped
    DEF AfterHookReturns, Over, Errors, ResultSound, UserCalls, CommandCalls
  <2>3. result'[j] = FirstError(result[j], latest)
    BY <2>1 DEF Retain, TypeOK
  <2>4. failures[j] # <<>> => failures[j][1] # NoError
    <3>1. NoError \notin Call
      BY DEF NoError, Call, UserCalls, CommandCalls, AutocompleteCalls
    <3>2. failures[j] # <<>> => failures[j][1] \in Call
      <4>1. failures[j] \in Seq(Call)
        BY DEF TypeOK
      <4>. QED
        BY <4>1
    <3>. QED
      BY <3>1, <3>2
  <2>5. ResultSound(j)'
    <3>1. CASE latest = NoError
      BY <2>1, <2>2, <2>3, <3>1 DEF Succeeds, ResultSound, FirstError
    <3>2. CASE latest = Running(j)
      BY <2>1, <2>2, <2>3, <2>4, <3>2, FailureRecorded DEF ResultSound, FirstError
    <3>. QED
      BY <3>1, <3>2
  <2>6. CASE Enter(j, "after", hook[j] + 1) /\ UNCHANGED joined
    BY <2>2, <2>5, <2>6, EnterKeeps DEF UserCalls, CommandCalls, Unfailed, Dispatching
  <2>7. CASE Conclude(j, result'[j])
    BY <2>2, <2>5, <2>7, ConcludeKeeps
  <2>. QED
    BY <2>1, <2>3, <2>6, <2>7 DEF EnterAfter
<1>7. CASE ErrorHandlerReturns(j)
  <2>1. /\ pc[j] = "errorHandler" /\ failures[j] # <<>> /\ UNCHANGED <<result, calls>>
        /\ ErrorHandled(j) /\ ResultSound(j)
    BY <1>0, <1>7
    DEF ErrorHandlerReturns, EndTask, Errors, ErrorHandled, ResultSound, Over
  <2>2. pc'[j] = "releasing"
    BY <1>7 DEF ErrorHandlerReturns, EndTask, GoTo, TypeOK
  <2>3. CASE Succeeds
    BY <2>1, <2>2, <2>3
    DEF Succeeds, Errors, ErrorHandled, ResultSound, Started, Over, Unfailed, Dispatching
  <2>4. CASE Fails(j) /\ EndTask(j, "Err")
    <3>1. failures'[j] # <<>> /\ failures'[j][1] = failures[j][1]
      <4>1. Running(j) \in Call /\ failures[j] \in Seq(Call)
        BY <2>1, RunningTyped DEF TypeOK, UserCalls, CommandCalls
      <4>2. failures'[j] = Append(failures[j], Running(j))
        BY <2>4 DEF Fails, TypeOK
      <4>. QED
        BY <2>1, <4>1, <4>2, AppendFacts
    <3>2. joined'[j] = "Err"
      BY <2>4 DEF EndTask, TypeOK
    <3>. QED
      BY <2>1, <2>2, <3>1, <3>2 DEF Errors, ResultSound, Over, Unfailed, Dispatching
  <2>. QED
    BY <1>7, <2>3, <2>4 DEF ErrorHandlerReturns
<1>8. CASE AutocompleteReturns(j) \/ CallbackReturns(j)
  <2>1. pc[j] \in {"autocomplete", "callback"}
    BY <1>8 DEF AutocompleteReturns, CallbackReturns
  <2>2. CASE Fails(j) /\ Retain(j, Running(j)) /\ EndTask(j, "Err")
    BY <2>1, <2>2, FirstFailure, EndTaskKeeps
  <2>3. CASE Succeeds /\ EndTask(j, "Ok") /\ UNCHANGED result
    BY <2>1, <2>3, FirstFailure, EndTaskKeeps
  <2>4. CASE Succeeds /\ Enter(j, "callback", 1) /\ UNCHANGED <<joined, result>>
    BY <2>1, <2>4, FirstFailure, EnterKeeps DEF UserCalls, AutocompleteCalls
  <2>. QED
    BY <1>8, <2>2, <2>3, <2>4 DEF AutocompleteReturns, CallbackReturns
<1>9. CASE TaskPanics(j) \/ TaskAborted(j)
  <2>1. pc[j] \notin Over /\ UNCHANGED <<result, failures>>
    BY <1>9 DEF TaskPanics, TaskAborted, Over, UserCalls, CommandCalls, AutocompleteCalls
  <2>2. ResultSound(j)'
    BY <1>0, <2>1 DEF Errors, ResultSound
  <2>. QED
    BY <1>9, <2>2, EndTaskKeeps DEF TaskPanics, TaskAborted
<1>10. CASE UNCHANGED vars
  BY <1>0, <1>10, OthersKept DEF vars, history
<1>11. CASE Start(j) \/ UserReturns(j) \/ TaskPanics(j) \/ TaskAborted(j)
  BY <1>3, <1>4, <1>5, <1>6, <1>7, <1>8, <1>9, <1>11 DEF UserReturns
<1>. QED
  BY <1>1, <1>2, <1>10, <1>11 DEF Next, Quiet, Runtime

THEOREM ErrorInvariant == Spec => []ErrorInv
<1>1. Init => ErrorInv
  BY DEF Init, ErrorInv, Errors, Unfailed, Over, NoError
<1>. QED
  BY <1>1, ErrorStep, TypeCorrect, PTL DEF Spec

\* Whatever fails after it, the error reported is the first one.
THEOREM FirstErrorReported == Spec => []FirstErrorRetained
<1>1. ErrorInv => FirstErrorRetained
  BY DEF ErrorInv, Errors, FirstErrorRetained
<1>. QED
  BY <1>1, ErrorInvariant, PTL

\* A task joins with Ok only if nothing failed or the error handler accepted it.
THEOREM FailuresNotSwallowed == Spec => []NoFailureSwallowed
<1>1. ErrorInv => NoFailureSwallowed
  BY DEF ErrorInv, Errors, ErrorHandled, NoFailureSwallowed
<1>. QED
  BY <1>1, ErrorInvariant, PTL

(***************************************************************************)
(* The order of the calls of one execution, for any number of hooks.  The   *)
(* calls of a task are a first part of the pipeline, the error handler's    *)
(* perhaps behind it; n below is the length of that part.                   *)
(***************************************************************************)

Length == 2 + BeforeHooks + AfterHooks
PolicyCall == <<"policy", 1>>
HandlerCall == <<"handler", 1>>
ErrorHandlerCall == <<"errorHandler", 1>>
PipelineStages == {"policy", "before", "handler", "after"}

LEMMA PipelineAt ==
  /\ Length \in Nat /\ DOMAIN Pipeline = 1..Length
  /\ \A n \in 1..Length :
       Pipeline[n] = IF n = 1 THEN PolicyCall
                     ELSE IF n <= 1 + BeforeHooks THEN <<"before", n - 1>>
                     ELSE IF n = 2 + BeforeHooks THEN HandlerCall
                     ELSE <<"after", n - 2 - BeforeHooks>>
<1>. DEFINE before == [k \in 1..BeforeHooks |-> <<"before", k>>]
            after == [k \in 1..AfterHooks |-> <<"after", k>>]
            one == <<PolicyCall>>
            two == one \o before
            three == two \o <<HandlerCall>>
<1>0. BeforeHooks \in Nat /\ AfterHooks \in Nat
  BY ExecutionAssumption
<1>1. /\ one \in Seq(Call) /\ <<HandlerCall>> \in Seq(Call)
      /\ Len(one) = 1 /\ one[1] = PolicyCall
      /\ Len(<<HandlerCall>>) = 1 /\ <<HandlerCall>>[1] = HandlerCall
  BY DEF Call, UserCalls, CommandCalls, PolicyCall, HandlerCall
<1>2. /\ before \in Seq(Call) /\ Len(before) = BeforeHooks
      /\ \A k \in 1..BeforeHooks : before[k] = <<"before", k>>
  <2>1. \A k \in 1..BeforeHooks : <<"before", k>> \in Call
    BY DEF Call, UserCalls, CommandCalls
  <2>. QED
    BY <1>0, <2>1
<1>3. /\ after \in Seq(Call) /\ Len(after) = AfterHooks
      /\ \A k \in 1..AfterHooks : after[k] = <<"after", k>>
  <2>1. \A k \in 1..AfterHooks : <<"after", k>> \in Call
    BY DEF Call, UserCalls, CommandCalls
  <2>. QED
    BY <1>0, <2>1
<1>. HIDE DEF before, after, one
<1>4. /\ two \in Seq(Call) /\ Len(two) = 1 + BeforeHooks
      /\ two[1] = PolicyCall
      /\ \A n \in 2..(1 + BeforeHooks) : two[n] = <<"before", n - 1>>
  <2>1. /\ two \in Seq(Call) /\ Len(two) = 1 + BeforeHooks
        /\ \A n \in 1..(1 + BeforeHooks) : two[n] = IF n <= 1 THEN one[n] ELSE before[n - 1]
    <3>1. /\ two \in Seq(Call) /\ Len(two) = Len(one) + Len(before)
          /\ \A n \in 1..(Len(one) + Len(before)) :
               two[n] = IF n <= Len(one) THEN one[n] ELSE before[n - Len(one)]
      BY <1>1, <1>2, ConcatProperties
    <3>. HIDE DEF two
    <3>. QED
      BY <1>0, <1>1, <1>2, <3>1
  <2>. HIDE DEF two
  <2>2. two[1] = PolicyCall
    BY <1>0, <1>1, <2>1
  <2>3. ASSUME NEW n \in 2..(1 + BeforeHooks) PROVE two[n] = <<"before", n - 1>>
    <3>1. n - 1 \in 1..BeforeHooks /\ n \in 1..(1 + BeforeHooks) /\ ~(n <= 1)
      BY <1>0
    <3>. QED
      BY <1>2, <2>1, <3>1
  <2>. QED
    BY <2>1, <2>2, <2>3
<1>. HIDE DEF two
<1>5. /\ three \in Seq(Call) /\ Len(three) = 2 + BeforeHooks
      /\ three[1] = PolicyCall
      /\ \A n \in 2..(1 + BeforeHooks) : three[n] = <<"before", n - 1>>
      /\ three[2 + BeforeHooks] = HandlerCall
  BY <1>0, <1>1, <1>4, ConcatProperties
<1>. HIDE DEF three
<1>6. Pipeline = three \o after
  BY DEF Pipeline, three, two, one, before, after, PolicyCall, HandlerCall
<1>7. Pipeline \in Seq(Call) /\ Len(Pipeline) = Length
  BY <1>0, <1>3, <1>5, <1>6, ConcatProperties DEF Length
<1>8. \A n \in 1..Length :
        Pipeline[n] = IF n <= 2 + BeforeHooks THEN three[n] ELSE after[n - (2 + BeforeHooks)]
  BY <1>0, <1>3, <1>5, <1>6, ConcatProperties DEF Length
<1>9. ASSUME NEW n \in 1..Length
      PROVE  Pipeline[n] = IF n = 1 THEN PolicyCall
                           ELSE IF n <= 1 + BeforeHooks THEN <<"before", n - 1>>
                           ELSE IF n = 2 + BeforeHooks THEN HandlerCall
                           ELSE <<"after", n - 2 - BeforeHooks>>
  <2>1. CASE n <= 2 + BeforeHooks
    <3>1. Pipeline[n] = three[n]
      BY <1>8, <2>1
    <3>2. n = 1 \/ n \in 2..(1 + BeforeHooks) \/ (n = 2 + BeforeHooks /\ n > 1 + BeforeHooks)
      BY <1>0, <2>1
    <3>3. CASE n = 1
      BY <1>5, <3>1, <3>3
    <3>4. CASE n \in 2..(1 + BeforeHooks)
      <4>1. n # 1 /\ n <= 1 + BeforeHooks
        BY <1>0, <3>4
      <4>. QED
        BY <1>5, <3>1, <3>4, <4>1
    <3>5. CASE n = 2 + BeforeHooks /\ n > 1 + BeforeHooks
      <4>1. n # 1 /\ ~(n <= 1 + BeforeHooks)
        BY <1>0, <3>5
      <4>. QED
        BY <1>5, <3>1, <3>5, <4>1
    <3>. QED
      BY <3>2, <3>3, <3>4, <3>5
  <2>2. CASE n > 2 + BeforeHooks
    <3>1. n - (2 + BeforeHooks) \in 1..AfterHooks /\ n - (2 + BeforeHooks) = n - 2 - BeforeHooks
      BY <1>0, <2>2 DEF Length
    <3>. QED
      BY <1>0, <1>3, <1>8, <2>2, <3>1
  <2>. QED
    BY <1>0, <2>1, <2>2
<1>. QED
  BY <1>0, <1>7, <1>9 DEF Length

\* Where a call stands, and that none stands twice.
LEMMA Places ==
  ASSUME NEW n \in 1..Length
  PROVE  /\ \A k \in Nat :
              /\ Pipeline[n] = <<"policy", k>> => n = 1 /\ k = 1
              /\ Pipeline[n] = <<"before", k>> => n = 1 + k /\ k <= BeforeHooks
              /\ Pipeline[n] = <<"handler", k>> => n = 2 + BeforeHooks /\ k = 1
              /\ Pipeline[n] = <<"after", k>> => n = 2 + BeforeHooks + k /\ k <= AfterHooks
         /\ \A m \in 1..Length : Pipeline[m] = Pipeline[n] => m = n
         /\ Pipeline[n][1] \in PipelineStages
         /\ Pipeline[n][1] \in {"policy", "before"} <=> n <= 1 + BeforeHooks
<1>. USE PipelineAt, ExecutionAssumption DEF Length, PolicyCall, HandlerCall, PipelineStages
<1>1. CASE n = 1
  BY <1>1
<1>2. CASE n > 1 /\ n <= 1 + BeforeHooks
  BY <1>2
<1>3. CASE n = 2 + BeforeHooks
  BY <1>3
<1>4. CASE n > 2 + BeforeHooks
  BY <1>4
<1>. QED
  BY <1>1, <1>2, <1>3, <1>4

-----------------------------------------------------------------------------

\* The first n calls of i are those of the pipeline, and none of them that had to
\* succeed for the next one to start has failed.
Walked(i, n) ==
  /\ \A m \in 1..n : calls[i][m] = Pipeline[m]
  /\ \A m \in 1..(n - 1), k \in DOMAIN failures[i] :
       m <= 1 + BeforeHooks => failures[i][k] # Pipeline[m]

Shape(i, n) ==
  /\ n \in 0..Length
  /\ Walked(i, n)
  /\ \/ Len(calls[i]) = n
     \/ Len(calls[i]) = n + 1 /\ calls[i][n + 1] = ErrorHandlerCall /\ failures[i] # <<>>

\* The pipeline ended before its handler, or after all of it.
Whole(n) == n <= 1 + BeforeHooks \/ n = Length

\* A call of the pipeline is running: the last that was started, and none before
\* the handler has failed.
AtCall(i) ==
  \E n \in 1..Length :
    /\ Len(calls[i]) = n
    /\ Pipeline[n] = Running(i)
    /\ \A m \in 1..n : calls[i][m] = Pipeline[m]
    /\ \A m \in 1..(1 + BeforeHooks), k \in DOMAIN failures[i] : failures[i][k] # Pipeline[m]

Reserving == {"queued", "closed"} \cup Dispatching
Unstarted == {"new"} \cup Reserving

Lifecycle(i) ==
  /\ pc[i] \in Unstarted => calls[i] = <<>> /\ failures[i] = <<>>
  /\ pc[i] = "new" => target[i] = NoCommand
  /\ pc[i] \in AutocompleteCalls => target[i] = NoCommand
  /\ target[i] # NoCommand =>
       /\ \E n \in 0..Length : Shape(i, n)
       /\ pc[i] \in PipelineStages => AtCall(i)
       /\ pc[i] = "errorHandler" \/ joined[i] \in {"Ok", "Err"} =>
            \E n \in 0..Length : Shape(i, n) /\ Whole(n)

LifecycleInv == \A i \in Interactions : Lifecycle(i)

LEMMA LengthNat == Length \in Nat /\ Length = 2 + BeforeHooks + AfterHooks /\ BeforeHooks \in Nat
                   /\ AfterHooks \in Nat
  BY ExecutionAssumption DEF Length

\* The call ends, well or not, and no other of the pipeline follows it.
LEMMA CallEnds ==
  ASSUME TypeOK, NEW i \in Interactions, pc[i] \in UserCalls, AtCall(i),
         Succeeds \/ Fails(i),
         \/ calls'[i] = calls[i]
         \/ calls'[i] = Append(calls[i], ErrorHandlerCall) /\ failures'[i] # <<>>
  PROVE  \E n \in 1..Length : Shape(i, n)' /\ Pipeline[n] = Running(i)
<1>1. PICK n \in 1..Length :
        /\ Len(calls[i]) = n
        /\ Pipeline[n] = Running(i)
        /\ \A m \in 1..n : calls[i][m] = Pipeline[m]
        /\ \A m \in 1..(1 + BeforeHooks), k \in DOMAIN failures[i] : failures[i][k] # Pipeline[m]
  BY DEF AtCall
<1>2. \A m \in 1..(n - 1), k \in DOMAIN failures'[i] :
        m <= 1 + BeforeHooks => failures'[i][k] # Pipeline[m]
  <2>1. CASE failures'[i] = failures[i]
    BY <1>1, <2>1, LengthNat
  <2>2. CASE failures'[i] = Append(failures[i], Running(i))
    <3>1. Running(i) \in Call /\ failures[i] \in Seq(Call)
      BY RunningTyped DEF TypeOK
    <3>2. /\ DOMAIN failures'[i] = DOMAIN failures[i] \cup {Len(failures[i]) + 1}
          /\ \A k \in DOMAIN failures[i] : failures'[i][k] = failures[i][k]
          /\ failures'[i][Len(failures[i]) + 1] = Running(i)
      BY <2>2, <3>1, AppendFacts
    <3>3. \A m \in 1..(n - 1) : Pipeline[m] # Running(i)
      <4>. SUFFICES ASSUME NEW m \in 1..(n - 1) PROVE Pipeline[m] # Pipeline[n]
        BY <1>1
      <4>1. m \in 1..Length /\ m # n
        BY LengthNat
      <4>. QED
        BY <4>1, Places
    <3>. QED
      BY <1>1, <3>2, <3>3, LengthNat
  <2>. QED
    BY <2>1, <2>2 DEF Succeeds, Fails, TypeOK
<1>3. calls[i] \in Seq(Call) /\ ErrorHandlerCall \in Call
  BY DEF TypeOK, ErrorHandlerCall, Call, UserCalls, CommandCalls
<1>4. \A m \in 1..n : calls'[i][m] = Pipeline[m]
  BY <1>1, <1>3, AppendFacts
<1>5. \/ Len(calls'[i]) = n
      \/ Len(calls'[i]) = n + 1 /\ calls'[i][n + 1] = ErrorHandlerCall /\ failures'[i] # <<>>
  BY <1>1, <1>3
<1>6. Shape(i, n)'
  BY <1>2, <1>4, <1>5, LengthNat DEF Shape, Walked
<1>. QED
  BY <1>1, <1>6

\* The next call of the pipeline starts.
LEMMA CallFollows ==
  ASSUME TypeOK, NEW i \in Interactions, NEW stage \in PipelineStages, NEW k \in Nat,
         Enter(i, stage, k),
         NEW n \in 0..Length, Len(calls[i]) = n, n + 1 \in 1..Length,
         \A m \in 1..n : calls[i][m] = Pipeline[m],
         Pipeline[n + 1] = <<stage, k>>,
         \A m \in 1..(1 + BeforeHooks), f \in DOMAIN failures'[i] : failures'[i][f] # Pipeline[m]
  PROVE  AtCall(i)' /\ pc'[i] = stage /\ \E p \in 0..Length : Shape(i, p)'
<1>1. <<stage, k>> \in Call /\ calls[i] \in Seq(Call)
  BY DEF TypeOK, Call, PipelineStages, UserCalls, CommandCalls
<1>2. calls'[i] = Append(calls[i], <<stage, k>>) /\ pc'[i] = stage /\ hook'[i] = k
  BY DEF Enter, GoTo, TypeOK
<1>3. Len(calls'[i]) = n + 1 /\ Pipeline[n + 1] = Running(i)'
  BY <1>1, <1>2 DEF Running
<1>4. ASSUME NEW m \in 1..(n + 1) PROVE calls'[i][m] = Pipeline[m]
  <2>1. CASE m = n + 1
    <3>1. calls'[i][n + 1] = <<stage, k>>
      BY <1>1, <1>2, AppendFacts
    <3>. QED
      BY <2>1, <3>1
  <2>2. CASE m # n + 1
    <3>1. m \in 1..n /\ m \in DOMAIN calls[i]
      BY <1>1, <2>2, LengthNat
    <3>2. Append(calls[i], <<stage, k>>)[m] = calls[i][m]
      BY <1>1, <3>1, AppendFacts
    <3>. QED
      BY <1>2, <3>1, <3>2
  <2>. QED
    BY <2>1, <2>2
<1>5. Shape(i, n + 1)' /\ n + 1 \in 0..Length
  BY <1>3, <1>4, LengthNat DEF Shape, Walked
<1>. QED
  BY <1>2, <1>3, <1>4, <1>5 DEF AtCall

\* A step of i changes nothing of another interaction.
LEMMA OthersUntouched ==
  ASSUME TypeOK, NEW i \in Interactions, NEW j \in Interactions, j # i,
         Start(i) \/ UserReturns(i) \/ TaskPanics(i) \/ TaskAborted(i)
  PROVE  UNCHANGED <<pc[j], hook[j], target[j], failures[j], joined[j], calls[j]>>
<1>. DEFINE Same == UNCHANGED <<pc[j], hook[j], calls[j]>>
<1>1. /\ \A stage, k : Enter(i, stage, k) => Same
      /\ \A verdict : EndTask(i, verdict) => Same /\ UNCHANGED joined[j]
  BY DEF Enter, EndTask, GoTo, TypeOK
<1>2. Fails(i) \/ Succeeds => UNCHANGED failures[j]
  BY DEF Fails, Succeeds, TypeOK
<1>3. \A r : Conclude(i, r) => Same /\ UNCHANGED joined[j]
  BY <1>1 DEF Conclude
<1>4. /\ \A k : EnterBefore(i, k) => Same /\ UNCHANGED joined[j]
      /\ \A k, r : EnterAfter(i, k, r) => Same /\ UNCHANGED joined[j]
  BY <1>1, <1>3 DEF EnterBefore, EnterAfter
<1>. HIDE DEF Same
<1>5. CASE Start(i) \/ TaskPanics(i) \/ TaskAborted(i)
  BY <1>1, <1>5 DEF Start, TaskPanics, TaskAborted, Same
<1>6. CASE PolicyReturns(i) \/ BeforeHookReturns(i)
  BY <1>2, <1>3, <1>4, <1>6 DEF PolicyReturns, BeforeHookReturns, Abandon, Same
<1>7. CASE HandlerReturns(i)
  BY <1>2, <1>4, <1>7 DEF HandlerReturns, Same
<1>8. CASE AfterHookReturns(i)
  BY <1>2, <1>4, <1>8 DEF AfterHookReturns, Same
<1>9. CASE ErrorHandlerReturns(i) \/ AutocompleteReturns(i) \/ CallbackReturns(i)
  BY <1>1, <1>2, <1>9 DEF ErrorHandlerReturns, AutocompleteReturns, CallbackReturns, Same
<1>. QED
  BY <1>5, <1>6, <1>7, <1>8, <1>9 DEF UserReturns

LEMMA LifecycleKept ==
  ASSUME NEW j \in Interactions, Lifecycle(j),
         UNCHANGED <<pc[j], hook[j], target[j], failures[j], joined[j], calls[j]>>
  PROVE  Lifecycle(j)'
  BY DEF Lifecycle, Shape, Walked, AtCall, Running

\* Dispatching, and dropping permits, start no call.
LEMMA BookkeepingStartsNothing ==
  ASSUME TypeOK, ErrorInv, LifecycleInv, NEW i \in Interactions, NEW j \in Interactions,
         Dispatch(i) \/ PrepareWithoutTask(i) \/ PrepareCommand(i)
           \/ PrepareAutocomplete(i) \/ ReleaseCommandPermit(i) \/ ReleaseGlobalPermit(i)
  PROVE  Lifecycle(j)'
<1>. DEFINE Moves(from, to) == /\ pc[i] \in from
                               /\ \E stage \in to : pc' = [pc EXCEPT ![i] = stage]
<1>0. Lifecycle(j) /\ Lifecycle(i) /\ Errors(j)
  BY DEF LifecycleInv, ErrorInv
<1>1. /\ UNCHANGED <<hook, failures, joined, calls>>
      /\ Moves(Unstarted, Reserving) \/ Moves(Over, Over)
  <2>. USE DEF GoTo, Close, Unstarted, Reserving, Dispatching, history
  <2>1. CASE PrepareWithoutTask(i) \/ PrepareCommand(i) \/ PrepareAutocomplete(i)
    BY <2>1 DEF PrepareWithoutTask, PrepareCommand, PrepareAutocomplete
  <2>2. CASE AcquireCommandPermit(i)
    BY <2>2 DEF AcquireCommandPermit
  <2>3. CASE AcquireGlobalPermit(i)
    BY <2>3 DEF AcquireGlobalPermit
  <2>4. CASE RefuseGlobal(i)
    BY <2>4 DEF RefuseGlobal
  <2>5. CASE DropRefusedPermit(i) \/ Spawn(i)
    BY <2>5 DEF DropRefusedPermit, Spawn
  <2>6. CASE ReleaseCommandPermit(i) \/ ReleaseGlobalPermit(i)
    BY <2>6 DEF ReleaseCommandPermit, ReleaseGlobalPermit, Over
  <2>. QED
    BY <2>1, <2>2, <2>3, <2>4, <2>5, <2>6 DEF Dispatch
<1>t. pc[i] \in Over => UNCHANGED target
  <2>1. pc[i] \in Over => pc[i] \notin {"new"} \cup Dispatching
    BY DEF Over, Dispatching
  <2>. QED
    BY <2>1 DEF Dispatch, PrepareWithoutTask, PrepareCommand, PrepareAutocomplete, AcquireCommandPermit,
       AcquireGlobalPermit, RefuseGlobal, DropRefusedPermit, Spawn, ReleaseCommandPermit,
       ReleaseGlobalPermit
<1>2. CASE j # i
  <2>1. UNCHANGED target[j]
    BY <1>2 DEF Dispatch, PrepareWithoutTask, PrepareCommand, PrepareAutocomplete, AcquireCommandPermit,
       AcquireGlobalPermit, RefuseGlobal, DropRefusedPermit, Spawn, ReleaseCommandPermit,
       ReleaseGlobalPermit, TypeOK
  <2>2. UNCHANGED <<pc[j], hook[j], target[j], failures[j], joined[j], calls[j]>>
    BY <1>1, <1>2, <2>1 DEF TypeOK
  <2>. QED
    BY <1>0, <2>2, LifecycleKept
<1>3. CASE j = i /\ Moves(Over, Over)
  <2>1. /\ UNCHANGED <<target, hook, failures, joined, calls>>
        /\ pc[i] \in Over /\ pc'[i] \in Over
    BY <1>1, <1>t, <1>3 DEF Over, TypeOK
  <2>2. /\ pc'[i] \notin Unstarted \cup {"new"} /\ pc'[i] \notin AutocompleteCalls
        /\ pc'[i] \notin PipelineStages /\ pc[i] \notin PipelineStages
        /\ pc'[i] # "errorHandler" /\ pc[i] # "errorHandler"
    BY <2>1 DEF Over, Unstarted, Reserving, Dispatching, AutocompleteCalls, PipelineStages
  <2>3. \A n : Shape(i, n) => Shape(i, n)'
    BY <2>1 DEF Shape, Walked
  <2>. QED
    BY <1>0, <1>3, <2>1, <2>2, <2>3 DEF Lifecycle
<1>4. CASE j = i /\ Moves(Unstarted, Reserving)
  <2>1. /\ pc[i] \in Unstarted /\ pc'[i] \in Reserving
        /\ calls'[i] = <<>> /\ failures'[i] = <<>> /\ joined'[i] = "none"
    BY <1>0, <1>1, <1>4 DEF Lifecycle, Errors, Over, Unstarted, Reserving, Dispatching, TypeOK
  <2>2. Shape(i, 0)'
    BY <2>1, LengthNat DEF Shape, Walked
  <2>3. 0 \in 0..Length
    BY LengthNat
  <2>4. Unstarted \cap (AutocompleteCalls \cup PipelineStages \cup {"errorHandler"}) = {}
    BY DEF Unstarted, Reserving, Dispatching, AutocompleteCalls, PipelineStages
  <2>. QED
    BY <1>4, <2>1, <2>2, <2>3, <2>4 DEF Lifecycle, Unstarted, Reserving, Dispatching
<1>. QED
  BY <1>1, <1>2, <1>3, <1>4

\* Where in the pipeline a running call is.
LEMMA CallAt ==
  ASSUME TypeOK, NEW i \in Interactions, NEW n \in 1..Length, Pipeline[n] = Running(i)
  PROVE  /\ pc[i] = "policy" => n = 1
         /\ pc[i] = "before" => n = 1 + hook[i] /\ hook[i] <= BeforeHooks
         /\ pc[i] = "handler" => n = 2 + BeforeHooks
         /\ pc[i] = "after" => n = 2 + BeforeHooks + hook[i] /\ hook[i] <= AfterHooks
<1>1. hook[i] \in Nat /\ Pipeline[n] = <<pc[i], hook[i]>>
  BY DEF Running, TypeOK
<1>2. pc[i] = "policy" => n = 1
  BY <1>1, Places
<1>3. pc[i] = "before" => n = 1 + hook[i] /\ hook[i] <= BeforeHooks
  BY <1>1, Places
<1>4. pc[i] = "handler" => n = 2 + BeforeHooks
  BY <1>1, Places
<1>5. pc[i] = "after" => n = 2 + BeforeHooks + hook[i] /\ hook[i] <= AfterHooks
  BY <1>1, Places
<1>. QED
  BY <1>2, <1>3, <1>4, <1>5

\* A failure of the handler or of an after hook is none that should have stopped it.
LEMMA LateFailure ==
  ASSUME TypeOK, NEW i \in Interactions, pc[i] \in {"handler", "after"}, AtCall(i),
         Succeeds \/ Fails(i)
  PROVE  \A m \in 1..(1 + BeforeHooks), f \in DOMAIN failures'[i] : failures'[i][f] # Pipeline[m]
<1>1. \A m \in 1..(1 + BeforeHooks), f \in DOMAIN failures[i] : failures[i][f] # Pipeline[m]
  BY DEF AtCall
<1>2. \A m \in 1..(1 + BeforeHooks) : Running(i) # Pipeline[m]
  <2>. SUFFICES ASSUME NEW m \in 1..(1 + BeforeHooks), Running(i) = Pipeline[m] PROVE FALSE
    OBVIOUS
  <2>1. m \in 1..Length /\ m <= 1 + BeforeHooks
    BY LengthNat
  <2>. QED
    BY <2>1, CallAt, LengthNat DEF TypeOK
<1>3. CASE failures'[i] = failures[i]
  BY <1>1, <1>3
<1>4. CASE failures'[i] = Append(failures[i], Running(i))
  <2>1. Running(i) \in Call /\ failures[i] \in Seq(Call)
    BY RunningTyped DEF TypeOK, UserCalls, CommandCalls
  <2>2. /\ DOMAIN failures'[i] = DOMAIN failures[i] \cup {Len(failures[i]) + 1}
        /\ \A k \in DOMAIN failures[i] : failures'[i][k] = failures[i][k]
        /\ failures'[i][Len(failures[i]) + 1] = Running(i)
    BY <1>4, <2>1, AppendFacts
  <2>. QED
    BY <1>1, <1>2, <2>2
<1>. QED
  BY <1>3, <1>4 DEF Succeeds, Fails, TypeOK

\* The pipeline is left, at a call behind which nothing is owed.
LEMMA PipelineLeft ==
  ASSUME TypeOK, ErrorInv, NEW i \in Interactions, target'[i] = target[i],
         pc[i] \in PipelineStages, AtCall(i), Succeeds \/ Fails(i),
         \A n \in 1..Length : Pipeline[n] = Running(i) => Whole(n),
         NEW r, Conclude(i, r), r # NoError => failures'[i] # <<>>
  PROVE  Lifecycle(i)'
<1>0. pc[i] \in UserCalls
  BY DEF PipelineStages, UserCalls, CommandCalls
<1>1. /\ \/ calls'[i] = calls[i]
         \/ calls'[i] = Append(calls[i], ErrorHandlerCall) /\ failures'[i] # <<>>
      /\ pc'[i] \in {"errorHandler", "releasing"}
  BY DEF Conclude, Enter, EndTask, GoTo, TypeOK, ErrorHandlerCall
<1>2. PICK n \in 1..Length : Shape(i, n)' /\ Pipeline[n] = Running(i)
  BY <1>0, <1>1, CallEnds
<1>3. n \in 0..Length /\ Whole(n)
  BY <1>2, LengthNat
<1>4. /\ pc'[i] \notin Unstarted \cup {"new"} /\ pc'[i] \notin AutocompleteCalls
      /\ pc'[i] \notin PipelineStages
  BY <1>1 DEF Unstarted, Reserving, Dispatching, AutocompleteCalls, PipelineStages
<1>. QED
  BY <1>2, <1>3, <1>4 DEF Lifecycle

\* The pipeline goes on.
LEMMA PipelineGoesOn ==
  ASSUME ErrorInv, NEW i \in Interactions, NEW stage \in PipelineStages,
         joined'[i] = "none", AtCall(i)', pc'[i] = stage,
         \E n \in 0..Length : Shape(i, n)'
  PROVE  Lifecycle(i)'
<1>1. /\ pc'[i] \notin Unstarted \cup {"new"} /\ pc'[i] \notin AutocompleteCalls
      /\ pc'[i] # "errorHandler"
  BY DEF Unstarted, Reserving, Dispatching, AutocompleteCalls, PipelineStages
<1>. QED
  BY <1>1 DEF Lifecycle

\* The task ends where it is, by a panic or an abort.
LEMMA TaskStops ==
  ASSUME TypeOK, NEW i \in Interactions, Lifecycle(i), TaskPanics(i) \/ TaskAborted(i)
  PROVE  Lifecycle(i)'
<1>1. /\ pc'[i] = "releasing" /\ joined'[i] \in {"Panicked", "Cancelled"}
      /\ UNCHANGED <<target, calls, failures>>
  BY DEF TaskPanics, TaskAborted, EndTask, GoTo, TypeOK
<1>2. /\ pc'[i] \notin Unstarted \cup {"new"} /\ pc'[i] \notin AutocompleteCalls
      /\ pc'[i] \notin PipelineStages /\ pc'[i] # "errorHandler"
  BY <1>1 DEF Unstarted, Reserving, Dispatching, AutocompleteCalls, PipelineStages
<1>3. \A n : Shape(i, n) => Shape(i, n)'
  BY <1>1 DEF Shape, Walked
<1>. QED
  BY <1>1, <1>2, <1>3 DEF Lifecycle

\* An autocomplete has no pipeline.
LEMMA WithoutCommand ==
  ASSUME NEW i \in Interactions, target'[i] = NoCommand, pc'[i] \notin Unstarted
  PROVE  Lifecycle(i)'
  BY DEF Lifecycle, Unstarted

LEMMA StartStep ==
  ASSUME TypeOK, ErrorInv, NEW i \in Interactions, Lifecycle(i), Start(i)
  PROVE  Lifecycle(i)'
<1>0. /\ pc[i] = "queued" /\ calls[i] = <<>> /\ failures'[i] = <<>> /\ joined'[i] = "none"
      /\ target' = target
  BY DEF Start, Lifecycle, Unstarted, Reserving, ErrorInv, Errors, Over
<1>1. CASE target[i] = NoCommand
  <2>1. pc'[i] = "autocomplete"
    BY <1>1 DEF Start, Enter, GoTo, TypeOK
  <2>. QED
    BY <1>0, <1>1, <2>1, WithoutCommand DEF Unstarted, Reserving, Dispatching
<1>2. CASE target[i] # NoCommand
  <2>1. Enter(i, "policy", 1)
    BY <1>2 DEF Start
  <2>2. /\ 0 \in 0..Length /\ Len(calls[i]) = 0 /\ 0 + 1 \in 1..Length
        /\ Pipeline[0 + 1] = <<"policy", 1>>
    BY <1>0, LengthNat, PipelineAt DEF PolicyCall
  <2>3. AtCall(i)' /\ pc'[i] = "policy" /\ \E p \in 0..Length : Shape(i, p)'
    BY <1>0, <2>1, <2>2, CallFollows DEF PipelineStages
  <2>. QED
    BY <1>0, <2>3, PipelineGoesOn DEF PipelineStages
<1>. QED
  BY <1>1, <1>2

\* The policy and the before hooks.
LEMMA BeforeStep ==
  ASSUME TypeOK, ErrorInv, NEW i \in Interactions, target[i] # NoCommand, Lifecycle(i),
         PolicyReturns(i) \/ BeforeHookReturns(i)
  PROVE  Lifecycle(i)'
<1>0. /\ pc[i] \in {"policy", "before"} /\ target' = target /\ AtCall(i)
      /\ pc[i] \in PipelineStages
  BY DEF PolicyReturns, BeforeHookReturns, PipelineStages, Lifecycle
<1>1. PICK n \in 1..Length :
        /\ Len(calls[i]) = n
        /\ Pipeline[n] = Running(i)
        /\ \A m \in 1..n : calls[i][m] = Pipeline[m]
  BY <1>0 DEF AtCall
<1>2. CASE Abandon(i)
  <2>1. \A p \in 1..Length : Pipeline[p] = Running(i) => Whole(p)
    BY <1>0, CallAt, LengthNat DEF Whole, TypeOK
  <2>2. failures'[i] # <<>> /\ Conclude(i, Running(i)) /\ Fails(i)
    BY <1>0, <1>2, FirstFailure DEF Abandon
  <2>. QED
    BY <1>0, <2>1, <2>2, PipelineLeft
<1>3. ASSUME NEW k \in Nat, Succeeds, EnterBefore(i, k), UNCHANGED result, n = k
      PROVE  Lifecycle(i)'
  <2>1. failures'[i] = <<>> /\ joined'[i] = "none"
    BY <1>0, <1>3 DEF Succeeds, EnterBefore, ErrorInv, Errors, Unfailed, Over
  <2>2. CASE k <= BeforeHooks
    <3>1. /\ Enter(i, "before", k) /\ n \in 0..Length /\ n + 1 \in 1..Length
          /\ Pipeline[n + 1] = <<"before", k>>
      BY <1>3, <2>2, LengthNat, PipelineAt DEF EnterBefore
    <3>2. AtCall(i)' /\ pc'[i] = "before" /\ \E p \in 0..Length : Shape(i, p)'
      BY <1>1, <2>1, <3>1, CallFollows DEF PipelineStages
    <3>. QED
      BY <2>1, <3>2, PipelineGoesOn DEF PipelineStages
  <2>3. CASE ~(k <= BeforeHooks)
    <3>1. n = 1 + BeforeHooks
      BY <1>0, <1>1, <1>3, <2>3, CallAt, LengthNat DEF TypeOK
    <3>2. /\ Enter(i, "handler", 1) /\ n \in 0..Length /\ n + 1 \in 1..Length
          /\ Pipeline[n + 1] = <<"handler", 1>>
      BY <1>3, <2>3, <3>1, LengthNat, PipelineAt DEF EnterBefore, HandlerCall
    <3>3. AtCall(i)' /\ pc'[i] = "handler" /\ \E p \in 0..Length : Shape(i, p)'
      BY <1>1, <2>1, <3>2, CallFollows DEF PipelineStages
    <3>. QED
      BY <2>1, <3>3, PipelineGoesOn DEF PipelineStages
  <2>. QED
    BY <2>2, <2>3
<1>4. CASE PolicyReturns(i)
  <2>1. pc[i] = "policy" /\ n = 1
    BY <1>1, <1>4, CallAt DEF PolicyReturns
  <2>. QED
    BY <1>2, <1>3, <1>4, <2>1 DEF PolicyReturns
<1>5. CASE BeforeHookReturns(i)
  <2>1. pc[i] = "before" /\ n = hook[i] + 1 /\ hook[i] + 1 \in Nat
    BY <1>1, <1>5, CallAt DEF BeforeHookReturns, TypeOK
  <2>. QED
    BY <1>2, <1>3, <1>5, <2>1 DEF BeforeHookReturns
<1>. QED
  BY <1>4, <1>5

\* The handler and the after hooks: whatever they return, the next one starts.
LEMMA AfterStep ==
  ASSUME TypeOK, ErrorInv, NEW i \in Interactions, target[i] # NoCommand, Lifecycle(i),
         HandlerReturns(i) \/ AfterHookReturns(i)
  PROVE  Lifecycle(i)'
<1>0. /\ pc[i] \in {"handler", "after"} /\ target' = target /\ AtCall(i)
      /\ pc[i] \in PipelineStages /\ pc[i] \in UserCalls
  BY DEF HandlerReturns, AfterHookReturns, PipelineStages, Lifecycle, UserCalls, CommandCalls
<1>1. PICK n \in 1..Length :
        /\ Len(calls[i]) = n
        /\ Pipeline[n] = Running(i)
        /\ \A m \in 1..n : calls[i][m] = Pipeline[m]
  BY <1>0 DEF AtCall
<1>2. ASSUME NEW k \in Nat, NEW r, EnterAfter(i, k, r), Succeeds \/ Fails(i),
             r # NoError => failures'[i] # <<>>, n = 1 + BeforeHooks + k, k > 0
      PROVE  Lifecycle(i)'
  <2>1. CASE k <= AfterHooks
    <3>1. /\ Enter(i, "after", k) /\ n \in 0..Length /\ n + 1 \in 1..Length
          /\ Pipeline[n + 1] = <<"after", k>>
      <4>1. n \in 0..Length /\ n + 1 \in 1..Length
        BY <1>2, <2>1, LengthNat
      <4>2. ~(n + 1 <= 2 + BeforeHooks) /\ (n + 1) - 2 - BeforeHooks = k
        BY <1>2, LengthNat
      <4>3. Pipeline[n + 1] = <<"after", (n + 1) - 2 - BeforeHooks>>
        BY <4>1, <4>2, PipelineAt, LengthNat
      <4>. QED
        BY <1>2, <2>1, <4>1, <4>2, <4>3 DEF EnterAfter
    <3>2. \A m \in 1..(1 + BeforeHooks), f \in DOMAIN failures'[i] : failures'[i][f] # Pipeline[m]
      BY <1>0, <1>2, LateFailure
    <3>3. AtCall(i)' /\ pc'[i] = "after" /\ \E p \in 0..Length : Shape(i, p)'
      BY <1>1, <3>1, <3>2, CallFollows DEF PipelineStages
    <3>4. joined'[i] = "none"
      BY <1>0, <1>2, <2>1 DEF EnterAfter, ErrorInv, Errors, Over
    <3>. QED
      BY <3>3, <3>4, PipelineGoesOn DEF PipelineStages
  <2>2. CASE ~(k <= AfterHooks)
    <3>1. n = Length
      BY <1>2, <2>2, LengthNat
    <3>2. \A p \in 1..Length : Pipeline[p] = Running(i) => Whole(p)
      BY <1>1, <3>1, Places DEF Whole
    <3>3. Conclude(i, r)
      BY <1>2, <2>2 DEF EnterAfter
    <3>. QED
      BY <1>0, <1>2, <3>2, <3>3, PipelineLeft
  <2>. QED
    BY <2>1, <2>2
<1>3. CASE HandlerReturns(i)
  <2>1. pc[i] = "handler" /\ n = 1 + BeforeHooks + 1
    BY <1>1, <1>3, CallAt, LengthNat DEF HandlerReturns
  <2>2. CASE Succeeds /\ EnterAfter(i, 1, NoError)
    BY <1>2, <2>1, <2>2
  <2>3. CASE Fails(i) /\ Retain(i, Running(i)) /\ EnterAfter(i, 1, Running(i))
    <3>1. failures'[i] # <<>>
      BY <2>1, <2>3, FirstFailure
    <3>. QED
      BY <1>2, <2>1, <2>3, <3>1
  <2>. QED
    BY <1>3, <2>2, <2>3 DEF HandlerReturns
<1>4. CASE AfterHookReturns(i)
  <2>1. pc[i] = "after" /\ hook[i] + 1 \in Nat /\ hook[i] + 1 > 0 /\ n = 1 + BeforeHooks + (hook[i] + 1)
    <3>1. pc[i] = "after" /\ hook[i] \in Nat
      BY <1>4 DEF AfterHookReturns, TypeOK
    <3>2. n = 2 + BeforeHooks + hook[i]
      BY <1>1, <3>1, CallAt
    <3>. QED
      BY <3>1, <3>2, LengthNat
  <2>2. PICK latest \in {NoError, Running(i)} :
          /\ IF latest = NoError THEN Succeeds ELSE Fails(i)
          /\ EnterAfter(i, hook[i] + 1, FirstError(result[i], latest))
    BY <1>4 DEF AfterHookReturns
  <2>3. CASE latest = NoError
    <3>1. FirstError(result[i], latest) # NoError => failures'[i] # <<>>
      BY <2>2, <2>3 DEF FirstError, Succeeds, ErrorInv, Errors
    <3>. QED
      BY <1>2, <2>1, <2>2, <2>3, <3>1
  <2>4. CASE latest # NoError
    <3>1. failures'[i] # <<>>
      BY <1>0, <2>2, <2>4, FailureRecorded DEF UserCalls, CommandCalls
    <3>. QED
      BY <1>2, <2>1, <2>2, <2>4, <3>1
  <2>. QED
    BY <2>3, <2>4
<1>. QED
  BY <1>3, <1>4

LEMMA ErrorHandlerStep ==
  ASSUME TypeOK, NEW i \in Interactions, target[i] # NoCommand, Lifecycle(i),
         ErrorHandlerReturns(i)
  PROVE  Lifecycle(i)'
<1>1. /\ pc[i] = "errorHandler" /\ pc[i] \in UserCalls /\ pc'[i] = "releasing"
      /\ UNCHANGED <<target, calls>> /\ (Succeeds \/ Fails(i))
  BY DEF ErrorHandlerReturns, EndTask, GoTo, TypeOK, UserCalls, CommandCalls
<1>2. PICK n \in 0..Length : Shape(i, n) /\ Whole(n)
  BY <1>1 DEF Lifecycle
<1>3. \A m \in 1..Length : Running(i) # Pipeline[m]
  <2>. SUFFICES ASSUME NEW m \in 1..Length, Running(i) = Pipeline[m] PROVE FALSE
    OBVIOUS
  <2>1. Pipeline[m][1] \in PipelineStages /\ Running(i)[1] = "errorHandler"
    BY <1>1, Places DEF Running
  <2>. QED
    BY <2>1 DEF PipelineStages
<1>4. /\ \A m \in 1..(n - 1), k \in DOMAIN failures'[i] :
           m <= 1 + BeforeHooks => failures'[i][k] # Pipeline[m]
      /\ failures[i] # <<>> => failures'[i] # <<>>
  <2>1. CASE failures'[i] = failures[i]
    BY <1>2, <2>1 DEF Shape, Walked
  <2>2. CASE failures'[i] = Append(failures[i], Running(i))
    <3>1. Running(i) \in Call /\ failures[i] \in Seq(Call)
      BY <1>1, RunningTyped DEF TypeOK
    <3>2. /\ DOMAIN failures'[i] = DOMAIN failures[i] \cup {Len(failures[i]) + 1}
          /\ \A k \in DOMAIN failures[i] : failures'[i][k] = failures[i][k]
          /\ failures'[i][Len(failures[i]) + 1] = Running(i)
          /\ failures'[i] # <<>>
      BY <2>2, <3>1, AppendFacts
    <3>3. \A m \in 1..(n - 1) : m \in 1..Length
      BY LengthNat
    <3>4. \A m \in 1..(n - 1), k \in DOMAIN failures[i] :
            m <= 1 + BeforeHooks => failures[i][k] # Pipeline[m]
      BY <1>2 DEF Shape, Walked
    <3>. QED
      BY <1>3, <3>2, <3>3, <3>4
  <2>. QED
    BY <1>1, <2>1, <2>2 DEF Succeeds, Fails, TypeOK
<1>5. Shape(i, n)'
  BY <1>1, <1>2, <1>4 DEF Shape, Walked
<1>6. /\ pc'[i] \notin Unstarted \cup {"new"} /\ pc'[i] \notin AutocompleteCalls
      /\ pc'[i] \notin PipelineStages
  BY <1>1 DEF Unstarted, Reserving, Dispatching, AutocompleteCalls, PipelineStages
<1>. QED
  BY <1>2, <1>5, <1>6 DEF Lifecycle

\* Calls that return keep the targets, and lead to a call or to the task's end.
LEMMA ReturnsLead ==
  ASSUME TypeOK, NEW i \in Interactions, UserReturns(i)
  PROVE  target' = target /\ pc'[i] \notin Unstarted
<1>1. /\ \A stage \in UserCalls : \A k : Enter(i, stage, k) => pc'[i] \notin Unstarted
      /\ \A verdict : EndTask(i, verdict) => pc'[i] \notin Unstarted
  BY DEF Enter, EndTask, GoTo, TypeOK, Unstarted, Reserving, Dispatching, UserCalls, CommandCalls,
         AutocompleteCalls
<1>. USE DEF UserCalls, CommandCalls, AutocompleteCalls
<1>2. \A r : Conclude(i, r) => pc'[i] \notin Unstarted
  BY <1>1 DEF Conclude
<1>3. /\ \A k : EnterBefore(i, k) => pc'[i] \notin Unstarted
      /\ \A k, r : EnterAfter(i, k, r) => pc'[i] \notin Unstarted
  BY <1>1, <1>2 DEF EnterBefore, EnterAfter
<1>. QED
  BY <1>1, <1>2, <1>3
  DEF UserReturns, PolicyReturns, BeforeHookReturns, HandlerReturns, AfterHookReturns,
      ErrorHandlerReturns, AutocompleteReturns, CallbackReturns, Abandon

LEMMA LifecycleStep == TypeOK /\ ErrorInv /\ LifecycleInv /\ [Next]_vars => LifecycleInv'
<1>. SUFFICES ASSUME TypeOK, ErrorInv, LifecycleInv, [Next]_vars, NEW j \in Interactions
              PROVE  Lifecycle(j)'
  BY DEF LifecycleInv
<1>0. \A i \in Interactions : Lifecycle(i)
  BY DEF LifecycleInv
<1>1. ASSUME NEW i \in Interactions, Dispatch(i) \/ PrepareWithoutTask(i) \/ PrepareCommand(i)
               \/ PrepareAutocomplete(i) \/ ReleaseCommandPermit(i) \/ ReleaseGlobalPermit(i)
      PROVE  Lifecycle(j)'
  BY <1>1, BookkeepingStartsNothing
<1>2. ASSUME NEW i \in Interactions,
             Start(i) \/ UserReturns(i) \/ TaskPanics(i) \/ TaskAborted(i), j # i
      PROVE  Lifecycle(j)'
  BY <1>0, <1>2, OthersUntouched, LifecycleKept
<1>3. CASE UserReturns(j)
  <2>1. CASE target[j] = NoCommand
    BY <1>3, <2>1, ReturnsLead, WithoutCommand
  <2>2. CASE target[j] # NoCommand
    <3>1. ~AutocompleteReturns(j) /\ ~CallbackReturns(j)
      BY <1>0, <2>2 DEF Lifecycle, AutocompleteReturns, CallbackReturns, AutocompleteCalls
    <3>. QED
      BY <1>0, <1>3, <2>2, <3>1, BeforeStep, AfterStep, ErrorHandlerStep DEF UserReturns
  <2>. QED
    BY <2>1, <2>2
<1>4. CASE Start(j)
  BY <1>0, <1>4, StartStep
<1>5. CASE TaskPanics(j) \/ TaskAborted(j)
  BY <1>0, <1>5, TaskStops
<1>6. CASE UNCHANGED vars
  BY <1>0, <1>6, LifecycleKept DEF vars, history
<1>. QED
  BY <1>1, <1>2, <1>3, <1>4, <1>5, <1>6 DEF Next, Quiet, Runtime

LEMMA LifecycleInvariant == Spec => []LifecycleInv
<1>1. Init => LifecycleInv
  BY DEF Init, LifecycleInv, Lifecycle, AutocompleteCalls
<1>. QED
  BY <1>1, LifecycleStep, TypeCorrect, ErrorInvariant, PTL DEF Spec

-----------------------------------------------------------------------------

\* Calls come in the pipeline's order, none behind a policy or a before hook that
\* failed, and the error handler last and only after a failure.
THEOREM LifecycleOrdered == Spec => []LifecycleOrder
<1>1. TypeOK /\ LifecycleInv => LifecycleOrder
  <2>. SUFFICES ASSUME TypeOK, LifecycleInv, NEW i \in Interactions, target[i] # NoCommand,
                       NEW c \in DOMAIN calls[i]
                PROVE  \/ /\ c \in DOMAIN Pipeline
                          /\ calls[i][c] = Pipeline[c]
                          /\ c > 1 /\ calls[i][c - 1][1] \in {"policy", "before"} =>
                               \A m \in DOMAIN failures[i] : failures[i][m] # calls[i][c - 1]
                       \/ /\ calls[i][c] = <<"errorHandler", 1>> /\ c = Len(calls[i])
                          /\ failures[i] # <<>>
    BY DEF LifecycleOrder
  <2>1. PICK n \in 0..Length : Shape(i, n)
    BY DEF LifecycleInv, Lifecycle
  <2>2. calls[i] \in Seq(Call) /\ c \in 1..Len(calls[i]) /\ Len(calls[i]) \in Nat
    BY DEF TypeOK
  <2>3. CASE c <= n
    <3>1. c \in DOMAIN Pipeline /\ calls[i][c] = Pipeline[c]
      BY <2>1, <2>2, <2>3, PipelineAt DEF Shape, Walked
    <3>2. ASSUME c > 1, calls[i][c - 1][1] \in {"policy", "before"}, NEW m \in DOMAIN failures[i]
          PROVE  failures[i][m] # calls[i][c - 1]
      <4>1. c - 1 \in 1..(n - 1) /\ c - 1 \in 1..n /\ c - 1 \in 1..Length
        BY <2>2, <2>3, <3>2, LengthNat
      <4>2. calls[i][c - 1] = Pipeline[c - 1]
        BY <2>1, <4>1 DEF Shape, Walked
      <4>3. c - 1 <= 1 + BeforeHooks
        BY <3>2, <4>1, <4>2, Places
      <4>. QED
        BY <2>1, <4>1, <4>2, <4>3 DEF Shape, Walked
    <3>. QED
      BY <3>1, <3>2
  <2>4. CASE ~(c <= n)
    <3>1. c = n + 1 /\ Len(calls[i]) = n + 1
      BY <2>1, <2>2, <2>4, LengthNat DEF Shape
    <3>. QED
      BY <2>1, <3>1, LengthNat DEF Shape, ErrorHandlerCall
  <2>. QED
    BY <2>3, <2>4
<1>. QED
  BY <1>1, LifecycleInvariant, TypeCorrect, PTL

\* A task that ends by itself ran all its after hooks if its handler started, and none
\* of them otherwise.
THEOREM AfterHooksComplete == Spec => []AfterHooksFollowHandler
<1>1. TypeOK /\ LifecycleInv => AfterHooksFollowHandler
  <2>. SUFFICES ASSUME TypeOK, LifecycleInv, NEW i \in Interactions, target[i] # NoCommand,
                       joined[i] \in {"Ok", "Err"}, NEW k \in 1..AfterHooks
                PROVE  Started(i, <<"after", k>>) <=> Started(i, HandlerCall)
    BY DEF AfterHooksFollowHandler, HandlerCall
  <2>1. PICK n \in 0..Length : Shape(i, n) /\ Whole(n)
    BY DEF LifecycleInv, Lifecycle
  <2>2. /\ calls[i] \in Seq(Call) /\ Len(calls[i]) \in {n, n + 1} /\ DOMAIN calls[i] = 1..Len(calls[i])
        /\ \A m \in 1..n : calls[i][m] = Pipeline[m]
        /\ Len(calls[i]) = n + 1 => calls[i][n + 1] = ErrorHandlerCall
    BY <2>1 DEF TypeOK, Shape, Walked
  <2>3. ASSUME NEW p \in 1..Length, NEW call, Pipeline[p] = call
        PROVE  Started(i, call) <=> p <= n
    <3>1. call # ErrorHandlerCall
      <4>1. call[1] \in PipelineStages
        BY <2>3, Places
      <4>. QED
        BY <4>1 DEF PipelineStages, ErrorHandlerCall
    <3>2. p <= n => p \in DOMAIN calls[i] /\ calls[i][p] = call
      BY <2>2, <2>3, LengthNat
    <3>3. ASSUME NEW m \in DOMAIN calls[i], calls[i][m] = call PROVE p <= n
      <4>1. m \in 1..n
        BY <2>2, <3>1, <3>3, LengthNat
      <4>2. m \in 1..Length /\ Pipeline[m] = Pipeline[p]
        BY <2>2, <2>3, <3>3, <4>1, LengthNat
      <4>. QED
        BY <4>1, <4>2, Places
    <3>. QED
      BY <3>2, <3>3 DEF Started
  <2>4. /\ 2 + BeforeHooks \in 1..Length /\ Pipeline[2 + BeforeHooks] = HandlerCall
        /\ 2 + BeforeHooks + k \in 1..Length /\ Pipeline[2 + BeforeHooks + k] = <<"after", k>>
    <3>1. /\ 2 + BeforeHooks \in 1..Length /\ 2 + BeforeHooks + k \in 1..Length
          /\ 2 + BeforeHooks # 1 /\ ~(2 + BeforeHooks <= 1 + BeforeHooks)
      BY LengthNat
    <3>2. Pipeline[2 + BeforeHooks] = HandlerCall
      BY <3>1, PipelineAt
    <3>3. PICK a \in 1..Length : a = 2 + BeforeHooks + k
      BY <3>1
    <3>4. /\ a # 1 /\ ~(a <= 1 + BeforeHooks) /\ a # 2 + BeforeHooks
          /\ a - 2 - BeforeHooks = k
      BY <3>3, LengthNat
    <3>5. Pipeline[a] = <<"after", k>>
      BY <3>4, PipelineAt
    <3>. QED
      BY <3>1, <3>2, <3>3, <3>5
  <2>5. /\ Started(i, HandlerCall) <=> 2 + BeforeHooks <= n
        /\ Started(i, <<"after", k>>) <=> 2 + BeforeHooks + k <= n
    BY <2>3, <2>4
  <2>. QED
    BY <2>1, <2>4, <2>5, LengthNat DEF Whole
<1>. QED
  BY <1>1, LifecycleInvariant, TypeCorrect, PTL
=============================================================================
