------------------------------ MODULE Execution ------------------------------
(***************************************************************************)
(* Bounded dispatch and the execution pipeline of gloam-commands            *)
(* (crates/gloam-commands/src/framework.rs, dispatch.rs).                   *)
(*                                                                         *)
(* `Framework::dispatch` takes &self, so any number of threads may be       *)
(* dispatching at once; every interaction below is its own process.  First  *)
(* it is dispatched (prepare, reserve the command's slot, reserve a global   *)
(* slot, spawn), then, if spawned, it is a Tokio task that owns its permits  *)
(* and runs user code between awaits.  Every await is a point where another *)
(* process moves and where the task can be aborted.                         *)
(***************************************************************************)
EXTENDS Integers, FiniteSets, Sequences

CONSTANTS Interactions,     \* the INTERACTION_CREATE events the gateway delivers
          Commands,         \* registered command leaves
          Limited,          \* the leaves whose policy sets max_concurrency
          CommandLimit,     \* their limits
          GlobalLimit,      \* FrameworkBuilder::max_concurrent_commands
          BeforeHooks,      \* number of before_command hooks
          AfterHooks,       \* number of after_command hooks
          HasErrorHandler,  \* whether command_error_handler is configured
          NoCommand,        \* target of an interaction that is no command execution
          Hung              \* interactions whose user code never returns

\* Registry and builder refuse a zero limit (registry.rs:114, framework.rs:406).
ASSUME ExecutionAssumption ==
  /\ IsFiniteSet(Interactions)
  /\ Limited \subseteq Commands
  /\ NoCommand \notin Commands
  /\ CommandLimit \in [Limited -> Nat \ {0}]
  /\ GlobalLimit \in Nat \ {0}
  /\ BeforeHooks \in Nat
  /\ AfterHooks \in Nat
  /\ HasErrorHandler \in BOOLEAN
  /\ Hung \subseteq Interactions

VARIABLES pc,           \* where each interaction is
          hook,         \* index of the hook it is running
          target,       \* the leaf it resolved to
          globalFree,   \* available permits of Framework.command_slots
          commandFree,  \* available permits of each CommandPolicy.command_slots
          globalHeld,   \* interactions that own a global permit
          commandHeld,  \* interactions that own a permit of their command
          outcome,      \* what dispatch returned
          result,       \* the pipeline's `result`: the call whose error it holds
          joined,       \* what CommandTask::join returns
          calls,        \* history: user calls started, in order
          failures      \* history: user calls that returned an error, in order

permits == <<globalFree, commandFree, globalHeld, commandHeld>>
history == <<result, calls, failures>>
vars == <<pc, hook, target, permits, outcome, joined, history>>

Dispatching == {"acquireCommand", "acquireGlobal", "refusing", "granted"}
CommandCalls == {"policy", "before", "handler", "after", "errorHandler"}
AutocompleteCalls == {"autocomplete", "callback"}
UserCalls == CommandCalls \cup AutocompleteCalls
Settled == {"closed", "finished"}
Stages == {"new", "queued", "releasing"} \cup Dispatching \cup UserCalls \cup Settled

\* The stages between winning both reservations and ending the future.
Admitted == {"granted", "queued"} \cup UserCalls

Call == UserCalls \X Nat
NoError == <<"none", 0>>
Running(i) == <<pc[i], hook[i]>>
CommandOwners(c) == {i \in commandHeld : target[i] = c}

TypeOK ==
  /\ pc \in [Interactions -> Stages]
  /\ hook \in [Interactions -> Nat]
  /\ target \in [Interactions -> Commands \cup {NoCommand}]
  /\ globalFree \in Nat
  /\ commandFree \in [Limited -> Nat]
  /\ globalHeld \subseteq Interactions
  /\ commandHeld \subseteq Interactions
  /\ outcome \in [Interactions ->
        {"none", "Ignored", "Unregistered", "Error", "AtCapacity", "Spawned"}]
  /\ result \in [Interactions -> Call \cup {NoError}]
  /\ joined \in [Interactions -> {"none", "Ok", "Err", "Panicked", "Cancelled"}]
  /\ calls \in [Interactions -> Seq(Call)]
  /\ failures \in [Interactions -> Seq(Call)]

Init ==
  /\ pc = [i \in Interactions |-> "new"]
  /\ hook = [i \in Interactions |-> 0]
  /\ target = [i \in Interactions |-> NoCommand]
  /\ globalFree = GlobalLimit
  /\ commandFree = CommandLimit
  /\ globalHeld = {}
  /\ commandHeld = {}
  /\ outcome = [i \in Interactions |-> "none"]
  /\ result = [i \in Interactions |-> NoError]
  /\ joined = [i \in Interactions |-> "none"]
  /\ calls = [i \in Interactions |-> <<>>]
  /\ failures = [i \in Interactions |-> <<>>]

-----------------------------------------------------------------------------
(* Dispatch: prepare_dispatch, spawn_prepared and the two try_execute.      *)

GoTo(i, stage) == pc' = [pc EXCEPT ![i] = stage]

\* The dispatch returns without a task; no permit is owned any more.
Close(i, answer) ==
  /\ GoTo(i, "closed")
  /\ outcome' = [outcome EXCEPT ![i] = answer]

\* prepare_dispatch refuses or ignores the event, or Handle::try_current fails.
PrepareWithoutTask(i) ==
  /\ pc[i] = "new"
  /\ \E answer \in {"Ignored", "Unregistered", "Error"} : Close(i, answer)
  /\ UNCHANGED <<hook, target, permits, joined, history>>

PrepareCommand(i) ==
  /\ pc[i] = "new"
  /\ \E c \in Commands : target' = [target EXCEPT ![i] = c]
  /\ GoTo(i, "acquireCommand")
  /\ UNCHANGED <<hook, permits, outcome, joined, history>>

\* Autocomplete takes no command permit.
PrepareAutocomplete(i) ==
  /\ pc[i] = "new"
  /\ GoTo(i, "acquireGlobal")
  /\ UNCHANGED <<hook, target, permits, outcome, joined, history>>

\* Mutant: the command's limit is not looked at.
CommandSlotUnchecked(c) == TRUE

CommandSlotFree(c) == commandFree[c] > 0

AcquireCommandPermit(i) ==
  /\ pc[i] = "acquireCommand"
  /\ \/ /\ target[i] \notin Limited
        /\ GoTo(i, "acquireGlobal")
        /\ UNCHANGED <<outcome, permits>>
     \/ /\ target[i] \in Limited
        /\ CommandSlotFree(target[i])
        /\ commandFree' = [commandFree EXCEPT ![target[i]] = @ - 1]
        /\ commandHeld' = commandHeld \cup {i}
        /\ GoTo(i, "acquireGlobal")
        /\ UNCHANGED <<outcome, globalFree, globalHeld>>
     \/ /\ target[i] \in Limited
        /\ ~CommandSlotFree(target[i])
        /\ Close(i, "AtCapacity")
        /\ UNCHANGED permits
  /\ UNCHANGED <<hook, target, joined, history>>

\* Mutant: the future does not capture the permit, which is dropped unspawned.
AcquireUncapturedPermit(i) ==
  /\ pc[i] = "acquireGlobal"
  /\ globalFree > 0
  /\ GoTo(i, "granted")
  /\ UNCHANGED <<hook, target, permits, outcome, joined, history>>

AcquireGlobalPermit(i) ==
  /\ pc[i] = "acquireGlobal"
  /\ globalFree > 0
  /\ globalFree' = globalFree - 1
  /\ globalHeld' = globalHeld \cup {i}
  /\ GoTo(i, "granted")
  /\ UNCHANGED <<hook, target, commandFree, commandHeld, outcome, joined, history>>

\* Mutant: acquire_owned().await instead of try_acquire_owned.
AwaitGlobal(i) ==
  /\ pc[i] = "acquireGlobal"
  /\ globalFree = 0
  /\ UNCHANGED vars

\* Mutant: the early return forgets the command permit.
RefuseKeepingPermit(i) ==
  /\ pc[i] = "acquireGlobal"
  /\ globalFree = 0
  /\ Close(i, "AtCapacity")
  /\ UNCHANGED <<hook, target, permits, joined, history>>

\* The early return still owns command_permit; it is dropped on the way out.
RefuseGlobal(i) ==
  /\ pc[i] = "acquireGlobal"
  /\ globalFree = 0
  /\ IF i \in commandHeld
     THEN GoTo(i, "refusing") /\ outcome' = [outcome EXCEPT ![i] = "AtCapacity"]
     ELSE Close(i, "AtCapacity")
  /\ UNCHANGED <<hook, target, permits, joined, history>>

\* Mutant: OwnedSemaphorePermit::forget.
ForgetCommandPermit(i) ==
  /\ commandHeld' = commandHeld \ {i}
  /\ UNCHANGED commandFree

ReturnCommandPermit(i) ==
  /\ commandHeld' = commandHeld \ {i}
  /\ commandFree' = [commandFree EXCEPT ![target[i]] = @ + 1]

DropRefusedPermit(i) ==
  /\ pc[i] = "refusing"
  /\ ReturnCommandPermit(i)
  /\ GoTo(i, "closed")
  /\ UNCHANGED <<hook, target, globalFree, globalHeld, outcome, joined, history>>

Spawn(i) ==
  /\ pc[i] = "granted"
  /\ GoTo(i, "queued")
  /\ outcome' = [outcome EXCEPT ![i] = "Spawned"]
  /\ UNCHANGED <<hook, target, permits, joined, history>>

-----------------------------------------------------------------------------
(* The task: execute_command and execute_autocomplete.                     *)

Enter(i, stage, k) ==
  /\ GoTo(i, stage)
  /\ hook' = [hook EXCEPT ![i] = k]
  /\ calls' = [calls EXCEPT ![i] = Append(@, <<stage, k>>)]

\* The future is over; its owned permits are still to be dropped.
EndTask(i, verdict) ==
  /\ GoTo(i, "releasing")
  /\ joined' = [joined EXCEPT ![i] = verdict]
  /\ UNCHANGED <<hook, calls>>

\* The match after the pipeline: r is the result it ended with.
Conclude(i, r) ==
  IF r = NoError THEN EndTask(i, "Ok")
  ELSE IF HasErrorHandler THEN Enter(i, "errorHandler", 1) /\ UNCHANGED joined
  ELSE EndTask(i, "Err")

Retain(i, r) == result' = [result EXCEPT ![i] = r]
Succeeds == UNCHANGED failures
Fails(i) == failures' = [failures EXCEPT ![i] = Append(@, Running(i))]

\* `?`: the pipeline block returns the error at once.
Abandon(i) ==
  /\ Fails(i)
  /\ Retain(i, Running(i))
  /\ Conclude(i, Running(i))

\* The before hook k, or the handler once all of them have run.
EnterBefore(i, k) ==
  /\ IF k <= BeforeHooks THEN Enter(i, "before", k) ELSE Enter(i, "handler", 1)
  /\ UNCHANGED joined

\* The after hook k, or the end of the pipeline with result r.
EnterAfter(i, k, r) ==
  IF k <= AfterHooks THEN Enter(i, "after", k) /\ UNCHANGED joined
  ELSE Conclude(i, r)

Start(i) ==
  /\ pc[i] = "queued"
  /\ IF target[i] = NoCommand THEN Enter(i, "autocomplete", 1) ELSE Enter(i, "policy", 1)
  /\ UNCHANGED <<target, permits, outcome, joined, result, failures>>

PolicyReturns(i) ==
  /\ pc[i] = "policy"
  /\ \/ Succeeds /\ EnterBefore(i, 1) /\ UNCHANGED result
     \/ Abandon(i)
  /\ UNCHANGED <<target, permits, outcome>>

\* Mutant: a before hook's error is recorded but does not stop the pipeline.
BeforeHookIgnored(i) ==
  /\ pc[i] = "before"
  /\ \/ Succeeds /\ UNCHANGED result
     \/ Fails(i) /\ Retain(i, Running(i))
  /\ EnterBefore(i, hook[i] + 1)
  /\ UNCHANGED <<target, permits, outcome>>

BeforeHookReturns(i) ==
  /\ pc[i] = "before"
  /\ \/ Succeeds /\ EnterBefore(i, hook[i] + 1) /\ UNCHANGED result
     \/ Abandon(i)
  /\ UNCHANGED <<target, permits, outcome>>

\* Mutant: `?` on the handler's result.
HandlerReturnsEarly(i) ==
  /\ pc[i] = "handler"
  /\ \/ Succeeds /\ EnterAfter(i, 1, NoError) /\ UNCHANGED result
     \/ Abandon(i)
  /\ UNCHANGED <<target, permits, outcome>>

\* A failing handler does not skip the after hooks.
HandlerReturns(i) ==
  /\ pc[i] = "handler"
  /\ \/ Succeeds /\ EnterAfter(i, 1, NoError) /\ UNCHANGED result
     \/ Fails(i) /\ Retain(i, Running(i)) /\ EnterAfter(i, 1, Running(i))
  /\ UNCHANGED <<target, permits, outcome>>

\* Mutant: `result = hook_result.or(result)`, the last error wins.
LatestError(first, latest) == IF latest = NoError THEN first ELSE latest

\* `if result.is_ok() { result = hook_result }`
FirstError(first, latest) == IF first = NoError THEN latest ELSE first

AfterHookReturns(i) ==
  /\ pc[i] = "after"
  /\ \E latest \in {NoError, Running(i)} :
       LET r == FirstError(result[i], latest) IN
       /\ IF latest = NoError THEN Succeeds ELSE Fails(i)
       /\ Retain(i, r)
       /\ EnterAfter(i, hook[i] + 1, r)
  /\ UNCHANGED <<target, permits, outcome>>

\* Mutant: the error handler's result is discarded.
ErrorHandlerSwallows(i) ==
  /\ pc[i] = "errorHandler"
  /\ Succeeds \/ Fails(i)
  /\ EndTask(i, "Ok")
  /\ UNCHANGED <<target, permits, outcome, result>>

\* The error handler's own result is the task's result.
ErrorHandlerReturns(i) ==
  /\ pc[i] = "errorHandler"
  /\ \/ Succeeds /\ EndTask(i, "Ok")
     \/ Fails(i) /\ EndTask(i, "Err")
  /\ UNCHANGED <<target, permits, outcome, result>>

\* The handler's choices are validated before the callback is sent; an invalid
\* list is an error like the handler's own.
AutocompleteReturns(i) ==
  /\ pc[i] = "autocomplete"
  /\ \/ Succeeds /\ Enter(i, "callback", 1) /\ UNCHANGED <<joined, result>>
     \/ Fails(i) /\ Retain(i, Running(i)) /\ EndTask(i, "Err")
  /\ UNCHANGED <<target, permits, outcome>>

CallbackReturns(i) ==
  /\ pc[i] = "callback"
  /\ \/ Succeeds /\ EndTask(i, "Ok") /\ UNCHANGED result
     \/ Fails(i) /\ Retain(i, Running(i)) /\ EndTask(i, "Err")
  /\ UNCHANGED <<target, permits, outcome>>

\* User code panics: Tokio unwinds the future and join reports the panic.
TaskPanics(i) ==
  /\ pc[i] \in UserCalls
  /\ EndTask(i, "Panicked")
  /\ UNCHANGED <<target, permits, outcome, result, failures>>

\* Mutant: an aborted future is leaked rather than dropped.
AbortForgettingPermits(i) ==
  /\ pc[i] \in UserCalls \cup {"queued"}
  /\ GoTo(i, "finished")
  /\ joined' = [joined EXCEPT ![i] = "Cancelled"]
  /\ UNCHANGED <<hook, target, permits, outcome, history>>

\* CommandTask::abort, or the runtime shutting down, drops the future at an
\* await or before its first poll.
TaskAborted(i) ==
  /\ pc[i] \in UserCalls \cup {"queued"}
  /\ EndTask(i, "Cancelled")
  /\ UNCHANGED <<target, permits, outcome, result, failures>>

-----------------------------------------------------------------------------
(* Dropping the future: `_command_permit` is declared after `_permit`, so a  *)
(* polled future drops it first; one never polled drops its captures in an   *)
(* order the source does not fix.                                           *)

ReleaseCommandPermit(i) ==
  /\ pc[i] = "releasing"
  /\ i \in commandHeld
  /\ ReturnCommandPermit(i)
  /\ GoTo(i, IF i \in globalHeld THEN "releasing" ELSE "finished")
  /\ UNCHANGED <<hook, target, globalFree, globalHeld, outcome, joined, history>>

ReleaseGlobalPermit(i) ==
  /\ pc[i] = "releasing"
  /\ i \in globalHeld
  /\ i \in commandHeld => calls[i] = <<>>
  /\ globalHeld' = globalHeld \ {i}
  /\ globalFree' = globalFree + 1
  /\ GoTo(i, IF i \in commandHeld THEN "releasing" ELSE "finished")
  /\ UNCHANGED <<hook, target, commandFree, commandHeld, outcome, joined, history>>

-----------------------------------------------------------------------------

\* The steps of the thread that dispatches i.
Dispatch(i) ==
  \/ AcquireCommandPermit(i)
  \/ AcquireGlobalPermit(i)
  \/ RefuseGlobal(i)
  \/ DropRefusedPermit(i)
  \/ Spawn(i)

\* Tokio polling a task for the first time, or dropping its future.
Runtime(i) ==
  \/ Start(i)
  \/ ReleaseCommandPermit(i)
  \/ ReleaseGlobalPermit(i)

\* User code, or a REST call, gives control back.
UserReturns(i) ==
  \/ PolicyReturns(i)
  \/ BeforeHookReturns(i)
  \/ HandlerReturns(i)
  \/ AfterHookReturns(i)
  \/ ErrorHandlerReturns(i)
  \/ AutocompleteReturns(i)
  \/ CallbackReturns(i)

\* All interactions have been dispatched and every task has ended.
Quiet ==
  /\ \A i \in Interactions : pc[i] \in Settled
  /\ UNCHANGED vars

Next ==
  \/ \E i \in Interactions :
       \/ PrepareWithoutTask(i)
       \/ PrepareCommand(i)
       \/ PrepareAutocomplete(i)
       \/ Dispatch(i)
       \/ Runtime(i)
       \/ UserReturns(i)
       \/ TaskPanics(i)
       \/ TaskAborted(i)
  \/ Quiet

Spec == Init /\ [][Next]_vars

\* A dispatching thread runs on and Tokio polls what is ready.  User code returns
\* only for the interactions that are not hung; nothing obliges an event to
\* arrive, or anyone to abort.
Fairness ==
  /\ \A i \in Interactions : WF_vars(Dispatch(i)) /\ WF_vars(Runtime(i))
  /\ \A i \in Interactions \ Hung : WF_vars(UserReturns(i))

FairSpec == Spec /\ Fairness

-----------------------------------------------------------------------------
(* Safety.                                                                 *)

\* A semaphore's free permits and the permits interactions own always add up to
\* its configured limit, whatever mixture of refusals, panics and aborts ran:
\* try_execute and the permit drops never leak or double-return a permit.
PermitConservation ==
  /\ globalFree + Cardinality(globalHeld) = GlobalLimit
  /\ \A c \in Limited : commandFree[c] + Cardinality(CommandOwners(c)) = CommandLimit[c]

\* Whoever will never run again owns nothing: a refused dispatch and a joined
\* task (returned, panicked or aborted) have given every permit back.
SettledOwnsNothing ==
  \A i \in Interactions :
    pc[i] \in Settled \cup {"new"} => i \notin globalHeld \cup commandHeld

\* At no time do more tasks exist than max_concurrent_commands, nor more of one
\* leaf than its max_concurrency, even with many threads dispatching.
BoundedExecution ==
  /\ Cardinality({i \in Interactions : pc[i] \in Admitted}) <= GlobalLimit
  /\ \A c \in Limited :
       Cardinality({i \in Interactions : pc[i] \in Admitted /\ target[i] = c})
         <= CommandLimit[c]

\* The order every run of execute_command promises.
Pipeline ==
  <<<<"policy", 1>>>> \o [k \in 1..BeforeHooks |-> <<"before", k>>]
    \o <<<<"handler", 1>>>> \o [k \in 1..AfterHooks |-> <<"after", k>>]

Started(i, call) == \E n \in DOMAIN calls[i] : calls[i][n] = call

\* The n-th call of a command is the n-th of the pipeline, and it starts only if
\* the policy and every before hook ahead of it succeeded; the error handler alone
\* comes out of turn, and only as the last call of a run that failed.
LifecycleOrder ==
  \A i \in Interactions : target[i] # NoCommand =>
    \A n \in DOMAIN calls[i] :
      \/ /\ n \in DOMAIN Pipeline
         /\ calls[i][n] = Pipeline[n]
         /\ n > 1 /\ calls[i][n - 1][1] \in {"policy", "before"} =>
              \A m \in DOMAIN failures[i] : failures[i][m] # calls[i][n - 1]
      \/ calls[i][n] = <<"errorHandler", 1>> /\ n = Len(calls[i]) /\ failures[i] # <<>>

\* In a task that was neither aborted nor panicked, after hooks run if and only
\* if the handler started, and then all of them do, whichever calls failed.
AfterHooksFollowHandler ==
  \A i \in Interactions : target[i] # NoCommand /\ joined[i] \in {"Ok", "Err"} =>
    \A k \in 1..AfterHooks : Started(i, <<"after", k>>) <=> Started(i, <<"handler", 1>>)

\* The error the pipeline reports (and hands to the error handler) is that of the
\* first call that failed, however many failed after it.
FirstErrorRetained ==
  \A i \in Interactions :
    result[i] = IF failures[i] = <<>> THEN NoError ELSE failures[i][1]

\* join returns Ok only when nothing failed or the error handler ran and accepted
\* the error: a failing hook or a failing error handler is never lost.
NoFailureSwallowed ==
  \A i \in Interactions :
    joined[i] = "Ok" /\ failures[i] # <<>> =>
      /\ Started(i, <<"errorHandler", 1>>)
      /\ \A n \in DOMAIN failures[i] : failures[i][n] # <<"errorHandler", 1>>

\* What the pair of semaphores amounts to: see AdmissionControl.
Admission == INSTANCE AdmissionControl WITH
  bound <- target,
  active <- {i \in Interactions : pc[i] \in Admitted},
  departed <- {i \in Interactions : pc[i] \in {"releasing", "finished"}}

\* Taking two permits in two steps, giving them back in two steps and backing out
\* in between is indistinguishable from admitting and releasing in one step.
AtomicAdmission == Admission!ASpec

-----------------------------------------------------------------------------
(* Liveness.                                                               *)

\* Reservation never waits: a dispatch under way is answered even while every
\* slot is held by user code that never returns.
DispatchDecides ==
  \A i \in Interactions : pc[i] \in Dispatching ~> outcome[i] \in {"AtCapacity", "Spawned"}

\* A permit taken comes back, unless the user code holding it hangs for ever and
\* nobody aborts it.
PermitsReturn ==
  \A i \in Interactions \ Hung :
    i \in globalHeld \cup commandHeld ~> i \notin globalHeld \cup commandHeld

-----------------------------------------------------------------------------
(* What dispatch.rs:17 says of AtCapacity.                                  *)

\* "A registered command could not start because the global execution limit is
\* full": AtCapacity is answered only while no global permit is free.
AtCapacityMeansGlobalFull ==
  [][\A i \in Interactions :
       outcome[i] # "AtCapacity" /\ outcome'[i] = "AtCapacity" => globalFree = 0]_vars
=============================================================================
