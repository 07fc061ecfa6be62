# Verification of gloam-commands

TLA+ models of the slash-command framework in `crates/gloam-commands`, the TLC
runs that check them on small instances, and TLAPS proofs of the results that
matter most for every size. All paths below are relative to the repository;
`framework.rs` and its neighbours are in `crates/gloam-commands/src/`.

## Inventory

| part | state it keeps | operations | talks to |
|---|---|---|---|
| **Dispatch** (`framework.rs` 105-281, 526-579, `dispatch.rs`) | `Framework.command_slots`, one optional semaphore per leaf, Tokio tasks | `dispatch`, `dispatch_shard`, `prepare_dispatch`, `try_execute`, `CommandTask::abort/join` | called by any number of threads (`&self`), spawns tasks |
| **Execution pipeline** (`framework.rs` 582-697) | the task's local `result` | policy, before hooks, handler, after hooks, error handler; autocomplete handler and callback | user code, policy, REST |
| **Response state** (`response.rs`, `context.rs`) | `Arc<Mutex<ResponseState>>` shared by all clones of a `Context` | reply, defer, edit, delete, followup | Discord over REST |
| **Command policy** (`policy.rs`) | `Mutex<HashMap<UserId, Instant>>` per leaf | `evaluate`, `reserve_cooldown` | custom checks, the clock |
| **Managed runtime** (`framework.rs` 132-145, 283-313, 776-801, `registration.rs` 30-55) | `JoinSet`, the `synchronized` flag, `ShardManager` | `run`, `drive_shards`, `reap_completed_commands`, `synchronize` | gateway shards, Discord's command registry |
| **Registry and routing** (`registry.rs`, `registration.rs`, `framework.rs` 178-281, 405-524) | `CommandRegistry`, immutable once built | `insert`, `create_commands`, `resolve_command`, `focused_option_index` | Discord's registered payload and its invocations |
| **Autocomplete choices** (`framework.rs` 669-767) | none | validation and conversion of a handler's choices | execution pipeline, Discord |
| **Typed options** (`options.rs`, `autocomplete.rs`) | none | lookup, kind check, conversion to the parameter's type; the focused option of a completion | generated adapters, autocomplete handlers |
| **Attribute macros** (`crates/gloam-commands-macros`) | none (compile time) | validation of signatures, names, bounds, choices, hierarchy; code generation; `commands!` | registry, typed options |
| **Support** (`runtime.rs`, `error.rs`, `lifecycle.rs`, `observability.rs`) | none | accessors, error wording, tracing | |

How they interact: the application (or the managed runtime's loop) hands each
gateway event to `prepare_dispatch`, which resolves it in the registry; the
prepared command takes its leaf's permit, then a global one, and becomes a task.
The task evaluates the policy, then runs user code, which talks to Discord
through clones of one `Context`, all sharing one response state.

What is hard about it, and what would make each part correct:

* *Dispatch* — two semaphores taken one after the other, by many threads, with a
  way back in between; four ways for a task to end (return, panic, abort while
  running, abort before the first poll). Correct if no permit is lost or
  doubled, the limits hold, and the two steps look like one.
* *Pipeline* — several steps may fail. Correct if hooks run in order, after hooks
  run if and only if the handler did, and the first error is the one reported.
* *Response state* — the mutex is held across a REST call whose answer may be
  lost, late or no longer wanted; followups let go of it before they send.
  Correct if the local state never claims more than Discord has applied.
* *Policy* — the clock is read before the mutex is awaited, so stale readings
  meet newer deadlines. Correct if no binding reservation is forgotten and
  nobody is served before the cooldown is over.
* *Managed runtime* — READY comes more than once, tasks end between events, the
  loop can end with an error anywhere. Correct if registration happens once and
  first, every task is told to abort when the loop is over, panics are reported, saturation never stops
  polling.
* *Registry and routing* — validation, registration and resolution are three
  separate walks over the same tree. Correct if they agree, and if stale
  invocations never reach a wrong handler.
* *Choices and options* — a choice passes a literal, a check, a conversion to
  `f64` perhaps, Discord's JSON and an extraction before the handler sees it, by
  three different routes. Correct if exactly the legal lists pass and the choice
  picked is the choice received.
* *Macros* — each macro sees its own item only, and the registry checks again at
  run time. Correct if what the macros accept registers, and every invocation of
  it that Discord allows reaches the handler with its arguments in place.

`PROJECT.json` lists the hazards line by line with the properties aimed at them.

## Modules

### `Execution`, refining `AdmissionControl`

One process per interaction; `pc` is its place in `dispatch` and, later, in its
task. `globalFree`/`commandFree` are the semaphores' counters and
`globalHeld`/`commandHeld` who owns the permits (`OwnedSemaphorePermit`).
`AcquireCommandPermit` and `AcquireGlobalPermit` are two steps, as they are two
`try_acquire_owned` calls; `RefuseGlobal` and `DropRefusedPermit` separate the
decision to return `None` from the drop of the command permit. Each user call
(`PolicyReturns`, `BeforeHookReturns`, `HandlerReturns`, `AfterHookReturns`,
`ErrorHandlerReturns`, `AutocompleteReturns`, `CallbackReturns`) may return Ok or
an error, `TaskPanics` and `TaskAborted` may take its place, and
`ReleaseCommandPermit`/`ReleaseGlobalPermit` drop the permits afterwards, in the
reverse order of their declaration once the future has been polled and in any
order before. `calls` and `failures` are history variables that the properties
talk about. `CommandSchedulerClosed` has no action: nothing closes the semaphores.

`AdmissionControl` is what the pair of semaphores promises: an interaction is
admitted in one step, only while both the command and the framework have room,
and counts for nothing after it left. `Execution!AtomicAdmission` is that
specification under a refinement mapping.

### `Response`, refining `ResponseApi`

Each caller is a task with a clone of the `Context`. A helper call is: queue for
the mutex (`Call`, Tokio's FIFO), `Lock`, `Decide` (the checks up to the request),
the request at Discord, and the end of the call, which moves the state
(`CallSucceeds`), leaves it alone (`CallRefused`) or never comes (`CallGivenUp`: a
transport error or a dropped future; the mutex is free again, the state unmoved, and
the request may still reach Discord later through `orphans`). `PeekFollowup` and `SendFollowup` are separate because
`followup_inner` drops the guard before it sends. `Decide` and the lock are
separate steps too, which allows more interleavings than the code has, not
fewer. Discord is external: one initial acknowledgement, edits and deletes of an
original that exists, followups after an acknowledgement. Message contents are
left out; only their visibility matters to the state.

What the mutex guarantees is `OneInitialInFlight`: two clones never *await* initial
acknowledgements together, and as long as no call was given up none is under way that
nobody awaits. More is not true: an orphan may be an initial request, and the next clone
sends another beside it (`NeverTwoInitials`, see Divergences).

`ResponseApi` is what the helpers promise to tasks that share clones of one
`Context`: every call is one atomic operation on the acknowledgement state,
made while it is in progress; it takes effect and returns Ok, returns the error
that state calls for, or fails and changes nothing. There is no mutex in it, no
request and no Discord. `Response!HelpersAreAtomic` is that specification under a
refinement mapping that lets a call take effect where it ends, not where it was
decided: a followup, whose guard is gone by then, was decided on a state that may
have moved since.

### `Cooldown`

`CommandPolicy::evaluate` of one leaf, built with any of `Policies`: the gates
(`ContextAllowed`, `MemberAllowed`, `BotAllowed`) are computed from what Discord says
of each interaction (`Interaction`: context, user, member, permissions, each of
which may be absent), the custom checks may answer anything, and
`reserve_cooldown` is split at its await: `Stamp` reads the clock, `Reject`/`Accept` run
under the mutex with the old reading. `Tick` moves the clock between any two
steps. `LastInstant` is the largest representable instant, so that `checked_add` can
fail; it also bounds the clock.

### `ManagedRuntime`

The loop of `drive_shards` and the end of `run`. An event is one of five kinds
(see `Kinds`); a task is a slot and how it ended, its inside being `Execution`.
`DropJoinSet` is part of every way out of the loop, before `Shutdown`, as in the
code, where `drive_shards` owns the set. `Cancel` is a caller that drops the future of
`run` at one of its awaits, `RunAgain` a second `run` on the same `Framework`, whose
permits outlive a run while everything else is made anew. `Tasks` are names, reused
once a task is reaped: a `Reap` precedes every `Route`, so `Slots` + 1 of them are
enough. The gateway is external: a shard's interactions follow its first READY,
and READY may repeat.

### `CommandTree` and `Routing`

Command trees are records. In `CommandTree`, `ValidateHierarchy` and its parts
are `registry.rs` and `CreateCommand` is `registration.rs`; the depth recursion of
`validate_children` is unrolled into the two depths it can reach. In `Routing`,
`Insert` and `Finish` are the builder's, and `PrepareDispatch`, `ResolveCommand` and
`PrepareAutocomplete` are `framework.rs`. What Discord accepts and which
invocations it sends for a payload is external (`DiscordAccepts`, `InvokedPath`).
`DiscordAccepts` has the rules on a payload's shape (depth, kinds of a level, distinct names)
and those on one level (`WithinLimits`): at most `MaxOptions` options or children, no two
options of one name, required options first, choices on a string, integer or number.
`registry.rs` checks the shape and none of the latter, so `RegistrationAccepted` is an
equivalence: Discord takes the payload of a registered tree just when each of its nodes
is within limits. A hand-built tree need not be (see Divergences).
Descriptions and option bounds are left out here. A leaf stands for its own
handler, and an autocomplete handler for the option it was attached to, so that a
wrong handler is visible. `AutocompleteContext`, `FocusedOption` and `CommandName` are
what a completion is told; `RoutingAssumption` says of the candidates and events no
more than their Rust types do (vectors, a leaf or a group). `IsNode` types a node for
that and for the proofs.

### `CommandOptions`, `ChoiceLists` and `Choices`

`CommandOptions` and `ChoiceLists` are operators only: the literals macros read,
the extraction of an option's value, and the three sources of a choice list
(derived enum, inline attributes, autocomplete answer). `Choices` is the life of
one option with choices: entries are declared one at a time (`Declare`), the
macro or the framework takes or refuses the list (`Offer`), a user picks one of
it (`Pick`) or submits something else (`SubmitForeign`: a value of an older
registration, another type, nothing), and the handler's argument is extracted
(`Extract`). It is checked against `Denotes` and `Intended`, which say what a
declaration means without any conversion, and `LegalList`, Discord's limits.

Texts are model values with a number of characters (`CharCount`). An `f64` is an
integer, `NegativeZero` or `NotFinite`: fractions meet no rule. `Rounded` is the
conversion of an `i64` to `f64` just beyond 2^53, where it skips odd integers;
2^53 - 1 itself is the constant `MaxSafe`.

### `Signatures` and `CommandMacro`

A program is the list handed to `commands!` and the helpers annotated with `#[check]`
and `#[autocomplete]`. It goes through `Compile` (every rule of the five macros, then
what rustc checks of the expansion), `Collect` (what `commands!` gathers from the
factories; the macro's own tree is `Factory`), `Build` (the registry's insertion of
each tree, by `CommandTree`), `Invoke` (any leaf, any options Discord lets a user submit
for its descriptors, in any order) and `Run` (the generated adapter, by
`CommandOptions` and `ChoiceLists`). A source item is a record; what was written for an
attribute is a sequence, so that a repetition can be expressed.

`Signatures` holds the rules on signatures: async, no qualifiers, the context with one
state type, the output each macro insists on. A type is the last segment of its path
with its arguments, which is all the macros compare. What rustc
makes of the expansion appears as `TypeChecks`, five questions: whether an adapter boxes
into the alias it is returned as (`SignaturesBox`, by signatures alone); whether the call in
it is to the item it was generated for (`CallsResolve`: the adapter binds every option to a
local of its own name beside its parameter `ctx`, so an option named like its function or
`ctx`, and an item named `ctx`, shadow it; `quote!` names resolve at the call site); whether
the state type a group's first leaf writes means the same around the module, where the
outer factory repeats it (`StatesReach`, of which a module says itself what is the case, as
its paths are not resolved here); whether every reference names a helper for the same state
type, and whether all commands share one (`Links`). It is taken for granted there that a name
means the crate's own type; a program that defines another `Result` or `Context` is
outside the model. `args.others` and `parameter.simple` remain one Boolean each: a
misspelt key, a permission that does not exist, a pattern that is no identifier. An
item that fails them is refused and nothing else depends on them.

`ProgramsAssumption` says what a program may be: items and lists as Rust's grammar makes
them (`IsSource`, `IsFunction`, `IsParameter`), a helper annotated with one of the two
macros, and no function with two parameters of one name, which rustc refuses whatever
the macros do (E0415). `MacroAssumption` types the constants and says that the enums in scope are those
`derive(CommandChoice)` has accepted, since another would not compile. Neither says that
anything else in a program is right. `Kept` and `Nth` are a filter: the community
modules' `SelectSeq` is recursive, of which nothing could be proved.

The `MC` modules only give the constants values. Operators under a comment that
starts with `Mutant:` are not part of the models: each is a plausible bug in the
definition that follows it, and shows which property would notice.

## Runs

| run | instance | what it shows |
|---|---|---|
| `execution_lifecycle` | 2 interactions, one of whose calls may hang, 1 limited leaf, 1 global slot, 1 before and 2 after hooks, error handler | order of the pipeline, first error, no swallowed failure; dispatch answers, permits come back |
| `execution_capacity` | 3 interactions, a leaf of limit 1 and an unlimited one, 2 global slots, no hooks | permits conserved, limits, refinement of `AdmissionControl` |
| `execution_at_capacity_doc` | as `execution_capacity` | violated: see Divergences |
| `response` | 2 callers, 2 given-up calls | response state against Discord; refinement of `ResponseApi`; no helper starves |
| `response_two_initials_doc` | 2 callers, 1 given-up call | violated: see Divergences |
| `response_retryable_doc` | 2 callers, 1 given-up call | violated: see Divergences |
| `cooldown` | 4 policies; 4 executions, of one user in a guild and in a direct message, of another with fewer permissions, of nobody; up to 2 checks, cooldown 1 to 3 or none, clock to 6 | reservations survive stale readings; only executions that passed the gates and checks are charged, and a user waits for an accepted execution only |
| `cooldown_retry_after_within_cooldown` | the same | violated: see Divergences |
| `managed_runtime` | 2 runs, each of 2 shards and 4 events, 3 task names, 2 slots | the loop's promises, safety and liveness; slots across runs |
| `routing` | 76 command trees against a limit of 3 per level, 1008 events, 2 commands registered | validation, registration and resolution agree; completions reach the handler of the focused option |
| `choices` | up to 3 entries against a limit of 2, texts of 0 to 3 characters against a limit of 2, `MaxSafe` 3 | the choice picked is the choice received; exactly the legal lists are offered |
| `command_macro` | 1502 programs, 2 options or children and 2 choices at most, `MaxSafe` 3, lengths to 2 | macros, rustc, registry, Discord and adapter agree |

Why these bounds are enough to show something: the capacity instance has one
more interaction than global slots and two candidates for the leaf's only slot,
so both refusals and the transient permit of a refused dispatch happen. Two
after hooks are the fewest for which "first" and "last" error differ. Two callers of a
response let one hold the mutex while the other waits or sends a followup, and two
given-up calls let one orphan pass another or a later request; the proofs cover any
number of either. Two executions of one user and one
of another are what pruning needs to go wrong. Two shards and four events allow
a repeated READY between commands; three task names for two slots are all that can
be in use, and a second run is enough for a task of the first to be still holding its
permit. The four policies have each gate on and off, with and without a
cooldown, and the four interactions pass and fail each gate. In `MCCommandMacro` every
program is one step away from a legal one, in each rule separately, plus the pairs
of items that only the registry or rustc sees together.
In `Routing`, `Choices` and `CommandMacro` Discord's limits are constants scaled down (25 to 2 or 3,
100 characters to 2, 6000 to 2, 2^53 - 1 to 3); every entry and every number sits
at a limit, one short of it or one beyond, `MaxSafe + 1` is a power of two as in the
code, so that 5 rounds to 4 as 2^53 + 1 rounds to 2^53, and rules only compare two
entries at a time. `Interactions`, `MaxFaults`, `LastInstant`, `MaxEvents`, `MaxRuns`, `Tasks` and
`MaxCommands` are the only bounds. Symmetry is used only in runs without liveness properties.

### Fairness

`Execution`: a thread inside `dispatch` keeps running (nothing in it awaits), and
Tokio polls spawned tasks and drops finished ones. User code is fair only for
interactions outside `Hung`; `TaskAborted`, `TaskPanics` and the arrival of events
are never fair. `Response`: tasks are polled and the REST client answers or
fails; nobody has to call. Tokio's mutex is FIFO (documented by Tokio), which is
why weak fairness of each caller is enough. `ManagedRuntime`: the task of `run` is
polled and an aborted task ends at its next await; handlers may run for ever and
shards need not deliver anything.

### Divergences

* `AtCapacityMeansGlobalFull`: `dispatch.rs:17` says AtCapacity means the *global*
  limit is full; a leaf's own limit gives the same answer
  (`framework.rs:552-556`, and `docs/manual-dispatch.md:68` says so). What does hold is
  proved as `RefusalsJustified`.
* `NeverTwoInitials`: `README.md:368` says concurrent handlers cannot accidentally send two
  initial acknowledgements (so does `ARCHITECTURE.md:301`). The mutex is held for as long as
  the helper awaits its request. A helper that is dropped then, or whose transport fails,
  frees it with the state Pending (`response.rs:238-246`) while the request may be under way,
  and another clone sends its own. Discord takes one of them. What does hold is
  `OneInitialInFlight`.
* `PendingStaysRetryable`: `README.md:379` says failed acknowledgements remain
  retryable; one whose answer was lost has been applied by Discord, and the state
  stays Pending for good (`response.rs:238-246`).
* `RetryAfterWithinCooldown`: `error.rs:101` calls `retry_after` the remaining
  cooldown; it is measured from a clock reading that may precede the other
  execution's acceptance and then exceeds the whole cooldown (`policy.rs:246-257`), by no
  more than the time the rejected execution awaited the mutex (`RetryAfterBounded`).

Further observations, with no line of a document that says the contrary of them; the
properties are stated so that they hold and say where the limit is.

The registry refuses no tree for its size, for two options of one name, for an optional
option before a required one, or for choices on a kind that has none (`registry.rs:64-159`).
The macros see to all of these but one: nobody counts the children of a `#[group]`
(`group.rs:118-139`), so that 26 commands in one module compile and register. Discord then
refuses the bulk overwrite, of all commands. `RegistrationAccepted` and
`CompiledTreesRegister` say that there is nothing else; `ROADMAP.md:159` sets "grouped command
modules generate valid Discord subcommand trees" as a criterion.

A parameter named like its function, a parameter named `ctx`, and a command, check or
autocomplete function named `ctx` pass every macro and do not compile
(`command.rs:364-381`, `check.rs:29`, `autocomplete.rs:32`). Nor does a state type imported inside
a group's module only, which `group.rs:108-115` repeats outside it.

An execution accepted with an old reading reserves from that reading, so its deadline may
already be past and its user is then served again at once. `NoEarlyAcceptance` is therefore
stated against the deadlines, `stamp + Duration`, not the acceptance times.

## Proofs

Assumptions are the named `ASSUME`s of the constants only: finitely many
interactions, positive limits (enforced by `build` and `validate_leaf`), names
for "nobody" outside the sets they complement, and inputs typed as Rust types them.
TLC evaluates each of them on the instance of a run.

`CommandFacts` holds the lemmas about the operators that more than one component is built
from: lists, numbers and literals, enums and inline choices, extraction, command trees
and their payloads. That a non-empty list has a first element with a property is taken
from the well-foundedness of strict inclusion, in place of an induction. The other
modules prove one component each:

* `ExecutionProofs`. `PermitInv` = `TypeOK` /\ `Ownership` /\ `PermitConservation` is
  inductive. `PermitConservation` alone is not: that a permit is returned exactly
  once needs to know which stages own which permits, which is `Ownership`.
  `SettledOwnsNothing`, `BoundedExecution` and the refinement `AtomicAdmission`
  follow from it: an admission step of the abstract specification needs the
  cardinality of the admitted set below the limit, which is conservation with
  one permit still free. So does `RefusalsJustified`: a dispatch is refused only when other
  interactions hold all global permits, or all of its leaf. These need not be running yet,
  one may still be backing out of its own refusal. `ErrorInv` adds what each stage knows of `result` and
  `failures` and gives `FirstErrorRetained` and `NoFailureSwallowed`.
  On top of it `LifecycleInv` says what `calls` can be at each place of the pipeline, for
  any number of hooks. It is needed because `LifecycleOrder` speaks of pairs of calls
  only, and the step that appends a call must know all before it. It gives
  `LifecycleOrder` and `AfterHooksFollowHandler`.
* `ResponseProofs`. `ResponseInv` strengthens `LocalTrailsDiscord` by what the holder
  of the mutex, its request and Discord's answer say of each other: a request in
  flight with the guard held means the state it was decided on still stands, and
  an accepted answer means Discord has it. `VisibilityFixed` says Discord's
  visibility no longer changes once the state is Deferred. The FIFO queue is typed
  as a sequence without repetitions, of which `MutexDiscipline` is a part;
  `RefusalsNeedFaults` follows once it is known that without a fault the local state
  and Discord's agree between requests, `OneInitialInFlight` from the mutex and from there
  being no orphan without a fault. The refinement `HelpersAreAtomic` needs the same
  invariant: a call's operation is still allowed by the state at its end.
* `CooldownProofs`. `CooldownInv` = `TypeOK` /\ `Stamped` /\ `BindingReservationsKept`;
  `Stamped`: a reading is never ahead of the clock, so what one execution prunes as
  past is past for everyone. `NoEarlyAcceptance`, `RejectionsJustified` and
  `OnlyAcceptedExecutionsCharge` follow with what each place in `evaluate` has passed, and
  so does `RetryAfterBounded`, since no entry of the map lies more than a cooldown ahead of
  the clock.
* `ManagedRuntimeProofs`. `RuntimeInv` = `TypeOK` /\ `ReadyFirst` /\ `FlagTellsSyncs` /\
  `SlotsAccounted` /\ `NoTaskOutlivesLoop`. `ReadyFirst` says that a command waiting in
  the stream has a READY before it or behind the loop, which is why the loop has
  synchronized when it spawns; `FlagTellsSyncs` ties the flag to the overwrites sent.
* `RoutingProofs`. `RoutingInv` = `Registered` /\ `Prepared`: the registry holds well-formed
  candidates under their own names, and what was prepared last was prepared from it.
  The rest is about the operators: validation bounds the depth, so resolution meets
  each leaf of a registered tree under exactly one path. Trees may have any width and
  any number of options, as far as the registry goes. `PayloadsAccepted` does not say that
  Discord takes them: it says that it does just when every node is `WithinLimits`
  (`TreeAccepted`, level by level).
* `ChoicesProofs`. `ChoicesInv`: the declaration is a list of well-typed entries of its
  source, and what was offered, picked and received was made from it. The rest is
  about the operators: each literal is read as the number it denotes (`Rounded` is odd,
  so the sign may be taken before or after the conversion), keys of two floats differ
  exactly if the floats do, hence the first variant with the submitted value is the
  picked one; and a plain list within Discord's limits passes every check. Lists and
  limits are of any size. `InputsAssumption` types the entries as Rust does;
  `NegativeZero` and `NotFinite` are assumed to be no integers.

* `CommandMacroProofs`. `MacroInv` carries forward what each stage has let past: from
  "compiled" on the macros accepted and everything type-checks; the trees are those of the
  factories; the verdict is that of the registry's loop over them; the invocation is one
  Discord allows for the invoked leaf. The two properties are then facts about operators
  for any program. For `CompiledTreesRegister`: what a macro accepts as a signature
  boxes (`SignaturesAccepted`); an accepted parameter becomes an option within Discord's limits
  that can be filled in (`ScalarOption`, `EnumOption`); an accepted function becomes a leaf
  the registry finds no fault with (`LeafOfFunction`, by way of `LeafHandlers`: the filter
  attaches exactly one handler to each completing option), so that only a repeated name
  can make it refuse a tree (`OnlyNamesFail`, `FactoryTree`); and, a
  leaf being within limits and a group without options, Discord takes its payload unless a
  group has too many children (`TreeAccepted`, shared with `Routing`). For
  `InvocationsReachHandler`: an invocation fills in each option at most once and every
  required one (`Submission`, by the pigeonhole principle), and the adapter reads each
  back by its kind (`ScalarArgument`, `EnumArgument`).

Every safety property and every refinement that a run checks is proved, so the four
runs that expect a violation aside, TLC alone vouches only for the liveness properties:
`DispatchDecides`, `PermitsReturn`, `CallsReturn`, `KeepsPolling`, `ShutdownReturnsSlots`. They are
out of the prover's reach, as is ENABLED.

## Not modelled

* The token grammar, that is what `syn` refuses before a macro looks at it, and the
  misspelt keys and patterns behind `args.others` and `parameter.simple`.
* rustc, gloamwire (parsing of submitted values, REST, gateway), Discord and the clock
  are external: modelled from how the code uses them. `Choices` starts from the
  parsed value.
* Discord's limits on the overwrite as a whole (100 commands, 8000 characters of a command);
  names, texts, bounds and numbers of choices of descriptors written by hand, of which
  `Routing` keeps the names' equality only; the visibility of generated factories.
* `error.rs`, `runtime.rs`, `lifecycle.rs`, `observability.rs`: type aliases, accessors, wording
  and tracing, which have no effect on any state. Message contents, descriptions
  beyond their length, and localizations likewise.
* Examples and tests, read as documentation of the intended behaviour.

## Plan

Done, in order of importance: Execution with AdmissionControl, Response with
ResponseApi, Cooldown with its gates, ManagedRuntime over several runs, Routing with
completions, Choices, Signatures and CommandMacro, which composes with CommandTree;
and their proofs.

Next:

1. `ManagedRuntime` with `Execution` inside its tasks, to join permits and slots: each is
   proved for itself and meets the other in `SpawnCommand` and `EndTask` only.
2. The assumptions one module makes on what another produces, as theorems: the trees a
   compiled program collects are nodes as `Routing` assumes them, and their limits are
   positive as `Execution` does.
