------------------------------- MODULE Routing -------------------------------
(***************************************************************************)
(* The command registry, and how an interaction finds its handler            *)
(* (crates/gloam-commands/src/registry.rs and prepare_dispatch of            *)
(* framework.rs).  A leaf of a command tree stands for its own handler.      *)
(* Descriptions, bounds and localizations are left out.                     *)
(***************************************************************************)
EXTENDS CommandTree

CONSTANTS Candidates,   \* command trees an application may add
          Events,       \* gateway events it may receive
          MaxCommands   \* bound on the commands added

\* The options of an event are lists, as deep as resolution looks.
HasOptionLists(e) ==
  /\ IsSequence(e.options)
  /\ \A branch \in Range(e.options) :
       /\ IsSequence(branch.options)
       /\ \A leaf \in Range(branch.options) : IsSequence(leaf.options)

ASSUME RoutingAssumption ==
  /\ \A command \in Candidates : \A node \in Nodes(command) : IsNode(node)
  /\ \A e \in Events : HasOptionLists(e)

VARIABLES stage,      \* of FrameworkBuilder::build
          failure,    \* the error build returned
          registry,   \* CommandRegistry: top-level names to trees
          event,      \* the event routed last
          prepared    \* what prepare_dispatch made of it

vars == <<stage, failure, registry, event, prepared>>

-----------------------------------------------------------------------------
(* Resolution.                                                             *)

Unknown == [error |-> "UnknownCommandPath"]
Resolved(leaf, path, options) ==
  [error |-> "none", leaf |-> leaf, path |-> path, options |-> options]

\* only_branch and the search among the node's children.
HasBranch(node, submitted) ==
  Len(submitted) = 1 /\ Named(node.children, submitted[1].name) # {}

Branch(node, submitted) == Find(node.children, submitted[1].name)

\* Mutant: the kind of the submitted branch is not compared with the node's.
ResolveSubcommandAnyKind(node, submitted, path) ==
  IF HasBranch(node, submitted) /\ IsLeaf(Branch(node, submitted))
  THEN LET leaf == Branch(node, submitted)
       IN  Resolved(leaf, Append(path, leaf.name), submitted[1].options)
  ELSE Unknown

ResolveSubcommand(node, submitted, path) ==
  IF /\ HasBranch(node, submitted)
     /\ IsLeaf(Branch(node, submitted))
     /\ submitted[1].kind = "SUB_COMMAND"
  THEN LET leaf == Branch(node, submitted)
       IN  Resolved(leaf, Append(path, leaf.name), submitted[1].options)
  ELSE Unknown

ResolveCommand(command, submitted) ==
  IF IsLeaf(command) THEN Resolved(command, <<command.name>>, submitted)
  ELSE IF ~HasBranch(command, submitted) THEN Unknown
  ELSE IF IsLeaf(Branch(command, submitted))
  THEN ResolveSubcommand(command, submitted, <<command.name>>)
  ELSE IF submitted[1].kind # "SUB_COMMAND_GROUP" THEN Unknown
  ELSE LET group == Branch(command, submitted)
       IN  ResolveSubcommand(group, submitted[1].options, <<command.name, group.name>>)

Focused(options) == {n \in DOMAIN options : options[n].focused}

\* Mutant: the focused option is looked up by name alone.
CompletableByName(leaf, option) ==
  {n \in DOMAIN leaf.options : leaf.options[n].name = option.name}

\* The descriptors an autocomplete request for `option` may refer to.
Completable(leaf, option) ==
  {n \in DOMAIN leaf.options :
     /\ leaf.options[n].name = option.name
     /\ leaf.options[n].kind = option.kind
     /\ leaf.options[n].autocomplete}

Answer(outcome) == [outcome |-> outcome]

\* SlashCommand::autocomplete_handler: the first attached to the option, if any.
AutocompleteHandlers(leaf, name) ==
  {n \in DOMAIN leaf.handlers : leaf.handlers[n].option = name}

\* AutocompleteContext::new and what its accessors make of it.
AutocompleteContext(found) ==
  [path |-> found.path, options |-> found.options, focusedIndex |-> Min(Focused(found.options))]
FocusedOption(context) == context.options[context.focusedIndex]
CommandName(context) == context.path[1]

PrepareAutocomplete(found) ==
  IF Cardinality(Focused(found.options)) # 1 THEN Answer("InvalidAutocompleteFocus")
  ELSE LET context  == AutocompleteContext(found)
           known    == Completable(found.leaf, FocusedOption(context))
           handlers == AutocompleteHandlers(found.leaf, FocusedOption(context).name)
       IN  IF known = {} \/ handlers = {} THEN Answer("UnknownAutocompleteOption")
           ELSE [outcome |-> "Autocomplete", leaf |-> found.leaf, path |-> found.path,
                 option |-> found.leaf.options[Min(known)],
                 handler |-> found.leaf.handlers[Min(handlers)].handler, context |-> context]

PrepareCommand(found) == [outcome |-> "Command", leaf |-> found.leaf, path |-> found.path]

PrepareDispatch(e) ==
  IF e.name # "INTERACTION_CREATE" \/ e.type \notin {"COMMAND", "AUTOCOMPLETE"}
    THEN Answer("Ignored")
  ELSE IF e.data = "missing" THEN Answer("MissingApplicationCommandData")
  ELSE IF e.data # "CHAT_INPUT" THEN Answer("Ignored")
  ELSE IF e.command \notin DOMAIN registry THEN Answer("Unregistered")
  ELSE LET found == ResolveCommand(registry[e.command], e.options)
       IN  IF found.error # "none" THEN Answer(found.error)
           ELSE IF e.type = "COMMAND" THEN PrepareCommand(found)
           ELSE PrepareAutocomplete(found)

-----------------------------------------------------------------------------
(* FrameworkBuilder::build, then the stream of events.                      *)

Init ==
  /\ stage = "limit"
  /\ failure = "none"
  /\ registry = <<>>
  /\ event = [name |-> "NONE"]
  /\ prepared = Answer("none")

CheckLimit ==
  /\ stage = "limit"
  /\ \E limit \in {0, 1} :
       IF limit = 0 THEN stage' = "failed" /\ failure' = "InvalidConcurrencyLimit"
       ELSE stage' = "inserting" /\ UNCHANGED failure
  /\ UNCHANGED <<registry, event, prepared>>

IsTaken(name) == name \in DOMAIN registry

\* CommandRegistry::insert.
Insert(command) ==
  /\ stage = "inserting"
  /\ Cardinality(DOMAIN registry) < MaxCommands
  /\ LET verdict == IF ValidateHierarchy(command) = "Ok" /\ IsTaken(command.name)
                    THEN "DuplicateCommand" ELSE ValidateHierarchy(command)
     IN  IF verdict = "Ok"
         THEN /\ registry' = [name \in DOMAIN registry \cup {command.name} |->
                                IF name = command.name THEN command ELSE registry[name]]
              /\ UNCHANGED <<stage, failure>>
         ELSE /\ stage' = "failed" /\ failure' = verdict
              /\ UNCHANGED registry
  /\ UNCHANGED <<event, prepared>>

Finish ==
  /\ stage = "inserting"
  /\ stage' = "built"
  /\ UNCHANGED <<failure, registry, event, prepared>>

\* prepare_dispatch takes &self and keeps nothing: one event shows them all.
Receive(e) ==
  /\ stage = "built"
  /\ event.name = "NONE"
  /\ event' = e
  /\ prepared' = PrepareDispatch(e)
  /\ UNCHANGED <<stage, failure, registry>>

\* The build failed, or the event has been routed.
Quiet ==
  /\ stage = "failed" \/ event.name # "NONE"
  /\ UNCHANGED vars

Next ==
  \/ CheckLimit
  \/ \E command \in Candidates : Insert(command)
  \/ Finish
  \/ \E e \in Events : Receive(e)
  \/ Quiet

Spec == Init /\ [][Next]_vars

-----------------------------------------------------------------------------
(* What Discord sends (external).                                           *)

\* The scalar options of an invocation are registered ones, and autocomplete
\* focuses exactly one that completes.
Fills(e, options, submitted) ==
  /\ \A n \in DOMAIN submitted :
       \E m \in DOMAIN options :
         /\ options[m].name = submitted[n].name /\ options[m].kind = submitted[n].kind
         /\ submitted[n].focused => options[m].autocomplete
  /\ Cardinality(Focused(submitted)) = IF e.type = "AUTOCOMPLETE" THEN 1 ELSE 0

\* The registered branches that the one branch submitted may be, and what is below it.
Matching(options, submitted) ==
  {m \in DOMAIN options :
     /\ Len(submitted) = 1
     /\ options[m].name = submitted[1].name /\ options[m].kind = submitted[1].kind}
Below(options, submitted) == options[Min(Matching(options, submitted))].options

\* The path an invocation of the registered payload spells, or <<>> if Discord
\* would not send it for that payload.
InvokedPath(e, payload) ==
  LET top   == payload.options
      sub   == e.options
      inner == sub[1].options
  IN  IF Kinds(top) \cap Hierarchical = {}
        THEN IF Fills(e, top, sub) THEN <<payload.name>> ELSE <<>>
      ELSE IF Matching(top, sub) = {} THEN <<>>
      ELSE IF sub[1].kind = "SUB_COMMAND"
        THEN IF Fills(e, Below(top, sub), inner) THEN <<payload.name, sub[1].name>> ELSE <<>>
      ELSE IF Matching(Below(top, sub), inner) = {} THEN <<>>
      ELSE IF Fills(e, Below(Below(top, sub), inner), inner[1].options)
        THEN <<payload.name, sub[1].name, inner[1].name>>
      ELSE <<>>

-----------------------------------------------------------------------------
(* Safety.                                                                 *)

\* Every node reached by walking `path` from the root, following any child of the
\* right name.
LeavesAt(path) ==
  LET Under(nodes, name) == UNION {{g.children[n] : n \in Named(g.children, name)} : g \in nodes}
      root == IF path[1] \in DOMAIN registry THEN {registry[path[1]]} ELSE {}
      reached == IF Len(path) = 1 THEN root
                 ELSE IF Len(path) = 2 THEN Under(root, path[2])
                 ELSE Under(Under(root, path[2]), path[3])
  IN  {node \in reached : IsLeaf(node)}

\* Discord takes the payload of a registered tree just when its nodes keep to Discord's
\* sizes, option names, option order and choices.  Those the registry does not look at
\* (the macros see to them, but for the number of children), and one refusal fails the
\* whole overwrite; of all else Discord asks of a tree's shape - depth, kinds, empty
\* groups, children's names, autocomplete - validate_hierarchy misses nothing.
RegistrationAccepted ==
  \A name \in DOMAIN registry :
    DiscordAccepts(CreateCommand(registry[name]))
      <=> \A node \in Nodes(registry[name]) : WithinLimits(node)

\* Whatever Discord sends for a registered payload reaches the leaf that registered
\* it: resolve_command and create_command agree on every tree the registry holds.
RegisteredInvocationsRouted ==
  stage = "built" /\ event.name = "INTERACTION_CREATE" =>
    \A name \in DOMAIN registry :
      LET path == InvokedPath(event, CreateCommand(registry[name])) IN
        event.command = name /\ event.data = "CHAT_INPUT" /\ path # <<>>
        /\ event.type \in {"COMMAND", "AUTOCOMPLETE"}
        => /\ prepared.outcome = IF event.type = "COMMAND" THEN "Command" ELSE "Autocomplete"
           /\ prepared.path = path
           /\ LeavesAt(path) = {prepared.leaf}

\* A stale or malformed invocation never reaches another handler: what runs is the
\* leaf whose path the event spells, branch by branch and with the branches' kinds.
NeverAnotherHandler ==
  prepared.outcome \in {"Command", "Autocomplete"} =>
    LET path == prepared.path
        depth == Len(path)
    IN  /\ prepared.leaf \in LeavesAt(path)
        /\ event.command = path[1]
        /\ depth > 1 => Len(event.options) = 1 /\ event.options[1].name = path[2]
        /\ depth = 2 => event.options[1].kind = "SUB_COMMAND"
        /\ depth = 3 =>
             /\ event.options[1].kind = "SUB_COMMAND_GROUP"
             /\ Len(event.options[1].options) = 1
             /\ event.options[1].options[1].name = path[3]
             /\ event.options[1].options[1].kind = "SUB_COMMAND"

\* The options an event submits below its first `depth` path elements.
ScopeAt(e, depth) ==
  CASE depth = 1 -> e.options
    [] depth = 2 -> e.options[1].options
    [] depth = 3 -> e.options[1].options[1].options

\* An autocomplete handler is started only for an option registered as completing,
\* and only on input of that option's kind: the one focused option of the event has
\* its name and its kind, so a registration that changed since never feeds a handler
\* values of another type.  The handler is the one its source attached to that very
\* option, and what the context calls focused is what the event focuses.
CompletionsRegistered ==
  prepared.outcome = "Autocomplete" =>
    LET context == prepared.context
        focused == FocusedOption(context)
    IN
    /\ prepared.option.autocomplete
    /\ focused.name = prepared.option.name /\ focused.kind = prepared.option.kind
    /\ {entry \in Range(prepared.leaf.handlers) : entry.option = focused.name}
         = {[option |-> focused.name, handler |-> prepared.handler]}
    /\ context.options = ScopeAt(event, Len(prepared.path))
    /\ \A n \in DOMAIN context.options : context.options[n].focused <=> n = context.focusedIndex
    /\ CommandName(context) = event.command
=============================================================================
