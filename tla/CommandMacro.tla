---------------------------- MODULE CommandMacro ----------------------------
(***************************************************************************)
(* #[command], #[group] and commands! (crates/gloam-commands-macros/src/      *)
(* command.rs, group.rs, commands.rs): what they accept, the command trees   *)
(* they generate, what rustc and the registry make of those, and the         *)
(* generated adapter that extracts a handler's arguments from an invocation. *)
(*                                                                         *)
(* A program lists the items it hands to commands!, [source, generic], and    *)
(* its helpers.  An annotated function is [kind, ident, signature, args,      *)
(* parameters], a module [kind, ident, names, descriptions, body, items,      *)
(* stateOutside]: whether the state type means the same around the module as   *)
(* where its first leaf writes it.  What is written for a key or attribute is  *)
(* a sequence, of which most may have one element; a helper is referred to as  *)
(* [to, generic].                                                           *)
(***************************************************************************)
EXTENDS ChoiceLists, CommandTree, Signatures

CONSTANTS Programs,    \* what an application may write
          Enums,       \* the enums in scope that derive CommandChoice
          ValidNames,  \* the texts that are Discord command names in lower case
          MaxLength    \* MAX_STRING_LENGTH

ASSUME MacroAssumption ==
  /\ ValidNames \subseteq Texts /\ Ctx \in Texts
  /\ MaxLength \in Nat
  /\ DOMAIN Enums \cap DOMAIN KnownOptionKind = {}
  /\ \A name \in DOMAIN Enums :
       /\ IsSequence(Enums[name]) /\ \A n \in DOMAIN Enums[name] : IsVariant(Enums[name][n])
       /\ DeriveAccepts(Enums[name])

VARIABLES program,
          stage,
          failure,    \* why the registry refused its trees
          trees,      \* the SlashCommands commands! collects from the factories
          leaf,       \* the leaf that was invoked
          submitted,  \* the options submitted to it
          received    \* what the adapter made of them

vars == <<program, stage, failure, trees, leaf, submitted, received>>

AtMostOne(written) == Len(written) <= 1
ValidateName(name) == name \in ValidNames
ValidateDescription(description) == CharCount[description] \in 1..MaxChars
IsDescribed(descriptions) == descriptions # <<>> /\ ValidateDescription(descriptions[1])
NameOf(ident, names) == IF names = <<>> THEN ident ELSE names[1]

\* A filter: what stands at the places S of a list, in order.
Nth(S, k) == CHOOSE n \in S : Cardinality(S \cap 1..n) = k
Kept(list, S) == [k \in 1..Cardinality(S) |-> list[Nth(S, k)]]

-----------------------------------------------------------------------------
(* Parameters.                                                             *)

IsTyped(parameter) == parameter.markers = 1
IsRequired(parameter) == parameter.type.form = "Plain"
OptionKind(parameter) == KnownOptionKind[parameter.type.of]

\* A bare type or one Option around it.
HasType(parameter, names) ==
  parameter.type.form \in {"Plain", "Option"} /\ parameter.type.of \in names

\* parse_path_attribute and validate_handler_path: a path to a function, without
\* generic arguments.
ParsePathAttribute(reference) == ~reference.generic
ValidateHandlerPath(reference) == ~reference.generic

\* take_option_attributes.
TakesAttributes(parameter) ==
  /\ AtMostOne(parameter.descriptions) /\ AtMostOne(parameter.autocomplete)
  /\ AtMostOne(parameter.min) /\ AtMostOne(parameter.max)
  /\ AtMostOne(parameter.minLength) /\ AtMostOne(parameter.maxLength)
  /\ parameter.markers <= 1
  /\ \A n \in DOMAIN parameter.inline : ParsesAsArgs(parameter.inline[n])
  /\ \A handler \in Range(parameter.autocomplete) : ParsePathAttribute(handler)

Bounds(parameter) == parameter.min \o parameter.max
Lengths(parameter) == parameter.minLength \o parameter.maxLength

BoundOf(kind, literal) == IF kind = "Integer" THEN IntegerOf(literal) ELSE NumberOf(literal)

NumericBoundsFit(kind, parameter) ==
  \/ Bounds(parameter) = <<>>
  \/ /\ kind \in {"Integer", "Number"}
     /\ \A n \in DOMAIN Bounds(parameter) :
          IF kind = "Integer" THEN ParsesAsInteger(Bounds(parameter)[n])
          ELSE ParsesAsNumber(Bounds(parameter)[n])
     /\ parameter.min # <<>> /\ parameter.max # <<>> =>
          AsReal(BoundOf(kind, parameter.min[1])) <= AsReal(BoundOf(kind, parameter.max[1]))

ParsesAsLength(literal) == literal.form = "Int" /\ ~literal.negative

StringBoundsFit(kind, parameter) ==
  \/ Lengths(parameter) = <<>>
  \/ /\ kind = "String"
     /\ \A n \in DOMAIN Lengths(parameter) : ParsesAsLength(Lengths(parameter)[n])
     /\ parameter.minLength # <<>> => parameter.minLength[1].digits <= MaxLength
     /\ parameter.maxLength # <<>> => parameter.maxLength[1].digits \in 1..MaxLength
     /\ parameter.minLength # <<>> /\ parameter.maxLength # <<>> =>
          parameter.minLength[1].digits <= parameter.maxLength[1].digits

\* Any type without arguments that is no scalar may derive CommandChoice.
TypedOptionFits(parameter) ==
  /\ parameter.inline = <<>>
  /\ parameter.autocomplete = <<>>
  /\ parameter.type.form \in {"Plain", "Option"}
  /\ parameter.type.of \notin DOMAIN KnownOptionKind \cup {"Vec"}
  /\ Bounds(parameter) = <<>> /\ Lengths(parameter) = <<>>

\* Mutant: an option of any type may complete.
ScalarOptionFitsAnyAutocomplete(parameter) ==
  /\ HasType(parameter, DOMAIN KnownOptionKind)
  /\ parameter.autocomplete # <<>> => parameter.inline = <<>>
  /\ InlineAccepts(OptionKind(parameter), parameter.inline)
  /\ NumericBoundsFit(OptionKind(parameter), parameter)
  /\ StringBoundsFit(OptionKind(parameter), parameter)

ScalarOptionFits(parameter) ==
  /\ HasType(parameter, DOMAIN KnownOptionKind)
  /\ parameter.autocomplete # <<>> =>
       parameter.inline = <<>> /\ OptionKind(parameter) \in ChoiceTypes
  /\ InlineAccepts(OptionKind(parameter), parameter.inline)
  /\ NumericBoundsFit(OptionKind(parameter), parameter)
  /\ StringBoundsFit(OptionKind(parameter), parameter)

\* option_parameter.
OptionFits(parameter) ==
  /\ parameter.simple
  /\ ValidateName(parameter.ident)
  /\ TakesAttributes(parameter)
  /\ IsDescribed(parameter.descriptions)
  /\ IF IsTyped(parameter) THEN TypedOptionFits(parameter) ELSE ScalarOptionFits(parameter)

\* option_parameters.
OptionsFit(parameters) ==
  /\ Len(parameters) <= MaxOptions
  /\ \A n \in DOMAIN parameters :
       /\ OptionFits(parameters[n])
       /\ IsRequired(parameters[n]) => \A m \in 1..(n - 1) : IsRequired(parameters[m])

Data(kind, bound) == [n \in DOMAIN bound |-> BoundOf(kind, bound[n])]
Digits(bound) == [n \in DOMAIN bound |-> bound[n].digits]

\* Mutant: every enum registers as a string option.
KindOfStringEnum(parameter) ==
  IF IsTyped(parameter) THEN "STRING" ELSE KIND[parameter.type.of]

\* `<T as CommandOption>::KIND`.
KindOf(parameter) ==
  IF IsTyped(parameter) THEN KIND[ScalarOf[EnumType(Enums[parameter.type.of])]]
  ELSE KIND[parameter.type.of]

\* option_descriptor_tokens.
OptionDescriptor(parameter) ==
  LET kind == OptionKind(parameter)
      choices == IF IsTyped(parameter) THEN DerivedChoices(Enums[parameter.type.of])
                 ELSE InlineChoices(kind, parameter.inline)
  IN  [name |-> parameter.ident, required |-> IsRequired(parameter),
       kind |-> KindOf(parameter),
       choices |-> choices # <<>>, offered |-> choices,
       autocomplete |-> parameter.autocomplete # <<>>,
       min |-> IF IsTyped(parameter) THEN <<>> ELSE Data(kind, parameter.min),
       max |-> IF IsTyped(parameter) THEN <<>> ELSE Data(kind, parameter.max),
       minLength |-> Digits(parameter.minLength), maxLength |-> Digits(parameter.maxLength)]

-----------------------------------------------------------------------------
(* #[command].                                                             *)

CommandContexts == {"guild", "bot_dm", "private_channel"}

\* CommandArgs::parse; permissions and cooldown are never refused but for a repetition.
ParsesAsCommandArgs(args) ==
  /\ args.others
  /\ AtMostOne(args.names) /\ AtMostOne(args.descriptions) /\ AtMostOne(args.guildOnly)
  /\ IsInjective(args.checks)
  /\ \A check \in Range(args.checks) : ValidateHandlerPath(check)
  /\ IsInjective(args.contexts)
  /\ Range(args.contexts) \subseteq CommandContexts
  /\ AtMostOne(args.limits) /\ 0 \notin Range(args.limits)
  /\ args.guildOnly # <<>> => args.contexts = <<>>

CommandAccepts(function) ==
  /\ ParsesAsCommandArgs(function.args)
  /\ CommandSignatureFits(function.signature)
  /\ ValidateName(NameOf(function.ident, function.args.names))
  /\ IsDescribed(function.args.descriptions)
  /\ OptionsFit(function.parameters)

Completing(parameters) ==
  Kept(parameters, {n \in DOMAIN parameters : parameters[n].autocomplete # <<>>})

\* The CommandPolicy the factory builds; its other settings are written as they stand.
PolicyOf(args) ==
  [contexts |-> IF args.guildOnly # <<>> THEN {"guild"} ELSE Range(args.contexts),
   checks |-> [n \in DOMAIN args.checks |-> args.checks[n].to]]

\* The factory: a leaf with its descriptors, autocomplete handlers and policy.
Leaf(function) ==
  LET completing == Completing(function.parameters)
  IN  [name |-> NameOf(function.ident, function.args.names), kind |-> "leaf",
       options |-> [n \in DOMAIN function.parameters |->
                      OptionDescriptor(function.parameters[n])],
       handlers |-> [n \in DOMAIN completing |->
                       [option |-> completing[n].ident, handler |-> completing[n].autocomplete[1].to]],
       limit |-> IF function.args.limits = <<>> THEN NoLimit ELSE function.args.limits[1],
       children |-> <<>>,
       policy |-> PolicyOf(function.args),
       parameters |-> function.parameters]

-----------------------------------------------------------------------------
(* #[group].                                                               *)

\* Only annotated items become children; each child is expanded by its own macro.
Children(module) ==
  Kept(module.items, {n \in DOMAIN module.items : module.items[n].kind # "other"})
ModulesOf(module) == {child \in Range(module.items) : child.kind = "mod"}
FunctionsOf(module) == {child \in Range(module.items) : child.kind = "fn"}

\* find_state_type.
HasLeaf(module) ==
  \E nested \in ModulesOf(module) \cup {module} : FunctionsOf(nested) # {}

\* validate_native_hierarchy.
NativeHierarchy(module) ==
  \A nested \in ModulesOf(module) : nested.body /\ ModulesOf(nested) = {}

GroupAccepts(module) ==
  /\ AtMostOne(module.names) /\ AtMostOne(module.descriptions)
  /\ IsDescribed(module.descriptions)
  /\ ValidateName(NameOf(module.ident, module.names))
  /\ module.body
  /\ NativeHierarchy(module)
  /\ Children(module) # <<>>
  /\ HasLeaf(module)

FunctionsIn(source) ==
  IF source.kind = "fn" THEN {source}
  ELSE FunctionsOf(source) \cup UNION {FunctionsOf(module) : module \in ModulesOf(source)}

\* Each item is expanded by its own macro.
Expands(source) ==
  /\ source.kind = "mod" => \A module \in ModulesOf(source) \cup {source} : GroupAccepts(module)
  /\ \A function \in FunctionsIn(source) : CommandAccepts(function)

GroupNode(module, children) ==
  [name |-> NameOf(module.ident, module.names), kind |-> "group", options |-> <<>>,
   handlers |-> <<>>, limit |-> NoLimit, children |-> children]

LeavesOf(module) == [n \in DOMAIN Children(module) |-> Leaf(Children(module)[n])]

\* What the generated factory returns.
Factory(source) ==
  IF source.kind = "fn" THEN Leaf(source)
  ELSE GroupNode(source, [n \in DOMAIN Children(source) |->
         LET child == Children(source)[n]
         IN  IF child.kind = "fn" THEN Leaf(child) ELSE GroupNode(child, LeavesOf(child))])

-----------------------------------------------------------------------------
(* The whole program: commands!, the helpers, and rustc (external).           *)

\* factory_path.
FactoryPath(path) == ~path.generic

MacrosAccept ==
  /\ \A n \in DOMAIN program.items :
       FactoryPath(program.items[n]) /\ Expands(program.items[n].source)
  /\ \A helper \in program.helpers : HelperAccepts(helper)

Functions == UNION {FunctionsIn(path.source) : path \in Range(program.items)}

\* What is written parses as Rust, and no function has two parameters of one name.
IsParameter(parameter) ==
  /\ IsSequence(parameter.autocomplete)
  /\ \A literals \in {parameter.min, parameter.max, parameter.minLength, parameter.maxLength} :
       IsSequence(literals) /\ \A literal \in Range(literals) : IsLiteral(literal)
  /\ IsSequence(parameter.inline) /\ \A args \in Range(parameter.inline) : IsArgs(args)

IsFunction(function) ==
  /\ IsSequence(function.signature.inputs) /\ Len(function.signature.inputs) <= 1
  /\ IsSequence(function.args.limits)
  /\ IsSequence(function.parameters)
  /\ \A parameter \in Range(function.parameters) : IsParameter(parameter)
  /\ IsInjective([n \in DOMAIN function.parameters |-> function.parameters[n].ident])

IsModule(module) ==
  /\ IsSequence(module.items)
  /\ module.stateOutside \in BOOLEAN
  /\ \A item \in Range(module.items) : item.kind \in {"fn", "mod", "other"}
  /\ \A function \in FunctionsOf(module) : IsFunction(function)

IsSource(source) ==
  \/ source.kind = "fn" /\ IsFunction(source)
  \/ source.kind = "mod" /\ \A module \in ModulesOf(source) \cup {source} : IsModule(module)

ASSUME ProgramsAssumption ==
  \A written \in Programs :
    /\ IsSequence(written.items)
    /\ \A path \in Range(written.items) : IsSource(path.source)
    /\ \A helper \in written.helpers : helper.macro \in {"check", "autocomplete"}

\* The adapters of functions and helpers return the futures of their aliases,
SignaturesBox ==
  /\ \A function \in Functions : BoxesInto(function.signature, "Context", Path("()"))
  /\ \A helper \in program.helpers : HelperBoxes(helper)

\* and call what they were generated for.
CallsResolve ==
  /\ \A function \in Functions :
       AdapterCalls(function.ident, {parameter.ident : parameter \in Range(function.parameters)})
  /\ \A helper \in program.helpers : AdapterCalls(helper.ident, {})

\* A group's factories copy the state type its first leaf names, the outer one into the
\* scope around the module.
StatesReach ==
  \A path \in Range(program.items) :
    path.source.kind = "mod" =>
      \A module \in ModulesOf(path.source) \cup {path.source} : module.stateOutside

\* A reference is renamed to the adapter its helper's own macro generates.
Resolves(reference, macro, state) ==
  \E helper \in program.helpers :
    /\ helper.macro = macro /\ helper.ident = reference.to
    /\ StateType(helper.signature) = state

\* Names and types that cross from one item to another, which no macro sees.
Links ==
  /\ \A function \in Functions :
       /\ \A check \in Range(function.args.checks) :
            Resolves(check, "check", StateType(function.signature))
       /\ \A parameter \in Range(function.parameters) :
            /\ \A handler \in Range(parameter.autocomplete) :
                 Resolves(handler, "autocomplete", StateType(function.signature))
            /\ IsTyped(parameter) => parameter.type.of \in DOMAIN Enums
  /\ Cardinality({StateType(function.signature) : function \in Functions}) <= 1

TypeChecks == SignaturesBox /\ CallsResolve /\ StatesReach /\ Links

-----------------------------------------------------------------------------
(* The adapter.                                                            *)

ExtractParameter(parameter, options) ==
  LET inner == IF IsTyped(parameter)
               THEN ExtractVariant(Enums[parameter.type.of], options, parameter.ident)
               ELSE ExtractScalar(parameter.type.of, options, parameter.ident)
  IN  IF IsRequired(parameter) THEN inner ELSE ExtractOption(inner, options, parameter.ident)

\* The first `?` that fails ends the adapter before the handler is called.
Adapter(parameters, options) ==
  LET results == [n \in DOMAIN parameters |-> ExtractParameter(parameters[n], options)]
      failed == {n \in DOMAIN results : results[n].is \notin {"Ok", "None"}}
  IN  IF failed # {} THEN results[Min(failed)]
      ELSE [is |-> "called", arguments |-> results]

-----------------------------------------------------------------------------
(* What Discord lets a user submit (external).                               *)

ValuesOf(kind) ==
  CASE kind = "STRING" -> Texts
    [] kind = "INTEGER" -> -MaxSafe..MaxSafe
    [] kind = "NUMBER" -> -(MaxSafe + 1)..(MaxSafe + 1) \cup {NegativeZero}
    [] kind = "BOOLEAN" -> {NotFinite}    \* opaque
    [] OTHER -> Snowflakes

IsWithin(x, least, most) ==
  /\ \A bound \in Range(least) : AsReal(bound) <= x
  /\ \A bound \in Range(most) : x <= AsReal(bound)

LegalValues(option) ==
  IF option.offered # <<>> THEN {choice.value.data : choice \in Range(option.offered)}
  ELSE {x \in ValuesOf(option.kind) :
          CASE option.kind = "STRING" ->
                 IsWithin(CharCount[x], option.minLength, option.maxLength)
            [] option.kind \in {"INTEGER", "NUMBER"} ->
                 IsWithin(AsReal(x), option.min, option.max)
            [] OTHER -> TRUE}

SubmittedType(kind) ==
  CASE kind = "BOOLEAN" -> "Boolean"
    [] kind = "INTEGER" -> "Integer"
    [] kind = "NUMBER" -> "Number"
    [] OTHER -> "String"

Filled(option, x) ==
  [name |-> option.name, kind |-> option.kind,
   value |-> [type |-> SubmittedType(option.kind), data |-> x]]

Injections(S) == {order \in [1..Cardinality(S) -> S] : IsInjective(order)}

\* A filled-in subset of the options, with the required ones, in any order.
Invocations(options) ==
  LET required == {n \in DOMAIN options : options[n].required}
      given == {S \in SUBSET DOMAIN options : required \subseteq S}
      Fillings(n) == {Filled(options[n], x) : x \in LegalValues(options[n])}
  IN  UNION {{s \in [DOMAIN order -> UNION {Fillings(n) : n \in Range(order)}] :
                \A k \in DOMAIN order : s[k] \in Fillings(order[k])} :
             order \in UNION {Injections(S) : S \in given}}

-----------------------------------------------------------------------------

Init ==
  /\ program \in Programs
  /\ stage = "written"
  /\ failure = "none"
  /\ trees = <<>>
  /\ leaf = <<>>
  /\ submitted = <<>>
  /\ received = Failure("none")

Compile ==
  /\ stage = "written"
  /\ stage' = CASE ~MacrosAccept -> "rejected"
                [] MacrosAccept /\ ~TypeChecks -> "ill typed"
                [] OTHER -> "compiled"
  /\ UNCHANGED <<program, failure, trees, leaf, submitted, received>>

\* The expansion of commands!.
Collect ==
  /\ stage = "compiled"
  /\ trees' = [n \in DOMAIN program.items |-> Factory(program.items[n].source)]
  /\ stage' = "collected"
  /\ UNCHANGED <<program, failure, leaf, submitted, received>>

\* CommandRegistry::insert of the n-th tree, after those before it.
Inserted(n) ==
  IF ValidateHierarchy(trees[n]) = "Ok" /\ RepeatsSibling(trees, n) THEN "DuplicateCommand"
  ELSE ValidateHierarchy(trees[n])

\* The loop of FrameworkBuilder::build.
Build ==
  /\ stage = "collected"
  /\ failure' = FirstFailure([n \in DOMAIN trees |-> Inserted(n)])
  /\ stage' = IF failure' = "Ok" THEN "registered" ELSE "refused"
  /\ UNCHANGED <<program, trees, leaf, submitted, received>>

Leaves(node) ==
  LET nodes == {node} \cup Range(node.children)
      below == nodes \cup UNION {Range(n.children) : n \in nodes}
  IN  {n \in below : IsLeaf(n)}

Invoke ==
  /\ stage = "registered"
  /\ leaf' \in UNION {Leaves(tree) : tree \in Range(trees)}
  /\ submitted' \in Invocations(leaf'.options)
  /\ stage' = "invoked"
  /\ UNCHANGED <<program, failure, trees, received>>

Run ==
  /\ stage = "invoked"
  /\ received' = Adapter(leaf.parameters, submitted)
  /\ stage' = "ran"
  /\ UNCHANGED <<program, failure, trees, leaf, submitted>>

\* Also when Discord finds no legal value for a required option.
Quiet ==
  /\ stage \in {"rejected", "ill typed", "refused", "registered", "ran"}
  /\ UNCHANGED vars

Next == Compile \/ Collect \/ Build \/ Invoke \/ Run \/ Quiet

Spec == Init /\ [][Next]_vars

-----------------------------------------------------------------------------
(* Safety.                                                                 *)

HasNamesakes(nodes) == \E n, m \in DOMAIN nodes : n # m /\ nodes[n].name = nodes[m].name

\* Discord's limits on one option, and that it can be filled in.
DiscordTakesOption(option) ==
  LET limits == option.min \o option.max
      lengths == option.minLength \o option.maxLength
  IN  /\ ValidateName(option.name)
      /\ limits # <<>> => option.kind \in {"INTEGER", "NUMBER"}
      /\ Range(limits) \subseteq ValuesOf(option.kind)
      /\ lengths # <<>> => option.kind = "STRING"
      /\ Range(lengths) \subseteq 0..MaxLength
      /\ Range(option.maxLength) \subseteq 1..MaxLength
      /\ option.choices => option.kind \in {"STRING", "INTEGER", "NUMBER"}
      /\ \A choice \in Range(option.offered) :
           SubmittedType(option.kind) = choice.value.type
      /\ option.kind \in {"INTEGER", "NUMBER"} => LegalValues(option) # {}
      /\ option.minLength # <<>> /\ option.maxLength # <<>> =>
           option.minLength[1] <= option.maxLength[1]

\* And on the whole of a leaf.
DiscordTakes(node) ==
  WithinLimits(node) /\ \A n \in DOMAIN node.options : DiscordTakesOption(node.options[n])

Idents(macro) == {helper.ident : helper \in {h \in program.helpers : h.macro = macro}}

\* What a leaf will call besides its handler has been expanded for that very use.
HelpersKnown(node) ==
  /\ Range(node.policy.checks) \subseteq Idents("check")
  /\ {entry.handler : entry \in Range(node.handlers)} \subseteq Idents("autocomplete")

\* Whatever the macros accept, its signatures give rustc nothing to refuse: only names
\* can, an option or item shadowing what an adapter calls, a state type unknown around
\* its module, or what relates items no macro sees together.  The registry then refuses
\* only two commands or children renamed to one name.  And what registers Discord takes,
\* leaf by leaf, but for a group with too many children, which nobody counts.  The
\* compile-time rules of five macros and the run-time rules of validate_leaf and
\* validate_children leave no other gap.
CompiledTreesRegister ==
  /\ stage = "ill typed" => SignaturesBox /\ ~(CallsResolve /\ StatesReach /\ Links)
  /\ stage = "refused" =>
       \/ failure = "DuplicateCommand" /\ HasNamesakes(trees)
       \/ /\ failure = "DuplicateCommandPath"
          /\ \E tree \in Range(trees) : \E node \in {tree} \cup Range(tree.children) :
               HasNamesakes(node.children)
  /\ stage \in {"registered", "invoked", "ran"} =>
       \A tree \in Range(trees) :
         /\ DiscordAccepts(CreateCommand(tree))
              <=> \A node \in Nodes(tree) : Len(node.children) <= MaxOptions
         /\ \A node \in Leaves(tree) : DiscordTakes(node) /\ HelpersKnown(node)

\* The variants whose own value is `data`.
VariantsOf(enum, data) == {enum[n].ident : n \in {m \in DOMAIN enum : Denotes(enum[m], data)}}

\* What a parameter's argument ought to be: the value submitted under its name (or the
\* variant of that value), None exactly for an optional one left out.
ArgumentOf(parameter, argument, options) ==
  LET given == Submitted(options, parameter.ident)
  IN  IF given = {} THEN ~IsRequired(parameter) /\ argument = None
      ELSE LET data == options[Min(given)].value.data
           IN  /\ argument.is = "Ok"
               /\ IF IsTyped(parameter)
                  THEN VariantsOf(Enums[parameter.type.of], data) = {argument.value}
                  ELSE argument.value = data

\* Every invocation Discord can send for what the macros registered reaches the
\* handler, each argument what was submitted for it, in whatever order that was.
InvocationsReachHandler ==
  stage = "ran" =>
    /\ received.is = "called"
    /\ \A n \in DOMAIN leaf.parameters :
         ArgumentOf(leaf.parameters[n], received.arguments[n], submitted)
=============================================================================
