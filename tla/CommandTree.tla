---------------------------- MODULE CommandTree ----------------------------
(***************************************************************************)
(* Command trees: how the registry validates them and what payload they     *)
(* register (crates/gloam-commands/src/registry.rs, registration.rs,        *)
(* command.rs).                                                            *)
(*                                                                         *)
(* A command tree is a record: a leaf has options, autocomplete handlers    *)
(* (each with the option it is attached to) and a concurrency limit; a       *)
(* group has children.                                                     *)
(***************************************************************************)
EXTENDS Integers, Sequences, FiniteSets, FiniteSetsExt, SequencesExt

CONSTANT MaxOptions   \* the options or children Discord takes on one level

ASSUME TreeAssumption == MaxOptions \in Nat

NoLimit == -1

-----------------------------------------------------------------------------
(* Trees.                                                                  *)

IsLeaf(node) == node.kind = "leaf"
IsGroup(node) == node.kind = "group"

HandledOptions(leaf) == [n \in DOMAIN leaf.handlers |-> leaf.handlers[n].option]

Named(seq, name) == {n \in DOMAIN seq : seq[n].name = name}
Find(seq, name) == seq[Min(Named(seq, name))]

Hierarchical == {"SUB_COMMAND", "SUB_COMMAND_GROUP"}
Kinds(options) == {options[n].kind : n \in DOMAIN options}

IsSequence(s) == s \in Seq(Range(s))

\* A SlashCommand as its type builds it: the kind of a scalar option is that of a Rust
\* parameter's type, so never a branch.
IsNode(node) ==
  /\ IsSequence(node.options) /\ IsSequence(node.handlers) /\ IsSequence(node.children)
  /\ IsLeaf(node) \/ IsGroup(node)
  /\ IsLeaf(node) => node.children = <<>>
  /\ Kinds(node.options) \cap Hierarchical = {}
  /\ \A entry \in Range(node.handlers) :
       entry = [option |-> entry.option, handler |-> entry.handler]

\* As deep as validation looks.
Nodes(command) ==
  LET top == {command} \cup Range(command.children)
  IN  top \cup UNION {Range(node.children) : node \in top}

-----------------------------------------------------------------------------
(* Validation.                                                             *)

\* The verdict of a loop that returns its first error.
FirstFailure(verdicts) ==
  LET bad == {n \in DOMAIN verdicts : verdicts[n] # "Ok"}
  IN  IF bad = {} THEN "Ok" ELSE verdicts[Min(bad)]

HandlersFit(leaf) ==
  /\ IsInjective(HandledOptions(leaf))
  /\ \A name \in Range(HandledOptions(leaf)) :
       Named(leaf.options, name) # {} /\ Find(leaf.options, name).autocomplete

\* Mutant: an autocomplete option need not have a handler.
AutocompleteOptionsMayLackHandler(leaf) ==
  \A n \in DOMAIN leaf.options :
    leaf.options[n].autocomplete =>
      /\ leaf.options[n].kind \in {"STRING", "INTEGER", "NUMBER"}
      /\ ~leaf.options[n].choices

AutocompleteOptionsFit(leaf) ==
  \A n \in DOMAIN leaf.options :
    leaf.options[n].autocomplete =>
      /\ leaf.options[n].kind \in {"STRING", "INTEGER", "NUMBER"}
      /\ ~leaf.options[n].choices
      /\ Contains(HandledOptions(leaf), leaf.options[n].name)

ValidateLeaf(leaf) ==
  CASE leaf.limit = 0 -> "InvalidCommandPolicy"
    [] leaf.limit # 0 /\ HandlersFit(leaf) /\ AutocompleteOptionsFit(leaf) -> "Ok"
    [] OTHER -> "InvalidAutocompleteConfiguration"

\* Mutant: only neighbours are compared.
RepeatsNeighbour(children, n) == n > 1 /\ children[n - 1].name = children[n].name

RepeatsSibling(children, n) == \E m \in 1..(n - 1) : children[m].name = children[n].name

\* groups[n] is the verdict on child n, should it be a group.
ValidateChildren(children, groups) ==
  FirstFailure([n \in DOMAIN children |->
    IF RepeatsSibling(children, n) THEN "DuplicateCommandPath"
    ELSE IF IsLeaf(children[n]) THEN ValidateLeaf(children[n])
    ELSE groups[n]])

\* The recursion of validate_children: at depth 2 every group is refused.
ValidateSubgroup(group) ==
  IF \/ group.options # <<>>
     \/ group.children = <<>>
     \/ \E n \in DOMAIN group.children : IsGroup(group.children[n])
  THEN "InvalidCommandHierarchy"
  ELSE ValidateChildren(group.children,
         [n \in DOMAIN group.children |-> "InvalidCommandHierarchy"])

ValidateHierarchy(command) ==
  IF IsLeaf(command) THEN ValidateLeaf(command)
  ELSE IF command.options # <<>> \/ command.children = <<>> THEN "InvalidCommandHierarchy"
  ELSE ValidateChildren(command.children,
         [n \in DOMAIN command.children |-> ValidateSubgroup(command.children[n])])

-----------------------------------------------------------------------------
(* Registration: create_commands.                                          *)

CreateScalarOption(option) ==
  [kind |-> option.kind, name |-> option.name, required |-> option.required,
   choices |-> option.choices, autocomplete |-> option.autocomplete, options |-> <<>>]

ScalarOptions(node) == [n \in DOMAIN node.options |-> CreateScalarOption(node.options[n])]

CreateHierarchyOption(node, kind, options) ==
  [kind |-> kind, name |-> node.name, required |-> FALSE,
   choices |-> FALSE, autocomplete |-> FALSE, options |-> options]

CreateSubcommand(leaf) == CreateHierarchyOption(leaf, "SUB_COMMAND", ScalarOptions(leaf))

CreateChildOption(node) ==
  IF IsLeaf(node) THEN CreateSubcommand(node)
  ELSE CreateHierarchyOption(node, "SUB_COMMAND_GROUP",
         [n \in DOMAIN node.children |-> CreateSubcommand(node.children[n])])

CreateCommand(node) ==
  [name |-> node.name,
   options |-> IF IsLeaf(node) THEN ScalarOptions(node)
               ELSE [n \in DOMAIN node.children |-> CreateChildOption(node.children[n])]]

-----------------------------------------------------------------------------
(* What Discord accepts (external).                                         *)

Choosable == {"STRING", "INTEGER", "NUMBER"}

Names(options) == {options[n].name : n \in DOMAIN options}
Distinct(options) == Cardinality(Names(options)) = Len(options)

RequiredFirst(options) ==
  \A n \in DOMAIN options :
    options[n].required => \A m \in 1..(n - 1) : options[m].required

ChoicesFit(options) ==
  \A n \in DOMAIN options : options[n].choices => options[n].kind \in Choosable

\* Discord's rules for one node that are no matter of the tree's shape.
WithinLimits(node) ==
  /\ Len(node.options) <= MaxOptions /\ Len(node.children) <= MaxOptions
  /\ Distinct(node.options) /\ RequiredFirst(node.options) /\ ChoicesFit(node.options)

\* One level of options: scalar ones, or branches of which it needs one.
ScalarList(options) ==
  /\ Kinds(options) \cap Hierarchical = {}
  /\ Len(options) <= MaxOptions /\ Distinct(options)
  /\ RequiredFirst(options) /\ ChoicesFit(options)
  /\ \A n \in DOMAIN options :
       options[n].autocomplete => options[n].kind \in Choosable /\ ~options[n].choices

BranchList(options) ==
  options # <<>> /\ Len(options) <= MaxOptions /\ Distinct(options)

SubcommandList(options) ==
  /\ BranchList(options)
  /\ \A n \in DOMAIN options :
       options[n].kind = "SUB_COMMAND" /\ ScalarList(options[n].options)

DiscordAccepts(payload) ==
  \/ ScalarList(payload.options)
  \/ /\ BranchList(payload.options)
     /\ \A n \in DOMAIN payload.options :
          \/ payload.options[n].kind = "SUB_COMMAND" /\ ScalarList(payload.options[n].options)
          \/ payload.options[n].kind = "SUB_COMMAND_GROUP"
             /\ SubcommandList(payload.options[n].options)
=============================================================================
