------------------------------ MODULE MCRouting ------------------------------
(* Small instances of Routing for TLC: command trees of every legal shape and  *)
(* of each shape the registry refuses, and invocations current and stale.      *)
EXTENDS Routing

Option(name, kind, choices, autocomplete) ==
  [name |-> name, kind |-> kind, required |-> TRUE, choices |-> choices,
   autocomplete |-> autocomplete]

Leaf(name, options, handlers, limit) ==
  [name |-> name, kind |-> "leaf", options |-> options, handlers |-> handlers,
   limit |-> limit, children |-> <<>>]

Group(name, options, children) ==
  [name |-> name, kind |-> "group", options |-> options, handlers |-> <<>>,
   limit |-> NoLimit, children |-> children]

Completing == Option("q", "STRING", FALSE, TRUE)
CompletingToo == Option("r", "INTEGER", FALSE, TRUE)
On(name) == [option |-> name, handler |-> "completes " \o name]
Fixed == Option("q", "INTEGER", TRUE, FALSE)

Alphabet == <<"a", "b", "c", "d">>
Optional(option) == [option EXCEPT !.required = FALSE]

\* The first three are valid, each other breaks one rule; those of the last four the
\* registry does not check.
LeafVariants(name) ==
  {Leaf(name, <<Completing>>, <<On("q")>>, 1),
   Leaf(name, <<Completing, CompletingToo>>, <<On("r"), On("q")>>, 1),
   Leaf(name, <<Fixed>>, <<>>, NoLimit),
   Leaf(name, <<>>, <<>>, 0),
   Leaf(name, <<Completing>>, <<>>, NoLimit),
   Leaf(name, <<Completing>>, <<On("q"), On("q")>>, NoLimit),
   Leaf(name, <<>>, <<On("q")>>, NoLimit),
   Leaf(name, <<Fixed>>, <<On("q")>>, NoLimit),
   Leaf(name, <<Option("q", "STRING", TRUE, TRUE)>>, <<On("q")>>, NoLimit),
   Leaf(name, <<Option("q", "BOOLEAN", FALSE, TRUE)>>, <<On("q")>>, NoLimit),
   Leaf(name, <<Option("q", "BOOLEAN", TRUE, FALSE)>>, <<>>, NoLimit),
   Leaf(name, <<Completing, Fixed>>, <<On("q")>>, NoLimit),
   Leaf(name, <<Optional(Fixed), CompletingToo>>, <<On("r")>>, NoLimit),
   Leaf(name, [n \in 1..(MaxOptions + 1) |-> Option(Alphabet[n], "STRING", FALSE, FALSE)], <<>>, NoLimit)}

A == Leaf("a", <<Completing>>, <<On("q")>>, 1)
B == Leaf("b", <<Fixed>>, <<>>, NoLimit)
Broken == Leaf("b", <<>>, <<>>, 0)
Repeating == Leaf("b", <<Completing, Fixed>>, <<On("q")>>, NoLimit)
Crowd(size) == [n \in 1..size |-> Leaf(Alphabet[n], <<>>, <<>>, NoLimit)]
Crowds == {Crowd(MaxOptions), Crowd(MaxOptions + 1)}

\* Children of a group inside a group.
InnerLists ==
  {<<>>, <<A>>, <<A, B>>, <<A, B, A>>, <<B, Broken>>, <<A, Repeating>>,
   <<Group("a", <<>>, <<A>>)>>} \cup Crowds
InnerGroups ==
  {Group("g", <<>>, children) : children \in InnerLists} \cup {Group("g", <<Fixed>>, <<A>>)}

\* Children of a top-level group.
OuterLists ==
  {<<>>, <<A>>, <<A, B>>, <<A, B, A>>, <<Broken, A>>, <<Repeating, A>>} \cup Crowds \cup
  {<<A, g>> : g \in InnerGroups} \cup {<<g>> : g \in InnerGroups} \cup
  {<<Group("g", <<>>, <<A>>), Group("a", <<>>, <<B>>)>>, <<Group("a", <<>>, <<B>>), A>>}

MCCandidates ==
  LeafVariants("x") \cup {Leaf("y", <<Completing>>, <<On("q")>>, 1)} \cup
  {Group(name, <<>>, children) : name \in {"x", "y"}, children \in OuterLists} \cup
  {Group("x", <<Fixed>>, <<A>>)}

Submitted(name, kind, focused, options) ==
  [name |-> name, kind |-> kind, focused |-> focused, options |-> options]

ScalarLists ==
  {<<>>} \cup
  {<<Submitted("q", kind, focused, <<>>)>> :
     kind \in {"STRING", "INTEGER"}, focused \in BOOLEAN} \cup
  {<<Submitted("stale", "STRING", TRUE, <<>>)>>,
   <<Submitted("q", "STRING", FALSE, <<>>), Submitted("r", "INTEGER", TRUE, <<>>)>>,
   <<Submitted("q", "STRING", TRUE, <<>>), Submitted("q", "STRING", TRUE, <<>>)>>}

InnerBranches ==
  {<<Submitted(name, kind, FALSE, options)>> :
     name \in {"a", "b", "stale"}, kind \in {"SUB_COMMAND", "SUB_COMMAND_GROUP"},
     options \in ScalarLists}

OuterBranches ==
  InnerBranches \cup
  {<<Submitted(name, kind, FALSE, options)>> :
     name \in {"g", "a"}, kind \in {"SUB_COMMAND", "SUB_COMMAND_GROUP"},
     options \in InnerBranches \cup {<<>>}} \cup
  {<<Submitted("a", "SUB_COMMAND", FALSE, <<>>), Submitted("b", "SUB_COMMAND", FALSE, <<>>)>>}

Interaction(type, data, command, options) ==
  [name |-> "INTERACTION_CREATE", type |-> type, data |-> data, command |-> command,
   options |-> options]

MCEvents ==
  {Interaction(type, "CHAT_INPUT", command, options) :
     type \in {"COMMAND", "AUTOCOMPLETE"}, command \in {"x", "unknown"},
     options \in ScalarLists \cup OuterBranches} \cup
  {Interaction("COMMAND", data, "x", <<>>) : data \in {"missing", "USER_MENU"}} \cup
  {Interaction("COMPONENT", "CHAT_INPUT", "x", <<>>),
   [name |-> "MESSAGE_CREATE", type |-> "COMMAND", data |-> "missing", command |-> "x",
    options |-> <<>>]}
=============================================================================
