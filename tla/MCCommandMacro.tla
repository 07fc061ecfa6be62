--------------------------- MODULE MCCommandMacro ---------------------------
(* Small instances of CommandMacro for TLC: parameters of every type, with each   *)
(* attribute alone and in the combinations the rules are about, two to a command; *)
(* groups of every shape Rust modules allow; signatures of every kind; and        *)
(* programs whose items agree or disagree.                                       *)
EXTENDS CommandMacro

CONSTANTS empty, x, y, z, upper, long, id, ctx

MCCharCount ==
  [text \in Texts |-> CASE text = empty -> 0
                       [] text = long -> MaxChars + 1
                       [] text = y -> MaxChars
                       [] OTHER -> 1]

Literal(form, negative, digits) == [form |-> form, negative |-> negative, digits |-> digits]
IntOf(n) == Literal("Int", FALSE, n)
FloatOf(n) == Literal("Float", FALSE, n)
Minus(literal) == [literal EXCEPT !.negative = TRUE]
StrOf(text) == Literal("Str", FALSE, text)

VariantOf(ident, name, values) ==
  [ident |-> ident, unit |-> TRUE, attributes |-> 1, names |-> <<name>>, values |-> values]

MCEnums ==
  [Color |-> <<VariantOf(x, x, <<>>), VariantOf(y, y, <<StrOf(z)>>)>>,
   Level |-> <<VariantOf(x, x, <<IntOf(1)>>), VariantOf(y, y, <<Minus(IntOf(1))>>)>>,
   Rate |-> <<VariantOf(x, x, <<IntOf(0)>>), VariantOf(y, y, <<FloatOf(1)>>)>>]

To(name) == [to |-> name, generic |-> FALSE]
Completer == <<To("complete")>>

Type(form, of) == [form |-> form, of |-> of]

Parameter(ident, type) ==
  [ident |-> ident, simple |-> TRUE, type |-> type, descriptions |-> <<x>>,
   autocomplete |-> <<>>, min |-> <<>>, max |-> <<>>, minLength |-> <<>>, maxLength |-> <<>>,
   markers |-> 0, inline |-> <<>>]

Choice(name, literal) == [names |-> <<name>>, values |-> <<literal>>]

Unadorned(ident) ==
  {Parameter(ident, Type(form, of)) :
     form \in {"Plain", "Option"}, of \in DOMAIN KnownOptionKind \cup {"Color", "Vec"}}
  \cup {Parameter(ident, Type("Nested", "i64"))}

Marked(ident) ==
  {[Parameter(ident, Type(form, of)) EXCEPT !.markers = 1] :
     form \in {"Plain", "Option", "Nested"}, of \in DOMAIN MCEnums \cup {"i64", "Vec", "Underived"}}

Completable(ident) ==
  {[Parameter(ident, Type("Plain", of)) EXCEPT !.autocomplete = Completer] :
     of \in {"String", "i64", "f64", "bool", "UserId"}}

Inlined(ident) ==
  {[Parameter(ident, Type(form, of)) EXCEPT !.inline = <<Choice(x, literal), Choice(y, other)>>] :
     form \in {"Plain", "Option"}, of \in {"String", "i64", "f64", "bool"},
     literal \in {StrOf(x), IntOf(1), FloatOf(0)}, other \in {StrOf(y), IntOf(3), Minus(FloatOf(0))}}

Bounded(ident) ==
  {[Parameter(ident, Type("Plain", of)) EXCEPT !.min = min, !.max = max] :
     of \in {"i64", "f64", "String"},
     min \in {<<>>, <<IntOf(1)>>, <<Minus(IntOf(3))>>, <<Minus(FloatOf(0))>>, <<IntOf(4)>>},
     max \in {<<>>, <<IntOf(0)>>, <<IntOf(1)>>, <<FloatOf(4)>>, <<IntOf(5)>>, <<IntOf(6)>>}}

Measured(ident) ==
  {[Parameter(ident, Type("Plain", of)) EXCEPT !.minLength = min, !.maxLength = max] :
     of \in {"String", "i64"},
     min \in {<<>>, <<IntOf(0)>>, <<IntOf(2)>>, <<Minus(IntOf(1))>>},
     max \in {<<>>, <<IntOf(0)>>, <<IntOf(1)>>, <<IntOf(2)>>, <<IntOf(3)>>}}

Broken(ident) ==
  LET p == Parameter(ident, Type("Plain", "i64"))
  IN  {[p EXCEPT !.simple = FALSE], [p EXCEPT !.ident = upper], [p EXCEPT !.descriptions = <<>>],
       [p EXCEPT !.descriptions = <<long>>], [p EXCEPT !.descriptions = <<x, x>>],
       [p EXCEPT !.markers = 2], [p EXCEPT !.min = <<IntOf(1), IntOf(1)>>],
       [p EXCEPT !.autocomplete = Completer, !.inline = <<Choice(x, IntOf(1))>>],
       [p EXCEPT !.autocomplete = Completer, !.min = <<IntOf(1)>>],
       [p EXCEPT !.autocomplete = <<[to |-> "complete", generic |-> TRUE]>>],
       [p EXCEPT !.autocomplete = <<To("one")>>],
       [p EXCEPT !.type = Type("Plain", "Level"), !.markers = 1, !.max = <<IntOf(1)>>],
       [p EXCEPT !.type = Type("Plain", "Level"), !.markers = 1, !.autocomplete = Completer],
       [p EXCEPT !.type = Type("Plain", "Level"), !.markers = 1, !.inline = <<Choice(x, IntOf(1))>>]}

FirstParameters ==
  UNION {Unadorned(x), Marked(x), Completable(x), Inlined(x), Bounded(x), Measured(x), Broken(x)}

SecondParameters ==
  {Parameter(y, Type("Plain", "i64")), Parameter(y, Type("Option", "String")),
   [Parameter(y, Type("Option", "Rate")) EXCEPT !.markers = 1],
   [Parameter(y, Type("Plain", "String")) EXCEPT !.autocomplete = Completer]}

Arguments ==
  [others |-> TRUE, names |-> <<>>, descriptions |-> <<x>>, guildOnly |-> <<>>, checks |-> <<>>,
   contexts |-> <<>>, limits |-> <<>>]

ArgumentLists ==
  LET a == Arguments
  IN  {a, [a EXCEPT !.others = FALSE], [a EXCEPT !.names = <<y>>], [a EXCEPT !.names = <<upper>>],
       [a EXCEPT !.names = <<y, y>>], [a EXCEPT !.descriptions = <<>>],
       [a EXCEPT !.descriptions = <<empty>>], [a EXCEPT !.guildOnly = <<"guild_only">>],
       [a EXCEPT !.guildOnly = <<"guild_only">>, !.contexts = <<"guild">>],
       [a EXCEPT !.contexts = <<"guild", "bot_dm">>], [a EXCEPT !.contexts = <<"guild", "guild">>],
       [a EXCEPT !.contexts = <<"channel">>], [a EXCEPT !.checks = <<To("one"), To("one")>>],
       [a EXCEPT !.checks = <<To("one")>>], [a EXCEPT !.checks = <<To("complete")>>],
       [a EXCEPT !.checks = <<[to |-> "one", generic |-> TRUE]>>],
       [a EXCEPT !.limits = <<0>>], [a EXCEPT !.limits = <<1>>], [a EXCEPT !.limits = <<1, 1>>]}

\* The signatures each macro accepts, and others that differ in one respect.
SignatureOf(context, returned) ==
  [async |-> TRUE, qualifiers |-> {}, inputs |-> <<Around(context, Path("State"))>>,
   output |-> Around("Result", returned)]

CommandSignature == SignatureOf("Context", Path("()"))
CheckSignature == SignatureOf("Context", Path("bool"))
CompleterSignature ==
  SignatureOf("AutocompleteContext", Around("Vec", Path("AutocompleteChoice")))

Outputs ==
  {Path("()"), Path("Result"), Around("Option", Path("()")), Around("Result", Path("()")),
   Around("Result", Path("bool")), Around("Result", Path("Vec")), Around("Result", Path("&")),
   Around("Result", Around("Vec", Path("AutocompleteChoice"))),
   Around("Result", Around("Vec", Path("String"))),
   [of |-> "Result", arguments |-> <<Path("bool"), Path("Error")>>],
   [of |-> "Result", arguments |-> <<Path("()"), Path("Error")>>]}

Contexts ==
  {Path("self"), Path("&"), Path("Context"), Around("Context", Path("'a")),
   Around("Context", Path("Other")), Around("AutocompleteContext", Path("State")),
   [of |-> "Context", arguments |-> <<Path("'a"), Path("State")>>]}

SignaturesNear(s) ==
  {s, [s EXCEPT !.async = FALSE], [s EXCEPT !.inputs = <<>>]}
  \cup {[s EXCEPT !.qualifiers = {q}] : q \in Qualifiers}
  \cup {[s EXCEPT !.output = output] : output \in Outputs}
  \cup {[s EXCEPT !.inputs = <<context>>] : context \in Contexts}

Helper(macro, ident, signature) ==
  [macro |-> macro, ident |-> ident, arguments |-> {}, signature |-> signature]

Check == Helper("check", "one", CheckSignature)
Complete == Helper("autocomplete", "complete", CompleterSignature)

HelpersNear(helper) ==
  {[helper EXCEPT !.signature = s] :
     s \in SignaturesNear(helper.signature) \cup
          {[helper.signature EXCEPT !.inputs = Append(helper.signature.inputs, Path("i64"))]}}
  \cup {[helper EXCEPT !.arguments = {"x"}], [helper EXCEPT !.ident = "another"],
        [helper EXCEPT !.ident = ctx]}

Command(ident, args, parameters) ==
  [kind |-> "fn", ident |-> ident, signature |-> CommandSignature, args |-> args,
   parameters |-> parameters]

Commands ==
  {Command(z, args, <<>>) : args \in ArgumentLists}
  \cup {Command(z, Arguments, <<p>>) : p \in FirstParameters}
  \cup {Command(z, Arguments, <<p, q>>) : p \in FirstParameters, q \in SecondParameters}
  \cup {Command(z, Arguments, <<Parameter(x, Type("Plain", "i64")),
          Parameter(y, Type("Plain", "i64")), Parameter(z, Type("Plain", "i64"))>>)}
  \cup {Command(ident, Arguments, parameters) :
          ident \in {z, ctx},
          parameters \in {<<>>} \cup {<<Parameter(name, Type("Plain", "i64"))>> : name \in {x, z, ctx}}}

GroupOf(ident, names, items) ==
  [kind |-> "mod", ident |-> ident, names |-> names, descriptions |-> <<x>>, body |-> TRUE,
   items |-> items, stateOutside |-> TRUE]

Simple == Command(x, Arguments, <<Parameter(y, Type("Option", "i64"))>>)
Renamed == Command(y, [Arguments EXCEPT !.names = <<x>>], <<>>)
Unlimited == Command(y, [Arguments EXCEPT !.limits = <<0>>], <<>>)
Stranger == [Renamed EXCEPT !.signature.inputs = <<Around("Context", Path("Other"))>>]
Ignored == [kind |-> "other"]
Three == <<Command(x, Arguments, <<>>), Command(y, Arguments, <<>>), Command(z, Arguments, <<>>)>>

InnerLists ==
  {<<>>, <<Ignored>>, <<Simple>>, <<Simple, Ignored, Renamed>>, <<Simple, Unlimited>>,
   <<Simple, Stranger>>, <<Stranger>>, Three,
   <<GroupOf(y, <<>>, <<Simple>>)>>, <<Simple, GroupOf(y, <<>>, <<Simple>>)>>}

InnerGroups ==
  {GroupOf(z, names, items) : names \in {<<>>, <<x>>}, items \in InnerLists}
  \cup {[GroupOf(z, <<>>, <<Simple>>) EXCEPT !.body = FALSE],
        [GroupOf(z, <<>>, <<Simple>>) EXCEPT !.descriptions = <<>>],
        [GroupOf(z, <<>>, <<Simple>>) EXCEPT !.stateOutside = FALSE]}

Groups ==
  {GroupOf(z, <<>>, items) : items \in InnerLists}
  \cup {GroupOf(z, names, <<group>>) : names \in {<<>>, <<upper>>, <<x, x>>}, group \in InnerGroups}
  \cup {GroupOf(z, <<>>, <<Simple, group>>) : group \in InnerGroups}
  \cup {[GroupOf(z, <<>>, items) EXCEPT !.stateOutside = FALSE] :
          items \in {<<Simple>>, <<GroupOf(y, <<>>, <<Simple>>)>>}}

\* Every item alone, with good helpers; one command with every signature and helper;
\* and lists of two.
Listed(source) == [source |-> source, generic |-> FALSE]
Program(items, helpers) == [items |-> items, helpers |-> helpers]
Given == {Check, Complete}

Helped ==
  Command(z, [Arguments EXCEPT !.checks = <<To("one")>>],
          <<[Parameter(x, Type("Plain", "i64")) EXCEPT !.autocomplete = Completer]>>)

MCPrograms ==
  {Program(<<Listed(source)>>, Given) : source \in Commands \cup Groups}
  \cup {Program(<<Listed([Helped EXCEPT !.signature = s])>>, Given) :
          s \in SignaturesNear(CommandSignature)}
  \cup {Program(<<Listed(Helped)>>, {helper, Complete}) : helper \in HelpersNear(Check)}
  \cup {Program(<<Listed(Helped)>>, {Check, helper}) : helper \in HelpersNear(Complete)}
  \cup {Program(<<[source |-> Helped, generic |-> TRUE]>>, Given)}
  \cup {Program(<<Listed([Helped EXCEPT !.args.checks = <<To(ctx)>>])>>,
                {[Check EXCEPT !.ident = ctx], Complete})}
  \cup {Program(<<Listed(first), Listed(second)>>, Given) :
          first \in {Simple, Helped, GroupOf(z, <<>>, <<Renamed>>)},
          second \in {Simple, Renamed, Stranger, Unlimited, GroupOf(x, <<>>, <<Simple>>)}}
=============================================================================
