------------------------------ MODULE MCChoices ------------------------------
(* Small instances of Choices for TLC: two choices at most, texts of 0 to 3     *)
(* characters against a limit of 2, and numbers around 0 and around a safe       *)
(* integer range of -3..3.                                                    *)
EXTENDS Choices

CONSTANTS empty, a, b, long, id, yes

MCCharCount ==
  [text \in Texts |-> CASE text = empty -> 0
                       [] text = long -> MaxChars + 1
                       [] text = b -> MaxChars
                       [] OTHER -> 1]

Literal(form, negative, digits) == [form |-> form, negative |-> negative, digits |-> digits]

Strings == {Literal("Str", FALSE, text) : text \in {empty, b, long}} \cup {Literal("Str", TRUE, a)}
WholeNumbers == {Literal("Int", FALSE, 0), Literal("Int", TRUE, 3), Literal("Int", FALSE, 3),
              Literal("Int", FALSE, 4), Literal("Int", FALSE, 5)}
Numbers == {Literal("Float", FALSE, 0), Literal("Float", TRUE, 0), Literal("Float", FALSE, 3),
            Literal("Float", TRUE, 4), Literal("Float", FALSE, 7)}
Literals == Strings \cup WholeNumbers \cup Numbers \cup {Literal("Bool", FALSE, a)}

\* Those that are acceptable for some type, to meet each other as a second choice.
Acceptable == Literals \ {Literal("Str", FALSE, long), Literal("Bool", FALSE, a),
                          Literal("Int", TRUE, 3), Literal("Float", FALSE, 7)}

VariantOf(ident, unit, attributes, names, values) ==
  [ident |-> ident, unit |-> unit, attributes |-> attributes, names |-> names, values |-> values]

\* Well-formed variants with every kind of value, and one for each rule broken.
MCVariants ==
  {VariantOf(ident, TRUE, 1, <<name>>, values) :
     ident \in {a, b}, name \in {a, b}, values \in {<<>>} \cup {<<literal>> : literal \in Literals}}
  \cup {VariantOf(ident, TRUE, 1, <<name>>, <<>>) : ident \in {a, long}, name \in {empty, long, b}}
  \cup {VariantOf(a, FALSE, 1, <<a>>, <<>>), VariantOf(a, TRUE, 0, <<a>>, <<>>),
        VariantOf(a, TRUE, 2, <<a>>, <<>>), VariantOf(a, TRUE, 1, <<>>, <<>>),
        VariantOf(a, TRUE, 1, <<a, a>>, <<>>),
        VariantOf(a, TRUE, 1, <<a>>, <<Literal("Int", FALSE, 0), Literal("Int", FALSE, 0)>>)}

AttributeOf(names, values) == [names |-> names, values |-> values]

MCAttributes ==
  {AttributeOf(<<a>>, <<literal>>) : literal \in Literals}
  \cup {AttributeOf(<<b>>, <<literal>>) : literal \in Acceptable}
  \cup {AttributeOf(<<empty>>, <<Literal("Str", FALSE, b)>>),
        AttributeOf(<<long>>, <<Literal("Str", FALSE, b)>>), AttributeOf(<<>>, <<Literal("Int", FALSE, 0)>>),
        AttributeOf(<<a>>, <<>>), AttributeOf(<<a, a>>, <<Literal("Int", FALSE, 0)>>)}

ChoiceOf(name, valueType, data) ==
  [name |-> name, value |-> [type |-> valueType, data |-> data]]

MCAnswers ==
  {ChoiceOf(name, "String", text) : name \in {empty, a, long}, text \in {b}} \cup
  {ChoiceOf(b, "String", text) : text \in {empty, long}} \cup
  {ChoiceOf(a, "Integer", n) : n \in {-3, 3, 4}} \cup
  {ChoiceOf(b, "Number", x) : x \in {-4, 4, 6, NegativeZero, NotFinite}}

\* Values of an option's own kind, of another kind, without a value, and of another name.
OptionOf(name, kind, valueType, data) ==
  [name |-> name, kind |-> kind, value |-> [type |-> valueType, data |-> data]]

MCForeign ==
  {<<>>, <<OptionOf("other", "STRING", "String", a)>>, <<OptionOf("q", "STRING", "None", a)>>,
   <<OptionOf("q", "NUMBER", "Integer", 3)>>, <<OptionOf("q", "USER", "String", id)>>,
   <<OptionOf("other", "INTEGER", "Integer", 0), OptionOf("q", "INTEGER", "Integer", 3)>>} \cup
  {<<OptionOf("q", "STRING", "String", text)>> : text \in {a, b, long}} \cup
  {<<OptionOf("q", "INTEGER", "Integer", n)>> : n \in {0, 3, 9}} \cup
  {<<OptionOf("q", "NUMBER", "Number", x)>> : x \in {0, NegativeZero, 3, 4}} \cup
  {<<OptionOf("q", kind, "String", text)>> :
     kind \in {"USER", "CHANNEL", "ROLE", "ATTACHMENT"}, text \in {a, id}} \cup
  {<<OptionOf("q", "BOOLEAN", "Boolean", yes)>>}
=============================================================================
