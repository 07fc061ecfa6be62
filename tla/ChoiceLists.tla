----------------------------- MODULE ChoiceLists -----------------------------
(***************************************************************************)
(* The three ways to give an option choices: an enum that derives            *)
(* CommandChoice (crates/gloam-commands-macros/src/choice.rs), inline        *)
(* #[choice(...)] attributes (command.rs) and an autocomplete handler's      *)
(* answer (crates/gloam-commands/src/framework.rs).                         *)
(*                                                                         *)
(* A choice is [name, value], a value [type, data].  The arguments of a      *)
(* #[choice(...)] are [names, values], the sequences of what was written     *)
(* for each key; a variant adds [ident, unit, attributes].                  *)
(***************************************************************************)
EXTENDS CommandOptions

CONSTANTS MaxChoices,  \* MAX_CHOICES, MAX_AUTOCOMPLETE_CHOICES
          MaxChars     \* 100: names, descriptions and string values

ASSUME ChoicesAssumption == MaxChoices \in Nat \ {0} /\ MaxChars \in Nat \ {0}

ChoiceTypes == {"String", "Integer", "Number"}

ValidateChoiceName(name) == CharCount[name] \in 1..MaxChars
StringFits(text) == CharCount[text] <= MaxChars

\* As the parser of the source makes them.
IsArgs(args) ==
  /\ args.names \in Seq(Texts) /\ args.values \in Seq(Range(args.values))
  /\ \A literal \in Range(args.values) : IsLiteral(literal)

IsVariant(variant) == IsArgs(variant) /\ variant.ident \in Texts

\* ChoiceArgs and InlineChoiceArgs refuse a key written twice.
ParsesAsArgs(args) == Len(args.names) <= 1 /\ Len(args.values) <= 1

-----------------------------------------------------------------------------
(* derive(CommandChoice).                                                   *)

\* parse_value looks through a minus sign, even that of a string.
Parses(literal) ==
  \/ literal.form = "Str" /\ StringFits(literal.digits)
  \/ literal.form = "Int" /\ ParsesAsInteger(literal)
  \/ literal.form = "Float" /\ ParsesAsNumber(literal)

ParseValue(literal) ==
  CASE literal.form = "Str" -> [type |-> "String", data |-> literal.digits]
    [] literal.form = "Int" -> [type |-> "Integer", data |-> IntegerOf(literal)]
    [] literal.form = "Float" -> [type |-> "Number", data |-> NumberOf(literal)]

ParsesAsVariant(variant) ==
  /\ variant.unit
  /\ variant.attributes = 1
  /\ ParsesAsArgs(variant)
  /\ variant.names # <<>>
  /\ ValidateChoiceName(variant.names[1])
  /\ IF variant.values = <<>> THEN StringFits(variant.ident) ELSE Parses(variant.values[1])

ParsesAsVariants(variants) ==
  /\ Len(variants) \in 1..MaxChoices
  /\ \A n \in DOMAIN variants : ParsesAsVariant(variants[n])

\* A variant without a value stands for its own identifier.
VariantChoice(variant) ==
  [variant |-> variant.ident, name |-> variant.names[1],
   value |-> IF variant.values = <<>> THEN [type |-> "Default", data |-> variant.ident]
             ELSE ParseValue(variant.values[1])]

VariantChoices(variants) == [n \in DOMAIN variants |-> VariantChoice(variants[n])]

TypesOf(choices) == {choices[n].value.type : n \in DOMAIN choices}
Stringy == {"Default", "String"}

TypesAgree(choices) ==
  TypesOf(choices) \cap Stringy # {} => TypesOf(choices) \cap {"Integer", "Number"} = {}

InferType(choices) ==
  CASE TypesOf(choices) \cap Stringy # {} -> "String"
    [] TypesOf(choices) \cap Stringy = {} /\ "Number" \in TypesOf(choices) -> "Number"
    [] OTHER -> "Integer"

\* An integer literal of a number enum becomes an f64.
DataAs(type, value) ==
  IF type = "Number" /\ value.type = "Integer" THEN Rounded(value.data) ELSE value.data

\* Mutant: the two zeros have keys of their own, as their digits do.
NumberKeyOfDigits(x) == x

NumberKey(x) == IF SameNumber(x, 0) THEN 0 ELSE x

ValueKey(type, value) ==
  IF type = "Number" THEN NumberKey(DataAs(type, value)) ELSE value.data

NoDuplicates(choices, type) ==
  /\ IsInjective([n \in DOMAIN choices |-> choices[n].name])
  /\ IsInjective([n \in DOMAIN choices |-> ValueKey(type, choices[n].value)])

DeriveAccepts(variants) ==
  /\ ParsesAsVariants(variants)
  /\ LET choices == VariantChoices(variants)
     IN  TypesAgree(choices) /\ NoDuplicates(choices, InferType(choices))

EnumType(variants) == InferType(VariantChoices(variants))

\* CHOICES of the generated implementation.
DerivedChoices(variants) ==
  LET choices == VariantChoices(variants)
      type == EnumType(variants)
  IN  [n \in DOMAIN choices |->
         [name |-> choices[n].name,
          value |-> [type |-> type, data |-> DataAs(type, choices[n].value)]]]

ScalarOf == [String |-> "String", Integer |-> "i64", Number |-> "f64"]

\* The generated extract: the first variant whose value is the submitted one.
ExtractVariant(variants, options, name) ==
  LET type == EnumType(variants)
      choices == VariantChoices(variants)
      scalar == ExtractScalar(ScalarOf[type], options, name)
      same == {n \in DOMAIN choices :
                 LET data == DataAs(type, choices[n].value)
                 IN  IF type = "Number" THEN SameNumber(data, scalar.value)
                     ELSE data = scalar.value}
  IN  CASE scalar.is # "Ok" -> scalar
        [] scalar.is = "Ok" /\ same = {} -> Failure("InvalidChoice")
        [] OTHER -> Ok(choices[Min(same)].variant)

-----------------------------------------------------------------------------
(* Inline choices.                                                         *)

ParsesAs(type, literal) ==
  CASE type = "String" ->
         literal.form = "Str" /\ ~literal.negative /\ StringFits(literal.digits)
    [] type = "Integer" -> ParsesAsInteger(literal)
    [] type = "Number" -> ParsesAsNumber(literal)

InlineData(type, literal) ==
  CASE type = "String" -> literal.digits
    [] type = "Integer" -> IntegerOf(literal)
    [] type = "Number" -> NumberOf(literal)

SameChoiceValue(type, x, y) == IF type = "Number" THEN SameNumber(x, y) ELSE x = y

\* parse_inline_choices; each attribute was parsed as arguments before.
InlineAccepts(type, attributes) ==
  \/ attributes = <<>>
  \/ /\ Len(attributes) <= MaxChoices
     /\ type \in ChoiceTypes
     /\ \A n \in DOMAIN attributes :
          /\ ParsesAsArgs(attributes[n])
          /\ attributes[n].names # <<>> /\ ValidateChoiceName(attributes[n].names[1])
          /\ attributes[n].values # <<>> /\ ParsesAs(type, attributes[n].values[1])
          /\ \A m \in 1..(n - 1) :
               /\ attributes[m].names[1] # attributes[n].names[1]
               /\ ~SameChoiceValue(type, InlineData(type, attributes[m].values[1]),
                                   InlineData(type, attributes[n].values[1]))

InlineChoices(type, attributes) ==
  [n \in DOMAIN attributes |->
     [name |-> attributes[n].names[1],
      value |-> [type |-> type, data |-> InlineData(type, attributes[n].values[1])]]]

-----------------------------------------------------------------------------
(* What a declaration means, without the conversions.                       *)

\* Whether `data` is what the source code says for a variant or an attribute.
Denotes(entry, data) ==
  IF entry.values = <<>> THEN data = entry.ident
  ELSE IF entry.values[1].form = "Str" THEN data = entry.values[1].digits
  ELSE AsReal(data) = Rounded(IntegerOf(entry.values[1]))

-----------------------------------------------------------------------------
(* Autocomplete.                                                           *)

\* Mutant: integers get the range of numbers.
AutocompleteChoiceFitsAsNumber(type, choice) ==
  /\ CharCount[choice.name] \in 1..MaxChars
  /\ choice.value.type = type
  /\ IF type = "String" THEN CharCount[choice.value.data] <= MaxChars
     ELSE /\ choice.value.data # NotFinite
          /\ AsReal(choice.value.data) \in -(MaxSafe + 1)..(MaxSafe + 1)

AutocompleteChoiceFits(type, choice) ==
  /\ CharCount[choice.name] \in 1..MaxChars
  /\ choice.value.type = type
  /\ CASE type = "String" -> CharCount[choice.value.data] <= MaxChars
       [] type = "Integer" -> choice.value.data \in -MaxSafe..MaxSafe
       [] type = "Number" -> /\ choice.value.data # NotFinite
                             /\ AsReal(choice.value.data) \in -(MaxSafe + 1)..(MaxSafe + 1)

\* autocomplete_response_choices: the choices pass as they are, or none does.
AutocompleteAccepts(type, choices) ==
  /\ Len(choices) <= MaxChoices
  /\ \A n \in DOMAIN choices : AutocompleteChoiceFits(type, choices[n])
=============================================================================
