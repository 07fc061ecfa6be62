--------------------------- MODULE CommandOptions ---------------------------
(***************************************************************************)
(* Scalar options: the literals the macros read at compile time             *)
(* (crates/gloam-commands-macros/src/command.rs) and the typed extraction   *)
(* of what a user submitted (crates/gloam-commands/src/options.rs).         *)
(*                                                                         *)
(* Strings are model values with a number of characters.  An f64 is an      *)
(* integer, NegativeZero or NotFinite: fractions meet none of the limits.    *)
(* A literal is [form, negative, digits]; digits is the text of a string     *)
(* literal and the magnitude of a number.                                   *)
(***************************************************************************)
EXTENDS Integers, Sequences, FiniteSets, FiniteSetsExt, SequencesExt

CONSTANTS Texts,         \* strings
          CharCount,     \* their numbers of characters
          Snowflakes,    \* the texts that parse as a Discord id
          MaxSafe,       \* MAX_INTEGER_VALUE, 2^53 - 1
          NegativeZero,  \* the f64 -0.0
          NotFinite      \* any NaN or infinite f64

\* MaxSafe + 1 is a power of two, from which on an f64 skips integers.
ASSUME OptionsAssumption ==
  /\ CharCount \in [Texts -> Nat]
  /\ Snowflakes \subseteq Texts
  /\ MaxSafe \in Nat /\ MaxSafe % 4 = 3
  /\ NegativeZero \notin Int \cup Texts
  /\ NotFinite \notin Int \cup {NegativeZero}

-----------------------------------------------------------------------------
(* Literals.                                                               *)

\* The f64 nearest to an integer a little beyond 2^53, ties to even.
Rounded(n) ==
  CASE n \in -(MaxSafe + 1)..(MaxSafe + 1) -> n
    [] n \notin -(MaxSafe + 1)..(MaxSafe + 1) /\ n % 4 = 1 -> n - 1
    [] n \notin -(MaxSafe + 1)..(MaxSafe + 1) /\ n % 4 = 3 -> n + 1
    [] OTHER -> n

AsReal(x) == IF x = NegativeZero THEN 0 ELSE x

\* f64's ==, of which -0.0 = 0.0.
SameNumber(x, y) == AsReal(x) = AsReal(y)

\* As rustc's lexer makes it.
IsLiteral(literal) ==
  /\ literal.negative \in BOOLEAN
  /\ literal.form = "Str" => literal.digits \in Texts
  /\ literal.form \in {"Int", "Float"} => literal.digits \in Nat

IntegerOf(literal) == IF literal.negative THEN -literal.digits ELSE literal.digits

ParsesAsInteger(literal) ==
  literal.form = "Int" /\ IntegerOf(literal) \in -MaxSafe..MaxSafe

NumberOf(literal) ==
  IF literal.negative /\ literal.digits = 0 THEN NegativeZero
  ELSE IF literal.negative THEN -Rounded(literal.digits)
  ELSE Rounded(literal.digits)

ParsesAsNumber(literal) ==
  /\ literal.form \in {"Int", "Float"}
  /\ AsReal(NumberOf(literal)) \in -(MaxSafe + 1)..(MaxSafe + 1)

\* The macros' own name for each type, known_option_kind.
KnownOptionKind ==
  [String |-> "String", bool |-> "Boolean", i64 |-> "Integer", f64 |-> "Number",
   UserId |-> "User", ChannelId |-> "Channel", RoleId |-> "Role",
   AttachmentId |-> "Attachment"]

-----------------------------------------------------------------------------
(* Extraction.                                                             *)

\* CommandOption::KIND of each type the library implements it for.
KIND == [String |-> "STRING", bool |-> "BOOLEAN", i64 |-> "INTEGER", f64 |-> "NUMBER",
         UserId |-> "USER", ChannelId |-> "CHANNEL", RoleId |-> "ROLE",
         AttachmentId |-> "ATTACHMENT"]

IdTypes == {"UserId", "ChannelId", "RoleId", "AttachmentId"}

\* The variant of ApplicationCommandInteractionValue each type is read from.
Variant(type) ==
  CASE type = "bool" -> "Boolean"
    [] type = "i64" -> "Integer"
    [] type = "f64" -> "Number"
    [] OTHER -> "String"

Ok(value) == [is |-> "Ok", value |-> value]
None == [is |-> "None"]
Failure(error) == [is |-> error]

\* CommandOptions::get looks for the first option of a name.
Submitted(options, name) == {n \in DOMAIN options : options[n].name = name}
Get(options, name) == options[Min(Submitted(options, name))]

Carries(option, type) ==
  /\ option.kind = KIND[type]
  /\ option.value.type = Variant(type)
  /\ type \in IdTypes => option.value.data \in Snowflakes

\* String, bool, i64, f64 and the ids.
ExtractScalar(type, options, name) ==
  IF Submitted(options, name) = {} THEN Failure("MissingOption")
  ELSE IF Carries(Get(options, name), type) THEN Ok(Get(options, name).value.data)
  ELSE Failure("InvalidOption")

\* Option<T>, of which `inner` is what T::extract gives.
ExtractOption(inner, options, name) ==
  IF Submitted(options, name) = {} THEN None ELSE inner
=============================================================================
