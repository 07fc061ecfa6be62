------------------------------- MODULE Choices -------------------------------
(***************************************************************************)
(* The life of a choice: it is declared (or answered by an autocomplete      *)
(* handler), checked, offered to a user by Discord, picked, submitted and    *)
(* extracted for the handler.  What is submitted may also stem from an       *)
(* older registration.                                                      *)
(***************************************************************************)
EXTENDS ChoiceLists

CONSTANTS Variants,    \* variants an enum may have
          Attributes,  \* inline #[choice(...)] attributes an option may have
          Answers,     \* choices an autocomplete handler may return
          Foreign      \* option lists submitted without picking an offered choice

\* What the Rust types of an answer say.
IsAnswer(answer) ==
  /\ answer.name \in Texts
  /\ answer.value.type \in ChoiceTypes
  /\ answer.value.type = "String" => answer.value.data \in Texts
  /\ answer.value.type = "Integer" => answer.value.data \in Int
  /\ answer.value.type = "Number" => answer.value.data \in Int \cup {NegativeZero, NotFinite}

ASSUME InputsAssumption ==
  /\ \A variant \in Variants : IsVariant(variant)
  /\ \A attribute \in Attributes : IsArgs(attribute)
  /\ \A answer \in Answers : IsAnswer(answer)

VARIABLES source,     \* where the option takes its choices from
          type,       \* the Rust type of the option, "enum" for a derived one
          optional,   \* whether the parameter is an Option<T>
          declared,   \* variants, attributes or answers so far
          stage,
          offer,      \* the choices Discord offers
          picked,     \* which of them the user picked, or 0
          submitted,  \* the submitted options
          received    \* what extract returned

vars == <<source, type, optional, declared, stage, offer, picked, submitted, received>>

Name == "q"

Init ==
  /\ \/ source = "derive" /\ type = "enum"
     \/ source = "inline" /\ type \in DOMAIN KIND
     \/ source = "autocomplete" /\ type \in {"String", "i64", "f64"}
  /\ optional \in BOOLEAN
  /\ declared = <<>>
  /\ stage = "declaring"
  /\ offer = <<>>
  /\ picked = 0
  /\ submitted = <<>>
  /\ received = Failure("none")

\* One entry beyond the limit shows its refusal.
Declare(entry) ==
  /\ stage = "declaring"
  /\ Len(declared) <= MaxChoices
  /\ source = "derive" => \A n \in DOMAIN declared : declared[n].ident # entry.ident
  /\ declared' = Append(declared, entry)
  /\ UNCHANGED <<source, type, optional, stage, offer, picked, submitted, received>>

Accepts ==
  CASE source = "derive" -> DeriveAccepts(declared)
    [] source = "inline" -> InlineAccepts(KnownOptionKind[type], declared)
    [] source = "autocomplete" -> AutocompleteAccepts(KnownOptionKind[type], declared)

Offered ==
  CASE source = "derive" -> DerivedChoices(declared)
    [] source = "inline" -> InlineChoices(KnownOptionKind[type], declared)
    [] source = "autocomplete" -> declared

\* The macro expands, or the handler's answer is checked and sent.
Offer ==
  /\ stage = "declaring"
  /\ IF Accepts THEN stage' = "offered" /\ offer' = Offered
     ELSE stage' = "rejected" /\ UNCHANGED offer
  /\ UNCHANGED <<source, type, optional, declared, picked, submitted, received>>

RegisteredKind ==
  IF source = "derive" THEN KIND[ScalarOf[EnumType(declared)]] ELSE KIND[type]

\* Discord submits the value of the picked choice (external).
Pick(n) ==
  /\ stage = "offered"
  /\ picked' = n
  /\ submitted' = <<[name |-> Name, kind |-> RegisteredKind, value |-> offer[n].value]>>
  /\ stage' = "submitted"
  /\ UNCHANGED <<source, type, optional, declared, offer, received>>

\* The command ran under an older registration, or the user typed a value.
SubmitForeign(options) ==
  /\ stage = "offered"
  /\ submitted' = options
  /\ stage' = "submitted"
  /\ UNCHANGED <<source, type, optional, declared, offer, picked, received>>

Extracted ==
  LET inner == IF source = "derive" THEN ExtractVariant(declared, submitted, Name)
               ELSE ExtractScalar(type, submitted, Name)
  IN  IF optional THEN ExtractOption(inner, submitted, Name) ELSE inner

Extract ==
  /\ stage = "submitted"
  /\ received' = Extracted
  /\ stage' = "received"
  /\ UNCHANGED <<source, type, optional, declared, offer, picked, submitted>>

Quiet == stage \in {"rejected", "received"} /\ UNCHANGED vars

Next ==
  \/ source = "derive" /\ \E variant \in Variants : Declare(variant)
  \/ source = "inline" /\ \E attribute \in Attributes : Declare(attribute)
  \/ source = "autocomplete" /\ \E answer \in Answers : Declare(answer)
  \/ Offer
  \/ \E n \in DOMAIN offer : Pick(n)
  \/ \E options \in Foreign : SubmitForeign(options)
  \/ Extract
  \/ Quiet

Spec == Init /\ [][Next]_vars

-----------------------------------------------------------------------------
(* Safety.                                                                 *)

\* A user who picks a choice gives the handler exactly that choice: the variant, the
\* inline value or the completed value declared in its place, through every
\* conversion on the way.  And whatever else is submitted, an enum parameter is only
\* ever a variant whose own value was submitted.
SelectedChoiceReceived ==
  stage = "received" =>
    /\ picked # 0 =>
         /\ received.is = "Ok"
         /\ CASE source = "derive" -> received.value = declared[picked].ident
              [] source = "inline" -> Denotes(declared[picked], received.value)
              [] source = "autocomplete" -> received.value = declared[picked].value.data
    /\ source = "derive" /\ received.is = "Ok" =>
         \E n \in DOMAIN declared :
           /\ declared[n].ident = received.value
           /\ Denotes(declared[n], Get(submitted, Name).value.data)

\* Discord's limits on one choice, by the type of its value.
LegalChoice(choice) ==
  /\ CharCount[choice.name] \in 1..MaxChars
  /\ CASE choice.value.type = "String" -> CharCount[choice.value.data] <= MaxChars
       [] choice.value.type = "Integer" -> choice.value.data \in -MaxSafe..MaxSafe
       [] choice.value.type = "Number" ->
            AsReal(choice.value.data) \in -(MaxSafe + 1)..(MaxSafe + 1)

\* Discord's limits on a list of choices, and that a static list is unambiguous.
LegalList(choices) ==
  /\ Len(choices) <= MaxChoices
  /\ \A n \in DOMAIN choices : LegalChoice(choices[n])
  /\ "String" \in TypesOf(choices) => TypesOf(choices) = {"String"}
  /\ source # "autocomplete" =>
       \A n, m \in DOMAIN choices : n # m =>
         /\ choices[n].name # choices[m].name
         /\ AsReal(choices[n].value.data) # AsReal(choices[m].value.data)

\* What an entry means, without any of the conversions.
Forms == [Str |-> "String", Int |-> "Integer", Float |-> "Number"]

Intended(entry) ==
  IF source = "autocomplete" THEN entry
  ELSE [name |-> entry.names[1],
        value |->
          IF entry.values = <<>> THEN [type |-> "String", data |-> entry.ident]
          ELSE IF entry.values[1].form = "Str"
          THEN [type |-> "String", data |-> entry.values[1].digits]
          ELSE [type |-> IF type = "f64" THEN "Number" ELSE Forms[entry.values[1].form],
                data |-> IntegerOf(entry.values[1])]]

\* Declared as the documentation shows it, each entry once and for one type.
Plain(entry) ==
  CASE source = "derive" ->
         /\ entry.unit /\ entry.attributes = 1
         /\ Len(entry.names) = 1 /\ Len(entry.values) <= 1
         /\ entry.values # <<>> => entry.values[1].form \in DOMAIN Forms
    [] source = "inline" ->
         /\ Len(entry.names) = 1 /\ Len(entry.values) = 1
         /\ \/ type = "String" /\ entry.values[1].form = "Str" /\ ~entry.values[1].negative
            \/ type = "i64" /\ entry.values[1].form = "Int"
            \/ type = "f64" /\ entry.values[1].form \in {"Int", "Float"}
    [] source = "autocomplete" ->
         entry.value.type = KnownOptionKind[type] /\ entry.value.data # NotFinite

\* Nothing Discord would refuse or confuse is offered, all of it in the option's own
\* type; and nothing legal is rejected: a plain declaration fails to compile, or a
\* handler's answer to be sent, only for one of Discord's limits.
OfferedExactlyWhenLegal ==
  /\ stage \notin {"declaring", "rejected"} =>
       /\ LegalList(offer)
       /\ \A n \in DOMAIN offer :
            KIND[ScalarOf[offer[n].value.type]] = RegisteredKind
  /\ stage = "rejected" /\ (\A n \in DOMAIN declared : Plain(declared[n])) =>
       \/ source = "derive" /\ declared = <<>>
       \/ ~LegalList([n \in DOMAIN declared |-> Intended(declared[n])])
=============================================================================
