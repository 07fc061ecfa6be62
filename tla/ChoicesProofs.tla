---------------------------- MODULE ChoicesProofs ----------------------------
(* Proofs of the safety properties of Choices, for declarations and answers of   *)
(* any length and any limits.                                                  *)
EXTENDS Choices, CommandFacts

-----------------------------------------------------------------------------
(* The inductive invariant.                                                  *)

Sourced ==
  \/ source = "derive" /\ type = "enum"
  \/ source = "inline" /\ type \in DOMAIN KIND
  \/ source = "autocomplete" /\ type \in {"String", "i64", "f64"}

IsEntry(entry) ==
  /\ source = "derive" => IsVariant(entry)
  /\ source = "inline" => IsArgs(entry)
  /\ source = "autocomplete" => IsAnswer(entry)

\* The declaration is a list of entries of its source, and the rest of the state was
\* made from it.
ChoicesInv ==
  /\ Sourced
  /\ optional \in BOOLEAN
  /\ IsSequence(declared) /\ \A n \in DOMAIN declared : IsEntry(declared[n])
  /\ stage \in {"declaring", "rejected", "offered", "submitted", "received"}
  /\ stage \in {"offered", "submitted", "received"} => Accepts /\ offer = Offered
  /\ stage = "rejected" => ~Accepts
  /\ picked # 0 =>
       /\ stage \in {"submitted", "received"}
       /\ picked \in DOMAIN offer
       /\ submitted = <<[name |-> Name, kind |-> RegisteredKind, value |-> offer[picked].value]>>
  /\ stage = "received" => received = Extracted

LEMMA Appended ==
  ASSUME NEW s, IsSequence(s), NEW e
  PROVE  /\ IsSequence(Append(s, e))
         /\ \A n \in DOMAIN Append(s, e) :
              Append(s, e)[n] = e \/ (n \in DOMAIN s /\ Append(s, e)[n] = s[n])
<1>1. s \in Seq(Range(s)) /\ Len(s) \in Nat /\ DOMAIN s = 1..Len(s)
  BY DEF IsSequence
<1>2. /\ DOMAIN Append(s, e) = 1..(Len(s) + 1)
      /\ \A n \in 1..Len(s) : Append(s, e)[n] = s[n]
      /\ Append(s, e)[Len(s) + 1] = e
  <2>1. s \in Seq(Range(s) \cup {e})
    BY <1>1
  <2>. QED  BY <1>1, <2>1
<1>3. Append(s, e) \in Seq(Range(Append(s, e)))
  <2>1. Append(s, e) \in Seq(Range(s) \cup {e})
    BY <1>1
  <2>2. \A n \in 1..Len(Append(s, e)) : Append(s, e)[n] \in Range(Append(s, e))
    BY <2>1 DEF Range
  <2>. QED  BY <2>1, <2>2
<1>. QED
  BY <1>1, <1>2, <1>3 DEF IsSequence

LEMMA InitChoices == Init => ChoicesInv
<1>. SUFFICES ASSUME Init PROVE ChoicesInv
  OBVIOUS
<1>1. IsSequence(<<>>)
  BY DEF IsSequence, Range
<1>. QED
  BY <1>1 DEF Init, ChoicesInv, Sourced, IsEntry

\* A step that leaves the declaration alone.
LEMMA StillDeclared ==
  ASSUME ChoicesInv, UNCHANGED <<source, type, optional, declared>>
  PROVE  /\ Sourced' /\ (optional \in BOOLEAN)'
         /\ (IsSequence(declared) /\ \A n \in DOMAIN declared : IsEntry(declared[n]))'
         /\ Accepts' = Accepts /\ Offered' = Offered /\ RegisteredKind' = RegisteredKind
BY DEF ChoicesInv, Sourced, IsEntry, Accepts, Offered, RegisteredKind

LEMMA DeclareStep ==
  ASSUME ChoicesInv, NEW entry, Declare(entry), IsEntry(entry)
  PROVE  ChoicesInv'
<1>1. /\ stage = "declaring" /\ declared' = Append(declared, entry)
      /\ UNCHANGED <<source, type, optional, stage, offer, picked, submitted, received>>
      /\ picked = 0
  BY DEF Declare, ChoicesInv
<1>2. Sourced' /\ (optional \in BOOLEAN)'
  BY <1>1 DEF ChoicesInv, Sourced
<1>3. IsSequence(declared)' /\ (\A n \in DOMAIN declared : IsEntry(declared[n]))'
  <2>1. /\ IsSequence(declared')
        /\ \A n \in DOMAIN declared' :
             declared'[n] = entry \/ (n \in DOMAIN declared /\ declared'[n] = declared[n])
    BY <1>1, Appended DEF ChoicesInv
  <2>2. \A n \in DOMAIN declared' : IsEntry(declared'[n])
    BY <2>1 DEF ChoicesInv
  <2>. QED  BY <1>1, <2>1, <2>2 DEF IsEntry
<1>. QED
  BY <1>1, <1>2, <1>3 DEF ChoicesInv

LEMMA ChoicesStep == ChoicesInv /\ [Next]_vars => ChoicesInv'
<1>. SUFFICES ASSUME ChoicesInv, [Next]_vars PROVE ChoicesInv'
  OBVIOUS
<1>1. ASSUME source = "derive", NEW variant \in Variants, Declare(variant) PROVE ChoicesInv'
  BY <1>1, DeclareStep, InputsAssumption DEF IsEntry
<1>2. ASSUME source = "inline", NEW attribute \in Attributes, Declare(attribute) PROVE ChoicesInv'
  BY <1>2, DeclareStep, InputsAssumption DEF IsEntry
<1>3. ASSUME source = "autocomplete", NEW answer \in Answers, Declare(answer) PROVE ChoicesInv'
  BY <1>3, DeclareStep, InputsAssumption DEF IsEntry
<1>4. CASE Offer
  <2>1. /\ stage = "declaring" /\ picked = 0
        /\ UNCHANGED <<source, type, optional, declared, picked, submitted, received>>
        /\ IF Accepts THEN stage' = "offered" /\ offer' = Offered
           ELSE stage' = "rejected" /\ UNCHANGED offer
    BY <1>4 DEF Offer, ChoicesInv
  <2>2. /\ Sourced' /\ (optional \in BOOLEAN)'
        /\ (IsSequence(declared) /\ \A n \in DOMAIN declared : IsEntry(declared[n]))'
        /\ Accepts' = Accepts /\ Offered' = Offered
    BY <2>1, StillDeclared
  <2>. QED  BY <2>1, <2>2 DEF ChoicesInv
<1>5. ASSUME NEW n \in DOMAIN offer, Pick(n) PROVE ChoicesInv'
  <2>1. /\ stage = "offered" /\ stage' = "submitted" /\ picked' = n
        /\ submitted' = <<[name |-> Name, kind |-> RegisteredKind, value |-> offer[n].value]>>
        /\ UNCHANGED <<source, type, optional, declared, offer, received>>
        /\ Accepts /\ offer = Offered
    BY <1>5 DEF Pick, ChoicesInv
  <2>2. /\ Sourced' /\ (optional \in BOOLEAN)'
        /\ (IsSequence(declared) /\ \A k \in DOMAIN declared : IsEntry(declared[k]))'
        /\ Accepts' = Accepts /\ Offered' = Offered /\ RegisteredKind' = RegisteredKind
    BY <2>1, StillDeclared
  <2>. QED  BY <2>1, <2>2 DEF ChoicesInv, Name
<1>6. ASSUME NEW options \in Foreign, SubmitForeign(options) PROVE ChoicesInv'
  <2>1. /\ stage = "offered" /\ stage' = "submitted" /\ picked = 0
        /\ UNCHANGED <<source, type, optional, declared, offer, picked, received>>
        /\ Accepts /\ offer = Offered
    BY <1>6 DEF SubmitForeign, ChoicesInv
  <2>2. /\ Sourced' /\ (optional \in BOOLEAN)'
        /\ (IsSequence(declared) /\ \A k \in DOMAIN declared : IsEntry(declared[k]))'
        /\ Accepts' = Accepts /\ Offered' = Offered
    BY <2>1, StillDeclared
  <2>. QED  BY <2>1, <2>2 DEF ChoicesInv
<1>7. CASE Extract
  <2>1. /\ stage = "submitted" /\ stage' = "received" /\ received' = Extracted
        /\ UNCHANGED <<source, type, optional, declared, offer, picked, submitted>>
        /\ Accepts /\ offer = Offered
    BY <1>7 DEF Extract, ChoicesInv
  <2>2. /\ Sourced' /\ (optional \in BOOLEAN)'
        /\ (IsSequence(declared) /\ \A k \in DOMAIN declared : IsEntry(declared[k]))'
        /\ Accepts' = Accepts /\ Offered' = Offered /\ RegisteredKind' = RegisteredKind
    BY <2>1, StillDeclared
  <2>3. Extracted' = Extracted
    BY <2>1 DEF Extracted, Name
  <2>. QED  BY <2>1, <2>2, <2>3 DEF ChoicesInv, Name
<1>8. CASE UNCHANGED vars
  <2>1. UNCHANGED <<source, type, optional, declared, stage, offer, picked, submitted, received>>
    BY <1>8 DEF vars
  <2>2. /\ Sourced' /\ (optional \in BOOLEAN)'
        /\ (IsSequence(declared) /\ \A k \in DOMAIN declared : IsEntry(declared[k]))'
        /\ Accepts' = Accepts /\ Offered' = Offered /\ RegisteredKind' = RegisteredKind
    BY <2>1, StillDeclared
  <2>3. Extracted' = Extracted
    BY <2>1 DEF Extracted, Name
  <2>. QED  BY <2>1, <2>2, <2>3 DEF ChoicesInv, Name
<1>. QED
  BY <1>1, <1>2, <1>3, <1>4, <1>5, <1>6, <1>7, <1>8 DEF Next, Quiet

\* The invariant holds throughout: at every stage the state is what the declaration
\* makes it.
THEOREM ChoicesInvariant == Spec => []ChoicesInv
<1>. QED
  BY InitChoices, ChoicesStep, PTL DEF Spec

-----------------------------------------------------------------------------
(* What is picked is received.                                               *)

\* Offered choices of a type that has them.
LEMMA TypeOfKind ==
  ASSUME Sourced, source # "derive", KnownOptionKind[type] \in ChoiceTypes
  PROVE  /\ type \in {"String", "i64", "f64"}
         /\ Variant(type) = KnownOptionKind[type] /\ type \notin IdTypes
         /\ KIND[ScalarOf[KnownOptionKind[type]]] = KIND[type]
<1>1. type \in DOMAIN KIND
  BY DEF Sourced, KIND
<1>2. type \in {"String", "i64", "f64"}
  BY <1>1 DEF KIND, KnownOptionKind, ChoiceTypes
<1>. QED
  BY <1>2 DEF Variant, KnownOptionKind, IdTypes, KIND, ScalarOf

\* Nothing comes between an inner extraction and the handler when it succeeds.
LEMMA InnerReceived ==
  ASSUME NEW inner, Submitted(submitted, Name) # {},
         Extracted = IF optional THEN ExtractOption(inner, submitted, Name) ELSE inner
  PROVE  Extracted = inner
BY DEF ExtractOption

\* A user who picks a choice gives the handler exactly that choice, and an enum
\* argument is only ever a variant whose own value was submitted, for declarations
\* and answers of any length.
THEOREM PickedIsReceived == Spec => []SelectedChoiceReceived
<1>1. ChoicesInv => SelectedChoiceReceived
  <2>. SUFFICES ASSUME ChoicesInv, stage = "received"
                PROVE  /\ picked # 0 =>
                            /\ received.is = "Ok"
                            /\ CASE source = "derive" -> received.value = declared[picked].ident
                                 [] source = "inline" -> Denotes(declared[picked], received.value)
                                 [] source = "autocomplete" ->
                                      received.value = declared[picked].value.data
                       /\ source = "derive" /\ received.is = "Ok" =>
                            \E n \in DOMAIN declared :
                              /\ declared[n].ident = received.value
                              /\ Denotes(declared[n], Get(submitted, Name).value.data)
    BY DEF SelectedChoiceReceived
  <2>0. /\ Sourced /\ IsSequence(declared) /\ \A n \in DOMAIN declared : IsEntry(declared[n])
        /\ Accepts /\ offer = Offered /\ received = Extracted
    BY DEF ChoicesInv
  <2>1. ASSUME picked # 0
        PROVE  /\ received.is = "Ok"
               /\ CASE source = "derive" -> received.value = declared[picked].ident
                    [] source = "inline" -> Denotes(declared[picked], received.value)
                    [] source = "autocomplete" ->
                         received.value = declared[picked].value.data
    <3>. DEFINE o == [name |-> Name, kind |-> RegisteredKind, value |-> offer[picked].value]
    <3>1. picked \in DOMAIN offer /\ submitted = <<o>>
      BY <2>1 DEF ChoicesInv
    <3>2. o.name = Name /\ o.kind = RegisteredKind /\ o.value = offer[picked].value
      OBVIOUS
    <3>. HIDE DEF o
    <3>3. Submitted(submitted, Name) # {} /\ o = Get(submitted, Name)
      BY <3>1, <3>2, OnlyOneSubmitted
    <3>4. CASE source = "derive"
      <4>1. DeriveAccepts(declared) /\ offer = DerivedChoices(declared)
        BY <2>0, <3>4 DEF Accepts, Offered
      <4>2. \A n \in DOMAIN declared : IsVariant(declared[n])
        BY <2>0, <3>4 DEF IsEntry
      <4>3. picked \in DOMAIN declared
        BY <3>1, <4>1 DEF DerivedChoices, VariantChoices
      <4>4. o.kind = KIND[ScalarOf[EnumType(declared)]]
        BY <3>2, <3>4 DEF RegisteredKind
      <4>5. ExtractVariant(declared, submitted, Name) = Ok(declared[picked].ident)
        BY <2>0, <3>2, <3>3, <4>1, <4>2, <4>3, <4>4, PickedVariant
      <4>6. Extracted = ExtractVariant(declared, submitted, Name)
        <5>1. Extracted = IF optional
                          THEN ExtractOption(ExtractVariant(declared, submitted, Name), submitted, Name)
                          ELSE ExtractVariant(declared, submitted, Name)
          BY <3>4 DEF Extracted
        <5>. QED  BY <3>3, <5>1, InnerReceived
      <4>. QED  BY <2>0, <3>1, <3>4, <4>5, <4>6 DEF Ok
    <3>5. CASE source # "derive"
      <4>. DEFINE of == KnownOptionKind[type]
      <4>1. /\ of \in ChoiceTypes /\ offer[picked].value.type = of
            /\ picked \in DOMAIN declared
            /\ source = "inline" => Denotes(declared[picked], offer[picked].value.data)
            /\ source = "autocomplete" => offer[picked] = declared[picked]
        <5>1. CASE source = "inline"
          <6>. HIDE DEF of
          <6>1. InlineAccepts(of, declared) /\ offer = InlineChoices(of, declared)
            BY <2>0, <5>1 DEF Accepts, Offered, of
          <6>2. \A n \in DOMAIN declared : IsArgs(declared[n])
            BY <2>0, <5>1 DEF IsEntry
          <6>. QED  BY <2>0, <3>1, <5>1, <6>1, <6>2, InlineAccepted
        <5>2. CASE source = "autocomplete"
          <6>1. AutocompleteAccepts(of, declared) /\ offer = declared
            BY <2>0, <5>2 DEF Accepts, Offered
          <6>2. offer[picked].value.type = of
            BY <3>1, <6>1 DEF AutocompleteAccepts, AutocompleteChoiceFits
          <6>3. declared[picked].value.type \in ChoiceTypes
            BY <2>0, <3>1, <5>2, <6>1 DEF IsEntry, IsAnswer
          <6>. QED  BY <3>1, <5>2, <6>1, <6>2, <6>3
        <5>. QED  BY <2>0, <3>5, <5>1, <5>2 DEF Sourced
      <4>2. Variant(type) = of /\ type \notin IdTypes
        BY <2>0, <3>5, <4>1, TypeOfKind
      <4>3. o.kind = KIND[type]
        BY <3>2, <3>5 DEF RegisteredKind
      <4>4. ExtractScalar(type, submitted, Name) = Ok(offer[picked].value.data)
        BY <3>2, <3>3, <4>1, <4>2, <4>3, ScalarExtracted
      <4>5. Extracted = ExtractScalar(type, submitted, Name)
        <5>1. Extracted = IF optional
                          THEN ExtractOption(ExtractScalar(type, submitted, Name), submitted, Name)
                          ELSE ExtractScalar(type, submitted, Name)
          BY <3>5 DEF Extracted
        <5>. QED  BY <3>3, <5>1, InnerReceived
      <4>6. received.is = "Ok" /\ received.value = offer[picked].value.data
        BY <2>0, <4>4, <4>5 DEF Ok
      <4>. QED  BY <2>0, <3>5, <4>1, <4>6 DEF Sourced
    <3>. QED  BY <3>4, <3>5
  <2>2. ASSUME source = "derive", received.is = "Ok"
        PROVE  \E n \in DOMAIN declared :
                 /\ declared[n].ident = received.value
                 /\ Denotes(declared[n], Get(submitted, Name).value.data)
    <3>. DEFINE inner == ExtractVariant(declared, submitted, Name)
    <3>1. DeriveAccepts(declared) /\ \A n \in DOMAIN declared : IsVariant(declared[n])
      BY <2>0, <2>2 DEF Accepts, IsEntry
    <3>2. received = inner
      <4>1. Extracted = IF optional THEN ExtractOption(inner, submitted, Name) ELSE inner
        BY <2>2 DEF Extracted
      <4>. HIDE DEF inner
      <4>. QED  BY <2>0, <2>2, <4>1 DEF ExtractOption, None
    <3>. QED  BY <2>0, <2>2, <3>1, <3>2, VariantExtracted
  <2>. QED  BY <2>1, <2>2
<1>. QED
  BY <1>1, ChoicesInvariant, PTL

-----------------------------------------------------------------------------
(* What is offered is legal.                                                 *)

\* A list of legal choices of one type.
LEMMA LegalOfOneType ==
  ASSUME NEW choices, NEW of,
         Len(choices) <= MaxChoices,
         \A n \in DOMAIN choices :
           /\ of \in ChoiceTypes
           /\ CharCount[choices[n].name] \in 1..MaxChars
           /\ choices[n].value.type = of
           /\ of = "String" => CharCount[choices[n].value.data] <= MaxChars
           /\ of = "Integer" => choices[n].value.data \in -MaxSafe..MaxSafe
           /\ of = "Number" => AsReal(choices[n].value.data) \in Exact,
         source # "autocomplete" =>
           \A n, m \in DOMAIN choices : n # m =>
             /\ choices[n].name # choices[m].name
             /\ AsReal(choices[n].value.data) # AsReal(choices[m].value.data)
  PROVE  LegalList(choices)
<1>1. ASSUME NEW n \in DOMAIN choices PROVE LegalChoice(choices[n])
  <2>1. CASE of = "String"
    BY <2>1 DEF LegalChoice
  <2>2. CASE of = "Integer"
    BY <2>2 DEF LegalChoice
  <2>3. CASE of = "Number"
    BY <2>3 DEF LegalChoice, Exact
  <2>. QED  BY <2>1, <2>2, <2>3 DEF ChoiceTypes
<1>2. "String" \in TypesOf(choices) => TypesOf(choices) = {"String"}
  BY DEF TypesOf
<1>. QED
  BY <1>1, <1>2 DEF LegalList

LEMMA OfferIsLegal ==
  ASSUME ChoicesInv, stage \notin {"declaring", "rejected"}
  PROVE  /\ LegalList(offer)
         /\ \A n \in DOMAIN offer : KIND[ScalarOf[offer[n].value.type]] = RegisteredKind
<1>0. /\ Sourced /\ IsSequence(declared) /\ \A n \in DOMAIN declared : IsEntry(declared[n])
      /\ Accepts /\ offer = Offered
  BY DEF ChoicesInv
<1>m. MaxChoices \in Nat
  BY ChoicesAssumption
<1>1. CASE source = "derive"
  <2>. DEFINE of == EnumType(declared)
  <2>1. DeriveAccepts(declared) /\ offer = DerivedChoices(declared) /\ of = EnumType(declared)
    BY <1>0, <1>1 DEF Accepts, Offered
  <2>2. \A n \in DOMAIN declared : IsVariant(declared[n])
    BY <1>0, <1>1 DEF IsEntry
  <2>3. RegisteredKind = KIND[ScalarOf[of]]
    BY <1>1 DEF RegisteredKind
  <2>. HIDE DEF of
  <2>4. /\ of \in ChoiceTypes
        /\ DOMAIN offer = DOMAIN declared /\ Len(offer) <= MaxChoices
        /\ \A n \in DOMAIN offer :
             /\ CharCount[offer[n].name] \in 1..MaxChars
             /\ offer[n].value.type = of
             /\ of = "String" => CharCount[offer[n].value.data] <= MaxChars
             /\ of = "Integer" => offer[n].value.data \in -MaxSafe..MaxSafe
             /\ of = "Number" => AsReal(offer[n].value.data) \in Exact
        /\ \A n, m \in DOMAIN offer : n # m =>
             /\ offer[n].name # offer[m].name
             /\ AsReal(offer[n].value.data) # AsReal(offer[m].value.data)
    BY <1>0, <1>m, <2>1, <2>2, EnumAccepted
  <2>5. LegalList(offer)
    BY <2>4, LegalOfOneType
  <2>. QED  BY <2>3, <2>4, <2>5
<1>2. CASE source = "inline"
  <2>. DEFINE of == KnownOptionKind[type]
  <2>1. InlineAccepts(of, declared) /\ offer = InlineChoices(of, declared)
    BY <1>0, <1>2 DEF Accepts, Offered
  <2>2. \A n \in DOMAIN declared : IsArgs(declared[n])
    BY <1>0, <1>2 DEF IsEntry
  <2>3. of \in ChoiceTypes => RegisteredKind = KIND[ScalarOf[of]]
    BY <1>0, <1>2, TypeOfKind DEF RegisteredKind
  <2>. HIDE DEF of
  <2>4. /\ DOMAIN offer = DOMAIN declared /\ Len(offer) <= MaxChoices
        /\ \A n \in DOMAIN offer :
             /\ of \in ChoiceTypes
             /\ CharCount[offer[n].name] \in 1..MaxChars
             /\ offer[n].value.type = of
             /\ of = "String" => CharCount[offer[n].value.data] <= MaxChars
             /\ of = "Integer" => offer[n].value.data \in -MaxSafe..MaxSafe
             /\ of = "Number" => AsReal(offer[n].value.data) \in Exact
        /\ \A n, m \in DOMAIN offer : n # m =>
             /\ offer[n].name # offer[m].name
             /\ AsReal(offer[n].value.data) # AsReal(offer[m].value.data)
    BY <1>0, <1>m, <2>1, <2>2, InlineAccepted
  <2>5. LegalList(offer)
    BY <2>4, LegalOfOneType
  <2>. QED  BY <2>3, <2>4, <2>5
<1>3. CASE source = "autocomplete"
  <2>. DEFINE of == KnownOptionKind[type]
  <2>1. AutocompleteAccepts(of, declared) /\ offer = declared
    BY <1>0, <1>3 DEF Accepts, Offered
  <2>2. of \in ChoiceTypes /\ RegisteredKind = KIND[ScalarOf[of]]
    <3>1. of \in ChoiceTypes
      BY <1>0, <1>3 DEF Sourced, KnownOptionKind, ChoiceTypes
    <3>. QED  BY <1>0, <1>3, <3>1, TypeOfKind DEF RegisteredKind
  <2>. HIDE DEF of
  <2>3. \A n \in DOMAIN offer :
          /\ CharCount[offer[n].name] \in 1..MaxChars
          /\ offer[n].value.type = of
          /\ of = "String" => CharCount[offer[n].value.data] <= MaxChars
          /\ of = "Integer" => offer[n].value.data \in -MaxSafe..MaxSafe
          /\ of = "Number" => AsReal(offer[n].value.data) \in Exact
    <3>. SUFFICES ASSUME NEW n \in DOMAIN offer
                  PROVE  /\ CharCount[offer[n].name] \in 1..MaxChars
                         /\ offer[n].value.type = of
                         /\ of = "String" => CharCount[offer[n].value.data] <= MaxChars
                         /\ of = "Integer" => offer[n].value.data \in -MaxSafe..MaxSafe
                         /\ of = "Number" => AsReal(offer[n].value.data) \in Exact
      OBVIOUS
    <3>1. AutocompleteChoiceFits(of, offer[n])
      BY <2>1 DEF AutocompleteAccepts
    <3>2. CASE of = "String"
      BY <3>1, <3>2 DEF AutocompleteChoiceFits
    <3>3. CASE of = "Integer"
      BY <3>1, <3>3 DEF AutocompleteChoiceFits
    <3>4. CASE of = "Number"
      BY <3>1, <3>4 DEF AutocompleteChoiceFits, Exact
    <3>. QED  BY <2>2, <3>2, <3>3, <3>4 DEF ChoiceTypes
  <2>4. Len(offer) <= MaxChoices
    BY <2>1 DEF AutocompleteAccepts
  <2>5. LegalList(offer)
    BY <1>3, <2>2, <2>3, <2>4, LegalOfOneType
  <2>. QED  BY <2>2, <2>3, <2>5
<1>. QED
  BY <1>0, <1>1, <1>2, <1>3 DEF Sourced

-----------------------------------------------------------------------------
(* What is legal is offered.                                                 *)

\* A plain numeric literal within Discord's range is read, as itself.
LEMMA LegalNumberRead ==
  ASSUME NEW literal, IsLiteral(literal), literal.form \in {"Int", "Float"},
         AsReal(IntegerOf(literal)) \in Exact
  PROVE  /\ ParsesAsNumber(literal)
         /\ NumberOf(literal) \in Floats
         /\ AsReal(NumberOf(literal)) = AsReal(IntegerOf(literal))
         /\ AsReal(IntegerOf(literal)) = IntegerOf(literal)
<1>1. /\ IntegerOf(literal) \in Int /\ NumberOf(literal) \in Floats
      /\ AsReal(NumberOf(literal)) = Rounded(IntegerOf(literal))
  BY LiteralRead
<1>2. AsReal(IntegerOf(literal)) = IntegerOf(literal)
  BY <1>1, RealOfFloat DEF Floats
<1>3. Rounded(IntegerOf(literal)) = IntegerOf(literal)
  BY <1>1, <1>2, RoundedInt
<1>. QED
  BY <1>1, <1>2, <1>3 DEF ParsesAsNumber, Exact

LEMMA PlainVariant ==
  ASSUME source = "derive", Sourced, NEW v, IsVariant(v), Plain(v), LegalChoice(Intended(v)),
         NEW c, c = VariantChoice(v)
  PROVE  /\ ParsesAsVariant(v)
         /\ c.name = Intended(v).name
         /\ \/ /\ c.value.type \in Stringy /\ Intended(v).value.type = "String"
               /\ c.value.data = Intended(v).value.data
            \/ /\ c.value.type = "Integer" /\ Intended(v).value.type = "Integer"
               /\ c.value.data = Intended(v).value.data
               /\ c.value.data \in Int /\ Rounded(c.value.data) = c.value.data
            \/ /\ c.value.type = "Number" /\ Intended(v).value.type = "Number"
               /\ c.value.data \in Floats
               /\ AsReal(c.value.data) = AsReal(Intended(v).value.data)
<1>0. type = "enum"
  BY DEF Sourced
<1>1. /\ v.unit /\ v.attributes = 1 /\ Len(v.names) = 1 /\ Len(v.values) <= 1
      /\ v.values # <<>> => v.values[1].form \in {"Str", "Int", "Float"}
  BY DEF Plain, Forms
<1>2. ParsesAsArgs(v) /\ v.names # <<>>
  <2>1. Len(v.names) = 1 /\ Len(v.values) <= 1
    BY <1>1
  <2>2. v.names # <<>>
    <3>1. 1 \in DOMAIN v.names
      BY <2>1 DEF IsVariant, IsArgs, IsSequence
    <3>. QED  BY <3>1
  <2>3. Len(v.names) <= 1
    BY <2>1
  <2>. QED  BY <2>1, <2>2, <2>3 DEF ParsesAsArgs
<1>3. Intended(v) =
        [name |-> v.names[1],
         value |->
           IF v.values = <<>> THEN [type |-> "String", data |-> v.ident]
           ELSE IF v.values[1].form = "Str"
           THEN [type |-> "String", data |-> v.values[1].digits]
           ELSE [type |-> Forms[v.values[1].form], data |-> IntegerOf(v.values[1])]]
  BY <1>0 DEF Intended
<1>4. /\ c.name = v.names[1]
      /\ c.value = IF v.values = <<>> THEN [type |-> "Default", data |-> v.ident]
                   ELSE ParseValue(v.values[1])
  BY DEF VariantChoice
<1>5. Intended(v).name = v.names[1] /\ ValidateChoiceName(v.names[1])
  BY <1>3 DEF LegalChoice, ValidateChoiceName
<1>6. CASE v.values = <<>>
  <2>1. Intended(v).value = [type |-> "String", data |-> v.ident]
    BY <1>3, <1>6
  <2>2. StringFits(v.ident)
    BY <2>1 DEF LegalChoice, StringFits
  <2>. QED
    BY <1>1, <1>2, <1>4, <1>5, <1>6, <2>1, <2>2 DEF ParsesAsVariant, Stringy
<1>7. CASE v.values # <<>>
  <2>. DEFINE l == v.values[1]
  <2>1. IsLiteral(l)
    <3>1. 1 \in DOMAIN v.values
      BY <1>7 DEF IsVariant, IsArgs, IsSequence
    <3>. QED  BY <3>1 DEF IsVariant, IsArgs, Range
  <2>2. /\ Parses(l) => ParsesAsVariant(v)
        /\ c.value = ParseValue(l)
        /\ l.form \in {"Str", "Int", "Float"}
        /\ Intended(v).value = IF l.form = "Str" THEN [type |-> "String", data |-> l.digits]
                               ELSE [type |-> Forms[l.form], data |-> IntegerOf(l)]
    BY <1>1, <1>2, <1>3, <1>4, <1>5, <1>7 DEF ParsesAsVariant
  <2>. HIDE DEF l
  <2>3. CASE l.form = "Str"
    <3>1. /\ Intended(v).value = [type |-> "String", data |-> l.digits]
          /\ c.value = [type |-> "String", data |-> l.digits]
      BY <2>2, <2>3 DEF ParseValue
    <3>2. Parses(l)
      BY <2>3, <3>1 DEF LegalChoice, Parses, StringFits
    <3>. QED  BY <1>4, <1>5, <2>2, <3>1, <3>2 DEF Stringy
  <2>4. CASE l.form = "Int"
    <3>1. /\ Intended(v).value = [type |-> "Integer", data |-> IntegerOf(l)]
          /\ c.value = [type |-> "Integer", data |-> IntegerOf(l)]
      BY <2>2, <2>4 DEF ParseValue, Forms
    <3>2. ParsesAsInteger(l)
      BY <2>4, <3>1 DEF LegalChoice, ParsesAsInteger
    <3>3. Parses(l)
      BY <2>4, <3>2 DEF Parses
    <3>. QED  BY <1>4, <1>5, <2>1, <2>2, <3>1, <3>2, <3>3, IntegerRead
  <2>5. CASE l.form = "Float"
    <3>1. /\ Intended(v).value = [type |-> "Number", data |-> IntegerOf(l)]
          /\ c.value = [type |-> "Number", data |-> NumberOf(l)]
      BY <2>2, <2>5 DEF ParseValue, Forms
    <3>2. AsReal(IntegerOf(l)) \in Exact
      BY <3>1 DEF LegalChoice, Exact
    <3>3. /\ ParsesAsNumber(l) /\ NumberOf(l) \in Floats
          /\ AsReal(NumberOf(l)) = AsReal(IntegerOf(l))
      BY <2>1, <2>5, <3>2, LegalNumberRead
    <3>4. Parses(l)
      BY <2>5, <3>3 DEF Parses
    <3>. QED  BY <1>4, <1>5, <2>2, <3>1, <3>3, <3>4
  <2>. QED  BY <2>2, <2>3, <2>4, <2>5
<1>. QED
  BY <1>6, <1>7

\* The intended list says of each entry what Discord's limits say of it.
LEMMA IntendedList ==
  ASSUME ChoicesInv, LegalList([n \in DOMAIN declared |-> Intended(declared[n])])
  PROVE  /\ DOMAIN declared = 1..Len(declared) /\ Len(declared) \in Nat
         /\ Len(declared) <= MaxChoices
         /\ \A n \in DOMAIN declared : LegalChoice(Intended(declared[n]))
         /\ \A n, m \in DOMAIN declared :
              Intended(declared[n]).value.type = "String" =>
                Intended(declared[m]).value.type = "String"
         /\ source # "autocomplete" =>
              \A n, m \in DOMAIN declared : n # m =>
                /\ Intended(declared[n]).name # Intended(declared[m]).name
                /\ AsReal(Intended(declared[n]).value.data)
                     # AsReal(Intended(declared[m]).value.data)
<1>. DEFINE I == [n \in DOMAIN declared |-> Intended(declared[n])]
<1>1. DOMAIN declared = 1..Len(declared) /\ Len(declared) \in Nat
  BY DEF ChoicesInv, IsSequence
<1>2. DOMAIN I = 1..Len(declared) /\ \A n \in DOMAIN declared : I[n] = Intended(declared[n])
  BY <1>1
<1>3. Len(I) = Len(declared)
  BY <1>1
<1>. HIDE DEF I
<1>4. LegalList(I)
  BY DEF I
<1>5. \A n, m \in DOMAIN declared : I[n].value.type = "String" => I[m].value.type = "String"
  <2>1. \A n \in DOMAIN declared : I[n].value.type \in TypesOf(I)
    BY <1>1, <1>2 DEF TypesOf
  <2>. QED  BY <1>4, <2>1 DEF LegalList
<1>. QED
  BY <1>1, <1>2, <1>3, <1>4, <1>5 DEF LegalList

LEMMA PlainEnumAccepted ==
  ASSUME ChoicesInv, source = "derive", declared # <<>>,
         \A n \in DOMAIN declared : Plain(declared[n]),
         LegalList([n \in DOMAIN declared |-> Intended(declared[n])])
  PROVE  DeriveAccepts(declared)
<1>. DEFINE c == VariantChoices(declared)
            of == InferType(c)
            i(n) == Intended(declared[n])
<1>1. DOMAIN c = DOMAIN declared /\ \A n \in DOMAIN declared : c[n] = VariantChoice(declared[n])
  BY DEF VariantChoices
<1>2. /\ DOMAIN declared = 1..Len(declared) /\ Len(declared) \in Nat
      /\ Len(declared) <= MaxChoices
      /\ \A n \in DOMAIN declared : LegalChoice(i(n))
      /\ \A n, m \in DOMAIN declared : i(n).value.type = "String" => i(m).value.type = "String"
      /\ \A n, m \in DOMAIN declared : n # m =>
           i(n).name # i(m).name /\ AsReal(i(n).value.data) # AsReal(i(m).value.data)
  BY IntendedList
<1>3. Sourced /\ \A n \in DOMAIN declared : IsVariant(declared[n])
  BY DEF ChoicesInv, IsEntry
<1>4. \A n \in DOMAIN declared :
        /\ ParsesAsVariant(declared[n])
        /\ c[n].name = i(n).name
        /\ \/ /\ c[n].value.type \in Stringy /\ i(n).value.type = "String"
              /\ c[n].value.data = i(n).value.data
           \/ /\ c[n].value.type = "Integer" /\ i(n).value.type = "Integer"
              /\ c[n].value.data = i(n).value.data
              /\ c[n].value.data \in Int /\ Rounded(c[n].value.data) = c[n].value.data
           \/ /\ c[n].value.type = "Number" /\ i(n).value.type = "Number"
              /\ c[n].value.data \in Floats
              /\ AsReal(c[n].value.data) = AsReal(i(n).value.data)
  BY <1>1, <1>2, <1>3, PlainVariant
<1>. HIDE DEF c, i, of
<1>5. ParsesAsVariants(declared)
  <2>1. Len(declared) # 0
    BY DEF ChoicesInv, IsSequence
  <2>. QED  BY <1>2, <1>4, <2>1 DEF ParsesAsVariants
<1>6. \A t \in TypesOf(c) : \E n \in DOMAIN declared : c[n].value.type = t
  BY <1>1 DEF TypesOf
<1>7. TypesAgree(c)
  <2>1. ASSUME NEW t \in TypesOf(c) \cap Stringy, NEW u \in TypesOf(c) \cap {"Integer", "Number"}
        PROVE FALSE
    <3>1. PICK n \in DOMAIN declared : c[n].value.type = t
      BY <1>6, <2>1
    <3>2. PICK m \in DOMAIN declared : c[m].value.type = u
      BY <1>6, <2>1
    <3>3. i(n).value.type = "String" /\ i(m).value.type # "String"
      BY <1>4, <2>1, <3>1, <3>2 DEF Stringy
    <3>. QED  BY <1>2, <3>3
  <2>. QED  BY <2>1 DEF TypesAgree
<1>8. \A n \in DOMAIN declared : of = "Number" => c[n].value.type \in {"Integer", "Number"}
  <2>1. of = "Number" => TypesOf(c) \cap Stringy = {}
    BY DEF of, InferType
  <2>2. \A n \in DOMAIN declared : c[n].value.type \in TypesOf(c)
    BY <1>1 DEF TypesOf
  <2>. QED  BY <1>4, <2>1, <2>2
<1>9. ASSUME NEW n \in DOMAIN declared, NEW m \in DOMAIN declared, n # m
      PROVE  c[n].name # c[m].name /\ ValueKey(of, c[n].value) # ValueKey(of, c[m].value)
  <2>1. c[n].name # c[m].name
    BY <1>2, <1>4, <1>9
  <2>2. CASE of = "Number"
    <3>1. \A k \in DOMAIN declared :
            /\ DataAs(of, c[k].value) \in Floats
            /\ AsReal(DataAs(of, c[k].value)) = AsReal(i(k).value.data)
      <4>. SUFFICES ASSUME NEW k \in DOMAIN declared
                    PROVE  /\ DataAs(of, c[k].value) \in Floats
                           /\ AsReal(DataAs(of, c[k].value)) = AsReal(i(k).value.data)
        OBVIOUS
      <4>1. CASE c[k].value.type = "Integer"
        <5>1. /\ c[k].value.data = i(k).value.data /\ c[k].value.data \in Int
              /\ Rounded(c[k].value.data) = c[k].value.data
          BY <1>4, <4>1 DEF Stringy
        <5>. QED  BY <2>2, <4>1, <5>1 DEF DataAs, Floats
      <4>2. CASE c[k].value.type = "Number"
        <5>1. c[k].value.data \in Floats /\ AsReal(c[k].value.data) = AsReal(i(k).value.data)
          BY <1>4, <4>2 DEF Stringy
        <5>. QED  BY <4>2, <5>1 DEF DataAs
      <4>. QED  BY <1>8, <2>2, <4>1, <4>2
    <3>2. AsReal(DataAs(of, c[n].value)) # AsReal(DataAs(of, c[m].value))
      BY <1>2, <1>9, <3>1
    <3>. QED  BY <2>1, <2>2, <3>1, <3>2, KeysTellNumbers DEF ValueKey
  <2>3. CASE of # "Number"
    <3>1. \A k \in DOMAIN declared : c[k].value.type # "Number"
      <4>1. ASSUME NEW k \in DOMAIN declared, c[k].value.type = "Number" PROVE FALSE
        <5>1. "Number" \in TypesOf(c)
          BY <1>1, <4>1 DEF TypesOf
        <5>2. TypesOf(c) \cap Stringy = {}
          BY <1>7, <5>1 DEF TypesAgree
        <5>. QED  BY <2>3, <5>1, <5>2 DEF of, InferType
      <4>. QED  BY <4>1
    <3>2. c[n].value.data # c[m].value.data
      <4>1. c[n].value.data = i(n).value.data /\ c[m].value.data = i(m).value.data
        BY <1>4, <3>1
      <4>. QED  BY <1>2, <1>9, <4>1
    <3>. QED  BY <2>1, <2>3, <3>2 DEF ValueKey
  <2>. QED  BY <2>2, <2>3
<1>10. NoDuplicates(c, of)
  BY <1>1, <1>9 DEF NoDuplicates, IsInjective
<1>. QED
  BY <1>5, <1>7, <1>10 DEF DeriveAccepts, c, of

LEMMA PlainInlineAccepted ==
  ASSUME ChoicesInv, source = "inline",
         \A n \in DOMAIN declared : Plain(declared[n]),
         LegalList([n \in DOMAIN declared |-> Intended(declared[n])])
  PROVE  InlineAccepts(KnownOptionKind[type], declared)
<1>. DEFINE of == KnownOptionKind[type]
            i(n) == Intended(declared[n])
            l(n) == declared[n].values[1]
<1>1. /\ DOMAIN declared = 1..Len(declared) /\ Len(declared) \in Nat
      /\ Len(declared) <= MaxChoices
      /\ \A n \in DOMAIN declared : LegalChoice(i(n))
      /\ \A n, m \in DOMAIN declared : n # m =>
           i(n).name # i(m).name /\ AsReal(i(n).value.data) # AsReal(i(m).value.data)
  BY IntendedList
<1>2. ASSUME NEW n \in DOMAIN declared
      PROVE  /\ of \in ChoiceTypes
             /\ ParsesAsArgs(declared[n])
             /\ declared[n].names # <<>> /\ ValidateChoiceName(declared[n].names[1])
             /\ declared[n].values # <<>> /\ ParsesAs(of, l(n))
             /\ i(n).name = declared[n].names[1]
             /\ of # "Number" => InlineData(of, l(n)) = i(n).value.data
             /\ of = "Number" => AsReal(InlineData(of, l(n))) = AsReal(i(n).value.data)
  <2>. DEFINE v == declared[n]
              x == v.values[1]
  <2>1. Plain(v) /\ IsArgs(v) /\ LegalChoice(i(n))
    BY <1>1 DEF ChoicesInv, IsEntry
  <2>2. /\ Len(v.names) = 1 /\ Len(v.values) = 1
        /\ \/ type = "String" /\ x.form = "Str" /\ ~x.negative
           \/ type = "i64" /\ x.form = "Int"
           \/ type = "f64" /\ x.form \in {"Int", "Float"}
    BY <2>1 DEF Plain
  <2>3. ParsesAsArgs(v) /\ v.names # <<>> /\ v.values # <<>>
    <3>1. Len(v.names) <= 1 /\ Len(v.values) <= 1 /\ Len(<<>>) = 0
      BY <2>2
    <3>. QED  BY <2>2, <3>1 DEF ParsesAsArgs
  <2>4. IsLiteral(x)
    <3>1. 1 \in DOMAIN v.values
      BY <2>1, <2>3 DEF IsArgs, IsSequence
    <3>. QED  BY <2>1, <3>1 DEF IsArgs, Range
  <2>5. i(n) = [name |-> v.names[1],
                value |->
                  IF x.form = "Str" THEN [type |-> "String", data |-> x.digits]
                  ELSE [type |-> IF type = "f64" THEN "Number" ELSE Forms[x.form],
                        data |-> IntegerOf(x)]]
    BY <2>3 DEF Intended
  <2>6. i(n).name = v.names[1] /\ ValidateChoiceName(v.names[1])
    BY <2>1, <2>5 DEF LegalChoice, ValidateChoiceName
  <2>. HIDE DEF x, i, of
  <2>7. CASE type = "String" /\ x.form = "Str" /\ ~x.negative
    <3>1. i(n).value = [type |-> "String", data |-> x.digits] /\ of = "String"
      BY <2>5, <2>7 DEF of, KnownOptionKind
    <3>2. StringFits(x.digits)
      BY <2>1, <3>1 DEF LegalChoice, StringFits
    <3>3. ParsesAs(of, x) /\ InlineData(of, x) = x.digits
      BY <2>7, <3>1, <3>2 DEF ParsesAs, InlineData
    <3>. QED  BY <2>3, <2>6, <3>1, <3>3 DEF x, ChoiceTypes
  <2>8. CASE type = "i64" /\ x.form = "Int"
    <3>1. i(n).value = [type |-> "Integer", data |-> IntegerOf(x)] /\ of = "Integer"
      BY <2>5, <2>8 DEF of, KnownOptionKind, Forms
    <3>2. ParsesAsInteger(x)
      BY <2>1, <2>8, <3>1 DEF LegalChoice, ParsesAsInteger
    <3>3. ParsesAs(of, x) /\ InlineData(of, x) = IntegerOf(x)
      BY <3>1, <3>2 DEF ParsesAs, InlineData
    <3>. QED  BY <2>3, <2>6, <3>1, <3>3 DEF x, ChoiceTypes
  <2>9. CASE type = "f64" /\ x.form \in {"Int", "Float"}
    <3>1. i(n).value = [type |-> "Number", data |-> IntegerOf(x)] /\ of = "Number"
      BY <2>5, <2>9 DEF of, KnownOptionKind
    <3>2. AsReal(IntegerOf(x)) \in Exact
      BY <2>1, <3>1 DEF LegalChoice, Exact
    <3>3. ParsesAsNumber(x) /\ AsReal(NumberOf(x)) = AsReal(IntegerOf(x))
      BY <2>4, <2>9, <3>2, LegalNumberRead
    <3>4. ParsesAs(of, x) /\ InlineData(of, x) = NumberOf(x)
      BY <3>1, <3>3 DEF ParsesAs, InlineData
    <3>. QED  BY <2>3, <2>6, <3>1, <3>3, <3>4 DEF x, ChoiceTypes
  <2>. QED  BY <2>2, <2>7, <2>8, <2>9
<1>. HIDE DEF of, i
<1>3. ASSUME NEW n \in DOMAIN declared, NEW m \in 1..(n - 1)
      PROVE  /\ declared[m].names[1] # declared[n].names[1]
             /\ ~SameChoiceValue(of, InlineData(of, l(m)), InlineData(of, l(n)))
  <2>1. m \in DOMAIN declared /\ n # m
    BY <1>1
  <2>. HIDE DEF l
  <2>2. i(n).name # i(m).name /\ AsReal(i(n).value.data) # AsReal(i(m).value.data)
    BY <1>1, <2>1
  <2>3. CASE of = "Number"
    BY <1>2, <2>1, <2>2, <2>3 DEF SameChoiceValue, SameNumber
  <2>4. CASE of # "Number"
    BY <1>2, <2>1, <2>2, <2>4 DEF SameChoiceValue
  <2>. QED  BY <2>3, <2>4
<1>4. declared = <<>> \/ of \in ChoiceTypes
  <2>1. ASSUME declared # <<>> PROVE of \in ChoiceTypes
    <3>1. Len(declared) # 0
      BY <2>1 DEF ChoicesInv, IsSequence
    <3>2. 1 \in DOMAIN declared
      BY <1>1, <3>1
    <3>. QED  BY <1>2, <3>2
  <2>. QED  BY <2>1
<1>5. InlineAccepts(of, declared)
  BY <1>1, <1>2, <1>3, <1>4 DEF InlineAccepts
<1>. QED
  BY <1>5 DEF of

LEMMA PlainAnswerAccepted ==
  ASSUME ChoicesInv, source = "autocomplete",
         \A n \in DOMAIN declared : Plain(declared[n]),
         LegalList([n \in DOMAIN declared |-> Intended(declared[n])])
  PROVE  AutocompleteAccepts(KnownOptionKind[type], declared)
<1>. DEFINE of == KnownOptionKind[type]
<1>1. Len(declared) <= MaxChoices /\ \A n \in DOMAIN declared : LegalChoice(declared[n])
  <2>1. \A n \in DOMAIN declared : Intended(declared[n]) = declared[n]
    BY DEF Intended
  <2>. QED  BY <2>1, IntendedList
<1>2. of \in ChoiceTypes
  BY DEF ChoicesInv, Sourced, KnownOptionKind, ChoiceTypes
<1>3. ASSUME NEW n \in DOMAIN declared PROVE AutocompleteChoiceFits(of, declared[n])
  <2>1. declared[n].value.type = of /\ declared[n].value.data # NotFinite
    BY DEF Plain
  <2>2. LegalChoice(declared[n])
    BY <1>1
  <2>. HIDE DEF of
  <2>3. CASE of = "String"
    BY <2>1, <2>2, <2>3 DEF LegalChoice, AutocompleteChoiceFits
  <2>4. CASE of = "Integer"
    BY <2>1, <2>2, <2>4 DEF LegalChoice, AutocompleteChoiceFits
  <2>5. CASE of = "Number"
    BY <2>1, <2>2, <2>5 DEF LegalChoice, AutocompleteChoiceFits
  <2>. QED  BY <1>2, <2>3, <2>4, <2>5 DEF ChoiceTypes
<1>. QED
  BY <1>1, <1>3 DEF AutocompleteAccepts

\* Nothing Discord would refuse or confuse is offered, and a plain declaration or
\* answer is rejected only for one of Discord's limits, for lists of any length and
\* for any limits.
THEOREM LegalIsOffered == Spec => []OfferedExactlyWhenLegal
<1>1. ChoicesInv => OfferedExactlyWhenLegal
  <2>. SUFFICES ASSUME ChoicesInv PROVE OfferedExactlyWhenLegal
    OBVIOUS
  <2>1. ASSUME stage = "rejected", \A n \in DOMAIN declared : Plain(declared[n]),
               ~(source = "derive" /\ declared = <<>>),
               LegalList([n \in DOMAIN declared |-> Intended(declared[n])])
        PROVE  FALSE
    <3>1. ~Accepts /\ Sourced
      BY <2>1 DEF ChoicesInv
    <3>2. CASE source = "derive"
      BY <2>1, <3>1, <3>2, PlainEnumAccepted DEF Accepts
    <3>3. CASE source = "inline"
      BY <2>1, <3>1, <3>3, PlainInlineAccepted DEF Accepts
    <3>4. CASE source = "autocomplete"
      BY <2>1, <3>1, <3>4, PlainAnswerAccepted DEF Accepts
    <3>. QED  BY <3>1, <3>2, <3>3, <3>4 DEF Sourced
  <2>. QED  BY <2>1, OfferIsLegal DEF OfferedExactlyWhenLegal
<1>. QED
  BY <1>1, ChoicesInvariant, PTL
=============================================================================
