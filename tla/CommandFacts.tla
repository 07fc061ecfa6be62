---------------------------- MODULE CommandFacts ----------------------------
(* Facts about lists, options, choices and command trees: what the proofs about   *)
(* Routing, Choices and CommandMacro share.                                     *)
EXTENDS ChoiceLists, CommandTree, FiniteSetTheorems, SequenceTheorems, TLAPS

-----------------------------------------------------------------------------
(* Lists.                                                                    *)

\* The well-foundedness of strict inclusion stands in for an induction.
LEMMA LeastExists ==
  ASSUME NEW S, S \subseteq Nat, S # {}, IsFiniteSet(S)
  PROVE  /\ Min(S) \in S
         /\ \A n \in S : Min(S) <= n
<1>. DEFINE Under(n) == {m \in S : m < n}
            T == {Under(n) : n \in S}
<1>1. IsWellFoundedOn(StrictSubsetOrdering(S), SUBSET S)
  <2>1. FiniteSubsetsOf(S) = SUBSET S
    BY FS_FiniteSubsetsOfFinite
  <2>2. IsWellFoundedOn(StrictSubsetOrdering(S), FiniteSubsetsOf(S))
    BY FS_StrictSubsetOrderingWellFounded
  <2>. QED  BY <2>1, <2>2
<1>2. T \subseteq SUBSET S /\ T # {}
  OBVIOUS
<1>3. PICK X \in T : \A Y \in T : <<Y, X>> \notin StrictSubsetOrdering(S)
  <2>. HIDE DEF T
  <2>. QED  BY <1>1, <1>2, WFMin
<1>4. PICK n \in S : X = Under(n)
  BY <1>3
<1>5. ASSUME NEW m \in S, m < n PROVE FALSE
  <2>0. m \in Nat /\ n \in Nat
    OBVIOUS
  <2>1. Under(m) \subseteq Under(n)
    <3>. SUFFICES ASSUME NEW k \in S, k < m PROVE k < n
      OBVIOUS
    <3>. QED  BY <2>0, <1>5
  <2>2. m \in Under(n) /\ m \notin Under(m)
    BY <2>0, <1>5
  <2>3. <<Under(m), X>> \in StrictSubsetOrdering(S)
    BY <2>1, <2>2, <1>4 DEF StrictSubsetOrdering
  <2>. QED  BY <2>3, <1>3
<1>6. \A m \in S : n <= m
  BY <1>5
<1>. QED
  BY <1>6 DEF Min

LEMMA LeastOfList ==
  ASSUME NEW s, s \in Seq(Range(s)), NEW S, S \subseteq DOMAIN s, S # {}
  PROVE  Min(S) \in S
<1>1. DOMAIN s = 1..Len(s) /\ Len(s) \in Nat
  OBVIOUS
<1>2. S \subseteq Nat
  BY <1>1
<1>3. IsFiniteSet(S)
  <2>1. IsFiniteSet(1..Len(s))
    BY <1>1, FS_Interval
  <2>. QED  BY <1>1, <2>1, FS_Subset
<1>. QED
  BY <1>2, <1>3, LeastExists

-----------------------------------------------------------------------------
(* Numbers.                                                                  *)

Exact == -(MaxSafe + 1)..(MaxSafe + 1)
Floats == Int \cup {NegativeZero}

LEMMA RoundedInt ==
  ASSUME NEW n \in Int
  PROVE  /\ Rounded(n) \in Int
         /\ n \in Exact => Rounded(n) = n
<1>1. CASE n \in Exact
  BY <1>1 DEF Rounded, Exact
<1>2. CASE n \notin Exact /\ n % 4 = 1
  <2>1. Rounded(n) = n - 1
    BY <1>2 DEF Rounded, Exact
  <2>. QED  BY <1>2, <2>1
<1>3. CASE n \notin Exact /\ n % 4 = 3
  <2>1. Rounded(n) = n + 1
    BY <1>3 DEF Rounded, Exact
  <2>. QED  BY <1>3, <2>1
<1>4. CASE n \notin Exact /\ n % 4 # 1 /\ n % 4 # 3
  <2>1. Rounded(n) = n
    BY <1>4 DEF Rounded, Exact
  <2>. QED  BY <1>4, <2>1
<1>. QED
  BY <1>1, <1>2, <1>3, <1>4

\* Ties go to even on both sides of zero.
LEMMA RoundedIsOdd ==
  ASSUME NEW n \in Nat
  PROVE  Rounded(-n) = -Rounded(n)
<1>0. MaxSafe \in Nat /\ (n \in Exact <=> -n \in Exact)
  BY OptionsAssumption DEF Exact
<1>1. CASE n \in Exact
  BY <1>0, <1>1, RoundedInt
<1>2. CASE n \notin Exact /\ n % 4 = 1
  <2>1. (-n) % 4 = 3
    BY <1>2
  <2>2. Rounded(n) = n - 1 /\ Rounded(-n) = (-n) + 1
    BY <1>0, <1>2, <2>1 DEF Rounded, Exact
  <2>. QED  BY <2>2
<1>3. CASE n \notin Exact /\ n % 4 = 3
  <2>1. (-n) % 4 = 1
    BY <1>3
  <2>2. Rounded(n) = n + 1 /\ Rounded(-n) = (-n) - 1
    BY <1>0, <1>3, <2>1 DEF Rounded, Exact
  <2>. QED  BY <2>2
<1>4. CASE n \notin Exact /\ n % 4 # 1 /\ n % 4 # 3
  <2>1. (-n) % 4 # 1 /\ (-n) % 4 # 3
    BY <1>4
  <2>2. Rounded(n) = n /\ Rounded(-n) = -n
    BY <1>0, <1>4, <2>1 DEF Rounded, Exact
  <2>. QED  BY <2>2
<1>. QED
  BY <1>1, <1>2, <1>3, <1>4

LEMMA RealOfFloat ==
  ASSUME NEW x \in Floats
  PROVE  AsReal(x) \in Int /\ (x \in Int => AsReal(x) = x)
BY OptionsAssumption DEF AsReal, Floats

\* What a numeric literal says is what it is read as.
LEMMA LiteralRead ==
  ASSUME NEW literal, IsLiteral(literal), literal.form \in {"Int", "Float"}
  PROVE  /\ IntegerOf(literal) \in Int
         /\ NumberOf(literal) \in Floats
         /\ AsReal(NumberOf(literal)) = Rounded(IntegerOf(literal))
<1>. DEFINE d == literal.digits
<1>0. d \in Nat /\ literal.negative \in BOOLEAN /\ Rounded(d) \in Int
  BY RoundedInt DEF IsLiteral
<1>1. CASE ~literal.negative
  BY <1>0, <1>1, RealOfFloat DEF IntegerOf, NumberOf, Floats
<1>2. CASE literal.negative /\ d # 0
  <2>1. Rounded(-d) = -Rounded(d)
    BY <1>0, RoundedIsOdd
  <2>2. NumberOf(literal) = -Rounded(d) /\ -Rounded(d) \in Int /\ IntegerOf(literal) = -d
    BY <1>0, <1>2 DEF NumberOf, IntegerOf
  <2>. QED  BY <1>0, <2>1, <2>2, RealOfFloat DEF Floats
<1>3. CASE literal.negative /\ d = 0
  <2>1. IntegerOf(literal) = 0 /\ NumberOf(literal) = NegativeZero
    <3>1. IntegerOf(literal) = -d /\ NumberOf(literal) = NegativeZero
      BY <1>3 DEF IntegerOf, NumberOf
    <3>2. \A k \in Int : k <= 0 /\ k >= 0 => -k <= 0 /\ -k >= 0
      OBVIOUS
    <3>3. d <= 0 /\ d >= 0
      BY <1>3
    <3>. HIDE DEF d
    <3>4. -d \in Int /\ -d <= 0 /\ -d >= 0
      BY <1>0, <3>2, <3>3
    <3>. QED  BY <3>1, <3>4
  <2>2. Rounded(0) = 0
    BY RoundedInt, OptionsAssumption DEF Exact
  <2>. QED  BY <2>1, <2>2 DEF AsReal, Floats
<1>. QED
  BY <1>0, <1>1, <1>2, <1>3

LEMMA IntegerRead ==
  ASSUME NEW literal, IsLiteral(literal), ParsesAsInteger(literal)
  PROVE  /\ IntegerOf(literal) \in -MaxSafe..MaxSafe
         /\ IntegerOf(literal) \in Int
         /\ Rounded(IntegerOf(literal)) = IntegerOf(literal)
         /\ AsReal(IntegerOf(literal)) = IntegerOf(literal)
<1>1. IntegerOf(literal) \in -MaxSafe..MaxSafe /\ IntegerOf(literal) \in Int
  BY LiteralRead DEF ParsesAsInteger
<1>2. IntegerOf(literal) \in Exact
  BY <1>1, OptionsAssumption DEF Exact
<1>. QED
  BY <1>1, <1>2, RoundedInt, RealOfFloat DEF Floats

-----------------------------------------------------------------------------
(* Declarations.                                                             *)

\* A variant the macro parses, with the choice it makes of it.
LEMMA VariantParsed ==
  ASSUME NEW v, IsVariant(v), ParsesAsVariant(v), NEW c, c = VariantChoice(v)
  PROVE  /\ c.variant = v.ident /\ c.name = v.names[1]
         /\ CharCount[c.name] \in 1..MaxChars
         /\ c.value.type \in Stringy \cup {"Integer", "Number"}
         /\ \A x : Denotes(v, x) => AsReal(x) = AsReal(c.value.data)
         /\ c.value.type \in Stringy =>
              /\ c.value.data \in Texts /\ CharCount[c.value.data] <= MaxChars
              /\ Denotes(v, c.value.data)
         /\ c.value.type = "Integer" =>
              /\ c.value.data \in -MaxSafe..MaxSafe
              /\ Rounded(c.value.data) = c.value.data
              /\ \A x : AsReal(x) = c.value.data => Denotes(v, x)
         /\ c.value.type = "Number" =>
              /\ c.value.data \in Floats /\ AsReal(c.value.data) \in Exact
              /\ \A x : AsReal(x) = AsReal(c.value.data) => Denotes(v, x)
<1>1. /\ c.variant = v.ident /\ c.name = v.names[1]
      /\ CharCount[c.name] \in 1..MaxChars
  BY DEF VariantChoice, ParsesAsVariant, ValidateChoiceName
<1>2. CASE v.values = <<>>
  <2>1. c.value = [type |-> "Default", data |-> v.ident]
    BY <1>2 DEF VariantChoice
  <2>2. v.ident \in Texts /\ CharCount[v.ident] <= MaxChars
    BY <1>2 DEF IsVariant, ParsesAsVariant, StringFits
  <2>. QED
    BY <1>1, <1>2, <2>1, <2>2 DEF Stringy, Denotes
<1>3. CASE v.values # <<>>
  <2>. DEFINE l == v.values[1]
  <2>1. IsLiteral(l)
    <3>1. 1 \in DOMAIN v.values
      BY <1>3 DEF IsVariant, IsArgs, IsSequence
    <3>. QED  BY <3>1 DEF IsVariant, IsArgs, Range
  <2>2. Parses(l) /\ c.value = ParseValue(l)
    BY <1>3 DEF ParsesAsVariant, VariantChoice
  <2>. HIDE DEF l
  <2>d. \A x : Denotes(v, x) <=> IF l.form = "Str" THEN x = l.digits
                                  ELSE AsReal(x) = Rounded(IntegerOf(l))
    BY <1>3 DEF Denotes, l
  <2>3. CASE l.form = "Str"
    <3>1. c.value = [type |-> "String", data |-> l.digits]
      BY <2>2, <2>3 DEF ParseValue
    <3>2. l.digits \in Texts /\ CharCount[l.digits] <= MaxChars
      BY <2>1, <2>2, <2>3 DEF IsLiteral, Parses, StringFits
    <3>. QED  BY <1>1, <2>d, <2>3, <3>1, <3>2 DEF Stringy
  <2>4. CASE l.form = "Int"
    <3>1. c.value = [type |-> "Integer", data |-> IntegerOf(l)]
      BY <2>2, <2>4 DEF ParseValue
    <3>2. ParsesAsInteger(l)
      BY <2>2, <2>4 DEF Parses
    <3>. QED  BY <1>1, <2>1, <2>d, <2>4, <3>1, <3>2, IntegerRead DEF Stringy
  <2>5. CASE l.form = "Float"
    <3>1. c.value = [type |-> "Number", data |-> NumberOf(l)]
      BY <2>2, <2>5 DEF ParseValue
    <3>2. AsReal(NumberOf(l)) \in Exact
      BY <2>2, <2>5 DEF Parses, ParsesAsNumber, Exact
    <3>. QED  BY <1>1, <2>1, <2>d, <2>5, <3>1, <3>2, LiteralRead DEF Stringy
  <2>. QED
    BY <2>2, <2>3, <2>4, <2>5 DEF Parses
<1>. QED
  BY <1>2, <1>3

\* Two floats have one key exactly if they are equal.
LEMMA KeysTellNumbers ==
  ASSUME NEW x \in Floats, NEW y \in Floats
  PROVE  NumberKey(x) = NumberKey(y) <=> AsReal(x) = AsReal(y)
BY OptionsAssumption DEF NumberKey, SameNumber, AsReal, Floats

\* What an accepted enum offers: values of one type within its limits, no two alike,
\* and each what its variant says.
LEMMA EnumAccepted ==
  ASSUME NEW s, IsSequence(s), \A n \in DOMAIN s : IsVariant(s[n]), DeriveAccepts(s),
         NEW of, of = EnumType(s), NEW offered, offered = DerivedChoices(s)
  PROVE  /\ of \in ChoiceTypes
         /\ DOMAIN offered = DOMAIN s /\ Len(offered) = Len(s) /\ Len(s) \in 1..MaxChoices
         /\ \A n \in DOMAIN s :
              /\ offered[n].name = s[n].names[1]
              /\ CharCount[offered[n].name] \in 1..MaxChars
              /\ offered[n].value.type = of
              /\ offered[n].value.data = DataAs(of, VariantChoice(s[n]).value)
              /\ of = "String" =>
                   /\ offered[n].value.data \in Texts
                   /\ CharCount[offered[n].value.data] <= MaxChars
              /\ of = "Integer" => offered[n].value.data \in -MaxSafe..MaxSafe
              /\ of = "Number" =>
                   offered[n].value.data \in Floats /\ AsReal(offered[n].value.data) \in Exact
              /\ \A x : (IF of = "Number" THEN SameNumber(offered[n].value.data, x)
                         ELSE offered[n].value.data = x) => Denotes(s[n], x)
              /\ \A x : Denotes(s[n], x) => AsReal(x) = AsReal(offered[n].value.data)
         /\ \A n, m \in DOMAIN s : n # m =>
              /\ offered[n].name # offered[m].name
              /\ AsReal(offered[n].value.data) # AsReal(offered[m].value.data)
<1>. DEFINE c == VariantChoices(s)
<1>1. /\ Len(s) \in 1..MaxChoices
      /\ \A n \in DOMAIN s : ParsesAsVariant(s[n])
      /\ TypesAgree(c) /\ NoDuplicates(c, of)
  BY DEF DeriveAccepts, ParsesAsVariants, EnumType
<1>2. DOMAIN c = DOMAIN s /\ \A n \in DOMAIN s : c[n] = VariantChoice(s[n])
  BY DEF VariantChoices
<1>3. of = InferType(c)
  BY DEF EnumType
<1>4. /\ offered = [n \in DOMAIN s |-> [name |-> c[n].name,
                      value |-> [type |-> of, data |-> DataAs(of, c[n].value)]]]
      /\ DOMAIN offered = DOMAIN s
  BY <1>2 DEF DerivedChoices
<1>5. Len(offered) = Len(s)
  BY <1>4 DEF IsSequence
<1>. HIDE DEF c
<1>6. \A n \in DOMAIN s : c[n].value.type \in TypesOf(c)
  BY <1>2 DEF TypesOf
<1>7. \A n \in DOMAIN s : c[n].value.type \in Stringy \cup {"Integer", "Number"}
  BY <1>1, <1>2, VariantParsed
<1>8. /\ of \in ChoiceTypes
      /\ \A n \in DOMAIN s :
           /\ of = "String" => c[n].value.type \in Stringy
           /\ of = "Integer" => c[n].value.type = "Integer"
           /\ of = "Number" => c[n].value.type \in {"Integer", "Number"}
  <2>1. CASE TypesOf(c) \cap Stringy # {}
    <3>1. of = "String" /\ TypesOf(c) \cap {"Integer", "Number"} = {}
      BY <1>1, <1>3, <2>1 DEF InferType, TypesAgree
    <3>. QED  BY <1>6, <1>7, <3>1 DEF ChoiceTypes
  <2>2. CASE TypesOf(c) \cap Stringy = {} /\ "Number" \in TypesOf(c)
    <3>1. of = "Number"
      BY <1>3, <2>2 DEF InferType
    <3>. QED  BY <1>6, <1>7, <2>2, <3>1 DEF ChoiceTypes
  <2>3. CASE TypesOf(c) \cap Stringy = {} /\ "Number" \notin TypesOf(c)
    <3>1. of = "Integer"
      BY <1>3, <2>3 DEF InferType
    <3>. QED  BY <1>6, <1>7, <2>3, <3>1 DEF ChoiceTypes
  <2>. QED  BY <2>1, <2>2, <2>3
<1>9. ASSUME NEW n \in DOMAIN s
      PROVE  /\ offered[n].name = s[n].names[1]
             /\ CharCount[offered[n].name] \in 1..MaxChars
             /\ offered[n].value.type = of
             /\ offered[n].value.data = DataAs(of, VariantChoice(s[n]).value)
             /\ of = "String" =>
                  /\ offered[n].value.data \in Texts
                  /\ CharCount[offered[n].value.data] <= MaxChars
             /\ of = "Integer" => offered[n].value.data \in -MaxSafe..MaxSafe
             /\ of = "Number" =>
                  offered[n].value.data \in Floats /\ AsReal(offered[n].value.data) \in Exact
             /\ \A x : (IF of = "Number" THEN SameNumber(offered[n].value.data, x)
                        ELSE offered[n].value.data = x) => Denotes(s[n], x)
             /\ \A x : Denotes(s[n], x) => AsReal(x) = AsReal(offered[n].value.data)
  <2>. DEFINE v == c[n].value
              x0 == offered[n].value.data
  <2>1. /\ offered[n].name = c[n].name /\ offered[n].value.type = of
        /\ x0 = DataAs(of, v)
    BY <1>4
  <2>2. /\ c[n].name = s[n].names[1] /\ CharCount[c[n].name] \in 1..MaxChars
        /\ \A x : Denotes(s[n], x) => AsReal(x) = AsReal(v.data)
        /\ v.type \in Stringy =>
              /\ v.data \in Texts /\ CharCount[v.data] <= MaxChars
              /\ Denotes(s[n], v.data)
        /\ v.type = "Integer" =>
              /\ v.data \in -MaxSafe..MaxSafe
              /\ Rounded(v.data) = v.data
              /\ \A x : AsReal(x) = v.data => Denotes(s[n], x)
        /\ v.type = "Number" =>
              /\ v.data \in Floats /\ AsReal(v.data) \in Exact
              /\ \A x : AsReal(x) = AsReal(v.data) => Denotes(s[n], x)
    BY <1>1, <1>2, VariantParsed
  <2>3. /\ v = VariantChoice(s[n]).value
        /\ x0 = v.data
    BY <1>2, <2>1, <2>2 DEF DataAs
  <2>. HIDE DEF v, x0
  <2>4. MaxSafe \in Nat /\ -MaxSafe..MaxSafe \subseteq Exact /\ Exact \subseteq Int
    BY OptionsAssumption DEF Exact
  <2>5. of = "String" =>
          /\ x0 \in Texts /\ CharCount[x0] <= MaxChars
          /\ \A x : x0 = x => Denotes(s[n], x)
    BY <1>8, <2>2, <2>3 DEF v
  <2>6. of = "Integer" =>
          x0 \in -MaxSafe..MaxSafe /\ \A x : x0 = x => Denotes(s[n], x)
    <3>1. ASSUME v.type = "Integer" PROVE AsReal(v.data) = v.data
      BY <2>2, <2>4, <3>1, RealOfFloat DEF Floats
    <3>. QED  BY <1>8, <2>2, <2>3, <3>1 DEF v
  <2>7. of = "Number" =>
          x0 \in Floats /\ AsReal(x0) \in Exact /\ \A x : SameNumber(x0, x) => Denotes(s[n], x)
    <3>1. ASSUME v.type = "Integer" PROVE AsReal(v.data) = v.data /\ v.data \in Exact /\ v.data \in Floats
      BY <2>2, <2>4, <3>1, RealOfFloat DEF Floats
    <3>. QED  BY <1>8, <2>2, <2>3, <3>1 DEF v, SameNumber
  <2>. QED
    BY <1>8, <2>1, <2>2, <2>3, <2>5, <2>6, <2>7 DEF x0, v, ChoiceTypes
<1>10. ASSUME NEW n \in DOMAIN s, NEW m \in DOMAIN s, n # m
       PROVE  /\ offered[n].name # offered[m].name
              /\ AsReal(offered[n].value.data) # AsReal(offered[m].value.data)
  <2>1. /\ c[n].name # c[m].name
        /\ ValueKey(of, c[n].value) # ValueKey(of, c[m].value)
    BY <1>1, <1>2, <1>10 DEF NoDuplicates, IsInjective
  <2>2. offered[n].name = c[n].name /\ offered[m].name = c[m].name
    BY <1>4
  <2>3. offered[n].value.data = DataAs(of, c[n].value) /\ offered[m].value.data = DataAs(of, c[m].value)
    BY <1>4
  <2>4. CASE of = "Number"
    <3>1. NumberKey(offered[n].value.data) # NumberKey(offered[m].value.data)
      BY <2>1, <2>3, <2>4 DEF ValueKey
    <3>. QED  BY <1>9, <2>1, <2>2, <2>4, <3>1, KeysTellNumbers
  <2>5. CASE of # "Number"
    <3>1. offered[n].value.data # offered[m].value.data
      BY <2>1, <2>3, <2>5 DEF ValueKey, DataAs
    <3>2. \A k \in DOMAIN s : offered[k].value.data # NegativeZero
      BY <1>8, <1>9, <2>5, OptionsAssumption DEF ChoiceTypes
    <3>. QED  BY <2>1, <2>2, <3>1, <3>2 DEF AsReal
  <2>. QED  BY <2>4, <2>5
<1>. QED
  BY <1>1, <1>4, <1>5, <1>8, <1>9, <1>10

\* The same of inline attributes, for an option of a type of its own.
LEMMA InlineAccepted ==
  ASSUME NEW s, IsSequence(s), \A n \in DOMAIN s : IsArgs(s[n]),
         NEW of, InlineAccepts(of, s), NEW offered, offered = InlineChoices(of, s)
  PROVE  /\ DOMAIN offered = DOMAIN s /\ Len(offered) = Len(s) /\ Len(s) \in 0..MaxChoices
         /\ \A n \in DOMAIN s :
              /\ of \in ChoiceTypes
              /\ CharCount[offered[n].name] \in 1..MaxChars
              /\ offered[n].value.type = of
              /\ of = "String" =>
                   /\ offered[n].value.data \in Texts
                   /\ CharCount[offered[n].value.data] <= MaxChars
              /\ of = "Integer" => offered[n].value.data \in -MaxSafe..MaxSafe
              /\ of = "Number" =>
                   offered[n].value.data \in Floats /\ AsReal(offered[n].value.data) \in Exact
              /\ Denotes(s[n], offered[n].value.data)
         /\ \A n, m \in DOMAIN s : n # m =>
              /\ offered[n].name # offered[m].name
              /\ AsReal(offered[n].value.data) # AsReal(offered[m].value.data)
<1>1. /\ offered = [n \in DOMAIN s |->
             [name |-> s[n].names[1],
              value |-> [type |-> of, data |-> InlineData(of, s[n].values[1])]]]
      /\ DOMAIN offered = DOMAIN s /\ DOMAIN s = 1..Len(s) /\ Len(s) \in Nat
  BY DEF InlineChoices, IsSequence
<1>2. Len(offered) = Len(s) /\ Len(s) \in 0..MaxChoices
  BY <1>1, ChoicesAssumption DEF InlineAccepts
<1>3. ASSUME NEW n \in DOMAIN s
      PROVE  /\ of \in ChoiceTypes
             /\ ParsesAsArgs(s[n])
             /\ s[n].names # <<>> /\ ValidateChoiceName(s[n].names[1])
             /\ s[n].values # <<>> /\ ParsesAs(of, s[n].values[1])
             /\ \A m \in 1..(n - 1) :
                  /\ s[m].names[1] # s[n].names[1]
                  /\ ~SameChoiceValue(of, InlineData(of, s[m].values[1]),
                                      InlineData(of, s[n].values[1]))
  <2>1. s # <<>>
    OBVIOUS
  <2>. QED  BY <2>1 DEF InlineAccepts
<1>4. ASSUME NEW n \in DOMAIN s
      PROVE  /\ CharCount[offered[n].name] \in 1..MaxChars
             /\ offered[n].value.type = of
             /\ of = "String" =>
                  /\ offered[n].value.data \in Texts
                  /\ CharCount[offered[n].value.data] <= MaxChars
             /\ of = "Integer" => offered[n].value.data \in -MaxSafe..MaxSafe
             /\ of = "Number" =>
                  offered[n].value.data \in Floats /\ AsReal(offered[n].value.data) \in Exact
             /\ Denotes(s[n], offered[n].value.data)
  <2>. DEFINE l == s[n].values[1]
  <2>1. /\ offered[n].name = s[n].names[1] /\ offered[n].value.type = of
        /\ offered[n].value.data = InlineData(of, l)
    BY <1>1
  <2>2. CharCount[offered[n].name] \in 1..MaxChars
    BY <1>3, <2>1 DEF ValidateChoiceName
  <2>3. IsLiteral(l)
    <3>1. 1 \in DOMAIN s[n].values
      BY <1>3 DEF IsArgs, IsSequence
    <3>. QED  BY <3>1 DEF IsArgs, Range
  <2>4. ParsesAs(of, l) /\ of \in ChoiceTypes
    BY <1>3
  <2>5. \A x : Denotes(s[n], x) <=> IF l.form = "Str" THEN x = l.digits
                                   ELSE AsReal(x) = Rounded(IntegerOf(l))
    BY <1>3 DEF Denotes
  <2>. HIDE DEF l
  <2>6. CASE of = "String"
    <3>1. l.form = "Str" /\ StringFits(l.digits) /\ InlineData(of, l) = l.digits
      BY <2>4, <2>6 DEF ParsesAs, InlineData
    <3>. QED  BY <2>1, <2>2, <2>3, <2>5, <2>6, <3>1 DEF IsLiteral, StringFits
  <2>7. CASE of = "Integer"
    <3>1. ParsesAsInteger(l) /\ InlineData(of, l) = IntegerOf(l)
      BY <2>4, <2>7 DEF ParsesAs, InlineData
    <3>2. l.form # "Str"
      BY <3>1 DEF ParsesAsInteger
    <3>. QED  BY <2>1, <2>2, <2>3, <2>5, <2>7, <3>1, <3>2, IntegerRead
  <2>8. CASE of = "Number"
    <3>1. ParsesAsNumber(l) /\ InlineData(of, l) = NumberOf(l)
      BY <2>4, <2>8 DEF ParsesAs, InlineData
    <3>2. l.form \in {"Int", "Float"} /\ AsReal(NumberOf(l)) \in Exact
      BY <3>1 DEF ParsesAsNumber, Exact
    <3>. QED  BY <2>1, <2>2, <2>3, <2>5, <2>8, <3>1, <3>2, LiteralRead
  <2>. QED  BY <2>4, <2>6, <2>7, <2>8 DEF ChoiceTypes
<1>5. ASSUME NEW n \in DOMAIN s, NEW m \in DOMAIN s, m < n
      PROVE  /\ offered[n].name # offered[m].name
             /\ AsReal(offered[n].value.data) # AsReal(offered[m].value.data)
  <2>1. m \in 1..(n - 1)
    BY <1>1, <1>5
  <2>2. offered[n].name # offered[m].name
    BY <1>1, <1>3, <2>1
  <2>3. ~SameChoiceValue(of, offered[m].value.data, offered[n].value.data)
    BY <1>1, <1>3, <2>1
  <2>4. CASE of = "Number"
    BY <2>2, <2>3, <2>4 DEF SameChoiceValue, SameNumber
  <2>5. CASE of # "Number"
    <3>1. offered[m].value.data # NegativeZero /\ offered[n].value.data # NegativeZero
      BY <1>3, <1>4, <2>5, OptionsAssumption DEF ChoiceTypes
    <3>. QED  BY <2>2, <2>3, <2>5, <3>1 DEF SameChoiceValue, AsReal
  <2>. QED  BY <2>4, <2>5
<1>6. \A n, m \in DOMAIN s : n # m => n < m \/ m < n
  BY <1>1
<1>. QED
  BY <1>1, <1>2, <1>3, <1>4, <1>5, <1>6

-----------------------------------------------------------------------------
(* Extraction.                                                               *)

LEMMA OnlyOneSubmitted ==
  ASSUME NEW option, NEW name, option.name = name
  PROVE  Submitted(<<option>>, name) = {1} /\ Get(<<option>>, name) = option
<1>1. Submitted(<<option>>, name) = {1}
  BY DEF Submitted
<1>2. Min({1}) = 1
  BY DEF Min
<1>. QED
  BY <1>1, <1>2 DEF Get

LEMMA ScalarExtracted ==
  ASSUME NEW options, NEW name, Submitted(options, name) # {},
         NEW option, option = Get(options, name),
         NEW of, option.kind = KIND[of], option.value.type = Variant(of),
         of \in IdTypes => option.value.data \in Snowflakes
  PROVE  ExtractScalar(of, options, name) = Ok(option.value.data)
BY DEF ExtractScalar, Carries

\* Whatever was submitted, an enum argument is a variant with that very value.
LEMMA VariantExtracted ==
  ASSUME NEW s, IsSequence(s), \A n \in DOMAIN s : IsVariant(s[n]), DeriveAccepts(s),
         NEW options, NEW name, NEW result, result = ExtractVariant(s, options, name),
         result.is = "Ok"
  PROVE  \E n \in DOMAIN s :
           s[n].ident = result.value /\ Denotes(s[n], Get(options, name).value.data)
<1>. DEFINE of == EnumType(s)
            c == VariantChoices(s)
            scalar == ExtractScalar(ScalarOf[of], options, name)
            Same(n) == LET data == DataAs(of, c[n].value)
                       IN  IF of = "Number" THEN SameNumber(data, scalar.value)
                           ELSE data = scalar.value
            same == {n \in DOMAIN c : Same(n)}
<1>1. DOMAIN c = DOMAIN s /\ \A n \in DOMAIN s : c[n] = VariantChoice(s[n])
  BY DEF VariantChoices
<1>2. \A n \in DOMAIN s : Same(n) => Denotes(s[n], scalar.value)
  <2>. DEFINE offered == DerivedChoices(s)
  <2>1. \A n \in DOMAIN s :
          /\ offered[n].value.data = DataAs(of, c[n].value)
          /\ \A x : (IF of = "Number" THEN SameNumber(offered[n].value.data, x)
                     ELSE offered[n].value.data = x) => Denotes(s[n], x)
    <3>. HIDE DEF offered, of
    <3>1. offered = DerivedChoices(s) /\ of = EnumType(s)
      BY DEF offered, of
    <3>. QED  BY <1>1, <3>1, EnumAccepted
  <2>. HIDE DEF offered, scalar, of, c
  <2>. QED  BY <2>1
<1>3. result = CASE scalar.is # "Ok" -> scalar
                 [] scalar.is = "Ok" /\ same = {} -> Failure("InvalidChoice")
                 [] OTHER -> Ok(c[Min(same)].variant)
  BY DEF ExtractVariant
<1>4. scalar.is = "Ok" => scalar.value = Get(options, name).value.data
  BY DEF ExtractScalar, Ok, Failure
<1>. HIDE DEF scalar, same
<1>5. scalar.is = "Ok" /\ same # {} /\ result = Ok(c[Min(same)].variant)
  <2>1. scalar.is = "Ok"
    BY <1>3
  <2>2. same # {}
    BY <1>3, <2>1 DEF Failure
  <2>. QED  BY <1>3, <2>1, <2>2
<1>6. Min(same) \in DOMAIN s /\ Same(Min(same))
  <2>1. same \subseteq DOMAIN s
    BY <1>1 DEF same
  <2>2. Min(same) \in same
    BY <1>5, <2>1, LeastOfList DEF IsSequence
  <2>. QED  BY <1>1, <2>2 DEF same
<1>7. c[Min(same)].variant = s[Min(same)].ident
  BY <1>1, <1>6 DEF VariantChoice
<1>. QED
  BY <1>2, <1>4, <1>5, <1>6, <1>7 DEF Ok

\* A picked choice of an enum comes back as its own variant.
LEMMA PickedVariant ==
  ASSUME NEW s, IsSequence(s), \A n \in DOMAIN s : IsVariant(s[n]), DeriveAccepts(s),
         NEW n \in DOMAIN s, NEW options, NEW name, Submitted(options, name) # {},
         NEW option, option = Get(options, name),
         option.kind = KIND[ScalarOf[EnumType(s)]],
         option.value = DerivedChoices(s)[n].value
  PROVE  ExtractVariant(s, options, name) = Ok(s[n].ident)
<1>. DEFINE of == EnumType(s)
            c == VariantChoices(s)
            offered == DerivedChoices(s)
            scalar == ExtractScalar(ScalarOf[of], options, name)
            Same(m) == LET data == DataAs(of, c[m].value)
                       IN  IF of = "Number" THEN SameNumber(data, scalar.value)
                           ELSE data = scalar.value
            same == {m \in DOMAIN c : Same(m)}
<1>1. DOMAIN c = DOMAIN s /\ \A m \in DOMAIN s : c[m] = VariantChoice(s[m])
  BY DEF VariantChoices
<1>2. /\ of \in ChoiceTypes
      /\ \A m \in DOMAIN s :
           /\ offered[m].value.type = of
           /\ offered[m].value.data = DataAs(of, c[m].value)
      /\ \A m, k \in DOMAIN s : m # k =>
           AsReal(offered[m].value.data) # AsReal(offered[k].value.data)
  <2>. HIDE DEF offered, of
  <2>1. offered = DerivedChoices(s) /\ of = EnumType(s)
    BY DEF offered, of
  <2>. QED  BY <1>1, <2>1, EnumAccepted
<1>3. scalar = Ok(offered[n].value.data)
  <2>1. ScalarOf[of] \notin IdTypes /\ Variant(ScalarOf[of]) = of
    BY <1>2 DEF ScalarOf, IdTypes, Variant, ChoiceTypes
  <2>. QED  BY <1>2, <2>1, ScalarExtracted
<1>4. same = {n}
  <2>1. scalar.value = offered[n].value.data
    BY <1>3 DEF Ok
  <2>. HIDE DEF offered, of, c, scalar
  <2>. QED  BY <1>1, <1>2, <2>1 DEF SameNumber
<1>5. Min({n}) = n
  <2>1. n \in Nat
    BY DEF IsSequence
  <2>. QED  BY <2>1 DEF Min
<1>6. ExtractVariant(s, options, name) =
        CASE scalar.is # "Ok" -> scalar
          [] scalar.is = "Ok" /\ same = {} -> Failure("InvalidChoice")
          [] OTHER -> Ok(c[Min(same)].variant)
  BY DEF ExtractVariant
<1>. HIDE DEF same, offered, of, scalar
<1>7. ExtractVariant(s, options, name) = Ok(c[Min(same)].variant)
  <2>1. scalar.is = "Ok" /\ same # {}
    BY <1>3, <1>4 DEF Ok
  <2>. QED  BY <1>6, <2>1
<1>. QED
  BY <1>1, <1>4, <1>5, <1>7 DEF VariantChoice

-----------------------------------------------------------------------------
(* Found nodes and first failures.                                            *)

LEMMA FoundIsNamed ==
  ASSUME NEW s, IsSequence(s), NEW name, Named(s, name) # {}
  PROVE  /\ Min(Named(s, name)) \in DOMAIN s
         /\ Find(s, name) \in Range(s)
         /\ Find(s, name).name = name
<1>1. Min(Named(s, name)) \in Named(s, name)
  BY LeastOfList DEF IsSequence, Named
<1>. QED
  BY <1>1 DEF Named, Find, Range

\* No verdict of a loop is a failure if the first is none.
LEMMA NoFailure ==
  ASSUME NEW s, IsSequence(s), NEW verdicts, DOMAIN verdicts = DOMAIN s,
         FirstFailure(verdicts) = "Ok"
  PROVE  \A n \in DOMAIN s : verdicts[n] = "Ok"
<1>. DEFINE bad == {n \in DOMAIN verdicts : verdicts[n] # "Ok"}
<1>1. bad # {} => Min(bad) \in bad
  BY LeastOfList DEF IsSequence
<1>. QED
  BY <1>1 DEF FirstFailure

-----------------------------------------------------------------------------
(* What validation lets in.                                                   *)

WellFormedLeaf(node) == IsLeaf(node) /\ HandlersFit(node) /\ AutocompleteOptionsFit(node)

Apart(children) ==
  /\ children # <<>>
  /\ \A m, n \in DOMAIN children : children[m].name = children[n].name => m = n

WellFormedGroup(node) ==
  /\ IsGroup(node) /\ node.options = <<>> /\ Apart(node.children)
  /\ \A leaf \in Range(node.children) : WellFormedLeaf(leaf)

WellFormed(command) ==
  \/ WellFormedLeaf(command)
  \/ /\ IsGroup(command) /\ command.options = <<>> /\ Apart(command.children)
     /\ \A node \in Range(command.children) : WellFormedLeaf(node) \/ WellFormedGroup(node)

LEMMA LeafValidated ==
  ASSUME NEW leaf, IsLeaf(leaf), ValidateLeaf(leaf) = "Ok"
  PROVE  WellFormedLeaf(leaf)
BY DEF ValidateLeaf, WellFormedLeaf

LEMMA ChildrenValidated ==
  ASSUME NEW children, IsSequence(children), NEW groups,
         ValidateChildren(children, groups) = "Ok"
  PROVE  /\ \A m, n \in DOMAIN children : children[m].name = children[n].name => m = n
         /\ \A n \in DOMAIN children :
              IF IsLeaf(children[n]) THEN WellFormedLeaf(children[n]) ELSE groups[n] = "Ok"
<1>. DEFINE verdicts == [n \in DOMAIN children |->
              IF RepeatsSibling(children, n) THEN "DuplicateCommandPath"
              ELSE IF IsLeaf(children[n]) THEN ValidateLeaf(children[n])
              ELSE groups[n]]
<1>1. FirstFailure(verdicts) = "Ok"
  BY DEF ValidateChildren
<1>2. \A n \in DOMAIN children : verdicts[n] = "Ok"
  <2>1. DOMAIN verdicts = DOMAIN children
    OBVIOUS
  <2>. HIDE DEF verdicts
  <2>. QED  BY <1>1, <2>1, NoFailure
<1>3. \A n \in DOMAIN children :
        /\ ~RepeatsSibling(children, n)
        /\ IF IsLeaf(children[n]) THEN ValidateLeaf(children[n]) = "Ok" ELSE groups[n] = "Ok"
  BY <1>2
<1>4. ASSUME NEW m \in DOMAIN children, NEW n \in DOMAIN children,
             children[m].name = children[n].name
      PROVE  m = n
  <2>1. DOMAIN children = 1..Len(children) /\ Len(children) \in Nat
    BY DEF IsSequence
  <2>2. ~(m < n) /\ ~(n < m)
    BY <1>3, <1>4, <2>1 DEF RepeatsSibling
  <2>. QED  BY <2>1, <2>2
<1>. QED
  BY <1>3, <1>4, LeafValidated

LEMMA SubgroupValidated ==
  ASSUME NEW group, IsNode(group), IsGroup(group), ValidateSubgroup(group) = "Ok",
         \A node \in Range(group.children) : IsNode(node)
  PROVE  WellFormedGroup(group)
<1>. DEFINE refusals == [n \in DOMAIN group.children |-> "InvalidCommandHierarchy"]
<1>1. /\ group.options = <<>> /\ group.children # <<>>
      /\ \A n \in DOMAIN group.children : ~IsGroup(group.children[n])
      /\ ValidateChildren(group.children, refusals) = "Ok"
  BY DEF ValidateSubgroup
<1>2. /\ Apart(group.children)
      /\ \A n \in DOMAIN group.children :
           IsLeaf(group.children[n]) => WellFormedLeaf(group.children[n])
  BY <1>1, ChildrenValidated DEF IsNode, Apart
<1>3. \A n \in DOMAIN group.children : IsLeaf(group.children[n])
  BY <1>1 DEF IsNode, Range
<1>. QED
  BY <1>1, <1>2, <1>3 DEF WellFormedGroup, Range

LEMMA HierarchyValidated ==
  ASSUME NEW command, \A node \in Nodes(command) : IsNode(node),
         ValidateHierarchy(command) = "Ok"
  PROVE  WellFormed(command)
<1>1. /\ IsNode(command)
      /\ \A node \in Range(command.children) :
           IsNode(node) /\ \A leaf \in Range(node.children) : IsNode(leaf)
  BY DEF Nodes
<1>2. CASE IsLeaf(command)
  BY <1>2, LeafValidated DEF ValidateHierarchy, WellFormed
<1>3. CASE ~IsLeaf(command)
  <2>. DEFINE children == command.children
              groups == [n \in DOMAIN children |-> ValidateSubgroup(children[n])]
  <2>1. /\ IsGroup(command) /\ command.options = <<>> /\ children # <<>>
        /\ ValidateChildren(children, groups) = "Ok"
    BY <1>1, <1>3 DEF ValidateHierarchy, IsNode
  <2>2. /\ Apart(children)
        /\ \A n \in DOMAIN children :
             IF IsLeaf(children[n]) THEN WellFormedLeaf(children[n]) ELSE groups[n] = "Ok"
    <3>. HIDE DEF groups
    <3>. QED  BY <1>1, <2>1, ChildrenValidated DEF IsNode, Apart
  <2>3. ASSUME NEW n \in DOMAIN children
        PROVE  WellFormedLeaf(children[n]) \/ WellFormedGroup(children[n])
    <3>1. children[n] \in Range(children)
      BY DEF Range
    <3>2. CASE IsLeaf(children[n])
      BY <2>2, <3>2
    <3>3. CASE ~IsLeaf(children[n])
      <4>1. ValidateSubgroup(children[n]) = "Ok" /\ IsGroup(children[n])
        BY <1>1, <2>2, <3>1, <3>3 DEF IsNode
      <4>. QED  BY <1>1, <3>1, <4>1, SubgroupValidated
    <3>. QED  BY <3>2, <3>3
  <2>. QED  BY <2>1, <2>2, <2>3 DEF WellFormed, Range
<1>. QED
  BY <1>2, <1>3

-----------------------------------------------------------------------------
(* The payload of what validation lets in.                                      *)

\* A list made of another, element by element.
LEMMA MappedList ==
  ASSUME NEW s, IsSequence(s), NEW t, t = [n \in DOMAIN s |-> t[n]]
  PROVE  /\ IsSequence(t)
         /\ Len(t) = Len(s) /\ DOMAIN t = DOMAIN s /\ DOMAIN t = 1..Len(t) /\ Len(t) \in Nat
<1>1. DOMAIN s = 1..Len(s) /\ Len(s) \in Nat /\ DOMAIN t = 1..Len(s)
  BY DEF IsSequence
<1>2. t = [n \in 1..Len(s) |-> t[n]]
  BY <1>1
<1>3. t \in Seq(Range(t)) /\ Len(t) = Len(s)
  BY <1>1, <1>2 DEF Range
<1>. QED
  BY <1>1, <1>3 DEF IsSequence

LEMMA NeverEmptied ==
  ASSUME NEW s, IsSequence(s), s # <<>>, NEW t, DOMAIN t = DOMAIN s
  PROVE  t # <<>>
<1>1. Len(s) # 0 /\ DOMAIN s = 1..Len(s) /\ Len(s) \in Nat
  BY EmptySeq DEF IsSequence
<1>2. 1 \in DOMAIN t /\ DOMAIN (<<>>) = {}
  BY <1>1
<1>. QED
  BY <1>2

LEMMA DistinctNames ==
  ASSUME NEW s, IsSequence(s),
         \A m, n \in DOMAIN s : s[m].name = s[n].name => m = n,
         NEW t, t = [n \in DOMAIN s |-> t[n]], \A n \in DOMAIN s : t[n].name = s[n].name
  PROVE  Distinct(t)
<1>1. DOMAIN t = 1..Len(t) /\ DOMAIN t = DOMAIN s /\ Len(t) \in Nat
  BY MappedList
<1>. DEFINE f == [n \in 1..Len(t) |-> t[n].name]
<1>2. f \in Bijection(1..Len(t), Names(t))
  <2>1. f \in [1..Len(t) -> Names(t)]
    BY <1>1 DEF Names
  <2>2. \A m, n \in 1..Len(t) : f[m] = f[n] => m = n
    BY <1>1
  <2>3. \A name \in Names(t) : \E n \in 1..Len(t) : f[n] = name
    BY <1>1 DEF Names
  <2>. QED  BY <2>1, <2>2, <2>3 DEF Bijection, Injection, Surjection, IsInjective
<1>3. IsFiniteSet(1..Len(t)) /\ Cardinality(1..Len(t)) = Len(t)
  BY <1>1, FS_Interval
<1>. HIDE DEF f
<1>4. Cardinality(Names(t)) = Len(t)
  BY <1>2, <1>3, FS_Bijection DEF ExistsBijection
<1>. QED
  BY <1>4 DEF Distinct

LEMMA SameNames ==
  ASSUME NEW s, IsSequence(s), NEW t, t = [n \in DOMAIN s |-> t[n]],
         \A n \in DOMAIN s : t[n].name = s[n].name
  PROVE  Distinct(t) <=> Distinct(s)
<1>1. DOMAIN t = DOMAIN s /\ Len(t) = Len(s)
  BY MappedList
<1>2. Names(t) = Names(s)
  BY <1>1 DEF Names
<1>. QED
  BY <1>1, <1>2 DEF Distinct

LEMMA EmptyLevel ==
  /\ IsSequence(<<>>) /\ Len(<<>>) = 0 /\ Len(<<>>) <= MaxOptions
  /\ Distinct(<<>>) /\ RequiredFirst(<<>>) /\ ChoicesFit(<<>>)
<1>1. DOMAIN (<<>>) = {} /\ Len(<<>>) = 0
  OBVIOUS
<1>2. Names(<<>>) = {}
  BY <1>1 DEF Names
<1>3. Cardinality({}) = 0
  BY FS_EmptySet
<1>4. IsSequence(<<>>)
  BY DEF IsSequence
<1>5. Distinct(<<>>)
  BY <1>1, <1>2, <1>3 DEF Distinct
<1>6. RequiredFirst(<<>>) /\ ChoicesFit(<<>>)
  BY <1>1 DEF RequiredFirst, ChoicesFit
<1>7. Len(<<>>) <= MaxOptions
  <2>1. Len(<<>>) = 0 /\ MaxOptions \in Nat
    BY <1>1, TreeAssumption
  <2>. QED  BY <2>1
<1>. QED
  BY <1>1, <1>4, <1>5, <1>6, <1>7

LEMMA ScalarKinds ==
  ASSUME NEW node, IsNode(node)
  PROVE  Kinds(ScalarOptions(node)) \cap Hierarchical = {}
BY DEF IsNode, Kinds, ScalarOptions, CreateScalarOption

LEMMA ScalarsAccepted ==
  ASSUME NEW leaf, IsNode(leaf), WellFormedLeaf(leaf)
  PROVE  ScalarList(ScalarOptions(leaf)) <=> WithinLimits(leaf)
<1>. DEFINE options == leaf.options
            scalars == ScalarOptions(leaf)
<1>1. /\ IsSequence(options) /\ scalars = [n \in DOMAIN options |-> CreateScalarOption(options[n])]
      /\ leaf.children = <<>>
  BY DEF IsNode, WellFormedLeaf, ScalarOptions
<1>2. DOMAIN scalars = DOMAIN options
      /\ \A n \in DOMAIN options :
           /\ scalars[n].name = options[n].name /\ scalars[n].kind = options[n].kind
           /\ scalars[n].required = options[n].required
           /\ scalars[n].choices = options[n].choices
           /\ scalars[n].autocomplete = options[n].autocomplete
  BY <1>1 DEF CreateScalarOption
<1>3. /\ \A n \in DOMAIN options :
           options[n].autocomplete => options[n].kind \in Choosable /\ ~options[n].choices
      /\ Kinds(scalars) \cap Hierarchical = {}
  BY ScalarKinds DEF WellFormedLeaf, AutocompleteOptionsFit, Choosable
<1>4. DOMAIN options = 1..Len(options) /\ Len(options) \in Nat
  BY <1>1 DEF IsSequence
<1>5. scalars = [n \in DOMAIN options |-> scalars[n]]
  BY <1>1
<1>. HIDE DEF options, scalars
<1>6. Len(scalars) = Len(options) /\ (Distinct(scalars) <=> Distinct(options))
  BY <1>1, <1>2, <1>5, MappedList, SameNames
<1>7. RequiredFirst(scalars) <=> RequiredFirst(options)
  <2>1. \A n \in DOMAIN options : \A m \in 1..(n - 1) : m \in DOMAIN options
    BY <1>4
  <2>. QED  BY <1>2, <2>1 DEF RequiredFirst
<1>8. ChoicesFit(scalars) <=> ChoicesFit(options)
  BY <1>2 DEF ChoicesFit
<1>9. ScalarList(scalars) <=>
        /\ Len(options) <= MaxOptions /\ Distinct(options)
        /\ RequiredFirst(options) /\ ChoicesFit(options)
  BY <1>2, <1>3, <1>6, <1>7, <1>8 DEF ScalarList
<1>. QED
  BY <1>1, <1>9, EmptyLevel DEF WithinLimits, options, scalars

LEMMA SubcommandCreated ==
  ASSUME NEW leaf, IsNode(leaf), WellFormedLeaf(leaf),
         NEW option, option = CreateSubcommand(leaf)
  PROVE  /\ option.kind = "SUB_COMMAND" /\ option.name = leaf.name
         /\ ScalarList(option.options) <=> WithinLimits(leaf)
<1>1. /\ option.kind = "SUB_COMMAND" /\ option.name = leaf.name
      /\ option.options = ScalarOptions(leaf)
  BY DEF CreateSubcommand, CreateHierarchyOption
<1>. QED
  BY <1>1, ScalarsAccepted

LEMMA GroupAccepted ==
  ASSUME NEW group, IsNode(group), WellFormedGroup(group),
         \A leaf \in Range(group.children) : IsNode(leaf)
  PROVE  SubcommandList(CreateChildOption(group).options)
           <=> WithinLimits(group) /\ \A leaf \in Range(group.children) : WithinLimits(leaf)
<1>. DEFINE children == group.children
            options  == [n \in DOMAIN children |-> CreateSubcommand(children[n])]
<1>1. CreateChildOption(group).options = options
  BY DEF CreateChildOption, CreateHierarchyOption, WellFormedGroup, IsLeaf, IsGroup
<1>2. \A n \in DOMAIN children :
        /\ options[n].kind = "SUB_COMMAND" /\ options[n].name = children[n].name
        /\ ScalarList(options[n].options) <=> WithinLimits(children[n])
  BY SubcommandCreated DEF WellFormedGroup, Range
<1>3. /\ IsSequence(children) /\ children # <<>>
      /\ \A m, n \in DOMAIN children : children[m].name = children[n].name => m = n
  BY DEF IsNode, WellFormedGroup, Apart
<1>4. options = [n \in DOMAIN children |-> options[n]] /\ DOMAIN options = DOMAIN children
  OBVIOUS
<1>5. WithinLimits(group) <=> Len(children) <= MaxOptions
  BY EmptyLevel DEF WithinLimits, WellFormedGroup
<1>6. (\A leaf \in Range(children) : WithinLimits(leaf))
        <=> \A n \in DOMAIN children : WithinLimits(children[n])
  BY DEF Range
<1>. HIDE DEF options, children
<1>7. Distinct(options) /\ options # <<>> /\ Len(options) = Len(children)
  BY <1>2, <1>3, <1>4, DistinctNames, NeverEmptied, MappedList
<1>8. SubcommandList(options) <=>
        Len(children) <= MaxOptions /\ \A n \in DOMAIN children : WithinLimits(children[n])
  BY <1>2, <1>4, <1>7 DEF SubcommandList, BranchList
<1>. QED
  BY <1>1, <1>5, <1>6, <1>8 DEF children

\* Discord takes the payload of a well-formed tree just when every node is within limits.
LEMMA TreeAccepted ==
  ASSUME NEW command, \A node \in Nodes(command) : IsNode(node), WellFormed(command)
  PROVE  DiscordAccepts(CreateCommand(command)) <=> \A node \in Nodes(command) : WithinLimits(node)
<1>1. /\ IsNode(command)
      /\ \A node \in Range(command.children) :
           IsNode(node) /\ \A leaf \in Range(node.children) : IsNode(leaf)
  BY DEF Nodes
<1>2. CASE WellFormedLeaf(command)
  <2>. DEFINE scalars == ScalarOptions(command)
  <2>1. CreateCommand(command).options = scalars
    BY <1>2 DEF CreateCommand, WellFormedLeaf
  <2>2. (ScalarList(scalars) <=> WithinLimits(command)) /\ Kinds(scalars) \cap Hierarchical = {}
    BY <1>1, <1>2, ScalarsAccepted, ScalarKinds
  <2>3. Nodes(command) = {command}
    <3>1. Range(command.children) = {}
      BY <1>1, <1>2 DEF IsNode, WellFormedLeaf, Range
    <3>. QED  BY <3>1 DEF Nodes
  <2>4. IsSequence(scalars)
    <3>1. scalars = [n \in DOMAIN command.options |-> scalars[n]] /\ IsSequence(command.options)
      BY <1>1 DEF ScalarOptions, IsNode
    <3>. HIDE DEF scalars
    <3>. QED  BY <3>1, MappedList
  <2>. HIDE DEF scalars
  <2>5. ASSUME scalars # <<>> PROVE \E n \in DOMAIN scalars : scalars[n].kind \notin Hierarchical
    <3>1. 1 \in DOMAIN scalars
      BY <2>4, <2>5, EmptySeq DEF IsSequence
    <3>. QED  BY <2>2, <3>1 DEF Kinds
  <2>. QED
    BY <2>1, <2>2, <2>3, <2>5 DEF DiscordAccepts, BranchList, Hierarchical
<1>3. CASE ~WellFormedLeaf(command)
  <2>. DEFINE children == command.children
              options  == [n \in DOMAIN children |-> CreateChildOption(children[n])]
              Taken(n) == \/ options[n].kind = "SUB_COMMAND" /\ ScalarList(options[n].options)
                          \/ options[n].kind = "SUB_COMMAND_GROUP"
                             /\ SubcommandList(options[n].options)
              Below(n) == /\ WithinLimits(children[n])
                          /\ \A leaf \in Range(children[n].children) : WithinLimits(leaf)
  <2>1. /\ IsGroup(command) /\ command.options = <<>> /\ Apart(children)
        /\ \A node \in Range(children) : WellFormedLeaf(node) \/ WellFormedGroup(node)
    BY <1>3 DEF WellFormed
  <2>2. CreateCommand(command).options = options
    BY <2>1 DEF CreateCommand, IsGroup, IsLeaf
  <2>3. ASSUME NEW n \in DOMAIN children
        PROVE  /\ options[n].name = children[n].name
               /\ options[n].kind \in Hierarchical
               /\ Taken(n) <=> Below(n)
    <3>. DEFINE node == children[n]
    <3>1. node \in Range(children)
      BY DEF Range
    <3>2. options[n] = CreateChildOption(node)
      OBVIOUS
    <3>3. CASE WellFormedLeaf(node)
      <4>1. options[n] = CreateSubcommand(node)
        BY <3>2, <3>3 DEF CreateChildOption, WellFormedLeaf
      <4>2. IsNode(node)
        BY <1>1, <3>1
      <4>3. Range(node.children) = {}
        BY <3>3, <4>2 DEF IsNode, WellFormedLeaf, Range
      <4>4. /\ options[n].kind = "SUB_COMMAND" /\ options[n].name = node.name
            /\ ScalarList(options[n].options) <=> WithinLimits(node)
        <5>. HIDE DEF node, options
        <5>. QED  BY <3>3, <4>1, <4>2, SubcommandCreated
      <4>. QED
        BY <4>3, <4>4 DEF Hierarchical
    <3>4. CASE WellFormedGroup(node)
      <4>1. SubcommandList(CreateChildOption(node).options)
              <=> WithinLimits(node) /\ \A leaf \in Range(node.children) : WithinLimits(leaf)
        <5>. HIDE DEF node
        <5>. QED  BY <1>1, <3>1, <3>4, GroupAccepted
      <4>2. CreateChildOption(node).kind = "SUB_COMMAND_GROUP"
            /\ CreateChildOption(node).name = node.name
        BY <3>4 DEF CreateChildOption, CreateHierarchyOption, WellFormedGroup, IsLeaf, IsGroup
      <4>3. /\ options[n].kind = "SUB_COMMAND_GROUP" /\ options[n].name = node.name
            /\ SubcommandList(options[n].options)
                 <=> WithinLimits(node) /\ \A leaf \in Range(node.children) : WithinLimits(leaf)
        BY <3>2, <4>1, <4>2
      <4>. QED
        BY <4>3 DEF Hierarchical
    <3>. QED  BY <2>1, <3>1, <3>3, <3>4
  <2>4. /\ IsSequence(children) /\ children # <<>>
        /\ \A m, n \in DOMAIN children : children[m].name = children[n].name => m = n
    BY <1>1, <2>1 DEF IsNode, Apart
  <2>5. options = [n \in DOMAIN children |-> options[n]] /\ DOMAIN options = DOMAIN children
    OBVIOUS
  <2>6. (\A node \in Nodes(command) : WithinLimits(node))
          <=> WithinLimits(command) /\ \A n \in DOMAIN children : Below(n)
    BY DEF Nodes, Range
  <2>7. WithinLimits(command) <=> Len(children) <= MaxOptions
    BY <2>1, EmptyLevel DEF WithinLimits
  <2>. HIDE DEF options, children, Taken, Below
  <2>8. Distinct(options) /\ options # <<>> /\ Len(options) = Len(children)
    BY <2>3, <2>4, <2>5, DistinctNames, NeverEmptied, MappedList
  <2>9. ~ScalarList(options)
    <3>1. 1 \in DOMAIN options
      BY <2>4, <2>5, EmptySeq DEF IsSequence
    <3>. QED  BY <2>3, <2>5, <3>1 DEF ScalarList, Kinds
  <2>10. DiscordAccepts(CreateCommand(command))
          <=> Len(children) <= MaxOptions /\ \A n \in DOMAIN children : Taken(n)
    BY <2>2, <2>5, <2>8, <2>9 DEF DiscordAccepts, BranchList, Taken
  <2>. QED  BY <2>3, <2>6, <2>7, <2>10
<1>. QED
  BY <1>2, <1>3
=============================================================================
