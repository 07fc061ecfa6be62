-------------------------- MODULE CommandMacroProofs --------------------------
(* Proofs of the safety properties of CommandMacro, for any programs, any enums   *)
(* and any of Discord's limits.                                                  *)
EXTENDS CommandMacro, CommandFacts

-----------------------------------------------------------------------------
(* Filtered lists.                                                             *)

\* The places of a filter are found by the number of places up to each.
LEMMA NthPlace ==
  ASSUME NEW L \in Nat, NEW S, S \subseteq 1..L
  PROVE  /\ Cardinality(S) \in Nat
         /\ \A k \in 1..Cardinality(S) :
              Nth(S, k) \in S /\ Cardinality(S \cap 1..Nth(S, k)) = k
         /\ \A n \in S : Cardinality(S \cap 1..n) \in 1..Cardinality(S)
         /\ \A m, n \in S : Cardinality(S \cap 1..m) = Cardinality(S \cap 1..n) => m = n
<1>. DEFINE C == [n \in Nat |-> Cardinality(S \cap 1..n)]
<1>1. IsFiniteSet(S) /\ Cardinality(S) \in Nat
  <2>1. IsFiniteSet(1..L)
    BY FS_Interval
  <2>. QED  BY <2>1, FS_Subset, FS_CardinalityType
<1>0. \A n \in S : n \in Nat /\ n - 1 \in Nat /\ (n - 1) + 1 = n /\ n <= L
  OBVIOUS
<1>2. \A n \in Nat : IsFiniteSet(S \cap 1..n) /\ C[n] \in Nat
  BY <1>1, FS_Subset, FS_CardinalityType
<1>n. \A n \in Nat : C[n] \in Nat
  BY <1>2
<1>3. ASSUME NEW n \in Nat
      PROVE  C[n + 1] = IF n + 1 \in S THEN C[n] + 1 ELSE C[n]
  <2>1. CASE n + 1 \in S
    <3>1. S \cap 1..(n + 1) = (S \cap 1..n) \cup {n + 1} /\ n + 1 \notin S \cap 1..n
      BY <2>1
    <3>. QED  BY <1>2, <2>1, <3>1, FS_AddElement
  <2>2. CASE n + 1 \notin S
    <3>1. S \cap 1..(n + 1) = S \cap 1..n
      BY <2>2
    <3>. QED  BY <2>2, <3>1
  <2>. QED  BY <2>1, <2>2
<1>4. \A m, n \in Nat : m <= n => C[m] <= C[n]
  <2>1. \A m, n \in Nat : m <= n => S \cap 1..m \subseteq S \cap 1..n
    OBVIOUS
  <2>. QED  BY <1>2, <2>1, FS_Subset
<1>5. C[L] = Cardinality(S) /\ C[0] = 0
  <2>1. S \cap 1..L = S
    OBVIOUS
  <2>2. 1..0 = {} /\ S \cap {} = {}
    OBVIOUS
  <2>. QED  BY <2>1, <2>2, FS_EmptySet
<1>. HIDE DEF C
<1>6. ASSUME NEW k \in 1..Cardinality(S)
      PROVE  \E n \in S : C[n] = k
  <2>. DEFINE Reached == {n \in 0..L : k <= C[n]}
              n == Min(Reached)
  <2>1. n \in Reached /\ \A m \in Reached : n <= m
    <3>1. L \in Reached
      BY <1>1, <1>5, <1>6
    <3>2. IsFiniteSet(Reached)
      <4>1. IsFiniteSet(0..L)
        BY FS_Interval
      <4>2. Reached \subseteq 0..L
        OBVIOUS
      <4>. QED  BY <4>1, <4>2, FS_Subset
    <3>. HIDE DEF Reached
    <3>3. Reached \subseteq Nat
      BY DEF Reached
    <3>. QED  BY <3>1, <3>2, <3>3, LeastExists
  <2>. HIDE DEF n
  <2>2. n \in Nat /\ n # 0 /\ n - 1 \in Nat /\ k <= C[n]
    BY <1>1, <1>5, <1>6, <2>1
  <2>3. C[n - 1] < k
    BY <1>1, <1>0, <1>n, <1>6, <2>1, <2>2
  <2>4. C[n] = IF n \in S THEN C[n - 1] + 1 ELSE C[n - 1]
    <3>1. (n - 1) + 1 = n
      BY <2>2
    <3>. QED  BY <1>3, <2>2, <3>1
  <2>. QED  BY <1>1, <1>0, <1>n, <1>6, <2>2, <2>3, <2>4
<1>7. \A n \in S : C[n] \in 1..Cardinality(S)
  <2>. SUFFICES ASSUME NEW n \in S PROVE C[n] \in 1..Cardinality(S)
    OBVIOUS
  <2>1. n \in Nat /\ n - 1 \in Nat /\ (n - 1) + 1 = n /\ n <= L
    OBVIOUS
  <2>2. C[n] = C[n - 1] + 1
    BY <1>3, <2>1
  <2>. QED  BY <1>1, <1>0, <1>n, <1>4, <1>5, <2>1, <2>2
<1>8. ASSUME NEW m \in S, NEW n \in S, m < n PROVE C[m] < C[n]
  <2>1. n - 1 \in Nat /\ (n - 1) + 1 = n /\ m <= n - 1 /\ m \in Nat
    BY <1>8
  <2>2. C[n] = C[n - 1] + 1
    BY <1>3, <2>1
  <2>. QED  BY <1>0, <1>n, <1>4, <2>1, <2>2
<1>9. \A m, n \in S : C[m] = C[n] => m = n
  <2>1. \A m, n \in S : m < n \/ n < m \/ m = n
    OBVIOUS
  <2>2. \A n \in S : C[n] \in Nat
    BY <1>0, <1>n
  <2>. QED  BY <1>8, <2>1, <2>2
<1>10. \A k \in 1..Cardinality(S) : Nth(S, k) \in S /\ C[Nth(S, k)] = k
  BY <1>6, <1>0 DEF Nth, C
<1>11. \A n \in S : C[n] = Cardinality(S \cap 1..n)
  BY <1>0 DEF C
<1>12. \A k \in 1..Cardinality(S) :
         Nth(S, k) \in S /\ Cardinality(S \cap 1..Nth(S, k)) = k
  BY <1>10, <1>11
<1>. QED
  BY <1>1, <1>7, <1>9, <1>11, <1>12

\* What a filter keeps, and that it keeps every place once.
LEMMA KeptList ==
  ASSUME NEW list, IsSequence(list), NEW S, S \subseteq DOMAIN list,
         NEW kept, kept = Kept(list, S)
  PROVE  /\ IsSequence(kept)
         /\ Range(kept) = {list[n] : n \in S}
         /\ \A k \in DOMAIN kept : Nth(S, k) \in S /\ kept[k] = list[Nth(S, k)]
         /\ \A j, k \in DOMAIN kept : Nth(S, j) = Nth(S, k) => j = k
<1>1. DOMAIN list = 1..Len(list) /\ Len(list) \in Nat
  BY DEF IsSequence
<1>2. /\ Cardinality(S) \in Nat
      /\ \A k \in 1..Cardinality(S) :
           Nth(S, k) \in S /\ Cardinality(S \cap 1..Nth(S, k)) = k
      /\ \A n \in S : Cardinality(S \cap 1..n) \in 1..Cardinality(S)
      /\ \A m, n \in S : Cardinality(S \cap 1..m) = Cardinality(S \cap 1..n) => m = n
  BY <1>1, NthPlace
<1>3. kept = [k \in 1..Cardinality(S) |-> list[Nth(S, k)]]
  BY DEF Kept
<1>4. \A k \in DOMAIN kept : Nth(S, k) \in S /\ kept[k] = list[Nth(S, k)]
  BY <1>2, <1>3
<1>5. \A j, k \in DOMAIN kept : Nth(S, j) = Nth(S, k) => j = k
  BY <1>2, <1>3
<1>6. Range(kept) = {list[n] : n \in S}
  <2>1. ASSUME NEW n \in S PROVE list[n] \in Range(kept)
    <3>. DEFINE k == Cardinality(S \cap 1..n)
    <3>1. k \in DOMAIN kept /\ Nth(S, k) = n
      BY <1>2, <1>3
    <3>. QED  BY <1>4, <3>1 DEF Range
  <2>2. Range(kept) \subseteq {list[n] : n \in S}
    BY <1>4 DEF Range
  <2>. QED  BY <2>1, <2>2
<1>7. IsSequence(kept)
  <2>1. \A k \in 1..Cardinality(S) : list[Nth(S, k)] \in Range(kept)
    BY <1>3, <1>4 DEF Range
  <2>. QED  BY <1>2, <1>3, <2>1 DEF IsSequence
<1>. QED
  BY <1>4, <1>5, <1>6, <1>7

-----------------------------------------------------------------------------
(* Signatures.                                                                 *)

\* What a macro accepts, its generated adapter boxes.
LEMMA CommandBoxes ==
  ASSUME NEW signature, IsSequence(signature.inputs), Len(signature.inputs) <= 1,
         CommandSignatureFits(signature)
  PROVE  BoxesInto(signature, "Context", Path("()"))
<1>1. Len(signature.inputs) = 1
  <2>1. signature.inputs # <<>>
    BY DEF CommandSignatureFits, TakesContext
  <2>2. Len(signature.inputs) \in Nat /\ Len(signature.inputs) # 0
    BY <2>1, EmptySeq DEF IsSequence
  <2>. DEFINE n == Len(signature.inputs)
  <2>3. n \in Nat /\ n # 0 /\ n <= 1
    BY <2>2
  <2>. HIDE DEF n
  <2>4. n = 1
    BY <2>3
  <2>. QED  BY <2>4 DEF n
<1>. QED
  BY <1>1 DEF CommandSignatureFits, BoxesInto, IsPlain, HasState, ReturnsUnit

LEMMA HelperBoxed ==
  ASSUME NEW helper, helper.macro \in {"check", "autocomplete"}, HelperAccepts(helper)
  PROVE  HelperBoxes(helper)
BY DEF HelperAccepts, CheckAccepts, CompleterAccepts, HelperBoxes, BoxesInto, IsPlain, HasState,
       ReturnsBool, ReturnsChoices

LEMMA FunctionsAccepted ==
  ASSUME NEW source, IsSource(source), Expands(source), NEW function \in FunctionsIn(source)
  PROVE  /\ function.kind = "fn" /\ IsFunction(function) /\ CommandAccepts(function)
BY DEF IsSource, IsModule, Expands, FunctionsIn, FunctionsOf, Range

\* The sources of a program the macros accept, with all their functions.
LEMMA ProgramAccepted ==
  ASSUME program \in Programs, MacrosAccept
  PROVE  /\ IsSequence(program.items)
         /\ \A path \in Range(program.items) : IsSource(path.source) /\ Expands(path.source)
         /\ \A function \in Functions : IsFunction(function) /\ CommandAccepts(function)
<1>1. /\ IsSequence(program.items)
      /\ \A path \in Range(program.items) : IsSource(path.source) /\ Expands(path.source)
  BY ProgramsAssumption DEF MacrosAccept, Range
<1>. QED
  BY <1>1, FunctionsAccepted DEF Functions

LEMMA SignaturesAccepted ==
  ASSUME program \in Programs, MacrosAccept
  PROVE  SignaturesBox
<1>1. \A function \in Functions : BoxesInto(function.signature, "Context", Path("()"))
  BY ProgramAccepted, CommandBoxes DEF IsFunction, CommandAccepts
<1>2. \A helper \in program.helpers : HelperBoxes(helper)
  BY ProgramsAssumption, HelperBoxed DEF MacrosAccept
<1>. QED
  BY <1>1, <1>2 DEF SignaturesBox

-----------------------------------------------------------------------------
(* Options.                                                                    *)

Scalars == DOMAIN KnownOptionKind

\* The names the macros, the library and Discord have for one type.
LEMMA KindNames ==
  ASSUME NEW of \in Scalars
  PROVE  /\ KnownOptionKind[of] = "String" <=> of = "String"
         /\ KnownOptionKind[of] = "Integer" <=> of = "i64"
         /\ KnownOptionKind[of] = "Number" <=> of = "f64"
         /\ KIND[of] = "STRING" <=> of = "String"
         /\ KIND[of] = "INTEGER" <=> of = "i64"
         /\ KIND[of] = "NUMBER" <=> of = "f64"
         /\ KIND[of] \notin Hierarchical
         /\ SubmittedType(KIND[of]) = Variant(of)
         /\ KnownOptionKind[of] \in ChoiceTypes => SubmittedType(KIND[of]) = KnownOptionKind[of]
         /\ of \in IdTypes => ValuesOf(KIND[of]) = Snowflakes
<1>1. Scalars = {"String", "bool", "i64", "f64", "UserId", "ChannelId", "RoleId", "AttachmentId"}
  BY DEF Scalars, KnownOptionKind
<1>2. CASE of = "String"
  BY <1>2 DEF KnownOptionKind, KIND, Hierarchical, SubmittedType, Variant, ChoiceTypes, IdTypes
<1>3. CASE of = "bool"
  BY <1>3 DEF KnownOptionKind, KIND, Hierarchical, SubmittedType, Variant, ChoiceTypes, IdTypes
<1>4. CASE of = "i64"
  BY <1>4 DEF KnownOptionKind, KIND, Hierarchical, SubmittedType, Variant, ChoiceTypes, IdTypes
<1>5. CASE of = "f64"
  BY <1>5 DEF KnownOptionKind, KIND, Hierarchical, SubmittedType, Variant, ChoiceTypes, IdTypes
<1>6. CASE of \in IdTypes
  <2>1. KIND[of] \in {"USER", "CHANNEL", "ROLE", "ATTACHMENT"}
    BY <1>6 DEF KIND, IdTypes
  <2>2. KnownOptionKind[of] \in {"User", "Channel", "Role", "Attachment"}
    BY <1>6 DEF KnownOptionKind, IdTypes
  <2>3. ValuesOf(KIND[of]) = Snowflakes
    BY <2>1 DEF ValuesOf
  <2>4. SubmittedType(KIND[of]) = "String" /\ Variant(of) = "String"
    BY <1>6, <2>1 DEF SubmittedType, Variant, IdTypes
  <2>. QED  BY <1>6, <2>1, <2>2, <2>3, <2>4 DEF Hierarchical, ChoiceTypes, IdTypes
<1>. QED
  BY <1>1, <1>2, <1>3, <1>4, <1>5, <1>6 DEF IdTypes

\* A key written at most once.
LEMMA WrittenOnce ==
  ASSUME NEW list, IsSequence(list), AtMostOne(list)
  PROVE  list = <<>> \/ (DOMAIN list = {1} /\ list[1] \in Range(list))
<1>1. Len(list) \in Nat /\ DOMAIN list = 1..Len(list) /\ Len(list) <= 1
  BY DEF IsSequence, AtMostOne
<1>2. CASE Len(list) = 0
  BY <1>2, EmptySeq DEF IsSequence
<1>3. CASE Len(list) = 1
  BY <1>1, <1>3 DEF Range
<1>. QED
  BY <1>1, <1>2, <1>3

\* The numbers an option of a kind takes.
LEMMA NumberValues ==
  ASSUME NEW kind \in {"INTEGER", "NUMBER"}, NEW x \in ValuesOf(kind)
  PROVE  x \in Floats /\ AsReal(x) \in Int
<1>1. CASE kind = "INTEGER"
  BY <1>1, OptionsAssumption, RealOfFloat DEF ValuesOf, Floats
<1>2. CASE kind = "NUMBER"
  BY <1>2, OptionsAssumption, RealOfFloat DEF ValuesOf, Floats
<1>. QED
  BY <1>1, <1>2

\* Bounds in order leave a value between them.
LEMMA BoundsLeaveValue ==
  ASSUME NEW option, option.kind \in {"INTEGER", "NUMBER"}, option.offered = <<>>,
         option.min = <<>> \/ (DOMAIN option.min = {1} /\ option.min[1] \in ValuesOf(option.kind)),
         option.max = <<>> \/ (DOMAIN option.max = {1} /\ option.max[1] \in ValuesOf(option.kind)),
         option.min # <<>> /\ option.max # <<>> =>
           AsReal(option.min[1]) <= AsReal(option.max[1])
  PROVE  LegalValues(option) # {}
<1>. DEFINE x == IF option.min # <<>> THEN option.min[1]
                 ELSE IF option.max # <<>> THEN option.max[1] ELSE 0
<1>1. x \in ValuesOf(option.kind)
  <2>1. 0 \in ValuesOf(option.kind)
    BY OptionsAssumption DEF ValuesOf
  <2>. QED  BY <2>1
<1>2. AsReal(x) \in Int
  BY <1>1, NumberValues
<1>3. /\ \A n \in DOMAIN option.min : AsReal(option.min[n]) <= AsReal(x)
      /\ \A n \in DOMAIN option.max : AsReal(x) <= AsReal(option.max[n])
  <2>1. DOMAIN (<<>>) = {}
    OBVIOUS
  <2>. QED  BY <1>2, <2>1
<1>4. IsWithin(AsReal(x), option.min, option.max)
  <2>. HIDE DEF x
  <2>. QED  BY <1>3 DEF IsWithin, Range
<1>. HIDE DEF x
<1>5. x \in LegalValues(option)
  BY <1>1, <1>4 DEF LegalValues
<1>. QED
  BY <1>5

LEMMA Concatenated ==
  ASSUME NEW s, IsSequence(s), NEW t, IsSequence(t)
  PROVE  /\ Range(s \o t) = Range(s) \cup Range(t)
         /\ s \o t # <<>> => s # <<>> \/ t # <<>>
         /\ s \o t = <<>> => s = <<>> /\ t = <<>>
<1>. DEFINE S == Range(s) \cup Range(t)
<1>1. s \in Seq(S) /\ t \in Seq(S)
  BY DEF IsSequence
<1>2. /\ s \o t \in Seq(S) /\ Len(s \o t) = Len(s) + Len(t)
      /\ DOMAIN (s \o t) = 1..(Len(s) + Len(t))
      /\ \A n \in 1..(Len(s) + Len(t)) :
           (s \o t)[n] = IF n <= Len(s) THEN s[n] ELSE t[n - Len(s)]
  BY <1>1, ConcatProperties
<1>3. /\ Len(s) \in Nat /\ DOMAIN s = 1..Len(s)
      /\ Len(t) \in Nat /\ DOMAIN t = 1..Len(t)
  BY <1>1
<1>4. Range(s \o t) \subseteq S
  BY <1>2 DEF Range
<1>5. \A n \in DOMAIN s : n \in DOMAIN (s \o t) /\ (s \o t)[n] = s[n]
  BY <1>2, <1>3
<1>6. \A n \in DOMAIN t : n + Len(s) \in DOMAIN (s \o t) /\ (s \o t)[n + Len(s)] = t[n]
  BY <1>2, <1>3
<1>7. S \subseteq Range(s \o t)
  BY <1>5, <1>6 DEF Range
<1>8. s \o t = <<>> <=> Len(s) + Len(t) = 0
  BY <1>2, EmptySeq
<1>9. (Len(s) = 0 <=> s = <<>>) /\ (Len(t) = 0 <=> t = <<>>)
  BY <1>1, EmptySeq
<1>. QED
  BY <1>3, <1>4, <1>7, <1>8, <1>9

LEMMA ShortLists ==
  ASSUME NEW list, list = <<>> \/ \E x : list = <<x>>
  PROVE  IsSequence(list)
<1>1. CASE list = <<>>
  BY <1>1 DEF IsSequence
<1>2. CASE \E x : list = <<x>>
  <2>1. PICK x : list = <<x>>
    BY <1>2
  <2>2. Range(list) = {x} /\ <<x>> \in Seq({x})
    BY <2>1 DEF Range
  <2>. QED  BY <2>1, <2>2 DEF IsSequence
<1>. QED
  BY <1>1, <1>2

\* A number read from a literal within the limits of its kind.
LEMMA BoundRead ==
  ASSUME NEW of \in Scalars, NEW kind, kind = KnownOptionKind[of],
         kind \in {"Integer", "Number"}, NEW literal, IsLiteral(literal),
         IF kind = "Integer" THEN ParsesAsInteger(literal) ELSE ParsesAsNumber(literal)
  PROVE  BoundOf(kind, literal) \in ValuesOf(KIND[of])
<1>1. CASE kind = "Integer"
  <2>1. KIND[of] = "INTEGER" /\ BoundOf(kind, literal) = IntegerOf(literal)
    BY <1>1, KindNames DEF BoundOf
  <2>. QED  BY <1>1, <2>1, IntegerRead DEF ValuesOf
<1>2. CASE kind = "Number"
  <2>1. KIND[of] = "NUMBER" /\ BoundOf(kind, literal) = NumberOf(literal)
    BY <1>2, KindNames DEF BoundOf
  <2>2. /\ NumberOf(literal) \in Floats
        /\ AsReal(NumberOf(literal)) \in -(MaxSafe + 1)..(MaxSafe + 1)
    BY <1>2, LiteralRead DEF ParsesAsNumber
  <2>3. NumberOf(literal) = NegativeZero \/ NumberOf(literal) = AsReal(NumberOf(literal))
    BY <2>2, RealOfFloat DEF Floats
  <2>. QED  BY <2>1, <2>2, <2>3 DEF ValuesOf
<1>. QED
  BY <1>1, <1>2

LEMMA BoundsTaken ==
  ASSUME NEW p, IsParameter(p), TakesAttributes(p), NEW of \in Scalars,
         NEW kind, kind = KnownOptionKind[of], NumericBoundsFit(kind, p),
         NEW least, least = Data(kind, p.min), NEW most, most = Data(kind, p.max)
  PROVE  /\ IsSequence(least) /\ IsSequence(most)
         /\ least \o most # <<>> => KIND[of] \in {"INTEGER", "NUMBER"}
         /\ least = <<>> \/ (DOMAIN least = {1} /\ least[1] \in ValuesOf(KIND[of]))
         /\ most = <<>> \/ (DOMAIN most = {1} /\ most[1] \in ValuesOf(KIND[of]))
         /\ least # <<>> /\ most # <<>> => AsReal(least[1]) <= AsReal(most[1])
         /\ Range(least \o most) \subseteq ValuesOf(KIND[of])
<1>1. /\ IsSequence(p.min) /\ \A literal \in Range(p.min) : IsLiteral(literal)
      /\ IsSequence(p.max) /\ \A literal \in Range(p.max) : IsLiteral(literal)
      /\ AtMostOne(p.min) /\ AtMostOne(p.max)
  BY DEF IsParameter, TakesAttributes
<1>2. /\ p.min = <<>> \/ (DOMAIN p.min = {1} /\ p.min[1] \in Range(p.min))
      /\ p.max = <<>> \/ (DOMAIN p.max = {1} /\ p.max[1] \in Range(p.max))
  BY <1>1, WrittenOnce
<1>3. ASSUME NEW bound \in {p.min, p.max}, bound # <<>>
      PROVE  /\ kind \in {"Integer", "Number"}
             /\ BoundOf(kind, bound[1]) \in ValuesOf(KIND[of])
  <2>1. Bounds(p) # <<>> /\ Range(Bounds(p)) = Range(p.min) \cup Range(p.max)
    BY <1>1, <1>3, Concatenated DEF Bounds
  <2>2. /\ kind \in {"Integer", "Number"}
        /\ \A literal \in Range(Bounds(p)) :
             IF kind = "Integer" THEN ParsesAsInteger(literal) ELSE ParsesAsNumber(literal)
    BY <2>1 DEF NumericBoundsFit, Range
  <2>3. bound[1] \in Range(Bounds(p)) /\ IsLiteral(bound[1])
    BY <1>1, <1>2, <1>3, <2>1
  <2>. QED  BY <2>2, <2>3, BoundRead
<1>4. p.min # <<>> /\ p.max # <<>> =>
        AsReal(BoundOf(kind, p.min[1])) <= AsReal(BoundOf(kind, p.max[1]))
  BY <1>1, Concatenated DEF NumericBoundsFit, Bounds
<1>5. /\ p.min = <<>> => least = <<>>
      /\ p.max = <<>> => most = <<>>
      /\ p.min # <<>> => least = <<BoundOf(kind, p.min[1])>>
      /\ p.max # <<>> => most = <<BoundOf(kind, p.max[1])>>
  BY <1>2 DEF Data
<1>6. /\ least = <<>> \/ (DOMAIN least = {1} /\ least[1] \in ValuesOf(KIND[of]))
      /\ most = <<>> \/ (DOMAIN most = {1} /\ most[1] \in ValuesOf(KIND[of]))
      /\ least # <<>> => p.min # <<>> /\ least[1] = BoundOf(kind, p.min[1])
      /\ most # <<>> => p.max # <<>> /\ most[1] = BoundOf(kind, p.max[1])
  BY <1>3, <1>5
<1>7. IsSequence(least) /\ IsSequence(most)
  BY <1>5, ShortLists
<1>8. least \o most # <<>> => KIND[of] \in {"INTEGER", "NUMBER"}
  BY <1>3, <1>6, <1>7, Concatenated, KindNames
<1>9. Range(least \o most) \subseteq ValuesOf(KIND[of])
  <2>1. Range(least) \subseteq ValuesOf(KIND[of]) /\ Range(most) \subseteq ValuesOf(KIND[of])
    BY <1>6 DEF Range
  <2>. QED  BY <1>7, <2>1, Concatenated
<1>. QED
  BY <1>4, <1>6, <1>7, <1>8, <1>9

LEMMA LengthsTaken ==
  ASSUME NEW p, IsParameter(p), TakesAttributes(p), NEW of \in Scalars,
         NEW kind, kind = KnownOptionKind[of], StringBoundsFit(kind, p),
         NEW least, least = Digits(p.minLength), NEW most, most = Digits(p.maxLength)
  PROVE  /\ least \o most # <<>> => KIND[of] = "STRING"
         /\ Range(least \o most) \subseteq 0..MaxLength
         /\ Range(most) \subseteq 1..MaxLength
         /\ least # <<>> /\ most # <<>> => least[1] <= most[1]
<1>1. /\ IsSequence(p.minLength) /\ \A literal \in Range(p.minLength) : IsLiteral(literal)
      /\ IsSequence(p.maxLength) /\ \A literal \in Range(p.maxLength) : IsLiteral(literal)
      /\ AtMostOne(p.minLength) /\ AtMostOne(p.maxLength)
  BY DEF IsParameter, TakesAttributes
<1>2. /\ p.minLength = <<>> \/ (DOMAIN p.minLength = {1} /\ p.minLength[1] \in Range(p.minLength))
      /\ p.maxLength = <<>> \/ (DOMAIN p.maxLength = {1} /\ p.maxLength[1] \in Range(p.maxLength))
  BY <1>1, WrittenOnce
<1>3. ASSUME NEW bound \in {p.minLength, p.maxLength}, bound # <<>>
      PROVE  kind = "String" /\ bound[1].digits \in Nat
  <2>1. Lengths(p) # <<>> /\ Range(Lengths(p)) = Range(p.minLength) \cup Range(p.maxLength)
    BY <1>1, <1>3, Concatenated DEF Lengths
  <2>2. kind = "String" /\ \A literal \in Range(Lengths(p)) : ParsesAsLength(literal)
    BY <2>1 DEF StringBoundsFit, Range
  <2>3. bound[1] \in Range(Lengths(p)) /\ IsLiteral(bound[1])
    BY <1>1, <1>2, <1>3, <2>1
  <2>. QED  BY <2>2, <2>3 DEF ParsesAsLength, IsLiteral
<1>4. /\ p.minLength # <<>> => p.minLength[1].digits <= MaxLength
      /\ p.maxLength # <<>> => p.maxLength[1].digits \in 1..MaxLength
      /\ p.minLength # <<>> /\ p.maxLength # <<>> =>
           p.minLength[1].digits <= p.maxLength[1].digits
  BY <1>1, Concatenated DEF StringBoundsFit, Lengths
<1>5. /\ p.minLength = <<>> => least = <<>>
      /\ p.maxLength = <<>> => most = <<>>
      /\ p.minLength # <<>> => least = <<p.minLength[1].digits>>
      /\ p.maxLength # <<>> => most = <<p.maxLength[1].digits>>
  BY <1>2 DEF Digits
<1>6. IsSequence(least) /\ IsSequence(most)
  BY <1>5, ShortLists
<1>7. /\ Range(least) \subseteq 0..MaxLength
      /\ Range(most) \subseteq 1..MaxLength
  BY <1>3, <1>4, <1>5, MacroAssumption DEF Range
<1>8. Range(least \o most) \subseteq 0..MaxLength
  BY <1>6, <1>7, Concatenated, MacroAssumption
<1>9. least \o most # <<>> => KIND[of] = "STRING"
  BY <1>3, <1>5, <1>6, Concatenated, KindNames
<1>. QED
  BY <1>4, <1>5, <1>7, <1>8, <1>9

\* What an accepted parameter registers, with the facts its extraction needs.
LEMMA ScalarOption ==
  ASSUME NEW p, IsParameter(p), OptionFits(p), ~IsTyped(p), NEW o, o = OptionDescriptor(p)
  PROVE  /\ p.type.of \in Scalars /\ o.kind = KIND[p.type.of]
         /\ DiscordTakesOption(o)
         /\ o.autocomplete => o.kind \in {"STRING", "INTEGER", "NUMBER"} /\ ~o.choices
         /\ p.type.of \in IdTypes => LegalValues(o) \subseteq Snowflakes
<1>. DEFINE of == p.type.of
            kind == KnownOptionKind[of]
            offered == InlineChoices(kind, p.inline)
            least == Data(kind, p.min)
            most == Data(kind, p.max)
            shortest == Digits(p.minLength)
            longest == Digits(p.maxLength)
<1>1. /\ TakesAttributes(p) /\ ValidateName(p.ident)
      /\ of \in Scalars
      /\ p.autocomplete # <<>> => p.inline = <<>> /\ kind \in ChoiceTypes
      /\ InlineAccepts(kind, p.inline)
      /\ NumericBoundsFit(kind, p) /\ StringBoundsFit(kind, p)
  BY DEF OptionFits, ScalarOptionFits, HasType, OptionKind, Scalars
<1>2. /\ o.name = p.ident /\ o.kind = KIND[of]
      /\ o.choices = (offered # <<>>) /\ o.offered = offered
      /\ o.autocomplete = (p.autocomplete # <<>>)
      /\ o.min = least /\ o.max = most /\ o.minLength = shortest /\ o.maxLength = longest
  BY DEF OptionDescriptor, KindOf, OptionKind
<1>3. /\ DOMAIN offered = DOMAIN p.inline
      /\ \A n \in DOMAIN p.inline : kind \in ChoiceTypes /\ offered[n].value.type = kind
  <2>1. IsSequence(p.inline) /\ \A n \in DOMAIN p.inline : IsArgs(p.inline[n])
    BY DEF IsParameter, Range
  <2>. HIDE DEF offered, kind
  <2>2. offered = InlineChoices(kind, p.inline)
    BY DEF offered
  <2>. QED  BY <1>1, <2>1, <2>2, InlineAccepted
<1>4. p.inline = <<>> => offered = <<>>
  BY DEF InlineChoices
<1>5. /\ kind = "String" <=> of = "String"
      /\ kind = "Integer" <=> of = "i64"
      /\ kind = "Number" <=> of = "f64"
      /\ KIND[of] = "STRING" <=> of = "String"
      /\ KIND[of] = "INTEGER" <=> of = "i64"
      /\ KIND[of] = "NUMBER" <=> of = "f64"
      /\ kind \in ChoiceTypes => SubmittedType(KIND[of]) = kind
      /\ of \in IdTypes => ValuesOf(KIND[of]) = Snowflakes
  BY <1>1, KindNames
<1>6. /\ least \o most # <<>> => KIND[of] \in {"INTEGER", "NUMBER"}
      /\ least = <<>> \/ (DOMAIN least = {1} /\ least[1] \in ValuesOf(KIND[of]))
      /\ most = <<>> \/ (DOMAIN most = {1} /\ most[1] \in ValuesOf(KIND[of]))
      /\ least # <<>> /\ most # <<>> => AsReal(least[1]) <= AsReal(most[1])
      /\ Range(least \o most) \subseteq ValuesOf(KIND[of])
  BY <1>1, BoundsTaken
<1>7. /\ shortest \o longest # <<>> => KIND[of] = "STRING"
      /\ Range(shortest \o longest) \subseteq 0..MaxLength
      /\ Range(longest) \subseteq 1..MaxLength
      /\ shortest # <<>> /\ longest # <<>> => shortest[1] <= longest[1]
  BY <1>1, LengthsTaken
<1>. HIDE DEF kind, offered, least, most, shortest, longest
<1>8. o.choices => kind \in ChoiceTypes /\ KIND[of] \in {"STRING", "INTEGER", "NUMBER"}
  <2>1. p.inline # <<>> => \E n : n \in DOMAIN p.inline
    <3>1. p.inline # <<>> => Len(p.inline) # 0 /\ Len(p.inline) \in Nat
      BY EmptySeq DEF IsParameter, IsSequence
    <3>2. DOMAIN p.inline = 1..Len(p.inline)
      BY DEF IsParameter, IsSequence
    <3>. QED  BY <3>1, <3>2
  <2>2. offered # <<>> => kind \in ChoiceTypes
    BY <1>3, <1>4, <2>1
  <2>. QED  BY <1>2, <1>5, <2>2 DEF ChoiceTypes
<1>9. \A choice \in Range(o.offered) : SubmittedType(o.kind) = choice.value.type
  BY <1>2, <1>3, <1>5 DEF Range
<1>10. o.kind \in {"INTEGER", "NUMBER"} => LegalValues(o) # {}
  <2>1. CASE offered = <<>>
    <3>. QED  BY <1>2, <1>6, <2>1, BoundsLeaveValue
  <2>2. CASE offered # <<>>
    <3>1. LegalValues(o) = {choice.value.data : choice \in Range(offered)}
      BY <1>2, <2>2 DEF LegalValues
    <3>2. \E n : n \in DOMAIN offered
      <4>1. p.inline # <<>> /\ IsSequence(p.inline)
        BY <1>4, <2>2 DEF IsParameter
      <4>2. Len(p.inline) # 0 /\ Len(p.inline) \in Nat /\ DOMAIN p.inline = 1..Len(p.inline)
        BY <4>1, EmptySeq DEF IsSequence
      <4>. QED  BY <1>3, <4>2
    <3>. QED  BY <3>1, <3>2 DEF Range
  <2>. QED  BY <2>1, <2>2
<1>11. DiscordTakesOption(o)
  BY <1>1, <1>2, <1>6, <1>7, <1>8, <1>9, <1>10 DEF DiscordTakesOption
<1>12. o.autocomplete => o.kind \in {"STRING", "INTEGER", "NUMBER"} /\ ~o.choices
  BY <1>1, <1>2, <1>4, <1>5 DEF ChoiceTypes
<1>13. of \in IdTypes => LegalValues(o) \subseteq Snowflakes
  <2>1. of \in IdTypes => kind \notin ChoiceTypes /\ KIND[of] \notin {"STRING", "INTEGER", "NUMBER"}
    BY <1>5 DEF IdTypes, ChoiceTypes
  <2>2. of \in IdTypes => o.offered = <<>>
    BY <1>2, <1>8, <2>1
  <2>. QED  BY <1>2, <1>5, <2>2 DEF LegalValues
<1>. QED
  BY <1>1, <1>2, <1>11, <1>12, <1>13

LEMMA EnumOption ==
  ASSUME NEW p, IsParameter(p), OptionFits(p), IsTyped(p), p.type.of \in DOMAIN Enums,
         NEW o, o = OptionDescriptor(p)
  PROVE  /\ o.kind = KIND[ScalarOf[EnumType(Enums[p.type.of])]]
         /\ LegalValues(o) =
              {choice.value.data : choice \in Range(DerivedChoices(Enums[p.type.of]))}
         /\ DiscordTakesOption(o)
         /\ ~o.autocomplete
<1>. DEFINE s == Enums[p.type.of]
            of == EnumType(s)
            offered == DerivedChoices(s)
<1>1. /\ ValidateName(p.ident) /\ p.autocomplete = <<>>
      /\ p.min = <<>> /\ p.max = <<>> /\ p.minLength = <<>> /\ p.maxLength = <<>>
  <2>1. /\ ValidateName(p.ident) /\ p.autocomplete = <<>>
        /\ Bounds(p) = <<>> /\ Lengths(p) = <<>>
    BY DEF OptionFits, TypedOptionFits
  <2>2. /\ IsSequence(p.min) /\ IsSequence(p.max)
        /\ IsSequence(p.minLength) /\ IsSequence(p.maxLength)
    BY DEF IsParameter
  <2>. QED  BY <2>1, <2>2, Concatenated DEF Bounds, Lengths
<1>2. /\ o.name = p.ident /\ o.kind = KIND[ScalarOf[of]]
      /\ o.choices = (offered # <<>>) /\ o.offered = offered
      /\ o.autocomplete = (p.autocomplete # <<>>)
      /\ o.min = <<>> /\ o.max = <<>> /\ o.minLength = <<>> /\ o.maxLength = <<>>
  BY <1>1 DEF OptionDescriptor, KindOf, Digits
<1>3. /\ of \in ChoiceTypes /\ DOMAIN offered = DOMAIN s /\ 1 \in DOMAIN s
      /\ \A n \in DOMAIN s : offered[n].value.type = of
  <2>1. /\ IsSequence(s) /\ \A n \in DOMAIN s : IsVariant(s[n])
        /\ DeriveAccepts(s)
    BY MacroAssumption
  <2>. HIDE DEF s, of, offered
  <2>2. of = EnumType(s) /\ offered = DerivedChoices(s)
    BY DEF of, offered
  <2>3. /\ of \in ChoiceTypes /\ DOMAIN offered = DOMAIN s /\ Len(s) \in 1..MaxChoices
        /\ \A n \in DOMAIN s : offered[n].value.type = of
    BY <2>1, <2>2, EnumAccepted
  <2>4. DOMAIN s = 1..Len(s) /\ Len(s) \in Nat
    BY <2>1 DEF IsSequence
  <2>5. 1 \in DOMAIN s
    BY <2>3, <2>4, ChoicesAssumption
  <2>. QED  BY <2>3, <2>5
<1>. HIDE DEF s, of, offered
<1>4. /\ ScalarOf[of] \in Scalars
      /\ KIND[ScalarOf[of]] \in {"STRING", "INTEGER", "NUMBER"}
      /\ SubmittedType(KIND[ScalarOf[of]]) = of
  BY <1>3 DEF ChoiceTypes, ScalarOf, KIND, SubmittedType, Scalars, KnownOptionKind
<1>5. offered # <<>>
  BY <1>3
<1>6. LegalValues(o) = {choice.value.data : choice \in Range(offered)}
  BY <1>2, <1>5 DEF LegalValues
<1>7. LegalValues(o) # {}
  BY <1>3, <1>6 DEF Range
<1>8. \A choice \in Range(o.offered) : SubmittedType(o.kind) = choice.value.type
  BY <1>2, <1>3, <1>4 DEF Range
<1>9. (<<>>) \o (<<>>) = <<>> /\ Range(<<>>) = {}
  <2>1. IsSequence(<<>>)
    BY ShortLists
  <2>2. Range(<<>>) = {}
    BY DEF Range
  <2>3. (<<>>) \o (<<>>) = <<>>
    BY <2>1, Concatenated
  <2>. QED  BY <2>2, <2>3
<1>10. DiscordTakesOption(o)
  BY <1>1, <1>2, <1>4, <1>7, <1>8, <1>9 DEF DiscordTakesOption
<1>. QED
  BY <1>1, <1>2, <1>6, <1>10 DEF s, of, offered

\* What the rules about a whole command need to know of each of its options.
LEMMA OptionDescribed ==
  ASSUME NEW p, IsParameter(p), OptionFits(p), IsTyped(p) => p.type.of \in DOMAIN Enums,
         NEW o, o = OptionDescriptor(p)
  PROVE  /\ o.name = p.ident /\ o.required = IsRequired(p)
         /\ o.autocomplete = (p.autocomplete # <<>>)
         /\ o.kind \notin Hierarchical
         /\ DiscordTakesOption(o)
         /\ o.autocomplete => o.kind \in {"STRING", "INTEGER", "NUMBER"} /\ ~o.choices
<1>1. /\ o.name = p.ident /\ o.required = IsRequired(p)
      /\ o.autocomplete = (p.autocomplete # <<>>)
  BY DEF OptionDescriptor
<1>2. o.kind \notin Hierarchical
  <2>1. KIND \in [Scalars -> {"STRING", "BOOLEAN", "INTEGER", "NUMBER", "USER", "CHANNEL",
                              "ROLE", "ATTACHMENT"}]
    BY DEF KIND, Scalars, KnownOptionKind
  <2>2. CASE IsTyped(p)
    <3>1. EnumType(Enums[p.type.of]) \in ChoiceTypes
      BY <2>2, MacroAssumption, EnumAccepted
    <3>2. ScalarOf[EnumType(Enums[p.type.of])] \in Scalars
      BY <3>1 DEF ChoiceTypes, ScalarOf, Scalars, KnownOptionKind
    <3>. QED  BY <2>1, <2>2, <3>2, EnumOption DEF Hierarchical
  <2>3. CASE ~IsTyped(p)
    BY <2>1, <2>3, ScalarOption DEF Hierarchical
  <2>. QED  BY <2>2, <2>3
<1>. QED
  BY <1>1, <1>2, ScalarOption, EnumOption

-----------------------------------------------------------------------------
(* Leaves.                                                                     *)

TypesKnown(function) ==
  \A parameter \in Range(function.parameters) :
    IsTyped(parameter) => parameter.type.of \in DOMAIN Enums

LEMMA LeafOptions ==
  ASSUME NEW f, IsFunction(f), CommandAccepts(f), TypesKnown(f),
         NEW node, node = Leaf(f)
  PROVE  /\ IsSequence(node.options) /\ IsSequence(f.parameters)
         /\ DOMAIN node.options = DOMAIN f.parameters
         /\ Len(node.options) = Len(f.parameters)
         /\ \A n \in DOMAIN f.parameters :
              /\ IsParameter(f.parameters[n]) /\ OptionFits(f.parameters[n])
              /\ node.options[n] = OptionDescriptor(f.parameters[n])
              /\ node.options[n].name = f.parameters[n].ident
              /\ node.options[n].required = IsRequired(f.parameters[n])
              /\ node.options[n].autocomplete = (f.parameters[n].autocomplete # <<>>)
              /\ node.options[n].kind \notin Hierarchical
              /\ DiscordTakesOption(node.options[n])
              /\ node.options[n].autocomplete =>
                   /\ node.options[n].kind \in {"STRING", "INTEGER", "NUMBER"}
                   /\ ~node.options[n].choices
         /\ \A m, n \in DOMAIN f.parameters :
              f.parameters[m].ident = f.parameters[n].ident => m = n
<1>. DEFINE options == node.options
            parameters == f.parameters
<1>1. /\ IsSequence(parameters)
      /\ \A n \in DOMAIN parameters :
           /\ IsParameter(parameters[n]) /\ OptionFits(parameters[n])
           /\ IsTyped(parameters[n]) => parameters[n].type.of \in DOMAIN Enums
  BY DEF IsFunction, CommandAccepts, OptionsFit, TypesKnown, Range
<1>2. options = [n \in DOMAIN parameters |-> OptionDescriptor(parameters[n])]
  BY DEF Leaf
<1>3. IsSequence(options) /\ DOMAIN options = DOMAIN parameters /\ Len(options) = Len(parameters)
  <2>1. options = [n \in DOMAIN parameters |-> options[n]]
    BY <1>2
  <2>. QED  BY <1>1, <2>1, MappedList
<1>4. \A m, n \in DOMAIN parameters : parameters[m].ident = parameters[n].ident => m = n
  BY DEF IsFunction, IsInjective
<1>5. ASSUME NEW n \in DOMAIN parameters
      PROVE  /\ options[n] = OptionDescriptor(parameters[n])
             /\ options[n].name = parameters[n].ident
             /\ options[n].required = IsRequired(parameters[n])
             /\ options[n].autocomplete = (parameters[n].autocomplete # <<>>)
             /\ options[n].kind \notin Hierarchical
             /\ DiscordTakesOption(options[n])
             /\ options[n].autocomplete =>
                  options[n].kind \in {"STRING", "INTEGER", "NUMBER"} /\ ~options[n].choices
  <2>1. options[n] = OptionDescriptor(parameters[n])
    BY <1>2
  <2>. QED  BY <1>1, <2>1, OptionDescribed
<1>. QED
  BY <1>1, <1>3, <1>4, <1>5

\* What the macro attaches to the options that complete: one handler each.
LEMMA LeafHandlers ==
  ASSUME NEW f, IsFunction(f),
         NEW node, node = Leaf(f)
  PROVE  /\ IsSequence(node.handlers)
         /\ \A k \in DOMAIN node.handlers :
              \E n \in DOMAIN f.parameters :
                /\ f.parameters[n].autocomplete # <<>>
                /\ node.handlers[k] =
                     [option |-> f.parameters[n].ident, handler |-> f.parameters[n].autocomplete[1].to]
         /\ \A n \in DOMAIN f.parameters :
              f.parameters[n].autocomplete # <<>> =>
                \E k \in DOMAIN node.handlers : node.handlers[k].option = f.parameters[n].ident
         /\ \A j, k \in DOMAIN node.handlers :
              node.handlers[j].option = node.handlers[k].option => j = k
<1>. DEFINE parameters == f.parameters
<1>. DEFINE S == {n \in DOMAIN parameters : parameters[n].autocomplete # <<>>}
            completing == Completing(parameters)
<1>1. IsSequence(parameters) /\ S \subseteq DOMAIN parameters /\ completing = Kept(parameters, S)
  BY DEF IsFunction, Completing
<1>2. node.handlers =
        [k \in DOMAIN completing |->
           [option |-> completing[k].ident, handler |-> completing[k].autocomplete[1].to]]
  BY DEF Leaf
<1>. HIDE DEF completing, S
<1>3. /\ IsSequence(completing)
      /\ Range(completing) = {parameters[n] : n \in S}
      /\ \A k \in DOMAIN completing : Nth(S, k) \in S /\ completing[k] = parameters[Nth(S, k)]
      /\ \A j, k \in DOMAIN completing : Nth(S, j) = Nth(S, k) => j = k
  BY <1>1, KeptList
<1>4. DOMAIN node.handlers = DOMAIN completing
  BY <1>2
<1>5. IsSequence(node.handlers)
  <2>1. node.handlers = [k \in DOMAIN completing |-> node.handlers[k]]
    BY <1>2
  <2>. QED  BY <1>3, <2>1, MappedList
<1>6. \A m, n \in DOMAIN parameters : parameters[m].ident = parameters[n].ident => m = n
  BY DEF IsFunction, IsInjective
<1>7. ASSUME NEW k \in DOMAIN node.handlers
      PROVE  \E n \in DOMAIN parameters :
               /\ parameters[n].autocomplete # <<>>
               /\ node.handlers[k] =
                    [option |-> parameters[n].ident, handler |-> parameters[n].autocomplete[1].to]
  <2>1. PICK n \in S : completing[k] = parameters[n]
    BY <1>3, <1>4
  <2>2. n \in DOMAIN parameters /\ parameters[n].autocomplete # <<>>
    BY DEF S
  <2>3. node.handlers[k] =
          [option |-> completing[k].ident, handler |-> completing[k].autocomplete[1].to]
    BY <1>2, <1>4
  <2>. QED  BY <2>1, <2>2, <2>3
<1>8. ASSUME NEW n \in DOMAIN parameters, parameters[n].autocomplete # <<>>
      PROVE  \E k \in DOMAIN node.handlers : node.handlers[k].option = parameters[n].ident
  <2>1. n \in S
    BY <1>8 DEF S
  <2>2. PICK k \in DOMAIN completing : completing[k] = parameters[n]
    BY <1>3, <2>1 DEF Range
  <2>. QED  BY <1>2, <2>2
<1>9. ASSUME NEW j \in DOMAIN node.handlers, NEW k \in DOMAIN node.handlers,
             node.handlers[j].option = node.handlers[k].option
      PROVE  j = k
  <2>1. completing[j].ident = completing[k].ident /\ j \in DOMAIN completing /\ k \in DOMAIN completing
    BY <1>2, <1>9
  <2>2. Nth(S, j) = Nth(S, k)
    BY <1>1, <1>3, <1>6, <2>1
  <2>. QED  BY <1>3, <2>1, <2>2
<1>. QED
  BY <1>5, <1>7, <1>8, <1>9

\* An accepted function is a leaf the registry has nothing to say about.
LEMMA LeafOfFunction ==
  ASSUME NEW function, IsFunction(function), CommandAccepts(function), TypesKnown(function),
         NEW node, node = Leaf(function)
  PROVE  /\ IsLeaf(node) /\ node.children = <<>> /\ IsNode(node)
         /\ WellFormedLeaf(node) /\ ValidateLeaf(node) = "Ok"
         /\ DiscordTakes(node)
         /\ node.parameters = function.parameters
<1>. DEFINE parameters == function.parameters
            options == node.options
            handlers == node.handlers
            handled == HandledOptions(node)
<1>0. parameters = function.parameters /\ options = node.options /\ handlers = node.handlers
  OBVIOUS
<1>. HIDE DEF parameters, options, handlers
<1>1. /\ IsLeaf(node) /\ node.children = <<>> /\ node.parameters = parameters
      /\ node.limit = IF function.args.limits = <<>> THEN NoLimit ELSE function.args.limits[1]
  BY <1>0 DEF Leaf, IsLeaf
<1>2. /\ IsSequence(options) /\ IsSequence(parameters)
      /\ DOMAIN options = DOMAIN parameters /\ Len(options) = Len(parameters)
      /\ \A n \in DOMAIN parameters :
           /\ options[n].name = parameters[n].ident
           /\ options[n].required = IsRequired(parameters[n])
           /\ options[n].autocomplete = (parameters[n].autocomplete # <<>>)
           /\ options[n].kind \notin Hierarchical
           /\ DiscordTakesOption(options[n])
           /\ options[n].autocomplete =>
                options[n].kind \in {"STRING", "INTEGER", "NUMBER"} /\ ~options[n].choices
      /\ \A m, n \in DOMAIN parameters : parameters[m].ident = parameters[n].ident => m = n
  BY <1>0, LeafOptions
<1>3. /\ IsSequence(handlers)
      /\ \A k \in DOMAIN handlers :
           \E n \in DOMAIN parameters :
             /\ parameters[n].autocomplete # <<>>
             /\ handlers[k] =
                  [option |-> parameters[n].ident, handler |-> parameters[n].autocomplete[1].to]
      /\ \A n \in DOMAIN parameters :
           parameters[n].autocomplete # <<>> =>
             \E k \in DOMAIN handlers : handlers[k].option = parameters[n].ident
      /\ \A j, k \in DOMAIN handlers : handlers[j].option = handlers[k].option => j = k
  BY <1>0, LeafHandlers
<1>4. /\ handled = [k \in DOMAIN handlers |-> handlers[k].option]
      /\ DOMAIN handled = DOMAIN handlers /\ DOMAIN handled = 1..Len(handled)
  <2>1. handled = [k \in DOMAIN handlers |-> handlers[k].option]
    BY <1>0 DEF HandledOptions
  <2>2. handled = [k \in DOMAIN handlers |-> handled[k]]
    BY <2>1
  <2>. HIDE DEF handled
  <2>. QED  BY <1>3, <2>1, <2>2, MappedList
<1>5. function.args.limits # <<>> => node.limit # 0
  <2>1. IsSequence(function.args.limits) /\ 0 \notin Range(function.args.limits)
        /\ AtMostOne(function.args.limits)
    BY DEF IsFunction, CommandAccepts, ParsesAsCommandArgs
  <2>. QED  BY <1>1, <2>1, WrittenOnce
<1>6. node.limit # 0
  BY <1>1, <1>5 DEF NoLimit
<1>. HIDE DEF handled
<1>7. HandlersFit(node)
  <2>1. IsInjective(handled)
    BY <1>3, <1>4 DEF IsInjective
  <2>2. ASSUME NEW k \in DOMAIN handled
        PROVE  Named(options, handled[k]) # {} /\ Find(options, handled[k]).autocomplete
    <3>1. PICK n \in DOMAIN parameters :
            /\ parameters[n].autocomplete # <<>>
            /\ handlers[k] =
                 [option |-> parameters[n].ident, handler |-> parameters[n].autocomplete[1].to]
      BY <1>3, <1>4
    <3>2. handled[k] = parameters[n].ident /\ n \in Named(options, handled[k])
      BY <1>2, <1>4, <3>1 DEF Named
    <3>3. PICK m \in DOMAIN options :
            Find(options, handled[k]) = options[m] /\ options[m].name = handled[k]
      BY <1>2, <3>2, FoundIsNamed DEF Range
    <3>4. m = n
      BY <1>2, <3>2, <3>3
    <3>. QED  BY <1>2, <3>1, <3>2, <3>3, <3>4
  <2>. QED  BY <2>1, <2>2 DEF HandlersFit, Range, handled, options
<1>8. AutocompleteOptionsFit(node)
  <2>1. ASSUME NEW n \in DOMAIN options, options[n].autocomplete
        PROVE  /\ options[n].kind \in {"STRING", "INTEGER", "NUMBER"} /\ ~options[n].choices
               /\ Contains(handled, options[n].name)
    <3>1. parameters[n].autocomplete # <<>> /\ n \in DOMAIN parameters
      BY <1>2, <2>1
    <3>2. PICK k \in DOMAIN handlers : handlers[k].option = parameters[n].ident
      BY <1>3, <3>1
    <3>3. k \in 1..Len(handled) /\ handled[k] = options[n].name
      BY <1>2, <1>4, <3>1, <3>2
    <3>. QED  BY <1>2, <2>1, <3>3 DEF Contains
  <2>. QED  BY <2>1 DEF AutocompleteOptionsFit, handled, options
<1>9. IsNode(node)
  <2>1. \A entry \in Range(handlers) : entry = [option |-> entry.option, handler |-> entry.handler]
    BY <1>3 DEF Range
  <2>2. Kinds(options) \cap Hierarchical = {}
    BY <1>2 DEF Kinds
  <2>3. IsSequence(<<>>)
    BY ShortLists
  <2>. QED  BY <1>1, <1>2, <1>3, <2>1, <2>2, <2>3 DEF IsNode, handlers, options
<1>10. DiscordTakes(node)
  <2>1. Distinct(options)
    <3>1. \A m, n \in DOMAIN options : options[m].name = options[n].name => m = n
      BY <1>2
    <3>2. options = [n \in DOMAIN options |-> options[n]]
      BY <1>2 DEF IsSequence
    <3>. QED  BY <1>2, <3>1, <3>2, DistinctNames
  <2>2. OptionsFit(parameters)
    BY DEF CommandAccepts, parameters
  <2>3. \A n \in DOMAIN parameters : \A m \in 1..(n - 1) : m \in DOMAIN parameters
    BY <1>2 DEF IsSequence
  <2>4. Len(options) <= MaxOptions
    BY <1>2, <2>2 DEF OptionsFit
  <2>5. ASSUME NEW n \in DOMAIN options
        PROVE  /\ DiscordTakesOption(options[n])
               /\ options[n].required => \A m \in 1..(n - 1) : options[m].required
    BY <1>2, <2>2, <2>3 DEF OptionsFit
  <2>6. RequiredFirst(options) /\ ChoicesFit(options)
    BY <2>5 DEF RequiredFirst, ChoicesFit, Choosable, DiscordTakesOption
  <2>7. Len(node.children) <= MaxOptions
    BY <1>1, EmptyLevel
  <2>. QED  BY <2>1, <2>4, <2>5, <2>6, <2>7 DEF DiscordTakes, WithinLimits, options
<1>11. WellFormedLeaf(node) /\ ValidateLeaf(node) = "Ok"
  BY <1>1, <1>6, <1>7, <1>8 DEF WellFormedLeaf, ValidateLeaf
<1>. QED
  BY <1>1, <1>9, <1>10, <1>11 DEF options, parameters

\* Its checks and completers are helpers of the program.
LEMMA LeafLinked ==
  ASSUME Links, NEW function \in Functions, IsFunction(function), CommandAccepts(function),
         NEW node, node = Leaf(function)
  PROVE  TypesKnown(function) /\ HelpersKnown(node)
<1>. DEFINE state == StateType(function.signature)
<1>1. /\ \A check \in Range(function.args.checks) : Resolves(check, "check", state)
      /\ \A p \in Range(function.parameters) :
           /\ \A handler \in Range(p.autocomplete) : Resolves(handler, "autocomplete", state)
           /\ IsTyped(p) => p.type.of \in DOMAIN Enums
  BY DEF Links
<1>2. \A macro, reference : Resolves(reference, macro, state) => reference.to \in Idents(macro)
  BY DEF Resolves, Idents
<1>. HIDE DEF state
<1>3. Range(node.policy.checks) \subseteq Idents("check")
  <2>1. node.policy.checks = [n \in DOMAIN function.args.checks |-> function.args.checks[n].to]
    BY DEF Leaf, PolicyOf
  <2>. QED  BY <1>1, <1>2, <2>1 DEF Range
<1>4. ASSUME NEW k \in DOMAIN node.handlers
      PROVE  node.handlers[k].handler \in Idents("autocomplete")
  <2>. DEFINE parameters == function.parameters
  <2>0. parameters = function.parameters
    OBVIOUS
  <2>. HIDE DEF parameters
  <2>1. PICK n \in DOMAIN parameters :
          /\ parameters[n].autocomplete # <<>>
          /\ node.handlers[k] =
               [option |-> parameters[n].ident, handler |-> parameters[n].autocomplete[1].to]
    BY <2>0, LeafHandlers
  <2>2. parameters[n] \in Range(parameters)
    BY DEF Range
  <2>3. IsSequence(parameters[n].autocomplete) /\ AtMostOne(parameters[n].autocomplete)
    BY <2>0, <2>2 DEF IsFunction, IsParameter, CommandAccepts, OptionsFit, OptionFits, TakesAttributes
  <2>4. parameters[n].autocomplete[1] \in Range(parameters[n].autocomplete)
    BY <2>1, <2>3, WrittenOnce
  <2>. QED  BY <1>1, <1>2, <2>0, <2>1, <2>2, <2>4
<1>. QED
  BY <1>1, <1>3, <1>4 DEF TypesKnown, HelpersKnown, Range

-----------------------------------------------------------------------------
(* Trees.                                                                      *)

Accepted(function) == IsFunction(function) /\ CommandAccepts(function) /\ TypesKnown(function)

\* A loop that fails at all fails with one of its verdicts.
LEMMA SomeFailure ==
  ASSUME NEW s, IsSequence(s), NEW verdicts, DOMAIN verdicts = DOMAIN s,
         FirstFailure(verdicts) # "Ok"
  PROVE  \E n \in DOMAIN s : verdicts[n] # "Ok" /\ FirstFailure(verdicts) = verdicts[n]
<1>. DEFINE bad == {n \in DOMAIN verdicts : verdicts[n] # "Ok"}
<1>1. bad # {} => Min(bad) \in bad
  BY LeastOfList DEF IsSequence
<1>. QED
  BY <1>1 DEF FirstFailure

\* Where the leaves have nothing wrong with them, only names can be.
LEMMA OnlyNamesFail ==
  ASSUME NEW children, IsSequence(children), NEW groups,
         \A n \in DOMAIN children :
           IF IsLeaf(children[n]) THEN ValidateLeaf(children[n]) = "Ok"
           ELSE groups[n] \in {"Ok", "DuplicateCommandPath"},
         ValidateChildren(children, groups) # "Ok"
  PROVE  /\ ValidateChildren(children, groups) = "DuplicateCommandPath"
         /\ \/ HasNamesakes(children)
            \/ \E n \in DOMAIN children :
                 ~IsLeaf(children[n]) /\ groups[n] = "DuplicateCommandPath"
<1>. DEFINE verdicts == [n \in DOMAIN children |->
              IF RepeatsSibling(children, n) THEN "DuplicateCommandPath"
              ELSE IF IsLeaf(children[n]) THEN ValidateLeaf(children[n])
              ELSE groups[n]]
<1>1. ValidateChildren(children, groups) = FirstFailure(verdicts)
  BY DEF ValidateChildren
<1>2. PICK n \in DOMAIN children : verdicts[n] # "Ok" /\ FirstFailure(verdicts) = verdicts[n]
  <2>1. DOMAIN verdicts = DOMAIN children
    OBVIOUS
  <2>. HIDE DEF verdicts
  <2>. QED  BY <1>1, <2>1, SomeFailure
<1>3. verdicts[n] = IF RepeatsSibling(children, n) THEN "DuplicateCommandPath"
                    ELSE IF IsLeaf(children[n]) THEN ValidateLeaf(children[n])
                    ELSE groups[n]
  OBVIOUS
<1>. HIDE DEF verdicts
<1>4. CASE RepeatsSibling(children, n)
  <2>1. PICK m \in 1..(n - 1) : children[m].name = children[n].name
    BY <1>4 DEF RepeatsSibling
  <2>2. m \in DOMAIN children /\ m # n
    BY DEF IsSequence
  <2>3. HasNamesakes(children)
    BY <2>1, <2>2 DEF HasNamesakes
  <2>. QED  BY <1>1, <1>2, <1>3, <1>4, <2>3
<1>5. CASE ~RepeatsSibling(children, n)
  BY <1>1, <1>2, <1>3, <1>5
<1>. QED
  BY <1>4, <1>5

LEMMA ChildrenOf ==
  ASSUME NEW module, IsModule(module)
  PROVE  /\ IsSequence(Children(module))
         /\ \A n \in DOMAIN Children(module) :
              Children(module)[n] \in FunctionsOf(module) \cup ModulesOf(module)
<1>. DEFINE S == {n \in DOMAIN module.items : module.items[n].kind # "other"}
            children == Children(module)
<1>1. IsSequence(module.items) /\ S \subseteq DOMAIN module.items /\ children = Kept(module.items, S)
  BY DEF IsModule, Children
<1>2. \A n \in S : module.items[n] \in FunctionsOf(module) \cup ModulesOf(module)
  BY DEF IsModule, FunctionsOf, ModulesOf, Range
<1>. HIDE DEF S, children
<1>3. /\ IsSequence(children)
      /\ \A k \in DOMAIN children : Nth(S, k) \in S /\ children[k] = module.items[Nth(S, k)]
  BY <1>1, KeptList
<1>4. \A k \in DOMAIN children : children[k] \in FunctionsOf(module) \cup ModulesOf(module)
  BY <1>2, <1>3
<1>. QED
  BY <1>3, <1>4 DEF children

\* A nested module of functions.
LEMMA Subgroup ==
  ASSUME NEW module, IsModule(module), GroupAccepts(module), ModulesOf(module) = {},
         \A function \in FunctionsOf(module) : Accepted(function),
         NEW node, node = GroupNode(module, LeavesOf(module))
  PROVE  /\ IsGroup(node) /\ ~IsLeaf(node) /\ IsNode(node)
         /\ \A child \in Range(node.children) :
              \E function \in FunctionsOf(module) : child = Leaf(function)
         /\ \/ ValidateSubgroup(node) = "Ok"
            \/ ValidateSubgroup(node) = "DuplicateCommandPath" /\ HasNamesakes(node.children)
<1>. DEFINE children == node.children
            refusals == [n \in DOMAIN children |-> "InvalidCommandHierarchy"]
<1>1. /\ node.kind = "group" /\ node.options = <<>> /\ node.handlers = <<>>
      /\ children = [n \in DOMAIN Children(module) |-> Leaf(Children(module)[n])]
  BY DEF GroupNode, LeavesOf
<1>2. /\ IsSequence(Children(module))
      /\ \A n \in DOMAIN Children(module) : Children(module)[n] \in FunctionsOf(module)
  BY ChildrenOf
<1>3. IsSequence(children) /\ DOMAIN children = DOMAIN Children(module)
  <2>1. children = [n \in DOMAIN Children(module) |-> children[n]]
    BY <1>1
  <2>. HIDE DEF children
  <2>. QED  BY <1>2, <2>1, MappedList
<1>4. \A n \in DOMAIN children :
        \E function \in FunctionsOf(module) : children[n] = Leaf(function)
  BY <1>1, <1>2
<1>5. \A n \in DOMAIN children : IsLeaf(children[n]) /\ ValidateLeaf(children[n]) = "Ok"
  BY <1>4, LeafOfFunction DEF Accepted
<1>6. children # <<>>
  BY <1>2, <1>3, NeverEmptied DEF GroupAccepts
<1>7. IsGroup(node) /\ ~IsLeaf(node) /\ IsNode(node)
  <2>1. IsSequence(<<>>) /\ Kinds(<<>>) = {} /\ Range(<<>>) = {}
    BY ShortLists DEF Kinds, Range
  <2>. QED  BY <1>1, <1>3, <2>1 DEF IsGroup, IsLeaf, IsNode
<1>8. ValidateSubgroup(node) = ValidateChildren(children, refusals)
  BY <1>1, <1>5, <1>6 DEF ValidateSubgroup, IsGroup, IsLeaf
<1>. HIDE DEF refusals
<1>9. \/ ValidateChildren(children, refusals) = "Ok"
      \/ /\ ValidateChildren(children, refusals) = "DuplicateCommandPath"
         /\ HasNamesakes(children)
  <2>. HIDE DEF children
  <2>. QED  BY <1>3, <1>5, OnlyNamesFail
<1>. QED
  BY <1>4, <1>7, <1>8, <1>9 DEF Range

\* The functions of a source, and those of the modules in it.
LEMMA SourceFunctions ==
  ASSUME NEW source, source.kind = "mod"
  PROVE  \A module \in ModulesOf(source) \cup {source} :
           FunctionsOf(module) \subseteq FunctionsIn(source)
BY DEF FunctionsIn

\* The tree a source becomes: nodes as the registry expects them, leaves made of its
\* functions, and nothing wrong with them but their names.
LEMMA FactoryTree ==
  ASSUME NEW source, IsSource(source), Expands(source),
         \A function \in FunctionsIn(source) : Accepted(function),
         NEW tree, tree = Factory(source)
  PROVE  /\ \A node \in Nodes(tree) : IsNode(node)
         /\ \A node \in Leaves(tree) : \E function \in FunctionsIn(source) : node = Leaf(function)
         /\ \/ ValidateHierarchy(tree) = "Ok"
            \/ /\ ValidateHierarchy(tree) = "DuplicateCommandPath"
               /\ \E node \in {tree} \cup Range(tree.children) : HasNamesakes(node.children)
<1>1. CASE source.kind = "fn"
  <2>1. tree = Leaf(source) /\ source \in FunctionsIn(source)
    BY <1>1 DEF Factory, FunctionsIn
  <2>2. IsLeaf(tree) /\ tree.children = <<>> /\ IsNode(tree) /\ ValidateLeaf(tree) = "Ok"
    BY <2>1, LeafOfFunction DEF Accepted
  <2>3. Nodes(tree) = {tree} /\ Leaves(tree) \subseteq {tree}
    BY <2>2 DEF Nodes, Leaves, Range
  <2>. QED  BY <2>1, <2>2, <2>3 DEF ValidateHierarchy
<1>2. CASE source.kind = "mod"
  <2>. DEFINE written == Children(source)
              children == tree.children
              groups == [n \in DOMAIN children |-> ValidateSubgroup(children[n])]
  <2>1. /\ \A module \in ModulesOf(source) \cup {source} : IsModule(module) /\ GroupAccepts(module)
        /\ \A module \in ModulesOf(source) : ModulesOf(module) = {}
        /\ \A module \in ModulesOf(source) \cup {source} :
             \A function \in FunctionsOf(module) : Accepted(function)
    BY <1>2, SourceFunctions DEF IsSource, Expands, GroupAccepts, NativeHierarchy
  <2>2. /\ tree.kind = "group" /\ tree.options = <<>> /\ tree.handlers = <<>>
        /\ children = [n \in DOMAIN written |->
                         IF written[n].kind = "fn" THEN Leaf(written[n])
                         ELSE GroupNode(written[n], LeavesOf(written[n]))]
    BY <1>2 DEF Factory, GroupNode
  <2>3. /\ IsSequence(written) /\ written # <<>>
        /\ \A n \in DOMAIN written : written[n] \in FunctionsOf(source) \cup ModulesOf(source)
    BY <2>1, ChildrenOf DEF GroupAccepts
  <2>. HIDE DEF written, children
  <2>4. IsSequence(children) /\ DOMAIN children = DOMAIN written
    <3>1. children = [n \in DOMAIN written |-> children[n]]
      BY <2>2
    <3>. QED  BY <2>3, <3>1, MappedList
  <2>5. children # <<>>
    BY <2>3, <2>4, NeverEmptied
  <2>6. ASSUME NEW n \in DOMAIN children
        PROVE  /\ IsNode(children[n]) /\ \A node \in Range(children[n].children) : IsNode(node)
               /\ \A node \in {children[n]} \cup Range(children[n].children) :
                    IsLeaf(node) => \E function \in FunctionsIn(source) : node = Leaf(function)
               /\ IF IsLeaf(children[n]) THEN ValidateLeaf(children[n]) = "Ok"
                  ELSE \/ ValidateSubgroup(children[n]) = "Ok"
                       \/ /\ ValidateSubgroup(children[n]) = "DuplicateCommandPath"
                          /\ HasNamesakes(children[n].children)
    <3>1. CASE written[n] \in FunctionsOf(source)
      <4>1. children[n] = Leaf(written[n]) /\ written[n] \in FunctionsIn(source)
        BY <1>2, <2>2, <2>4, <3>1, SourceFunctions DEF FunctionsOf
      <4>2. /\ IsLeaf(children[n]) /\ children[n].children = <<>> /\ IsNode(children[n])
            /\ ValidateLeaf(children[n]) = "Ok"
        BY <4>1, LeafOfFunction DEF Accepted
      <4>. QED  BY <4>1, <4>2 DEF Range
    <3>2. CASE written[n] \in ModulesOf(source)
      <4>1. children[n] = GroupNode(written[n], LeavesOf(written[n]))
        BY <2>2, <2>4, <3>2 DEF ModulesOf
      <4>2. /\ ~IsLeaf(children[n]) /\ IsNode(children[n])
            /\ \A child \in Range(children[n].children) :
                 \E function \in FunctionsOf(written[n]) : child = Leaf(function)
            /\ \/ ValidateSubgroup(children[n]) = "Ok"
               \/ /\ ValidateSubgroup(children[n]) = "DuplicateCommandPath"
                  /\ HasNamesakes(children[n].children)
        BY <2>1, <3>2, <4>1, Subgroup
      <4>3. \A child \in Range(children[n].children) :
              \E function \in FunctionsIn(source) : child = Leaf(function)
        BY <1>2, <3>2, <4>2, SourceFunctions
      <4>4. \A child \in Range(children[n].children) : IsNode(child)
        BY <4>3, LeafOfFunction DEF Accepted
      <4>. QED  BY <4>2, <4>3, <4>4
    <3>. QED  BY <2>3, <2>4, <3>1, <3>2
  <2>7. IsGroup(tree) /\ ~IsLeaf(tree) /\ IsNode(tree)
    <3>1. IsSequence(<<>>) /\ Kinds(<<>>) = {} /\ Range(<<>>) = {}
      BY ShortLists DEF Kinds, Range
    <3>. QED  BY <2>2, <2>4, <3>1 DEF IsGroup, IsLeaf, IsNode, children
  <2>8. \A node \in Nodes(tree) : IsNode(node)
    BY <2>6, <2>7 DEF Nodes, Range, children
  <2>9. ASSUME NEW node \in Leaves(tree)
        PROVE  \E function \in FunctionsIn(source) : node = Leaf(function)
    <3>1. IsLeaf(node) /\ node # tree
      BY <2>7 DEF Leaves
    <3>2. \E n \in DOMAIN children : node \in {children[n]} \cup Range(children[n].children)
      <4>1. \/ node \in Range(children)
            \/ \E child \in Range(children) : node \in Range(child.children)
        BY <3>1 DEF Leaves, children
      <4>. QED  BY <4>1 DEF Range
    <3>. QED  BY <2>6, <3>1, <3>2
  <2>10. ValidateHierarchy(tree) = ValidateChildren(children, groups)
    BY <2>2, <2>5, <2>7 DEF ValidateHierarchy, children
  <2>11. \A n \in DOMAIN children : groups[n] = ValidateSubgroup(children[n])
    OBVIOUS
  <2>. HIDE DEF groups
  <2>12. ValidateChildren(children, groups) # "Ok" =>
           /\ ValidateChildren(children, groups) = "DuplicateCommandPath"
           /\ \E node \in {tree} \cup Range(children) : HasNamesakes(node.children)
    <3>1. SUFFICES ASSUME ValidateChildren(children, groups) # "Ok"
                   PROVE  /\ ValidateChildren(children, groups) = "DuplicateCommandPath"
                          /\ \E node \in {tree} \cup Range(children) : HasNamesakes(node.children)
      OBVIOUS
    <3>2. /\ ValidateChildren(children, groups) = "DuplicateCommandPath"
          /\ \/ HasNamesakes(children)
             \/ \E n \in DOMAIN children :
                  ~IsLeaf(children[n]) /\ groups[n] = "DuplicateCommandPath"
      BY <2>4, <2>6, <2>11, <3>1, OnlyNamesFail
    <3>3. \A n \in DOMAIN children : children[n] \in Range(children)
      BY DEF Range
    <3>. QED  BY <2>6, <2>11, <3>2, <3>3 DEF children
  <2>. QED  BY <2>8, <2>9, <2>10, <2>12 DEF children
<1>. QED
  BY <1>1, <1>2 DEF IsSource

-----------------------------------------------------------------------------
(* The invariant.                                                              *)

Collected == {"collected", "refused", "registered", "invoked", "ran"}

\* What holds of every state: what each stage has let past, and that what it computed
\* from the stage before is still what that computes.
MacroInv ==
  /\ program \in Programs
  /\ stage \in {"written", "rejected", "ill typed", "compiled"} \cup Collected
  /\ stage \notin {"written", "rejected"} => MacrosAccept
  /\ stage = "ill typed" => ~TypeChecks
  /\ stage \in {"compiled"} \cup Collected => TypeChecks
  /\ stage \in Collected =>
       trees = [n \in DOMAIN program.items |-> Factory(program.items[n].source)]
  /\ stage \in {"refused", "registered", "invoked", "ran"} =>
       failure = FirstFailure([n \in DOMAIN trees |-> Inserted(n)])
  /\ stage = "refused" => failure # "Ok"
  /\ stage \in {"registered", "invoked", "ran"} => failure = "Ok"
  /\ stage \in {"invoked", "ran"} =>
       /\ leaf \in UNION {Leaves(tree) : tree \in Range(trees)}
       /\ submitted \in Invocations(leaf.options)
  /\ stage = "ran" => received = Adapter(leaf.parameters, submitted)

\* A program never changes, nor what is said of it alone.
LEMMA ProgramStands ==
  ASSUME UNCHANGED program
  PROVE  /\ MacrosAccept' = MacrosAccept
         /\ TypeChecks' = TypeChecks
<1>1. MacrosAccept' = MacrosAccept
  BY DEF MacrosAccept
<1>2. Functions' = Functions
  BY DEF Functions
<1>3. SignaturesBox' = SignaturesBox /\ CallsResolve' = CallsResolve
  BY <1>2 DEF SignaturesBox, CallsResolve
<1>4. Links' = Links
  BY <1>2 DEF Links, Resolves
<1>5. StatesReach' = StatesReach
  BY DEF StatesReach
<1>. QED
  BY <1>1, <1>3, <1>4, <1>5 DEF TypeChecks

LEMMA TreesStand ==
  ASSUME UNCHANGED trees
  PROVE  FirstFailure([n \in DOMAIN trees |-> Inserted(n)])' =
           FirstFailure([n \in DOMAIN trees |-> Inserted(n)])
BY DEF Inserted

\* MacroInv holds at first and after every step: no stage forgets what an earlier one
\* refused, and the trees, the verdict, the invocation and the arguments are those of
\* the same program (the whole of CommandMacro's Next).
THEOREM MacroInvariant == Spec => []MacroInv
<1>1. Init => MacroInv
  BY DEF Init, MacroInv, Collected
<1>2. MacroInv /\ [Next]_vars => MacroInv'
  <2>. SUFFICES ASSUME MacroInv, [Next]_vars PROVE MacroInv'
    OBVIOUS
  <2>0. UNCHANGED program
    BY DEF Next, Compile, Collect, Build, Invoke, Run, Quiet, vars
  <2>p. MacrosAccept' = MacrosAccept /\ TypeChecks' = TypeChecks
    BY <2>0, ProgramStands
  <2>1. CASE Compile
    BY <2>0, <2>p, <2>1 DEF Compile, MacroInv, Collected
  <2>2. CASE Collect
    BY <2>0, <2>p, <2>2 DEF Collect, MacroInv, Collected
  <2>3. CASE Build
    <3>1. UNCHANGED trees
      BY <2>3 DEF Build
    <3>. QED  BY <2>0, <2>p, <2>3, <3>1, TreesStand DEF Build, MacroInv, Collected
  <2>4. CASE Invoke
    <3>1. UNCHANGED trees
      BY <2>4 DEF Invoke
    <3>. QED  BY <2>0, <2>p, <2>4, <3>1, TreesStand DEF Invoke, MacroInv, Collected
  <2>5. CASE Run
    <3>1. UNCHANGED trees
      BY <2>5 DEF Run
    <3>. QED  BY <2>0, <2>p, <2>5, <3>1, TreesStand DEF Run, MacroInv, Collected
  <2>6. CASE UNCHANGED vars
    <3>1. UNCHANGED trees
      BY <2>6 DEF vars
    <3>. QED  BY <2>0, <2>p, <2>6, <3>1, TreesStand DEF MacroInv, Collected, vars
  <2>. QED  BY <2>1, <2>2, <2>3, <2>4, <2>5, <2>6 DEF Next, Quiet
<1>. QED
  BY <1>1, <1>2, PTL DEF Spec

-----------------------------------------------------------------------------
(* Registration.                                                               *)

\* The trees of a program the compiler has let past.
LEMMA TreesOfProgram ==
  ASSUME MacroInv, stage \in Collected
  PROVE  /\ IsSequence(trees)
         /\ \A n \in DOMAIN trees :
              /\ \A node \in Nodes(trees[n]) : IsNode(node)
              /\ \A node \in Leaves(trees[n]) : \E function \in Functions : node = Leaf(function)
              /\ \/ ValidateHierarchy(trees[n]) = "Ok"
                 \/ /\ ValidateHierarchy(trees[n]) = "DuplicateCommandPath"
                    /\ \E node \in {trees[n]} \cup Range(trees[n].children) :
                         HasNamesakes(node.children)
         /\ \A function \in Functions : Accepted(function)
<1>1. /\ program \in Programs /\ MacrosAccept /\ Links
      /\ trees = [n \in DOMAIN program.items |-> Factory(program.items[n].source)]
  BY DEF MacroInv, Collected, TypeChecks
<1>2. /\ IsSequence(program.items)
      /\ \A path \in Range(program.items) : IsSource(path.source) /\ Expands(path.source)
      /\ \A function \in Functions : IsFunction(function) /\ CommandAccepts(function)
  BY <1>1, ProgramAccepted
<1>3. \A function \in Functions : Accepted(function)
  BY <1>1, <1>2, LeafLinked DEF Accepted
<1>4. IsSequence(trees)
  <2>1. trees = [n \in DOMAIN program.items |-> trees[n]]
    BY <1>1
  <2>. QED  BY <1>2, <2>1, MappedList
<1>5. ASSUME NEW n \in DOMAIN trees
      PROVE  /\ \A node \in Nodes(trees[n]) : IsNode(node)
             /\ \A node \in Leaves(trees[n]) : \E function \in Functions : node = Leaf(function)
             /\ \/ ValidateHierarchy(trees[n]) = "Ok"
                \/ /\ ValidateHierarchy(trees[n]) = "DuplicateCommandPath"
                   /\ \E node \in {trees[n]} \cup Range(trees[n].children) :
                        HasNamesakes(node.children)
  <2>. DEFINE source == program.items[n].source
  <2>1. program.items[n] \in Range(program.items) /\ trees[n] = Factory(source)
    BY <1>1 DEF Range
  <2>2. IsSource(source) /\ Expands(source) /\ FunctionsIn(source) \subseteq Functions
    BY <1>2, <2>1 DEF Functions
  <2>. HIDE DEF source
  <2>3. \A function \in FunctionsIn(source) : Accepted(function)
    BY <1>3, <2>2
  <2>4. /\ \A node \in Nodes(trees[n]) : IsNode(node)
        /\ \A node \in Leaves(trees[n]) : \E function \in FunctionsIn(source) : node = Leaf(function)
        /\ \/ ValidateHierarchy(trees[n]) = "Ok"
           \/ /\ ValidateHierarchy(trees[n]) = "DuplicateCommandPath"
              /\ \E node \in {trees[n]} \cup Range(trees[n].children) :
                   HasNamesakes(node.children)
    BY <2>1, <2>2, <2>3, FactoryTree
  <2>. QED  BY <2>2, <2>4
<1>. QED
  BY <1>3, <1>4, <1>5

\* A validated tree has options at its leaves only.
LEMMA GroupsBare ==
  ASSUME NEW tree, \A node \in Nodes(tree) : IsNode(node), WellFormed(tree),
         NEW node \in Nodes(tree), ~IsLeaf(node)
  PROVE  node.options = <<>>
<1>1. \A n \in Nodes(tree) : IsLeaf(n) => Range(n.children) = {}
  BY DEF IsNode, Range
<1>2. CASE WellFormedLeaf(tree)
  <2>1. tree \in Nodes(tree) /\ IsLeaf(tree)
    BY <1>2 DEF Nodes, WellFormedLeaf
  <2>2. Nodes(tree) = {tree}
    BY <1>1, <2>1 DEF Nodes
  <2>. QED  BY <2>1, <2>2
<1>3. CASE ~WellFormedLeaf(tree)
  <2>1. /\ tree.options = <<>>
        /\ \A child \in Range(tree.children) : WellFormedLeaf(child) \/ WellFormedGroup(child)
    BY <1>3 DEF WellFormed
  <2>2. CASE node = tree
    BY <2>1, <2>2
  <2>3. CASE node \in Range(tree.children)
    BY <2>1, <2>3 DEF WellFormedLeaf, WellFormedGroup
  <2>4. ASSUME NEW child \in Range(tree.children), node \in Range(child.children)
        PROVE  FALSE
    <3>1. child \in Nodes(tree)
      BY DEF Nodes
    <3>2. WellFormedGroup(child)
      BY <1>1, <2>1, <2>4, <3>1 DEF WellFormedLeaf
    <3>. QED  BY <2>4, <3>2 DEF WellFormedGroup, WellFormedLeaf
  <2>. QED  BY <2>2, <2>3, <2>4 DEF Nodes
<1>. QED
  BY <1>2, <1>3

\* For any program and any enums, CompiledTreesRegister: the signatures the attribute
\* macros accept box, so that rustc refuses only names and types they cannot see; the
\* registry refuses only two equal names; and Discord refuses a registered tree only for
\* a group with more than MaxOptions children (command.rs, group.rs, registry.rs).
THEOREM MacrosRegister == Spec => []CompiledTreesRegister
<1>1. MacroInv => CompiledTreesRegister
  <2>. SUFFICES ASSUME MacroInv PROVE CompiledTreesRegister
    OBVIOUS
  <2>1. stage = "ill typed" => SignaturesBox /\ ~(CallsResolve /\ StatesReach /\ Links)
    BY SignaturesAccepted DEF MacroInv, Collected, TypeChecks
  <2>2. ASSUME stage = "refused"
        PROVE  \/ failure = "DuplicateCommand" /\ HasNamesakes(trees)
               \/ /\ failure = "DuplicateCommandPath"
                  /\ \E tree \in Range(trees) : \E node \in {tree} \cup Range(tree.children) :
                       HasNamesakes(node.children)
    <3>. DEFINE verdicts == [n \in DOMAIN trees |-> Inserted(n)]
    <3>1. /\ failure = FirstFailure(verdicts) /\ failure # "Ok" /\ stage \in Collected
          /\ DOMAIN verdicts = DOMAIN trees
      BY <2>2 DEF MacroInv, Collected
    <3>2. \A n \in DOMAIN trees : verdicts[n] = Inserted(n)
      OBVIOUS
    <3>. HIDE DEF verdicts
    <3>3. IsSequence(trees)
      BY <3>1, TreesOfProgram
    <3>4. PICK n \in DOMAIN trees : failure = Inserted(n) /\ failure # "Ok"
      BY <3>1, <3>2, <3>3, SomeFailure
    <3>5. CASE ValidateHierarchy(trees[n]) = "Ok"
      <4>1. RepeatsSibling(trees, n) /\ failure = "DuplicateCommand"
        BY <3>4, <3>5 DEF Inserted
      <4>2. PICK m \in 1..(n - 1) : trees[m].name = trees[n].name
        BY <4>1 DEF RepeatsSibling
      <4>3. m \in DOMAIN trees /\ m # n
        BY <3>3 DEF IsSequence
      <4>. QED  BY <4>1, <4>2, <4>3 DEF HasNamesakes
    <3>6. CASE ValidateHierarchy(trees[n]) # "Ok"
      <4>1. /\ ValidateHierarchy(trees[n]) = "DuplicateCommandPath"
            /\ \E node \in {trees[n]} \cup Range(trees[n].children) : HasNamesakes(node.children)
        BY <3>1, <3>6, TreesOfProgram
      <4>2. failure = "DuplicateCommandPath" /\ trees[n] \in Range(trees)
        BY <3>4, <4>1 DEF Inserted, Range
      <4>. QED  BY <4>1, <4>2
    <3>. QED  BY <3>5, <3>6
  <2>3. ASSUME stage \in {"registered", "invoked", "ran"}, NEW n \in DOMAIN trees
        PROVE  /\ DiscordAccepts(CreateCommand(trees[n]))
                    <=> \A node \in Nodes(trees[n]) : Len(node.children) <= MaxOptions
               /\ \A node \in Leaves(trees[n]) : DiscordTakes(node) /\ HelpersKnown(node)
    <3>. DEFINE verdicts == [k \in DOMAIN trees |-> Inserted(k)]
    <3>1. /\ FirstFailure(verdicts) = "Ok" /\ stage \in Collected
          /\ DOMAIN verdicts = DOMAIN trees /\ verdicts[n] = Inserted(n)
      BY <2>3 DEF MacroInv, Collected
    <3>. HIDE DEF verdicts
    <3>2. IsSequence(trees)
      BY <3>1, TreesOfProgram
    <3>3. ValidateHierarchy(trees[n]) = "Ok"
      <4>1. Inserted(n) = "Ok"
        BY <3>1, <3>2, NoFailure
      <4>. QED  BY <4>1 DEF Inserted
    <3>4. \A node \in Nodes(trees[n]) : IsNode(node)
      BY <3>1, TreesOfProgram
    <3>5. ASSUME NEW node \in Leaves(trees[n])
          PROVE  DiscordTakes(node) /\ HelpersKnown(node)
      <4>1. PICK function \in Functions : node = Leaf(function)
        BY <3>1, TreesOfProgram
      <4>2. Accepted(function) /\ Links
        BY <3>1, TreesOfProgram DEF MacroInv, TypeChecks
      <4>. QED  BY <4>1, <4>2, LeafOfFunction, LeafLinked DEF Accepted
    <3>6. WellFormed(trees[n])
      BY <3>3, <3>4, HierarchyValidated
    <3>7. ASSUME NEW node \in Nodes(trees[n])
          PROVE  WithinLimits(node) <=> Len(node.children) <= MaxOptions
      <4>1. CASE IsLeaf(node)
        <5>1. node \in Leaves(trees[n])
          BY <4>1 DEF Leaves, Nodes
        <5>. QED  BY <3>5, <5>1 DEF DiscordTakes, WithinLimits
      <4>2. CASE ~IsLeaf(node)
        <5>1. node.options = <<>>
          BY <3>4, <3>6, <4>2, GroupsBare
        <5>. QED  BY <5>1, EmptyLevel DEF WithinLimits
      <4>. QED  BY <4>1, <4>2
    <3>8. DiscordAccepts(CreateCommand(trees[n]))
            <=> \A node \in Nodes(trees[n]) : Len(node.children) <= MaxOptions
      BY <3>4, <3>6, <3>7, TreeAccepted
    <3>. QED  BY <3>5, <3>8
  <2>. QED  BY <2>1, <2>2, <2>3 DEF CompiledTreesRegister, Range
<1>. QED
  BY <1>1, MacroInvariant, PTL

-----------------------------------------------------------------------------
(* Invocations.                                                                *)

\* What a user submits: options filled in with legal values, the required ones too.
LEMMA Submission ==
  ASSUME NEW options, IsSequence(options), NEW s \in Invocations(options)
  PROVE  /\ IsSequence(s)
         /\ \A k \in DOMAIN s : \E n \in DOMAIN options :
              \E x \in LegalValues(options[n]) : s[k] = Filled(options[n], x)
         /\ \A n \in DOMAIN options :
              options[n].required => \E k \in DOMAIN s : s[k].name = options[n].name
<1>. DEFINE required == {n \in DOMAIN options : options[n].required}
            given == {S \in SUBSET DOMAIN options : required \subseteq S}
            Fillings(n) == {Filled(options[n], x) : x \in LegalValues(options[n])}
<1>1. PICK order \in UNION {Injections(S) : S \in given} :
        /\ s \in [DOMAIN order -> UNION {Fillings(n) : n \in Range(order)}]
        /\ \A k \in DOMAIN order : s[k] \in Fillings(order[k])
  BY DEF Invocations
<1>2. PICK S \in given : order \in Injections(S)
  BY <1>1
<1>3. IsFiniteSet(S) /\ Cardinality(S) \in Nat
  <2>1. IsFiniteSet(1..Len(options)) /\ DOMAIN options = 1..Len(options)
    BY FS_Interval DEF IsSequence
  <2>. QED  BY <2>1, FS_Subset, FS_CardinalityType
<1>4. order \in [1..Cardinality(S) -> S] /\ \A n \in S : \E k \in 1..Cardinality(S) : order[k] = n
  <2>. DEFINE places == 1..Cardinality(S)
  <2>1. order \in Injection(places, S)
    BY <1>2 DEF Injections, Injection
  <2>2. Cardinality(places) = Cardinality(S)
    BY <1>3, FS_Interval
  <2>. HIDE DEF places
  <2>3. order \in Surjection(places, S)
    BY <1>3, <2>1, <2>2, FS_Injection
  <2>. QED  BY <2>3 DEF places, Surjection
<1>5. DOMAIN s = 1..Cardinality(S)
  BY <1>1, <1>4
<1>6. IsSequence(s)
  <2>1. \A k \in 1..Cardinality(S) : s[k] \in Range(s)
    BY <1>5 DEF Range
  <2>2. s = [k \in 1..Cardinality(S) |-> s[k]]
    BY <1>1, <1>4
  <2>. QED  BY <1>3, <2>1, <2>2 DEF IsSequence
<1>7. \A k \in DOMAIN s : order[k] \in DOMAIN options /\ s[k] \in Fillings(order[k])
  BY <1>1, <1>4, <1>5
<1>8. ASSUME NEW n \in DOMAIN options, options[n].required
      PROVE  \E k \in DOMAIN s : s[k].name = options[n].name
  <2>1. PICK k \in DOMAIN s : order[k] = n
    BY <1>4, <1>5, <1>8
  <2>2. s[k] \in Fillings(n)
    BY <1>7, <2>1
  <2>. QED  BY <2>2 DEF Filled
<1>. QED
  BY <1>6, <1>7, <1>8

LEMMA ScalarArgument ==
  ASSUME NEW p, IsParameter(p), OptionFits(p), ~IsTyped(p),
         NEW o, o = OptionDescriptor(p), NEW x \in LegalValues(o),
         NEW options, Submitted(options, p.ident) # {}, Get(options, p.ident) = Filled(o, x)
  PROVE  ExtractScalar(p.type.of, options, p.ident) = Ok(x)
<1>1. /\ p.type.of \in Scalars /\ o.kind = KIND[p.type.of]
      /\ p.type.of \in IdTypes => LegalValues(o) \subseteq Snowflakes
  BY ScalarOption
<1>. DEFINE option == Get(options, p.ident)
<1>2. /\ option.kind = KIND[p.type.of] /\ option.value.data = x
      /\ option.value.type = Variant(p.type.of)
  BY <1>1, KindNames DEF Filled
<1>. HIDE DEF option
<1>. QED
  BY <1>1, <1>2, ScalarExtracted DEF option

LEMMA EnumArgument ==
  ASSUME NEW p, IsParameter(p), OptionFits(p), IsTyped(p), p.type.of \in DOMAIN Enums,
         NEW o, o = OptionDescriptor(p), NEW x \in LegalValues(o),
         NEW options, Submitted(options, p.ident) # {}, Get(options, p.ident) = Filled(o, x)
  PROVE  \E ident : /\ ExtractVariant(Enums[p.type.of], options, p.ident) = Ok(ident)
                    /\ VariantsOf(Enums[p.type.of], x) = {ident}
<1>. DEFINE s == Enums[p.type.of]
            of == EnumType(s)
            offered == DerivedChoices(s)
            option == Get(options, p.ident)
<1>1. /\ IsSequence(s) /\ \A n \in DOMAIN s : IsVariant(s[n])
      /\ DeriveAccepts(s)
  BY MacroAssumption
<1>2. o.kind = KIND[ScalarOf[of]] /\ LegalValues(o) = {choice.value.data : choice \in Range(offered)}
  BY EnumOption
<1>d. of = EnumType(s) /\ offered = DerivedChoices(s)
  OBVIOUS
<1>v. \A n \in DOMAIN offered :
        offered[n].value = [type |-> of, data |-> offered[n].value.data]
  BY DEF DerivedChoices
<1>. HIDE DEF s, of, offered
<1>3. /\ of \in ChoiceTypes /\ DOMAIN offered = DOMAIN s
      /\ \A n \in DOMAIN s :
           /\ \A y : (IF of = "Number" THEN SameNumber(offered[n].value.data, y)
                      ELSE offered[n].value.data = y) => Denotes(s[n], y)
           /\ \A y : Denotes(s[n], y) => AsReal(y) = AsReal(offered[n].value.data)
      /\ \A n, m \in DOMAIN s : n # m =>
           AsReal(offered[n].value.data) # AsReal(offered[m].value.data)
  BY <1>1, <1>d, EnumAccepted
<1>4. PICK n \in DOMAIN s : x = offered[n].value.data
  BY <1>2, <1>3 DEF Range
<1>5. SubmittedType(KIND[ScalarOf[of]]) = of
  BY <1>3 DEF ChoiceTypes, ScalarOf, KIND, SubmittedType
<1>6. option.kind = KIND[ScalarOf[of]] /\ option.value = offered[n].value
  BY <1>2, <1>3, <1>4, <1>5, <1>v DEF Filled
<1>. HIDE DEF option
<1>7. ExtractVariant(s, options, p.ident) = Ok(s[n].ident)
  BY <1>1, <1>6, <1>d, PickedVariant DEF option
<1>8. \A m \in DOMAIN s : Denotes(s[m], x) <=> m = n
  BY <1>3, <1>4 DEF SameNumber
<1>9. VariantsOf(s, x) = {s[n].ident}
  BY <1>8 DEF VariantsOf
<1>. QED
  BY <1>7, <1>9 DEF s

\* Every parameter of an invoked leaf gets its argument.
LEMMA ParameterReached ==
  ASSUME NEW function, Accepted(function), NEW node, node = Leaf(function),
         NEW options \in Invocations(node.options), NEW n \in DOMAIN function.parameters,
         NEW argument, argument = ExtractParameter(function.parameters[n], options)
  PROVE  argument.is \in {"Ok", "None"} /\ ArgumentOf(function.parameters[n], argument, options)
<1>. DEFINE p == function.parameters[n]
            o == node.options[n]
            given == Submitted(options, p.ident)
<1>1. /\ IsSequence(node.options) /\ DOMAIN node.options = DOMAIN function.parameters
      /\ IsParameter(p) /\ OptionFits(p)
      /\ o = OptionDescriptor(p) /\ o.name = p.ident /\ o.required = IsRequired(p)
      /\ \A m \in DOMAIN node.options : node.options[m].name = o.name => m = n
  BY LeafOptions DEF Accepted
<1>2. IsTyped(p) => p.type.of \in DOMAIN Enums
  BY DEF Accepted, TypesKnown, Range
<1>3. /\ IsSequence(options)
      /\ \A k \in DOMAIN options : \E m \in DOMAIN node.options :
           \E x \in LegalValues(node.options[m]) : options[k] = Filled(node.options[m], x)
      /\ o.required => \E k \in DOMAIN options : options[k].name = o.name
  <2>1. \A m \in DOMAIN node.options :
          node.options[m].required => \E k \in DOMAIN options : options[k].name = node.options[m].name
    BY <1>1, Submission
  <2>. QED  BY <1>1, <2>1, Submission
<1>d. argument = ExtractParameter(p, options)
  OBVIOUS
<1>. HIDE DEF p, o
<1>4. CASE given = {}
  <2>1. ~IsRequired(p)
    BY <1>1, <1>3, <1>4 DEF Submitted
  <2>2. argument = None
    BY <1>4, <1>d, <2>1 DEF ExtractParameter, ExtractOption
  <2>. QED  BY <1>4, <2>1, <2>2 DEF ArgumentOf, None, p
<1>5. CASE given # {}
  <2>1. Min(given) \in given /\ given \subseteq DOMAIN options
    BY <1>3, <1>5, LeastOfList DEF IsSequence, Submitted
  <2>2. Get(options, p.ident) = options[Min(given)] /\ options[Min(given)].name = p.ident
    BY <2>1 DEF Get, Submitted
  <2>3. PICK x \in LegalValues(o) : Get(options, p.ident) = Filled(o, x)
    <3>1. PICK m \in DOMAIN node.options : \E x \in LegalValues(node.options[m]) :
            Get(options, p.ident) = Filled(node.options[m], x)
      BY <1>3, <2>1, <2>2
    <3>2. m = n
      BY <1>1, <2>2, <3>1 DEF Filled
    <3>. QED  BY <3>1, <3>2 DEF o
  <2>4. options[Min(given)].value.data = x
    BY <2>2, <2>3 DEF Filled
  <2>5. argument = IF IsTyped(p) THEN ExtractVariant(Enums[p.type.of], options, p.ident)
                   ELSE ExtractScalar(p.type.of, options, p.ident)
    BY <1>5, <1>d DEF ExtractParameter, ExtractOption
  <2>6. CASE IsTyped(p)
    <3>1. PICK ident : /\ ExtractVariant(Enums[p.type.of], options, p.ident) = Ok(ident)
                       /\ VariantsOf(Enums[p.type.of], x) = {ident}
      BY <1>1, <1>2, <1>5, <2>3, <2>6, EnumArgument
    <3>2. argument.is = "Ok" /\ argument.value = ident
      BY <2>5, <2>6, <3>1 DEF Ok
    <3>. QED  BY <1>5, <2>4, <2>6, <3>1, <3>2 DEF ArgumentOf, p
  <2>7. CASE ~IsTyped(p)
    <3>1. ExtractScalar(p.type.of, options, p.ident) = Ok(x)
      BY <1>1, <1>5, <2>3, <2>7, ScalarArgument
    <3>2. argument.is = "Ok" /\ argument.value = x
      BY <2>5, <2>7, <3>1 DEF Ok
    <3>. QED  BY <1>5, <2>4, <2>7, <3>2 DEF ArgumentOf, p
  <2>. QED  BY <2>6, <2>7
<1>. QED
  BY <1>4, <1>5

\* For any program and any enums, InvocationsReachHandler: the adapter of command.rs
\* calls the handler on every invocation Discord can send, with the submitted values.
THEOREM AdapterReachesHandler == Spec => []InvocationsReachHandler
<1>1. MacroInv => InvocationsReachHandler
  <2>. SUFFICES ASSUME MacroInv, stage = "ran"
                PROVE  /\ received.is = "called"
                       /\ \A n \in DOMAIN leaf.parameters :
                            ArgumentOf(leaf.parameters[n], received.arguments[n], submitted)
    BY DEF InvocationsReachHandler
  <2>. DEFINE parameters == leaf.parameters
              results == [n \in DOMAIN parameters |-> ExtractParameter(parameters[n], submitted)]
              failed == {n \in DOMAIN results : results[n].is \notin {"Ok", "None"}}
  <2>1. /\ leaf \in UNION {Leaves(tree) : tree \in Range(trees)}
        /\ submitted \in Invocations(leaf.options)
        /\ received = Adapter(parameters, submitted)
        /\ stage \in Collected
    BY DEF MacroInv, Collected
  <2>2. PICK function \in Functions : leaf = Leaf(function) /\ Accepted(function)
    <3>1. PICK n \in DOMAIN trees : leaf \in Leaves(trees[n])
      BY <2>1 DEF Range
    <3>. QED  BY <2>1, <3>1, TreesOfProgram
  <2>3. parameters = function.parameters
    BY <2>2, LeafOfFunction DEF Accepted
  <2>4. \A n \in DOMAIN parameters :
          /\ results[n].is \in {"Ok", "None"}
          /\ ArgumentOf(parameters[n], results[n], submitted)
    <3>. HIDE DEF parameters
    <3>. QED  BY <2>1, <2>2, <2>3, ParameterReached
  <2>5. failed = {}
    BY <2>4
  <2>6. received = [is |-> "called", arguments |-> results]
    <3>1. received = IF failed # {} THEN results[Min(failed)]
                     ELSE [is |-> "called", arguments |-> results]
      BY <2>1 DEF Adapter
    <3>. HIDE DEF failed, results
    <3>. QED  BY <2>5, <3>1
  <2>. HIDE DEF results
  <2>. QED  BY <2>4, <2>6
<1>. QED
  BY <1>1, MacroInvariant, PTL
=============================================================================
