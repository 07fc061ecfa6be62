SPECIFICATION Spec
CONSTANTS
  empty = empty
  a = a
  b = b
  long = long
  id = id
  yes = yes
  Texts = {empty, a, b, long, id}
  CharCount <- MCCharCount
  Snowflakes = {id}
  MaxSafe = 3
  NegativeZero = NegativeZero
  NotFinite = NotFinite
  MaxChoices = 2
  MaxChars = 2
  Variants <- MCVariants
  Attributes <- MCAttributes
  Answers <- MCAnswers
  Foreign <- MCForeign
INVARIANTS
  SelectedChoiceReceived
  OfferedExactlyWhenLegal
