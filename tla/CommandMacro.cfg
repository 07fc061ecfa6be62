SPECIFICATION Spec
CONSTANTS
  empty = empty
  x = x
  y = y
  z = z
  upper = upper
  long = long
  id = id
  ctx = ctx
  Ctx = ctx
  Texts = {empty, x, y, z, upper, long, id, ctx}
  CharCount <- MCCharCount
  Snowflakes = {id}
  ValidNames = {x, y, z, ctx}
  MaxSafe = 3
  NegativeZero = NegativeZero
  NotFinite = NotFinite
  MaxChoices = 2
  MaxChars = 2
  MaxOptions = 2
  MaxLength = 2
  Programs <- MCPrograms
  Enums <- MCEnums
INVARIANTS
  CompiledTreesRegister
  InvocationsReachHandler
