SPECIFICATION Spec
CONSTANTS
  i1 = i1
  i2 = i2
  i3 = i3
  capped = capped
  open = open
  none = none
  Interactions = {i1, i2, i3}
  Commands = {capped, open}
  Limited = {capped}
  CommandLimit <- MCCommandLimit
  GlobalLimit = 2
  BeforeHooks = 0
  AfterHooks = 0
  HasErrorHandler = FALSE
  NoCommand = none
  Hung = {}
PROPERTY
  AtCapacityMeansGlobalFull
