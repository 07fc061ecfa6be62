SPECIFICATION FairSpec
CONSTANTS
  i1 = i1
  i2 = i2
  i3 = i3
  capped = capped
  open = open
  none = none
  Interactions = {i1, i2}
  Commands = {capped}
  Limited = {capped}
  CommandLimit <- MCCommandLimit
  GlobalLimit = 1
  BeforeHooks = 1
  AfterHooks = 2
  HasErrorHandler = TRUE
  NoCommand = none
  Hung = {i1}
INVARIANTS
  TypeOK
  LifecycleOrder
  AfterHooksFollowHandler
  FirstErrorRetained
  NoFailureSwallowed
PROPERTIES
  DispatchDecides
  PermitsReturn
