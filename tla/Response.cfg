SPECIFICATION FairSpec
CONSTANTS
  c1 = c1
  c2 = c2
  Callers = {c1, c2}
  Nobody = Nobody
  MaxFaults = 2
INVARIANTS
  TypeOK
  LocalTrailsDiscord
  FollowupsFollowAcknowledgement
  OneInitialInFlight
  RefusalsNeedFaults
  DeferralVisibilityKept
  MutexDiscipline
PROPERTIES
  HelpersAreAtomic
  CallsReturn
