SPECIFICATION FairSpec
CONSTANTS
  s1 = s1
  s2 = s2
  t1 = t1
  t2 = t2
  t3 = t3
  Shards = {s1, s2}
  Tasks = {t1, t2, t3}
  Slots = 2
  MaxEvents = 4
  MaxRuns = 2
INVARIANTS
  TypeOK
  SynchronizedOnceBeforeCommands
  SlotsAccounted
  NoTaskOutlivesLoop
PROPERTIES
  PanicsReported
  KeepsPolling
  ShutdownReturnsSlots
