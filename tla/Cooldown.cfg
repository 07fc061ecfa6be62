SPECIFICATION Spec
CONSTANTS
  e1 = e1
  e2 = e2
  e3 = e3
  e4 = e4
  alice = alice
  bob = bob
  Executions = {e1, e2, e3, e4}
  Users = {alice, bob}
  guild = guild
  dm = dm
  ban = ban
  kick = kick
  send = send
  Contexts = {guild, dm}
  Permissions = {ban, kick, send}
  Absent = Absent
  Interaction <- MCInteraction
  Policies <- MCPolicies
  LastInstant = 6
INVARIANTS
  TypeOK
  BindingReservationsKept
  RejectionsJustified
  OnlyAcceptedExecutionsCharge
PROPERTY
  NoEarlyAcceptance
