SPECIFICATION Spec
CONSTANTS
  c1 = c1
  c2 = c2
  Callers = {c1, c2}
  Nobody = Nobody
  MaxFaults = 1
INVARIANT
  NeverTwoInitials
