SPECIFICATION Spec
CONSTANTS
  c1 = c1  c2 = c2  c3 = c3  r1 = r1  r2 = r2  r3 = r3  r4 = r4
  Caller = {c1, c2, c3}
  NoCaller = NoCaller
  Request = {r1, r2, r3, r4}
  Limit = 2
  Window = 3
  MaxCallers = 2
  MaxNow = 6
SYMMETRY Names
INVARIANTS OverByItsBurst
PROPERTIES RefusesAtTheCeilingOnly
CHECK_DEADLOCK FALSE
