SPECIFICATION Spec
CONSTANTS
  c1 = c1  c2 = c2  c3 = c3  c4 = c4  k1 = k1  k2 = k2  o1 = o1  o2 = o2  o3 = o3  p1 = p1
  Client = {c1, c2}
  Key = {k1, k2}
  Principal = {p1}
  PrincipalOf <- OnePrincipal
  Caller = {o1, o2}
  Acquirer = {o1}
  Ender = {t1}
  t1 = t1
  None = None
  MaxClients = 2
  MaxClientsPerPrincipal = 2
  MaxEnding = 1
  MaxOperations = 2
  Rounds = 2
INVARIANTS InUseStaysOpen OneServesAKey DeferredHasNoRoom ClosedHoldsNothing
SYMMETRY Names
