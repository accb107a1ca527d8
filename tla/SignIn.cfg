SPECIFICATION Spec
CONSTANTS
  l1 = l1  l2 = l2  l3 = l3  n1 = n1  n2 = n2  n3 = n3  n4 = n4  a1 = a1  a2 = a2  a3 = a3  a4 = a4
  Login = {l1, l2, l3}
  Name = {n1, n2, n3, n4}
  Address = {a1, a2, a3, a4}
  None = None
  PerName = 1
  RefuseAddressAfter = 2
  Window = 1
  MaxEntries = 3
  Concurrent = 1
  MaxQueue = 1
  MaxNow = 1
INVARIANTS BudgetReachesTheDirectory TicketsAreCounted SlotsAreUsed
PROPERTIES RefusedAddressStays
SYMMETRY Names
CHECK_DEADLOCK FALSE
