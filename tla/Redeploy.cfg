SPECIFICATION FairSpec
CONSTANTS
  a = a  b = b  p = p  r = r
  q1 = q1  q2 = q2
  t1 = t1  t2 = t2  t3 = t3
  Process = {p}
  Door = {a, b}
  HostOf <- AllInOne
  Request = {q1}
  Turn = {t1, t2}
  None = None
  AskGate = {q1}
  Rules = {1, 2}
  Carrier = {1, 2}
  Build <- RedeployBuilds
  StoreIsLocal = FALSE
  Progress = TRUE
  MaxRestarts = 1
  MaxFaults = 1
PROPERTIES EveryTurnEnds EveryStageStops
CHECK_DEADLOCK FALSE
