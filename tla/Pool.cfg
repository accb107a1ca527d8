SPECIFICATION FairSpec
CONSTANTS
  s1 = s1  s2 = s2  r1 = r1  r2 = r2  r3 = r3  o1 = o1  o2 = o2
  Session = {s1}
  Anonymous = Anonymous
  None = None
  Request = {r1, r2}
  Op = {o1, o2}
  Shapes = {TRUE, FALSE}
  Rejects = TRUE
  MaxActive = 1
  OpsPerSession = 1
  MaxBuilt = 4
  MaxFaults = 1
INVARIANTS AdmittedIsWork WorkKeepsItsAgent SecondTurnWasLet
PROPERTIES KeepsTurnOrder EveryRequestEnds NothingLeftRunning
CHECK_DEADLOCK FALSE
