SPECIFICATION Spec
CONSTANTS
  a = a  b = b  p = p  r = r
  q1 = q1  q2 = q2
  t1 = t1  t2 = t2  t3 = t3
  Process = {p, r}
  Door = {a, b}
  HostOf <- EachItsOwn
  Request = {q1, q2}
  Turn = {t1, t2, t3}
  None = None
  AskGate = {q1}
  Rules = {1, 2}
  Carrier = {1, 2}
  Build <- SharedBuilds
  StoreIsLocal = FALSE
  Progress = TRUE
  MaxRestarts = 0
  MaxFaults = 1
SYMMETRY TurnsAndReplicas
INVARIANTS NotRunIsTrue DeclinedIsTrue UsedIsSettled
PROPERTIES PauseNeverReopens NewerPauseKept KeepsOneAnswer
CHECK_DEADLOCK FALSE
