SPECIFICATION Spec
CONSTANTS
  x = x  y = y
  Turn = {1, 2}
  Leg = {1, 2, 3}
  Session = {1, 2}
  Tool = {x, y}
  ScopeOf <- CallAndSession
  None = None
  MaxCalls = 2
  MaxLive = 1
  IdleMs = 1
  MaxNow = 1
INVARIANTS NoSessionIsLost
CHECK_DEADLOCK FALSE
