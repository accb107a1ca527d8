SPECIFICATION FairSpec
CONSTANTS
  x = x  y = y
  Turn = {1, 2}
  Leg = {1, 2, 3}
  Session = {1, 2}
  Tool = {x, y}
  ScopeOf <- CallAndSession
  None = None
  MaxCalls = 1
  MaxLive = 1
  IdleMs = 2
  MaxNow = 1
INVARIANTS NothingOutlivesItsTurn UnansweredStopsNothing NoSessionIsLost
PROPERTIES StopsOnce EveryBorrowIsReturned
CHECK_DEADLOCK FALSE
