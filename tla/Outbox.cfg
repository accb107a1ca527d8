SPECIFICATION FairSpec
CONSTANTS
  d1 = d1  d2 = d2
  Drainer = {d1, d2}
  MaxItems = 3
  PerDelivery = 2
  ByteLimits = TRUE
  Timed = TRUE
  MaxWaiting = 4
INVARIANTS DrainKeepsItsWord NothingStranded
PROPERTIES EveryDrainEnds
