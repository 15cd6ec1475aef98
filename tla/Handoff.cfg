SPECIFICATION FairSpec
CONSTANTS
  p1 = p1
  p2 = p2
  p3 = p3
  Ports <- ThreePorts
  InitPort = p1
  MaxMigrations = 2
  DecoyTime = 2
INVARIANTS TypeOK RulesHaveKeeper
PROPERTY HandoffEnds
CHECK_DEADLOCK FALSE
