SPECIFICATION Spec
CONSTANTS
  c1 = c1
  l1 = l1
  l2 = l2
  Clients <- OneClient
  Loops <- TwoLoops
  MaxCount = 2
  MaxTime = 2
SYMMETRY LoopSymmetry
INVARIANTS TypeOK PortKeepsUp AlarmsExplainMigrations
PROPERTY TotalsNeverDecrease
CHECK_DEADLOCK FALSE
