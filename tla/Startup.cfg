SPECIFICATION FairSpec
CONSTANTS
  Values <- EdgeValues
  MaxSettings = 2
  Loggers = {main, task}
  Main = main
  QueueCap = 2
  MaxLines = 2
INVARIANTS RunsWithinLimits LogSurvivesExit
PROPERTY StartDecided
CHECK_DEADLOCK FALSE
