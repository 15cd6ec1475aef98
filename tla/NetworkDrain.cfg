SPECIFICATION Spec
CONSTANTS
  p1 = p1
  p2 = p2
  c1 = c1
  c2 = c2
  c3 = c3
  Conns <- TwoConns
  Ports <- TwoPorts
  InitPort = p1
  MaxConn = 1
  QueueCap = 1
  MaxMigrations = 1
INVARIANT DrainCompletes
CHECK_DEADLOCK FALSE
