SPECIFICATION TrapSpec
CONSTANTS
  p1 = p1
  p2 = p2
  c1 = c1
  c2 = c2
  c3 = c3
  a = a
  b = b
  Conns <- ThreeConns
  Ports <- TwoPorts
  Ips <- TwoIps
  InitPort = p1
  MaxConn = 1
  QueueCap = 1
  MaxMigrations = 1
  Threshold = 2
  Window = 1
  MaxTracked = 2
  MaxTime = 2
SYMMETRY TrapSymmetry
INVARIANTS HitsAreConnections MigrationsWithinScans AttacksAreScans
CHECK_DEADLOCK FALSE
