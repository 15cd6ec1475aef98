SPECIFICATION Spec
CONSTANTS
  p1 = p1
  p2 = p2
  c1 = c1
  c2 = c2
  c3 = c3
  Conns <- ThreeConns
  Ports <- TwoPorts
  InitPort = p1
  MaxConn = 2
  QueueCap = 2
  MaxMigrations = 2
SYMMETRY ConnSymmetry
INVARIANTS TypeOK PermitsConserved ActiveWithinLimit NoOrphanListener OneMigrationPerBurst PublishedPortIsCurrent MigrationsWithinAlarms
PROPERTY ImplementsAdmission ImplementsService
CHECK_DEADLOCK FALSE
