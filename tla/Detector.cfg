SPECIFICATION Spec
CONSTANTS
  a = a
  b = b
  c = c
  Ips <- ThreeIps
  Threshold = 2
  Window = 1
  MaxTracked = 2
  MaxHits = 9
  MaxTime = 2
SYMMETRY IpSymmetry
INVARIANTS TypeOK NoFalseAlarm NoMissedScan MemoryBound
