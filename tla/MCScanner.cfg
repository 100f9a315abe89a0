SPECIFICATION ScannerSpec
CONSTANTS
  Byte = 2
  Ports = 4
  Blocks <- MCBlocks
  PortPairs <- MCPortPairs
  t1 = t1
  t2 = t2
  Targets <- MCTargets
  MaxDue = 2
INVARIANTS
  SweepCovers
  ScanGoesOn
PROPERTIES
  SweepEnds
  FoundStays
  StopHolds
  AttemptEnds
