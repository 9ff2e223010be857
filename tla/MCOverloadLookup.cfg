CONSTANTS
  MaxFns = 3
  Scans <- MCScans
SPECIFICATION Spec
INVARIANTS
  ReturnsFirstBest
