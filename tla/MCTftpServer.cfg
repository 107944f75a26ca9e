SPECIFICATION TftpSpec
CONSTANTS
  f = f
  g = g
  Kids = {k1, k2, k3}
  None = None
  Hole = Hole
  Names <- MCNames
  Requests <- MCRequests
  OldSize <- MCOldSize
  Arrivals = 3
  Horizon = 2
SYMMETRY MCSymmetry
INVARIANTS
  FileIsLastWrite
  NoTempLeft
  ZombiesAccounted
PROPERTIES
  GetWhole
CHECK_DEADLOCK FALSE
