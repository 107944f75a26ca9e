SPECIFICATION FairWrite
CONSTANTS
  Blocks = 4
  Mod = 3
  TIMEOUT = 1
  MAX_RETRIES = 3
  ClientTimeout = 2
  ClientRetries = 2
  Cap = 2
  Reorder = 1
  MaxLosses = 2
  MaxDups = 1
  Paces = {TRUE, FALSE}
  Faults = {"aborted", "dead"}
  DiskBlocks = 4
  Eager = TRUE
PROPERTIES
  WriteTransfers
  WriteEnds
  WriteArrives
CHECK_DEADLOCK FALSE
