SPECIFICATION FairRead
CONSTANTS
  Blocks = 4
  Mod = 3
  TIMEOUT = 1
  MAX_RETRIES = 3
  ClientTimeout = 2
  ClientRetries = 2
  Cap = 2
  Reorder = 1
  MaxLosses = 2
  MaxDups = 1
  Paces = {TRUE, FALSE}
  Faults = {"aborted", "dead"}
PROPERTIES
  ReadTransfers
  ReadEnds
  ReadArrives
CHECK_DEADLOCK FALSE
