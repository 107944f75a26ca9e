SPECIFICATION ClientSpec
CONSTANTS
  IDLE_WAIT_TIME = 2
  Horizon = 7
  MaxLines = 3
  Paces = {TRUE}
  Spurious = FALSE
  NsecValid = {TRUE}
INVARIANTS
  SilenceAnnounced
CHECK_DEADLOCK FALSE
