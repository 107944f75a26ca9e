SPECIFICATION ClientSpec
CONSTANTS
  IDLE_WAIT_TIME = 2
  Horizon = 4
  MaxLines = 3
  Paces = {TRUE, FALSE}
  Spurious = TRUE
  NsecValid = {TRUE, FALSE}
INVARIANTS
  IdleOncePerLine
  NoFourIdles
  IdleAfterSilence
CHECK_DEADLOCK FALSE
