SPECIFICATION EchoLiveSpec
CONSTANTS
  c1 = c1
  c2 = c2
  NoConn = NoConn
  Clients <- MCClients
  Kids <- MCKids
  Inputs <- MCInputs
  B = 3
  Cap = 2
PROPERTIES
  LastLineEchoed
CHECK_DEADLOCK FALSE
