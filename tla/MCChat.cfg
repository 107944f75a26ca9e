SPECIFICATION ChatSpec
CONSTANTS
  ann = ann
  bob = bob
  a = a
  b = b
  c = c
  Names <- MCNames
  Texts <- MCTexts
  MaxClient = 2
  Listener = 1
  FdLimit = 6
  Garbage <- MCGarbage
  Junk <- MCJunk
  Clients = {a, b, c}
  NameOf <- MCNameOf3
  Cap = 2
  MaxSays = 1
  Leavers = {a, b, c}
INVARIANTS
  ConnectionsMatch
  RosterAgrees
  HeadMakesSense
  EndsForACause
CHECK_DEADLOCK FALSE
