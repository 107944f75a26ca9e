SPECIFICATION Spec
CONSTANTS
  ann = ann
  bob = bob
  cy = cy
  dan = dan
  hello = hello
  Names <- MCNames
  Texts <- MCTexts
  MaxClient = 3
  Listener = 1
  FdLimit = 6
  Garbage <- MCGarbage
  Junk <- MCJunk
INVARIANTS
  TypeOK
  UniqueUsers
  WatchIsTable
  NoDescriptorLost
  SelectNeverFails
  CastNamesSender
  CastToMembers
  IInv
PROPERTY
  SnapshotStable
CHECK_DEADLOCK FALSE
