SPECIFICATION ProxyLiveSpec
CONSTANTS
  c1 = c1
  c2 = c2
  Clients = {c1, c2}
  p = p
  q = q
  r = r
  root = root
  x = x
  y = y
  Urls <- MCUrls
  FileOf <- MCFileOf
  Asks <- MCAsks
  Clock <- MCClock
  Moments <- MCMoments
  NoName = NoName
  Garbage = Garbage
  Listener = Listener
  Nobody = Nobody
  None = None
  Junk = Junk
  Cells = 2
  Lifetimes <- MCLifetimes
  Changing = {p}
  Missing = {r}
  MaxVersion = 2
  Horizon = 3
  MaxRequests = 4
INVARIANTS
  OneEntryPerPage
  FileOfEntry
  RightPage
  DatesRight
PROPERTIES
  VictimIsOldest
  StaleOnlyAfterUse
  RequestAnswered
CHECK_DEADLOCK FALSE
