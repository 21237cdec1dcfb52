SPECIFICATION FairSpec
CONSTANTS
  appA = appA
  s1 = s1
  s2 = s2
  p1 = p1
  p2 = p2
  p3 = p3
  d1 = d1
  bad = bad
  NoPeer = NoPeer
  NoRoute = NoRoute
  None = None
  App = {appA}
  Node = {self, n1}
  Self = self
  Sender = {s1, s2}
  Pkt = {p1, d1, p3, bad}
  senderOf <- MCsenderOf
  recipientOf <- MCrecipientOf
  PktID <- MCPktID
  idOf <- MCidOf
  Handler = {h1}
  Conn = {c1}
  ReadLoop = readLoop
  QueueMaxSenders = 1
  QueueEntryTTL = 0
  DedupCacheTTL = 0
  PresenceTTL = 0
  AnnouncedTTL = {0}
  MaxClock = 1
INVARIANTS
  TypeOK
  NothingLost
  SingleHolder
  QueueBounded
  NotExpiredEarly
  DedupWindow
PROPERTIES
  FlushDelivers
  ImplementsService
