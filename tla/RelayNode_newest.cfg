SPECIFICATION Spec
CONSTANTS
  appA = appA
  s1 = s1
  s2 = s2
  p1 = p1
  p2 = p2
  p3 = p3
  d1 = d1
  bad = bad
  NoPeer = NoPeer
  NoRoute = NoRoute
  None = None
  App = {appA}
  Node = {self, n1}
  Self = self
  Sender = {s1, s2}
  Pkt = {p1, p2}
  senderOf <- MCsenderOf
  recipientOf <- MCrecipientOf
  PktID <- MCPktID
  idOf <- MCidOf
  Handler = {h1}
  Conn = {c1}
  ReadLoop = readLoop
  QueueMaxSenders = 2
  QueueEntryTTL = 2
  DedupCacheTTL = 1
  PresenceTTL = 1
  AnnouncedTTL = {0}
  MaxClock = 2
PROPERTY NewestKept
