SPECIFICATION FairPingSpec
CONSTANTS
  Peer = {p1}
  Conn = {k1, k2, k3}
  remote <- mcRemote
INVARIANTS
  OnlyLateMisleads
PROPERTIES
  GoneIsReported
