SPECIFICATION Spec
CONSTANTS
  ByteBase = 3
  pskLen = 2
  Multiaddr <- mcMultiaddr
  Token = {"secret"}
  NoToken = "none"
  Handler = {h1, h2}
  Identity = {i1, i2}
  KeyPath = {"node.key", "other.key"}
  DefaultKey = "node.key"
  PSK <- mcPSK
  Label <- mcLabel
  Invites <- mcInvites
  Edits <- mcEdits
  MyAddrs <- mcMyAddrs
  DefaultPeers <- mcDefaultPeers
  MaxEdits = 1
  MaxFaults = 1
INVARIANTS
  TypeOK
  PublicIsOpen
  IdentityStable
  PrivateStays
  IssuedDecodes
PROPERTIES
  AcceptedJoins
CHECK_DEADLOCK FALSE
SYMMETRY Symmetry
