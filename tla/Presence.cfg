SPECIFICATION Spec
CONSTANTS
  App = {a}
  Node = {h1, h2, m}
  Home = {h1, h2, m}
  Watched = {m}
  NoRoute = NoRoute
  PresenceTTL = 4
  PresenceRefreshInterval = 3
  MaxDelay = 1
  MaxLost = 1
INVARIANTS
  RouteBacked
  HealsInTime
SYMMETRY Symmetry
