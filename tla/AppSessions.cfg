SPECIFICATION FairSpec
CONSTANTS
  appA = appA
  None = None
  App = {appA}
  Node = {}
  Conn = {c1, c2}
  appOf <- MCappOf
  Ctx = {x1, x2, x3}
  MaxAppConnections = 1
INVARIANTS
  NoGhostRegistration
  LiveRefresher
  AppPeerIsLive
  OnlyRacesExceed
PROPERTIES
  GoneAppLeaves
  AnnounceHeals
