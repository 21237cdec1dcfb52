SPECIFICATION FairSpec
CONSTANTS
  Node = {n1, n2, n3}
  NetworkID = {"net"}
  Card <- mcCard
  Announcer = {n1}
  WithDirectory = {n1}
  Directory <- mcDirectory
  MaxFaults = 1
INVARIANTS
  TypeOK
  CaughtUp
PROPERTIES
  OnlyNewerReplaces
  Settles
CHECK_DEADLOCK FALSE
