-------------------------------- MODULE Peers -------------------------------
(***************************************************************************)
(* The two kinds of libp2p peer ID the relay deals with.                   *)
(***************************************************************************)
CONSTANTS
  App,   \* peer IDs of apps, which connect to a node by WebSocket
  Node   \* peer IDs of nodes, which form the libp2p network
=============================================================================
