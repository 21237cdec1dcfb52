--------------------------- MODULE MCPingTracker ----------------------------
EXTENDS PingTracker

\* Three connections, all of them to one peer
mcRemote == [c \in Conn |-> CHOOSE p \in Peer : TRUE]
=============================================================================
