----------------------------- MODULE MCPeerLocks -----------------------------
EXTENDS PeerLocks

CONSTANTS p1, p2

===============================================================================
