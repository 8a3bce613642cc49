---------------------------- MODULE MCPeerExchange ----------------------------
(* Instances of PeerExchange for TLC: two nodes.                           *)
EXTENDS PeerExchange, TLC

CONSTANTS a, b

MCBothDial == {<<a, b>>, <<b, a>>}

SessionSymmetry == Permutations(Session)

===============================================================================
