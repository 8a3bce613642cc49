---------------------------- MODULE MCTcpEndpoint ----------------------------
EXTENDS TcpEndpoint

CONSTANTS s1, s2

===============================================================================
