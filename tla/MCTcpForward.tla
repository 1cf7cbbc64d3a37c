---------------------------- MODULE MCTcpForward ----------------------------
EXTENDS TcpForward
=============================================================================
