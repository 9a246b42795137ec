---------------------------- MODULE MCTcpStream ----------------------------
EXTENDS TcpStream
=============================================================================
