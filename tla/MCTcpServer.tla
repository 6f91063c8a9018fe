---------------------------- MODULE MCTcpServer ----------------------------
(* A server with room for a few clients and a handful of descriptors.      *)
EXTENDS TcpServer
============================================================================
