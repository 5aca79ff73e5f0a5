---------------------------- MODULE MCTcpSession ----------------------------
(* Small instances of TcpSession for TLC.                                  *)
EXTENDS TcpSession

CONSTANTS p1, p2
=============================================================================
