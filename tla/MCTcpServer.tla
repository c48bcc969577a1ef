---------------------------- MODULE MCTcpServer -----------------------------
(* TcpServer on a small machine: the clients are interchangeable.          *)
EXTENDS TcpServer, TLC

ClientSymmetry == Permutations(Conn)
=============================================================================
