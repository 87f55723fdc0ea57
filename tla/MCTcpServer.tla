---------------------------- MODULE MCTcpServer ----------------------------
(* TcpServer on small instances. *)
EXTENDS TcpServer, TLC

Symmetry ==
  Permutations(Ports) \cup Permutations(Conns) \cup Permutations(LocalPaths)
=============================================================================
