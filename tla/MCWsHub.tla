------------------------------ MODULE MCWsHub ------------------------------
(* WsHub with interchangeable nodes, sockets and listener tasks. *)
EXTENDS WsHub, TLC

Symmetry == Permutations(Node) \cup Permutations(Socket) \cup Permutations(Listener)
=============================================================================
