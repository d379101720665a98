------------------------------ MODULE MCWSClient ------------------------------
(* WSClient on small instances.                                              *)
EXTENDS WSClient, TLC

Symmetry == Permutations(Clients) \cup Permutations(Sockets)
===============================================================================
