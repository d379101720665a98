-------------------------------- MODULE MCRoom --------------------------------
(* Room on small instances.                                                  *)
EXTENDS Room, TLC

\* Row ids and goroutines are interchangeable.
Symmetry == Permutations(Items) \cup Permutations(TxReq) \cup Permutations(PReq)
===============================================================================
