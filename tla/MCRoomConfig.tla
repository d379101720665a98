----------------------------- MODULE MCRoomConfig -----------------------------
(* RoomConfig on a small instance.                                           *)
EXTENDS RoomConfig, TLC

\* Every request: all fields, some, or none.
AllPatches == UNION {[S -> Values] : S \in SUBSET Fields}
NewRoom == [f \in Fields |-> CHOOSE v \in Values : TRUE]

Symmetry == Permutations(TxReq)
===============================================================================
