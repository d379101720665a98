-------------------------------- MODULE MCWSHub --------------------------------
(* WSHub on small instances.                                                  *)
EXTENDS WSHub

CONSTANTS c1, c2, c3, s1, s2

\* The last connection is of another session.
TwoSessions == [c \in Conns |-> IF c = c3 THEN s2 ELSE s1]
================================================================================
