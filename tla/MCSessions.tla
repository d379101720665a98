------------------------------ MODULE MCSessions ------------------------------
(* SessionService on a small instance.                                       *)
EXTENDS SessionService
===============================================================================
