----------------------------- MODULE MCSSEClient -----------------------------
(* SSEClient on a small instance.                                           *)
EXTENDS SSEClient
==============================================================================
