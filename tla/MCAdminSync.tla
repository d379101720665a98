----------------------------- MODULE MCAdminSync -----------------------------
(* AdminSync on a small instance.                                            *)
EXTENDS AdminSync
===============================================================================
