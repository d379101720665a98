---------------------------- MODULE MCRateLimiter ----------------------------
(* RateLimiter on small instances.                                          *)
EXTENDS RateLimiter
==============================================================================
