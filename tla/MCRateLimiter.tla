---------------------------- MODULE MCRateLimiter ----------------------------
(* RateLimiter for TLC: gateway "b" is ahead of "a" by all of the drift. *)
EXTENDS RateLimiter

Ahead == [g \in Gateways |-> IF g = "b" THEN Drift ELSE 0]
==============================================================================
