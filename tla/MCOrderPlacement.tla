-------------------------- MODULE MCOrderPlacement --------------------------
(* Instances of OrderPlacement; a tick stands for five seconds, so the       *)
(* default recvWindow of 15 s is 3 ticks and the HTTP timeout 4.             *)
EXTENDS OrderPlacement
=============================================================================
