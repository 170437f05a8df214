---------------------------- MODULE MCMarketFeed ----------------------------
(* Instances of MarketFeed. *)
EXTENDS MarketFeed
=============================================================================
