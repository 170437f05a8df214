---------------------------- MODULE MCProxyPool ----------------------------
(* Instances of ProxyPool: two nodes, both of one source. *)
EXTENDS ProxyPool
TwoNodes == {"a", "b"}
OneSource == {TwoNodes}
GoodAndUp == [n \in TwoNodes |-> IF n = "a" THEN "good" ELSE "up"]
=============================================================================
