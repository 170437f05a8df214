---------------------------- MODULE MCProtection ----------------------------
(* Instances of Protection: one entry of one or two lots. *)
EXTENDS Protection
OneEntry == {1}
=============================================================================
