----------------------------- MODULE MCEventBus -----------------------------
(* Instance of EventBus for TLC: the bounds are numbers in the configuration. *)
EXTENDS EventBus
=============================================================================
