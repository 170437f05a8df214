---------------------------- MODULE MCUserStream ----------------------------
(* Instance of UserStream for TLC: the keys are model values, one more than  *)
(* the program can have in use at once.                                      *)
EXTENDS UserStream
=============================================================================
