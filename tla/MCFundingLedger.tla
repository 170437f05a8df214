-------------------------- MODULE MCFundingLedger --------------------------
(* Instances of FundingLedger. *)
EXTENDS FundingLedger
=============================================================================
