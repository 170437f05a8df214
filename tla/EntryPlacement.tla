--------------------------- MODULE EntryPlacement ---------------------------
(* What the placement of one entry order promises to OrderManager.submit_    *)
(* entry: the exchange takes at most one order, and none any more once the   *)
(* outcome is recorded, unless a connection broke while a request travelled; *)
(* an order recorded as placed is there.  An order recorded as rejected may  *)
(* be there too: that is what the caller lives with (PlaceFailed of module   *)
(* EntryOrders).                                                             *)
EXTENDS Naturals

VARIABLES
  orders,   \* how many orders the exchange has accepted
  outcome,  \* "none", "PENDING" or "REJECTED"
  broken    \* has a connection broken?

Init == orders = 0 /\ outcome = "none" /\ broken = FALSE

Accept ==
  /\ orders = 0 /\ (outcome = "none" \/ broken)
  /\ orders' = 1
  /\ UNCHANGED <<outcome, broken>>

Placed ==
  /\ outcome = "none" /\ orders = 1
  /\ outcome' = "PENDING"
  /\ UNCHANGED <<orders, broken>>

GivenUp ==
  /\ outcome = "none"
  /\ outcome' = "REJECTED"
  /\ UNCHANGED <<orders, broken>>

(* It may break at the last try, which is then given up. *)
Break ==
  /\ outcome = "none"
  /\ broken' = TRUE
  /\ outcome' \in {"none", "REJECTED"}
  /\ UNCHANGED orders

Next == Accept \/ Placed \/ GivenUp \/ Break

Spec == Init /\ [][Next]_<<orders, outcome, broken>>
=============================================================================
