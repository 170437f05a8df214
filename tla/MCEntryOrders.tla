--------------------------- MODULE MCEntryOrders ---------------------------
(* TLC instances of EntryOrders. *)
EXTENDS EntryOrders
=============================================================================
