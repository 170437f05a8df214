---------------------------- MODULE FundingLedger ----------------------------
(***************************************************************************)
(* How funding fees get into the books, under FUNDING_ACCOUNTING=income.   *)
(* The exchange charges a fee each settlement and lists the fees in the    *)
(* income flow.  The main loop polls the flow and books what is newer than *)
(* a cursor, _funding_last_tran, which it keeps in a file.                 *)
(* FundingRateMonitor, a thread of its own, estimates the fee of each      *)
(* period and books that instead where the flow does not answer.  The      *)
(* process may crash between any two steps; the books (PortfolioTracker)   *)
(* start empty in each life.                                               *)
(*                                                                         *)
(* Fees are numbered 1, 2, ... in the order of their tranId, and each      *)
(* stands for one settlement of one position.                              *)
(***************************************************************************)
EXTENDS Naturals

CONSTANTS
  MaxFees,      \* bound: fees charged
  MaxFaults,    \* bound: polls without an answer, and files that cannot be written
  MaxCrashes    \* bound: crashes

ASSUME LedgerAssumption == MaxFees \in Nat /\ MaxFaults \in Nat /\ MaxCrashes \in Nat

VARIABLES
  charged,    \* exchange: fees charged so far
  file,       \* the cursor in funding_state.json, NoCursor when it holds none
  up,         \* the process runs
  cursor,     \* _funding_last_tran, NoCursor for None
  estimating, \* FundingRateMonitor.on_cost is _on_funding_cost
  monitor,    \* FundingRateMonitor._run: "first" cycle, then "due" or "done" for this period
  main,       \* _sync_funding_income: where it is, and the newest fee of the flow it got
  booked,     \* the books: how often each fee was booked from the flow
  estimated,  \*   and from an estimate
  used,       \* what the bounds count
  settled,    \* history: fees booked from the flow in some life, or taken for history
  blind       \* history: did the flow fail in this life before there was a cursor?

memory == <<cursor, estimating, monitor, main, booked, estimated>>
vars   == <<charged, file, up, memory, used, settled, blind>>

Fees     == 1..MaxFees
NoCursor == MaxFees + 1
Cursors  == 0..NoCursor
None     == cursor = NoCursor

TypeOK ==
  /\ charged \in 0..MaxFees /\ file \in Cursors /\ up \in BOOLEAN /\ cursor \in Cursors
  /\ estimating \in BOOLEAN /\ monitor \in {"first", "due", "done"}
  /\ main \in [pc : {"idle", "got", "write", "dump"}, hi : 0..MaxFees]
  /\ booked \in [Fees -> Nat] /\ estimated \in [Fees -> Nat]
  /\ used \in [faults : Nat, crashes : Nat]
  /\ settled \subseteq Fees /\ blind \in BOOLEAN

MainIdle == [pc |-> "idle", hi |-> 0]

Init ==
  /\ charged = 0 /\ file = NoCursor /\ up = TRUE
  /\ cursor = NoCursor /\ estimating = FALSE /\ monitor = "first" /\ main = MainIdle
  /\ booked = [k \in Fees |-> 0] /\ estimated = [k \in Fees |-> 0]
  /\ used = [faults |-> 0, crashes |-> 0]
  /\ settled = {} /\ blind = FALSE

Fault == used.faults < MaxFaults /\ used' = [used EXCEPT !.faults = @ + 1]

-----------------------------------------------------------------------------
(* Every eight hours the exchange charges a fee, and the monitor runs once.  *)
Charge ==
  /\ charged < MaxFees
  /\ charged' = charged + 1
  /\ monitor' = IF up /\ monitor # "first" THEN "due" ELSE monitor
  /\ UNCHANGED <<file, up, cursor, estimating, main, booked, estimated, used, settled, blind>>

(* check_positions: the first cycle of a life, and one without a rate, book  *)
(* nothing.                                                                  *)
Estimate ==
  /\ up /\ monitor # "done"
  /\ monitor' = "done"
  /\ \/ UNCHANGED estimated
     \/ /\ monitor = "due" /\ estimating
        /\ estimated' = [estimated EXCEPT ![charged] = @ + 1]
  /\ UNCHANGED <<charged, file, up, cursor, estimating, main, booked, used, settled, blind>>

-----------------------------------------------------------------------------
(* get_income: the newest fee of the flow; 0 when the flow is empty. *)
Newest == charged

(* _sync_funding_income: without a cursor it looks into the file first.      *)
Remembered == IF None THEN file ELSE cursor

Poll ==
  /\ up /\ main.pc = "idle"
  /\ cursor' = Remembered
  /\ main' = [pc |-> "got", hi |-> Newest]
  /\ UNCHANGED <<charged, file, up, estimating, monitor, booked, estimated, used, settled, blind>>

(* _enable_estimate_fallback, when there has been no cursor yet; it stays on. *)
Falls_Always == TRUE   \* mutant
Falls == Remembered = NoCursor

PollFails ==
  /\ up /\ main.pc = "idle"
  /\ Fault
  /\ cursor' = Remembered
  /\ estimating' = (estimating \/ Falls)
  /\ blind' = (blind \/ Remembered = NoCursor)
  /\ UNCHANGED <<charged, file, up, monitor, main, booked, estimated, settled>>

(* An empty flow, or one without anything new. *)
NothingNew ==
  /\ up /\ main.pc = "got"
  /\ main.hi = 0 \/ (~None /\ main.hi <= cursor)
  /\ main' = MainIdle
  /\ UNCHANGED <<charged, file, up, cursor, estimating, monitor, booked, estimated, used, settled, blind>>

(* The first fees are history: they are not booked. *)
Seed ==
  /\ up /\ main.pc = "got" /\ main.hi > 0 /\ None
  /\ cursor' = main.hi
  /\ main' = [main EXCEPT !.pc = "write"]
  /\ settled' = settled \cup 1..main.hi
  /\ UNCHANGED <<charged, file, up, estimating, monitor, booked, estimated, used, blind>>

Fresh_Inclusive == {k \in 1..main.hi : k >= cursor}   \* mutant
Fresh_Newest == {main.hi}   \* mutant
Fresh == {k \in 1..main.hi : k > cursor}

(* Mutant: the cursor is advanced, not set. *)
Book_Advances ==
  /\ up /\ main.pc = "got" /\ ~None /\ main.hi > cursor
  /\ booked' = [k \in Fees |-> IF k \in Fresh THEN booked[k] + 1 ELSE booked[k]]
  /\ cursor' = cursor + main.hi
  /\ main' = [main EXCEPT !.pc = "write"]
  /\ settled' = settled \cup Fresh
  /\ UNCHANGED <<charged, file, up, estimating, monitor, estimated, used, blind>>

Book ==
  /\ up /\ main.pc = "got" /\ ~None /\ main.hi > cursor
  /\ booked' = [k \in Fees |-> IF k \in Fresh THEN booked[k] + 1 ELSE booked[k]]
  /\ cursor' = main.hi
  /\ main' = [main EXCEPT !.pc = "write"]
  /\ settled' = settled \cup Fresh
  /\ UNCHANGED <<charged, file, up, estimating, monitor, estimated, used, blind>>

(* _write_funding_state: opening the file empties it; either step may fail. *)
Write ==
  /\ up /\ main.pc = "write"
  /\ \/ main' = [main EXCEPT !.pc = "dump"] /\ file' = NoCursor /\ UNCHANGED used
     \/ main' = MainIdle /\ Fault /\ UNCHANGED file
  /\ UNCHANGED <<charged, up, cursor, estimating, monitor, booked, estimated, settled, blind>>

Dump ==
  /\ up /\ main.pc = "dump"
  /\ \/ file' = cursor /\ UNCHANGED used
     \/ Fault /\ UNCHANGED file
  /\ main' = MainIdle
  /\ UNCHANGED <<charged, up, cursor, estimating, monitor, booked, estimated, settled, blind>>

-----------------------------------------------------------------------------
Crash ==
  /\ up /\ used.crashes < MaxCrashes
  /\ up' = FALSE
  /\ cursor' = NoCursor /\ estimating' = FALSE /\ monitor' = "first" /\ main' = MainIdle
  /\ booked' = [k \in Fees |-> 0] /\ estimated' = [k \in Fees |-> 0]
  /\ used' = [used EXCEPT !.crashes = @ + 1]
  /\ blind' = FALSE
  /\ UNCHANGED <<charged, file, settled>>

Start ==
  /\ ~up
  /\ up' = TRUE
  /\ UNCHANGED <<charged, file, memory, used, settled, blind>>

Sync == Poll \/ NothingNew \/ Seed \/ Book \/ Write \/ Dump
Next == Charge \/ Estimate \/ Sync \/ PollFails \/ Crash \/ Start

Spec == Init /\ [][Next]_vars

(* A crashed process is started again and its main loop keeps polling. *)
Fairness == WF_vars(Sync) /\ WF_vars(Start)
FairSpec == Spec /\ Fairness

-----------------------------------------------------------------------------
(* In one life of the process no fee enters the books twice from the flow,   *)
(* however often polls fail, files are lost and fees arrive meanwhile.       *)
BookedOnce == \A k \in Fees : booked[k] <= 1

(* "Only when there has never been a cursor, lest an outage after a success  *)
(* books twice" (_enable_estimate_fallback): flow and estimate book the same *)
(* fee only in a life whose first polls failed without a cursor.             *)
OneSource == (\E k \in Fees : booked[k] + estimated[k] > 1) => blind

(* _write_funding_state: the cursor a restarted process finds never skips a  *)
(* fee that was neither booked nor taken for history before a crash.         *)
FileIsSafe == file # NoCursor => 1..file \subseteq settled

(* Whatever polls, files and processes are lost, every fee is booked from    *)
(* the flow in the end, or was history when a cursor was seeded.             *)
EveryFeeSettled == \A k \in Fees : k <= charged ~> k \in settled
=============================================================================
