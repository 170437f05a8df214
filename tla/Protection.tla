----------------------------- MODULE Protection -----------------------------
(***************************************************************************)
(* The life of the position of one symbol and of the SL/TP orders that     *)
(* protect it, on the exchange and in the program, after its entry has     *)
(* been filled (module EntryOrders).  Four threads act on it:              *)
(*                                                                         *)
(*   "entry"  registers the fill and places SL and TP                      *)
(*   "main"   run_forever: sync_algo_orders, the protective close, the     *)
(*            pending timeout                                              *)
(*   "cmd"    force_exit and cancel_all commands                           *)
(*   "recon"  PositionReconciler and SystemRunner._on_reconcile_drift      *)
(*                                                                         *)
(* Actions are the code between two points where a thread may be           *)
(* interrupted, as in EntryOrders.  An entry buys Qty lots.                *)
(***************************************************************************)
EXTENDS Naturals, FiniteSets

CONSTANTS
  Entries,      \* entries that may be filled, 1..n
  Qty,          \* lots of one entry
  MaxFaults,    \* bound: failed calls and lost answers
  MaxCommands   \* bound: commands and protective closes

ASSUME EntriesAssumption == Entries \subseteq Nat \ {0}
ASSUME QtyAssumption     == Qty \in Nat \ {0}

VARIABLES
  held,      \* exchange: lots of the position
  xa,        \* exchange: status of each SL/TP order the program knows by its id
  ghosts,    \* exchange: SL/TP orders whose acceptance the program never heard of
  pos,       \* PortfolioTracker.positions[symbol].quantity, 0 when there is none
  la,        \* OrderManager._orders: local status of each SL/TP order
  th,        \* per thread: where it is, and its local variables
  filled,    \* entries filled so far
  used,      \* what the bounds count
  abandoned  \* history: orders that a failed cancel_all, or a cancellation that was
             \*   refused, leaves open

exchange == <<held, xa, ghosts>>
vars     == <<exchange, pos, la, th, filled, used, abandoned>>

Threads == {"entry", "main", "cmd", "recon"}
Algos   == Entries \X {"SL", "TP"}
NoAlgo  == <<0, "none">>
XStatus == {"none", "open", "triggered", "canceled"}
LStatus == {"none", "PENDING", "FILLED", "CANCELED", "REJECTED"}
Local   == [pc : {"idle", "fill", "open", "SL", "TP", "query", "apply", "triggered",
                  "cancel", "cancelAns", "market", "close", "bulk", "compare", "import", "align"},
            then : {"idle", "market", "close"}, todo : SUBSET Algos, cur : Algos \cup {NoAlgo},
            ans : {"none", "CANCELED", "REJECTED", "ERROR"}, lots : Nat, late : BOOLEAN]

TypeOK ==
  /\ held \in Nat
  /\ xa \in [Algos -> XStatus] /\ ghosts \subseteq Algos
  /\ pos \in Nat
  /\ la \in [Algos -> LStatus]
  /\ th \in [Threads -> Local]
  /\ filled \subseteq Entries
  /\ used \in [faults : Nat, commands : Nat]
  /\ abandoned \subseteq Algos

Rest == [pc |-> "idle", then |-> "idle", todo |-> {}, cur |-> NoAlgo,
         ans |-> "none", lots |-> 0, late |-> FALSE]

Init ==
  /\ held = 0
  /\ xa = [a \in Algos |-> "none"] /\ ghosts = {}
  /\ pos = 0
  /\ la = [a \in Algos |-> "none"]
  /\ th = [t \in Threads |-> Rest]
  /\ filled = {}
  /\ used = [faults |-> 0, commands |-> 0]
  /\ abandoned = {}

At(t, p)   == th[t].pc = p
Goes(t, r) == th' = [th EXCEPT ![t] = r]
Goto(t, p) == Goes(t, [th[t] EXCEPT !.pc = p])
Leave(t)   == Goes(t, Rest)
Fault      == used.faults < MaxFaults /\ used' = [used EXCEPT !.faults = @ + 1]
Less(m, n) == IF m < n THEN m ELSE n
Larger(m, n) == IF m > n THEN m ELSE n

Active == {a \in Algos : la[a] = "PENDING"}          \* OrderManager.active_orders

-----------------------------------------------------------------------------
(* The exchange. *)

(* A reduce-only order is executed: it closes what it can of the lots of an  *)
(* entry.  (An order for what an entry lacked, see Open, counts as one of    *)
(* all its lots.)                                                            *)
Reduces ==
  /\ held' = held - Less(held, Qty)
  /\ UNCHANGED <<pos, la, th, filled, used, abandoned>>

Trigger(a) ==
  /\ xa[a] = "open"
  /\ xa' = [xa EXCEPT ![a] = "triggered"]
  /\ Reduces
  /\ UNCHANGED ghosts

TriggerGhost(a) ==
  /\ a \in ghosts
  /\ ghosts' = ghosts \ {a}
  /\ Reduces
  /\ UNCHANGED xa

-----------------------------------------------------------------------------
(* The entry: filled on the exchange, then registered and protected, in the  *)
(* order of _register_fills or in that of execute_signal.                    *)

(* _execute_signal skips a symbol with a position. *)
Enter(e) ==
  /\ At("entry", "idle")
  /\ e \notin filled /\ \A d \in Entries : d < e => d \in filled
  /\ pos = 0
  /\ filled' = filled \cup {e}
  /\ held' = held + Qty
  /\ \E p \in {"open", "SL"} : Goes("entry", [Rest EXCEPT !.pc = p, !.lots = e, !.late = (p = "open")])
  /\ UNCHANGED <<xa, ghosts, pos, la, used, abandoned>>

(* open_position, which replaces what is there; or, in _register_fills, when *)
(* there is a position by now, update_position and the protection of what it *)
(* lacked, if it lacked anything.                                            *)
Open ==
  /\ At("entry", "open")
  /\ pos' = IF th["entry"].late THEN Larger(pos, Qty) ELSE Qty
  /\ IF th["entry"].late /\ pos < Qty THEN Goto("entry", "SL") ELSE Leave("entry")
  /\ UNCHANGED <<exchange, la, filled, used, abandoned>>

(* place_algo_order: what it comes to, accepted, or refused or failed. *)
Outcome(a) ==
  \/ xa' = [xa EXCEPT ![a] = "open"] /\ la' = [la EXCEPT ![a] = "PENDING"]
  \/ xa' = xa /\ la' = [la EXCEPT ![a] = "REJECTED"]

(* _place_algo_with_retry.  An algo order has no client id: a try that was   *)
(* accepted although its answer was lost leaves an order nobody knows of.    *)
LostTries(a) ==
  \/ UNCHANGED <<ghosts, used>>
  \/ Fault /\ ghosts' = ghosts \cup {a}

(* submit_stop_loss, submit_take_profit *)
Place(k) ==
  /\ At("entry", k)
  /\ LET a == <<th["entry"].lots, k>> IN Outcome(a) /\ LostTries(a)
  /\ IF k = "SL" THEN Goto("entry", "TP")
     ELSE IF th["entry"].late THEN Leave("entry") ELSE Goto("entry", "open")
  /\ UNCHANGED <<held, pos, filled, abandoned>>

-----------------------------------------------------------------------------
(* Cancelling SL/TP orders one by one: _cancel_one_order, cancel_algo_order. *)

(* What a thread does next: cancel what is left, or what comes after. *)
After(loc) ==
  IF loc.todo # {} THEN [loc EXCEPT !.pc = "cancel"]
  ELSE IF loc.then = "idle" THEN Rest
  ELSE [Rest EXCEPT !.pc = loc.then, !.lots = loc.lots]

(* Thread t cancels what is active and goes on with what comes then. *)
Cancelling(t, then) ==
  Goes(t, After([Rest EXCEPT !.todo = Active, !.then = then,
                             !.lots = IF then = "market" THEN pos ELSE 0]))

(* A cancellation reaches the exchange. *)
Ends(a) == xa' = IF xa[a] = "open" THEN [xa EXCEPT ![a] = "canceled"] ELSE xa

(* What becomes of a cancellation of order a, and its status r.  An answer   *)
(* with any error code is REJECTED (_status_or_fail), also one that refuses  *)
(* the request and leaves the order as it is, after a fault: -1022 for the   *)
(* signature of a retry, -1021, 429.                                         *)
CancelCall(a, r) ==
  \/ /\ r = IF xa[a] = "open" THEN "CANCELED" ELSE "REJECTED"
     /\ Ends(a)
     /\ UNCHANGED <<used, abandoned>>
  \/ /\ r \in {"REJECTED", "ERROR"} /\ Fault
     /\ Ends(a)
     /\ UNCHANGED abandoned
  \/ /\ r \in {"REJECTED", "ERROR"} /\ Fault
     /\ UNCHANGED xa
     /\ abandoned' = IF r = "REJECTED" /\ xa[a] = "open" THEN abandoned \cup {a} ELSE abandoned

CancelNext(t) ==
  /\ At(t, "cancel")
  /\ \E a \in th[t].todo, r \in {"CANCELED", "REJECTED", "ERROR"} :
       /\ CancelCall(a, r)
       /\ Goes(t, [th[t] EXCEPT !.pc = "cancelAns", !.cur = a, !.todo = @ \ {a}, !.ans = r])
  /\ UNCHANGED <<held, ghosts, pos, la, filled>>

(* After a failed call the order is left as it is, to be cancelled again.    *)
CancelAnswer(t) ==
  /\ At(t, "cancelAns")
  /\ la' = IF th[t].ans = "ERROR" THEN la ELSE [la EXCEPT ![th[t].cur] = "CANCELED"]
  /\ Goes(t, After([th[t] EXCEPT !.cur = NoAlgo, !.ans = "none"]))
  /\ UNCHANGED <<exchange, pos, filled, used, abandoned>>

(* close_position *)
Close(t) ==
  /\ At(t, "close")
  /\ pos' = 0
  /\ Leave(t)
  /\ UNCHANGED <<exchange, la, filled, used, abandoned>>

-----------------------------------------------------------------------------
(* sync_algo_orders: what is PENDING, then what the exchange has open, then  *)
(* the difference counts as triggered.                                       *)

AlgoPoll ==
  /\ At("main", "idle")
  /\ Active # {}
  /\ Goes("main", [Rest EXCEPT !.pc = "query", !.todo = Active])
  /\ UNCHANGED <<exchange, pos, la, filled, used, abandoned>>

(* Orders that are not in the list get_open_algo_orders returned. *)
Missing_OnFailure(todo) == todo   \* mutant
Missing(todo) == {}

AlgoQuery ==
  /\ At("main", "query")
  /\ LET todo == th["main"].todo IN
       \/ /\ Goes("main", [th["main"] EXCEPT !.pc = "apply", !.todo = {a \in todo : xa[a] # "open"}])
          /\ UNCHANGED used
       \/ /\ Goes("main", [th["main"] EXCEPT !.pc = "apply", !.todo = Missing(todo)]) /\ Fault
  /\ UNCHANGED <<exchange, pos, la, filled, abandoned>>

AlgoApply ==
  /\ At("main", "apply")
  /\ la' = [a \in Algos |-> IF a \in th["main"].todo THEN "FILLED" ELSE la[a]]
  /\ IF th["main"].todo = {} THEN Leave("main") ELSE Goto("main", "triggered")
  /\ UNCHANGED <<exchange, pos, filled, used, abandoned>>

(* _on_protection_triggered *)
OnTriggered ==
  /\ At("main", "triggered")
  /\ Cancelling("main", IF pos = 0 THEN "idle" ELSE "close")
  /\ UNCHANGED <<exchange, pos, la, filled, used, abandoned>>

(* _check_pending_timeouts, for an SL/TP order without a position. *)
PendingTimeout_EntriesOnly(a) == FALSE /\ UNCHANGED vars   \* mutant
PendingTimeout(a) ==
  /\ At("main", "idle")
  /\ la[a] = "PENDING"
  /\ pos = 0
  /\ Goes("main", [Rest EXCEPT !.pc = "cancel", !.todo = {a}])
  /\ UNCHANGED <<exchange, pos, la, filled, used, abandoned>>

-----------------------------------------------------------------------------
(* Commands, and the protective close of the main thread. *)

Command == used.commands < MaxCommands /\ used' = [used EXCEPT !.commands = @ + 1]

(* _force_exit_symbol, from a command or from _protective_close *)
ForceExit(t) ==
  /\ t \in {"cmd", "main"} /\ At(t, "idle")
  /\ pos > 0
  /\ Command
  /\ Cancelling(t, "market")
  /\ UNCHANGED <<exchange, pos, la, filled, abandoned>>

(* Lots a reduce-only market order may execute: at most the quantity of the  *)
(* Position read at the start, which update_position may have changed since. *)
Exits_NotReduceOnly(t) == 0..Larger(th[t].lots, pos)   \* mutant
Exits(t) == 0..Less(held, Larger(th[t].lots, pos))

(* It is executed in full or in part, or refused, or not known to be         *)
(* executed.  Only an execution closes the local position.                   *)
Market(t) ==
  /\ At(t, "market")
  /\ \E n \in Exits(t) :
       /\ held' = held - n
       /\ \/ n > 0 /\ Goto(t, "close") /\ UNCHANGED used
          \/ n = 0 /\ Leave(t) /\ UNCHANGED used
          \/ n > 0 /\ Leave(t) /\ Fault
  /\ UNCHANGED <<xa, ghosts, pos, la, filled, abandoned>>

(* cancel_all_open_orders: carried out, or failed, which nobody looks at. *)
CancelAll ==
  /\ At("cmd", "idle")
  /\ used.commands < MaxCommands
  /\ \/ /\ xa' = [a \in Algos |-> IF xa[a] = "open" THEN "canceled" ELSE xa[a]]
        /\ ghosts' = {}
        /\ used' = [used EXCEPT !.commands = @ + 1]
     \/ /\ used.faults < MaxFaults
        /\ used' = [faults |-> used.faults + 1, commands |-> used.commands + 1]
        /\ UNCHANGED <<xa, ghosts>>
  /\ Goto("cmd", "bulk")
  /\ UNCHANGED <<held, pos, la, filled, abandoned>>

CancelAllMark ==
  /\ At("cmd", "bulk")
  /\ la' = [a \in Algos |-> IF a \in Active THEN "CANCELED" ELSE la[a]]
  /\ abandoned' = abandoned \cup {a \in Active : xa[a] = "open"}
  /\ Leave("cmd")
  /\ UNCHANGED <<exchange, pos, filled, used>>

-----------------------------------------------------------------------------
(* PositionReconciler.reconcile and _on_reconcile_drift. *)

(* The remote position is fetched first, the local one is read afterwards. *)
Fetch ==
  /\ At("recon", "idle")
  /\ Goes("recon", [Rest EXCEPT !.pc = "compare", !.lots = held])
  /\ UNCHANGED <<exchange, pos, la, filled, used, abandoned>>

(* An account that cannot be read skips the round. *)
FetchFailed ==
  /\ At("recon", "idle")
  /\ Fault
  /\ UNCHANGED <<exchange, pos, la, th, filled, abandoned>>

Drift_NoAlign(remote, local) ==   \* mutant
  IF local = 0 /\ remote > 0 THEN "import" ELSE IF remote = 0 /\ local > 0 THEN "cancel" ELSE "idle"
Drift(remote, local) ==
  IF remote = local THEN "idle"
  ELSE IF remote = 0 THEN "cancel"
  ELSE IF local = 0 THEN "import"
  ELSE "align"

(* local_only needs a price: without one the symbol is skipped. *)
Compare ==
  /\ At("recon", "compare")
  /\ LET d == Drift(th["recon"].lots, pos) IN
       \/ d = "cancel" /\ Cancelling("recon", "close") /\ UNCHANGED used
       \/ d = "cancel" /\ Leave("recon") /\ Fault
       \/ d = "idle" /\ Leave("recon") /\ UNCHANGED used
       \/ d \in {"import", "align"} /\ Goto("recon", d) /\ UNCHANGED used
  /\ UNCHANGED <<exchange, pos, la, filled, abandoned>>

(* remote_only: open_position, with no SL/TP. *)
Import ==
  /\ At("recon", "import")
  /\ pos' = th["recon"].lots
  /\ Leave("recon")
  /\ UNCHANGED <<exchange, la, filled, used, abandoned>>

(* qty_mismatch: update_position, unless the position has been closed since. *)
Align ==
  /\ At("recon", "align")
  /\ pos' = IF pos = 0 THEN 0 ELSE th["recon"].lots
  /\ Leave("recon")
  /\ UNCHANGED <<exchange, la, filled, used, abandoned>>

-----------------------------------------------------------------------------
Cancels(t) == CancelNext(t) \/ CancelAnswer(t) \/ Close(t)
Entry      == Open \/ Place("SL") \/ Place("TP")
Main       == \/ AlgoPoll \/ AlgoQuery \/ AlgoApply \/ OnTriggered
              \/ Cancels("main") \/ Market("main")
Cmd        == CancelAllMark \/ Cancels("cmd") \/ Market("cmd")
Recon      == Fetch \/ Compare \/ Import \/ Align \/ Cancels("recon")

Next == \/ \E e \in Entries : Enter(e)
        \/ Entry \/ Main \/ Cmd \/ Recon \/ FetchFailed \/ CancelAll
        \/ \E t \in Threads : ForceExit(t)
        \/ \E a \in Algos : Trigger(a) \/ TriggerGhost(a) \/ PendingTimeout(a)

Spec == Init /\ [][Next]_vars

(* Every thread keeps running.  The main loop comes round to the timeout     *)
(* check however often it polls in between.  Nothing is assumed of entries,  *)
(* commands, faults and of the price that triggers an order.                 *)
Fairness ==
  /\ WF_vars(Entry) /\ WF_vars(Main) /\ WF_vars(Cmd) /\ WF_vars(Recon)
  /\ SF_vars(\E a \in Algos : PendingTimeout(a))

FairSpec == Spec /\ Fairness

-----------------------------------------------------------------------------
(* An SL/TP order that the program counts as triggered or canceled is not    *)
(* open on the exchange (sync_algo_orders, _cancel_one_order): whatever      *)
(* fails and whoever is late, no order is forgotten that could still close a *)
(* position, except by cancel_all and by a cancellation that the exchange    *)
(* refused to carry out.                                                     *)
SettledIsNotOpen ==
  \A a \in Algos : la[a] \in {"FILLED", "CANCELED"} => (xa[a] # "open" \/ a \in abandoned)

(* The program never forgets a position for good, nor believes for good in   *)
(* one that is gone or of another size: when entries and commands cease, the *)
(* local quantity becomes that of the exchange and stays so, whatever the    *)
(* threads did to each other before (PositionReconciler).                    *)
Converges == <>[](pos = held)

(* Residual protection is cleaned up: no order stays open for ever without a *)
(* position, whatever the order list says of it, unless it was left behind   *)
(* (_check_pending_timeouts).                                                *)
OrphansEnd == \A a \in Algos : []<>~(xa[a] = "open" /\ pos = 0 /\ a \notin abandoned)

=============================================================================
