------------------------------ MODULE RiskGate ------------------------------
(***************************************************************************)
(* The risk chain, the numbers it decides on, and the protective closes    *)
(* that act on the same numbers.  PortfolioTracker holds one local copy of *)
(* the account (equity, peak, the counters of the day); five threads feed  *)
(* it, each from what it saw of the exchange and at its own pace:          *)
(*                                                                         *)
(*   "feed"   MiddlewareChain.process on each signal, then the entry       *)
(*   "main"   _refresh_equity, _protective_check, _sync_position_risks     *)
(*   "cmd"    force_exit and setparam                                      *)
(*   the fill and trigger polls, and the reconciler                        *)
(*                                                                         *)
(* Orders and positions are told apart only as far as the limits do (the   *)
(* races between their updates are in EntryOrders and Protection): one     *)
(* position a symbol, each with the same margin, each closed with a profit *)
(* or a loss.  Ratios are in percent.                                      *)
(***************************************************************************)
EXTENDS Integers, FiniteSets

CONSTANTS
  Symbols,
  Equity0,      \* balance at the start
  Results,      \* profits and losses a position may end with
  Margin,       \* margin of one position
  MaxDrawdown, MaxLosses, Cooldown,             \* DrawdownBreaker
  DailyLoss, MaxMargin, MaxTrades,              \* DailyLossLimit, ConcentrationCheck, DailyTradeLimit
  DeleverAt, DeleverWait, ReduceAt, ReduceWait, \* _protective_check
  MaxEntries,   \* bound: entries accepted by the exchange
  MaxFees       \* bound: funding fees

ASSUME LimitsAssumption ==
  /\ Equity0 \in Nat \ {0} /\ Results \subseteq Int \ {0} /\ Margin \in Nat
  /\ {MaxDrawdown, MaxLosses, Cooldown, DailyLoss, MaxMargin, MaxTrades} \subseteq Nat
  /\ {DeleverWait, ReduceWait, MaxEntries, MaxFees} \subseteq Nat
  /\ {DeleverAt, ReduceAt} \subseteq Nat \ {0}     \* 0 switches the check off

VARIABLES
  account,   \* exchange: wallet balance
  book,      \* exchange: symbols with a working entry order
  held,      \* exchange: symbols with a position
  pending,   \* OrderManager: symbols with a PENDING entry
  hit,       \* symbols whose SL/TP was triggered, unnoticed so far
  open,      \* PortfolioTracker.positions
  tr,        \* PortfolioTracker: equity, peak, daily_realized_pnl, trade_count_today,
             \*   consecutive_losses; day: what _last_reset_day is
  breaker,   \* DrawdownBreaker of the installed chain: its state, the rest of its cooldown
  feed,      \* the thread of the signals: where it is, and the signal's symbol
  main, cmd, \* the other two: where they are, and their local variables
  reduce,    \* _last_deleverage_ts, _last_reduce_ts, _drawdown_reduce_armed
  used,      \* what the bounds count
  seen       \* history: rest of the last cooldown, and whether setparam lost it: the
             \*   trip fell into the replacement of the chain, or a signal found the
             \*   new breaker in COOLDOWN with no time yet, which ends it

exchange == <<account, book, held>>
local    == <<pending, hit, open, tr>>
threads  == <<feed, main, cmd>>
vars     == <<exchange, local, breaker, threads, reduce, used, seen>>

NoSymbol == "none"
Tracker  == [equity : Int, peak : Int, daily : Int, trades : Nat, losses : Nat,
             day : {"today", "past"}]
Breaker  == [state : {"ACTIVE", "COOLDOWN"}, left : 0..Cooldown]
Feed     == [pc : {"idle"}, sym : {NoSymbol}]
              \cup [pc : {"limits", "placing", "opening"}, sym : Symbols]
Main     == [pc : {"idle", "fetch", "fetched", "check", "risks", "exit", "close"},
             then : {"idle", "check", "risks"}, val : Int, sym : Symbols \cup {NoSymbol}]
Cmd      == [pc : {"idle", "exit", "close", "rebuild", "state", "time"}, val : Int,
             sym : Symbols \cup {NoSymbol}, saved : Breaker]
Timers   == [delever : 0..DeleverWait, wait : 0..ReduceWait, armed : BOOLEAN]
History  == [cool : 0..Cooldown, raced : BOOLEAN]

TypeOK ==
  /\ account \in Int /\ book \subseteq Symbols /\ held \subseteq Symbols
  /\ pending \subseteq Symbols /\ hit \subseteq Symbols /\ open \subseteq Symbols
  /\ tr \in Tracker /\ breaker \in Breaker
  /\ feed \in Feed /\ main \in Main /\ cmd \in Cmd
  /\ reduce \in Timers /\ used \in [entries : Nat, fees : Nat] /\ seen \in History

Closed   == [state |-> "ACTIVE", left |-> 0]
FeedIdle == [pc |-> "idle", sym |-> NoSymbol]
MainIdle == [pc |-> "idle", then |-> "idle", val |-> 0, sym |-> NoSymbol]
CmdIdle  == [pc |-> "idle", val |-> 0, sym |-> NoSymbol, saved |-> Closed]

Init ==
  /\ account = Equity0 /\ book = {} /\ held = {}
  /\ pending = {} /\ hit = {} /\ open = {}
  /\ tr = [equity |-> Equity0, peak |-> Equity0, daily |-> 0, trades |-> 0, losses |-> 0, day |-> "today"]
  /\ breaker = Closed
  /\ feed = FeedIdle /\ main = MainIdle /\ cmd = CmdIdle
  /\ reduce = [delever |-> 0, wait |-> 0, armed |-> TRUE]
  /\ used = [entries |-> 0, fees |-> 0]
  /\ seen = [cool |-> 0, raced |-> FALSE]

Highest(a, b) == IF a > b THEN a ELSE b
Pred(n)       == IF n > 0 THEN n - 1 ELSE 0

-----------------------------------------------------------------------------
(* PortfolioTracker. *)

(* _maybe_reset_daily: the counters of the day are reset by whoever books    *)
(* the first change of a new day, not by the limits that read them.          *)
Reset(t) ==
  IF t.day = "today" THEN t ELSE [t EXCEPT !.daily = 0, !.trades = 0, !.day = "today"]

OpenPosition(s) ==
  /\ open' = open \cup {s}
  /\ tr' = [Reset(tr) EXCEPT !.trades = @ + 1]

(* Mutant: a position that is closed no longer counts as a trade. *)
ClosePosition_Uncounted(s, p) ==
  /\ open' = open \ {s}
  /\ tr' = IF s \notin open THEN tr
           ELSE [Reset(tr) EXCEPT !.equity = @ + p, !.daily = @ + p, !.trades = @ - 1,
                                  !.peak   = Highest(@, tr.equity + p),
                                  !.losses = IF p > 0 THEN 0 ELSE @ + 1]

(* close_position: the profit or loss p is added to the equity, whether or   *)
(* not a refresh has brought it from the account already.                    *)
ClosePosition(s, p) ==
  /\ open' = open \ {s}
  /\ tr' = IF s \notin open THEN tr
           ELSE [Reset(tr) EXCEPT !.equity = @ + p, !.daily = @ + p,
                                  !.peak   = Highest(@, tr.equity + p),
                                  !.losses = IF p > 0 THEN 0 ELSE @ + 1]

(* Mutant: a refresh only raises the peak. *)
UpdateEquity_PeakOnly(e) ==
  tr' = [tr EXCEPT !.peak = Highest(@, e)]

UpdateEquity(e) ==
  tr' = [tr EXCEPT !.equity = e, !.peak = Highest(@, e)]

Drawdown(pct)  == tr.peak > 0 /\ (tr.peak - tr.equity) * 100 >= pct * tr.peak
Recovered(pct) == tr.peak > 0 => (tr.peak - tr.equity) * 1000 < 8 * pct * tr.peak
OverMargin     == tr.equity <= 0 \/ Cardinality(open) * Margin * 100 > DeleverAt * tr.equity

-----------------------------------------------------------------------------
(* The exchange, and the passing of time. *)

Earns(p) == account' = account + p

Fill(s) ==
  /\ s \in book
  /\ book' = book \ {s} /\ held' = held \cup {s}
  /\ UNCHANGED <<account, local, breaker, threads, reduce, used, seen>>

(* A position is closed by its SL or TP, or by the exchange itself. *)
Trigger(s) ==
  /\ s \in held
  /\ held' = held \ {s}
  /\ \E p \in Results : Earns(p)
  /\ hit' \in IF s \in pending THEN {hit} ELSE {hit, hit \cup {s}}
  /\ UNCHANGED <<book, pending, open, tr, breaker, threads, reduce, used, seen>>

NewDay ==
  /\ tr.day = "today"
  /\ tr' = [tr EXCEPT !.day = "past"]
  /\ UNCHANGED <<exchange, pending, hit, open, breaker, threads, reduce, used, seen>>

Tick ==
  /\ breaker.left + cmd.saved.left + reduce.delever + reduce.wait + seen.cool > 0
  /\ breaker' = [breaker EXCEPT !.left = Pred(@)]
  /\ cmd' = [cmd EXCEPT !.saved.left = Pred(@)]
  /\ reduce' = [reduce EXCEPT !.delever = Pred(@), !.wait = Pred(@)]
  /\ seen' = [seen EXCEPT !.cool = Pred(@)]
  /\ UNCHANGED <<exchange, local, feed, main, used>>

-----------------------------------------------------------------------------
(* Signals: the chain up to its first lock, then the limits behind it, then  *)
(* the call that places the order, then the registration of a fill.          *)

Signal(s) ==
  /\ feed.pc = "idle"
  /\ s \notin open /\ s \notin pending
  /\ UNCHANGED <<exchange, local, main, cmd, reduce, used>>

Cooling == breaker.state = "COOLDOWN" /\ breaker.left > 0

(* setparam: before the new chain is published, and while its breaker lacks  *)
(* the state, or the time, of the old one.                                   *)
Rebuilding == cmd.pc = "rebuild"
Published  == cmd.pc \in {"state", "time"}

(* DrawdownBreaker: a signal that comes while it cools down is rejected and  *)
(* leaves everything as it is; the end of a cooldown does not forget what    *)
(* caused it.                                                                *)
Trip(s) ==
  /\ Signal(s) /\ ~Cooling
  /\ Drawdown(MaxDrawdown) \/ tr.losses >= MaxLosses
  /\ breaker' = [state |-> "COOLDOWN", left |-> Cooldown]
  /\ seen' = [seen EXCEPT !.cool = Cooldown, !.raced = Rebuilding \/ Published]
  /\ UNCHANGED feed

Admit(s) ==
  /\ Signal(s) /\ ~Cooling /\ ~Drawdown(MaxDrawdown) /\ tr.losses < MaxLosses
  /\ breaker' = [breaker EXCEPT !.state = "ACTIVE"]
  /\ IF tr.equity > 0 /\ -tr.daily * 100 < DailyLoss * tr.equity
     THEN feed' = [pc |-> "limits", sym |-> s]
     ELSE UNCHANGED feed
  /\ seen' = [seen EXCEPT !.raced = @ \/ (cmd.pc = "time" /\ seen.cool > 0)]

(* ConcentrationCheck, then DailyTradeLimit.  Both count positions, neither  *)
(* counts entries that are still pending.                                    *)
Concentrated == tr.equity <= 0 \/ (Cardinality(open) + 1) * Margin * 100 >= MaxMargin * tr.equity

Exhausted == MaxTrades > 0 /\ tr.trades >= MaxTrades

Limits ==
  /\ feed.pc = "limits"
  /\ feed' = IF Concentrated \/ Exhausted THEN FeedIdle ELSE [feed EXCEPT !.pc = "placing"]
  /\ UNCHANGED <<exchange, local, breaker, main, cmd, reduce, used, seen>>

Place ==
  /\ feed.pc = "placing"
  /\ \/ feed' = FeedIdle /\ UNCHANGED <<book, held, pending, used>>    \* rejected
     \/ /\ used.entries < MaxEntries /\ used' = [used EXCEPT !.entries = @ + 1]
        /\ \/ /\ held' = held \cup {feed.sym} /\ feed' = [feed EXCEPT !.pc = "opening"]
              /\ UNCHANGED <<book, pending>>
           \/ /\ book' = book \cup {feed.sym} /\ pending' = pending \cup {feed.sym}
              /\ feed' = FeedIdle
              /\ UNCHANGED held
  /\ UNCHANGED <<account, hit, open, tr, breaker, main, cmd, reduce, seen>>

Opened ==
  /\ feed.pc = "opening"
  /\ OpenPosition(feed.sym)
  /\ feed' = FeedIdle
  /\ UNCHANGED <<exchange, pending, hit, breaker, main, cmd, reduce, used, seen>>

-----------------------------------------------------------------------------
(* The polls and the reconciler. *)

(* _register_fills, by poll or by push. *)
RegisterFill(s) ==
  /\ s \in pending /\ s \notin book
  /\ pending' = pending \ {s}
  /\ IF s \in open THEN UNCHANGED <<open, tr>> ELSE OpenPosition(s)
  /\ UNCHANGED <<exchange, hit, breaker, threads, reduce, used, seen>>

(* _check_pending_timeouts; an entry filled in the meantime is given up too. *)
PendingTimeout(s) ==
  /\ main.pc = "idle" /\ s \in pending /\ s \notin open
  /\ pending' = pending \ {s} /\ book' = book \ {s}
  /\ UNCHANGED <<account, held, hit, open, tr, breaker, threads, reduce, used, seen>>

(* _on_protection_triggered closes at the last price, not at that of the SL. *)
SyncAlgo(s) ==
  /\ main.pc = "idle" /\ s \in hit
  /\ hit' = hit \ {s}
  /\ \E p \in Results : ClosePosition(s, p)
  /\ UNCHANGED <<exchange, pending, breaker, threads, reduce, used, seen>>

(* _on_reconcile_drift *)
ReconcileClose(s) ==
  /\ s \in open /\ s \notin held
  /\ hit' = hit \ {s}
  /\ \E p \in Results : ClosePosition(s, p)
  /\ UNCHANGED <<exchange, pending, breaker, threads, reduce, used, seen>>

ReconcileImport(s) ==
  /\ s \in held /\ s \notin open
  /\ OpenPosition(s)
  /\ UNCHANGED <<exchange, pending, hit, breaker, threads, reduce, used, seen>>

(* add_funding_fee: the account is charged by the exchange, the day here. *)
FundingFee ==
  /\ used.fees < MaxFees /\ used' = [used EXCEPT !.fees = @ + 1]
  /\ account' = account - 1
  /\ tr' = [Reset(tr) EXCEPT !.daily = @ - 1]
  /\ UNCHANGED <<book, held, pending, hit, open, breaker, threads, reduce, seen>>

-----------------------------------------------------------------------------
(* _force_exit_symbol: cancel the orders of the symbol, sell, book.          *)

Cancels(s) ==
  /\ pending' = pending \ {s} /\ book' = book \ {s} /\ hit' = hit \ {s}
  /\ UNCHANGED <<open, tr, breaker, feed, reduce, used, seen>>

Sold(s, p) ==
  /\ s \in held /\ held' = held \ {s}
  /\ Earns(p)
  /\ Cancels(s)

(* There is nothing to sell, or the call failed: nothing is booked. *)
NotSold(s) ==
  /\ Cancels(s)
  /\ UNCHANGED <<account, held>>

ForceExit(s) ==
  /\ cmd.pc = "idle" /\ s \in open
  /\ cmd' = [cmd EXCEPT !.pc = "exit", !.sym = s]
  /\ UNCHANGED <<exchange, local, breaker, feed, main, reduce, used, seen>>

CmdSell ==
  /\ cmd.pc = "exit"
  /\ \/ \E p \in Results : Sold(cmd.sym, p) /\ cmd' = [cmd EXCEPT !.pc = "close", !.val = p]
     \/ NotSold(cmd.sym) /\ cmd' = CmdIdle
  /\ UNCHANGED main

CmdClose ==
  /\ cmd.pc = "close"
  /\ ClosePosition(cmd.sym, cmd.val)
  /\ cmd' = CmdIdle
  /\ UNCHANGED <<exchange, pending, hit, breaker, feed, main, reduce, used, seen>>

(* _apply_param: the state of the old breaker is read, a new chain is built, *)
(* and published with a fresh breaker, which then gets the old state, and    *)
(* last the time of the old trip: with none its cooldown is long over.       *)
SetParam ==
  /\ cmd.pc = "idle"
  /\ cmd' = [cmd EXCEPT !.pc = "rebuild", !.saved = breaker]
  /\ UNCHANGED <<exchange, local, breaker, feed, main, reduce, used, seen>>

Publish ==
  /\ Rebuilding
  /\ breaker' = Closed
  /\ cmd' = [cmd EXCEPT !.pc = "state"]
  /\ UNCHANGED <<exchange, local, feed, main, reduce, used, seen>>

CopyState_Skipped ==   \* mutant: the new chain keeps its fresh breaker
  /\ cmd.pc = "state"
  /\ cmd' = CmdIdle
  /\ UNCHANGED <<exchange, local, breaker, feed, main, reduce, used, seen>>
CopyState ==
  /\ cmd.pc = "state"
  /\ breaker' = [breaker EXCEPT !.state = cmd.saved.state]
  /\ cmd' = [cmd EXCEPT !.pc = "time"]
  /\ UNCHANGED <<exchange, local, feed, main, reduce, used, seen>>

CopyTime ==
  /\ cmd.pc = "time"
  /\ breaker' = [breaker EXCEPT !.left = cmd.saved.left]
  /\ cmd' = CmdIdle
  /\ UNCHANGED <<exchange, local, feed, main, reduce, used, seen>>

-----------------------------------------------------------------------------
(* The main loop, each minute. *)

AfterFetch == IF main.pc = "idle" THEN "check" ELSE main.then

Fetch ==
  /\ main.pc \in {"idle", "fetch"}
  /\ main' = [MainIdle EXCEPT !.pc = "fetched", !.then = AfterFetch, !.val = account]
  /\ UNCHANGED <<exchange, local, breaker, feed, cmd, reduce, used, seen>>

(* Without an answer the equity stays what it is. *)
FetchFails ==
  /\ main.pc \in {"idle", "fetch"}
  /\ main' = [MainIdle EXCEPT !.pc = AfterFetch]
  /\ UNCHANGED <<exchange, local, breaker, feed, cmd, reduce, used, seen>>

Apply ==
  /\ main.pc = "fetched"
  /\ IF main.val > 0 THEN UpdateEquity(main.val) ELSE UNCHANGED tr
  /\ main' = [MainIdle EXCEPT !.pc = main.then]
  /\ UNCHANGED <<exchange, pending, hit, open, breaker, feed, cmd, reduce, used, seen>>

(* _protective_close of the position with the largest margin. *)
CloseLargest(then) ==
  \E s \in open : main' = [MainIdle EXCEPT !.pc = "exit", !.then = then, !.sym = s]

Pass == main' = [MainIdle EXCEPT !.pc = "risks"] /\ UNCHANGED reduce

(* Mutant: each check, not each close, restarts the waiting time. *)
ProtectiveCheck_Restarts ==
  /\ main.pc = "check"
  /\ \/ open = {} /\ Pass
     \/ /\ open # {} /\ OverMargin
        /\ IF reduce.delever = 0
           THEN CloseLargest("risks") /\ reduce' = [reduce EXCEPT !.delever = DeleverWait]
           ELSE main' = [MainIdle EXCEPT !.pc = "risks"] /\ reduce' = [reduce EXCEPT !.delever = DeleverWait]
     \/ /\ open # {} /\ ~OverMargin /\ Drawdown(ReduceAt)
        /\ IF reduce.armed /\ reduce.wait = 0
           THEN CloseLargest("risks") /\ reduce' = [reduce EXCEPT !.armed = FALSE, !.wait = ReduceWait]
           ELSE Pass
     \/ /\ open # {} /\ ~OverMargin /\ ~Drawdown(ReduceAt)
        /\ reduce' = [reduce EXCEPT !.armed = @ \/ Recovered(ReduceAt)]
        /\ main' = [MainIdle EXCEPT !.pc = "risks"]
  /\ UNCHANGED <<exchange, local, breaker, feed, cmd, used, seen>>

ProtectiveCheck ==
  /\ main.pc = "check"
  /\ \/ open = {} /\ Pass
     \/ /\ open # {} /\ OverMargin
        /\ IF reduce.delever = 0
           THEN CloseLargest("risks") /\ reduce' = [reduce EXCEPT !.delever = DeleverWait]
           ELSE Pass
     \/ /\ open # {} /\ ~OverMargin /\ Drawdown(ReduceAt)
        /\ IF reduce.armed /\ reduce.wait = 0
           THEN CloseLargest("risks") /\ reduce' = [reduce EXCEPT !.armed = FALSE, !.wait = ReduceWait]
           ELSE Pass
     \/ /\ open # {} /\ ~OverMargin /\ ~Drawdown(ReduceAt)
        /\ reduce' = [reduce EXCEPT !.armed = @ \/ Recovered(ReduceAt)]
        /\ main' = [MainIdle EXCEPT !.pc = "risks"]
  /\ UNCHANGED <<exchange, local, breaker, feed, cmd, used, seen>>

(* _sync_position_risks: some position may be close to its liquidation. *)
Risks ==
  /\ main.pc = "risks"
  /\ \/ main' = MainIdle /\ UNCHANGED reduce
     \/ /\ reduce.delever = 0
        /\ CloseLargest("idle") /\ reduce' = [reduce EXCEPT !.delever = DeleverWait]
  /\ UNCHANGED <<exchange, local, breaker, feed, cmd, used, seen>>

(* _force_exit_symbol returns at once when the position is gone meanwhile.   *)
MainSell ==
  /\ main.pc = "exit"
  /\ \/ /\ main.sym \in open
        /\ \E p \in Results : Sold(main.sym, p) /\ main' = [main EXCEPT !.pc = "close", !.val = p]
     \/ /\ main.sym \in open
        /\ NotSold(main.sym) /\ main' = [main EXCEPT !.pc = "fetch"]
     \/ /\ main.sym \notin open
        /\ main' = [main EXCEPT !.pc = "fetch"]
        /\ UNCHANGED <<exchange, local, breaker, feed, reduce, used, seen>>
  /\ UNCHANGED cmd

MainClose ==
  /\ main.pc = "close"
  /\ ClosePosition(main.sym, main.val)
  /\ main' = [main EXCEPT !.pc = "fetch"]
  /\ UNCHANGED <<exchange, pending, hit, breaker, feed, cmd, reduce, used, seen>>

-----------------------------------------------------------------------------
FeedStep == (\E s \in Symbols : Trip(s) \/ Admit(s)) \/ Limits \/ Place \/ Opened
MainStep == Fetch \/ FetchFails \/ Apply \/ ProtectiveCheck \/ Risks \/ MainSell \/ MainClose
Recon    == \E s \in Symbols : ReconcileClose(s) \/ ReconcileImport(s)
Command  == (\E s \in Symbols : ForceExit(s)) \/ SetParam
CmdStep  == CmdSell \/ CmdClose \/ Publish \/ CopyState \/ CopyTime
Polls    == \E s \in Symbols : RegisterFill(s) \/ PendingTimeout(s) \/ SyncAlgo(s)
World    == (\E s \in Symbols : Fill(s) \/ Trigger(s)) \/ NewDay \/ FundingFee

Next == FeedStep \/ MainStep \/ Recon \/ Command \/ CmdStep \/ Polls \/ World \/ Tick

Spec == Init /\ [][Next]_vars

(* Threads keep running, time passes, and neither get_account nor the market *)
(* order of a protective close fails for ever.  The main loop comes round to *)
(* its polls.  Nothing is assumed of signals, commands and the market.       *)
Fairness ==
  /\ WF_vars(Limits \/ Place \/ Opened) /\ WF_vars(CmdStep) /\ WF_vars(Recon) /\ WF_vars(Tick)
  /\ WF_vars(MainStep) /\ SF_vars(Fetch) /\ SF_vars(MainSell /\ held' # held)
  /\ \A s \in Symbols : WF_vars(RegisterFill(s)) /\ SF_vars(PendingTimeout(s)) /\ SF_vars(SyncAlgo(s))

FairSpec == Spec /\ Fairness

-----------------------------------------------------------------------------
(* DrawdownBreaker and _apply_param: after the breaker has tripped, nothing  *)
(* is let through until its cooldown is over, whatever happens to the        *)
(* drawdown, the losses and the parameters meanwhile.  The code opens the    *)
(* gate between the publication of a new chain and the last copy, and loses  *)
(* the cooldown if it is upset while the chain is being replaced (raced).    *)
CooldownHolds ==
  [][feed.pc = "idle" /\ feed'.pc = "limits"
       => seen.cool = 0 \/ seen.raced \/ Published]_vars

(* _refresh_equity: what close_position and the reconciler book of their own *)
(* outlives no refresh; when trading ceases, the equity that the limits      *)
(* divide by is the balance of the account.                                  *)
EquityFollows == <>[](tr.equity = account)

(* _protective_check: a margin above the threshold is brought down, though   *)
(* it shares its waiting time with _sync_position_risks, positions vanish on *)
(* the way and entries that were pending may be filled.                      *)
MarginIsCut == (open # {} /\ OverMargin) ~> ~(open # {} /\ OverMargin)

=============================================================================
