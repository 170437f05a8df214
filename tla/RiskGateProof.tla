--------------------------- MODULE RiskGateProof ---------------------------
(***************************************************************************)
(* Proofs about RiskGate, for any limits and any number of symbols: the    *)
(* type invariant, and that the cooldown of the breaker is kept.  The      *)
(* second needs only how the installed breaker, the state that setparam    *)
(* carries over and the true rest of the cooldown relate (Kept).           *)
(***************************************************************************)
EXTENDS RiskGate, TLAPS

LEMMA PredLemma == ASSUME NEW n \in Nat PROVE Pred(n) \in Nat /\ Pred(n) <= n
  BY DEF Pred

LEMMA PredMonotone ==
  ASSUME NEW m \in Nat, NEW n \in Nat, m <= n PROVE Pred(m) <= Pred(n)
  BY DEF Pred

(* What the actions do to the tracker keeps its type. *)
LEMMA HighestType == ASSUME NEW a \in Int, NEW b \in Int PROVE Highest(a, b) \in Int
  BY DEF Highest

LEMMA UpdateType ==
  ASSUME NEW t \in Tracker, NEW d \in Int, NEW n \in Nat, NEW y \in {"today", "past"}
  PROVE  [t EXCEPT !.daily = d, !.trades = n, !.day = y] \in Tracker
  BY DEF Tracker

LEMMA ResetType == ASSUME NEW t \in Tracker PROVE Reset(t) \in Tracker
<1>1. 0 \in Int /\ 0 \in Nat  OBVIOUS
<1>2. [t EXCEPT !.daily = 0, !.trades = 0, !.day = "today"] \in Tracker
  BY <1>1, UpdateType, Zenon
<1> QED BY <1>2, Zenon DEF Reset

LEMMA BookType ==
  ASSUME NEW t \in Tracker, NEW e \in Int, NEW d \in Int, NEW p \in Int, NEW l \in Nat
  PROVE  [t EXCEPT !.equity = e, !.daily = d, !.peak = p, !.losses = l] \in Tracker
  BY DEF Tracker

LEMMA OpenType ==
  ASSUME TypeOK, NEW s \in Symbols, OpenPosition(s)
  PROVE  tr' \in Tracker /\ open' \subseteq Symbols
<1>1. Reset(tr) \in Tracker  BY ResetType DEF TypeOK, Tracker
<1>2. tr' \in Tracker        BY <1>1 DEF OpenPosition, Tracker
<1>3. open' \subseteq Symbols  BY DEF OpenPosition, TypeOK
<1> QED BY <1>2, <1>3

LEMMA CloseType ==
  ASSUME TypeOK, NEW s, NEW p \in Int, ClosePosition(s, p)
  PROVE  tr' \in Tracker /\ open' \subseteq Symbols
<1>1. tr \in Tracker         BY DEF TypeOK, Tracker
<1>2. Reset(tr) \in Tracker  BY <1>1, ResetType
<1>3. Highest(Reset(tr).peak, tr.equity + p) \in Int  BY <1>1, <1>2, HighestType DEF Tracker
<1>4. tr' \in Tracker
  <2>1. CASE s \notin open  BY <2>1, <1>1 DEF ClosePosition
  <2>2. CASE s \in open
    <3> DEFINE r == Reset(tr)
    <3>1. tr' = [r EXCEPT !.equity = r.equity + p, !.daily = r.daily + p,
                          !.peak = Highest(r.peak, tr.equity + p),
                          !.losses = IF p > 0 THEN 0 ELSE r.losses + 1]
      BY <2>2 DEF ClosePosition
    <3>2. r \in Tracker /\ r.equity + p \in Int /\ r.daily + p \in Int
          /\ (IF p > 0 THEN 0 ELSE r.losses + 1) \in Nat
      BY <1>2 DEF Tracker
    <3> HIDE DEF r
    <3> QED BY <3>1, <3>2, <1>3, BookType, Zenon DEF r
  <2> QED BY <2>1, <2>2
<1>5. open' \subseteq Symbols  BY DEF ClosePosition, TypeOK
<1> QED BY <1>4, <1>5

(* Updates of the other records. *)
LEMMA TimersType ==
  ASSUME NEW r \in Timers, NEW d \in 0..DeleverWait, NEW w \in 0..ReduceWait, NEW b \in BOOLEAN
  PROVE  /\ [r EXCEPT !.delever = d, !.wait = w] \in Timers
         /\ [r EXCEPT !.delever = d] \in Timers
         /\ [r EXCEPT !.armed = b, !.wait = w] \in Timers
         /\ [r EXCEPT !.armed = b] \in Timers
  BY DEF Timers

LEMMA HistoryType ==
  ASSUME NEW h \in History, NEW c \in 0..Cooldown, NEW b \in BOOLEAN
  PROVE  /\ [h EXCEPT !.cool = c] \in History
         /\ [h EXCEPT !.cool = c, !.raced = b] \in History
         /\ [h EXCEPT !.raced = b] \in History
  BY DEF History

LEMMA MainType ==
  ASSUME NEW n \in {"idle", "check", "risks"}, NEW y \in Symbols, NEW v \in Int
  PROVE  /\ [MainIdle EXCEPT !.pc = n] \in Main
         /\ [MainIdle EXCEPT !.pc = "exit", !.then = n, !.sym = y] \in Main
         /\ [MainIdle EXCEPT !.pc = "fetched", !.then = n, !.val = v] \in Main
<1>1. MainIdle \in Main  BY DEF Main, MainIdle
<1>2. ASSUME NEW m \in Main, NEW q \in {"idle", "check", "risks", "exit", "fetched"}
      PROVE  [m EXCEPT !.pc = q] \in Main
  BY DEF Main
<1>3. ASSUME NEW m \in Main, NEW q \in {"exit", "fetched"}
      PROVE  /\ [m EXCEPT !.pc = q, !.then = n, !.sym = y] \in Main
             /\ [m EXCEPT !.pc = q, !.then = n, !.val = v] \in Main
  BY DEF Main
<1> HIDE DEF MainIdle
<1> QED BY <1>1, <1>2, <1>3, Zenon

LEMMA EarnsType ==
  ASSUME TypeOK, NEW p \in Int, Earns(p)
  PROVE  account' \in Int
  BY DEF TypeOK, Earns

-----------------------------------------------------------------------------
(* The breaker that signals meet cools down at least as long as the last     *)
(* trip demands, and so does the state that setparam carries over.  While    *)
(* the new chain is published without that state, only the latter does; once *)
(* the state is copied, what is missing is the time.                         *)
Lasts(b) == b.state = "COOLDOWN" /\ b.left >= seen.cool

Kept ==
  \/ seen.raced
  \/ seen.cool = 0
  \/ /\ ~Published => Lasts(breaker)
     /\ Rebuilding \/ Published => Lasts(cmd.saved)
     /\ cmd.pc = "time" => breaker.state = "COOLDOWN"

(***************************************************************************)
(* The type invariant.                                                     *)
(***************************************************************************)
LEMMA TypeInit == Init => TypeOK
  BY LimitsAssumption DEF Init, TypeOK, Closed, FeedIdle, MainIdle, CmdIdle, Tracker, Breaker, Feed, Main, Cmd, Timers, History

LEMMA TypeStep == TypeOK /\ [Next]_vars => TypeOK'
<1> SUFFICES ASSUME TypeOK, [Next]_vars PROVE TypeOK'
  OBVIOUS
<1>1. ASSUME NEW s \in Symbols, Fill(s) PROVE TypeOK'
  BY <1>1 DEF TypeOK, exchange, local, threads, Fill
<1>2. ASSUME NEW s \in Symbols, Trigger(s) PROVE TypeOK'
  <2>1. account' \in Int
    BY <1>2, LimitsAssumption, HighestType, PredLemma DEF TypeOK, Trigger, Earns
  <2> QED BY <1>2, <2>1 DEF TypeOK, exchange, local, threads, Trigger
<1>3. CASE NewDay
  <2>1. tr' \in Tracker
    BY <1>3, LimitsAssumption, HighestType, PredLemma DEF TypeOK, Tracker, NewDay
  <2> QED BY <1>3, <2>1 DEF TypeOK, exchange, local, threads, NewDay
<1>4. CASE Tick
  <2>1. breaker' \in Breaker
    BY <1>4, LimitsAssumption, HighestType, PredLemma DEF TypeOK, Breaker, Tick
  <2>2. cmd' \in Cmd
    BY <1>4, LimitsAssumption, HighestType, PredLemma DEF TypeOK, Cmd, Breaker, Tick
  <2>3. reduce' \in Timers
    <3>1. Pred(reduce.delever) \in 0..DeleverWait /\ Pred(reduce.wait) \in 0..ReduceWait
      BY LimitsAssumption, PredLemma DEF TypeOK, Timers
    <3> QED BY <1>4, <3>1, TimersType, Zenon DEF Tick, TypeOK
  <2>4. seen' \in History
    BY <1>4, LimitsAssumption, HighestType, PredLemma DEF TypeOK, History, Tick
  <2> QED BY <1>4, <2>1, <2>2, <2>3, <2>4 DEF TypeOK, exchange, local, threads, Tick
<1>5. ASSUME NEW s \in Symbols, Trip(s) PROVE TypeOK'
  <2>1. breaker' \in Breaker
    BY <1>5, LimitsAssumption, HighestType, PredLemma DEF Breaker, Trip
  <2>2. seen' \in History
    <3>1. Cooldown \in 0..Cooldown  BY LimitsAssumption
    <3>2. (Rebuilding \/ Published) \in BOOLEAN  OBVIOUS
    <3> QED BY <1>5, <3>1, <3>2, HistoryType, Zenon DEF Trip, TypeOK
  <2> QED BY <1>5, <2>1, <2>2 DEF TypeOK, exchange, local, threads, Trip, Signal
<1>6. ASSUME NEW s \in Symbols, Admit(s) PROVE TypeOK'
  <2>1. breaker' \in Breaker
    BY <1>6, LimitsAssumption, HighestType, PredLemma DEF TypeOK, Breaker, Admit
  <2>2. feed' \in Feed
    <3>1. [pc |-> "limits", sym |-> s] \in Feed  BY DEF Feed
    <3> QED BY <1>6, <3>1 DEF TypeOK, Admit
  <2>3. seen' \in History
    <3>1. (seen.raced \/ (cmd.pc = "time" /\ seen.cool > 0)) \in BOOLEAN /\ 0 \in 0..Cooldown
      BY LimitsAssumption
    <3> QED BY <1>6, <3>1, HistoryType, Zenon DEF Admit, TypeOK
  <2> QED BY <1>6, <2>1, <2>2, <2>3 DEF TypeOK, exchange, local, threads, Admit, Signal
<1>7. CASE Limits
  <2>1. feed' \in Feed
    BY <1>7, LimitsAssumption, HighestType, PredLemma DEF TypeOK, Feed, Limits, FeedIdle
  <2> QED BY <1>7, <2>1 DEF TypeOK, exchange, local, threads, Limits
<1>8. CASE Place
  <2>1. feed' \in Feed
    BY <1>8, LimitsAssumption, HighestType, PredLemma DEF TypeOK, Feed, Place, FeedIdle
  <2>2. feed.sym \in Symbols
    BY <1>8 DEF TypeOK, Feed, Place
  <2>3. used' \in [entries : Nat, fees : Nat]
    BY <1>8, LimitsAssumption, HighestType, PredLemma DEF TypeOK, Place
  <2> QED BY <1>8, <2>1, <2>2, <2>3 DEF TypeOK, exchange, local, threads, Place
<1>9. CASE Opened
  <2>1. feed' \in Feed
    BY <1>9 DEF Feed, Opened, FeedIdle
  <2>2. feed.sym \in Symbols
    BY <1>9 DEF TypeOK, Feed, Opened
  <2>3. tr' \in Tracker /\ open' \subseteq Symbols
    BY <1>9, <2>2, OpenType DEF Opened
  <2> QED BY <1>9, <2>1, <2>3 DEF TypeOK, exchange, local, threads, Opened
<1>10. ASSUME NEW s \in Symbols, RegisterFill(s) PROVE TypeOK'
  <2>1. tr' \in Tracker /\ open' \subseteq Symbols
    BY <1>10, OpenType DEF TypeOK, RegisterFill
  <2> QED BY <1>10, <2>1 DEF TypeOK, exchange, local, threads, RegisterFill
<1>11. ASSUME NEW s \in Symbols, PendingTimeout(s) PROVE TypeOK'
  <2> QED BY <1>11 DEF TypeOK, exchange, local, threads, PendingTimeout
<1>12. ASSUME NEW s \in Symbols, SyncAlgo(s) PROVE TypeOK'
  <2>1. tr' \in Tracker /\ open' \subseteq Symbols
    BY <1>12, CloseType, LimitsAssumption DEF SyncAlgo
  <2> QED BY <1>12, <2>1 DEF TypeOK, exchange, local, threads, SyncAlgo
<1>13. ASSUME NEW s \in Symbols, ReconcileClose(s) PROVE TypeOK'
  <2>1. tr' \in Tracker /\ open' \subseteq Symbols
    BY <1>13, CloseType, LimitsAssumption DEF ReconcileClose
  <2> QED BY <1>13, <2>1 DEF TypeOK, exchange, local, threads, ReconcileClose
<1>14. ASSUME NEW s \in Symbols, ReconcileImport(s) PROVE TypeOK'
  <2>1. tr' \in Tracker /\ open' \subseteq Symbols
    BY <1>14, OpenType DEF ReconcileImport
  <2> QED BY <1>14, <2>1 DEF TypeOK, exchange, local, threads, ReconcileImport
<1>15. CASE FundingFee
  <2>1. tr' \in Tracker
    BY <1>15, ResetType DEF TypeOK, Tracker, FundingFee
  <2>2. used' \in [entries : Nat, fees : Nat]
    BY <1>15, LimitsAssumption, HighestType, PredLemma DEF TypeOK, FundingFee
  <2>3. account' \in Int
    BY <1>15, LimitsAssumption, HighestType, PredLemma DEF TypeOK, FundingFee
  <2> QED BY <1>15, <2>1, <2>2, <2>3 DEF TypeOK, exchange, local, threads, FundingFee
<1>16. ASSUME NEW s \in Symbols, ForceExit(s) PROVE TypeOK'
  <2>1. cmd' \in Cmd
    BY <1>16, LimitsAssumption, HighestType, PredLemma DEF TypeOK, Cmd, ForceExit
  <2> QED BY <1>16, <2>1 DEF TypeOK, exchange, local, threads, ForceExit
<1>17. CASE CmdSell
  <2>1. cmd' \in Cmd
    <3>1. CmdIdle \in Cmd  BY LimitsAssumption DEF Cmd, CmdIdle, Closed, Breaker
    <3>2. ASSUME NEW p \in Results PROVE [cmd EXCEPT !.pc = "close", !.val = p] \in Cmd
      BY LimitsAssumption DEF TypeOK, Cmd
    <3> QED BY <1>17, <3>1, <3>2 DEF CmdSell
  <2>2. account' \in Int
    BY <1>17, EarnsType, LimitsAssumption DEF TypeOK, CmdSell, Sold, NotSold
  <2> QED BY <1>17, <2>1, <2>2 DEF TypeOK, exchange, local, threads, CmdSell, Sold, NotSold, Cancels
<1>18. CASE CmdClose
  <2>1. tr' \in Tracker /\ open' \subseteq Symbols
    BY <1>18, CloseType, LimitsAssumption DEF TypeOK, Cmd, CmdClose
  <2>2. cmd' \in Cmd
    BY <1>18, LimitsAssumption, HighestType, PredLemma DEF Cmd, Breaker, Closed, CmdIdle, CmdClose
  <2> QED BY <1>18, <2>1, <2>2 DEF TypeOK, exchange, local, threads, CmdClose
<1>19. CASE SetParam
  <2>1. cmd' \in Cmd
    BY <1>19, LimitsAssumption, HighestType, PredLemma DEF TypeOK, Cmd, SetParam
  <2> QED BY <1>19, <2>1 DEF TypeOK, exchange, local, threads, SetParam
<1>20. CASE Publish \/ CopyState \/ CopyTime
  <2>1. breaker' \in Breaker
    BY <1>20, LimitsAssumption DEF TypeOK, Cmd, Breaker, Closed, Publish, CopyState, CopyTime
  <2>2. cmd' \in Cmd
    <3>1. CmdIdle \in Cmd  BY LimitsAssumption DEF Cmd, CmdIdle, Closed, Breaker
    <3>2. ASSUME NEW p \in {"state", "time"} PROVE [cmd EXCEPT !.pc = p] \in Cmd
      BY DEF TypeOK, Cmd
    <3> QED BY <1>20, <3>1, <3>2 DEF Publish, CopyState, CopyTime
  <2> QED BY <1>20, <2>1, <2>2 DEF TypeOK, exchange, local, threads, Publish, CopyState, CopyTime
<1>21. CASE Fetch
  <2>1. main' \in Main
    BY <1>21, LimitsAssumption, HighestType, PredLemma DEF TypeOK, Main, Fetch, AfterFetch, MainIdle
  <2> QED BY <1>21, <2>1 DEF TypeOK, exchange, local, threads, Fetch
<1>22. CASE FetchFails
  <2>1. main' \in Main
    BY <1>22, LimitsAssumption, HighestType, PredLemma DEF TypeOK, Main, FetchFails, AfterFetch, MainIdle
  <2> QED BY <1>22, <2>1 DEF TypeOK, exchange, local, threads, FetchFails
<1>23. CASE Apply
  <2>1. main' \in Main
    BY <1>23, LimitsAssumption, HighestType, PredLemma DEF TypeOK, Main, Apply, MainIdle
  <2>2. tr' \in Tracker
    <3>1. main.val \in Int /\ tr.peak \in Int  BY DEF TypeOK, Main, Tracker
    <3>2. Highest(tr.peak, main.val) \in Int   BY <3>1, HighestType
    <3> QED BY <1>23, <3>1, <3>2 DEF TypeOK, Tracker, Apply, UpdateEquity
  <2> QED BY <1>23, <2>1, <2>2 DEF TypeOK, exchange, local, threads, Apply
<1>24. CASE ProtectiveCheck
  <2>1. main' \in Main
    <3>1. ASSUME NEW n \in {"idle", "risks"}, CloseLargest(n) PROVE main' \in Main
      <4>1. PICK y \in open : main' = [MainIdle EXCEPT !.pc = "exit", !.then = n, !.sym = y]
        BY <3>1 DEF CloseLargest
      <4>2. y \in Symbols /\ n \in {"idle", "check", "risks"} /\ 0 \in Int  BY DEF TypeOK
      <4> QED BY <4>1, <4>2, MainType, Zenon
    <3>2. [MainIdle EXCEPT !.pc = "risks"] \in Main /\ MainIdle \in Main
      BY DEF Main, MainIdle
    <3>3. "idle" \in {"idle", "risks"} /\ "risks" \in {"idle", "risks"}  OBVIOUS
    <3> QED BY <1>24, <3>1, <3>2, <3>3, Zenon DEF ProtectiveCheck, Pass
  <2>2. reduce' \in Timers
    <3>1. DeleverWait \in 0..DeleverWait /\ ReduceWait \in 0..ReduceWait  BY LimitsAssumption
    <3>2. (reduce.armed \/ Recovered(ReduceAt)) \in BOOLEAN /\ FALSE \in BOOLEAN  OBVIOUS
    <3> QED BY <1>24, <3>1, <3>2, TimersType, Zenon DEF ProtectiveCheck, Pass, TypeOK
  <2> QED BY <1>24, <2>1, <2>2 DEF TypeOK, exchange, local, threads, ProtectiveCheck
<1>25. CASE Risks
  <2>1. main' \in Main
    <3>1. ASSUME NEW n \in {"idle", "risks"}, CloseLargest(n) PROVE main' \in Main
      <4>1. PICK y \in open : main' = [MainIdle EXCEPT !.pc = "exit", !.then = n, !.sym = y]
        BY <3>1 DEF CloseLargest
      <4>2. y \in Symbols /\ n \in {"idle", "check", "risks"} /\ 0 \in Int  BY DEF TypeOK
      <4> QED BY <4>1, <4>2, MainType, Zenon
    <3>2. [MainIdle EXCEPT !.pc = "risks"] \in Main /\ MainIdle \in Main
      BY DEF Main, MainIdle
    <3>3. "idle" \in {"idle", "risks"} /\ "risks" \in {"idle", "risks"}  OBVIOUS
    <3> QED BY <1>25, <3>1, <3>2, <3>3, Zenon DEF Risks
  <2>2. reduce' \in Timers
    BY <1>25, LimitsAssumption, HighestType, PredLemma DEF TypeOK, Timers, Risks
  <2> QED BY <1>25, <2>1, <2>2 DEF TypeOK, exchange, local, threads, Risks
<1>26. CASE MainSell
  <2>1. main' \in Main
    BY <1>26, LimitsAssumption, HighestType, PredLemma DEF TypeOK, Main, MainSell
  <2>2. account' \in Int
    BY <1>26, EarnsType, LimitsAssumption DEF TypeOK, MainSell, Sold, NotSold, exchange
  <2> QED BY <1>26, <2>1, <2>2 DEF TypeOK, exchange, local, threads, MainSell, Sold, NotSold, Cancels
<1>27. CASE MainClose
  <2>1. tr' \in Tracker /\ open' \subseteq Symbols
    BY <1>27, CloseType, LimitsAssumption DEF TypeOK, Main, MainClose
  <2>2. main' \in Main
    BY <1>27, LimitsAssumption, HighestType, PredLemma DEF TypeOK, Main, MainClose
  <2> QED BY <1>27, <2>1, <2>2 DEF TypeOK, exchange, local, threads, MainClose
<1>28. CASE UNCHANGED vars
  BY <1>28 DEF TypeOK, vars, exchange, local, threads
<1> QED
  BY <1>1, <1>2, <1>3, <1>4, <1>5, <1>6, <1>7, <1>8, <1>9, <1>10, <1>11, <1>12, <1>13, <1>14, <1>15, <1>16, <1>17, <1>18, <1>19, <1>20, <1>21, <1>22, <1>23, <1>24, <1>25, <1>26, <1>27, <1>28
  DEF Next, FeedStep, MainStep, Recon, Command, CmdStep, Polls, World

(* Whatever the threads do, the numbers the limits read are numbers.         *)
THEOREM Typed == Spec => []TypeOK
  BY TypeInit, TypeStep, PTL DEF Spec

(***************************************************************************)
(* The cooldown.                                                           *)
(***************************************************************************)
(* Steps that leave the breaker alone, and do not take part in a rebuild.    *)
LEMMA KeptFrame ==
  ASSUME Kept, seen' = seen, breaker' = breaker,
         cmd' = cmd \/ (cmd.pc \notin {"rebuild", "state", "time"} /\ cmd'.pc \notin {"rebuild", "state", "time"})
  PROVE  Kept'
  BY DEF Kept, Lasts, Rebuilding, Published

LEMMA NotCooling ==
  ASSUME TypeOK, Kept, ~Cooling, ~Published PROVE seen.raced \/ seen.cool = 0
  BY LimitsAssumption DEF Cooling, Kept, Lasts, TypeOK, Breaker, History

(* A signal that is let through: what it notes, and what it leaves. *)
LEMMA AdmitNotes ==
  ASSUME TypeOK, NEW s \in Symbols, Admit(s)
  PROVE  /\ seen'.cool = seen.cool /\ cmd' = cmd
         /\ seen'.raced = (seen.raced \/ (cmd.pc = "time" /\ seen.cool > 0))
  BY DEF Admit, Signal, TypeOK, History

LEMMA AdmitKeeps == ASSUME TypeOK, Kept, NEW s \in Symbols, Admit(s) PROVE Kept'
<1>1. ~Cooling /\ seen.cool \in Nat
  BY LimitsAssumption DEF Admit, TypeOK, History
<1>2. CASE seen.raced \/ seen.cool = 0
  BY <1>2, AdmitNotes DEF Kept
<1>3. CASE cmd.pc = "time" /\ seen.cool > 0
  BY <1>3, AdmitNotes DEF Kept
<1>4. CASE ~seen.raced /\ seen.cool # 0 /\ cmd.pc # "time"
  <2>1. Published
    BY <1>1, <1>4, NotCooling
  <2>2. Lasts(cmd.saved)
    BY <1>4, <2>1 DEF Kept
  <2> QED BY <1>4, <2>1, <2>2, AdmitNotes DEF Kept, Lasts, Rebuilding, Published
<1>5. seen.cool = 0 \/ seen.cool > 0  BY <1>1
<1> QED BY <1>2, <1>3, <1>4, <1>5

LEMMA KeptStep == TypeOK /\ Kept /\ [Next]_vars => Kept'
<1> SUFFICES ASSUME TypeOK, Kept, [Next]_vars PROVE Kept'
  OBVIOUS
<1> USE DEF exchange, local, threads
<1>1. ASSUME NEW s \in Symbols, Fill(s) PROVE Kept'
  BY <1>1, KeptFrame DEF Fill
<1>2. ASSUME NEW s \in Symbols, Trigger(s) PROVE Kept'
  BY <1>2, KeptFrame DEF Trigger
<1>3. CASE NewDay
  BY <1>3, KeptFrame DEF NewDay
<1>4. CASE Tick
  <2>1. /\ breaker'.state = breaker.state /\ breaker'.left = Pred(breaker.left)
        /\ cmd'.pc = cmd.pc
        /\ cmd'.saved.state = cmd.saved.state /\ cmd'.saved.left = Pred(cmd.saved.left)
        /\ seen'.cool = Pred(seen.cool) /\ seen'.raced = seen.raced
    BY <1>4 DEF Tick, TypeOK, Breaker, Cmd, History
  <2>2. breaker.left \in Nat /\ cmd.saved.left \in Nat /\ seen.cool \in Nat
    BY LimitsAssumption DEF TypeOK, Breaker, Cmd, History
  <2>3. seen.cool <= breaker.left => Pred(seen.cool) <= Pred(breaker.left)
    BY <2>2, PredMonotone
  <2>4. seen.cool <= cmd.saved.left => Pred(seen.cool) <= Pred(cmd.saved.left)
    BY <2>2, PredMonotone
  <2>5. seen.cool = 0 => Pred(seen.cool) = 0
    BY DEF Pred
  <2>6. Pred(seen.cool) \in Nat /\ Pred(breaker.left) \in Nat /\ Pred(cmd.saved.left) \in Nat
    BY <2>2, PredLemma
  <2> QED BY <2>1, <2>2, <2>3, <2>4, <2>5, <2>6 DEF Kept, Lasts, Rebuilding, Published
<1>5. ASSUME NEW s \in Symbols, Trip(s) PROVE Kept'
  <2>1. seen'.raced = (Rebuilding \/ Published) /\ seen'.cool = Cooldown /\ cmd' = cmd
    BY <1>5 DEF Trip, Signal, TypeOK, History
  <2>2. breaker'.state = "COOLDOWN" /\ breaker'.left = Cooldown
    BY <1>5 DEF Trip
  <2>3. CASE Rebuilding \/ Published
    <3>1. seen'.raced  BY <2>1, <2>3
    <3> QED BY <3>1 DEF Kept
  <2>4. CASE ~Rebuilding /\ ~Published
    <3>1. Lasts(breaker)' /\ ~Rebuilding' /\ ~Published' /\ cmd'.pc # "time"
      BY <2>1, <2>2, <2>4, LimitsAssumption DEF Lasts, Rebuilding, Published
    <3> QED BY <3>1 DEF Kept
  <2> QED BY <2>3, <2>4
<1>6. ASSUME NEW s \in Symbols, Admit(s) PROVE Kept'
  BY <1>6, AdmitKeeps
<1>7. ASSUME NEW s \in Symbols, ForceExit(s) PROVE Kept'
  BY <1>7, KeptFrame DEF ForceExit, TypeOK, Cmd
<1>8. CASE CmdSell
  <2>1. cmd.pc = "exit" /\ cmd'.pc \in {"close", "idle"}
    <3>1. ASSUME NEW p, cmd' = [cmd EXCEPT !.pc = "close", !.val = p] PROVE cmd'.pc = "close"
      BY <3>1 DEF TypeOK, Cmd
    <3>2. cmd.pc = "exit"  BY <1>8 DEF CmdSell
    <3>3. cmd' = CmdIdle \/ \E p \in Results : cmd' = [cmd EXCEPT !.pc = "close", !.val = p]
      BY <1>8 DEF CmdSell
    <3>4. cmd' = CmdIdle => cmd'.pc = "idle"  BY DEF CmdIdle
    <3> QED BY <3>1, <3>2, <3>3, <3>4
  <2>2. seen' = seen /\ breaker' = breaker
    BY <1>8 DEF CmdSell, Sold, NotSold, Cancels
  <2> QED BY <2>1, <2>2, KeptFrame
<1>9. CASE CmdClose
  BY <1>9, KeptFrame DEF CmdClose, CmdIdle
<1>10. CASE SetParam
  <2>1. cmd'.saved = breaker /\ breaker' = breaker /\ seen' = seen /\ cmd.pc = "idle" /\ cmd'.pc = "rebuild"
    BY <1>10 DEF SetParam, TypeOK, Cmd
  <2> QED BY <2>1 DEF Kept, Lasts, Rebuilding, Published
<1>11. CASE Publish \/ CopyState \/ CopyTime
  <2>1. seen' = seen
    BY <1>11 DEF Publish, CopyState, CopyTime
  <2>2. CASE Publish
    <3>1. cmd'.saved = cmd.saved /\ cmd'.pc = "state" /\ cmd.pc = "rebuild"
      BY <2>2 DEF Publish, Rebuilding, TypeOK, Cmd
    <3> QED BY <2>1, <3>1 DEF Kept, Lasts, Rebuilding, Published
  <2>3. CASE CopyState
    <3>1. cmd'.saved = cmd.saved /\ cmd'.pc = "time" /\ cmd.pc = "state" /\ breaker'.state = cmd.saved.state
      BY <2>3 DEF CopyState, TypeOK, Cmd, Breaker
    <3> QED BY <2>1, <3>1 DEF Kept, Lasts, Rebuilding, Published
  <2>4. CASE CopyTime
    <3>1. /\ cmd.pc = "time" /\ cmd'.pc = "idle"
          /\ breaker'.state = breaker.state /\ breaker'.left = cmd.saved.left
      BY <2>4 DEF CopyTime, CmdIdle, TypeOK, Breaker
    <3> QED BY <2>1, <3>1 DEF Kept, Lasts, Rebuilding, Published
  <2> QED BY <1>11, <2>2, <2>3, <2>4
<1>12. CASE Place
  BY <1>12, KeptFrame DEF Place
<1>13. CASE MainSell
  <2>1. seen' = seen /\ breaker' = breaker
    BY <1>13 DEF MainSell, Sold, NotSold, Cancels
  <2> QED BY <1>13, <2>1, KeptFrame DEF MainSell
<1>14. CASE Limits \/ Opened \/ FundingFee
  BY <1>14, KeptFrame DEF Limits, Opened, FundingFee
<1>15. CASE Fetch \/ FetchFails \/ Apply \/ ProtectiveCheck \/ Risks \/ MainClose
  BY <1>15, KeptFrame DEF Fetch, FetchFails, Apply, ProtectiveCheck, Risks, MainClose
<1>16. CASE Polls \/ Recon
  BY <1>16, KeptFrame
  DEF Polls, Recon, RegisterFill, PendingTimeout, SyncAlgo, ReconcileClose, ReconcileImport
<1>17. CASE UNCHANGED vars
  BY <1>17, KeptFrame DEF vars
<1> QED
  BY <1>1, <1>2, <1>3, <1>4, <1>5, <1>6, <1>7, <1>8, <1>9, <1>10, <1>11, <1>12, <1>13, <1>14,
     <1>15, <1>16, <1>17
  DEF Next, FeedStep, MainStep, Command, CmdStep, World

(* A signal is let through only by Admit, and Kept tells it from a breaker   *)
(* that still has to cool down, unless the chain is being replaced.          *)
LEMMA AdmitStep ==
  ASSUME TypeOK, Kept, [Next]_vars, feed.pc = "idle", feed'.pc = "limits"
  PROVE  seen.cool = 0 \/ seen.raced \/ Published
<1>1. ASSUME NEW s \in Symbols, Admit(s) PROVE seen.cool = 0 \/ seen.raced \/ Published
  BY <1>1, NotCooling DEF Admit
<1>2. CASE FeedStep
  <2>1. CASE Limits \/ Place \/ Opened  BY <2>1 DEF Limits, Place, Opened
  <2>2. ASSUME NEW s \in Symbols, Trip(s) PROVE FALSE
    BY <2>2 DEF Trip
  <2> QED BY <1>1, <1>2, <2>1, <2>2 DEF FeedStep
<1>3. feed' = feed \/ FeedStep
  BY DEF Next, vars, threads, MainStep, Recon, Command, CmdStep, Polls, World, Fetch, FetchFails, Apply,
     ProtectiveCheck, Risks, MainSell, MainClose, ReconcileClose, ReconcileImport, ForceExit, SetParam,
     CmdSell, CmdClose, Publish, CopyState, CopyTime, RegisterFill, PendingTimeout, SyncAlgo, Fill, Trigger, NewDay, FundingFee,
     Tick, Sold, NotSold, Cancels
<1> QED BY <1>2, <1>3

(* DrawdownBreaker, for all limits: nothing passes before the cooldown is    *)
(* over, a completed setparam before or after the trip included.  Excepted   *)
(* are the moments between the publication of a new chain and the last copy  *)
(* (_apply_param), and a cooldown that was lost because the breaker tripped  *)
(* in the replacement, or was asked with its state copied but not its time.  *)
THEOREM CooldownKept == Spec => CooldownHolds
<1>1. Init => Kept
  BY DEF Init, Kept
<1>2. TypeOK /\ Kept /\ [Next]_vars
        => [feed.pc = "idle" /\ feed'.pc = "limits" => seen.cool = 0 \/ seen.raced \/ Published]_vars
  BY AdmitStep
<1> QED BY <1>1, <1>2, Typed, KeptStep, PTL DEF Spec, CooldownHolds
=============================================================================
