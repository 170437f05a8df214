----------------------------- MODULE MarketFeed -----------------------------
(***************************************************************************)
(* MarketDataFeed: several WebSocket connections carry the same kline      *)
(* stream, each with a thread of its own.  All of them write the shared    *)
(* KlineBuffer; only the primary one reports a closed candle to the        *)
(* strategy (on_kline_closed).  A primary that breaks is replaced by a     *)
(* standby, and the closure its successor may have seen too early is       *)
(* replayed.  The main thread fills the buffer with history after the      *)
(* connections have started, closes a primary that has gone silent, and    *)
(* polls the last closed candle over REST.                                 *)
(*                                                                         *)
(* One symbol and its 15m candles 0, 1, ...; candle 0 closed before the    *)
(* start and stands for all older ones.  Event 2n-1 of the stream forms    *)
(* candle n, event 2n closes it.                                           *)
(***************************************************************************)
EXTENDS Integers, Sequences, FiniteSetsExt

CONSTANTS
  Redundant,   \* redundant_connections
  MaxEvents    \* bound: events of the stream

ASSUME FeedAssumption == Redundant \in Nat \ {0} /\ MaxEvents \in Nat \ {0}

VARIABLES
  market,    \* exchange: the last event
  polled,    \* was a REST poll for the last closed candle answered?
  primary,   \* _primary_idx
  conn,      \* per connection: link (connected, socket), last event, thread's pc, is_primary,
             \*   and whether it ever had a message (last_msg_ts > 0)
  rows,      \* KlineBuffer._data of the series
  notified,  \* _closed_notified
  rest,      \* poll_closures_from_rest: where it is, and its candle
  load,      \* backfill: where it is, the next row to add, the candle forming when fetched
  called     \* history: how often on_kline_closed was called for each candle

vars == <<market, polled, primary, conn, rows, notified, rest, load, called>>
env  == <<market, polled>>
main == <<rest, load>>

Conns        == 0..(Redundant - 1)
CandleOf(e)  == (e + 1) \div 2
Candles      == 0..(MaxEvents \div 2 + 1)
LatestClosed == market \div 2
Kline(e)     == [n |-> CandleOf(e), closed |-> e % 2 = 0]
Klines       == [n : Candles, closed : BOOLEAN]

(* Mutant: one period instead of two.                                       *)
Recent_OnePeriod(n) == n > LatestClosed

(* A candle opened at most two periods ago: the last closed one, or later.   *)
Recent(n) == n >= LatestClosed

TypeOK ==
  /\ market \in 1..MaxEvents /\ polled \in BOOLEAN
  /\ primary \in Conns
  /\ conn \in [Conns -> [link : {"up", "silent", "closing", "down"}, at : 0..MaxEvents,
                         pc : {"retry", "idle", "add", "notify", "switch", "replay"},
                         lead : BOOLEAN, heard : BOOLEAN]]
  /\ rows \in Seq(Klines) /\ notified \subseteq Candles
  /\ rest \in [pc : {"idle", "claim", "deliver"}, n : Candles]
  /\ load \in [pc : {"fetch", "adding", "loaded", "failed"}, next : Nat, forming : Candles]
  /\ called \in [Candles -> Nat]

Idle == [pc |-> "idle", n |-> 0]

Init ==
  /\ market = 1 /\ polled = FALSE
  /\ primary = 0
  /\ conn = [c \in Conns |-> [link |-> "down", at |-> 0, pc |-> "retry", lead |-> FALSE,
                          heard |-> FALSE]]
  /\ rows = <<>> /\ notified = {} /\ called = [n \in Candles |-> 0]
  /\ rest = Idle /\ load = [pc |-> "fetch", next |-> 0, forming |-> 0]

-----------------------------------------------------------------------------
(* KlineBuffer.add: a later candle is appended, one of a known window takes  *)
(* its row, any other is out of order and dropped (max_size is not reached). *)
Later(rs, k) == rs = <<>> \/ k.n > rs[Len(rs)].n
Stale(rs, k) == ~Later(rs, k) /\ \A i \in DOMAIN rs : rs[i].n # k.n

(* Mutant: a row of no known window is appended.                             *)
Put_Appends(rs, k) ==
  IF \E i \in DOMAIN rs : rs[i].n = k.n
  THEN [i \in DOMAIN rs |-> IF rs[i].n = k.n THEN k ELSE rs[i]]
  ELSE Append(rs, k)

Put(rs, k) == IF Later(rs, k) THEN Append(rs, k)
                ELSE [i \in DOMAIN rs |-> IF rs[i].n = k.n THEN k ELSE rs[i]]

Has(n) == \E i \in DOMAIN rows : rows[i] = [n |-> n, closed |-> TRUE]

(* Mutant: whether it was reported is not looked at.                         *)
Report_Unchecked(n) ==
  /\ notified' = notified \union {n}
  /\ called' = [called EXCEPT ![n] = @ + 1]

(* Under the lock: report a candle unless it was reported.                   *)
Report(n) ==
  /\ notified' = notified \union {n}
  /\ called' = IF n \in notified THEN called ELSE [called EXCEPT ![n] = @ + 1]

-----------------------------------------------------------------------------
(* The exchange. *)
Trade ==
  /\ market < MaxEvents
  /\ market' = market + 1
  /\ polled' = FALSE
  /\ UNCHANGED <<primary, conn, rows, notified, main, called>>

(* The network: a link goes half open, its socket still up but no message.   *)
(* There may have been messages that were no klines before.                  *)
Hang(c) ==
  /\ conn[c].link = "up" /\ conn[c].pc = "idle"
  /\ \E h \in {conn[c].heard, TRUE} :
       conn' = [conn EXCEPT ![c] = [@ EXCEPT !.link = "silent", !.at = 0, !.heard = h]]
  /\ UNCHANGED <<env, primary, rows, notified, main, called>>

-----------------------------------------------------------------------------
(* A connection's thread.  _run_conn opens the socket, which then carries    *)
(* what comes from now on, updates of the forming candle included; or        *)
(* run_forever returns without a connection.                                 *)
Connect(c) ==
  /\ conn[c].pc = "retry"
  /\ conn' = [conn EXCEPT ![c] = [@ EXCEPT !.link = "up", !.at = 2 * LatestClosed, !.pc = "idle"]]
  /\ UNCHANGED <<env, primary, rows, notified, main, called>>

ConnectFails(c) ==
  /\ conn[c].pc = "retry"
  /\ conn' = [conn EXCEPT ![c].pc = "switch"]
  /\ UNCHANGED <<env, primary, rows, notified, main, called>>

(* _on_message_wrapper: whether this is the primary is read first.           *)
Receive(c) ==
  /\ conn[c].pc = "idle" /\ conn[c].link = "up" /\ conn[c].at < market
  /\ conn' = [conn EXCEPT ![c] = [@ EXCEPT !.at = conn[c].at + 1, !.pc = "add",
                                           !.lead = (c = primary), !.heard = TRUE]]
  /\ UNCHANGED <<env, primary, rows, notified, main, called>>

AddKline(c) ==
  LET k == Kline(conn[c].at) IN
  /\ conn[c].pc = "add"
  /\ rows' = Put(rows, k)
  /\ LET reports == conn[c].lead /\ k.closed /\ ~Stale(rows, k) IN
     conn' = [conn EXCEPT ![c] = [@ EXCEPT !.pc = IF reports THEN "notify" ELSE "idle",
                                           !.lead = FALSE]]
  /\ UNCHANGED <<env, primary, notified, main, called>>

(* The callback, from a message or from a replay.                            *)
Notify(c) ==
  /\ conn[c].pc = "notify"
  /\ Report(CandleOf(conn[c].at))
  /\ conn' = IF conn[c].link = "down"
             THEN [conn EXCEPT ![c] = [@ EXCEPT !.pc = "retry", !.at = 0]]
             ELSE [conn EXCEPT ![c].pc = "idle"]
  /\ UNCHANGED <<env, primary, rows, main>>

(* The socket breaks, or was closed by ForceSwitch: _on_conn_close.          *)
Close(c) ==
  /\ conn[c].pc = "idle" /\ conn[c].link # "down"
  /\ conn' = [conn EXCEPT ![c] = [@ EXCEPT !.link = "down", !.at = 0, !.pc = "switch"]]
  /\ UNCHANGED <<env, primary, rows, notified, main, called>>

(* _try_switch_primary: the first connected one after the failed primary.    *)
Standbys(c) == {i \in 1..(Redundant - 1) : conn[(c + i) % Redundant].link # "down"}

(* Mutant: the index does not wrap around.                                   *)
NextStandby_NoWrap(c) == c + Min(Standbys(c))

NextStandby(c) == (c + Min(Standbys(c))) % Redundant

Switch(c) ==
  LET switched == c = primary /\ Standbys(c) # {} IN
  /\ conn[c].pc = "switch"
  /\ primary' = IF switched THEN NextStandby(c) ELSE primary
  /\ conn' = [conn EXCEPT ![c].pc = IF switched THEN "replay" ELSE "retry"]
  /\ UNCHANGED <<env, rows, notified, main, called>>

(* _replay_missed_closures: a snapshot of the buffer's recent closed rows,   *)
(* of which one series has at most one.                                      *)
Missed == {n \in Candles : Recent(n) /\ Has(n)}

Replay(c) ==
  /\ conn[c].pc = "replay"
  /\ \/ /\ Missed = {}
        /\ conn' = [conn EXCEPT ![c].pc = "retry"]
     \/ \E n \in Missed :
          conn' = [conn EXCEPT ![c] = [@ EXCEPT !.pc = "notify", !.at = 2 * n]]
  /\ UNCHANGED <<env, primary, rows, notified, main, called>>

-----------------------------------------------------------------------------
(* The main thread.  backfill: history is fetched and added row by row, the  *)
(* last row as forming; a failed fetch is logged.                            *)
Fetch ==
  /\ load.pc = "fetch"
  /\ load' \in {[pc |-> "adding", next |-> 0, forming |-> LatestClosed + 1],
                [pc |-> "failed", next |-> 0, forming |-> 0]}
  /\ UNCHANGED <<env, primary, conn, rows, notified, rest, called>>

AddRow ==
  LET last == load.next = load.forming IN
  /\ load.pc = "adding"
  /\ rows' = Put(rows, [n |-> load.next, closed |-> ~last])
  /\ load' = IF last THEN [pc |-> "loaded", next |-> 0, forming |-> 0]
             ELSE [load EXCEPT !.next = @ + 1]
  /\ UNCHANGED <<env, primary, conn, notified, rest, called>>

Running == load.pc \in {"loaded", "failed"}

(* primary_stale_seconds: without a first message it is unknown how long.    *)
KnownSilent(c) == conn[c].link = "silent" /\ conn[c].heard

(* Mutant: connection 0 is taken for the primary.                            *)
ForceSwitch_First ==
  /\ Running /\ rest.pc = "idle" /\ KnownSilent(0)
  /\ conn' = [conn EXCEPT ![0].link = "closing"]
  /\ UNCHANGED <<env, primary, rows, notified, main, called>>

(* _check_connections: a primary without a message for 90 s is closed, one   *)
(* that never had a message is not.                                          *)
ForceSwitch ==
  /\ Running /\ rest.pc = "idle" /\ KnownSilent(primary)
  /\ conn' = [conn EXCEPT ![primary].link = "closing"]
  /\ UNCHANGED <<env, primary, rows, notified, main, called>>

(* poll_closures_from_rest, at least a minute after the candle closed; an    *)
(* answer.  Later polls of the same period find the candle reported.         *)
Poll ==
  /\ Running /\ rest.pc = "idle" /\ market % 2 = 1 /\ ~polled
  /\ polled' = TRUE
  /\ rest' = IF Recent(LatestClosed) THEN [pc |-> "claim", n |-> LatestClosed] ELSE Idle
  /\ UNCHANGED <<market, primary, conn, rows, notified, load, called>>

Claim ==
  /\ rest.pc = "claim"
  /\ notified' = notified \union {rest.n}
  /\ rest' = IF rest.n \in notified THEN Idle ELSE [rest EXCEPT !.pc = "deliver"]
  /\ UNCHANGED <<env, primary, conn, rows, load, called>>

(* What add answers is ignored.                                              *)
Deliver ==
  /\ rest.pc = "deliver"
  /\ rows' = Put(rows, [n |-> rest.n, closed |-> TRUE])
  /\ called' = [called EXCEPT ![rest.n] = @ + 1]
  /\ rest' = Idle
  /\ UNCHANGED <<env, primary, conn, notified, load>>

-----------------------------------------------------------------------------
Thread(c) == Connect(c) \/ ConnectFails(c) \/ AddKline(c) \/ Notify(c) \/ Switch(c) \/ Replay(c)
Shut(c)   == conn[c].link = "closing" /\ Close(c)
Loop      == Fetch \/ AddRow \/ Claim \/ Deliver

Next ==
  \/ Trade \/ Fetch \/ AddRow \/ ForceSwitch \/ Poll \/ Claim \/ Deliver
  \/ \E c \in Conns : Thread(c) \/ Receive(c) \/ Hang(c) \/ Close(c)

Spec == Init /\ [][Next]_vars

(* Threads keep running: a connection attempt ends (http_proxy_timeout), a   *)
(* closed socket ends run_forever, and the main loop comes round to          *)
(* _check_connections every few seconds, whatever it does in between.        *)
Fairness ==
  /\ \A c \in Conns : WF_vars(Thread(c)) /\ WF_vars(Shut(c))
  /\ WF_vars(Loop) /\ SF_vars(ForceSwitch)

FairSpec == Spec /\ Fairness

-----------------------------------------------------------------------------
(* The strategy hears of a candle at most once, whoever tells it: the        *)
(* primary's message, the replay of another thread, or the REST poll.        *)
CalledOnce == \A n \in Candles : called[n] <= 1

(* The buffer stays in the order of the candles, whatever connection lags    *)
(* and whenever history and REST rows are added (KlineBuffer.add).           *)
RowsAscend == \A i, j \in DOMAIN rows : i < j => rows[i].n < rows[j].n

(* A candle for which a poll was answered reaches the strategy, however the  *)
(* connections break, hang, lag and switch meanwhile, and whichever thread   *)
(* reported it first (poll_closures_from_rest).                              *)
ClosureIsCalled ==
  \A n \in Candles : (polled /\ LatestClosed = n) ~> called[n] > 0

(* If some connection stays up, the primary is up again and again: switching *)
(* among links that break or fall silent ends at a good one, or at one that  *)
(* fell silent before its first message (_try_switch_primary,                *)
(* force_primary_switch).                                                    *)
PrimaryReturns ==
  \A c \in Conns : <>[](conn[c].link = "up") =>
    \/ []<>(conn[primary].link = "up")
    \/ <>[](conn[primary].link = "silent" /\ ~conn[primary].heard)
=============================================================================
