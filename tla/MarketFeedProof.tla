-------------------------- MODULE MarketFeedProof --------------------------
(* Proofs about MarketFeed, for every number of connections and events: the  *)
(* strategy hears of a candle at most once, none that was claimed is lost,   *)
(* and the buffer stays in order.                                            *)
EXTENDS MarketFeed, SequenceTheorems, WellFoundedInduction, TLAPS

(* What the books range over. *)
Books ==
  /\ market \in 1..MaxEvents
  /\ called \in [Candles -> Nat]
  /\ rest \in [pc : {"idle", "claim", "deliver"}, n : Candles]
  /\ load \in [pc : {"fetch", "adding", "loaded", "failed"}, next : Nat, forming : Nat]

(* A candle that was called is marked; the one that the REST poll is about   *)
(* to call is marked, which keeps every other thread from calling it, and is *)
(* not called yet.                                                           *)
Marked ==
  /\ \A n \in Candles : called[n] <= 1
  /\ \A n \in Candles : called[n] = 1 => n \in notified
  /\ rest.pc = "deliver" => rest.n \in notified /\ called[rest.n] = 0

(* The rows of the buffer are in order, and what a connection is about to    *)
(* add has a place in that order.                                            *)
Row  == [n : Nat, closed : BOOLEAN]
Link == [link : {"up", "silent", "closing", "down"}, at : Nat,
         pc : {"retry", "idle", "add", "notify", "switch", "replay"}, lead : BOOLEAN, heard : BOOLEAN]

Ordered ==
  /\ conn \in [Conns -> Link]
  /\ rows \in Seq(Row)
  /\ RowsAscend

Inv == Books /\ Marked /\ Ordered

LEMMA ZeroIsCandle == 0 \in Candles /\ Candles \subseteq Nat
BY FeedAssumption DEF Candles

LEMMA LastIsCandle ==
  ASSUME market \in 1..MaxEvents PROVE LatestClosed \in Candles /\ LatestClosed \in Nat
BY FeedAssumption DEF Candles, LatestClosed

LEMMA EventsHaveCandles == ASSUME NEW e \in Nat PROVE Kline(e) \in Row
BY DEF Kline, CandleOf, Row

LEMMA Received ==
  ASSUME NEW r \in Link, NEW a \in Nat, NEW b \in BOOLEAN
  PROVE  [r EXCEPT !.at = a, !.pc = "add", !.lead = b, !.heard = TRUE] \in Link
BY DEF Link

LEMMA Relink ==
  ASSUME conn \in [Conns -> Link], NEW c \in Conns, NEW r \in Link,
         conn' = [conn EXCEPT ![c] = r]
  PROVE  conn' \in [Conns -> Link]
OBVIOUS

(* KlineBuffer.add keeps any buffer in order.                                *)
LEMMA PutKeepsOrder ==
  ASSUME RowsAscend, rows \in Seq(Row),
         NEW k \in Row, rows' = Put(rows, k)
  PROVE  rows' \in Seq(Row) /\ RowsAscend'
<1>1. Len(rows) \in Nat /\ rows \in [1..Len(rows) -> Row] /\ DOMAIN rows = 1..Len(rows)
  BY LenProperties
<1>2. \A i \in 1..Len(rows) : rows[i] \in Row /\ rows[i].n \in Nat
  BY <1>1 DEF Row
<1>3. CASE Later(rows, k)
  <2>1. rows' = Append(rows, k)
    BY <1>3 DEF Put
  <2>2. ASSUME NEW i \in 1..Len(rows) PROVE rows[i].n < k.n
    <3>1. k.n \in Nat /\ Len(rows) \in 1..Len(rows) /\ rows[Len(rows)].n < k.n
      BY <1>1, <1>3 DEF Later, Row
    <3>2. i = Len(rows) \/ rows[i].n < rows[Len(rows)].n
      <4>1. i \in DOMAIN rows /\ Len(rows) \in DOMAIN rows /\ i <= Len(rows)
        BY <1>1, <3>1
      <4> QED BY <1>1, <4>1 DEF RowsAscend
    <3> QED BY <1>2, <3>1, <3>2
  <2>3. rows' \in Seq(Row) /\ Len(rows') = Len(rows) + 1
    BY <2>1
  <2>4. DOMAIN rows' = 1..(Len(rows) + 1)
    BY <2>3
  <2>5. \A i \in 1..Len(rows) : rows'[i] = rows[i]
    BY <1>1, <2>1
  <2>6. rows'[Len(rows) + 1] = k
    BY <1>1, <2>1
  <2>7. RowsAscend'
    BY <1>1, <2>2, <2>4, <2>5, <2>6 DEF RowsAscend
  <2> QED BY <2>3, <2>7
<1>4. CASE ~Later(rows, k)
  <2>1. rows' = [i \in 1..Len(rows) |-> IF rows[i].n = k.n THEN k ELSE rows[i]]
    BY <1>1, <1>4 DEF Put
  <2>2. rows' \in [1..Len(rows) -> Row]
    BY <1>2, <2>1
  <2>3. rows' \in Seq(Row)
    BY <1>1, <2>2
  <2>4. DOMAIN rows' = DOMAIN rows /\ \A i \in DOMAIN rows : rows'[i].n = rows[i].n
    BY <1>1, <2>1
  <2> QED BY <2>3, <2>4 DEF RowsAscend
<1> QED BY <1>3, <1>4

(* Under the lock, a report keeps the books, whoever makes it.               *)
LEMMA ReportKeeps ==
  ASSUME Books, Marked, NEW n, Report(n), UNCHANGED <<rest, load, market>>
  PROVE  Books' /\ Marked'
<1>1. called' \in [Candles -> Nat]
  <2>1. CASE n \in Candles
    BY <2>1 DEF Books, Report
  <2>2. CASE n \notin Candles
    BY <2>2 DEF Books, Report
  <2> QED BY <2>1, <2>2
<1>2. Books'
  BY <1>1 DEF Books
<1>3. ASSUME NEW k \in Candles PROVE called'[k] <= 1 /\ (called'[k] = 1 => k \in notified')
  BY <1>3 DEF Books, Marked, Report
<1>4. ASSUME rest'.pc = "deliver" PROVE rest'.n \in notified' /\ called'[rest'.n] = 0
  BY <1>4 DEF Books, Marked, Report
<1> QED BY <1>2, <1>3, <1>4 DEF Marked

LEMMA InitInv == Init => Inv
BY ZeroIsCandle, FeedAssumption DEF Init, Inv, Books, Marked, Ordered, Link, RowsAscend, Idle

LEMMA StepInv == Inv /\ [Next]_vars => Inv'
<1> SUFFICES ASSUME Inv, [Next]_vars PROVE Inv'
  OBVIOUS
<1> USE DEF Inv
<1>1. CASE Trade
  <2>1. market' \in 1..MaxEvents
    BY <1>1, FeedAssumption DEF Trade, Books
  <2>2. Books' /\ Marked'
    BY <1>1, <2>1 DEF Trade, Books, Marked, main
  <2>3. Ordered'
    BY <1>1 DEF Trade, Ordered, RowsAscend, Link
  <2> QED BY <2>2, <2>3
<1>2. CASE Fetch
  <2>1. LatestClosed + 1 \in Nat
    BY LastIsCandle DEF Books
  <2>2. Books'
    BY <1>2, <2>1 DEF Fetch, Books, env
  <2> QED BY <1>2, <2>2 DEF Fetch, Marked, Ordered, RowsAscend, Link
<1>3. CASE AddRow
  <2>1. Books'
    BY <1>3 DEF AddRow, Books, env
  <2>2. Marked'
    BY <1>3 DEF AddRow, Marked
  <2>3. [n |-> load.next, closed |-> ~(load.next = load.forming)] \in Row
    BY DEF Books, Row
  <2>4. rows' = Put(rows, [n |-> load.next, closed |-> ~(load.next = load.forming)])
    BY <1>3 DEF AddRow
  <2>5. Ordered'
    BY <1>3, <2>3, <2>4, PutKeepsOrder DEF AddRow, Ordered
  <2> QED BY <2>1, <2>2, <2>5
<1>4. CASE ForceSwitch
  <2>1. Ordered'
    BY <1>4 DEF ForceSwitch, Ordered, RowsAscend, Link
  <2> QED BY <1>4, <2>1 DEF ForceSwitch, Books, Marked, main, env
<1>5. CASE Poll
  <2>1. Books'
    BY <1>5, LastIsCandle, ZeroIsCandle DEF Poll, Books, Idle
  <2>2. Marked'
    BY <1>5 DEF Poll, Marked, Idle
  <2> QED BY <1>5, <2>1, <2>2 DEF Poll, Ordered, RowsAscend, Link
<1>6. CASE Claim
  <2>1. rest.n \in Candles /\ rest'.n \in Candles /\ Books'
    BY <1>6, ZeroIsCandle DEF Claim, Books, Idle, env
  <2>2. ASSUME rest'.pc = "deliver" PROVE rest'.n \in notified' /\ called'[rest'.n] = 0
    BY <1>6, <2>1, <2>2 DEF Claim, Books, Marked, Idle
  <2>3. Marked'
    BY <1>6, <2>2 DEF Claim, Marked
  <2> QED BY <1>6, <2>1, <2>3 DEF Claim, Ordered, RowsAscend, Link
<1>7. CASE Deliver
  <2>1. rest.n \in Candles /\ rest.n \in Nat /\ called[rest.n] = 0 /\ rest.n \in notified
    BY <1>7, ZeroIsCandle DEF Deliver, Books, Marked
  <2>2. Books'
    BY <1>7, <2>1, ZeroIsCandle DEF Deliver, Books, Idle, env
  <2>3. Marked'
    BY <1>7, <2>1 DEF Deliver, Books, Marked, Idle
  <2>4. [n |-> rest.n, closed |-> TRUE] \in Row
    BY <2>1 DEF Row
  <2>5. rows' = Put(rows, [n |-> rest.n, closed |-> TRUE])
    BY <1>7 DEF Deliver
  <2>6. Ordered'
    BY <1>7, <2>4, <2>5, PutKeepsOrder DEF Deliver, Ordered
  <2> QED BY <2>2, <2>3, <2>6
<1>8. ASSUME NEW c \in Conns, Thread(c) \/ Receive(c) \/ Hang(c) \/ Close(c)
      PROVE  Inv'
  <2>1. CASE Connect(c)
    <3>1. 2 * LatestClosed \in Nat
      BY LastIsCandle DEF Books
    <3>2. Ordered'
      BY <2>1, <3>1 DEF Connect, Ordered, RowsAscend, Link
    <3> QED BY <2>1, <3>2 DEF Connect, Books, Marked, main, env
  <2>2. CASE ConnectFails(c)
    <3>1. Ordered'
      BY <2>2 DEF ConnectFails, Ordered, RowsAscend, Link
    <3> QED BY <2>2, <3>1 DEF ConnectFails, Books, Marked, main, env
  <2>3. CASE AddKline(c)
    <3>1. rows' = Put(rows, Kline(conn[c].at)) /\ Kline(conn[c].at) \in Row
      <4>1. conn[c].at \in Nat
        BY <1>8 DEF Ordered, Link
      <4>2. Kline(conn[c].at) \in Row
        BY <4>1, EventsHaveCandles
      <4> QED BY <2>3, <4>2 DEF AddKline
    <3>2. Ordered'
      <4>1. conn' \in [Conns -> Link]
        <5>1. PICK p \in {"notify", "idle"} :
                conn' = [conn EXCEPT ![c] = [conn[c] EXCEPT !.pc = p, !.lead = FALSE]]
          BY <2>3 DEF AddKline
        <5>2. [conn[c] EXCEPT !.pc = p, !.lead = FALSE] \in Link
          BY <1>8 DEF Ordered, Link
        <5> QED BY <1>8, <5>1, <5>2, Relink DEF Ordered
      <4>2. rows' \in Seq(Row) /\ RowsAscend'
        BY <3>1, PutKeepsOrder DEF Ordered
      <4> QED BY <4>1, <4>2 DEF Ordered
    <3> QED BY <2>3, <3>2 DEF AddKline, Books, Marked, main, env
  <2>4. CASE Notify(c)
    <3>1. Books' /\ Marked'
      BY <2>4, ReportKeeps DEF Notify, main, env
    <3>2. Ordered'
      BY <2>4 DEF Notify, Ordered, RowsAscend, Link
    <3> QED BY <3>1, <3>2
  <2>5. CASE Switch(c)
    <3>1. Ordered'
      BY <2>5 DEF Switch, Ordered, RowsAscend, Link
    <3> QED BY <2>5, <3>1 DEF Switch, Books, Marked, main, env
  <2>6. CASE Replay(c)
    <3>1. \A n \in Missed : 2 * n \in Nat
      BY ZeroIsCandle DEF Missed
    <3>2. Ordered'
      <4>1. CASE conn' = [conn EXCEPT ![c].pc = "retry"]
        <5>1. conn' \in [Conns -> Link]
          BY <1>8, <4>1 DEF Ordered, Link
        <5> QED BY <2>6, <5>1 DEF Replay, Ordered, RowsAscend
      <4>2. ASSUME NEW n \in Missed,
                   conn' = [conn EXCEPT ![c] = [conn[c] EXCEPT !.pc = "notify", !.at = 2 * n]]
            PROVE  Ordered'
        <5>1. [conn[c] EXCEPT !.pc = "notify", !.at = 2 * n] \in Link
          BY <1>8, <3>1 DEF Ordered, Link
        <5>2. conn' \in [Conns -> Link]
          BY <1>8, <4>2, <5>1, Relink DEF Ordered
        <5> QED BY <2>6, <5>2 DEF Replay, Ordered, RowsAscend
      <4> QED BY <2>6, <4>1, <4>2 DEF Replay
    <3> QED BY <2>6, <3>2 DEF Replay, Books, Marked, main, env
  <2>7. CASE Receive(c)
    <3> DEFINE r == [conn[c] EXCEPT !.at = conn[c].at + 1, !.pc = "add", !.lead = (c = primary), !.heard = TRUE]
    <3>1. conn' = [conn EXCEPT ![c] = r]
      BY <2>7, Zenon DEF Receive
    <3>2. conn[c] \in Link /\ conn[c].at + 1 \in Nat
      BY <1>8 DEF Ordered, Link
    <3>4. conn' \in [Conns -> Link]
      <4>1. r \in Link
        BY <3>2, Received, Zenon
      <4> HIDE DEF r
      <4> QED BY <1>8, <3>1, <4>1, Relink DEF Ordered
    <3>3. Ordered'
      BY <2>7, <3>4 DEF Receive, Ordered, RowsAscend, Link
    <3> QED BY <2>7, <3>3 DEF Receive, Books, Marked, main, env
  <2>8. CASE Hang(c)
    <3>1. PICK h : h \in {conn[c].heard, TRUE}
                   /\ conn' = [conn EXCEPT ![c] = [conn[c] EXCEPT !.link = "silent", !.at = 0, !.heard = h]]
      BY <2>8 DEF Hang
    <3>2. [conn[c] EXCEPT !.link = "silent", !.at = 0, !.heard = h] \in Link
      BY <1>8, <3>1 DEF Ordered, Link
    <3>3. Ordered'
      BY <1>8, <2>8, <3>1, <3>2, Relink DEF Hang, Ordered, RowsAscend
    <3> QED BY <2>8, <3>3 DEF Hang, Books, Marked, main, env
  <2>9. CASE Close(c)
    <3>1. Ordered'
      BY <2>9 DEF Close, Ordered, RowsAscend, Link
    <3> QED BY <2>9, <3>1 DEF Close, Books, Marked, main, env
  <2> QED BY <1>8, <2>1, <2>2, <2>3, <2>4, <2>5, <2>6, <2>7, <2>8, <2>9 DEF Thread
<1>9. CASE UNCHANGED vars
  BY <1>9 DEF vars, Books, Marked, Ordered, RowsAscend, Link
<1> QED BY <1>1, <1>2, <1>3, <1>4, <1>5, <1>6, <1>7, <1>8, <1>9 DEF Next

(* The strategy hears of a candle at most once (the lock around the check    *)
(* and the mark in _on_kline_message, _replay_missed_closures and            *)
(* poll_closures_from_rest), for any number of connections and candles.      *)
THEOREM CalledOnceHolds == Spec => []CalledOnce
<1>1. Inv => CalledOnce
  BY DEF Inv, Marked, CalledOnce
<1> QED BY InitInv, StepInv, <1>1, PTL DEF Spec

(* The buffer stays in the order of the candles, whoever adds what when      *)
(* (KlineBuffer.add).                                                        *)
THEOREM RowsAscendHolds == Spec => []RowsAscend
<1>1. Inv => RowsAscend
  BY DEF Inv, Ordered
<1> QED BY InitInv, StepInv, <1>1, PTL DEF Spec
-----------------------------------------------------------------------------
(* Types.  Nothing is known of the market before it happens: no connection   *)
(* is ahead of the exchange, and no candle counts as closed, in the buffer,  *)
(* in the history that is being added or for the REST poll, before it did.   *)
Past(n) == 2 * n <= market

Known ==
  /\ \A c \in Conns : conn[c].at <= market
  /\ rows \in Seq(Klines) /\ \A i \in DOMAIN rows : rows[i].closed => Past(rows[i].n)
  /\ load.forming \in Candles /\ load.next <= load.forming
  /\ \A n \in Nat : n < load.forming => Past(n)
  /\ Past(rest.n)
  /\ notified \subseteq Candles /\ primary \in Conns /\ polled \in BOOLEAN

LEMMA EventIsCandle ==
  ASSUME market \in 1..MaxEvents, NEW e \in Nat, e <= market
  PROVE  /\ CandleOf(e) \in Candles /\ Kline(e) \in Klines
         /\ Kline(e).closed => Past(Kline(e).n)
<1>1. market \in Nat /\ MaxEvents \in Nat /\ e <= MaxEvents
  BY FeedAssumption
<1>2. CandleOf(e) \in Nat /\ CandleOf(e) \in Candles
  BY <1>1 DEF CandleOf, Candles
<1>3. e % 2 = 0 => 2 * CandleOf(e) <= e
  BY DEF CandleOf
<1>4. Kline(e) \in Klines /\ Kline(e).n = CandleOf(e) /\ (Kline(e).closed <=> e % 2 = 0)
  BY <1>2, Zenon DEF Kline, Klines
<1>5. Kline(e).closed => Past(Kline(e).n)
  BY <1>1, <1>2, <1>3, <1>4 DEF Past
<1> QED BY <1>2, <1>4, <1>5

LEMMA PastIsCandle ==
  ASSUME market \in 1..MaxEvents, NEW n \in Nat, Past(n) PROVE n \in Candles
BY FeedAssumption DEF Candles, Past

LEMMA ClosedIsPast ==
  ASSUME market \in 1..MaxEvents
  PROVE  /\ Past(LatestClosed) /\ LatestClosed + 1 \in Candles
         /\ \A n \in Nat : n < LatestClosed + 1 => Past(n)
<1>1. market \in Nat /\ MaxEvents \in Nat /\ market <= MaxEvents
  BY FeedAssumption
<1>2. LatestClosed \in Nat /\ 2 * LatestClosed <= market /\ LatestClosed <= MaxEvents \div 2
  BY <1>1 DEF LatestClosed
<1> QED BY <1>1, <1>2 DEF Past, Candles

(* Each row that KlineBuffer.add leaves is the new one or an old one.        *)
LEMMA PutRows ==
  ASSUME rows \in Seq(Klines), NEW k \in Klines, rows' = Put(rows, k)
  PROVE  /\ rows' \in Seq(Klines)
         /\ \A j \in DOMAIN rows' : rows'[j] = k \/ \E i \in DOMAIN rows : rows'[j] = rows[i]
<1>1. Len(rows) \in Nat /\ rows \in [1..Len(rows) -> Klines] /\ DOMAIN rows = 1..Len(rows)
  BY LenProperties
<1>2. CASE Later(rows, k)
  <2>1. rows' = Append(rows, k)
    BY <1>2 DEF Put
  <2>2. rows' \in Seq(Klines) /\ DOMAIN rows' = 1..(Len(rows) + 1)
    BY <1>1, <2>1
  <2>3. \A j \in 1..(Len(rows) + 1) : j \in 1..Len(rows) \/ j = Len(rows) + 1
    BY <1>1
  <2>4. \A j \in 1..Len(rows) : rows'[j] = rows[j]
    BY <1>1, <2>1
  <2>5. rows'[Len(rows) + 1] = k
    BY <1>1, <2>1
  <2> QED BY <1>1, <2>2, <2>3, <2>4, <2>5
<1>3. CASE ~Later(rows, k)
  <2>1. rows' = [i \in 1..Len(rows) |-> IF rows[i].n = k.n THEN k ELSE rows[i]]
    BY <1>1, <1>3 DEF Put
  <2>2. rows' \in [1..Len(rows) -> Klines]
    BY <1>1, <2>1
  <2> QED BY <1>1, <2>1, <2>2
<1> QED BY <1>2, <1>3

(* A row that is true of the market keeps the buffer so.                     *)
LEMMA PutKnown ==
  ASSUME Known, NEW k \in Klines, k.closed => Past(k.n), rows' = Put(rows, k)
  PROVE  rows' \in Seq(Klines) /\ \A j \in DOMAIN rows' : rows'[j].closed => Past(rows'[j].n)
<1>1. rows \in Seq(Klines) /\ \A i \in DOMAIN rows : rows[i].closed => Past(rows[i].n)
  BY DEF Known
<1>2. rows' \in Seq(Klines)
  BY <1>1, PutRows
<1>3. ASSUME NEW j \in DOMAIN rows', rows'[j].closed PROVE Past(rows'[j].n)
  <2>1. rows'[j] = k \/ \E i \in DOMAIN rows : rows'[j] = rows[i]
    BY <1>1, PutRows
  <2> QED BY <1>1, <1>3, <2>1
<1> QED BY <1>2, <1>3

(* The least of some natural numbers. *)
LEMMA LeastExists ==
  ASSUME NEW T, T \subseteq Nat, T # {} PROVE \E x \in T : \A y \in T : x <= y
<1>1. PICK x \in T : \A y \in T : ~(<<y, x>> \in OpToRel(<, Nat))
  BY NatLessThanWellFounded, WFMin
<1>2. ASSUME NEW y \in T PROVE x <= y
  <2>1. ~(y < x)
    BY <1>1 DEF OpToRel
  <2> QED BY <2>1
<1> QED BY <1>2

LEMMA InitKnown == Init => Known
<1> SUFFICES ASSUME Init PROVE Known
  OBVIOUS
<1>1. polled \in BOOLEAN
  BY Zenon DEF Init
<1>2. primary \in Conns
  BY FeedAssumption DEF Init, Conns
<1> QED BY <1>1, <1>2, ZeroIsCandle, FeedAssumption DEF Init, Known, Past, Idle

LEMMA StandbyIsConn ==
  ASSUME NEW c \in Conns, Standbys(c) # {} PROVE NextStandby(c) \in Conns
<1>1. Redundant \in Nat \ {0} /\ c \in Nat
  BY FeedAssumption DEF Conns
<1>2. Standbys(c) \subseteq 1..(Redundant - 1)
  BY DEF Standbys
<1>3. Min(Standbys(c)) \in Standbys(c)
  BY <1>1, <1>2, LeastExists DEF Min
<1> QED BY <1>1, <1>2, <1>3 DEF NextStandby, Conns


(* A connection moves, and its place in the stream stays behind the market.  *)
LEMMA BehindMarket ==
  ASSUME Inv, Known, NEW c \in Conns, NEW r, r.at <= market, conn' = [conn EXCEPT ![c] = r]
  PROVE  \A d \in Conns : conn'[d].at <= market
BY DEF Inv, Ordered, Known

LEMMA ConnectionKnown ==
  ASSUME Inv, Known, NEW c \in Conns, Thread(c) \/ Receive(c) \/ Hang(c) \/ Close(c)
  PROVE  Known'
<1>0. /\ market \in 1..MaxEvents /\ market \in Nat /\ conn[c] \in Link /\ conn[c].at \in Nat
      /\ conn[c].at <= market
  BY FeedAssumption DEF Inv, Books, Ordered, Link, Known
<1>1. ASSUME \A d \in Conns : conn'[d].at <= market,
             UNCHANGED <<market, polled, primary, rows, notified, rest, load>>
      PROVE  Known'
  BY <1>1 DEF Known, Past
<1>2. CASE Connect(c)
  <2> DEFINE r == [conn[c] EXCEPT !.link = "up", !.at = 2 * LatestClosed, !.pc = "idle"]
  <2>1. r.at = 2 * LatestClosed
    BY <1>0 DEF Link
  <2>2. r.at <= market
    BY <1>0, <2>1, ClosedIsPast DEF Past
  <2>3. conn' = [conn EXCEPT ![c] = r]
    BY <1>2 DEF Connect
  <2> HIDE DEF r
  <2> QED BY <1>1, <1>2, <2>2, <2>3, BehindMarket DEF Connect, env, main
<1>3. CASE ConnectFails(c)
  <2>1. \A d \in Conns : conn'[d].at = conn[d].at
    BY <1>3 DEF ConnectFails, Inv, Ordered, Link
  <2> QED BY <1>1, <1>3, <2>1 DEF ConnectFails, env, main, Known
<1>4. CASE AddKline(c)
  <2>1. UNCHANGED <<market, polled, primary, notified, rest, load>> /\ rows' = Put(rows, Kline(conn[c].at))
    BY <1>4 DEF AddKline, env, main
  <2>2. \A d \in Conns : conn'[d].at = conn[d].at
    <3>1. PICK p : conn' = [conn EXCEPT ![c] = [conn[c] EXCEPT !.pc = p, !.lead = FALSE]]
      BY <1>4 DEF AddKline
    <3>2. [conn[c] EXCEPT !.pc = p, !.lead = FALSE].at = conn[c].at
      BY <1>0 DEF Link
    <3> QED BY <3>1, <3>2 DEF Inv, Ordered
  <2>3. rows' \in Seq(Klines) /\ \A j \in DOMAIN rows' : rows'[j].closed => Past(rows'[j].n)
    BY <1>0, <2>1, EventIsCandle, PutKnown
  <2> QED BY <2>1, <2>2, <2>3 DEF Known, Past
<1>5. CASE Notify(c)
  <2>1. UNCHANGED <<market, polled, primary, rows, rest, load>>
    BY <1>5 DEF Notify, env, main
  <2>2. notified' \subseteq Candles
    BY <1>0, <1>5, EventIsCandle DEF Notify, Report, Known
  <2>3. \A d \in Conns : conn'[d].at <= market
    <3>1. CASE conn' = [conn EXCEPT ![c] = [conn[c] EXCEPT !.pc = "retry", !.at = 0]]
      <4> DEFINE r == [conn[c] EXCEPT !.pc = "retry", !.at = 0]
      <4>1. r.at <= market
        BY <1>0 DEF Link
      <4>2. conn' = [conn EXCEPT ![c] = r]
        BY <3>1
      <4> HIDE DEF r
      <4> QED BY <4>1, <4>2, BehindMarket
    <3>2. CASE conn' = [conn EXCEPT ![c].pc = "idle"]
      BY <3>2 DEF Inv, Ordered, Link, Known
    <3> QED BY <1>5, <3>1, <3>2 DEF Notify
  <2> QED BY <2>1, <2>2, <2>3 DEF Known, Past
<1>6. CASE Switch(c)
  <2>1. UNCHANGED <<market, polled, rows, notified, rest, load>>
    BY <1>6 DEF Switch, env, main
  <2>2. \A d \in Conns : conn'[d].at = conn[d].at
    BY <1>6 DEF Switch, Inv, Ordered, Link
  <2>3. primary' \in Conns
    BY <1>6, StandbyIsConn DEF Switch, Known
  <2> QED BY <2>1, <2>2, <2>3 DEF Known, Past
<1>7. CASE Replay(c)
  <2>1. CASE conn' = [conn EXCEPT ![c].pc = "retry"]
    <3>1. \A d \in Conns : conn'[d].at = conn[d].at
      BY <2>1 DEF Inv, Ordered, Link
    <3> QED BY <1>1, <1>7, <3>1 DEF Replay, env, main, Known
  <2>2. ASSUME NEW n \in Missed,
               conn' = [conn EXCEPT ![c] = [conn[c] EXCEPT !.pc = "notify", !.at = 2 * n]]
        PROVE  Known'
    <3>1. 2 * n <= market
      <4>1. PICK i \in DOMAIN rows : rows[i] = [n |-> n, closed |-> TRUE]
        BY DEF Missed, Has
      <4>2. rows[i].closed /\ rows[i].n = n
        BY <4>1
      <4> QED BY <4>2 DEF Known, Past
    <3>2. [conn[c] EXCEPT !.pc = "notify", !.at = 2 * n].at = 2 * n
      BY <1>0 DEF Link
    <3>3. \A d \in Conns : conn'[d].at <= market
      BY <2>2, <3>1, <3>2, BehindMarket
    <3> QED BY <1>1, <1>7, <3>3 DEF Replay, env, main
  <2> QED BY <1>7, <2>1, <2>2 DEF Replay
<1>8. CASE Receive(c)
  <2> DEFINE r == [conn[c] EXCEPT !.at = conn[c].at + 1, !.pc = "add", !.lead = (c = primary), !.heard = TRUE]
  <2>1. conn' = [conn EXCEPT ![c] = r]
    BY <1>8, Zenon DEF Receive
  <2>2. r.at = conn[c].at + 1
    BY <1>0 DEF Link
  <2>3. r.at <= market
    BY <1>0, <1>8, <2>2 DEF Receive
  <2> HIDE DEF r
  <2>4. \A d \in Conns : conn'[d].at <= market
    BY <2>1, <2>3, BehindMarket
  <2> QED BY <1>1, <1>8, <2>4 DEF Receive, env, main
<1>9. CASE Hang(c) \/ Close(c)
  <2>1. PICK r : conn' = [conn EXCEPT ![c] = r] /\ r.at = 0
    <3>1. CASE Hang(c)
      <4>1. PICK h : conn' = [conn EXCEPT ![c] = [conn[c] EXCEPT !.link = "silent", !.at = 0, !.heard = h]]
        BY <3>1 DEF Hang
      <4>2. [conn[c] EXCEPT !.link = "silent", !.at = 0, !.heard = h].at = 0
        BY <1>0 DEF Link
      <4> QED BY <4>1, <4>2
    <3>2. CASE Close(c)
      <4>1. conn' = [conn EXCEPT ![c] = [conn[c] EXCEPT !.link = "down", !.at = 0, !.pc = "switch"]]
        BY <3>2 DEF Close
      <4>2. [conn[c] EXCEPT !.link = "down", !.at = 0, !.pc = "switch"].at = 0
        BY <1>0 DEF Link
      <4> QED BY <4>1, <4>2
    <3> QED BY <1>9, <3>1, <3>2
  <2>2. r.at <= market
    BY <1>0, <2>1 DEF Inv, Books
  <2>3. \A d \in Conns : conn'[d].at <= market
    BY <2>1, <2>2, BehindMarket
  <2> QED BY <1>1, <1>9, <2>3 DEF Hang, Close, env, main
<1> QED BY <1>2, <1>3, <1>4, <1>5, <1>6, <1>7, <1>8, <1>9 DEF Thread

LEMMA KnownStep == Inv /\ Known /\ [Next]_vars => Known'
<1> SUFFICES ASSUME Inv, Known, [Next]_vars PROVE Known'
  OBVIOUS
<1>0. /\ market \in 1..MaxEvents /\ market \in Nat /\ rest.n \in Nat
      /\ load.next \in Nat /\ load.forming \in Nat
  <2>1. market \in 1..MaxEvents /\ market \in Nat
    BY FeedAssumption DEF Inv, Books
  <2>2. load.next \in Nat /\ load.forming \in Nat
    BY DEF Inv, Books
  <2>3. rest.n \in Nat
    BY ZeroIsCandle DEF Inv, Books
  <2> QED BY <2>1, <2>2, <2>3
<1>1. CASE Trade
  <2>1. market' = market + 1 /\ UNCHANGED <<conn, rows, load, rest, notified, primary>>
    BY <1>1 DEF Trade, main
  <2>2. \A n \in Nat : Past(n) => 2 * n <= market'
    BY <1>0, <2>1 DEF Past
  <2>3. \A c \in Conns : conn[c].at \in Nat
    BY DEF Inv, Ordered, Link
  <2>4. \A i \in DOMAIN rows : rows[i].n \in Nat
    <3>1. rows \in [1..Len(rows) -> Row] /\ DOMAIN rows = 1..Len(rows)
      BY LenProperties DEF Inv, Ordered
    <3> QED BY <3>1 DEF Row
  <2>5. polled' \in BOOLEAN
    BY <1>1, Zenon DEF Trade
  <2> QED BY <1>0, <2>1, <2>2, <2>3, <2>4, <2>5 DEF Known, Past
<1>2. CASE Fetch
  <2>1. UNCHANGED <<market, polled, primary, conn, rows, notified, rest>>
    BY <1>2 DEF Fetch, env
  <2>2. /\ load'.forming \in Candles /\ load'.next <= load'.forming
        /\ \A n \in Nat : n < load'.forming => Past(n)
    BY <1>0, <1>2, ClosedIsPast, LastIsCandle, ZeroIsCandle DEF Fetch
  <2> QED BY <2>1, <2>2 DEF Known, Past
<1>3. CASE AddRow
  <2> DEFINE k == [n |-> load.next, closed |-> ~(load.next = load.forming)]
  <2>1. UNCHANGED <<market, polled, primary, conn, notified, rest>> /\ rows' = Put(rows, k)
    BY <1>3 DEF AddRow, env
  <2>2. k \in Klines /\ (k.closed => Past(k.n))
    <3>1. load.next = load.forming \/ (load.next < load.forming /\ Past(load.next))
      BY <1>0, ZeroIsCandle DEF Known
    <3>2. load.next \in Candles
      BY <1>0, <3>1, PastIsCandle DEF Known
    <3> QED BY <3>1, <3>2, Zenon DEF Klines
  <2>3. rows' \in Seq(Klines) /\ \A j \in DOMAIN rows' : rows'[j].closed => Past(rows'[j].n)
    <3> HIDE DEF k
    <3> QED BY <2>1, <2>2, PutKnown
  <2>4. /\ load'.forming \in Candles /\ load'.next <= load'.forming
        /\ \A n \in Nat : n < load'.forming => Past(n)
    <3>1. CASE load.next = load.forming
      BY <1>3, <3>1, ZeroIsCandle DEF AddRow
    <3>2. CASE load.next # load.forming
      <4>1. load' = [load EXCEPT !.next = load.next + 1]
        BY <1>3, <3>2 DEF AddRow
      <4>2. load'.forming = load.forming /\ load'.next = load.next + 1
        BY <4>1 DEF Inv, Books
      <4> QED BY <1>0, <3>2, <4>2, ZeroIsCandle DEF Known
    <3> QED BY <3>1, <3>2
  <2> QED BY <2>1, <2>3, <2>4 DEF Known, Past
<1>4. CASE ForceSwitch
  <2>1. UNCHANGED <<market, polled, primary, rows, notified, rest, load>>
    BY <1>4 DEF ForceSwitch, env, main
  <2>2. \A c \in Conns : conn'[c].at = conn[c].at
    BY <1>4 DEF ForceSwitch, Inv, Ordered, Link
  <2> QED BY <2>1, <2>2 DEF Known, Past
<1>5. CASE Poll
  <2>1. UNCHANGED <<market, primary, conn, rows, notified, load>>
    BY <1>5 DEF Poll
  <2>2. Past(rest'.n)
    BY <1>0, <1>5, ClosedIsPast DEF Poll, Idle, Past
  <2>3. polled' \in BOOLEAN
    BY <1>5, Zenon DEF Poll
  <2> QED BY <2>1, <2>2, <2>3 DEF Known, Past
<1>6. CASE Claim
  <2>1. UNCHANGED <<market, polled, primary, conn, rows, load>>
    BY <1>6 DEF Claim, env
  <2>2. rest.n \in Candles /\ notified' \subseteq Candles
    BY <1>6 DEF Claim, Inv, Books, Known
  <2>3. Past(rest'.n)
    BY <1>0, <1>6 DEF Claim, Idle, Past, Known, Inv, Books
  <2> QED BY <2>1, <2>2, <2>3 DEF Known, Past
<1>7. CASE Deliver
  <2>1. UNCHANGED <<market, polled, primary, conn, notified, load>> /\ rest' = Idle
    BY <1>7 DEF Deliver, env
  <2>2. [n |-> rest.n, closed |-> TRUE] \in Klines
    BY Zenon DEF Inv, Books, Klines
  <2>3. rows' = Put(rows, [n |-> rest.n, closed |-> TRUE])
    BY <1>7 DEF Deliver
  <2>4. rows' \in Seq(Klines) /\ \A j \in DOMAIN rows' : rows'[j].closed => Past(rows'[j].n)
    BY <2>2, <2>3, PutKnown DEF Known
  <2> QED BY <1>0, <2>1, <2>4 DEF Known, Past, Idle
<1>8. ASSUME NEW c \in Conns, Thread(c) \/ Receive(c) \/ Hang(c) \/ Close(c)
      PROVE  Known'
  BY <1>0, <1>8, ConnectionKnown
<1>9. CASE UNCHANGED vars
  BY <1>9 DEF vars, Known, Past
<1> QED BY <1>1, <1>2, <1>3, <1>4, <1>5, <1>6, <1>7, <1>8, <1>9 DEF Next

(* Every reachable state of feed, buffer and marks is type correct, and no   *)
(* thread is ahead of the exchange, for any number of connections.           *)
THEOREM FeedTyped == Spec => []TypeOK
<1>1. Inv /\ Known => TypeOK
  BY FeedAssumption DEF Inv, Books, Ordered, Link, Known, TypeOK
<1> QED BY InitInv, StepInv, InitKnown, KnownStep, <1>1, PTL DEF Spec

-----------------------------------------------------------------------------
(* No closure is lost between the threads.  A candle that is marked has been *)
(* called, or the REST poll marked it and calls it with its next step.       *)
Delivering(n) == rest.pc = "deliver" /\ rest.n = n
Reported == \A n \in notified : called[n] > 0 \/ Delivering(n)
Answered == polled => LatestClosed \in notified \/ (rest.pc = "claim" /\ rest.n = LatestClosed)

LEMMA ReportReports ==
  ASSUME Books, Reported, notified \subseteq Candles, NEW n \in Candles, Report(n), UNCHANGED rest
  PROVE  Reported'
<1>1. called'[n] > 0 \/ Delivering(n)'
  <2>1. CASE n \in notified
    BY <2>1 DEF Report, Reported, Delivering
  <2>2. CASE n \notin notified
    BY <2>2 DEF Report, Books
  <2> QED BY <2>1, <2>2
<1>2. ASSUME NEW m \in notified, m # n PROVE called'[m] > 0 \/ Delivering(m)'
  BY <1>2 DEF Report, Reported, Delivering, Books
<1> QED BY <1>1, <1>2 DEF Report, Reported

LEMMA ReportStep == Inv /\ Known /\ Reported /\ Answered /\ [Next]_vars => Reported' /\ Answered'
<1> SUFFICES ASSUME Inv, Known, Reported, Answered, [Next]_vars PROVE Reported' /\ Answered'
  OBVIOUS
<1>0. /\ notified \subseteq Candles /\ rest.n \in Candles /\ LatestClosed \in Candles
      /\ rest \in [pc : {"idle", "claim", "deliver"}, n : Candles]
      /\ called \in [Candles -> Nat] /\ rest.pc \in {"idle", "claim", "deliver"}
  BY LastIsCandle DEF Inv, Books, Known
<1>1. CASE UNCHANGED <<market, polled, notified, rest, called>>
  BY <1>1 DEF Reported, Answered, Delivering, LatestClosed
<1>2. CASE Trade
  <2>1. ~polled' /\ UNCHANGED <<notified, rest, called>>
    BY <1>2, Zenon DEF Trade, main
  <2> QED BY <2>1 DEF Reported, Answered, Delivering
<1>3. ASSUME NEW c \in Conns, Notify(c) PROVE Reported' /\ Answered'
  <2>1. /\ UNCHANGED <<market, polled, rest>> /\ Report(CandleOf(conn[c].at))
        /\ notified \subseteq notified'
    BY <1>3 DEF Notify, env, main, Report
  <2>2. CandleOf(conn[c].at) \in Candles
    BY EventIsCandle DEF Inv, Books, Ordered, Link, Known
  <2>3. Reported'
    BY <1>0, <2>1, <2>2, ReportReports DEF Inv
  <2> QED BY <2>1, <2>3 DEF Answered, LatestClosed
<1>4. CASE Poll
  <2>1. /\ rest.pc = "idle" /\ UNCHANGED <<market, notified, called>>
        /\ rest' = [pc |-> "claim", n |-> LatestClosed]
    <3>1. LatestClosed \in Nat
      BY LastIsCandle DEF Inv, Books
    <3> QED BY <1>4, <3>1 DEF Poll, Recent
  <2>2. Reported'
    BY <2>1 DEF Reported, Delivering
  <2> QED BY <2>1, <2>2 DEF Answered, LatestClosed
<1>5. CASE Claim
  <2>1. /\ rest.pc = "claim" /\ UNCHANGED <<market, polled, called>>
        /\ notified' = notified \union {rest.n}
        /\ rest' = IF rest.n \in notified THEN Idle ELSE [rest EXCEPT !.pc = "deliver"]
    BY <1>5 DEF Claim, env
  <2>2. \A n \in notified : called[n] > 0
    BY <2>1 DEF Reported, Delivering
  <2>3. CASE rest.n \in notified
    BY <2>1, <2>2, <2>3 DEF Reported, Answered, LatestClosed
  <2>4. CASE rest.n \notin notified
    <3>1. rest'.pc = "deliver" /\ rest'.n = rest.n
      BY <1>0, <2>1, <2>4
    <3> QED BY <2>1, <2>2, <3>1 DEF Reported, Delivering, Answered, LatestClosed
  <2> QED BY <2>3, <2>4
<1>6. CASE Deliver
  <2>1. /\ rest.pc = "deliver" /\ UNCHANGED <<market, polled, notified>>
        /\ called' = [called EXCEPT ![rest.n] = @ + 1]
    BY <1>6 DEF Deliver, env
  <2>2. ASSUME NEW n \in notified PROVE called'[n] > 0
    BY <1>0, <2>1, <2>2 DEF Reported, Delivering
  <2> QED BY <2>1, <2>2 DEF Reported, Answered, LatestClosed
<1>7. CASE Fetch \/ AddRow \/ ForceSwitch
  BY <1>1, <1>7 DEF Fetch, AddRow, ForceSwitch, env, main
<1>8. ASSUME NEW c \in Conns, Thread(c) \/ Receive(c) \/ Hang(c) \/ Close(c) PROVE Reported' /\ Answered'
  BY <1>1, <1>3, <1>8 DEF Thread, Connect, ConnectFails, AddKline, Switch, Replay, Receive, Hang, Close, env, main
<1>9. CASE UNCHANGED vars
  BY <1>1, <1>9 DEF vars
<1> QED BY <1>2, <1>4, <1>5, <1>6, <1>7, <1>8, <1>9 DEF Next

LEMMA InitReported == Init => Reported /\ Answered
<1> SUFFICES ASSUME Init PROVE Reported /\ Answered
  OBVIOUS
<1>1. ~polled /\ notified = {}
  BY Zenon DEF Init
<1> QED BY <1>1 DEF Reported, Answered

(* Marking and calling are apart in poll_closures_from_rest, and a replay    *)
(* or a message of another thread may come in between; still no closure is   *)
(* lost: once a poll of the period has been answered, the last closed candle *)
(* has reached the strategy or the poll is about to see to it (the safety    *)
(* half of ClosureIsCalled), and any candle marked as notified has too.      *)
THEOREM NoClosureIsLost ==
  Spec => [](/\ polled => \/ called[LatestClosed] > 0
                          \/ rest.pc \in {"claim", "deliver"} /\ rest.n = LatestClosed
             /\ \A n \in notified : called[n] > 0 \/ (rest.pc = "deliver" /\ rest.n = n))
<1>1. Reported /\ Answered =>
        /\ polled => \/ called[LatestClosed] > 0
                     \/ rest.pc \in {"claim", "deliver"} /\ rest.n = LatestClosed
        /\ \A n \in notified : called[n] > 0 \/ (rest.pc = "deliver" /\ rest.n = n)
  BY DEF Reported, Answered, Delivering
<1> QED BY InitInv, StepInv, InitKnown, KnownStep, InitReported, ReportStep, <1>1, PTL DEF Spec

=============================================================================
