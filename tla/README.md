# Formal verification of sys-trader

sys-trader is a Python trading program for Binance USDT-M futures. This directory
holds TLA+ specifications of the parts of it whose correctness depends on the order
in which threads, messages and failures interleave, the TLC configurations that
check them on small instances, and TLAPS proofs of the central invariants for every
value of the constants.

## 1. Inventory

The process `shared/runner.py` (SystemRunner) assembles the trading program and runs these threads:

| thread | entry point | what it does |
|---|---|---|
| feed (one per WebSocket connection) | `market_data/feed.py` | closed candles -> strategy -> risk chain -> orders |
| main | `SystemRunner.run_forever` | every 5 s: stall and connection checks; 10 s: fill and conditional-order polls; 60 s: equity, protective check, pending timeout; 10 min: funding income |
| stream | `market_data/user_data_stream.py` | order and account pushes |
| cmd | `shared/event_bus.py` consumer | emergency_stop, resume, pause, force_exit, cancel_all, setparam |
| reconciler | `shared/reconciler.py` | compares remote and local positions every few minutes |
| funding | `shared/funding_monitor.py` | estimates funding fees when no income feed is available |

| component | state | operations | what can go wrong |
|---|---|---|---|
| OrderManager (`execution/order_manager.py`) | `_orders`: status, filled_qty, remainder_canceled of each order | submit_entry, sync_entry_fills, on_user_order_update, sync_algo_orders, place_protection, pruning | pushes, polls and cancellations of the same order overlap |
| OrderGateway (`execution/order_gateway.py`) | server time offset; no order state | signed REST calls, two layers of retries | a call takes effect and its answer is lost; a retry repeats it |
| SystemRunner registration (`shared/runner.py`) | portfolio, `_fills_lock`, `_circuit_breaker` | _register_fills, _on_protection_triggered, _force_exit_symbol, _handle_command, timeouts | check-then-act on breaker, position and order status |
| Reconciler (`shared/reconciler.py`) | none between rounds | fetch account, snapshot local, report drifts | remote data is older than the local snapshot |
| PortfolioTracker, risk chain (`portfolio/`, `risk/`) | positions, daily counters, peak equity, consecutive losses, breaker state | open, close, update_equity, chain.process | a limit that never clears, or clears too early |
| Funding (`shared/funding_monitor.py`, `_sync_funding_income`) | income cursor on disk, estimate fallback | poll, estimate, persist | an income booked twice or never |
| MarketDataFeed (`market_data/feed.py`) | primary connection, notified closures, candle buffers | failover, replay, REST back-fill | a closed candle delivered twice or never |
| UserDataStream (`market_data/user_data_stream.py`) | listen key under a lock, one socket | connect, keep alive, refresh | two threads replace the key; a socket that stays silent |
| EventBus (`shared/event_bus.py`) | streams, groups and pending entries in Redis | publish, create a group, claim, read, deliver, acknowledge | a message handled twice, late or never |
| Stall check (`shared/runner.py`, `_check_stall`) | strikes; shares `_circuit_breaker` with the commands | count, trip | a silence that trips nothing; a trip that a command undoes |
| StateStore, OpsArchive (`dashboard/`) | mirror in memory; SQLite history | replay, follow events, publish commands | events between the replay and the consumers |
| Proxy pool (`tools/proxy_pool/`) | pool file, configuration file, the core, the hash last applied | update, health check, apply, watch the core | three processes write the same files; no node is up, so none can be checked |
| Proxy watchdog (`tools/proxy_watchdog.py`) | streak, cooldown | probe, switch | it applies a pool that another process is changing |
| Heartbeat watchdog (`tools/heartbeat_watchdog.py`) | ages, counters, cooldown | probe, alert | flapping; an alert that never comes |
| Guardian (`guardian/`) | throttle | checks positions | not wired into the runner |
| PaperTrader (`shared/paper_trader.py`) | simulated orders and balance | match, fill | |
| strategies, indicators, pure helpers | none, or rolling windows | signals, rounding | numeric edges |

Three more processes exist beside the runner: the dashboard, which follows the runner's events and
publishes commands on the event bus; the proxy pool service with its scheduled task, through whose
core all traffic to the exchange goes; and the watchdogs.

How they interact: the feed thread calls the risk chain and the OrderManager by plain calls;
the four runner threads share `OrderManager._orders` (its list is guarded by a lock, the
orders in it are not), the portfolio (not guarded, except by `_fills_lock` inside
`_register_fills`) and `_circuit_breaker` (not guarded). The exchange answers calls and
pushes updates independently of each other. Redis carries commands to the runner and events from it,
each at least once. The proxy pool's processes meet in two files and in the core.

What is hard about them, in the order of importance:

* **Two truths about an order.** The exchange moves an order by itself. Pushes, polls and
  answers tell the program about it late, twice, out of order or never.
* **Calls that fail after they took effect.** Placement, cancellation and the market order of a
  forced exit may be carried out although the caller sees an error; each is retried by somebody.
* **Check-then-act.** The breaker, the portfolio and an order's status are read, a call blocks,
  and the value read is used.
* **Numbers with several writers.** Equity, peak and the counters of the day are written by the
  refresh, by closes, by fills and by the reconciler.
* **Failover.** Several connections write one buffer and one of them speaks for all.
* **Crashes.** Of the runner only the funding cursor survives one; everything else is rebuilt or
  imported. What the event bus had given out and not yet seen acknowledged is delivered again, after
  newer messages.
* **Files with several writers.** The pool and the core's configuration are read, changed and replaced
  by processes that know nothing of each other, through `.tmp` files of one name.
* **A loop that feeds on itself.** Nodes are tested through the core, and the core runs only with
  nodes that have been tested.

What makes each component correct is stated as its properties in section 3; the hazards, each at
its line, are in `PROJECT.json`.

## 2. The modules and the code

| module | models | composed with |
|---|---|---|
| `EntryOrders` | entry orders of one symbol: OrderManager and the four threads that use it | takes `EntryPlacement`'s promise as `PlaceAccepted`/`PlaceFailed`; closes of the position are one action that `Protection` details |
| `OrderPlacement` | the three retry loops of one placement, requests and answers that travel | implements `EntryPlacement` |
| `EntryPlacement` | abstract: what a placement promises to `submit_entry` | |
| `Protection` | position, SL/TP orders, forced exit, reconciler | starts where an entry is filled |
| `RiskGate` | risk chain, PortfolioTracker's numbers, protective closes, setparam | opens and closes stand for `EntryOrders` and `Protection` |
| `FundingLedger` | income flow, cursor file, estimate, crash and restart | |
| `MarketFeed` | connections, failover, replay, back-fill, REST poll, buffer | produces the signals of `EntryOrders` and `RiskGate` |
| `UserStream` | listen key and socket of the user stream | carries the pushes of `EntryOrders`, which assumes no more than that some arrive |
| `EventBus` | stream, group, one of four consumers, the stall check | delivers the commands that `EntryOrders`, `Protection` and `RiskGate` take at any time |
| `ProxyPool` | pool and configuration files, the core, three processes | its failures are the lost and late calls of all the others |

`MC...` modules hold the instances for TLC, `...Proof` the proofs.

**Grain.** An action is the straight-line code between two points where a thread can be held up:
a call to the exchange, a lock, a database or Redis write, a file. A call takes effect on the exchange
in one action and its answer is used in a later one. The GIL makes single reads and writes of
attributes atomic; code between two blocking points could in principle be preempted as well, and
where that matters (the two halves of `Register`/`Update` in `EntryOrders`; reading the old chain, publishing the
new one and copying state and time into it in `RiskGate`; `Receive`/`AddKline`/`Notify` in `MarketFeed`) it is split although
nothing blocks there.

### EntryOrders

`x` is the exchange's order, `wire` the user stream, `l` the order list, `pos` the quantity in
PortfolioTracker, `cover` what SL/TP pairs were placed for, `th` the program counter and local
variables of each thread. `reg`, `abandoned` and `direct` are history.

`CancelCall` is one DELETE with its retries, and its status as `_status_or_fail` derives it: an answer with any
error code is REJECTED. Usually it says that there is no such order. After a fault it may instead refuse the
request itself, which leaves the order live: a retry is signed over the signature that the shared `params` still hold
(-1022), or the last retry ends with -1021 or 429. `abandoned` notes the orders that are left behind so, next to those
of a failed placement and of `cancel_all`.

| actions | code |
|---|---|
| `Signal`, `PlaceAccepted`, `PlaceFailed`, `FeedAppend`, `FeedCheck`, `FeedProtect`, `FeedOpen` | `_execute_signal`, `execute_signal`, `submit_entry` |
| `PollStart`, `PollQuery`, `PollApply`, `PollDone` | `_sync_entry_fills`, `sync_entry_fills` |
| `Push` | `on_user_order_update` |
| `Register`, `Update`, `ProtectFill` | `_register_fills`, under `_fills_lock` |
| `Remainder`, `RemainderAnswer` with `CancelCall` | `_maybe_cancel_remainder`, `cancel_order`, `_status_or_fail` |
| `PendingTimeout`, `Cancel`, `CancelAnswer` | `_check_pending_timeouts`, `_cancel_one_order` |
| `EmergencyStop`, `StopNext`, `Resume`, `Pause`, `CancelAll`, `BulkCancel`, `BulkReturn`, `BulkMark` | `_handle_command` |

### OrderPlacement

`try` counts the tries of `_place_with_retry`, of the `retrier` around `_request`, and of the loop
inside it. `req` is the request the client waits for, `stray` those that still travel though nobody
waits. A tick is five seconds: `recvWindow` 15 s is 3 ticks and the HTTP timeout, which the code
puts 5 s above it, 4. `signed` is the signature that stays in the shared `params`. `WindowLeft` is what
remains of `recvWindow` when the request is stamped with a clock that `_sync_server_time` left `Skew` off;
`Found` is the answer of `query_order_by_client_id`. That the exchange accepts an id only once is in `Process`, the
exchange's part, and that all tries carry one id is in `IdOf`; neither is a property of the model.

### Protection

`held` and `xa` are the exchange's position and SL/TP orders, `ghosts` orders accepted in a try
whose answer was lost (they have no client id); `pos` and `la` are what the program believes.
`Outcome` is one try of `place_algo_order`, `LostTries` what the tries of `_place_algo_with_retry` before it
left behind. `Open` is `open_position` of the feed thread, or, for a fill that is registered late, `_register_fills`: a
position that exists by then is raised to what the entry has filled, and what it lacked is protected. `Reduces` takes
each reduce-only order for one of all lots of an entry; the order for what a position lacked is smaller in the code, so
there it may leave a rest where the model leaves none. `CancelNext`/`CancelAnswer` is one `_cancel_one_order`, its
`CancelCall` as in `EntryOrders`; `After` is what `_on_protection_triggered`,
`_force_exit_symbol` and `_on_reconcile_drift` do when it was the last one.

### RiskGate

`tr` is PortfolioTracker, `breaker` the DrawdownBreaker of the installed chain, `main`, `cmd` and
`feed` the threads. One position a symbol, all with the same margin, each closed with a gain or a
loss of one unit; ratios are in percent and the parameters of the runs are scaled to that.
A close booked by the trigger poll or the reconciler may book any result, because it takes the last
price and not that of the execution. There is one feed thread (signals of one symbol are
sequential in the code too). `_apply_param` is four steps: `SetParam` reads the state of the old breaker, `Publish` assigns
the new chain with its fresh breaker, `CopyState` and `CopyTime` copy the two attributes. The pass of a signal through the breaker is
one step, because it holds no call that waits: a signal meets the chain in one of these states. Rejections that depend on the signal alone are left out.
A tick is about a minute.

### FundingLedger

Fees are numbered in the order of their `tranId`, so the cursor is a number; `NoCursor` stands for
`None` and for a file that holds none. `Write` and `Dump` are the two steps of
`_write_funding_state`: opening the file empties it. A crash may come between any two actions and
the books start empty after it.

### MarketFeed

One series; event 2n-1 of the stream forms candle n, event 2n closes it. `conn[c].pc` is where the
thread of connection `c` is, `rows` the KlineBuffer, `notified` the set under the feed's lock,
`called` counts the calls of `on_kline_closed`. `load` is `backfill`, `rest` the REST poll, both
of the main thread. The poll of the code repeats every minute; after the first answer of a
period its candle is reported, so the model has one answered poll a period, and none when
every poll fails. `heard` says that the connection had a message (`last_msg_ts` > 0): a link may fall silent
before its first one (`Hang`), and how long such a link has been silent is not known (`KnownSilent`).

### UserStream

`listenKey` is `_listen_key`, `stream` and `keeper` are where the two threads are, `seen` the key that
the keep-alive thread read before its request. `_ensure_listen_key` keeps the lock over its request, so
it is one action; `_refresh_listen_key` takes the lock twice, so it is two (`StreamForgets`,
`StreamCreates`; `KeeperForgets`, `KeeperCreates`). Time is counted in the 30 minutes of the keep-alive: a
key is extended to 60 minutes, may see two rounds and expires before the third. The exchange answers a
request for a key with a new one or with one that lives, and tells a socket when its key expires.

### EventBus

A behaviour has one consumer, `who`, drawn at the start: the runner's command thread, one of
OpsArchive's (commands, closed positions), or the dashboard's StateStore. Redis keeps the groups apart and no handler
publishes, so they do not meet. The runner's sender is the dashboard, the dashboard's is the runner.

| actions | code |
|---|---|
| `Publish` | `EventBus.publish` |
| `Boot`, `Replay`, `Crash` | start of the process with `StateStore` replaying the stream; its end |
| `Create`, `Claim`, `Read` | the loop of `run_consumer`: group at `$`, XAUTOCLAIM, XREADGROUP |
| `Handle`, `Ack` | `_deliver`: the handler, a second call if it raises, XACK |
| `Command`, `Mirror`, `CommandRows`, `TradeRows` | the four handlers |
| `FeedChanges`, `CheckStall` | the age of the last price, `_check_stall` |

`group.idle` holds the pending messages that are old enough to be claimed. `left`, `failed`, `first`,
`base` and `replayed` are history: they say which messages a crash or a failed acknowledgement left over,
which rows could not be inserted, and where group, process and replay began.

### ProxyPool

The processes run scripts (`Update`, `Check`, `First`, `All`, `Switch`) of the same steps, one action a step,
but two for a file that is written: opening `FILE.tmp` and renaming it. `tmp[f]` says who has the
temporary file open and which texts went into it; a file with the text of two writers cannot be read
(`Nothing`). `node` says of each node whether its server answers and whether it lets traffic
through to the exchange; `healthy`, `fails` and `ok` are the marks in the pool. A configuration is the set of
proxies, the group for the exchange, and all the names that its groups mention: the core refuses one that
names a proxy it does not have. `StartCore` is one action, though `start_core` waits for the core for up to 15 s and two
processes may both find it stopped: `start_core` kills every core before it starts its own, so the later one replaces the
earlier by a core that reads the same file, at the price of a restart that the model does not show.

## 3. The runs

| run | asks | instance |
|---|---|---|
| `entry_safe` | Does the order list ever run ahead of the exchange (`LocalNeverAhead`), is an order given up while live (`GivenUpIsDead`), is a position registered that was not executed (`RegisteredIsExecuted`), a lot protected twice (`CoverWithinPosition`)? | one order of 2 lots, cancel policy, pushes, 1 fault, 1 command, 1 closure; 2.89 million states |
| `entry_live` | Are ends noticed, filled lots registered, pending orders resolved (`EndIsNoticed`, `FilledIsRegistered`, `PendingIsResolved`)? | one order of 2 lots, wait policy, pushes, 1 fault |
| `place` | Is the order found again after a duplicate answer (`DuplicateIsRecovered`), does `submit_entry` implement `EntryPlacement` (`KeepsPromise`), and end (`Ends`)? | the three loops at depth 3, 2 broken connections, 3 lost answers |
| `place_rejected` | *violated*: `RejectedIsNotPlaced` | loops at depth 2, 1 lost answer |
| `protect` | Is an open SL/TP order forgotten (`SettledIsNotOpen`), does one outlive its position (`OrphansEnd`), do local and remote quantity agree in the end (`Converges`)? | one entry of 2 lots, 1 fault, 1 command or forced exit; 0.92 million states |
| `risk_safe` | Does anything pass the breaker before its cooldown is over (`CooldownHolds`)? | one entry, a fee, cooldown of 2; 3.17 million states |
| `risk_live` | Does the equity follow the account (`EquityFollows`), and is a margin above the threshold cut (`MarginIsCut`)? | one entry, waiting time of 2, threshold 60 % of a configurable one |
| `funding` | Is a fee booked twice (`BookedOnce`), by two sources (`OneSource`), skipped by the file (`FileIsSafe`), or never settled (`EveryFeeSettled`)? | 3 fees, 3 faults, 2 crashes |
| `feed` | Is a candle reported twice (`CalledOnce`) or never (`ClosureIsCalled`), does the buffer lose its order (`RowsAscend`), does a good connection become the primary (`PrimaryReturns`)? | two connections, three events, that is one full candle; 182 thousand states |
| `userstream` | Has the key that is held always a round to live (`TypeOK`), and do the pushes come back after failures (`PushesReturn`)? | four keys, 3 failed requests or broken connections; 63 thousand states |
| `bus` | Is every message dealt with (`Settled`), does the consumer hold what the last one says (`Current`), does a silent feed stop the trading (`StallStops`)? | 3 messages, taken two at a time, 2 faults, two strikes; 1.02 million states |
| `proxy` | Does the core serve again whenever a node does (`Recovers`), and is it never left with an old configuration (`NeverStuck`)? Do the marks agree with the last check (`TypeOK`)? | two nodes of one source, given up after one failure, 2 events; 230 thousand states |

**Why the bounds are enough.** Orders of one symbol meet only in `pos` and in the guard of `Signal`, so
one order with all four threads shows the races of its status, and the safety properties of `EntryOrders`
and `Protection` are proved for any number of orders, entries, lots, faults and commands. Two lots
are the least with a partial fill and an increment. One fault in `EntryOrders` and `Protection`
lets each call fail in each place, and what follows a failure is a repetition from a state that the run
reaches. `OrderPlacement` has the depths of the code. In `RiskGate` a second entry would only add
to the same counters; the breaker's invariant is proved for all values. `FundingLedger` needs two
crashes for the case "torn file, then a crash before it is mended". In `MarketFeed` three events are one candle forming, closed, and the
next one forming, which is all that `Recent` tells apart; the safety properties are proved for any number of connections
and events. Four keys in `UserStream` are the socket's, the one read for the keep-alive, the one held and
a new one, so a key is never reused while somebody knows it. In `EventBus` three messages are one more than a
batch, and are enough for one that is left over, one that overtakes it, and one after both; two faults are a crash in a delivery
and another one in the redelivery. In `ProxyPool` two nodes are one that works and one that hides it, two events let
two processes meet in one file, or a fault come into the repair of another.
`MaxMessages`, `MaxFaults`, `MaxCommands`, `MaxCloses`, `MaxResets`, `MaxEntries`, `MaxFees`,
`MaxCrashes` and `MaxEvents` are the only bounds, and each is a guard of the model.

`CHECK_DEADLOCK FALSE` stands in the runs of `OrderPlacement` only: the placement of one order is
over when its outcome is recorded.

**Fairness.**

* Every thread of the process keeps running, so the actions within a handler are weakly fair. HTTP calls
  have a timeout, `_fills_lock` is released by every path, a socket attempt ends by `http_proxy_timeout`.
* `PendingTimeout` (`EntryOrders`, `Protection`, `RiskGate`) is strongly fair: the main loop
  interleaves it with the polls, each of which makes the thread busy, and reaches it every 60 s.
* `RiskGate` assumes that `get_account` and a protective market order do not fail for ever (SF on `Fetch`
  and on a `MainSell` that sells); otherwise neither property could hold for any program.
* `MarketFeed`: `ForceSwitch` is strongly fair, since the main loop checks the connections every
  5 s and a silent primary is enabled until it is closed.
* `FundingLedger`: the poll repeats every 10 min and a crashed process is restarted (Docker and
  pm2 restart policies). `PollFails` is bounded, not unfair.
* `UserStream`: both threads run and time passes.
* `EventBus`: pm2 restarts what crashed, the consumer and the main loop go on, time passes.
* `ProxyPool`: a process goes on with its script, and each of the service's two periods falls due again and
  again (SF, because the service is busy with its script in between). Runs of the task and the failover are
  bounded, not fair.
* Nothing is assumed of messages, subscriptions, signals, commands, fills, prices, breaking links and failing calls.

## 4. What is proved

All theorems hold for every value of the constants that the named assumptions allow. tlapm
checks each step; the assumptions are only typing of parameters, and `SkewAssumption`
(the clock error left by the time synchronisation is at most what the HTTP timeout adds to
`recvWindow`), which the run `place` also evaluates.

* **`EntryOrdersProof`** `TypeCorrect`: `TypeOK`. It is not inductive: the fields
  of a thread's record must fit its program counter (`Fits`: a thread that registers has an order at hand).
* **`EntryOrdersProof`** `NeverAhead`, `GivenUpAreDead`, `RegisteredAreExecuted`. One idea carries the
  three: whatever a thread, a push or the list says of an order lies in the order's `Past`, and the
  past only grows, because executed lots only increase and FILLED and CANCELED are final
  on the exchange. What an answer to a cancellation says is true only as far as it is about the order: `GivenUpAreDead`
  and the invariant behind it (`Answered`) except the refusals that are about the request, by `abandoned`. `SafeInv` says
  so of the wire (`WireOK`), the list (`LocalOK`), and the locals of every
  thread at every program counter (`Fine`); that is what makes late and reordered information harmless.
* **`EntryOrdersProof`** `CoverStaysWithin`: `CoverWithinPosition`. `Holds`: only the holder of `_fills_lock` is in the
  middle of a registration (`Growing`), so the position it has read is still the position when it writes, and
  cover plus the lots it is about to protect are within the position. All other steps are `Calm`: they
  put no thread into a registration and touch neither position nor cover.
* **`EntryOrdersProof`** `ToldIsExecuted` and `OneRegisters`, which no run states: the portfolio is told of no order more
  lots than were executed of that very order (`RegisteredIsExecuted` speaks of some order), because what is told
  lies in the order's past and `ExecutedStays`: no step takes an execution back; and `_fills_lock` excludes
  (`Holds`), though a registration is three actions.
* **`EntryOrdersProof`** `LockIsLet`: who has `_fills_lock` is at `register`, `update` or `protectFill` with fills left to deal
  with (`Let`), so its next step waits for nobody. The proof says for every action where a thread that has confirmed fills
  may be (`Carries`).
* **`EntryOrdersProof`** `NoFillForgotten`, the safety half of `FilledIsRegistered`. For each order, its executed lots
  are with the feed thread that placed it, confirmed by a thread that carries them to a registration, or told to the portfolio
  (`Accounted`). A thread that has confirmed an old quantity is no loss: a
  registration reads the list anew, and whoever raises the quantity in the list carries the order as well
  (`LearnCarries`, `MoreIsCarried`). Two hypotheses are needed, and the code is the reason of both. The order is not given up:
  a cancellation that raced a fill hides it. Nothing closes the position: a close resets what the portfolio was told.
* **`OrderPlacementProof`** `PlacementTyped`, `PromiseKept`, `DuplicatesAreRecovered`. `Windows` is the heart: the
  remaining window of the request plus the time waited never exceeds the timeout, so a request whose client timed out is no
  longer acceptable; with `Outcome` (the recorded state agrees with the exchange) each step maps to a step of
  `EntryPlacement` or to a stutter. It also carries the recovery (`Truthful`): unless a connection breaks, nothing
  is accepted behind the client's back, so an answer that refuses the order, or a query that finds none, stays true.
* **`ProtectionProof`** `ProtectionTyped`, `SettledAreNotOpen`. `Placed` and `Places`: an SL/TP order is placed once,
  for an entry that has been filled; so an order that a thread has at hand (`Knows`) can never become open
  again, and an answer or list that arrives late is still true of it. `OpenIsPending` is the other direction: what is open is
  PENDING in the list, and so polled and timed out in the end, unless `cancel_all` failed on it or its cancellation was
  refused with an error code (`abandoned`). An order not
  yet placed is untouched (`Untouched`).
* **`RiskGateProof`** `Typed` and `CooldownKept`. `Kept`: the installed breaker, and the state that setparam has at hand while
  the installed one still lacks it, cool down at least as long as the last trip demands, unless setparam has lost the cooldown (`seen.raced`). A signal that
  meets the fresh breaker passes, and leaves the state that is still to be copied as it is (`AdmitKeeps`).
* **`FundingLedgerProof`** `LedgerTyped`, `BookedOnceHolds`, `OneSourceHolds`, `FileIsSafeHolds`. `Safe`: each cursor, in memory
  or on disk, has all fees up to it settled; `Books`: nothing above the cursor in memory was booked in this life.
  Two more that no run states: `CursorIsSafe`, and `BooksAreARun`: what a life has booked is one run of fees, from where it set
  out to its cursor. `BookedOnce` alone would allow gaps, and `Gapless` follows a batch through the write of its cursor.
* **`MarketFeedProof`** `FeedTyped`, `CalledOnceHolds`, `RowsAscendHolds`. `Known`: nothing that a connection, the history, a
  row or the REST poll holds is ahead of the market. `Marked`: a candle is called only when it is in
  `notified`, with at most the REST poll's one call outstanding; `Ordered` rests on the lemma `PutKeepsOrder` about
  `KlineBuffer.add`. `NoClosureIsLost` is the safety half of `ClosureIsCalled`: `notified` and the
  call are apart in `poll_closures_from_rest`, but a mark without a call is the poll's own, which is delivering it (`Reported`), and
  a poll that has been answered leaves the latest closed candle called, or at hand (`Answered`).
* **`EventBusProof`** `BusTyped`, `CurrentHolds`, `NoneDropped`. `Current` speaks of moments in which all is quiet; what carries it
  there is `InOrder` and `Follows`. `InOrder`: what is pending and not at hand was left over by a crash or a failed XACK,
  and what is at hand and was not left over is newer than the start of the process and is delivered in order. `Follows`: as
  long as only the last message was ever left over (`Clean`), the state follows from the latest message that this life of the
  process was told (`Latest`), or else from the replay. `Archived`: what an archive was given is in it, failed, or
  pending. `NoneDropped`, which no run states, is the safe half of `Settled`: a message leaves the pending list only
  after it was handled or found malformed (`Accounted`); `TakeNext` says what a batch is.
* **`UserStreamProof`** `KeyIsKept`: the key that is held has more than a round to live. `KeptInTime`
  makes it inductive: while the keep-alive thread waits or creates a key, the held one is fresh; while it
  extends a key, the held one is that key or a fresh one of the stream thread. `UpSocketIsServed`, the safety half of
  `PushesReturn`: a socket that is up has a live key, or none; `Opening` follows the key from `ws_url` to the connection.

Only model-checked: everything under fairness, since liveness and `ENABLED` are beyond the prover. Of what the runs check there,
the theorems `NoFillForgotten`, `NoClosureIsLost`, `OpenIsPending`, `NoneDropped`, `LockIsLet` and `UpSocketIsServed` state
safety halves: what is still owed is never lost from sight. That it is then dealt with is left to the runs. `TypeOK` of
`ProxyPool` is the only invariant of a run that no theorem states; TLC checks it for two nodes. `EventBus` writes cases of invariants as
implications, which the provers expand more easily than `CASE`.

## 5. What the code does otherwise than it says

One statement of the repository is refuted by a run of its own, `place_rejected`: `submit_entry`
(`execution/order_manager.py:314`) says that after a lost answer the order is found. A retry inside one `place_order`
signs `params` that still hold the old signature (`execution/order_gateway.py:222`) and is refused
with -1022, which is no reason for a recovery: the order is recorded as REJECTED and lives on.

Three more are contradicted by the code, and the property that would state them excepts what the code does. Without
the exception TLC finds the counterexample in the same run:

* `shared/runner.py:1277`: after a network failure or a rate limit a cancelled order stays PENDING, the local state never
  loses touch with the exchange. That holds of a call that raises. An answer with an error code becomes REJECTED whatever
  the code is (`execution/order_gateway.py:374`), so a DELETE whose retry is refused with -1022 (the same
  stale signature), or whose last try ends with -1021 or 429, makes CANCELED of a live entry, its remainder
  (`_maybe_cancel_remainder`) or an open SL/TP order (`shared/runner.py:1286`), and nothing polls or cancels it from then on.
  `GivenUpIsDead`, `SettledIsNotOpen` and `OrphansEnd` except these orders by `abandoned`.
* `shared/runner.py:878`: a change of parameters in a cooldown opens no way round the breaker. The new chain is in use
  (`:886`) before its breaker has the old state (`:890`) and time (`:891`): a signal that comes before passes,
  and one that comes between the two ends the cooldown for good; a breaker that trips after its state was
  read (`:885`) loses the trip. `CooldownHolds` excepts the two copies (`Published`) and the lost cooldowns (`seen.raced`).
* `shared/runner.py:1457`: a primary whose socket lives and which has no message is replaced. While it never had one,
  `primary_stale_seconds` (`market_data/feed.py:324`) is -1 and nothing is done, as
  `tests/test_round8_primary_stale_2026_08_17.py:202` asserts. `PrimaryReturns` excepts such a primary.

Also met while modelling and contained in the models:

* `shared/runner.py:1278`, "never let the local state lose touch with the exchange": a refused cancellation sets
  CANCELED locally (`:1285`); when it was refused because the order had been filled, no poll looks at the order
  again and the position is left to the reconciler, which imports it without SL/TP. `FilledIsRegistered`
  excepts such orders.
* `market_data/feed.py:360`, the strategy has enough history: connections are started first
  (`shared/runner.py:302`), and after one message the older rows are dropped by `KlineBuffer.add`.
* `market_data/user_data_stream.py:54`, the lock keeps the refresh of the key and the connection apart: the
  keep-alive thread may drop the key between `_ensure_listen_key` and `ws_url`; the socket is then opened
  for the key "pending", which the exchange accepts and never serves. `PushesReturn` excepts it; without
  the exception TLC finds it.
* `tools/proxy_pool/config_generator.py:101`, unknown types are left out so that one bad node does not take the whole
  configuration down: they are left out of the proxies and not of the groups, so the core refuses the configuration that
  names one. The run therefore has supported types only.
* `tools/proxy_pool/proxy_pool.py:68`, replacing the file keeps two processes from reading half-written text:
  both write one `.tmp` file, and what they have mixed is renamed by either. The pool cannot be read from then
  on, by any script; `Recovers` says "as long as the pool can be read".
* `tools/proxy_watchdog.py:9`, the processes only overwrite each other with the same content: the failover may
  apply the pool it loaded before the service saved a newer one. The next update mends it (`NeverStuck`).
* `tools/proxy_pool/clash_updater.py:68`: the hash is noted before the core has taken the configuration, so
  a failed reload is repeated by the next update only, hours later.
* `tools/proxy_pool/merge.py:53`: known nodes are overwritten by the subscription's raw form, so fields which
  the parser has named otherwise are lost.
* `dashboard/state_store.py:63`, "the replay converges to the latest state": it does, but a message left pending by a crash or
  a failed acknowledgement is delivered again after newer ones, on the dashboard and in the runner, where an old
  `resume` can undo a newer `emergency_stop`. `Current` speaks of states in which none but the last was left over.
* `shared/event_bus.py:132`: what is published before the group exists is never delivered; the dashboard's
  messages between its replay and the creation of the group are lost to it (`Current` excepts them).
* `shared/runner.py:1423`: a symbol that never had a price is skipped and never trips; the breaker is not stored, so a restart
  of the runner ends an emergency stop.
* `dashboard/ops_archive.py`: an insertion that fails is logged and the message acknowledged; the row is missing.
  Two dashboards would share one group and split its messages.
* `execution/order_manager.py:697`: an SL/TP order that another thread is cancelling is missing from
  the exchange's list and taken for triggered; the position is closed locally until the reconciler imports it again.
* `risk/drawdown_breaker.py:37`: `consecutive_losses` is reset by a profit only, so after a streak
  the breaker trips again at the end of each cooldown (the architecture document, line 229, has the
  breaker go from COOLDOWN to ACTIVE).
* `execution/order_manager.py:546`, `shared/runner.py:516`: the feed thread protects and registers a fill outside
  `_fills_lock`, so a push may do it as well. `CoverWithinPosition` excepts it by `direct`. When
  the policy cancels the remainder of a placement that was partially filled, the order ends CANCELED
  and neither happens.
* `shared/runner.py:860`: `cancel_all` ignores the result of the call and marks orders CANCELED that came
  later. `GivenUpIsDead` and `SettledIsNotOpen` except it by `abandoned`.
* `shared/runner.py:417`: an entry may be accepted after `emergency_stop`, since the breaker was read
  before the placement; `pause` overrides `emergency_stop`.
* `shared/reconciler.py:71`: the remote account is read before the local positions, so a position opened
  in between is closed locally; `remote_only` imports it again without protection.
* `shared/runner.py:814` and `:937`: a residual SL or TP whose cancellation failed can close a later position; a forced exit
  whose market order is refused leaves the position without its protection.
* `risk/daily_loss_limit.py:16`, `risk/daily_trade_limit.py:22`: the counters of the day are reset by the next
  booking, so after midnight the first signals are judged by yesterday's. `risk/concentration.py:38`: pending entries do not count.
* `portfolio/tracker.py:97`: a close adds its profit to an equity that a refresh may already have brought, and
  a peak raised by that stays. `shared/runner.py:675`: the check of liquidation distances closes the largest position, not the one it warned of.
* `shared/runner.py:1063` and `:1096`: the first fee of a new cursor is taken for history, also after a torn file;
  estimate and flow book the same fee after an outage that came before the first cursor (`blind`).
* `market_data/kline_buffer.py:46`: a lagging standby's forming update replaces the closed row.
  `market_data/feed.py:148`: a switch between reading the primary and adding the row loses the closure until the REST
  poll, which exists for 15m only. `market_data/feed.py:449`: after a restart the poll reports the last closed candle again.

## 6. Not modelled

`PROJECT.json` lists every component with the reason. In short:

* strategies, indicators, rounding and the checks on a signal alone: floating-point arithmetic without state,
  in which only the numbers could be wrong, and TLC has none;
* startup and configuration: one sequential pass before any thread runs;
* HTTP servers, notification, front end, replay and analysis tools: input and output;
* the heartbeat watchdog: it compares ages with fixed limits and sends alerts that no decision reads;
  what could be wrong with it is the size of the limits against wall-clock periods, which a model with
  abstract time can only assume;
* PaperTrader: an exchange that never fails; the module would be `EntryOrders` without its faults;
* the guardian: no program starts it.

Within modelled components: the smaller size of SL/TP orders that protect an increment (in `Protection`), prices and fees as numbers, mark and trade time stamps, the archive of candles, `stop` of
the feed, the bounds of 500 rows and 5000 marks, the modes `estimate` and `off` of funding, its window of
72 h and limit of 1000 records, PAPER mode, more than one symbol where symbols do not meet; `stop` and `start` of
the user stream; the bound of 10000 messages of a stream (about seven days), a publication whose answer is lost,
the other tables of the archive, which are filled like the two, pages and pruning of the dashboard; the proxy
pool's groups for other traffic, the two ports a source may be split into, nodes of colliding names, its read-only API.

## 7. Plan

Done, in this order: `EntryOrders` with proofs, `OrderPlacement` and `EntryPlacement` with proofs, `Protection`
with proofs, `RiskGate` with proofs, `FundingLedger` with proofs, `MarketFeed` with proofs, `ProxyPool`, `EventBus` with the
stall check, the mirror and the archives and with proofs, `UserStream` with proofs.

Next, in this order:

1. the marks of `ProxyPool` (its `TypeOK`) as a theorem: merging and checking are functions on the pool, so it should
   be inductive as it stands;
2. `NoFillForgotten` for an order that was given up, once the code asks the exchange after a cancellation that was refused;
3. the composition of `EventBus` and `EntryOrders`: the commands of one as the command thread of the other;
4. the bounds of the candle buffer and of the marks in `MarketFeed`.
