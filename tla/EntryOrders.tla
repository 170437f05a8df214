---------------------------- MODULE EntryOrders ----------------------------
(***************************************************************************)
(* The life of the LIMIT entry orders of one symbol: OrderManager          *)
(* (execution/order_manager.py) driven by the four threads of SystemRunner *)
(* (shared/runner.py):                                                     *)
(*                                                                         *)
(*   "feed"    kline callback: _execute_signal -> submit_entry             *)
(*   "main"    run_forever: the fill poll and the pending timeout          *)
(*   "stream"  user data stream pushes: _on_user_order_update              *)
(*   "cmd"     EventBus consumer: _handle_command                          *)
(*                                                                         *)
(* A thread may be interrupted wherever the code blocks: at a call to the  *)
(* exchange, at _fills_lock, at a database or Redis write or a log line.   *)
(* The straight-line code between two such points is one action.  A call   *)
(* to the exchange takes effect in one action and its answer is used in a  *)
(* later one, so the exchange and the other threads move in between.       *)
(*                                                                         *)
(* Quantities are lots: an order asks for Qty of them.                     *)
(***************************************************************************)
EXTENDS Naturals, Sequences

CONSTANTS
  Orders,       \* the entry orders the strategy may submit
  NoOrder,      \* no order at hand
  Qty,          \* lots of one order
  Policy,       \* PARTIAL_FILL_POLICY: "wait" or "cancel"
  UserStream,   \* USER_DATA_STREAM: are order updates pushed?
  MaxFaults,    \* bound: failed calls and dropped stream connections
  MaxCommands,  \* bound: commands consumed from the command stream
  MaxCloses     \* bound: closures of the position by other components

ASSUME OrderAssumption  == NoOrder \notin Orders
ASSUME QtyAssumption    == Qty \in Nat \ {0}
ASSUME PolicyAssumption == Policy \in {"wait", "cancel"}
ASSUME StreamAssumption == UserStream \in BOOLEAN

VARIABLES
  x,          \* exchange: status and executed lots of each order
  wire,       \* pushes sent by the exchange and not yet handled, oldest first
  l,          \* OrderManager._orders: local status, filled_qty, remainder_canceled
  pos,        \* PortfolioTracker.positions[symbol].quantity, 0 when there is none
  cover,      \* lots under SL/TP pairs placed since the position was registered
  breaker,    \* SystemRunner._circuit_breaker
  lock,       \* holder of SystemRunner._fills_lock
  th,         \* per thread: where it is in its handler, and its local variables
  used,       \* what the bounds count
  reg,        \* history: most lots of each order the portfolio was told of
  abandoned,  \* history: live orders that a placement or cancel_all without an answer,
              \*   or a cancellation that was refused, leaves behind
  direct      \* history: has the feed thread protected or registered by itself?

exchange == <<x, wire>>
book     == <<pos, cover, reg, direct>>
vars     == <<exchange, l, book, breaker, lock, th, used, abandoned>>

Threads  == {"feed", "main", "stream", "cmd"}
Live     == {"NEW", "PARTIALLY_FILLED"}
Active   == {"PENDING", "PARTIALLY_FILLED"}        \* OrderManager.active_orders
XStatus  == Live \cup {"NONE", "FILLED", "CANCELED"}
LStatus  == Active \cup {"NONE", "FILLED", "CANCELED", "REJECTED"}
Free     == "free"

XState   == [st : XStatus, ex : 0..Qty]
Message  == [o : Orders, st : XStatus, ex : 0..Qty]
LState   == [st : LStatus, ex : 0..Qty, canc : BOOLEAN]
Local    == [pc : {"idle", "place", "append", "remainder", "remainderAns", "check",
                   "protect", "open", "poll", "apply", "register", "update", "protectFill",
                   "cancel", "cancelAns", "stop", "bulk", "mark"},
             o : Orders \cup {NoOrder}, todo : SUBSET Orders, newly : SUBSET Orders,
             view : [st : XStatus \cup {"REJECTED"}, ex : 0..Qty], held : 0..Qty,
             ans : {"none", "CANCELED", "REJECTED", "ERROR"}]

TypeOK ==
  /\ x \in [Orders -> XState]
  /\ wire \in Seq(Message)
  /\ l \in [Orders -> LState]
  /\ pos \in 0..Qty
  /\ cover \in Nat
  /\ breaker \in {"none", "emergency_stop", "paused"}
  /\ lock \in Threads \cup {Free}
  /\ th \in [Threads -> Local]
  /\ used \in [faults : Nat, commands : Nat, closes : Nat]
  /\ reg \in [Orders -> 0..Qty]
  /\ abandoned \subseteq Orders
  /\ direct \in BOOLEAN

NoView == [st |-> "NONE", ex |-> 0]
Rest   == [pc |-> "idle", o |-> NoOrder, todo |-> {}, newly |-> {},
           view |-> NoView, held |-> 0, ans |-> "none"]

Init ==
  /\ x = [o \in Orders |-> NoView]
  /\ wire = <<>>
  /\ l = [o \in Orders |-> [st |-> "NONE", ex |-> 0, canc |-> FALSE]]
  /\ pos = 0
  /\ cover = 0
  /\ breaker = "none"
  /\ lock = Free
  /\ th = [t \in Threads |-> Rest]
  /\ used = [faults |-> 0, commands |-> 0, closes |-> 0]
  /\ reg = [o \in Orders |-> 0]
  /\ abandoned = {}
  /\ direct = FALSE

At(t, p)    == th[t].pc = p
Goes(t, r)  == th' = [th EXCEPT ![t] = r]
Goto(t, p)  == Goes(t, [th[t] EXCEPT !.pc = p])
Leave(t)    == Goes(t, Rest)
Fault       == used.faults < MaxFaults /\ used' = [used EXCEPT !.faults = @ + 1]
Larger(m, n) == IF m > n THEN m ELSE n

-----------------------------------------------------------------------------
(* The exchange. *)

(* Order o reaches status st with n lots executed; the user stream is told. *)
Becomes(o, st, n) ==
  /\ x' = [x EXCEPT ![o] = [st |-> st, ex |-> n]]
  /\ wire' = IF UserStream THEN Append(wire, [o |-> o, st |-> st, ex |-> n]) ELSE wire

(* Status of an order that has not been cancelled, with n lots executed. *)
Working(n) == IF n = 0 THEN "NEW" ELSE IF n = Qty THEN "FILLED" ELSE "PARTIALLY_FILLED"

Fill(o) ==
  /\ x[o].st \in Live
  /\ \E n \in (x[o].ex + 1)..Qty : Becomes(o, Working(n), n)
  /\ UNCHANGED <<l, book, breaker, lock, th, used, abandoned>>

(* The exchange ends a live order by itself: the remainder of an IOC order. *)
Expire(o) ==
  /\ x[o].st \in Live
  /\ Becomes(o, "CANCELED", x[o].ex)
  /\ UNCHANGED <<l, book, breaker, lock, th, used, abandoned>>

(* The stream connection drops: what was pushed on it is never delivered. *)
StreamDrop ==
  /\ wire # <<>>
  /\ wire' = <<>>
  /\ Fault
  /\ UNCHANGED <<x, l, book, breaker, lock, th, abandoned>>

-----------------------------------------------------------------------------
(* Feed thread: SystemRunner._execute_signal, OrderManager.execute_signal. *)

Signal(o) ==
  /\ At("feed", "idle")
  /\ l[o].st = "NONE" /\ x[o].st = "NONE"
  /\ breaker = "none"
  /\ pos = 0
  /\ \A p \in Orders : l[p].st # "PENDING"
  /\ Goes("feed", [th["feed"] EXCEPT !.pc = "place", !.o = o])
  /\ UNCHANGED <<exchange, l, book, breaker, lock, used, abandoned>>

(* The exchange accepts the order, and may execute some of it, or end it   *)
(* (IOC), before it answers.                                               *)
PlaceAccepted ==
  /\ At("feed", "place")
  /\ \E n \in 0..Qty : \E st \in {Working(n)} \cup IF n = Qty THEN {} ELSE {"CANCELED"} :
       /\ Becomes(th["feed"].o, st, n)
       /\ Goes("feed", [th["feed"] EXCEPT !.pc = "append", !.view = [st |-> st, ex |-> n]])
  /\ UNCHANGED <<l, book, breaker, lock, used, abandoned>>

(* The order is refused, or every retry fails: submit_entry records REJECTED. *)
(* After failed retries the exchange may hold the order all the same.         *)
PlaceFailed ==
  /\ At("feed", "place")
  /\ LET o == th["feed"].o IN
       /\ Goes("feed", [th["feed"] EXCEPT !.pc = "append",
                                            !.view = [st |-> "REJECTED", ex |-> 0]])
       /\ \/ UNCHANGED <<exchange, used, abandoned>>
          \/ /\ Fault
             /\ Becomes(o, "NEW", 0)
             /\ abandoned' = abandoned \cup {o}
  /\ UNCHANGED <<l, book, breaker, lock>>

(* Any status submit_entry does not name is PENDING, to be polled. *)
LocalOf_AnyFillIsFull(st) == IF st = "PARTIALLY_FILLED" THEN "FILLED" ELSE st   \* mutant
LocalOf(st) == IF st \in {"NEW", "CANCELED"} THEN "PENDING" ELSE st

FeedAppend ==
  /\ At("feed", "append")
  /\ LET o == th["feed"].o
         v == th["feed"].view
     IN  /\ l' = [l EXCEPT ![o] = [st |-> LocalOf(v.st), ex |-> v.ex, canc |-> FALSE]]
         /\ Goto("feed", IF v.st = "PARTIALLY_FILLED" THEN "remainder" ELSE "check")
  /\ UNCHANGED <<exchange, book, breaker, lock, used, abandoned>>

(* "filled_qty or quantity" *)
FilledOf_Ordered(o) == Qty   \* mutant
FilledOf(o) == IF l[o].ex = 0 THEN Qty ELSE l[o].ex
Filled      == {"FILLED", "PARTIALLY_FILLED"}

(* execute_signal reads the status again, now that other threads know the order. *)
FeedCheck ==
  /\ At("feed", "check")
  /\ LET o == th["feed"].o IN
       CASE l[o].st = "REJECTED" -> Leave("feed")
         [] l[o].st \in Filled ->
              Goes("feed", [th["feed"] EXCEPT !.pc = "protect", !.view.ex = FilledOf(o)])
         [] OTHER -> Goto("feed", "open")
  /\ UNCHANGED <<exchange, l, book, breaker, lock, used, abandoned>>

(* SL and TP go to the exchange; either may be refused. *)
FeedProtect ==
  /\ At("feed", "protect")
  /\ cover' \in {cover, cover + th["feed"].view.ex}
  /\ direct' = TRUE
  /\ Goto("feed", "open")
  /\ UNCHANGED <<exchange, l, pos, reg, breaker, lock, used, abandoned>>

Tell(o, n) == pos' = n /\ reg' = [reg EXCEPT ![o] = Larger(@, n)]

(* open_position, without _fills_lock, whatever the portfolio holds by now. *)
FeedOpen ==
  /\ At("feed", "open")
  /\ LET o == th["feed"].o IN
       IF l[o].st \in Filled THEN Tell(o, FilledOf(o)) /\ direct' = TRUE
                             ELSE UNCHANGED <<pos, reg, direct>>
  /\ Leave("feed")
  /\ UNCHANGED <<exchange, l, cover, breaker, lock, used, abandoned>>

-----------------------------------------------------------------------------
(* Registration of confirmed fills: _register_fills, under _fills_lock. *)

(* Thread t has dealt with fill o; the lock is kept until none is left. *)
Settle(t, o) ==
  LET rest == th[t].newly \ {o} IN
  /\ Goes(t, IF rest = {} THEN Rest
                             ELSE [th[t] EXCEPT !.pc = "register", !.newly = rest])
  /\ lock' = IF rest = {} THEN Free ELSE t

MayHold_Unlocked(t) == TRUE   \* mutant
MayHold(t) == lock \in {Free, t}

(* Under the lock: how much is filled by now, and how much of it the       *)
(* position lacks.                                                         *)
Register(t) ==
  /\ At(t, "register")
  /\ MayHold(t)
  /\ \E o \in th[t].newly :
       IF FilledOf(o) > pos
       THEN /\ lock' = t
            /\ Goes(t, [th[t] EXCEPT !.pc = "update", !.o = o, !.held = pos,
                                        !.view.ex = FilledOf(o) - pos])
       ELSE Settle(t, o)
  /\ UNCHANGED <<exchange, l, book, breaker, used, abandoned>>

(* open_position, or update_position: nothing when the position has been   *)
(* closed since.                                                           *)
Update(t) ==
  /\ At(t, "update")
  /\ IF th[t].held > 0 /\ pos = 0
     THEN UNCHANGED <<pos, reg>>
     ELSE Tell(th[t].o, th[t].held + th[t].view.ex)
  /\ Goto(t, "protectFill")
  /\ UNCHANGED <<exchange, l, cover, direct, breaker, lock, used, abandoned>>

(* place_protection for the increment: placed, refused, or skipped when the *)
(* fill price is on the wrong side of the stop.                             *)
ProtectFill(t) ==
  /\ At(t, "protectFill")
  /\ cover' \in {cover, cover + th[t].view.ex}
  /\ Settle(t, th[t].o)
  /\ UNCHANGED <<exchange, l, pos, reg, direct, breaker, used, abandoned>>

(* How OrderManager takes note of an executed quantity: the fill is newly   *)
(* confirmed for an order that was pending, or partial with fewer lots.     *)
IsNew_PendingOnly(o, ex) == l[o].st = "PENDING"   \* mutant
IsNew(o, ex) == \/ l[o].st = "PENDING"
                \/ l[o].st = "PARTIALLY_FILLED" /\ ex > l[o].ex

(* Thread t learns that order o is st with ex lots executed, and goes on    *)
(* from local state loc.                                                    *)
Learn_Cumulates(t, o, st, ex, loc) ==   \* mutant
  IF st \in Filled
  THEN /\ l' = [l EXCEPT ![o].st = st, ![o].ex = @ + ex]
       /\ Goes(t, [loc EXCEPT !.pc = "remainder", !.o = o])
  ELSE UNCHANGED l /\ Goes(t, loc)
Learn(t, o, st, ex, loc) ==
  IF st \in Filled
  THEN /\ l' = [l EXCEPT ![o].st = st, ![o].ex = ex]
       /\ Goes(t, [loc EXCEPT !.pc = "remainder", !.o = o,
                          !.newly = IF IsNew(o, ex) THEN @ \cup {o} ELSE @])
  ELSE /\ l' = IF st = "CANCELED" THEN [l EXCEPT ![o].st = "CANCELED"] ELSE l
       /\ Goes(t, loc)

-----------------------------------------------------------------------------
(* _maybe_cancel_remainder and _cancel_one_order: one call to the exchange. *)

(* Where a thread goes when it is done with the remainder of an order. *)
AfterRemainder(t, loc) ==
  CASE t = "feed" -> [loc EXCEPT !.pc = "check", !.ans = "none"]
    [] t = "main" -> [loc EXCEPT !.pc = "poll", !.ans = "none", !.o = NoOrder]
    [] OTHER      -> IF loc.newly = {} THEN Rest
                     ELSE [loc EXCEPT !.pc = "register", !.ans = "none"]

(* A cancellation reaches the exchange. *)
Ends(o) == IF x[o].st \in Live THEN Becomes(o, "CANCELED", x[o].ex) ELSE UNCHANGED exchange

(* What becomes of a cancellation of order o, and its status r.  An answer   *)
(* with any error code is REJECTED (_status_or_fail): that there is no such  *)
(* order, but also, after a fault, that the request was not looked at: its   *)
(* retry has a wrong signature (-1022, see OrderPlacement), its time stamp   *)
(* is off (-1021), there are too many (429).                                 *)
CancelCall(o, r) ==
  \/ /\ r = IF x[o].st \in Live THEN "CANCELED" ELSE "REJECTED"
     /\ Ends(o)
     /\ UNCHANGED <<used, abandoned>>
  \/ /\ r \in {"REJECTED", "ERROR"} /\ Fault
     /\ Ends(o)
     /\ UNCHANGED abandoned
  \/ /\ r \in {"REJECTED", "ERROR"} /\ Fault
     /\ UNCHANGED exchange
     /\ abandoned' = IF r = "REJECTED" /\ x[o].st \in Live THEN abandoned \cup {o} ELSE abandoned

(* An order is given up on any answer; after a failed call it is left as it  *)
(* is, to be cancelled again later.                                          *)
Gone_AnyAnswer(ans) == TRUE   \* mutant
Gone(ans) == ans # "ERROR"

KeepsRemainder(o) == \/ Policy # "cancel"
                     \/ l[o].st # "PARTIALLY_FILLED"
                     \/ l[o].canc

Remainder(t) ==
  /\ At(t, "remainder")
  /\ LET o == th[t].o IN
       \/ /\ KeepsRemainder(o)
          /\ Goes(t, AfterRemainder(t, th[t]))
          /\ UNCHANGED <<exchange, l, used, abandoned>>
       \/ /\ ~KeepsRemainder(o)
          /\ l' = [l EXCEPT ![o].canc = TRUE]
          /\ \E r \in {"CANCELED", "REJECTED", "ERROR"} :
               /\ CancelCall(o, r)
               /\ Goes(t, [th[t] EXCEPT !.pc = "remainderAns", !.ans = r])
  /\ UNCHANGED <<book, breaker, lock>>

RemainderAnswer(t) ==
  /\ At(t, "remainderAns")
  /\ LET o == th[t].o IN
       l' = IF Gone(th[t].ans) THEN [l EXCEPT ![o].st = "CANCELED"]
                               ELSE [l EXCEPT ![o].canc = FALSE]
  /\ Goes(t, AfterRemainder(t, th[t]))
  /\ UNCHANGED <<exchange, book, breaker, lock, used, abandoned>>

Cancel(t) ==
  /\ At(t, "cancel")
  /\ \E r \in {"CANCELED", "REJECTED", "ERROR"} :
       /\ CancelCall(th[t].o, r)
       /\ Goes(t, [th[t] EXCEPT !.pc = "cancelAns", !.ans = r])
  /\ UNCHANGED <<l, book, breaker, lock>>

CancelAnswer(t) ==
  /\ At(t, "cancelAns")
  /\ l' = IF Gone(th[t].ans) THEN [l EXCEPT ![th[t].o].st = "CANCELED"] ELSE l
  /\ IF t = "cmd" THEN Goes("cmd", [th["cmd"] EXCEPT !.pc = "stop", !.o = NoOrder,
                                                         !.ans = "none"])
                  ELSE Leave(t)
  /\ UNCHANGED <<exchange, book, breaker, lock, used, abandoned>>

-----------------------------------------------------------------------------
(* Main thread: _sync_entry_fills and _check_pending_timeouts. *)

PollStart ==
  /\ At("main", "idle")
  /\ Goes("main", [th["main"] EXCEPT !.pc = "poll",
                                    !.todo = {o \in Orders : l[o].st # "NONE"}])
  /\ UNCHANGED <<exchange, l, book, breaker, lock, used, abandoned>>

ToPoll_PendingOnly == {o \in th["main"].todo : l[o].st = "PENDING"}   \* mutant
ToPoll == {o \in th["main"].todo : l[o].st \in Active}

(* query_order_status: the answer is what the exchange knew at this moment. *)
PollQuery ==
  /\ At("main", "poll")
  /\ \E o \in ToPoll :
       LET loc == [th["main"] EXCEPT !.todo = @ \ {o}] IN
       \/ /\ Goes("main", [loc EXCEPT !.pc = "apply", !.o = o, !.view = x[o]])
          /\ UNCHANGED used
       \/ /\ Fault
          /\ Goes("main", loc)
  /\ UNCHANGED <<exchange, l, book, breaker, lock, abandoned>>

PollApply ==
  /\ At("main", "apply")
  /\ LET m == th["main"] IN
       Learn("main", m.o, m.view.st, m.view.ex,
             [m EXCEPT !.pc = "poll", !.o = NoOrder, !.view = NoView])
  /\ UNCHANGED <<exchange, book, breaker, lock, used, abandoned>>

PollDone ==
  /\ At("main", "poll")
  /\ ToPoll = {}
  /\ IF th["main"].newly = {}
     THEN Leave("main")
     ELSE Goes("main", [th["main"] EXCEPT !.pc = "register", !.todo = {}])
  /\ UNCHANGED <<exchange, l, book, breaker, lock, used, abandoned>>

PendingTimeout_NoRetry(o) ==   \* mutant
  /\ At("main", "idle")
  /\ l[o].st = "PENDING"
  /\ pos = 0
  /\ used.faults = 0
  /\ Goes("main", [th["main"] EXCEPT !.pc = "cancel", !.o = o])
  /\ UNCHANGED <<exchange, l, book, breaker, lock, used, abandoned>>
PendingTimeout(o) ==
  /\ At("main", "idle")
  /\ l[o].st = "PENDING"
  /\ pos = 0
  /\ Goes("main", [th["main"] EXCEPT !.pc = "cancel", !.o = o])
  /\ UNCHANGED <<exchange, l, book, breaker, lock, used, abandoned>>

-----------------------------------------------------------------------------
(* Stream thread: on_user_order_update. *)

(* A push for an order that submit_entry has not appended yet is ignored. *)
Push ==
  /\ At("stream", "idle")
  /\ wire # <<>>
  /\ wire' = Tail(wire)
  /\ LET m == Head(wire) IN
       IF l[m.o].st = "NONE" THEN UNCHANGED <<l, th>>
       ELSE Learn("stream", m.o, m.st, m.ex, Rest)
  /\ UNCHANGED <<x, book, breaker, lock, used, abandoned>>

-----------------------------------------------------------------------------
(* Command thread: _handle_command. *)

Command ==
  /\ At("cmd", "idle")
  /\ used.commands < MaxCommands
  /\ used' = [used EXCEPT !.commands = @ + 1]

EmergencyStop ==
  /\ Command
  /\ breaker' = "emergency_stop"
  /\ Goes("cmd", [th["cmd"] EXCEPT !.pc = "stop",
                                  !.todo = {o \in Orders : l[o].st \in Active}])
  /\ UNCHANGED <<exchange, l, book, lock, abandoned>>

(* _cancel_active_orders: the orders active when it started, one by one. *)
StopNext ==
  /\ At("cmd", "stop")
  /\ LET todo == th["cmd"].todo IN
       \/ todo = {} /\ Leave("cmd")
       \/ \E o \in todo :
            IF l[o].st \in {"FILLED", "CANCELED"}
            THEN Goes("cmd", [th["cmd"] EXCEPT !.todo = todo \ {o}])
            ELSE Goes("cmd", [th["cmd"] EXCEPT !.pc = "cancel", !.o = o, !.todo = todo \ {o}])
  /\ UNCHANGED <<exchange, l, book, breaker, lock, used, abandoned>>

Resume ==
  /\ Command
  /\ breaker' = "none"
  /\ UNCHANGED <<exchange, l, book, lock, th, abandoned>>

Pause ==
  /\ Command
  /\ breaker' = "paused"
  /\ UNCHANGED <<exchange, l, book, lock, th, abandoned>>

CancelAll ==
  /\ Command
  /\ Goes("cmd", [th["cmd"] EXCEPT !.pc = "bulk",
                                  !.todo = {o \in Orders : x[o].st \in Live}])
  /\ UNCHANGED <<exchange, l, book, breaker, lock, abandoned>>

(* The exchange works through cancel_all_open_orders. *)
BulkCancel ==
  /\ At("cmd", "bulk")
  /\ \E o \in th["cmd"].todo :
       /\ Goes("cmd", [th["cmd"] EXCEPT !.todo = @ \ {o}])
       /\ IF x[o].st \in Live THEN Becomes(o, "CANCELED", x[o].ex) ELSE UNCHANGED exchange
  /\ UNCHANGED <<l, book, breaker, lock, used, abandoned>>

(* The call has returned, or failed: its result is not looked at, and every *)
(* order that is active by now is going to be marked.                       *)
BulkReturn ==
  /\ At("cmd", "bulk")
  /\ \/ th["cmd"].todo = {} /\ UNCHANGED used
     \/ th["cmd"].todo # {} /\ Fault
  /\ Goes("cmd", [th["cmd"] EXCEPT !.pc = "mark",
                                  !.todo = {o \in Orders : l[o].st \in Active}])
  /\ UNCHANGED <<exchange, l, book, breaker, lock, abandoned>>

BulkMark ==
  /\ At("cmd", "mark")
  /\ LET todo == th["cmd"].todo IN
       \/ todo = {} /\ Leave("cmd") /\ UNCHANGED <<l, abandoned>>
       \/ \E o \in todo :
            /\ l' = [l EXCEPT ![o].st = "CANCELED"]
            /\ abandoned' = IF x[o].st \in Live THEN abandoned \cup {o} ELSE abandoned
            /\ Goes("cmd", [th["cmd"] EXCEPT !.todo = todo \ {o}])
  /\ UNCHANGED <<exchange, book, breaker, lock, used>>

-----------------------------------------------------------------------------
(* The position is closed by a triggered SL/TP, a forced exit or the        *)
(* reconciler (module Protection); its protection goes with it.             *)
ClosePosition ==
  /\ pos > 0
  /\ used.closes < MaxCloses
  /\ used' = [used EXCEPT !.closes = @ + 1]
  /\ pos' = 0 /\ cover' = 0
  /\ UNCHANGED <<exchange, l, reg, direct, breaker, lock, th, abandoned>>

Feed     == \/ PlaceAccepted \/ PlaceFailed \/ FeedAppend \/ FeedCheck \/ FeedProtect \/ FeedOpen
            \/ Remainder("feed") \/ RemainderAnswer("feed")
Poll     == \/ PollStart \/ PollQuery \/ PollApply \/ PollDone
            \/ Register("main") \/ Update("main") \/ ProtectFill("main")
            \/ Remainder("main") \/ RemainderAnswer("main")
Timeouts == (\E o \in Orders : PendingTimeout(o)) \/ Cancel("main") \/ CancelAnswer("main")
Stream   == Push \/ Register("stream") \/ Update("stream") \/ ProtectFill("stream")
            \/ Remainder("stream") \/ RemainderAnswer("stream")
Commands == \/ EmergencyStop \/ StopNext \/ Resume \/ Pause \/ CancelAll \/ BulkCancel \/ BulkReturn \/ BulkMark
            \/ Cancel("cmd") \/ CancelAnswer("cmd")
Exchange == \/ \E o \in Orders : Fill(o) \/ Expire(o)
            \/ StreamDrop \/ ClosePosition

Next == (\E o \in Orders : Signal(o)) \/ Feed \/ Poll \/ Timeouts \/ Stream \/ Commands \/ Exchange

Spec == Init /\ [][Next]_vars

(* Every thread keeps running: a blocked call returns, the main loop comes   *)
(* round again (so it reaches the timeout check of a pending order however   *)
(* often it polls in between), a push that is on the wire is handled.        *)
(* Nothing is assumed of signals, commands, faults and fills.                *)
Fairness ==
  /\ WF_vars(Feed)
  /\ WF_vars(Poll)
  /\ WF_vars(Cancel("main") \/ CancelAnswer("main"))
  /\ \A o \in Orders : SF_vars(PendingTimeout(o))
  /\ WF_vars(Stream)
  /\ WF_vars(StopNext \/ BulkCancel \/ BulkReturn \/ BulkMark \/ Cancel("cmd") \/ CancelAnswer("cmd"))

FairSpec == Spec /\ Fairness

-----------------------------------------------------------------------------
(* Safety. *)

(* Answers, pushes and polls are used late and out of order, yet what the    *)
(* order list says was executed never exceeds what the exchange executed,    *)
(* and an order it calls FILLED is completely filled (sync_entry_fills,      *)
(* on_user_order_update).                                                    *)
LocalNeverAhead ==
  \A o \in Orders : /\ l[o].ex <= x[o].ex
                    /\ l[o].st = "FILLED" => x[o].st = "FILLED" /\ l[o].ex = Qty

(* "Never let the local state lose touch with the exchange" (_cancel_one_   *)
(* order): an order the list shows as CANCELED or REJECTED is not live on    *)
(* the exchange, whatever calls failed and whoever is late, except where the *)
(* program gives it up in the dark: a placement with no reply, cancel_all,   *)
(* or a cancellation that the exchange refused to carry out.                 *)
GivenUpIsDead ==
  \A o \in Orders : l[o].st \in {"CANCELED", "REJECTED"} =>
                       x[o].st \notin Live \/ o \in abandoned

(* A registered position is backed by a fill: its quantity never exceeds     *)
(* what some entry order really executed, although two channels and the feed *)
(* thread register fills and read filled_qty long after it was written.      *)
RegisteredIsExecuted == pos > 0 => \E o \in Orders : pos <= x[o].ex

(* While only _register_fills has touched the position and nothing has       *)
(* closed it, the protection placed never exceeds the position: each lot is  *)
(* protected once, however pushes and polls overlap.                         *)
CoverWithinPosition == ~direct /\ used.closes = 0 => cover <= pos

-----------------------------------------------------------------------------
(* Liveness. *)

Ended == {"FILLED", "CANCELED", "REJECTED"}

(* However pushes are lost, delayed or overwrite a newer state, the local    *)
(* status of an order that has ended on the exchange settles on an end state.*)
EndIsNoticed ==
  \A o \in Orders : <>[](x[o].st \in {"FILLED", "CANCELED"} /\ l[o].st # "NONE"
                           => l[o].st \in Ended)

(* The portfolio is told of every lot of a filled order (D2: also of the     *)
(* lots that follow a partial fill), unless the order was given up locally.  *)
FilledIsRegistered ==
  \A o \in Orders : \/ <>(l[o].st \in {"CANCELED", "REJECTED"})
                    \/ (x[o].st = "FILLED" /\ l[o].st # "NONE") ~> (reg[o] = Qty)

(* No zombie: a failed cancellation is retried until the pending order is    *)
(* gone or there is a position that keeps its orders alive.                  *)
PendingIsResolved == \A o \in Orders : []<>(l[o].st # "PENDING" \/ pos > 0)

=============================================================================
