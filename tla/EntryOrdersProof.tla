-------------------------- MODULE EntryOrdersProof --------------------------
(***************************************************************************)
(* Proofs about EntryOrders, for every set of orders and every quantity:   *)
(* first type correctness, then the safety invariants from one idea:       *)
(* whatever a thread, a push on the wire or the order list says of an      *)
(* order lies in the order's PAST, and the past only grows.                *)
(* CoverWithinPosition rests on the lock of _register_fills instead.  The  *)
(* last two parts show that this lock is always let go again, and what     *)
(* becomes of a fill that the program has learned of.                      *)
(***************************************************************************)
EXTENDS EntryOrders, TLAPS

(* A thread in the middle of a handler has an order in hand, and a position *)
(* update in flight is not larger than an order.                            *)
Acting == {"place", "append", "remainder", "remainderAns", "check", "protect", "open",
           "apply", "update", "protectFill", "cancel", "cancelAns"}

Fits(r) == /\ r \in Local
           /\ r.pc \in Acting => r.o \in Orders
           /\ r.pc = "update" => r.held + r.view.ex <= Qty

ThreadsOK == /\ th \in [Threads -> Local]
             /\ \A t \in Threads : Fits(th[t])

DataOK ==
  /\ x \in [Orders -> XState]
  /\ wire \in Seq(Message)
  /\ l \in [Orders -> LState]
  /\ pos \in 0..Qty
  /\ cover \in Nat
  /\ breaker \in {"none", "emergency_stop", "paused"}
  /\ lock \in Threads \cup {Free}
  /\ used \in [faults : Nat, commands : Nat, closes : Nat]
  /\ reg \in [Orders -> 0..Qty]
  /\ abandoned \subseteq Orders
  /\ direct \in BOOLEAN

TypeInv == DataOK /\ ThreadsOK

USE OrderAssumption, QtyAssumption, PolicyAssumption, StreamAssumption

LEMMA RestFits == Fits(Rest)
  BY DEF Fits, Rest, Local, NoView, XStatus, Acting

LEMMA InitType == Init => TypeInv
  <1> SUFFICES ASSUME Init PROVE TypeInv
    OBVIOUS
  <1>1. DataOK
    <2>1. x \in [Orders -> XState]
      BY DEF Init, XState, XStatus, NoView
    <2>2. l \in [Orders -> LState]
      BY DEF Init, LState, LStatus
    <2>3. wire \in Seq(Message)
      BY DEF Init
    <2>4. reg \in [Orders -> 0..Qty] /\ pos \in 0..Qty /\ cover \in Nat
      BY DEF Init
    <2>5. used \in [faults : Nat, commands : Nat, closes : Nat]
      BY DEF Init
    <2>6. /\ breaker \in {"none", "emergency_stop", "paused"} /\ lock \in Threads \cup {Free}
          /\ abandoned \subseteq Orders /\ direct \in BOOLEAN
      BY DEF Init
    <2> QED BY <2>1, <2>2, <2>3, <2>4, <2>5, <2>6 DEF DataOK
  <1>2. ThreadsOK
    BY RestFits DEF Init, ThreadsOK, Fits
  <1> QED BY <1>1, <1>2 DEF TypeInv

(* A thread moves to a record that fits. *)
LEMMA Move ==
  ASSUME ThreadsOK, NEW t \in Threads, NEW r, Fits(r), Goes(t, r)
  PROVE  ThreadsOK'
  <1>1. th' \in [Threads -> Local]
    BY DEF ThreadsOK, Goes, Fits
  <1>2. \A u \in Threads : th'[u] = r \/ th'[u] = th[u]
    BY DEF ThreadsOK, Goes
  <1>3. \A u \in Threads : Fits(th[u])'
    BY <1>2 DEF ThreadsOK, Fits
  <1> QED BY <1>1, <1>3 DEF ThreadsOK

LEMMA Stay == ASSUME ThreadsOK, UNCHANGED th PROVE ThreadsOK'
  BY DEF ThreadsOK, Fits

LEMMA ThreadFits == ASSUME ThreadsOK, NEW t \in Threads PROVE Fits(th[t])
  BY DEF ThreadsOK

LEMMA FieldTypes ==
  ASSUME NEW r, Fits(r)
  PROVE  /\ r.o \in Orders \cup {NoOrder}
         /\ r.todo \in SUBSET Orders /\ r.newly \in SUBSET Orders
         /\ r.view \in [st : XStatus \cup {"REJECTED"}, ex : 0..Qty]
         /\ r.view.ex \in 0..Qty /\ r.held \in 0..Qty
         /\ r.pc \in Acting => r.o \in Orders
  BY DEF Fits, Local

(* The exchange tells of a change. *)
LEMMA BecomesType ==
  ASSUME DataOK, NEW o \in Orders, NEW st \in XStatus, NEW n \in 0..Qty, Becomes(o, st, n)
  PROVE  x' \in [Orders -> XState] /\ wire' \in Seq(Message)
  <1>1. x' \in [Orders -> XState]
    BY DEF DataOK, Becomes, XState
  <1>2. [o |-> o, st |-> st, ex |-> n] \in Message
    BY DEF Message
  <1>3. wire' \in Seq(Message)
    BY <1>2 DEF DataOK, Becomes
  <1> QED BY <1>1, <1>3

LEMMA FilledOfType == ASSUME DataOK, NEW o \in Orders PROVE FilledOf(o) \in 1..Qty
  BY DEF DataOK, FilledOf, LState

LEMMA TellType ==
  ASSUME DataOK, NEW o \in Orders, NEW n \in 0..Qty, Tell(o, n)
  PROVE  pos' \in 0..Qty /\ reg' \in [Orders -> 0..Qty]
  BY DEF DataOK, Tell, Larger

LEMMA FaultType ==
  ASSUME DataOK, Fault PROVE used' \in [faults : Nat, commands : Nat, closes : Nat]
  BY DEF DataOK, Fault

-----------------------------------------------------------------------------

LEMMA SignalType == ASSUME TypeInv, NEW o \in Orders, Signal(o) PROVE TypeInv'
  <1>1. Fits([th["feed"] EXCEPT !.pc = "place", !.o = o])
    BY ThreadFits DEF TypeInv, Signal, Fits, Local, Threads
  <1>2. ThreadsOK'
    BY <1>1, Move DEF TypeInv, Signal, Threads
  <1>3. DataOK'
    BY DEF TypeInv, Signal, DataOK, exchange, book, At
  <1> QED BY <1>2, <1>3 DEF TypeInv

LEMMA PlaceAcceptedType == ASSUME TypeInv, PlaceAccepted PROVE TypeInv'
  <1> DEFINE o == th["feed"].o
  <1>0. o \in Orders
    BY ThreadFits DEF TypeInv, PlaceAccepted, At, Fits, Threads, Acting
  <1>1. PICK n \in 0..Qty, st \in XStatus :
          /\ Becomes(o, st, n)
          /\ Goes("feed", [th["feed"] EXCEPT !.pc = "append", !.view = [st |-> st, ex |-> n]])
    BY DEF PlaceAccepted, Working, XStatus, Live
  <1>2. Fits([th["feed"] EXCEPT !.pc = "append", !.view = [st |-> st, ex |-> n]])
    BY <1>0, ThreadFits DEF TypeInv, Fits, Local, Threads, Acting
  <1>3. ThreadsOK'
    BY <1>1, <1>2, Move DEF TypeInv, Threads
  <1>4. DataOK'
    BY <1>0, <1>1, BecomesType DEF TypeInv, PlaceAccepted, DataOK, book
  <1> QED BY <1>3, <1>4 DEF TypeInv

LEMMA PlaceFailedType == ASSUME TypeInv, PlaceFailed PROVE TypeInv'
  <1> DEFINE o == th["feed"].o
             r == [th["feed"] EXCEPT !.pc = "append", !.view = [st |-> "REJECTED", ex |-> 0]]
  <1>0. o \in Orders
    BY ThreadFits DEF TypeInv, PlaceFailed, At, Fits, Threads, Acting
  <1>1. Fits(r)
    <2>1. [st |-> "REJECTED", ex |-> 0] \in [st : XStatus \cup {"REJECTED"}, ex : 0..Qty]
      OBVIOUS
    <2> QED BY <1>0, <2>1, ThreadFits DEF TypeInv, Fits, Local, Threads, Acting
  <1>2. ThreadsOK'
    BY <1>1, Move DEF TypeInv, PlaceFailed, Threads
  <1>3. DataOK'
    <2>1. CASE UNCHANGED <<exchange, used, abandoned>>
      BY <2>1 DEF TypeInv, PlaceFailed, DataOK, book, exchange
    <2>2. CASE Fault /\ Becomes(o, "NEW", 0) /\ abandoned' = abandoned \cup {o}
      <3>1. "NEW" \in XStatus /\ 0 \in 0..Qty
        BY DEF XStatus, Live
      <3>2. x' \in [Orders -> XState] /\ wire' \in Seq(Message)
        BY <1>0, <2>2, <3>1, BecomesType DEF TypeInv
      <3>3. used' \in [faults : Nat, commands : Nat, closes : Nat]
        BY <2>2, FaultType DEF TypeInv
      <3>4. abandoned' \subseteq Orders
        BY <1>0, <2>2 DEF TypeInv, DataOK
      <3> QED BY <3>2, <3>3, <3>4 DEF TypeInv, PlaceFailed, DataOK, book
    <2> QED BY <2>1, <2>2 DEF PlaceFailed
  <1> QED BY <1>2, <1>3 DEF TypeInv

LEMMA FeedAppendType == ASSUME TypeInv, FeedAppend PROVE TypeInv'
  <1> DEFINE o == th["feed"].o
             v == th["feed"].view
             p == IF v.st = "PARTIALLY_FILLED" THEN "remainder" ELSE "check"
  <1>0. o \in Orders /\ v.ex \in 0..Qty /\ v.st \in XStatus \cup {"REJECTED"}
    BY ThreadFits, FieldTypes DEF TypeInv, FeedAppend, At, Fits, Threads, Acting
  <1>1. Fits([th["feed"] EXCEPT !.pc = p])
    BY <1>0, ThreadFits DEF TypeInv, Fits, Local, Threads, Acting
  <1>2. ThreadsOK'
    BY <1>1, Move DEF TypeInv, FeedAppend, Goto, Threads
  <1>3. l' \in [Orders -> LState]
    <2>1. [st |-> LocalOf(v.st), ex |-> v.ex, canc |-> FALSE] \in LState
      BY <1>0 DEF LocalOf, LState, LStatus, XStatus, Live, Active
    <2> QED BY <2>1 DEF TypeInv, DataOK, FeedAppend
  <1>4. DataOK'
    BY <1>3 DEF TypeInv, FeedAppend, DataOK, book, exchange
  <1> QED BY <1>2, <1>4 DEF TypeInv

LEMMA FeedCheckType == ASSUME TypeInv, FeedCheck PROVE TypeInv'
  <1> DEFINE o == th["feed"].o
  <1>0. o \in Orders
    BY ThreadFits DEF TypeInv, FeedCheck, At, Fits, Threads, Acting
  <1>1. Fits([th["feed"] EXCEPT !.pc = "protect", !.view.ex = FilledOf(o)])
    <2>1. FilledOf(o) \in 0..Qty
      BY <1>0, FilledOfType DEF TypeInv
    <2> QED BY <1>0, <2>1, ThreadFits DEF TypeInv, Fits, Local, Threads, Acting
  <1>2. Fits([th["feed"] EXCEPT !.pc = "open"])
    BY <1>0, ThreadFits DEF TypeInv, Fits, Local, Threads, Acting
  <1>3. ThreadsOK'
    BY <1>1, <1>2, RestFits, Move DEF TypeInv, FeedCheck, Goto, Leave, Threads
  <1>4. DataOK'
    BY DEF TypeInv, FeedCheck, DataOK, book, exchange
  <1> QED BY <1>3, <1>4 DEF TypeInv

LEMMA FeedProtectType == ASSUME TypeInv, FeedProtect PROVE TypeInv'
  <1>0. th["feed"].o \in Orders /\ th["feed"].view.ex \in 0..Qty
    BY ThreadFits, FieldTypes DEF TypeInv, FeedProtect, At, Threads, Acting
  <1>1. Fits([th["feed"] EXCEPT !.pc = "open"])
    BY <1>0, ThreadFits DEF TypeInv, Fits, Local, Threads, Acting
  <1>2. ThreadsOK'
    BY <1>1, Move DEF TypeInv, FeedProtect, Goto, Threads
  <1>3. DataOK'
    BY <1>0 DEF TypeInv, FeedProtect, DataOK, exchange
  <1> QED BY <1>2, <1>3 DEF TypeInv

LEMMA FeedOpenType == ASSUME TypeInv, FeedOpen PROVE TypeInv'
  <1>0. th["feed"].o \in Orders
    BY ThreadFits, FieldTypes DEF TypeInv, FeedOpen, At, Threads, Acting
  <1>1. ThreadsOK'
    BY RestFits, Move DEF TypeInv, FeedOpen, Leave, Threads
  <1>2. FilledOf(th["feed"].o) \in 0..Qty
    BY <1>0, FilledOfType DEF TypeInv
  <1>3. DataOK'
    BY <1>0, <1>2, TellType DEF TypeInv, FeedOpen, DataOK, exchange
  <1> QED BY <1>1, <1>3 DEF TypeInv

-----------------------------------------------------------------------------

LEMMA SettleType ==
  ASSUME TypeInv, NEW t \in Threads, NEW o, Settle(t, o)
  PROVE  ThreadsOK' /\ lock' \in Threads \cup {Free}
  <1> DEFINE rest == th[t].newly \ {o}
  <1>1. Fits([th[t] EXCEPT !.pc = "register", !.newly = rest])
    BY ThreadFits DEF TypeInv, Fits, Local, Acting
  <1>2. ThreadsOK'
    BY <1>1, RestFits, Move DEF TypeInv, Settle
  <1> QED BY <1>2 DEF Settle

LEMMA RegisterType == ASSUME TypeInv, NEW t \in Threads, Register(t) PROVE TypeInv'
  <1>1. PICK o \in th[t].newly :
          IF FilledOf(o) > pos
          THEN /\ lock' = t
               /\ Goes(t, [th[t] EXCEPT !.pc = "update", !.o = o, !.held = pos,
                                        !.view.ex = FilledOf(o) - pos])
          ELSE Settle(t, o)
    BY DEF Register
  <1>2. o \in Orders /\ FilledOf(o) \in 1..Qty /\ pos \in 0..Qty
    BY ThreadFits, FieldTypes, FilledOfType DEF TypeInv, DataOK
  <1>3. CASE FilledOf(o) > pos
    <2>1. FilledOf(o) - pos \in 0..Qty /\ pos + (FilledOf(o) - pos) <= Qty
      BY <1>2, <1>3
    <2>2. Fits([th[t] EXCEPT !.pc = "update", !.o = o, !.held = pos,
                             !.view.ex = FilledOf(o) - pos])
      <3> DEFINE w == [th[t].view EXCEPT !.ex = FilledOf(o) - pos]
      <3>1. w \in [st : XStatus \cup {"REJECTED"}, ex : 0..Qty] /\ w.ex = FilledOf(o) - pos
        BY <2>1, ThreadFits, FieldTypes DEF TypeInv
      <3>2. Fits([th[t] EXCEPT !.pc = "update", !.o = o, !.held = pos, !.view = w])
        <4> HIDE DEF w
        <4> QED BY <1>2, <2>1, <3>1, ThreadFits DEF TypeInv, Fits, Local
      <3>3. /\ th[t] \in Local
            /\ [th[t] EXCEPT !.pc = "update", !.o = o, !.held = pos, !.view.ex = FilledOf(o) - pos]
               = [th[t] EXCEPT !.pc = "update", !.o = o, !.held = pos, !.view = w]
        BY ThreadFits DEF TypeInv, Fits, Local
      <3> QED BY <3>2, <3>3
    <2>3. ThreadsOK'
      BY <1>1, <1>3, <2>2, Move DEF TypeInv
    <2>4. DataOK'
      BY <1>1, <1>3 DEF TypeInv, Register, DataOK, exchange, book
    <2> QED BY <2>3, <2>4 DEF TypeInv
  <1>4. CASE ~(FilledOf(o) > pos)
    BY <1>1, <1>4, SettleType DEF TypeInv, Register, DataOK, exchange, book
  <1> QED BY <1>3, <1>4

LEMMA UpdateType == ASSUME TypeInv, NEW t \in Threads, Update(t) PROVE TypeInv'
  <1>0. /\ th[t].o \in Orders /\ th[t].held \in 0..Qty /\ th[t].view.ex \in 0..Qty
        /\ th[t].held + th[t].view.ex <= Qty
    BY ThreadFits, FieldTypes DEF TypeInv, Update, At, Acting, Fits
  <1>1. Fits([th[t] EXCEPT !.pc = "protectFill"])
    BY <1>0, ThreadFits DEF TypeInv, Fits, Local, Acting
  <1>2. ThreadsOK'
    BY <1>1, Move DEF TypeInv, Update, Goto
  <1>3. th[t].held + th[t].view.ex \in 0..Qty
    BY <1>0
  <1>4. DataOK'
    BY <1>0, <1>3, TellType DEF TypeInv, Update, DataOK, exchange
  <1> QED BY <1>2, <1>4 DEF TypeInv

LEMMA ProtectFillType == ASSUME TypeInv, NEW t \in Threads, ProtectFill(t) PROVE TypeInv'
  <1>0. th[t].view.ex \in 0..Qty
    BY ThreadFits, FieldTypes DEF TypeInv
  <1>1. ThreadsOK' /\ lock' \in Threads \cup {Free}
    BY SettleType DEF ProtectFill
  <1>2. DataOK'
    BY <1>0, <1>1 DEF TypeInv, ProtectFill, DataOK, exchange
  <1> QED BY <1>1, <1>2 DEF TypeInv

-----------------------------------------------------------------------------

LEMMA MarkType ==
  ASSUME DataOK, NEW o \in Orders, NEW st \in LStatus
  PROVE  /\ [l EXCEPT ![o].st = st] \in [Orders -> LState]
         /\ \A n \in 0..Qty : [l EXCEPT ![o].st = st, ![o].ex = n] \in [Orders -> LState]
         /\ \A c \in BOOLEAN : [l EXCEPT ![o].canc = c] \in [Orders -> LState]
  <1>0. l \in [Orders -> LState] /\ l[o] \in LState
    BY DEF DataOK
  <1>1. [l[o] EXCEPT !.st = st] \in LState
    BY <1>0 DEF LState
  <1>2. ASSUME NEW n \in 0..Qty
        PROVE  [l EXCEPT ![o].st = st, ![o].ex = n] \in [Orders -> LState]
    <2>1. [l[o] EXCEPT !.st = st, !.ex = n] \in LState
      BY <1>0 DEF LState
    <2>2. [l EXCEPT ![o].st = st, ![o].ex = n] = [l EXCEPT ![o] = [l[o] EXCEPT !.st = st, !.ex = n]]
      BY <1>0
    <2> QED BY <1>0, <2>1, <2>2
  <1>3. ASSUME NEW c \in BOOLEAN PROVE [l EXCEPT ![o].canc = c] \in [Orders -> LState]
    <2>1. [l[o] EXCEPT !.canc = c] \in LState
      BY <1>0 DEF LState
    <2> QED BY <1>0, <2>1
  <1> QED BY <1>0, <1>1, <1>2, <1>3

LEMMA CancelMarkType ==
  ASSUME DataOK, NEW o \in Orders PROVE [l EXCEPT ![o].st = "CANCELED"] \in [Orders -> LState]
  <1>1. "CANCELED" \in LStatus
    BY DEF LStatus
  <1> QED BY <1>1, MarkType

LEMMA CanceledIsStatus == "CANCELED" \in LStatus /\ Filled \subseteq LStatus
  BY DEF LStatus, Filled, Active

LEMMA LearnType ==
  ASSUME TypeInv, NEW t \in Threads, NEW o \in Orders, NEW st, NEW ex \in 0..Qty,
         NEW loc, Fits(loc), Learn(t, o, st, ex, loc)
  PROVE  ThreadsOK' /\ l' \in [Orders -> LState]
  <1>1. CASE st \in Filled
    <2> DEFINE r == [loc EXCEPT !.pc = "remainder", !.o = o,
                                !.newly = IF IsNew(o, ex) THEN @ \cup {o} ELSE @]
    <2>1. Fits(r)
      BY DEF Fits, Local
    <2>2. ThreadsOK'
      BY <1>1, <2>1, Move DEF TypeInv, Learn
    <2>3. l' \in [Orders -> LState]
      <3>1. l' = [l EXCEPT ![o].st = st, ![o].ex = ex]
        BY <1>1 DEF Learn
      <3>2. st \in LStatus
        BY <1>1, CanceledIsStatus
      <3> QED BY <3>1, <3>2, MarkType DEF TypeInv
    <2> QED BY <2>2, <2>3
  <1>2. CASE st \notin Filled
    <2>1. ThreadsOK'
      BY <1>2, Move DEF TypeInv, Learn
    <2>2. l' \in [Orders -> LState]
      <3>1. l' = [l EXCEPT ![o].st = "CANCELED"] \/ l' = l
        BY <1>2 DEF Learn
      <3>2. l \in [Orders -> LState] /\ [l EXCEPT ![o].st = "CANCELED"] \in [Orders -> LState]
        BY CancelMarkType DEF TypeInv, DataOK
      <3> QED BY <3>1, <3>2
    <2> QED BY <2>1, <2>2
  <1> QED BY <1>1, <1>2

LEMMA AfterRemainderFits ==
  ASSUME NEW t \in Threads, NEW loc, Fits(loc), loc.o \in Orders
  PROVE  Fits(AfterRemainder(t, loc))
  <1>1. Fits([loc EXCEPT !.pc = "check", !.ans = "none"])
    BY DEF Fits, Local
  <1>2. Fits([loc EXCEPT !.pc = "poll", !.ans = "none", !.o = NoOrder])
    BY DEF Fits, Local, Acting
  <1>3. Fits([loc EXCEPT !.pc = "register", !.ans = "none"])
    BY DEF Fits, Local
  <1>4. CASE t = "feed"
    BY <1>1, <1>4 DEF AfterRemainder
  <1>5. CASE t = "main"
    BY <1>2, <1>5 DEF AfterRemainder
  <1>6. CASE t # "feed" /\ t # "main"
    BY <1>3, <1>6, RestFits DEF AfterRemainder
  <1> QED BY <1>4, <1>5, <1>6

LEMMA CancelCallType ==
  ASSUME TypeInv, NEW o \in Orders, NEW r, CancelCall(o, r)
  PROVE  /\ x' \in [Orders -> XState] /\ wire' \in Seq(Message)
         /\ used' \in [faults : Nat, commands : Nat, closes : Nat]
         /\ abandoned' \subseteq Orders
  <1>1. "CANCELED" \in XStatus /\ x[o].ex \in 0..Qty
    BY DEF XStatus, TypeInv, DataOK, XState
  <1>2. used' \in [faults : Nat, commands : Nat, closes : Nat]
    BY FaultType DEF CancelCall, TypeInv, DataOK
  <1>3. x' \in [Orders -> XState] /\ wire' \in Seq(Message)
    <2>1. CASE Becomes(o, "CANCELED", x[o].ex)
      BY <1>1, <2>1, BecomesType DEF TypeInv
    <2>2. CASE UNCHANGED exchange
      BY <2>2 DEF TypeInv, DataOK, exchange
    <2> QED BY <2>1, <2>2 DEF CancelCall, Ends
  <1>4. abandoned' \subseteq Orders
    <2>1. abandoned \subseteq Orders
      BY DEF TypeInv, DataOK
    <2>2. abandoned' = abandoned \/ abandoned' = abandoned \cup {o}
      BY DEF CancelCall
    <2> QED BY <2>1, <2>2
  <1> QED BY <1>2, <1>3, <1>4

LEMMA RemainderType == ASSUME TypeInv, NEW t \in Threads, Remainder(t) PROVE TypeInv'
  <1> DEFINE o == th[t].o
  <1>0. o \in Orders /\ Fits(th[t])
    BY ThreadFits DEF TypeInv, Remainder, At, Fits, Acting
  <1>1. CASE /\ Goes(t, AfterRemainder(t, th[t]))
             /\ UNCHANGED <<exchange, l, used, abandoned>>
    <2>1. ThreadsOK'
      BY <1>0, <1>1, AfterRemainderFits, Move DEF TypeInv
    <2>2. DataOK'
      BY <1>1 DEF TypeInv, DataOK, Remainder, exchange, book
    <2> QED BY <2>1, <2>2 DEF TypeInv
  <1>2. ASSUME NEW r \in {"CANCELED", "REJECTED", "ERROR"},
               l' = [l EXCEPT ![o].canc = TRUE], CancelCall(o, r),
               Goes(t, [th[t] EXCEPT !.pc = "remainderAns", !.ans = r])
        PROVE  TypeInv'
    <2>1. Fits([th[t] EXCEPT !.pc = "remainderAns", !.ans = r])
      BY <1>0 DEF Fits, Local
    <2>2. ThreadsOK'
      BY <1>2, <2>1, Move DEF TypeInv
    <2>3. l' \in [Orders -> LState]
      BY <1>0, <1>2, MarkType, CanceledIsStatus DEF TypeInv
    <2>4. DataOK'
      BY <1>0, <1>2, <2>3, CancelCallType DEF TypeInv, DataOK, Remainder, book
    <2> QED BY <2>2, <2>4 DEF TypeInv
  <1> QED BY <1>1, <1>2 DEF Remainder

LEMMA RemainderAnswerType ==
  ASSUME TypeInv, NEW t \in Threads, RemainderAnswer(t) PROVE TypeInv'
  <1>0. th[t].o \in Orders /\ Fits(th[t])
    BY ThreadFits DEF TypeInv, RemainderAnswer, At, Fits, Acting
  <1>1. ThreadsOK'
    BY <1>0, AfterRemainderFits, Move DEF TypeInv, RemainderAnswer
  <1>2. l' \in [Orders -> LState]
    BY <1>0, MarkType, CanceledIsStatus DEF TypeInv, RemainderAnswer
  <1>3. DataOK'
    BY <1>2 DEF TypeInv, DataOK, RemainderAnswer, exchange, book
  <1> QED BY <1>1, <1>3 DEF TypeInv

LEMMA CancelType == ASSUME TypeInv, NEW t \in Threads, Cancel(t) PROVE TypeInv'
  <1>0. th[t].o \in Orders /\ Fits(th[t])
    BY ThreadFits DEF TypeInv, Cancel, At, Fits, Acting
  <1>1. PICK r \in {"CANCELED", "REJECTED", "ERROR"} :
          CancelCall(th[t].o, r) /\ Goes(t, [th[t] EXCEPT !.pc = "cancelAns", !.ans = r])
    BY DEF Cancel
  <1>2. Fits([th[t] EXCEPT !.pc = "cancelAns", !.ans = r])
    BY <1>0 DEF Fits, Local
  <1>3. ThreadsOK'
    BY <1>1, <1>2, Move DEF TypeInv
  <1>4. DataOK'
    BY <1>0, <1>1, CancelCallType DEF TypeInv, DataOK, Cancel, book
  <1> QED BY <1>3, <1>4 DEF TypeInv

LEMMA CancelAnswerType == ASSUME TypeInv, NEW t \in Threads, CancelAnswer(t) PROVE TypeInv'
  <1>0. th[t].o \in Orders /\ Fits(th[t])
    BY ThreadFits DEF TypeInv, CancelAnswer, At, Fits, Acting
  <1>1. ThreadsOK'
    <2>1. t = "cmd" => Fits([th["cmd"] EXCEPT !.pc = "stop", !.o = NoOrder, !.ans = "none"])
      BY <1>0 DEF Fits, Local, Acting
    <2> QED BY <2>1, RestFits, Move DEF TypeInv, CancelAnswer, Leave
  <1>2. l' \in [Orders -> LState]
    BY <1>0, MarkType, CanceledIsStatus DEF TypeInv, DataOK, CancelAnswer
  <1>3. DataOK'
    BY <1>2 DEF TypeInv, DataOK, CancelAnswer, exchange, book
  <1> QED BY <1>1, <1>3 DEF TypeInv

-----------------------------------------------------------------------------

LEMMA PollStartType == ASSUME TypeInv, PollStart PROVE TypeInv'
  <1>1. Fits([th["main"] EXCEPT !.pc = "poll", !.todo = {o \in Orders : l[o].st # "NONE"}])
    BY ThreadFits DEF TypeInv, Fits, Local, Threads, Acting
  <1>2. ThreadsOK'
    BY <1>1, Move DEF TypeInv, PollStart, Threads
  <1>3. DataOK'
    BY DEF TypeInv, PollStart, DataOK, exchange, book
  <1> QED BY <1>2, <1>3 DEF TypeInv

LEMMA PollQueryType == ASSUME TypeInv, PollQuery PROVE TypeInv'
  <1>1. PICK o \in ToPoll :
          LET loc == [th["main"] EXCEPT !.todo = @ \ {o}] IN
          \/ /\ Goes("main", [loc EXCEPT !.pc = "apply", !.o = o, !.view = x[o]])
             /\ UNCHANGED used
          \/ Fault /\ Goes("main", loc)
    BY DEF PollQuery
  <1> DEFINE loc == [th["main"] EXCEPT !.todo = @ \ {o}]
  <1>2. o \in Orders /\ Fits(th["main"])
    BY ThreadFits, FieldTypes DEF TypeInv, Threads, ToPoll
  <1>3. Fits(loc)
    BY <1>2 DEF Fits, Local, PollQuery, At
  <1>4. Fits([loc EXCEPT !.pc = "apply", !.o = o, !.view = x[o]])
    <2>1. x[o] \in [st : XStatus \cup {"REJECTED"}, ex : 0..Qty]
      BY <1>2 DEF TypeInv, DataOK, XState
    <2> HIDE DEF loc
    <2> QED BY <1>2, <1>3, <2>1 DEF Fits, Local
  <1>5. ThreadsOK'
    BY <1>1, <1>3, <1>4, Move DEF TypeInv, Threads
  <1>6. used' \in [faults : Nat, commands : Nat, closes : Nat]
    BY <1>1, FaultType DEF TypeInv, DataOK
  <1>7. DataOK'
    BY <1>6 DEF TypeInv, PollQuery, DataOK, exchange, book
  <1> QED BY <1>5, <1>7 DEF TypeInv

LEMMA PollApplyType == ASSUME TypeInv, PollApply PROVE TypeInv'
  <1> DEFINE m == th["main"]
             loc == [m EXCEPT !.pc = "poll", !.o = NoOrder, !.view = NoView]
  <1>1. m.o \in Orders /\ m.view.ex \in 0..Qty /\ Fits(m)
    BY ThreadFits, FieldTypes DEF TypeInv, PollApply, At, Threads, Acting
  <1>2. Fits(loc)
    <2>1. NoView \in [st : XStatus \cup {"REJECTED"}, ex : 0..Qty]
      BY DEF NoView, XStatus
    <2> QED BY <1>1, <2>1 DEF Fits, Local, Acting
  <1>3. Learn("main", m.o, m.view.st, m.view.ex, loc) /\ "main" \in Threads
    BY DEF PollApply, Threads
  <1>4. ThreadsOK' /\ l' \in [Orders -> LState]
    <2> HIDE DEF m, loc
    <2> QED BY <1>1, <1>2, <1>3, LearnType
  <1>5. DataOK'
    BY <1>4 DEF TypeInv, PollApply, DataOK, exchange, book
  <1> QED BY <1>4, <1>5 DEF TypeInv

LEMMA PollDoneType == ASSUME TypeInv, PollDone PROVE TypeInv'
  <1>1. Fits([th["main"] EXCEPT !.pc = "register", !.todo = {}])
    BY ThreadFits DEF TypeInv, Fits, Local, Threads, Acting
  <1>2. ThreadsOK'
    BY <1>1, RestFits, Move DEF TypeInv, PollDone, Leave, Threads
  <1>3. DataOK'
    BY DEF TypeInv, PollDone, DataOK, exchange, book
  <1> QED BY <1>2, <1>3 DEF TypeInv

LEMMA PendingTimeoutType ==
  ASSUME TypeInv, NEW o \in Orders, PendingTimeout(o) PROVE TypeInv'
  <1>1. Fits([th["main"] EXCEPT !.pc = "cancel", !.o = o])
    BY ThreadFits DEF TypeInv, Fits, Local, Threads, Acting
  <1>2. ThreadsOK'
    BY <1>1, Move DEF TypeInv, PendingTimeout, Threads
  <1>3. DataOK'
    BY DEF TypeInv, PendingTimeout, DataOK, exchange, book
  <1> QED BY <1>2, <1>3 DEF TypeInv

LEMMA PushType == ASSUME TypeInv, Push PROVE TypeInv'
  <1> DEFINE m == Head(wire)
  <1>1. m \in Message /\ wire' \in Seq(Message)
    BY DEF TypeInv, DataOK, Push
  <1>2. m.o \in Orders /\ m.ex \in 0..Qty /\ "stream" \in Threads
    BY <1>1 DEF Message, Threads
  <1>3. ThreadsOK' /\ l' \in [Orders -> LState]
    <2>1. CASE l[m.o].st = "NONE"
      BY <2>1, Stay DEF TypeInv, DataOK, Push
    <2>2. CASE l[m.o].st # "NONE"
      <3>1. Learn("stream", m.o, m.st, m.ex, Rest)
        BY <2>2 DEF Push
      <3> HIDE DEF m
      <3> QED BY <1>2, <3>1, RestFits, LearnType
    <2> QED BY <2>1, <2>2
  <1>4. DataOK'
    BY <1>1, <1>3 DEF TypeInv, Push, DataOK, book
  <1> QED BY <1>3, <1>4 DEF TypeInv

-----------------------------------------------------------------------------

LEMMA CommandType ==
  ASSUME TypeInv, Command PROVE used' \in [faults : Nat, commands : Nat, closes : Nat]
  BY DEF TypeInv, DataOK, Command

LEMMA EmergencyStopType == ASSUME TypeInv, EmergencyStop PROVE TypeInv'
  <1>1. Fits([th["cmd"] EXCEPT !.pc = "stop", !.todo = {o \in Orders : l[o].st \in Active}])
    BY ThreadFits DEF TypeInv, Fits, Local, Threads, Acting
  <1>2. ThreadsOK'
    BY <1>1, Move DEF TypeInv, EmergencyStop, Threads
  <1>3. DataOK'
    BY CommandType DEF TypeInv, EmergencyStop, DataOK, exchange, book
  <1> QED BY <1>2, <1>3 DEF TypeInv

LEMMA StopNextType == ASSUME TypeInv, StopNext PROVE TypeInv'
  <1>0. Fits(th["cmd"]) /\ th["cmd"].todo \in SUBSET Orders /\ At("cmd", "stop")
    BY ThreadFits, FieldTypes DEF TypeInv, Threads, StopNext
  <1>1. \A o \in th["cmd"].todo :
          /\ Fits([th["cmd"] EXCEPT !.todo = th["cmd"].todo \ {o}])
          /\ Fits([th["cmd"] EXCEPT !.pc = "cancel", !.o = o, !.todo = th["cmd"].todo \ {o}])
    BY <1>0 DEF Fits, Local, At
  <1>2. ThreadsOK'
    BY <1>1, RestFits, Move DEF TypeInv, StopNext, Leave, Threads
  <1>3. DataOK'
    BY DEF TypeInv, StopNext, DataOK, exchange, book
  <1> QED BY <1>2, <1>3 DEF TypeInv

LEMMA ResumePauseType == ASSUME TypeInv, Resume \/ Pause PROVE TypeInv'
  <1>1. ThreadsOK'
    BY Stay DEF TypeInv, Resume, Pause
  <1>2. DataOK'
    BY CommandType DEF TypeInv, Resume, Pause, DataOK, exchange, book
  <1> QED BY <1>1, <1>2 DEF TypeInv

LEMMA CancelAllType == ASSUME TypeInv, CancelAll PROVE TypeInv'
  <1>1. Fits([th["cmd"] EXCEPT !.pc = "bulk", !.todo = {o \in Orders : x[o].st \in Live}])
    BY ThreadFits DEF TypeInv, Fits, Local, Threads, Acting
  <1>2. ThreadsOK'
    BY <1>1, Move DEF TypeInv, CancelAll, Threads
  <1>3. DataOK'
    BY CommandType DEF TypeInv, CancelAll, DataOK, exchange, book
  <1> QED BY <1>2, <1>3 DEF TypeInv

LEMMA BulkCancelType == ASSUME TypeInv, BulkCancel PROVE TypeInv'
  <1>0. Fits(th["cmd"]) /\ th["cmd"].todo \in SUBSET Orders /\ At("cmd", "bulk")
    BY ThreadFits, FieldTypes DEF TypeInv, Threads, BulkCancel
  <1>1. PICK o \in th["cmd"].todo :
          /\ Goes("cmd", [th["cmd"] EXCEPT !.todo = @ \ {o}])
          /\ IF x[o].st \in Live THEN Becomes(o, "CANCELED", x[o].ex) ELSE UNCHANGED exchange
    BY DEF BulkCancel
  <1>2. Fits([th["cmd"] EXCEPT !.todo = @ \ {o}])
    BY <1>0 DEF Fits, Local, At
  <1>3. ThreadsOK'
    BY <1>1, <1>2, Move DEF TypeInv, Threads
  <1>4. o \in Orders /\ "CANCELED" \in XStatus /\ x[o].ex \in 0..Qty
    BY <1>0 DEF XStatus, TypeInv, DataOK, XState
  <1>5. x' \in [Orders -> XState] /\ wire' \in Seq(Message)
    BY <1>1, <1>4, BecomesType DEF TypeInv, DataOK, exchange
  <1>6. DataOK'
    BY <1>5 DEF TypeInv, BulkCancel, DataOK, book
  <1> QED BY <1>3, <1>6 DEF TypeInv

LEMMA BulkReturnType == ASSUME TypeInv, BulkReturn PROVE TypeInv'
  <1>1. Fits([th["cmd"] EXCEPT !.pc = "mark", !.todo = {o \in Orders : l[o].st \in Active}])
    BY ThreadFits DEF TypeInv, Fits, Local, Threads, Acting
  <1>2. ThreadsOK'
    BY <1>1, Move DEF TypeInv, BulkReturn, Threads
  <1>3. used' \in [faults : Nat, commands : Nat, closes : Nat]
    BY FaultType DEF TypeInv, DataOK, BulkReturn
  <1>4. DataOK'
    BY <1>3 DEF TypeInv, BulkReturn, DataOK, exchange, book
  <1> QED BY <1>2, <1>4 DEF TypeInv

LEMMA BulkMarkType == ASSUME TypeInv, BulkMark PROVE TypeInv'
  <1>0. Fits(th["cmd"]) /\ th["cmd"].todo \in SUBSET Orders /\ At("cmd", "mark")
    BY ThreadFits, FieldTypes DEF TypeInv, Threads, BulkMark
  <1>1. \A o \in th["cmd"].todo : Fits([th["cmd"] EXCEPT !.todo = th["cmd"].todo \ {o}])
    BY <1>0 DEF Fits, Local, At
  <1>2. ThreadsOK'
    BY <1>1, RestFits, Move DEF TypeInv, BulkMark, Leave, Threads
  <1>3. l' \in [Orders -> LState]
    <2>1. l' = l \/ \E o \in Orders : l' = [l EXCEPT ![o].st = "CANCELED"]
      BY <1>0 DEF BulkMark
    <2>2. l \in [Orders -> LState]
      BY DEF TypeInv, DataOK
    <2>3. \A o \in Orders : [l EXCEPT ![o].st = "CANCELED"] \in [Orders -> LState]
      BY CancelMarkType DEF TypeInv
    <2> QED BY <2>1, <2>2, <2>3
  <1>4. abandoned' \subseteq Orders
    BY <1>0 DEF TypeInv, DataOK, BulkMark
  <1>5. DataOK'
    BY <1>3, <1>4 DEF TypeInv, BulkMark, DataOK, exchange, book
  <1> QED BY <1>2, <1>5 DEF TypeInv

-----------------------------------------------------------------------------

LEMMA ExchangeType == ASSUME TypeInv, Exchange PROVE TypeInv'
  <1>1. ASSUME NEW o \in Orders, Fill(o) PROVE TypeInv'
    <2>1. PICK n \in (x[o].ex + 1)..Qty : Becomes(o, Working(n), n)
      BY <1>1 DEF Fill
    <2>2. n \in 0..Qty /\ Working(n) \in XStatus
      BY <2>1 DEF TypeInv, DataOK, XState, Working, XStatus, Live
    <2>3. DataOK'
      BY <1>1, <2>1, <2>2, BecomesType DEF TypeInv, Fill, DataOK, book
    <2> QED BY <1>1, <2>3, Stay DEF TypeInv, Fill
  <1>2. ASSUME NEW o \in Orders, Expire(o) PROVE TypeInv'
    <2>1. "CANCELED" \in XStatus /\ x[o].ex \in 0..Qty
      BY DEF XStatus, TypeInv, DataOK, XState
    <2>2. DataOK'
      BY <1>2, <2>1, BecomesType DEF TypeInv, Expire, DataOK, book
    <2> QED BY <1>2, <2>2, Stay DEF TypeInv, Expire
  <1>3. CASE StreamDrop
    <2>1. wire' \in Seq(Message)
      BY <1>3 DEF StreamDrop
    <2>2. DataOK'
      BY <1>3, <2>1, FaultType DEF TypeInv, StreamDrop, DataOK, book
    <2> QED BY <1>3, <2>2, Stay DEF TypeInv, StreamDrop
  <1>4. CASE ClosePosition
    <2>1. DataOK'
      BY <1>4 DEF TypeInv, ClosePosition, DataOK, exchange
    <2> QED BY <1>4, <2>1, Stay DEF TypeInv, ClosePosition
  <1> QED BY <1>1, <1>2, <1>3, <1>4 DEF Exchange

LEMMA StutterType == ASSUME TypeInv, UNCHANGED vars PROVE TypeInv'
  BY Stay DEF TypeInv, DataOK, vars, exchange, book

LEMMA NextType == ASSUME TypeInv, Next PROVE TypeInv'
  <1>0. "feed" \in Threads /\ "main" \in Threads /\ "stream" \in Threads /\ "cmd" \in Threads
    BY DEF Threads
  <1>1. CASE \E o \in Orders : Signal(o)
    BY <1>1, SignalType
  <1>2. CASE Feed
    BY <1>0, <1>2, PlaceAcceptedType, PlaceFailedType, FeedAppendType, FeedCheckType,
       FeedProtectType, FeedOpenType, RemainderType, RemainderAnswerType DEF Feed
  <1>3. CASE Poll
    BY <1>0, <1>3, PollStartType, PollQueryType, PollApplyType, PollDoneType, RegisterType,
       UpdateType, ProtectFillType, RemainderType, RemainderAnswerType DEF Poll
  <1>4. CASE Timeouts
    BY <1>0, <1>4, PendingTimeoutType, CancelType, CancelAnswerType DEF Timeouts
  <1>5. CASE Stream
    BY <1>0, <1>5, PushType, RegisterType, UpdateType, ProtectFillType, RemainderType,
       RemainderAnswerType DEF Stream
  <1>6. CASE Commands
    BY <1>0, <1>6, EmergencyStopType, StopNextType, ResumePauseType, CancelAllType,
       BulkCancelType, BulkReturnType, BulkMarkType, CancelType, CancelAnswerType DEF Commands
  <1>7. CASE Exchange
    BY <1>7, ExchangeType
  <1> QED BY <1>1, <1>2, <1>3, <1>4, <1>5, <1>6, <1>7 DEF Next

LEMMA TypeInvImpliesTypeOK == TypeInv => TypeOK
  BY DEF TypeInv, TypeOK, DataOK, ThreadsOK

(* Type correctness: at every moment, whatever the interleaving, each thread *)
(* is at a place of its handler and each variable has its type.              *)
THEOREM TypeCorrect == Spec => []TypeOK
  <1>1. TypeInv /\ [Next]_vars => TypeInv'
    BY NextType, StutterType
  <1> QED BY <1>1, InitType, TypeInvImpliesTypeOK, PTL DEF Spec

LEMMA TypeInvariant == Spec => []TypeInv
  <1>1. TypeInv /\ [Next]_vars => TypeInv'
    BY NextType, StutterType
  <1> QED BY <1>1, InitType, PTL DEF Spec

-----------------------------------------------------------------------------
(* It has been true of order o, and is no promise about now, that it had ex *)
(* lots executed and status st.                                             *)
Past(o, st, ex) ==
  /\ ex <= x[o].ex
  /\ st = "FILLED" => x[o].st = "FILLED" /\ ex = Qty
  /\ st \in Filled => ex > 0
  /\ st = "CANCELED" => x[o].st = "CANCELED"

ExchangeOK == \A o \in Orders : /\ x[o].st = "NONE" => x[o].ex = 0
                                /\ x[o].st = "FILLED" => x[o].ex = Qty
                                /\ x[o].st = "PARTIALLY_FILLED" => x[o].ex > 0

WireOK == \A i \in 1..Len(wire) : Past(wire[i].o, wire[i].st, wire[i].ex)

LocalOK == /\ LocalNeverAhead
           /\ GivenUpIsDead
           /\ \A o \in Orders : l[o].st \in Filled => l[o].ex > 0

(* What thread t may rely on while its record is r. *)
Placing(t, r) ==
  /\ t = "feed" /\ r.pc \in {"place", "append"} => l[r.o].st = "NONE"
  /\ t = "feed" /\ r.pc = "place" => x[r.o].st = "NONE"
  /\ t = "feed" /\ r.pc = "append" =>
       /\ r.view.st # "NONE"
       /\ r.view.st = "REJECTED" =>
            r.view.ex = 0 /\ (x[r.o].st \notin Live \/ r.o \in abandoned)
       /\ r.view.st # "REJECTED" => Past(r.o, r.view.st, r.view.ex)
Knowing(t, r) ==
  /\ t # "feed" /\ r.pc \in Acting => l[r.o].st # "NONE"
  /\ \A o \in r.newly : l[o].st # "NONE" /\ l[o].ex > 0
  /\ t = "cmd" /\ r.pc \in {"stop", "mark", "cancel", "cancelAns"} =>
       \A o \in r.todo : l[o].st # "NONE"
Answered(r) ==
  /\ r.pc = "apply" => Past(r.o, r.view.st, r.view.ex)
  /\ r.pc \in {"remainderAns", "cancelAns"} /\ r.ans # "ERROR" =>
       x[r.o].st \notin Live \/ r.o \in abandoned
  /\ r.pc = "update" => r.held + r.view.ex <= x[r.o].ex
Fine(t, r) == Placing(t, r) /\ Knowing(t, r) /\ Answered(r)

SafeData == ExchangeOK /\ WireOK /\ LocalOK /\ RegisteredIsExecuted
SafeInv  == SafeData /\ \A t \in Threads : Fine(t, th[t])

LEMMA InitSafe == Init => SafeInv
  <1> SUFFICES ASSUME Init PROVE SafeInv
    OBVIOUS
  <1>1. ExchangeOK /\ LocalOK
    BY DEF Init, ExchangeOK, LocalOK, LocalNeverAhead, GivenUpIsDead, NoView, Live, Filled
  <1>2. WireOK /\ RegisteredIsExecuted
    BY DEF Init, WireOK, RegisteredIsExecuted
  <1>3. \A t \in Threads : th[t] = Rest
    BY DEF Init
  <1>4. \A t \in Threads : Fine(t, th[t])
    BY <1>3 DEF Fine, Placing, Knowing, Answered, Rest, Acting
  <1> QED BY <1>1, <1>2, <1>4 DEF SafeInv, SafeData

-----------------------------------------------------------------------------
(* How a step of thread t (Free: of none) leaves the others undisturbed. *)

(* Executions grow, and an order that has ended stays as it is. *)
Grows == \A p \in Orders : /\ x[p].ex <= x'[p].ex
                           /\ x[p].st \in {"FILLED", "CANCELED"} => x'[p] = x[p]

(* Only the feed thread, placing its order, makes an order live. *)
NoneBorn(t) ==
  \A p \in Orders :
     \/ t = "feed" /\ th["feed"].pc = "place" /\ p = th["feed"].o
     \/ /\ x[p].st \notin Live => x'[p].st \notin Live
        /\ x[p].st = "NONE" => x'[p].st = "NONE"

(* What the order list knows it does not forget, and only the feed thread   *)
(* enters an order.                                                         *)
KeepsList(t) ==
  \A p \in Orders : /\ l[p].st # "NONE" => l'[p].st # "NONE"
                    /\ l[p].st # "NONE" /\ l[p].ex > 0 => l'[p].ex > 0
                    /\ l[p].st = "NONE" /\ t # "feed" => l'[p].st = "NONE"

Tame(t) == Grows /\ NoneBorn(t) /\ KeepsList(t) /\ abandoned \subseteq abandoned'

LEMMA PastStays ==
  ASSUME TypeInv, TypeInv', Grows, NEW o \in Orders, NEW st, NEW ex \in 0..Qty, Past(o, st, ex)
  PROVE  /\ ex <= x'[o].ex
         /\ st = "FILLED" => x'[o].st = "FILLED" /\ ex = Qty
         /\ st \in Filled => ex > 0
         /\ st = "CANCELED" => x'[o].st = "CANCELED"
  <1>1. x[o].ex \in 0..Qty /\ x'[o].ex \in 0..Qty
    BY DEF TypeInv, DataOK, XState
  <1> QED BY <1>1 DEF Past, Grows

LEMMA OtherStaysFine ==
  ASSUME TypeInv, TypeInv', SafeInv, NEW t, Tame(t), NEW u \in Threads, u # t, th'[u] = th[u]
  PROVE  Fine(u, th[u])'
  <1> DEFINE r == th[u]
  <1>0. Fine(u, r) /\ Fits(r)
    BY ThreadFits DEF SafeInv, TypeInv
  <1>1. /\ r.view.ex \in 0..Qty /\ r.held \in 0..Qty /\ r.newly \in SUBSET Orders
        /\ r.todo \in SUBSET Orders /\ (r.pc \in Acting => r.o \in Orders)
    BY <1>0, FieldTypes
  <1>2. Placing(u, th[u])'
    <2>1. CASE u = "feed" /\ r.pc \in {"place", "append"}
      <3>1. r.o \in Orders /\ l[r.o].st = "NONE" /\ t # "feed"
        BY <1>0, <1>1, <2>1 DEF Acting, Fine, Placing
      <3>2. l'[r.o].st = "NONE"
        BY <3>1 DEF Tame, KeepsList
      <3>3. r.pc = "place" => x'[r.o].st = "NONE"
        BY <1>0, <2>1, <3>1 DEF Tame, NoneBorn, Fine, Placing
      <3>4. CASE r.pc = "append"
        <4>1. r.view.st = "REJECTED" =>
                r.view.ex = 0 /\ (x'[r.o].st \notin Live \/ r.o \in abandoned')
          BY <1>0, <2>1, <3>1, <3>4 DEF Tame, NoneBorn, Fine, Placing
        <4>2. r.view.st # "REJECTED" =>
                /\ r.view.ex <= x'[r.o].ex
                /\ r.view.st = "FILLED" => x'[r.o].st = "FILLED" /\ r.view.ex = Qty
                /\ r.view.st \in Filled => r.view.ex > 0
                /\ r.view.st = "CANCELED" => x'[r.o].st = "CANCELED"
          BY <1>0, <1>1, <2>1, <3>1, <3>4, PastStays DEF Tame, Fine, Placing
        <4>3. r.view.st # "NONE"
          BY <1>0, <2>1, <3>4 DEF Fine, Placing
        <4> QED BY <3>2, <3>4, <4>1, <4>2, <4>3 DEF Placing, Past
      <3> QED BY <2>1, <3>2, <3>3, <3>4 DEF Placing
    <2> QED BY <2>1 DEF Placing
  <1>3. Knowing(u, th[u])'
    <2>1. u # "feed" /\ r.pc \in Acting => l'[r.o].st # "NONE"
      BY <1>0, <1>1 DEF Tame, KeepsList, Fine, Knowing
    <2>2. \A o \in r.newly : l'[o].st # "NONE" /\ l'[o].ex > 0
      BY <1>0, <1>1 DEF Tame, KeepsList, Fine, Knowing
    <2>3. u = "cmd" /\ r.pc \in {"stop", "mark", "cancel", "cancelAns"} =>
            \A o \in r.todo : l'[o].st # "NONE"
      BY <1>0, <1>1 DEF Tame, KeepsList, Fine, Knowing
    <2> QED BY <2>1, <2>2, <2>3 DEF Knowing
  <1>4. Answered(th[u])'
    <2>1. CASE r.pc = "apply"
      <3>1. r.o \in Orders /\ Past(r.o, r.view.st, r.view.ex)
        BY <1>0, <1>1, <2>1 DEF Acting, Fine, Answered
      <3> QED BY <1>1, <2>1, <3>1, PastStays DEF Tame, Answered, Past
    <2>2. CASE r.pc \in {"remainderAns", "cancelAns"} /\ r.ans # "ERROR"
      <3>1. r.o \in Orders /\ (x[r.o].st \notin Live \/ r.o \in abandoned)
        BY <1>0, <1>1, <2>2 DEF Acting, Fine, Answered
      <3>2. ~(t = "feed" /\ th["feed"].pc = "place" /\ r.o = th["feed"].o)
        <4> SUFFICES ASSUME t = "feed", th["feed"].pc = "place", r.o = th["feed"].o PROVE FALSE
          OBVIOUS
        <4>1. l[th["feed"].o].st = "NONE"
          BY DEF SafeInv, Fine, Placing, Threads
        <4>2. l[r.o].st # "NONE"
          BY <1>0, <2>2 DEF Fine, Knowing, Acting
        <4> QED BY <4>1, <4>2
      <3>3. x'[r.o].st \notin Live \/ r.o \in abandoned'
        BY <3>1, <3>2 DEF Tame, NoneBorn
      <3> QED BY <2>2, <3>3 DEF Answered
    <2>3. CASE r.pc = "update"
      <3>1. r.o \in Orders /\ r.held + r.view.ex <= x[r.o].ex
        BY <1>0, <1>1, <2>3 DEF Acting, Fine, Answered
      <3>2. x[r.o].ex \in Nat /\ x'[r.o].ex \in Nat /\ x[r.o].ex <= x'[r.o].ex
        BY <3>1 DEF TypeInv, DataOK, XState, Tame, Grows
      <3>3. r.held + r.view.ex <= x'[r.o].ex
        BY <1>1, <3>1, <3>2
      <3> QED BY <2>3, <3>3 DEF Answered
    <2> QED BY <2>1, <2>2, <2>3 DEF Answered
  <1> QED BY <1>2, <1>3, <1>4 DEF Fine

-----------------------------------------------------------------------------
(* Changes of the exchange. *)

LEMMA WireStays ==
  ASSUME TypeInv, TypeInv', Grows, WireOK, wire' = wire PROVE WireOK'
  <1> SUFFICES ASSUME NEW i \in 1..Len(wire)
               PROVE  Past(wire[i].o, wire[i].st, wire[i].ex)'
    BY DEF WireOK
  <1>1. wire[i] \in Message
    BY DEF TypeInv, DataOK
  <1>2. wire[i].o \in Orders /\ wire[i].ex \in 0..Qty
    BY <1>1 DEF Message
  <1>3. Past(wire[i].o, wire[i].st, wire[i].ex)
    BY DEF WireOK
  <1> QED BY <1>2, <1>3, PastStays DEF Past

LEMMA BecomesSafe ==
  ASSUME TypeInv, TypeInv', SafeInv, NEW o \in Orders, NEW st, NEW n \in 0..Qty,
         Becomes(o, st, n), x[o].ex <= n, x[o].st \notin {"FILLED", "CANCELED"},
         st # "NONE", st = "FILLED" => n = Qty, st = "PARTIALLY_FILLED" => n > 0
  PROVE  Grows /\ ExchangeOK' /\ WireOK'
  <1>1. x' = [x EXCEPT ![o] = [st |-> st, ex |-> n]] /\ x \in [Orders -> XState]
    BY DEF Becomes, TypeInv, DataOK
  <1>2. \A p \in Orders : x[p].ex \in 0..Qty
    BY DEF TypeInv, DataOK, XState
  <1>3. Grows
    BY <1>1, <1>2 DEF Grows
  <1>4. ExchangeOK'
    BY <1>1 DEF ExchangeOK, SafeInv, SafeData
  <1>5. CASE wire' = wire
    BY <1>3, <1>4, <1>5, WireStays DEF SafeInv, SafeData
  <1>6. CASE wire' # wire
    <2> DEFINE m == [o |-> o, st |-> st, ex |-> n]
    <2>1. wire' = Append(wire, m) /\ wire \in Seq(Message) /\ wire' \in Seq(Message)
      BY <1>6 DEF Becomes, TypeInv, DataOK
    <2>2. Len(wire') = Len(wire) + 1 /\ Len(wire) \in Nat
      BY <2>1
    <2>3. ASSUME NEW i \in 1..Len(wire')
          PROVE  Past(wire[i].o, wire[i].st, wire[i].ex)'
      <3>1. CASE i \in 1..Len(wire)
        <4>1. wire'[i] = wire[i] /\ wire[i] \in Message
          BY <2>1, <3>1
        <4>2. wire[i].o \in Orders /\ wire[i].ex \in 0..Qty
          BY <4>1 DEF Message
        <4>3. Past(wire[i].o, wire[i].st, wire[i].ex)
          BY <3>1 DEF WireOK, SafeInv, SafeData
        <4> QED BY <1>3, <4>1, <4>2, <4>3, PastStays DEF Past
      <3>2. CASE i = Len(wire) + 1
        <4>1. wire'[i] = m
          BY <2>1, <3>2
        <4>2. x'[o].ex = n /\ x'[o].st = st
          BY <1>1
        <4> QED BY <4>1, <4>2 DEF Past, Filled
      <3> QED BY <2>2, <2>3, <3>1, <3>2
    <2>4. WireOK'
      BY <2>3 DEF WireOK
    <2> QED BY <1>3, <1>4, <2>4
  <1> QED BY <1>5, <1>6

LEMMA SameExchange ==
  ASSUME TypeInv, TypeInv', SafeInv, UNCHANGED x
  PROVE  /\ Grows /\ ExchangeOK'
         /\ \A t : NoneBorn(t)
         /\ wire' = wire => WireOK'
  <1>1. Grows
    <2>1. \A p \in Orders : x[p].ex \in 0..Qty
      BY DEF TypeInv, DataOK, XState
    <2> QED BY <2>1 DEF Grows
  <1>2. ExchangeOK'
    BY DEF SafeInv, SafeData, ExchangeOK
  <1>3. \A t : NoneBorn(t)
    BY DEF NoneBorn
  <1>4. wire' = wire => WireOK'
    BY <1>1, WireStays DEF SafeInv, SafeData
  <1> QED BY <1>1, <1>2, <1>3, <1>4

(* The exchange makes live only orders the list does not know yet. *)
LEMMA BornUnknown ==
  ASSUME SafeInv, NEW t, NoneBorn(t)
  PROVE  \A p \in Orders : l[p].st # "NONE" /\ x[p].st \notin Live => x'[p].st \notin Live
  <1>1. th["feed"].pc = "place" => l[th["feed"].o].st = "NONE"
    BY DEF SafeInv, Fine, Placing, Threads
  <1> QED BY <1>1 DEF NoneBorn

SameList == \A p \in Orders : l'[p].st = l[p].st /\ l'[p].ex = l[p].ex

(* Whatever the exchange does, the order list stays behind it. *)
LEMMA ListStays ==
  ASSUME TypeInv, TypeInv', SafeInv, NEW t, Grows, NoneBorn(t), SameList,
         abandoned \subseteq abandoned'
  PROVE  LocalOK' /\ KeepsList(t)
  <1>1. \A p \in Orders : l[p].ex \in 0..Qty /\ x[p].ex \in 0..Qty /\ x'[p].ex \in 0..Qty
    BY DEF TypeInv, DataOK, LState, XState
  <1>2. LocalNeverAhead'
    BY <1>1 DEF Grows, SafeInv, SafeData, LocalOK, LocalNeverAhead, SameList
  <1>3. GivenUpIsDead'
    BY BornUnknown DEF SafeInv, SafeData, LocalOK, GivenUpIsDead, SameList
  <1>4. (\A o \in Orders : l[o].st \in Filled => l[o].ex > 0)'
    BY DEF SafeInv, SafeData, LocalOK, SameList
  <1>5. KeepsList(t)
    BY DEF KeepsList, SameList
  <1> QED BY <1>2, <1>3, <1>4, <1>5 DEF LocalOK

LEMMA PositionStays ==
  ASSUME TypeInv, TypeInv', SafeInv, Grows, UNCHANGED pos PROVE RegisteredIsExecuted'
  <1>1. CASE pos = 0
    BY <1>1 DEF RegisteredIsExecuted
  <1>2. CASE pos # 0
    <2>1. pos \in 0..Qty /\ \A p \in Orders : x[p].ex \in 0..Qty /\ x'[p].ex \in 0..Qty
      BY DEF TypeInv, DataOK, XState
    <2>2. PICK o \in Orders : pos <= x[o].ex
      BY <1>2, <2>1 DEF SafeInv, SafeData, RegisteredIsExecuted
    <2>3. pos' <= x'[o].ex
      BY <2>1, <2>2 DEF Grows
    <2> QED BY <2>3 DEF RegisteredIsExecuted
  <1> QED BY <1>1, <1>2

(* A step that changes the exchange, and what its thread knows. *)
LEMMA ExchangeStep ==
  ASSUME TypeInv, TypeInv', SafeInv, NEW t, Grows, ExchangeOK', WireOK', NoneBorn(t), SameList,
         UNCHANGED pos, abandoned \subseteq abandoned',
         \A u \in Threads : u # t => th'[u] = th[u], t \in Threads => Fine(t, th[t])'
  PROVE  SafeInv'
  <1>1. LocalOK' /\ KeepsList(t)
    BY ListStays
  <1>2. SafeData'
    BY <1>1, PositionStays DEF SafeData
  <1>3. \A u \in Threads : Fine(u, th[u])'
    BY <1>1, OtherStaysFine DEF Tame
  <1> QED BY <1>2, <1>3 DEF SafeInv

(* A step of thread t that leaves exchange, order list and position alone   *)
(* is safe if t may rely on its new record.                                 *)
LEMMA QuietStep ==
  ASSUME TypeInv, TypeInv', SafeInv, NEW t \in Threads, UNCHANGED <<x, wire, l, pos, abandoned>>,
         \A u \in Threads : u # t => th'[u] = th[u], Fine(t, th[t])'
  PROVE  SafeInv'
  <1>1. Grows /\ ExchangeOK' /\ WireOK' /\ NoneBorn(t)
    BY SameExchange
  <1>2. SameList
    BY DEF SameList
  <1> QED BY <1>1, <1>2, ExchangeStep

(* A step of thread t on the order list. *)
LEMMA ListStep ==
  ASSUME TypeInv, TypeInv', SafeInv, NEW t \in Threads, UNCHANGED <<x, pos>>, WireOK',
         KeepsList(t), LocalOK', abandoned \subseteq abandoned',
         \A u \in Threads : u # t => th'[u] = th[u], Fine(t, th[t])'
  PROVE  SafeInv'
  <1>1. Grows /\ ExchangeOK' /\ NoneBorn(t)
    BY SameExchange
  <1>2. SafeData'
    BY <1>1, PositionStays DEF SafeData
  <1>3. \A u \in Threads : Fine(u, th[u])'
    BY <1>1, OtherStaysFine DEF Tame
  <1> QED BY <1>2, <1>3 DEF SafeInv

LEMMA GoesWhere ==
  ASSUME ThreadsOK, NEW t \in Threads, NEW r, Goes(t, r)
  PROVE  th'[t] = r /\ \A u \in Threads : u # t => th'[u] = th[u]
  BY DEF ThreadsOK, Goes

LEMMA RestFine == \A t : Fine(t, Rest)
  BY DEF Fine, Placing, Knowing, Answered, Rest, Acting

-----------------------------------------------------------------------------
(* Feed thread. *)

LEMMA SignalSafe ==
  ASSUME TypeInv, TypeInv', SafeInv, NEW o \in Orders, Signal(o) PROVE SafeInv'
  <1>1. /\ th'["feed"] = [th["feed"] EXCEPT !.pc = "place", !.o = o]
        /\ \A u \in Threads : u # "feed" => th'[u] = th[u]
        /\ "feed" \in Threads /\ Fine("feed", th["feed"]) /\ th["feed"] \in Local
    BY GoesWhere DEF TypeInv, SafeInv, Signal, Threads, ThreadsOK
  <1>2. /\ th'["feed"].pc = "place" /\ th'["feed"].o = o
        /\ th'["feed"].newly = th["feed"].newly
    BY <1>1 DEF Local
  <1>3. Fine("feed", th["feed"])'
    BY <1>1, <1>2 DEF Fine, Placing, Knowing, Answered, Signal, exchange
  <1> QED BY <1>1, <1>3, QuietStep DEF Signal, exchange, book

LEMMA PlaceAcceptedSafe ==
  ASSUME TypeInv, TypeInv', SafeInv, PlaceAccepted PROVE SafeInv'
  <1> DEFINE o == th["feed"].o
  <1>0. /\ "feed" \in Threads /\ th["feed"].pc = "place" /\ o \in Orders
        /\ Fine("feed", th["feed"]) /\ th["feed"] \in Local
    BY ThreadFits DEF TypeInv, SafeInv, PlaceAccepted, At, Threads, Acting, Fits
  <1>1. l[o].st = "NONE" /\ x[o].st = "NONE" /\ x[o].ex = 0
    BY <1>0 DEF Fine, Placing, SafeInv, SafeData, ExchangeOK
  <1>2. PICK n \in 0..Qty : \E st \in {Working(n)} \cup IF n = Qty THEN {} ELSE {"CANCELED"} :
          /\ Becomes(o, st, n)
          /\ Goes("feed", [th["feed"] EXCEPT !.pc = "append", !.view = [st |-> st, ex |-> n]])
    BY DEF PlaceAccepted
  <1>2a. PICK st \in {Working(n), "CANCELED"} :
          /\ Becomes(o, st, n)
          /\ Goes("feed", [th["feed"] EXCEPT !.pc = "append", !.view = [st |-> st, ex |-> n]])
    BY <1>2
  <1>3. /\ st \notin {"NONE", "REJECTED"} /\ (st = "FILLED" => n = Qty)
        /\ st = "PARTIALLY_FILLED" => n > 0
    BY <1>2a DEF Working
  <1>4. Grows /\ ExchangeOK' /\ WireOK'
    BY <1>0, <1>1, <1>2a, <1>3, BecomesSafe
  <1>5. x' = [x EXCEPT ![o] = [st |-> st, ex |-> n]] /\ x \in [Orders -> XState]
    BY <1>2a DEF Becomes, TypeInv, DataOK
  <1>6. NoneBorn("feed")
    BY <1>0, <1>5 DEF NoneBorn
  <1>7. /\ th'["feed"] = [th["feed"] EXCEPT !.pc = "append", !.view = [st |-> st, ex |-> n]]
        /\ \A u \in Threads : u # "feed" => th'[u] = th[u]
    BY <1>0, <1>2a, GoesWhere DEF TypeInv
  <1>8. /\ th'["feed"].pc = "append" /\ th'["feed"].o = o
        /\ th'["feed"].newly = th["feed"].newly
        /\ th'["feed"].view.st = st /\ th'["feed"].view.ex = n
    BY <1>0, <1>7 DEF Local
  <1>9. Fine("feed", th["feed"])'
    <2>1. Placing("feed", th["feed"])'
      <3>1. x'[o].st = st /\ x'[o].ex = n /\ l' = l
        BY <1>0, <1>5 DEF PlaceAccepted
      <3>2. Past(o, st, n)'
        BY <1>3, <1>8, <3>1 DEF Past, Filled
      <3> QED BY <1>1, <1>3, <1>8, <3>1, <3>2 DEF Placing, Past
    <2> QED BY <1>0, <1>8, <2>1 DEF Fine, Knowing, Answered, PlaceAccepted
  <1> QED BY <1>0, <1>4, <1>6, <1>7, <1>9, ExchangeStep DEF PlaceAccepted, book, SameList

LEMMA PlaceFailedSafe ==
  ASSUME TypeInv, TypeInv', SafeInv, PlaceFailed PROVE SafeInv'
  <1> DEFINE o == th["feed"].o
             r == [th["feed"] EXCEPT !.pc = "append", !.view = [st |-> "REJECTED", ex |-> 0]]
  <1>0. /\ "feed" \in Threads /\ th["feed"].pc = "place" /\ o \in Orders
        /\ Fine("feed", th["feed"]) /\ th["feed"] \in Local
    BY ThreadFits DEF TypeInv, SafeInv, PlaceFailed, At, Threads, Acting, Fits
  <1>1. l[o].st = "NONE" /\ x[o].st = "NONE" /\ x[o].ex = 0
    BY <1>0 DEF Fine, Placing, SafeInv, SafeData, ExchangeOK
  <1>2. th'["feed"] = r /\ \A u \in Threads : u # "feed" => th'[u] = th[u]
    BY <1>0, GoesWhere DEF TypeInv, PlaceFailed
  <1>3. /\ th'["feed"].pc = "append" /\ th'["feed"].o = o
        /\ th'["feed"].newly = th["feed"].newly
        /\ th'["feed"].view.st = "REJECTED" /\ th'["feed"].view.ex = 0
    BY <1>0, <1>2 DEF Local
  <1>4. l' = l /\ pos' = pos
    BY DEF PlaceFailed, book
  <1>5. CASE UNCHANGED <<exchange, used, abandoned>>
    <2>1. Fine("feed", th["feed"])'
      BY <1>0, <1>1, <1>3, <1>4, <1>5 DEF Fine, Placing, Knowing, Answered, exchange, Live
    <2> QED BY <1>0, <1>2, <1>4, <1>5, <2>1, QuietStep DEF exchange
  <1>6. CASE Becomes(o, "NEW", 0) /\ abandoned' = abandoned \cup {o}
    <2>1. Grows /\ ExchangeOK' /\ WireOK'
      BY <1>0, <1>1, <1>6, BecomesSafe
    <2>2. NoneBorn("feed")
      BY <1>0, <1>6 DEF NoneBorn, Becomes, TypeInv, DataOK
    <2>3. Fine("feed", th["feed"])'
      BY <1>0, <1>1, <1>3, <1>4, <1>6 DEF Fine, Placing, Knowing, Answered
    <2> QED BY <1>0, <1>2, <1>4, <1>6, <2>1, <2>2, <2>3, ExchangeStep DEF SameList
  <1> QED BY <1>5, <1>6 DEF PlaceFailed

LEMMA FeedAppendSafe ==
  ASSUME TypeInv, TypeInv', SafeInv, FeedAppend PROVE SafeInv'
  <1> DEFINE o == th["feed"].o
             v == th["feed"].view
             p == IF v.st = "PARTIALLY_FILLED" THEN "remainder" ELSE "check"
  <1>0. /\ "feed" \in Threads /\ th["feed"].pc = "append" /\ o \in Orders
        /\ Fine("feed", th["feed"]) /\ th["feed"] \in Local /\ v.ex \in 0..Qty
        /\ v.st \in XStatus \cup {"REJECTED"}
    BY ThreadFits, FieldTypes DEF TypeInv, SafeInv, FeedAppend, At, Threads, Acting, Fits
  <1>1. /\ l[o].st = "NONE" /\ v.st # "NONE"
        /\ v.st = "REJECTED" => v.ex = 0 /\ (x[o].st \notin Live \/ o \in abandoned)
        /\ v.st # "REJECTED" => Past(o, v.st, v.ex)
    BY <1>0 DEF Fine, Placing
  <1>2. /\ l' = [l EXCEPT ![o] = [st |-> LocalOf(v.st), ex |-> v.ex, canc |-> FALSE]]
        /\ l \in [Orders -> LState] /\ x' = x /\ wire' = wire /\ abandoned' = abandoned
        /\ pos' = pos
    BY DEF FeedAppend, TypeInv, DataOK, exchange, book
  <1>3. /\ th'["feed"] = [th["feed"] EXCEPT !.pc = p]
        /\ \A u \in Threads : u # "feed" => th'[u] = th[u]
    BY <1>0, GoesWhere DEF TypeInv, FeedAppend, Goto
  <1>4. /\ th'["feed"].pc \in {"remainder", "check"}
        /\ th'["feed"].newly = th["feed"].newly /\ th["feed"].newly \subseteq Orders
    BY <1>0, <1>3 DEF Local
  <1>5. l'[o].st = LocalOf(v.st) /\ l'[o].ex = v.ex /\ \A q \in Orders : q # o => l'[q] = l[q]
    BY <1>0, <1>2
  <1>6. LocalOf(v.st) \notin {"NONE", "CANCELED"} /\ (LocalOf(v.st) = "FILLED" => v.st = "FILLED")
        /\ (LocalOf(v.st) = "REJECTED" => v.st = "REJECTED")
        /\ (LocalOf(v.st) \in Filled => v.st \in Filled)
    BY <1>1 DEF LocalOf, Filled
  <1>7. KeepsList("feed")
    BY <1>1, <1>5, <1>6 DEF KeepsList
  <1>8. LocalOK'
    <2>1. v.ex <= x[o].ex
      <3>1. x[o].ex \in 0..Qty
        BY <1>0 DEF TypeInv, DataOK, XState
      <3> QED BY <1>1, <3>1 DEF Past
    <2>2. LocalNeverAhead'
      BY <1>1, <1>2, <1>5, <1>6, <2>1 DEF SafeInv, SafeData, LocalOK, LocalNeverAhead, Past
    <2>3. GivenUpIsDead'
      BY <1>1, <1>2, <1>5, <1>6 DEF SafeInv, SafeData, LocalOK, GivenUpIsDead
    <2>4. (\A q \in Orders : l[q].st \in Filled => l[q].ex > 0)'
      BY <1>1, <1>2, <1>5, <1>6 DEF SafeInv, SafeData, LocalOK, Past, Filled
    <2> QED BY <2>2, <2>3, <2>4 DEF LocalOK
  <1>9. Fine("feed", th["feed"])'
    <2>1. \A q \in th'["feed"].newly : l'[q].st # "NONE" /\ l'[q].ex > 0
      BY <1>0, <1>1, <1>4, <1>5 DEF Fine, Knowing
    <2> QED BY <1>4, <2>1 DEF Fine, Placing, Knowing, Answered
  <1> QED BY <1>0, <1>2, <1>3, <1>7, <1>8, <1>9, SameExchange, ListStep

(* After the order is appended the feed thread relies on nothing. *)
LEMMA FeedCheckSafe ==
  ASSUME TypeInv, TypeInv', SafeInv, FeedCheck PROVE SafeInv'
  <1>0. "feed" \in Threads /\ Fine("feed", th["feed"]) /\ th["feed"] \in Local
    BY ThreadFits DEF TypeInv, SafeInv, Threads, Fits
  <1>1. /\ \/ th'["feed"] = Rest
           \/ /\ th'["feed"].pc \in {"protect", "open"}
              /\ th'["feed"].newly = th["feed"].newly
        /\ \A u \in Threads : u # "feed" => th'[u] = th[u]
    <2>1. CASE Leave("feed")
      BY <1>0, <2>1, GoesWhere DEF TypeInv, Leave
    <2>2. CASE Goes("feed", [th["feed"] EXCEPT !.pc = "protect",
                                              !.view.ex = FilledOf(th["feed"].o)])
      <3>1. /\ th'["feed"] = [th["feed"] EXCEPT !.pc = "protect",
                                              !.view.ex = FilledOf(th["feed"].o)]
            /\ \A u \in Threads : u # "feed" => th'[u] = th[u]
        BY <1>0, <2>2, GoesWhere DEF TypeInv
      <3> QED BY <1>0, <3>1 DEF Local
    <2>3. CASE Goto("feed", "open")
      <3>1. /\ th'["feed"] = [th["feed"] EXCEPT !.pc = "open"]
            /\ \A u \in Threads : u # "feed" => th'[u] = th[u]
        BY <1>0, <2>3, GoesWhere DEF TypeInv, Goto
      <3> QED BY <1>0, <3>1 DEF Local
    <2> QED BY <2>1, <2>2, <2>3 DEF FeedCheck
  <1>2. l' = l /\ UNCHANGED <<x, wire, pos, abandoned>>
    BY DEF FeedCheck, exchange, book
  <1>3. Fine("feed", th["feed"])'
    <2>1. CASE th'["feed"] = Rest
      BY <2>1, RestFine DEF Fine, Placing, Knowing, Answered, Rest, Acting
    <2>2. CASE th'["feed"].pc \in {"protect", "open"} /\ th'["feed"].newly = th["feed"].newly
      BY <1>0, <1>2, <2>2 DEF Fine, Placing, Knowing, Answered
    <2> QED BY <1>1, <2>1, <2>2
  <1> QED BY <1>0, <1>1, <1>2, <1>3, QuietStep

LEMMA FeedProtectSafe ==
  ASSUME TypeInv, TypeInv', SafeInv, FeedProtect PROVE SafeInv'
  <1>0. "feed" \in Threads /\ Fine("feed", th["feed"]) /\ th["feed"] \in Local
    BY ThreadFits DEF TypeInv, SafeInv, Threads, Fits
  <1>1. /\ th'["feed"].pc = "open" /\ th'["feed"].newly = th["feed"].newly
        /\ \A u \in Threads : u # "feed" => th'[u] = th[u]
    BY <1>0, GoesWhere DEF TypeInv, FeedProtect, Goto, Local
  <1>2. l' = l /\ UNCHANGED <<x, wire, pos, abandoned>>
    BY DEF FeedProtect, exchange
  <1>3. Fine("feed", th["feed"])'
    BY <1>0, <1>1, <1>2 DEF Fine, Placing, Knowing, Answered
  <1> QED BY <1>0, <1>1, <1>2, <1>3, QuietStep

(* A step of thread t on the position. *)
LEMMA PositionStep ==
  ASSUME TypeInv, TypeInv', SafeInv, NEW t \in Threads, UNCHANGED <<x, wire, l, abandoned>>,
         RegisteredIsExecuted',
         \A u \in Threads : u # t => th'[u] = th[u], Fine(t, th[t])'
  PROVE  SafeInv'
  <1>1. Grows /\ ExchangeOK' /\ WireOK' /\ NoneBorn(t) /\ SameList
    BY SameExchange DEF SameList
  <1>2. LocalOK' /\ KeepsList(t)
    BY <1>1, ListStays
  <1>3. SafeData'
    BY <1>1, <1>2 DEF SafeData
  <1>4. \A u \in Threads : Fine(u, th[u])'
    BY <1>1, <1>2, OtherStaysFine DEF Tame
  <1> QED BY <1>3, <1>4 DEF SafeInv

LEMMA RestIsFine ==
  ASSUME NEW t \in Threads, th'[t] = Rest PROVE Fine(t, th[t])'
  BY DEF Fine, Placing, Knowing, Answered, Rest, Acting

(* What registration reads as filled has been executed. *)
LEMMA FilledOfExecuted ==
  ASSUME TypeInv, SafeInv, NEW o \in Orders, l[o].ex > 0
  PROVE  FilledOf(o) \in 1..Qty /\ FilledOf(o) <= x[o].ex
  BY FilledOfType DEF TypeInv, DataOK, LState, XState, FilledOf, SafeInv, SafeData, LocalOK,
     LocalNeverAhead

LEMMA FeedOpenSafe == ASSUME TypeInv, TypeInv', SafeInv, FeedOpen PROVE SafeInv'
  <1> DEFINE o == th["feed"].o
  <1>0. "feed" \in Threads /\ o \in Orders
    BY ThreadFits DEF TypeInv, FeedOpen, At, Threads, Acting, Fits
  <1>1. th'["feed"] = Rest /\ \A u \in Threads : u # "feed" => th'[u] = th[u]
    BY <1>0, GoesWhere DEF TypeInv, FeedOpen, Leave
  <1>2. UNCHANGED <<x, wire, l, abandoned>>
    BY DEF FeedOpen, exchange
  <1>3. RegisteredIsExecuted'
    <2>1. CASE l[o].st \in Filled
      <3>1. l[o].ex > 0
        BY <1>0, <2>1 DEF SafeInv, SafeData, LocalOK
      <3>2. pos' = FilledOf(o)
        BY <2>1 DEF FeedOpen, Tell
      <3>3. pos' <= x'[o].ex
        BY <1>0, <1>2, <3>1, <3>2, FilledOfExecuted
      <3> HIDE DEF o
      <3> QED BY <1>0, <3>3 DEF RegisteredIsExecuted
    <2>2. CASE l[o].st \notin Filled
      BY <1>2, <2>2 DEF FeedOpen, SafeInv, SafeData, RegisteredIsExecuted
    <2> QED BY <2>1, <2>2
  <1> QED BY <1>0, <1>1, <1>2, <1>3, RestIsFine, PositionStep

-----------------------------------------------------------------------------
(* Registration. *)

LEMMA SettleFine ==
  ASSUME TypeInv, TypeInv', SafeInv, NEW t \in Threads, NEW o, Settle(t, o), UNCHANGED l
  PROVE  Fine(t, th[t])' /\ \A u \in Threads : u # t => th'[u] = th[u]
  <1> DEFINE rest == th[t].newly \ {o}
  <1>0. Fine(t, th[t]) /\ th[t] \in Local
    BY ThreadFits DEF TypeInv, SafeInv, Fits
  <1>1. CASE rest = {}
    <2>1. Goes(t, Rest)
      BY <1>1 DEF Settle
    <2> QED BY <2>1, GoesWhere, RestIsFine DEF TypeInv
  <1>2. CASE rest # {}
    <2>1. Goes(t, [th[t] EXCEPT !.pc = "register", !.newly = rest])
      BY <1>2 DEF Settle
    <2>2. /\ th'[t] = [th[t] EXCEPT !.pc = "register", !.newly = rest]
          /\ \A u \in Threads : u # t => th'[u] = th[u]
      BY <2>1, GoesWhere DEF TypeInv
    <2>3. th'[t].pc = "register" /\ th'[t].newly = rest
      BY <1>0, <2>2 DEF Local
    <2>4. \A p \in rest : l[p].st # "NONE" /\ l[p].ex > 0
      BY <1>0 DEF Fine, Knowing
    <2> QED BY <2>2, <2>3, <2>4 DEF Fine, Placing, Knowing, Answered, Acting
  <1> QED BY <1>1, <1>2

LEMMA RegisterSafe ==
  ASSUME TypeInv, TypeInv', SafeInv, NEW t \in Threads, Register(t) PROVE SafeInv'
  <1>0. /\ Fine(t, th[t]) /\ th[t] \in Local /\ pos \in 0..Qty
        /\ UNCHANGED <<x, wire, l, pos, abandoned>>
    BY ThreadFits DEF TypeInv, SafeInv, Fits, DataOK, Register, exchange, book
  <1>1. PICK o \in th[t].newly :
          IF FilledOf(o) > pos
          THEN /\ lock' = t
               /\ Goes(t, [th[t] EXCEPT !.pc = "update", !.o = o, !.held = pos,
                                        !.view.ex = FilledOf(o) - pos])
          ELSE Settle(t, o)
    BY DEF Register
  <1>2. o \in Orders /\ l[o].st # "NONE" /\ l[o].ex > 0
    BY <1>0 DEF Local, Fine, Knowing
  <1>3. CASE FilledOf(o) > pos
    <2>1. /\ th'[t] = [th[t] EXCEPT !.pc = "update", !.o = o, !.held = pos,
                                    !.view.ex = FilledOf(o) - pos]
          /\ \A u \in Threads : u # t => th'[u] = th[u]
      BY <1>1, <1>3, GoesWhere DEF TypeInv
    <2>2. /\ th'[t].pc = "update" /\ th'[t].o = o /\ th'[t].newly = th[t].newly
          /\ th'[t].held = pos /\ th'[t].view.ex = FilledOf(o) - pos
      BY <1>0, <2>1 DEF Local
    <2>3. pos + (FilledOf(o) - pos) <= x[o].ex
      BY <1>0, <1>2, FilledOfExecuted
    <2>4. Fine(t, th[t])'
      BY <1>0, <1>2, <2>2, <2>3 DEF Fine, Placing, Knowing, Answered
    <2> QED BY <1>0, <2>1, <2>4, QuietStep
  <1>4. CASE ~(FilledOf(o) > pos)
    BY <1>0, <1>1, <1>4, SettleFine, QuietStep
  <1> QED BY <1>3, <1>4

LEMMA UpdateSafe ==
  ASSUME TypeInv, TypeInv', SafeInv, NEW t \in Threads, Update(t) PROVE SafeInv'
  <1> DEFINE o == th[t].o
             n == th[t].held + th[t].view.ex
  <1>0. Fine(t, th[t]) /\ th[t] \in Local /\ th[t].pc = "update" /\ o \in Orders
    BY ThreadFits DEF TypeInv, SafeInv, Fits, Update, At, Acting
  <1>1. UNCHANGED <<x, wire, l, abandoned>>
    BY DEF Update, exchange
  <1>2. /\ th'[t] = [th[t] EXCEPT !.pc = "protectFill"]
        /\ \A u \in Threads : u # t => th'[u] = th[u]
    BY GoesWhere DEF TypeInv, Update, Goto
  <1>3. th'[t].pc = "protectFill" /\ th'[t].o = o /\ th'[t].newly = th[t].newly
    BY <1>0, <1>2 DEF Local
  <1>4. Fine(t, th[t])'
    BY <1>0, <1>1, <1>3 DEF Fine, Placing, Knowing, Answered, Acting
  <1>5. RegisteredIsExecuted'
    <2>1. CASE pos' = pos
      BY <1>1, <2>1 DEF SafeInv, SafeData, RegisteredIsExecuted
    <2>2. CASE pos' = n
      <3>1. n <= x[o].ex
        BY <1>0 DEF Fine, Answered
      <3> HIDE DEF o, n
      <3> QED BY <1>0, <1>1, <2>2, <3>1 DEF RegisteredIsExecuted
    <2> QED BY <2>1, <2>2 DEF Update, Tell
  <1> QED BY <1>1, <1>2, <1>4, <1>5, PositionStep

LEMMA ProtectFillSafe ==
  ASSUME TypeInv, TypeInv', SafeInv, NEW t \in Threads, ProtectFill(t) PROVE SafeInv'
  <1>1. UNCHANGED <<x, wire, l, pos, abandoned>> /\ Settle(t, th[t].o)
    BY DEF ProtectFill, exchange
  <1> QED BY <1>1, SettleFine, QuietStep

-----------------------------------------------------------------------------
(* News of an order. *)

LEMMA LearnSafe ==
  ASSUME TypeInv, TypeInv', SafeInv, NEW t \in Threads, t # "feed", t # "cmd", NEW o \in Orders,
         NEW st, NEW ex \in 0..Qty, NEW loc, Fits(loc), loc.pc \in {"idle", "poll"},
         \A p \in loc.newly : l[p].st # "NONE" /\ l[p].ex > 0,
         Past(o, st, ex), l[o].st # "NONE", Learn(t, o, st, ex, loc),
         UNCHANGED <<x, pos, abandoned>>, WireOK'
  PROVE  SafeInv'
  <1>0. l \in [Orders -> LState] /\ loc \in Local
    BY DEF TypeInv, DataOK, Fits
  <1>1. CASE st \in Filled
    <2> DEFINE r == [loc EXCEPT !.pc = "remainder", !.o = o,
                                !.newly = IF IsNew(o, ex) THEN @ \cup {o} ELSE @]
    <2>1. l' = [l EXCEPT ![o].st = st, ![o].ex = ex] /\ Goes(t, r)
      BY <1>1 DEF Learn
    <2>2. /\ l'[o].st = st /\ l'[o].ex = ex /\ \A p \in Orders : p # o => l'[p] = l[p]
          /\ st # "NONE" /\ st # "CANCELED" /\ st # "REJECTED" /\ ex > 0
      BY <1>0, <1>1, <2>1 DEF LState, Past, Filled
    <2>3. KeepsList(t)
      BY <2>2 DEF KeepsList
    <2>4. LocalOK'
      BY <2>2 DEF LocalOK, SafeInv, SafeData, LocalNeverAhead, GivenUpIsDead, Past
    <2>5. th'[t] = r /\ \A u \in Threads : u # t => th'[u] = th[u]
      <3> HIDE DEF r
      <3> QED BY <2>1, GoesWhere DEF TypeInv
    <2>6. th'[t].pc = "remainder" /\ th'[t].o = o /\ th'[t].newly \subseteq loc.newly \cup {o}
      BY <1>0, <2>5 DEF Local
    <2>7. \A p \in th'[t].newly : l'[p].st # "NONE" /\ l'[p].ex > 0
      BY <1>0, <2>2, <2>6 DEF Local
    <2>8. Fine(t, th[t])'
      BY <2>2, <2>6, <2>7 DEF Fine, Placing, Knowing, Answered
    <2> QED BY <2>3, <2>4, <2>5, <2>8, ListStep
  <1>2. CASE st \notin Filled
    <2>1. /\ l' = IF st = "CANCELED" THEN [l EXCEPT ![o].st = "CANCELED"] ELSE l
          /\ Goes(t, loc)
      BY <1>2 DEF Learn
    <2>2. /\ \A p \in Orders : l'[p].ex = l[p].ex /\ (p # o => l'[p].st = l[p].st)
          /\ l'[o].st = l[o].st \/ (l'[o].st = "CANCELED" /\ x[o].st = "CANCELED")
      BY <1>0, <2>1 DEF LState, Past
    <2>3. KeepsList(t)
      BY <2>2 DEF KeepsList
    <2>4. LocalOK'
      BY <2>2 DEF LocalOK, SafeInv, SafeData, LocalNeverAhead, GivenUpIsDead, Live, Filled
    <2>5. th'[t] = loc /\ \A u \in Threads : u # t => th'[u] = th[u]
      BY <2>1, GoesWhere DEF TypeInv
    <2>6. \A p \in th'[t].newly : l'[p].st # "NONE" /\ l'[p].ex > 0
      BY <1>0, <2>2, <2>5 DEF Local
    <2>7. Fine(t, th[t])'
      BY <2>5, <2>6 DEF Fine, Placing, Knowing, Answered, Acting
    <2> QED BY <2>3, <2>4, <2>5, <2>7, ListStep
  <1> QED BY <1>1, <1>2

LEMMA PollApplySafe == ASSUME TypeInv, TypeInv', SafeInv, PollApply PROVE SafeInv'
  <1> DEFINE m == th["main"]
             loc == [m EXCEPT !.pc = "poll", !.o = NoOrder, !.view = NoView]
  <1>1. /\ "main" \in Threads /\ m.pc = "apply" /\ m.o \in Orders /\ m.view.ex \in 0..Qty
        /\ Fits(m) /\ Fine("main", m)
    BY ThreadFits, FieldTypes DEF TypeInv, SafeInv, PollApply, At, Threads, Acting
  <1>2. Fits(loc) /\ loc.pc = "poll" /\ loc.newly = m.newly
    <2>1. NoView \in [st : XStatus \cup {"REJECTED"}, ex : 0..Qty]
      BY DEF NoView, XStatus
    <2> QED BY <1>1, <2>1 DEF Fits, Local, Acting
  <1>3. /\ Past(m.o, m.view.st, m.view.ex) /\ l[m.o].st # "NONE"
        /\ \A p \in loc.newly : l[p].st # "NONE" /\ l[p].ex > 0
    BY <1>1, <1>2 DEF Fine, Answered, Knowing, Acting
  <1>4. Learn("main", m.o, m.view.st, m.view.ex, loc)
    BY DEF PollApply
  <1>5. UNCHANGED <<x, pos, abandoned, wire>>
    BY DEF PollApply, exchange, book
  <1>6. WireOK'
    BY <1>5, SameExchange
  <1> HIDE DEF m, loc
  <1> QED BY <1>1, <1>2, <1>3, <1>4, <1>5, <1>6, LearnSafe

LEMMA TailWire ==
  ASSUME TypeInv, TypeInv', SafeInv, wire # <<>>, wire' = Tail(wire), UNCHANGED x
  PROVE  WireOK'
  <1>1. wire \in Seq(Message) /\ wire' \in Seq(Message) /\ Len(wire') = Len(wire) - 1
    BY DEF TypeInv, DataOK
  <1>2. ASSUME NEW i \in 1..Len(wire') PROVE Past(wire[i].o, wire[i].st, wire[i].ex)'
    <2>1. i + 1 \in 1..Len(wire) /\ wire'[i] = wire[i + 1]
      BY <1>1
    <2>2. Past(wire[i + 1].o, wire[i + 1].st, wire[i + 1].ex)
      BY <2>1 DEF SafeInv, SafeData, WireOK
    <2> QED BY <2>1, <2>2 DEF Past
  <1> QED BY <1>2 DEF WireOK

LEMMA PushSafe == ASSUME TypeInv, TypeInv', SafeInv, Push PROVE SafeInv'
  <1> DEFINE m == Head(wire)
  <1>1. /\ "stream" \in Threads /\ wire # <<>> /\ wire' = Tail(wire) /\ wire \in Seq(Message)
        /\ UNCHANGED <<x, pos, abandoned>>
    BY DEF Push, Threads, TypeInv, DataOK, book
  <1>2. WireOK'
    BY <1>1, TailWire
  <1>3. /\ m = wire[1] /\ 1 \in 1..Len(wire) /\ m \in Message
    BY <1>1
  <1>4. m.o \in Orders /\ m.ex \in 0..Qty /\ Past(m.o, m.st, m.ex)
    BY <1>3 DEF Message, SafeInv, SafeData, WireOK
  <1>5. CASE l[m.o].st = "NONE"
    <2>1. l' = l /\ th' = th
      BY <1>5 DEF Push
    <2>2. KeepsList("stream") /\ LocalOK'
      <3>1. SameList
        BY <2>1 DEF SameList
      <3> QED BY <1>1, <3>1, SameExchange, ListStays
    <2>3. Fine("stream", th["stream"])'
      BY <1>1, <2>1, <2>2, SameExchange, OtherStaysFine DEF SafeInv, Fine, Placing, Knowing,
         Answered, Past
    <2> QED BY <1>1, <1>2, <2>1, <2>2, <2>3, ListStep
  <1>6. CASE l[m.o].st # "NONE"
    <2>1. Learn("stream", m.o, m.st, m.ex, Rest)
      BY <1>6 DEF Push
    <2>2. Fits(Rest) /\ Rest.pc = "idle" /\ Rest.newly = {}
      BY RestFits DEF Rest
    <2> HIDE DEF m
    <2> QED BY <1>1, <1>2, <1>4, <1>6, <2>1, <2>2, LearnSafe
  <1> QED BY <1>5, <1>6

-----------------------------------------------------------------------------
(* Cancellations. *)

LEMMA CancelCallSafe ==
  ASSUME TypeInv, TypeInv', SafeInv, NEW o \in Orders, NEW r, CancelCall(o, r)
  PROVE  /\ Grows /\ ExchangeOK' /\ WireOK' /\ \A t : NoneBorn(t)
         /\ r # "ERROR" => x'[o].st \notin Live \/ o \in abandoned'
         /\ abandoned \subseteq abandoned'
  <1>0. x \in [Orders -> XState] /\ x[o].ex \in 0..Qty
    BY DEF TypeInv, DataOK, XState
  <1>1. CASE x[o].st \in Live /\ Becomes(o, "CANCELED", x[o].ex)
    <2>1. Grows /\ ExchangeOK' /\ WireOK'
      BY <1>0, <1>1, BecomesSafe DEF Live
    <2>2. x' = [x EXCEPT ![o] = [st |-> "CANCELED", ex |-> x[o].ex]]
      BY <1>1 DEF Becomes
    <2>3. \A t : NoneBorn(t)
      BY <1>0, <1>1, <2>2 DEF NoneBorn, Live
    <2>4. x'[o].st \notin Live
      BY <1>0, <2>2 DEF Live
    <2> QED BY <2>1, <2>3, <2>4 DEF CancelCall
  <1>2. CASE UNCHANGED exchange
    <2>1. Grows /\ ExchangeOK' /\ WireOK' /\ \A t : NoneBorn(t)
      BY <1>2, SameExchange DEF exchange
    <2>2. r # "ERROR" => x'[o].st \notin Live \/ o \in abandoned'
      <3>1. x' = x
        BY <1>2 DEF exchange
      <3>2. CASE Ends(o)
        <4>1. x[o].st \in Live => Becomes(o, "CANCELED", x[o].ex)
          BY <3>2 DEF Ends
        <4>2. x[o].st \in Live => x'[o].st = "CANCELED"
          BY <1>0, <4>1 DEF Becomes
        <4> QED BY <3>1, <4>2 DEF Live
      <3>3. CASE /\ r \in {"REJECTED", "ERROR"}
                 /\ abandoned' = IF r = "REJECTED" /\ x[o].st \in Live
                                 THEN abandoned \cup {o} ELSE abandoned
        BY <3>1, <3>3
      <3> QED BY <3>2, <3>3 DEF CancelCall
    <2>3. abandoned \subseteq abandoned'
      BY DEF CancelCall
    <2> QED BY <2>1, <2>2, <2>3
  <1> QED BY <1>1, <1>2 DEF CancelCall, Ends

LEMMA RemainderSafe ==
  ASSUME TypeInv, TypeInv', SafeInv, NEW t \in Threads, Remainder(t) PROVE SafeInv'
  <1> DEFINE o == th[t].o
  <1>0. /\ Fine(t, th[t]) /\ Fits(th[t]) /\ th[t] \in Local /\ th[t].pc = "remainder"
        /\ o \in Orders /\ l \in [Orders -> LState]
    BY ThreadFits DEF TypeInv, SafeInv, Fits, Remainder, At, Acting, DataOK
  <1>1. UNCHANGED pos
    BY DEF Remainder, book
  <1>2. CASE /\ Goes(t, AfterRemainder(t, th[t]))
             /\ UNCHANGED <<exchange, l, used, abandoned>>
    <2>1. /\ th'[t] = AfterRemainder(t, th[t])
          /\ \A u \in Threads : u # t => th'[u] = th[u]
      BY <1>2, GoesWhere DEF TypeInv
    <2>2. \/ th'[t] = Rest
          \/ th'[t].pc = "check" /\ t = "feed" /\ th'[t].newly = th[t].newly
          \/ th'[t].pc \in {"poll", "register"} /\ th'[t].newly = th[t].newly
      BY <1>0, <2>1 DEF AfterRemainder, Local
    <2>3. Fine(t, th[t])'
      BY <1>0, <1>2, <2>2, RestIsFine DEF Fine, Placing, Knowing, Answered, Acting
    <2> QED BY <1>1, <1>2, <2>1, <2>3, QuietStep DEF exchange
  <1>3. ASSUME NEW r \in {"CANCELED", "REJECTED", "ERROR"},
               l' = [l EXCEPT ![o].canc = TRUE], CancelCall(o, r),
               Goes(t, [th[t] EXCEPT !.pc = "remainderAns", !.ans = r])
        PROVE  SafeInv'
    <2>1. /\ th'[t] = [th[t] EXCEPT !.pc = "remainderAns", !.ans = r]
          /\ \A u \in Threads : u # t => th'[u] = th[u]
      BY <1>3, GoesWhere DEF TypeInv
    <2>2. /\ th'[t].pc = "remainderAns" /\ th'[t].ans = r /\ th'[t].o = o
          /\ th'[t].newly = th[t].newly
      BY <1>0, <2>1 DEF Local
    <2>3. \A p \in Orders : l'[p].st = l[p].st /\ l'[p].ex = l[p].ex
      BY <1>0, <1>3 DEF LState
    <2>4. /\ Grows /\ ExchangeOK' /\ WireOK' /\ NoneBorn(t)
          /\ r # "ERROR" => x'[o].st \notin Live \/ o \in abandoned'
          /\ abandoned \subseteq abandoned'
      BY <1>0, <1>3, CancelCallSafe
    <2>5. \A p \in th'[t].newly : l'[p].st # "NONE" /\ l'[p].ex > 0
      BY <1>0, <2>2, <2>3 DEF Fine, Knowing, Local
    <2>6. t # "feed" => l'[o].st # "NONE"
      BY <1>0, <2>3 DEF Fine, Knowing, Acting
    <2>7. Fine(t, th[t])'
      BY <2>2, <2>4, <2>5, <2>6 DEF Fine, Placing, Knowing, Answered
    <2> QED BY <1>1, <2>1, <2>3, <2>4, <2>7, ExchangeStep DEF SameList
  <1> QED BY <1>2, <1>3 DEF Remainder

(* Thread t marks order o as cancelled on an answer that it is gone. *)
LEMMA MarkGone ==
  ASSUME TypeInv, TypeInv', SafeInv, NEW t \in Threads, NEW o \in Orders,
         t # "feed" => l[o].st # "NONE", UNCHANGED <<x, abandoned>>,
         \/ l' = [l EXCEPT ![o].st = "CANCELED"] /\ (x[o].st \notin Live \/ o \in abandoned)
         \/ l' = [l EXCEPT ![o].canc = FALSE]
         \/ l' = l
  PROVE  KeepsList(t) /\ LocalOK' /\ \A p \in Orders : l[p].st # "NONE" => l'[p].st # "NONE"
  <1>0. l \in [Orders -> LState]
    BY DEF TypeInv, DataOK
  <1>1. CASE l' = [l EXCEPT ![o].st = "CANCELED"] /\ (x[o].st \notin Live \/ o \in abandoned)
    <2>1. /\ \A p \in Orders : l'[p].ex = l[p].ex /\ (p # o => l'[p].st = l[p].st)
          /\ l'[o].st = "CANCELED"
      BY <1>0, <1>1 DEF LState
    <2>2. KeepsList(t)
      BY <2>1 DEF KeepsList
    <2>3. LocalOK'
      BY <1>1, <2>1 DEF LocalOK, SafeInv, SafeData, LocalNeverAhead, GivenUpIsDead, Filled
    <2> QED BY <2>1, <2>2, <2>3
  <1>2. CASE l' = [l EXCEPT ![o].canc = FALSE] \/ l' = l
    <2>1. \A p \in Orders : l'[p].st = l[p].st /\ l'[p].ex = l[p].ex
      BY <1>0, <1>2 DEF LState
    <2> QED BY <2>1, SameExchange, ListStays DEF SameList
  <1> QED BY <1>1, <1>2

LEMMA RemainderAnswerSafe ==
  ASSUME TypeInv, TypeInv', SafeInv, NEW t \in Threads, RemainderAnswer(t) PROVE SafeInv'
  <1> DEFINE o == th[t].o
  <1>0. /\ Fine(t, th[t]) /\ Fits(th[t]) /\ th[t] \in Local /\ th[t].pc = "remainderAns"
        /\ o \in Orders /\ l \in [Orders -> LState]
    BY ThreadFits DEF TypeInv, SafeInv, Fits, RemainderAnswer, At, Acting, DataOK
  <1>1. UNCHANGED <<x, wire, pos, abandoned>>
    BY DEF RemainderAnswer, exchange, book
  <1>2. /\ t # "feed" => l[o].st # "NONE"
        /\ th[t].ans # "ERROR" => x[o].st \notin Live \/ o \in abandoned
    BY <1>0 DEF Fine, Knowing, Answered, Acting
  <1>3. \/ l' = [l EXCEPT ![o].st = "CANCELED"] /\ (x[o].st \notin Live \/ o \in abandoned)
        \/ l' = [l EXCEPT ![o].canc = FALSE]
    BY <1>2 DEF RemainderAnswer, Gone
  <1>4. /\ KeepsList(t) /\ LocalOK'
        /\ \A p \in Orders : l[p].st # "NONE" => l'[p].st # "NONE"
    BY <1>0, <1>1, <1>2, <1>3, MarkGone
  <1>5. /\ th'[t] = AfterRemainder(t, th[t])
        /\ \A u \in Threads : u # t => th'[u] = th[u]
    BY GoesWhere DEF TypeInv, RemainderAnswer
  <1>6. \/ th'[t] = Rest
        \/ th'[t].pc = "check" /\ t = "feed" /\ th'[t].newly = th[t].newly
        \/ th'[t].pc \in {"poll", "register"} /\ th'[t].newly = th[t].newly
    BY <1>0, <1>5 DEF AfterRemainder, Local
  <1>7. \A p \in th[t].newly : l'[p].st # "NONE" /\ l'[p].ex > 0
    BY <1>0, <1>4 DEF KeepsList, Fine, Knowing, Local
  <1>8. Fine(t, th[t])'
    BY <1>0, <1>6, <1>7, RestIsFine DEF Fine, Placing, Knowing, Answered, Acting
  <1> QED BY <1>1, <1>4, <1>5, <1>8, SameExchange, ListStep

LEMMA CancelSafe ==
  ASSUME TypeInv, TypeInv', SafeInv, NEW t \in Threads, Cancel(t) PROVE SafeInv'
  <1> DEFINE o == th[t].o
  <1>0. /\ Fine(t, th[t]) /\ Fits(th[t]) /\ th[t] \in Local /\ th[t].pc = "cancel"
        /\ o \in Orders
    BY ThreadFits DEF TypeInv, SafeInv, Fits, Cancel, At, Acting
  <1>1. PICK r \in {"CANCELED", "REJECTED", "ERROR"} :
          CancelCall(o, r) /\ Goes(t, [th[t] EXCEPT !.pc = "cancelAns", !.ans = r])
    BY DEF Cancel
  <1>2. l' = l /\ UNCHANGED pos
    BY DEF Cancel, book
  <1>3. /\ th'[t] = [th[t] EXCEPT !.pc = "cancelAns", !.ans = r]
        /\ \A u \in Threads : u # t => th'[u] = th[u]
    BY <1>1, GoesWhere DEF TypeInv
  <1>4. /\ th'[t].pc = "cancelAns" /\ th'[t].ans = r /\ th'[t].o = o
        /\ th'[t].newly = th[t].newly /\ th'[t].todo = th[t].todo
    BY <1>0, <1>3 DEF Local
  <1>5. /\ Grows /\ ExchangeOK' /\ WireOK' /\ NoneBorn(t)
        /\ r # "ERROR" => x'[o].st \notin Live \/ o \in abandoned'
        /\ abandoned \subseteq abandoned'
    BY <1>0, <1>1, CancelCallSafe
  <1>6. Fine(t, th[t])'
    <2>1. Placing(t, th[t])' /\ Answered(th[t])'
      BY <1>4, <1>5 DEF Placing, Answered
    <2>2. Knowing(t, th[t])'
      BY <1>0, <1>2, <1>4 DEF Fine, Knowing, Acting
    <2> QED BY <2>1, <2>2 DEF Fine
  <1> QED BY <1>2, <1>3, <1>5, <1>6, ExchangeStep DEF SameList

LEMMA CancelAnswerSafe ==
  ASSUME TypeInv, TypeInv', SafeInv, NEW t \in Threads, CancelAnswer(t) PROVE SafeInv'
  <1> DEFINE o == th[t].o
  <1>0. /\ Fine(t, th[t]) /\ Fits(th[t]) /\ th[t] \in Local /\ th[t].pc = "cancelAns"
        /\ o \in Orders /\ l \in [Orders -> LState]
    BY ThreadFits DEF TypeInv, SafeInv, Fits, CancelAnswer, At, Acting, DataOK
  <1>1. UNCHANGED <<x, wire, pos, abandoned>>
    BY DEF CancelAnswer, exchange, book
  <1>2. /\ t # "feed" => l[o].st # "NONE"
        /\ th[t].ans # "ERROR" => x[o].st \notin Live \/ o \in abandoned
    BY <1>0 DEF Fine, Knowing, Answered, Acting
  <1>3. \/ l' = [l EXCEPT ![o].st = "CANCELED"] /\ (x[o].st \notin Live \/ o \in abandoned)
        \/ l' = l
    BY <1>2 DEF CancelAnswer, Gone
  <1>4. /\ KeepsList(t) /\ LocalOK'
        /\ \A p \in Orders : l[p].st # "NONE" => l'[p].st # "NONE"
    BY <1>0, <1>1, <1>2, <1>3, MarkGone
  <1>5. CASE t # "cmd"
    <2>1. th'[t] = Rest /\ \A u \in Threads : u # t => th'[u] = th[u]
      BY <1>5, GoesWhere DEF TypeInv, CancelAnswer, Leave
    <2> QED BY <1>1, <1>4, <2>1, RestIsFine, SameExchange, ListStep
  <1>6. CASE t = "cmd"
    <2>1. /\ th'[t] = [th[t] EXCEPT !.pc = "stop", !.o = NoOrder, !.ans = "none"]
          /\ \A u \in Threads : u # t => th'[u] = th[u]
      BY <1>6, GoesWhere DEF TypeInv, CancelAnswer
    <2>2. /\ th'[t].pc = "stop" /\ th'[t].newly = th[t].newly /\ th'[t].todo = th[t].todo
          /\ th[t].todo \subseteq Orders /\ th[t].newly \subseteq Orders
      BY <1>0, <2>1 DEF Local
    <2>3. \A p \in th[t].todo : l'[p].st # "NONE"
      BY <1>0, <1>4, <1>6, <2>2 DEF Fine, Knowing
    <2>4. \A p \in th[t].newly : l'[p].st # "NONE" /\ l'[p].ex > 0
      BY <1>0, <1>4, <2>2 DEF KeepsList, Fine, Knowing
    <2>5. Fine(t, th[t])'
      BY <1>6, <2>2, <2>3, <2>4 DEF Fine, Placing, Knowing, Answered, Acting
    <2> QED BY <1>1, <1>4, <2>1, <2>5, SameExchange, ListStep
  <1> QED BY <1>5, <1>6

-----------------------------------------------------------------------------
(* Steps that move one thread and nothing else the invariant speaks of. *)

LEMMA PollStartSafe == ASSUME TypeInv, TypeInv', SafeInv, PollStart PROVE SafeInv'
  <1>0. "main" \in Threads /\ Fine("main", th["main"]) /\ th["main"] \in Local
    BY ThreadFits DEF TypeInv, SafeInv, Threads, Fits
  <1>1. /\ th'["main"] = [th["main"] EXCEPT !.pc = "poll",
                                            !.todo = {o \in Orders : l[o].st # "NONE"}]
        /\ \A u \in Threads : u # "main" => th'[u] = th[u]
    BY <1>0, GoesWhere DEF TypeInv, PollStart
  <1>2. th'["main"].pc = "poll" /\ th'["main"].newly = th["main"].newly
    BY <1>0, <1>1 DEF Local
  <1>3. l' = l /\ UNCHANGED <<x, wire, pos, abandoned>>
    BY DEF PollStart, exchange, book
  <1>4. Fine("main", th["main"])'
    BY <1>0, <1>2, <1>3 DEF Fine, Placing, Knowing, Answered, Acting
  <1> QED BY <1>0, <1>1, <1>3, <1>4, QuietStep

LEMMA PollQuerySafe == ASSUME TypeInv, TypeInv', SafeInv, PollQuery PROVE SafeInv'
  <1> DEFINE loc(o) == [th["main"] EXCEPT !.todo = @ \ {o}]
  <1>0. /\ "main" \in Threads /\ Fine("main", th["main"]) /\ th["main"] \in Local
        /\ th["main"].pc = "poll"
    BY ThreadFits DEF TypeInv, SafeInv, Threads, Fits, PollQuery, At
  <1>1. PICK o \in ToPoll :
          \/ Goes("main", [loc(o) EXCEPT !.pc = "apply", !.o = o, !.view = x[o]])
          \/ Goes("main", loc(o))
    BY DEF PollQuery
  <1>2. l' = l /\ UNCHANGED <<x, wire, pos, abandoned>>
    BY DEF PollQuery, exchange, book
  <1>3. o \in Orders /\ l[o].st # "NONE"
    BY <1>0 DEF ToPoll, Active, Local
  <1>4. CASE Goes("main", [loc(o) EXCEPT !.pc = "apply", !.o = o, !.view = x[o]])
    <2>1. /\ th'["main"] = [loc(o) EXCEPT !.pc = "apply", !.o = o, !.view = x[o]]
          /\ \A u \in Threads : u # "main" => th'[u] = th[u]
      BY <1>0, <1>4, GoesWhere DEF TypeInv
    <2>2. /\ th'["main"].pc = "apply" /\ th'["main"].o = o /\ th'["main"].view = x[o]
          /\ th'["main"].newly = th["main"].newly
      BY <1>0, <2>1 DEF Local
    <2>3. /\ x'[o].ex \in 0..Qty /\ x'[o].ex <= x'[o].ex
          /\ x'[o].st = "FILLED" => x'[o].ex = Qty
          /\ x'[o].st \in Filled => x'[o].ex > 0
      BY <1>2, <1>3 DEF TypeInv, DataOK, XState, SafeInv, SafeData, ExchangeOK, Filled
    <2>4. Fine("main", th["main"])'
      BY <1>0, <1>2, <1>3, <2>2, <2>3 DEF Fine, Placing, Knowing, Answered, Past
    <2> QED BY <1>0, <1>2, <2>1, <2>4, QuietStep
  <1>5. CASE Goes("main", loc(o))
    <2>1. th'["main"] = loc(o) /\ \A u \in Threads : u # "main" => th'[u] = th[u]
      BY <1>0, <1>5, GoesWhere DEF TypeInv
    <2>2. th'["main"].pc = "poll" /\ th'["main"].newly = th["main"].newly
      BY <1>0, <2>1 DEF Local
    <2>3. Fine("main", th["main"])'
      BY <1>0, <1>2, <2>2 DEF Fine, Placing, Knowing, Answered, Acting
    <2> QED BY <1>0, <1>2, <2>1, <2>3, QuietStep
  <1> QED BY <1>1, <1>4, <1>5

LEMMA PollDoneSafe == ASSUME TypeInv, TypeInv', SafeInv, PollDone PROVE SafeInv'
  <1>0. "main" \in Threads /\ Fine("main", th["main"]) /\ th["main"] \in Local
    BY ThreadFits DEF TypeInv, SafeInv, Threads, Fits
  <1>1. l' = l /\ UNCHANGED <<x, wire, pos, abandoned>>
    BY DEF PollDone, exchange, book
  <1>2. CASE Leave("main")
    <2>1. th'["main"] = Rest /\ \A u \in Threads : u # "main" => th'[u] = th[u]
      BY <1>0, <1>2, GoesWhere DEF TypeInv, Leave
    <2> QED BY <1>0, <1>1, <2>1, RestIsFine, QuietStep
  <1>3. CASE Goes("main", [th["main"] EXCEPT !.pc = "register", !.todo = {}])
    <2>1. /\ th'["main"] = [th["main"] EXCEPT !.pc = "register", !.todo = {}]
          /\ \A u \in Threads : u # "main" => th'[u] = th[u]
      BY <1>0, <1>3, GoesWhere DEF TypeInv
    <2>2. th'["main"].pc = "register" /\ th'["main"].newly = th["main"].newly
      BY <1>0, <2>1 DEF Local
    <2>3. Fine("main", th["main"])'
      BY <1>0, <1>1, <2>2 DEF Fine, Placing, Knowing, Answered, Acting
    <2> QED BY <1>0, <1>1, <2>1, <2>3, QuietStep
  <1> QED BY <1>2, <1>3 DEF PollDone

LEMMA PendingTimeoutSafe ==
  ASSUME TypeInv, TypeInv', SafeInv, NEW o \in Orders, PendingTimeout(o) PROVE SafeInv'
  <1>0. "main" \in Threads /\ Fine("main", th["main"]) /\ th["main"] \in Local
    BY ThreadFits DEF TypeInv, SafeInv, Threads, Fits
  <1>1. /\ th'["main"] = [th["main"] EXCEPT !.pc = "cancel", !.o = o]
        /\ \A u \in Threads : u # "main" => th'[u] = th[u]
    BY <1>0, GoesWhere DEF TypeInv, PendingTimeout
  <1>2. /\ th'["main"].pc = "cancel" /\ th'["main"].o = o
        /\ th'["main"].newly = th["main"].newly
    BY <1>0, <1>1 DEF Local
  <1>3. l' = l /\ UNCHANGED <<x, wire, pos, abandoned>> /\ l[o].st # "NONE"
    BY DEF PendingTimeout, exchange, book
  <1>4. Fine("main", th["main"])'
    BY <1>0, <1>2, <1>3 DEF Fine, Placing, Knowing, Answered
  <1> QED BY <1>0, <1>1, <1>3, <1>4, QuietStep

-----------------------------------------------------------------------------
(* Command thread. *)

LEMMA EmergencyStopSafe == ASSUME TypeInv, TypeInv', SafeInv, EmergencyStop PROVE SafeInv'
  <1> DEFINE active == {o \in Orders : l[o].st \in Active}
  <1>0. "cmd" \in Threads /\ Fine("cmd", th["cmd"]) /\ th["cmd"] \in Local
    BY ThreadFits DEF TypeInv, SafeInv, Threads, Fits
  <1>1. /\ th'["cmd"] = [th["cmd"] EXCEPT !.pc = "stop", !.todo = active]
        /\ \A u \in Threads : u # "cmd" => th'[u] = th[u]
    BY <1>0, GoesWhere DEF TypeInv, EmergencyStop
  <1>2. /\ th'["cmd"].pc = "stop" /\ th'["cmd"].todo = active
        /\ th'["cmd"].newly = th["cmd"].newly
    BY <1>0, <1>1 DEF Local
  <1>3. l' = l /\ UNCHANGED <<x, wire, pos, abandoned>> /\ \A o \in active : l[o].st # "NONE"
    BY DEF EmergencyStop, exchange, book, Active
  <1>4. Fine("cmd", th["cmd"])'
    BY <1>0, <1>2, <1>3 DEF Fine, Placing, Knowing, Answered, Acting
  <1> QED BY <1>0, <1>1, <1>3, <1>4, QuietStep

LEMMA StopNextSafe == ASSUME TypeInv, TypeInv', SafeInv, StopNext PROVE SafeInv'
  <1> DEFINE todo == th["cmd"].todo
  <1>0. /\ "cmd" \in Threads /\ Fine("cmd", th["cmd"]) /\ th["cmd"] \in Local
        /\ th["cmd"].pc = "stop"
    BY ThreadFits DEF TypeInv, SafeInv, Threads, Fits, StopNext, At
  <1>1. l' = l /\ UNCHANGED <<x, wire, pos, abandoned>>
    BY DEF StopNext, exchange, book
  <1>2. \A o \in todo : l[o].st # "NONE"
    BY <1>0 DEF Fine, Knowing
  <1>3. CASE Leave("cmd")
    <2>1. th'["cmd"] = Rest /\ \A u \in Threads : u # "cmd" => th'[u] = th[u]
      BY <1>0, <1>3, GoesWhere DEF TypeInv, Leave
    <2> QED BY <1>0, <1>1, <2>1, RestIsFine, QuietStep
  <1>4. ASSUME NEW o \in todo,
               \/ Goes("cmd", [th["cmd"] EXCEPT !.todo = todo \ {o}])
               \/ Goes("cmd", [th["cmd"] EXCEPT !.pc = "cancel", !.o = o, !.todo = todo \ {o}])
        PROVE  SafeInv'
    <2>1. /\ \/ th'["cmd"] = [th["cmd"] EXCEPT !.todo = todo \ {o}]
             \/ th'["cmd"] = [th["cmd"] EXCEPT !.pc = "cancel", !.o = o, !.todo = todo \ {o}]
          /\ \A u \in Threads : u # "cmd" => th'[u] = th[u]
      BY <1>0, <1>4, GoesWhere DEF TypeInv
    <2>2. /\ th'["cmd"].pc = "stop" \/ (th'["cmd"].pc = "cancel" /\ th'["cmd"].o = o)
          /\ th'["cmd"].todo = todo \ {o} /\ th'["cmd"].newly = th["cmd"].newly
      BY <1>0, <2>1 DEF Local
    <2>3. Fine("cmd", th["cmd"])'
      BY <1>0, <1>1, <1>2, <2>2 DEF Fine, Placing, Knowing, Answered, Acting
    <2> QED BY <1>0, <1>1, <2>1, <2>3, QuietStep
  <1> QED BY <1>3, <1>4 DEF StopNext

LEMMA CancelAllSafe == ASSUME TypeInv, TypeInv', SafeInv, CancelAll PROVE SafeInv'
  <1> DEFINE live == {o \in Orders : x[o].st \in Live}
  <1>0. "cmd" \in Threads /\ Fine("cmd", th["cmd"]) /\ th["cmd"] \in Local
    BY ThreadFits DEF TypeInv, SafeInv, Threads, Fits
  <1>1. /\ th'["cmd"] = [th["cmd"] EXCEPT !.pc = "bulk", !.todo = live]
        /\ \A u \in Threads : u # "cmd" => th'[u] = th[u]
    BY <1>0, GoesWhere DEF TypeInv, CancelAll
  <1>2. th'["cmd"].pc = "bulk" /\ th'["cmd"].newly = th["cmd"].newly
    BY <1>0, <1>1 DEF Local
  <1>3. l' = l /\ UNCHANGED <<x, wire, pos, abandoned>>
    BY DEF CancelAll, exchange, book
  <1>4. Fine("cmd", th["cmd"])'
    BY <1>0, <1>2, <1>3 DEF Fine, Placing, Knowing, Answered, Acting
  <1> QED BY <1>0, <1>1, <1>3, <1>4, QuietStep

LEMMA BulkCancelSafe == ASSUME TypeInv, TypeInv', SafeInv, BulkCancel PROVE SafeInv'
  <1>0. /\ "cmd" \in Threads /\ Fine("cmd", th["cmd"]) /\ th["cmd"] \in Local
        /\ th["cmd"].pc = "bulk"
    BY ThreadFits DEF TypeInv, SafeInv, Threads, Fits, BulkCancel, At
  <1>1. PICK o \in th["cmd"].todo :
          /\ Goes("cmd", [th["cmd"] EXCEPT !.todo = @ \ {o}])
          /\ IF x[o].st \in Live THEN Becomes(o, "CANCELED", x[o].ex) ELSE UNCHANGED exchange
    BY DEF BulkCancel
  <1>2. /\ th'["cmd"] = [th["cmd"] EXCEPT !.todo = @ \ {o}]
        /\ \A u \in Threads : u # "cmd" => th'[u] = th[u]
    BY <1>0, <1>1, GoesWhere DEF TypeInv
  <1>3. th'["cmd"].pc = "bulk" /\ th'["cmd"].newly = th["cmd"].newly
    BY <1>0, <1>2 DEF Local
  <1>4. l' = l /\ UNCHANGED <<pos, abandoned>> /\ o \in Orders
    BY <1>0 DEF BulkCancel, book, Local
  <1>5. Fine("cmd", th["cmd"])'
    BY <1>0, <1>3, <1>4 DEF Fine, Placing, Knowing, Answered, Acting
  <1>7. Grows /\ ExchangeOK' /\ WireOK' /\ NoneBorn("cmd")
    <2>1. CASE x[o].st \in Live
      <3>0. x \in [Orders -> XState] /\ x[o].ex \in 0..Qty
        BY <1>4 DEF TypeInv, DataOK, XState
      <3>1. Becomes(o, "CANCELED", x[o].ex)
        BY <1>1, <2>1
      <3>2. Grows /\ ExchangeOK' /\ WireOK'
        BY <1>4, <2>1, <3>0, <3>1, BecomesSafe DEF Live
      <3>3. NoneBorn("cmd")
        BY <2>1, <3>0, <3>1 DEF NoneBorn, Live, Becomes
      <3> QED BY <3>2, <3>3
    <2>2. CASE x[o].st \notin Live
      BY <1>1, <2>2, SameExchange DEF exchange
    <2> QED BY <2>1, <2>2
  <1> QED BY <1>0, <1>2, <1>4, <1>5, <1>7, ExchangeStep DEF SameList

LEMMA BulkReturnSafe == ASSUME TypeInv, TypeInv', SafeInv, BulkReturn PROVE SafeInv'
  <1> DEFINE active == {o \in Orders : l[o].st \in Active}
  <1>0. "cmd" \in Threads /\ Fine("cmd", th["cmd"]) /\ th["cmd"] \in Local
    BY ThreadFits DEF TypeInv, SafeInv, Threads, Fits
  <1>1. /\ th'["cmd"] = [th["cmd"] EXCEPT !.pc = "mark", !.todo = active]
        /\ \A u \in Threads : u # "cmd" => th'[u] = th[u]
    BY <1>0, GoesWhere DEF TypeInv, BulkReturn
  <1>2. /\ th'["cmd"].pc = "mark" /\ th'["cmd"].todo = active
        /\ th'["cmd"].newly = th["cmd"].newly
    BY <1>0, <1>1 DEF Local
  <1>3. l' = l /\ UNCHANGED <<x, wire, pos, abandoned>> /\ \A o \in active : l[o].st # "NONE"
    BY DEF BulkReturn, exchange, book, Active
  <1>4. Fine("cmd", th["cmd"])'
    BY <1>0, <1>2, <1>3 DEF Fine, Placing, Knowing, Answered, Acting
  <1> QED BY <1>0, <1>1, <1>3, <1>4, QuietStep

LEMMA BulkMarkSafe == ASSUME TypeInv, TypeInv', SafeInv, BulkMark PROVE SafeInv'
  <1> DEFINE todo == th["cmd"].todo
  <1>0. /\ "cmd" \in Threads /\ Fine("cmd", th["cmd"]) /\ th["cmd"] \in Local
        /\ th["cmd"].pc = "mark" /\ l \in [Orders -> LState]
        /\ todo \subseteq Orders /\ th["cmd"].newly \subseteq Orders
    BY ThreadFits DEF TypeInv, SafeInv, Threads, Fits, BulkMark, At, DataOK, Local
  <1>1. UNCHANGED <<x, wire, pos>>
    BY DEF BulkMark, exchange, book
  <1>2. \A o \in todo : l[o].st # "NONE"
    BY <1>0 DEF Fine, Knowing
  <1>3. CASE Leave("cmd") /\ UNCHANGED <<l, abandoned>>
    <2>1. th'["cmd"] = Rest /\ \A u \in Threads : u # "cmd" => th'[u] = th[u]
      BY <1>0, <1>3, GoesWhere DEF TypeInv, Leave
    <2> QED BY <1>0, <1>1, <1>3, <2>1, RestIsFine, QuietStep
  <1>4. ASSUME NEW o \in todo, l' = [l EXCEPT ![o].st = "CANCELED"],
               abandoned' = IF x[o].st \in Live THEN abandoned \cup {o} ELSE abandoned,
               Goes("cmd", [th["cmd"] EXCEPT !.todo = todo \ {o}])
        PROVE  SafeInv'
    <2>1. /\ th'["cmd"] = [th["cmd"] EXCEPT !.todo = todo \ {o}]
          /\ \A u \in Threads : u # "cmd" => th'[u] = th[u]
      BY <1>0, <1>4, GoesWhere DEF TypeInv
    <2>2. /\ th'["cmd"].pc = "mark" /\ th'["cmd"].todo = todo \ {o}
          /\ th'["cmd"].newly = th["cmd"].newly
      BY <1>0, <2>1 DEF Local
    <2>3. /\ \A p \in Orders : l'[p].ex = l[p].ex /\ (p # o => l'[p].st = l[p].st)
          /\ l'[o].st = "CANCELED" /\ o \in Orders /\ l[o].st # "NONE"
      BY <1>0, <1>2, <1>4 DEF LState
    <2>4. KeepsList("cmd")
      BY <2>3 DEF KeepsList
    <2>5. LocalOK'
      BY <1>1, <1>4, <2>3 DEF LocalOK, SafeInv, SafeData, LocalNeverAhead, GivenUpIsDead, Filled
    <2>6. /\ \A p \in todo \ {o} : l'[p].st # "NONE"
          /\ \A p \in th["cmd"].newly : l'[p].st # "NONE" /\ l'[p].ex > 0
      BY <1>0, <1>2, <2>3 DEF Fine, Knowing
    <2>7. Fine("cmd", th["cmd"])'
      BY <2>2, <2>6 DEF Fine, Placing, Knowing, Answered, Acting
    <2> QED BY <1>0, <1>1, <1>4, <2>1, <2>4, <2>5, <2>7, SameExchange, ListStep
  <1> QED BY <1>3, <1>4 DEF BulkMark

-----------------------------------------------------------------------------
(* Steps of no thread. *)

LEMMA NoThreadStep ==
  ASSUME TypeInv, TypeInv', SafeInv, Grows, ExchangeOK', WireOK', NoneBorn(Free),
         UNCHANGED <<l, pos, abandoned, th>>
  PROVE  SafeInv'
  <1>1. Free \notin Threads
    BY DEF Free, Threads
  <1> QED BY <1>1, ExchangeStep DEF SameList

LEMMA ExchangeSafe == ASSUME TypeInv, TypeInv', SafeInv, Exchange PROVE SafeInv'
  <1>1. ASSUME NEW o \in Orders, Fill(o) PROVE SafeInv'
    <2>0. x \in [Orders -> XState] /\ x[o].ex \in 0..Qty /\ x[o].st \in Live
      BY <1>1 DEF TypeInv, DataOK, XState, Fill
    <2>1. PICK n \in (x[o].ex + 1)..Qty : Becomes(o, Working(n), n)
      BY <1>1 DEF Fill
    <2>2. /\ n \in 0..Qty /\ x[o].ex <= n /\ Working(n) # "NONE"
          /\ Working(n) = "FILLED" => n = Qty
          /\ Working(n) = "PARTIALLY_FILLED" => n > 0
      BY <2>0, <2>1 DEF Working
    <2>3. Grows /\ ExchangeOK' /\ WireOK'
      BY <2>0, <2>1, <2>2, BecomesSafe DEF Live
    <2>4. NoneBorn(Free)
      BY <2>0, <2>1 DEF NoneBorn, Becomes, Live
    <2> QED BY <1>1, <2>3, <2>4, NoThreadStep DEF Fill, book
  <1>2. ASSUME NEW o \in Orders, Expire(o) PROVE SafeInv'
    <2>0. /\ x \in [Orders -> XState] /\ x[o].ex \in 0..Qty /\ x[o].st \in Live
          /\ Becomes(o, "CANCELED", x[o].ex)
      BY <1>2 DEF TypeInv, DataOK, XState, Expire
    <2>1. Grows /\ ExchangeOK' /\ WireOK'
      BY <2>0, BecomesSafe DEF Live
    <2>2. NoneBorn(Free)
      BY <2>0 DEF NoneBorn, Becomes, Live
    <2> QED BY <1>2, <2>1, <2>2, NoThreadStep DEF Expire, book
  <1>3. CASE StreamDrop
    <2>1. UNCHANGED x /\ wire' = <<>>
      BY <1>3 DEF StreamDrop
    <2>2. WireOK'
      BY <2>1 DEF WireOK
    <2> QED BY <1>3, <2>1, <2>2, SameExchange, NoThreadStep DEF StreamDrop, book
  <1>4. CASE ClosePosition
    <2>1. UNCHANGED <<x, wire, l, abandoned, th>> /\ pos' = 0
      BY <1>4 DEF ClosePosition, exchange
    <2>2. Grows /\ ExchangeOK' /\ WireOK' /\ NoneBorn(Free) /\ SameList
      BY <2>1, SameExchange DEF SameList
    <2>3. LocalOK' /\ KeepsList(Free)
      BY <2>1, <2>2, ListStays
    <2>4. RegisteredIsExecuted'
      BY <2>1 DEF RegisteredIsExecuted
    <2>5. Free \notin Threads
      BY DEF Free, Threads
    <2>6. \A u \in Threads : Fine(u, th[u])'
      BY <2>1, <2>2, <2>3, <2>5, OtherStaysFine DEF Tame
    <2> QED BY <2>2, <2>3, <2>4, <2>6 DEF SafeInv, SafeData
  <1> QED BY <1>1, <1>2, <1>3, <1>4 DEF Exchange

LEMMA ResumePauseSafe ==
  ASSUME TypeInv, TypeInv', SafeInv, Resume \/ Pause \/ UNCHANGED vars PROVE SafeInv'
  <1>1. UNCHANGED <<x, wire, l, pos, abandoned, th>>
    BY DEF Resume, Pause, vars, exchange, book
  <1> QED BY <1>1, SameExchange, NoThreadStep

-----------------------------------------------------------------------------

LEMMA NextSafe == ASSUME TypeInv, TypeInv', SafeInv, [Next]_vars PROVE SafeInv'
  <1>0. "feed" \in Threads /\ "main" \in Threads /\ "stream" \in Threads /\ "cmd" \in Threads
    BY DEF Threads
  <1>1. CASE \E o \in Orders : Signal(o)
    BY <1>1, SignalSafe
  <1>2. CASE Feed
    BY <1>0, <1>2, PlaceAcceptedSafe, PlaceFailedSafe, FeedAppendSafe, FeedCheckSafe,
       FeedProtectSafe, FeedOpenSafe, RemainderSafe, RemainderAnswerSafe DEF Feed
  <1>3. CASE Poll
    BY <1>0, <1>3, PollStartSafe, PollQuerySafe, PollApplySafe, PollDoneSafe, RegisterSafe,
       UpdateSafe, ProtectFillSafe, RemainderSafe, RemainderAnswerSafe DEF Poll
  <1>4. CASE Timeouts
    BY <1>0, <1>4, PendingTimeoutSafe, CancelSafe, CancelAnswerSafe DEF Timeouts
  <1>5. CASE Stream
    BY <1>0, <1>5, PushSafe, RegisterSafe, UpdateSafe, ProtectFillSafe, RemainderSafe,
       RemainderAnswerSafe DEF Stream
  <1>6. CASE Commands
    BY <1>0, <1>6, EmergencyStopSafe, StopNextSafe, ResumePauseSafe, CancelAllSafe,
       BulkCancelSafe, BulkReturnSafe, BulkMarkSafe, CancelSafe, CancelAnswerSafe DEF Commands
  <1>7. CASE Exchange
    BY <1>7, ExchangeSafe
  <1>8. CASE UNCHANGED vars
    BY <1>8, ResumePauseSafe
  <1> QED BY <1>1, <1>2, <1>3, <1>4, <1>5, <1>6, <1>7, <1>8 DEF Next

LEMMA SafeInvariant == Spec => []SafeInv
  <1>1. TypeInv /\ TypeInv' /\ SafeInv /\ [Next]_vars => SafeInv'
    BY NextSafe
  <1> QED BY <1>1, InitSafe, TypeInvariant, PTL DEF Spec

(* The order list never claims more than the exchange has executed, whatever *)
(* the order in which answers, polls and pushes are applied                  *)
(* (sync_entry_fills, on_user_order_update).                                 *)
THEOREM NeverAhead == Spec => []LocalNeverAhead
  <1>1. SafeInv => LocalNeverAhead
    BY DEF SafeInv, SafeData, LocalOK
  <1> QED BY <1>1, SafeInvariant, PTL

(* An order shown as CANCELED or REJECTED is dead on the exchange, except    *)
(* where the program gave it up in the dark: a placement or a cancel_all     *)
(* that had no answer, or a cancellation refused with an error code          *)
(* (submit_entry, cancel_all, _cancel_one_order, _maybe_cancel_remainder).   *)
THEOREM GivenUpAreDead == Spec => []GivenUpIsDead
  <1>1. SafeInv => GivenUpIsDead
    BY DEF SafeInv, SafeData, LocalOK
  <1> QED BY <1>1, SafeInvariant, PTL

(* The registered position never exceeds what an entry order has executed    *)
(* (_register_fills, _execute_signal).                                       *)
THEOREM RegisteredAreExecuted == Spec => []RegisteredIsExecuted
  <1>1. SafeInv => RegisteredIsExecuted
    BY DEF SafeInv, SafeData
  <1> QED BY <1>1, SafeInvariant, PTL


-----------------------------------------------------------------------------
(* CoverWithinPosition.  The lock keeps the lots that a thread is about to   *)
(* register, or to protect, apart from those of the others.                  *)
Growing == {"update", "protectFill"}

(* As long as only the lock's holder touches the position, it is what the    *)
(* holder read, and then larger than the cover by what is to be protected.   *)
Untouched == ~direct /\ used.closes = 0

Holds(t) ==
  /\ th[t].pc \in Growing => lock = t
  /\ Untouched /\ th[t].pc = "update" => th[t].held = pos
  /\ Untouched /\ th[t].pc = "protectFill" => cover + th[t].view.ex <= pos

CoverInv == CoverWithinPosition /\ \A t \in Threads : Holds(t)

LEMMA InitCover == Init => CoverInv
  BY DEF Init, CoverInv, CoverWithinPosition, Holds, Growing, Rest, Threads

(* The threads that move are not in the middle of a registration. *)
Calm == \A t \in Threads : th'[t] = th[t] \/ th'[t].pc \notin Growing

LEMMA CalmStep ==
  ASSUME CoverInv, Calm, UNCHANGED <<pos, cover, direct, lock>>, used'.closes = used.closes
  PROVE  CoverInv'
  BY DEF CoverInv, Calm, CoverWithinPosition, Holds, Growing, Untouched

LEMMA CalmMove ==
  ASSUME TypeInv, NEW t \in Threads, NEW r, r.pc \notin Growing, Goes(t, r)
  PROVE  Calm
  <1>1. th \in [Threads -> Local]
    BY DEF TypeInv, ThreadsOK
  <1> QED BY <1>1 DEF Calm, Goes

LEMMA RestIsCalm == Rest.pc \notin Growing
  BY DEF Rest, Growing

LEMMA LeaveIsCalm == ASSUME TypeInv, NEW t \in Threads, Leave(t) PROVE Calm
  BY CalmMove, RestIsCalm DEF Leave

LEMMA ThreadIsLocal == ASSUME TypeInv, NEW t \in Threads PROVE th[t] \in Local
  BY DEF TypeInv, ThreadsOK

LEMMA GotoIsCalm ==
  ASSUME TypeInv, NEW t \in Threads, NEW p, p \notin Growing, Goto(t, p)
  PROVE  Calm
  <1>1. [th[t] EXCEPT !.pc = p].pc = p
    BY ThreadIsLocal DEF Local
  <1> QED BY <1>1, CalmMove DEF Goto

LEMMA FaultClosesNothing == ASSUME TypeInv, Fault \/ UNCHANGED used PROVE used'.closes = used.closes
  BY DEF TypeInv, DataOK, Fault

LEMMA CommandClosesNothing == ASSUME TypeInv, Command PROVE used'.closes = used.closes
  BY DEF TypeInv, DataOK, Command

-----------------------------------------------------------------------------
(* The feed thread protects and registers only as the history "direct" says. *)
LEMMA SignalCover == ASSUME TypeInv, CoverInv, NEW o \in Orders, Signal(o) PROVE CoverInv'
  <1>1. "feed" \in Threads /\ th["feed"] \in Local
    BY ThreadIsLocal DEF Threads
  <1>2. [th["feed"] EXCEPT !.pc = "place", !.o = o].pc \notin Growing
    BY <1>1 DEF Local, Growing
  <1>3. Calm
    BY <1>1, <1>2, CalmMove DEF Signal
  <1> QED BY <1>3, CalmStep DEF Signal, book

LEMMA PlaceCover == ASSUME TypeInv, CoverInv, PlaceAccepted \/ PlaceFailed PROVE CoverInv'
  <1>1. "feed" \in Threads /\ th["feed"] \in Local
    BY ThreadIsLocal DEF Threads
  <1>2. \A v : [th["feed"] EXCEPT !.pc = "append", !.view = v].pc \notin Growing
    BY <1>1 DEF Local, Growing
  <1>3. \E v : Goes("feed", [th["feed"] EXCEPT !.pc = "append", !.view = v])
    BY DEF PlaceAccepted, PlaceFailed
  <1>4. Calm
    BY <1>1, <1>2, <1>3, CalmMove
  <1>5. used'.closes = used.closes
    BY FaultClosesNothing DEF PlaceAccepted, PlaceFailed
  <1> QED BY <1>4, <1>5, CalmStep DEF PlaceAccepted, PlaceFailed, book

LEMMA AppendCover == ASSUME TypeInv, CoverInv, FeedAppend PROVE CoverInv'
  <1>1. "feed" \in Threads /\ "remainder" \notin Growing /\ "check" \notin Growing
    BY DEF Threads, Growing
  <1>2. Goto("feed", "remainder") \/ Goto("feed", "check")
    BY DEF FeedAppend
  <1>3. Calm
    BY <1>1, <1>2, GotoIsCalm
  <1> QED BY <1>3, CalmStep DEF FeedAppend, book

LEMMA CheckCover == ASSUME TypeInv, CoverInv, FeedCheck PROVE CoverInv'
  <1>1. "feed" \in Threads /\ th["feed"] \in Local /\ "open" \notin Growing
    BY ThreadIsLocal DEF Threads, Growing
  <1>2. \A n : [th["feed"] EXCEPT !.pc = "protect", !.view.ex = n].pc \notin Growing
    BY <1>1 DEF Local, Growing
  <1>3. \/ Leave("feed") \/ Goto("feed", "open")
        \/ \E n : Goes("feed", [th["feed"] EXCEPT !.pc = "protect", !.view.ex = n])
    BY DEF FeedCheck
  <1>4. CASE Leave("feed") \/ Goto("feed", "open")
    <2>1. Calm
      BY <1>1, <1>4, LeaveIsCalm, GotoIsCalm
    <2> QED BY <2>1, CalmStep DEF FeedCheck, book
  <1>5. ASSUME NEW n, Goes("feed", [th["feed"] EXCEPT !.pc = "protect", !.view.ex = n])
        PROVE  CoverInv'
    <2>1. Calm
      BY <1>1, <1>2, <1>5, CalmMove
    <2> QED BY <2>1, CalmStep DEF FeedCheck, book
  <1> QED BY <1>3, <1>4, <1>5

LEMMA DirectCover ==
  ASSUME CoverInv, Calm, direct', UNCHANGED lock
  PROVE  CoverInv'
  BY DEF CoverInv, Calm, CoverWithinPosition, Holds, Growing, Untouched

LEMMA FeedProtectCover == ASSUME TypeInv, CoverInv, FeedProtect PROVE CoverInv'
  <1>1. "feed" \in Threads /\ "open" \notin Growing
    BY DEF Threads, Growing
  <1>2. Calm
    BY <1>1, GotoIsCalm DEF FeedProtect
  <1> QED BY <1>2, DirectCover DEF FeedProtect

LEMMA FeedOpenCover == ASSUME TypeInv, CoverInv, FeedOpen PROVE CoverInv'
  <1>1. Calm
    BY LeaveIsCalm DEF FeedOpen, Threads
  <1>2. CASE direct'
    BY <1>1, <1>2, DirectCover DEF FeedOpen
  <1>3. CASE ~direct'
    <2>1. UNCHANGED <<pos, direct>>
      BY <1>3 DEF FeedOpen
    <2> QED BY <1>1, <2>1, CalmStep DEF FeedOpen
  <1> QED BY <1>2, <1>3

-----------------------------------------------------------------------------
(* Registration under the lock. *)
LEMMA SettleCover ==
  ASSUME TypeInv, CoverInv, NEW t \in Threads, NEW o, Settle(t, o), lock \in {Free, t}
  PROVE  /\ Calm
         /\ \A s \in Threads : th'[s].pc \notin Growing
  <1>1. th \in [Threads -> Local] /\ th[t] \in Local
    BY ThreadIsLocal DEF TypeInv, ThreadsOK
  <1>2. \A n : [th[t] EXCEPT !.pc = "register", !.newly = n].pc \notin Growing
    BY <1>1 DEF Local, Growing
  <1>3. PICK r : Goes(t, r) /\ r.pc \notin Growing
    <2>1. CASE th[t].newly \ {o} = {}
      BY <2>1, RestIsCalm DEF Settle
    <2>2. CASE th[t].newly \ {o} # {}
      BY <1>2, <2>2 DEF Settle
    <2> QED BY <2>1, <2>2
  <1>4. th'[t] = r /\ \A s \in Threads \ {t} : th'[s] = th[s]
    BY <1>1, <1>3 DEF Goes
  <1>5. Free \notin Threads
    BY DEF Free, Threads
  <1>6. \A s \in Threads \ {t} : th[s].pc \notin Growing
    BY <1>5 DEF CoverInv, Holds
  <1> QED BY <1>3, <1>4, <1>6 DEF Calm

LEMMA RegisterCover == ASSUME TypeInv, CoverInv, NEW t \in Threads, Register(t) PROVE CoverInv'
  <1>1. PICK o \in th[t].newly :
          \/ /\ FilledOf(o) > pos /\ lock' = t
             /\ Goes(t, [th[t] EXCEPT !.pc = "update", !.o = o, !.held = pos,
                                      !.view.ex = FilledOf(o) - pos])
          \/ Settle(t, o)
    BY DEF Register
  <1>2. lock \in {Free, t} /\ UNCHANGED <<pos, cover, direct, used>>
    BY DEF Register, MayHold, book
  <1>3. th \in [Threads -> Local] /\ th[t] \in Local /\ Free \notin Threads
    BY ThreadIsLocal DEF TypeInv, ThreadsOK, Free, Threads
  <1>4. CASE Settle(t, o)
    <2>1. \A s \in Threads : th'[s].pc \notin Growing
      BY <1>2, <1>4, SettleCover
    <2> QED BY <1>2, <2>1 DEF CoverInv, CoverWithinPosition, Holds, Growing
  <1>5. CASE /\ lock' = t
             /\ Goes(t, [th[t] EXCEPT !.pc = "update", !.o = o, !.held = pos,
                                      !.view.ex = FilledOf(o) - pos])
    <2> DEFINE r == [th[t] EXCEPT !.pc = "update", !.o = o, !.held = pos,
                                  !.view.ex = FilledOf(o) - pos]
    <2>1. r.pc = "update" /\ r.held = pos
      BY <1>3 DEF Local
    <2>2. th'[t] = r /\ \A s \in Threads \ {t} : th'[s] = th[s]
      BY <1>3, <1>5 DEF Goes
    <2> HIDE DEF r
    <2>3. \A s \in Threads \ {t} : th[s].pc \notin Growing
      BY <1>2, <1>3 DEF CoverInv, Holds
    <2> QED BY <1>2, <1>5, <2>1, <2>2, <2>3 DEF CoverInv, CoverWithinPosition, Holds, Growing
  <1> QED BY <1>1, <1>4, <1>5

LEMMA UpdateCover == ASSUME TypeInv, TypeInv', CoverInv, NEW t \in Threads, Update(t) PROVE CoverInv'
  <1>1. th \in [Threads -> Local] /\ th[t] \in Local /\ th'[t] \in Local
    BY ThreadIsLocal DEF TypeInv, ThreadsOK
  <1>2. th[t].pc = "update" /\ lock = t /\ UNCHANGED <<cover, direct, lock, used>>
    BY DEF Update, At, CoverInv, Holds, Growing
  <1>3. /\ th'[t].pc = "protectFill" /\ th'[t].view = th[t].view
        /\ \A s \in Threads \ {t} : th'[s] = th[s] /\ th[s].pc \notin Growing
    BY <1>1, <1>2 DEF Update, Goto, Goes, Local, CoverInv, Holds
  <1>4. ASSUME Untouched' PROVE cover' + th'[t].view.ex <= pos' /\ cover' <= pos'
    <2>1. Untouched
      BY <1>2, <1>4 DEF Untouched
    <2>2. th[t].held = pos /\ cover <= pos
      BY <1>2, <2>1 DEF CoverInv, Holds, CoverWithinPosition, Untouched
    <2>3. pos' = pos + th[t].view.ex
      BY <2>2 DEF Update, Tell
    <2>4. pos \in Nat /\ cover \in Nat /\ th[t].view.ex \in Nat
      BY <1>1 DEF TypeInv, DataOK, Local
    <2> QED BY <1>2, <1>3, <2>2, <2>3, <2>4
  <1> QED BY <1>2, <1>3, <1>4 DEF CoverInv, CoverWithinPosition, Holds, Growing, Untouched

LEMMA ProtectFillCover == ASSUME TypeInv, CoverInv, NEW t \in Threads, ProtectFill(t) PROVE CoverInv'
  <1>1. th[t].pc = "protectFill" /\ lock = t /\ UNCHANGED <<pos, direct, used>>
    BY DEF ProtectFill, At, CoverInv, Holds, Growing
  <1>2. \A s \in Threads : th'[s].pc \notin Growing
    BY <1>1, SettleCover DEF ProtectFill
  <1>3. Untouched => cover' <= pos
    BY <1>1 DEF ProtectFill, CoverInv, Holds, CoverWithinPosition, Untouched
  <1> QED BY <1>1, <1>2, <1>3 DEF CoverInv, CoverWithinPosition, Holds, Growing, Untouched

-----------------------------------------------------------------------------
(* Everything else leaves position, cover and lock alone. *)
LEMMA AfterRemainderIsCalm ==
  ASSUME NEW t \in Threads, NEW r \in Local
  PROVE  AfterRemainder(t, r).pc \notin Growing
  <1>1. CASE t = "feed"
    BY <1>1 DEF AfterRemainder, Local, Growing
  <1>2. CASE t = "main"
    BY <1>2 DEF AfterRemainder, Local, Growing
  <1>3. CASE t \notin {"feed", "main"}
    BY <1>3, RestIsCalm DEF AfterRemainder, Local, Growing
  <1> QED BY <1>1, <1>2, <1>3

LEMMA CancelCallCover ==
  ASSUME TypeInv, NEW o, NEW r, CancelCall(o, r)
  PROVE  used'.closes = used.closes
  BY FaultClosesNothing DEF CancelCall

LEMMA RemainderCover == ASSUME TypeInv, CoverInv, NEW t \in Threads, Remainder(t) PROVE CoverInv'
  <1>1. th[t] \in Local
    BY ThreadIsLocal
  <1>2. CASE Goes(t, AfterRemainder(t, th[t])) /\ UNCHANGED used
    <2>1. Calm
      BY <1>1, <1>2, AfterRemainderIsCalm, CalmMove
    <2> QED BY <1>2, <2>1, CalmStep DEF Remainder, book
  <1>3. ASSUME NEW r, CancelCall(th[t].o, r), Goes(t, [th[t] EXCEPT !.pc = "remainderAns", !.ans = r])
        PROVE  CoverInv'
    <2>1. [th[t] EXCEPT !.pc = "remainderAns", !.ans = r].pc \notin Growing
      BY <1>1 DEF Local, Growing
    <2>2. Calm
      BY <1>3, <2>1, CalmMove
    <2>3. used'.closes = used.closes
      BY <1>3, CancelCallCover
    <2> QED BY <2>2, <2>3, CalmStep DEF Remainder, book
  <1> QED BY <1>2, <1>3 DEF Remainder

LEMMA RemainderAnswerCover ==
  ASSUME TypeInv, CoverInv, NEW t \in Threads, RemainderAnswer(t)
  PROVE  CoverInv'
  <1>1. Calm
    BY ThreadIsLocal, AfterRemainderIsCalm, CalmMove DEF RemainderAnswer
  <1> QED BY <1>1, CalmStep DEF RemainderAnswer, book

LEMMA CancelCover == ASSUME TypeInv, CoverInv, NEW t \in Threads, Cancel(t) PROVE CoverInv'
  <1>1. PICK r : CancelCall(th[t].o, r) /\ Goes(t, [th[t] EXCEPT !.pc = "cancelAns", !.ans = r])
    BY DEF Cancel
  <1>2. [th[t] EXCEPT !.pc = "cancelAns", !.ans = r].pc \notin Growing
    BY ThreadIsLocal DEF Local, Growing
  <1>3. Calm
    BY <1>1, <1>2, CalmMove
  <1>4. used'.closes = used.closes
    BY <1>1, CancelCallCover
  <1> QED BY <1>3, <1>4, CalmStep DEF Cancel, book

LEMMA CancelAnswerCover ==
  ASSUME TypeInv, CoverInv, NEW t \in Threads, CancelAnswer(t)
  PROVE  CoverInv'
  <1>1. Calm
    <2>1. CASE t = "cmd"
      <3>1. [th["cmd"] EXCEPT !.pc = "stop", !.o = NoOrder, !.ans = "none"].pc \notin Growing
        BY <2>1, ThreadIsLocal DEF Local, Growing
      <3> QED BY <2>1, <3>1, CalmMove DEF CancelAnswer
    <2>2. CASE t # "cmd"
      BY <2>2, LeaveIsCalm DEF CancelAnswer
    <2> QED BY <2>1, <2>2
  <1> QED BY <1>1, CalmStep DEF CancelAnswer, book

LEMMA LearnIsCalm ==
  ASSUME TypeInv, NEW t \in Threads, NEW o, NEW st, NEW ex, NEW r \in Local, r.pc \notin Growing,
         Learn(t, o, st, ex, r)
  PROVE  Calm
  <1>1. CASE st \in Filled
    <2>1. \A n : [r EXCEPT !.pc = "remainder", !.o = o, !.newly = n].pc \notin Growing
      BY DEF Local, Growing
    <2>2. \E n : Goes(t, [r EXCEPT !.pc = "remainder", !.o = o, !.newly = n])
      BY <1>1 DEF Learn
    <2> QED BY <2>1, <2>2, CalmMove
  <1>2. CASE st \notin Filled
    BY <1>2, CalmMove DEF Learn
  <1> QED BY <1>1, <1>2

LEMMA PollCover ==
  ASSUME TypeInv, CoverInv, PollStart \/ PollQuery \/ PollApply \/ PollDone
  PROVE  CoverInv'
  <1>0. "main" \in Threads /\ th["main"] \in Local
    BY ThreadIsLocal DEF Threads
  <1>1. CASE PollStart
    <2>1. \A s : [th["main"] EXCEPT !.pc = "poll", !.todo = s].pc \notin Growing
      BY <1>0 DEF Local, Growing
    <2>2. Calm
      BY <1>0, <1>1, <2>1, CalmMove DEF PollStart
    <2> QED BY <1>1, <2>2, CalmStep DEF PollStart, book
  <1>2. CASE PollQuery
    <2>1. PICK o \in ToPoll :
            LET r == [th["main"] EXCEPT !.todo = @ \ {o}] IN
            \/ Goes("main", [r EXCEPT !.pc = "apply", !.o = o, !.view = x[o]]) /\ UNCHANGED used
            \/ Fault /\ Goes("main", r)
      BY <1>2 DEF PollQuery
    <2> DEFINE r == [th["main"] EXCEPT !.todo = @ \ {o}]
    <2>2. r.pc = "poll" /\ [r EXCEPT !.pc = "apply", !.o = o, !.view = x[o]].pc = "apply"
      BY <1>0, <1>2 DEF Local, PollQuery, At
    <2>3. Goes("main", r) \/ Goes("main", [r EXCEPT !.pc = "apply", !.o = o, !.view = x[o]])
      BY <2>1
    <2> HIDE DEF r
    <2>4. Calm
      <3>1. CASE Goes("main", r)
        BY <1>0, <2>2, <3>1, CalmMove DEF Growing
      <3>2. CASE Goes("main", [r EXCEPT !.pc = "apply", !.o = o, !.view = x[o]])
        BY <1>0, <2>2, <3>2, CalmMove DEF Growing
      <3> QED BY <2>3, <3>1, <3>2
    <2>5. used'.closes = used.closes
      BY <2>1, FaultClosesNothing
    <2> QED BY <1>2, <2>4, <2>5, CalmStep DEF PollQuery, book
  <1>3. CASE PollApply
    <2> DEFINE r == [th["main"] EXCEPT !.pc = "poll", !.o = NoOrder, !.view = NoView]
    <2>1. r \in Local /\ r.pc = "poll"
      <3>1. NoView \in [st : XStatus \cup {"REJECTED"}, ex : 0..Qty]
        BY QtyAssumption DEF NoView, XStatus
      <3> QED BY <1>0, <3>1 DEF Local
    <2>2. \E o, st, ex : Learn("main", o, st, ex, r)
      BY <1>3 DEF PollApply
    <2> HIDE DEF r
    <2>3. Calm
      BY <1>0, <2>1, <2>2, LearnIsCalm DEF Growing
    <2> QED BY <1>3, <2>3, CalmStep DEF PollApply, book
  <1>4. CASE PollDone
    <2>1. [th["main"] EXCEPT !.pc = "register", !.todo = {}].pc \notin Growing
      BY <1>0 DEF Local, Growing
    <2>2. Calm
      BY <1>0, <1>4, <2>1, CalmMove, LeaveIsCalm DEF PollDone
    <2> QED BY <1>4, <2>2, CalmStep DEF PollDone, book
  <1> QED BY <1>1, <1>2, <1>3, <1>4

LEMMA PendingTimeoutCover ==
  ASSUME TypeInv, CoverInv, NEW o \in Orders, PendingTimeout(o)
  PROVE  CoverInv'
  <1>1. [th["main"] EXCEPT !.pc = "cancel", !.o = o].pc \notin Growing
    BY ThreadIsLocal DEF Threads, Local, Growing
  <1>2. Calm
    BY <1>1, CalmMove DEF PendingTimeout, Threads
  <1> QED BY <1>2, CalmStep DEF PendingTimeout, book

LEMMA PushCover == ASSUME TypeInv, CoverInv, Push PROVE CoverInv'
  <1>1. Rest \in Local
    BY RestFits DEF Fits
  <1>2. UNCHANGED th \/ \E o, st, ex : Learn("stream", o, st, ex, Rest)
    BY DEF Push
  <1>3. Calm
    <2>1. CASE UNCHANGED th
      BY <2>1 DEF Calm
    <2>2. CASE \E o, st, ex : Learn("stream", o, st, ex, Rest)
      BY <1>1, <2>2, RestIsCalm, LearnIsCalm DEF Threads
    <2> QED BY <1>2, <2>1, <2>2
  <1> QED BY <1>3, CalmStep DEF Push, book

LEMMA CommandsCover ==
  ASSUME TypeInv, CoverInv,
         EmergencyStop \/ StopNext \/ Resume \/ Pause \/ CancelAll \/ BulkCancel \/ BulkReturn \/ BulkMark
  PROVE  CoverInv'
  <1>0. "cmd" \in Threads /\ th["cmd"] \in Local
    BY ThreadIsLocal DEF Threads
  <1>1. \A p \in {"stop", "bulk", "mark"} : \A s :
          [th["cmd"] EXCEPT !.pc = p, !.todo = s].pc \notin Growing
    BY <1>0 DEF Local, Growing
  <1>2. \A o, s : [th["cmd"] EXCEPT !.pc = "cancel", !.o = o, !.todo = s].pc \notin Growing
    BY <1>0 DEF Local, Growing
  <1>3. ASSUME th["cmd"].pc \notin Growing
        PROVE  \A s : [th["cmd"] EXCEPT !.todo = s].pc \notin Growing
    BY <1>0, <1>3 DEF Local
  <1>4. Calm
    <2>1. CASE EmergencyStop
      BY <1>0, <1>1, <2>1, CalmMove DEF EmergencyStop
    <2>2. CASE StopNext
      <3>1. th["cmd"].pc \notin Growing
        BY <2>2 DEF StopNext, At, Growing
      <3>2. \/ Leave("cmd")
            \/ \E s : Goes("cmd", [th["cmd"] EXCEPT !.todo = s])
            \/ \E o, s : Goes("cmd", [th["cmd"] EXCEPT !.pc = "cancel", !.o = o, !.todo = s])
        BY <2>2 DEF StopNext
      <3> QED BY <1>0, <1>2, <1>3, <3>1, <3>2, CalmMove, LeaveIsCalm
    <2>3. CASE Resume \/ Pause
      BY <2>3 DEF Resume, Pause, Calm
    <2>4. CASE CancelAll
      BY <1>0, <1>1, <2>4, CalmMove DEF CancelAll
    <2>5. CASE BulkCancel
      <3>1. th["cmd"].pc \notin Growing
        BY <2>5 DEF BulkCancel, At, Growing
      <3>2. \E s : Goes("cmd", [th["cmd"] EXCEPT !.todo = s])
        BY <2>5 DEF BulkCancel
      <3> QED BY <1>0, <1>3, <3>1, <3>2, CalmMove
    <2>6. CASE BulkReturn
      BY <1>0, <1>1, <2>6, CalmMove DEF BulkReturn
    <2>7. CASE BulkMark
      <3>1. th["cmd"].pc \notin Growing
        BY <2>7 DEF BulkMark, At, Growing
      <3>2. Leave("cmd") \/ \E s : Goes("cmd", [th["cmd"] EXCEPT !.todo = s])
        BY <2>7 DEF BulkMark
      <3> QED BY <1>0, <1>3, <3>1, <3>2, CalmMove, LeaveIsCalm
    <2> QED BY <2>1, <2>2, <2>3, <2>4, <2>5, <2>6, <2>7
  <1>5. used'.closes = used.closes
    BY CommandClosesNothing, FaultClosesNothing
       DEF EmergencyStop, StopNext, Resume, Pause, CancelAll, BulkCancel, BulkReturn, BulkMark
  <1>6. UNCHANGED <<pos, cover, direct, lock>>
    BY DEF EmergencyStop, StopNext, Resume, Pause, CancelAll, BulkCancel, BulkReturn, BulkMark, book
  <1> QED BY <1>4, <1>5, <1>6, CalmStep

(* Once the position has been closed the property says nothing more. *)
LEMMA ExchangeCover == ASSUME TypeInv, CoverInv, Exchange PROVE CoverInv'
  <1>1. CASE ClosePosition
    <2>1. ~Untouched' /\ UNCHANGED <<th, lock>>
      BY <1>1 DEF ClosePosition, Untouched, TypeInv, DataOK
    <2> QED BY <2>1 DEF CoverInv, CoverWithinPosition, Holds, Untouched
  <1>2. CASE (\E o \in Orders : Fill(o) \/ Expire(o)) \/ StreamDrop
    <2>1. Calm /\ UNCHANGED <<pos, cover, direct, lock>>
      BY <1>2 DEF Fill, Expire, StreamDrop, Calm, book
    <2>2. used'.closes = used.closes
      BY <1>2, FaultClosesNothing DEF Fill, Expire, StreamDrop
    <2> QED BY <2>1, <2>2, CalmStep
  <1> QED BY <1>1, <1>2 DEF Exchange

LEMMA NextCover == ASSUME TypeInv, TypeInv', CoverInv, [Next]_vars PROVE CoverInv'
  <1>0. "feed" \in Threads /\ "main" \in Threads /\ "stream" \in Threads /\ "cmd" \in Threads
    BY DEF Threads
  <1>1. CASE \E o \in Orders : Signal(o)
    BY <1>1, SignalCover
  <1>2. CASE Feed
    BY <1>0, <1>2, PlaceCover, AppendCover, CheckCover, FeedProtectCover, FeedOpenCover,
       RemainderCover, RemainderAnswerCover DEF Feed
  <1>3. CASE Poll
    BY <1>0, <1>3, PollCover, RegisterCover, UpdateCover, ProtectFillCover,
       RemainderCover, RemainderAnswerCover DEF Poll
  <1>4. CASE Timeouts
    BY <1>0, <1>4, PendingTimeoutCover, CancelCover, CancelAnswerCover DEF Timeouts
  <1>5. CASE Stream
    BY <1>0, <1>5, PushCover, RegisterCover, UpdateCover, ProtectFillCover,
       RemainderCover, RemainderAnswerCover DEF Stream
  <1>6. CASE Commands
    BY <1>0, <1>6, CommandsCover, CancelCover, CancelAnswerCover DEF Commands
  <1>7. CASE Exchange
    BY <1>7, ExchangeCover
  <1>8. CASE UNCHANGED vars
    BY <1>8, CalmStep DEF vars, book, Calm
  <1> QED BY <1>1, <1>2, <1>3, <1>4, <1>5, <1>6, <1>7, <1>8 DEF Next

(* Each registered lot is protected once, however pushes and polls overlap:  *)
(* _fills_lock keeps reading the position, registering the increment and     *)
(* protecting it together (_register_fills), for any number of orders.       *)
THEOREM CoverStaysWithin == Spec => []CoverWithinPosition
  <1>1. TypeInv /\ TypeInv' /\ CoverInv /\ [Next]_vars => CoverInv'
    BY NextCover
  <1>2. CoverInv => CoverWithinPosition
    BY DEF CoverInv
  <1> QED BY <1>1, <1>2, InitCover, TypeInvariant, PTL DEF Spec

-----------------------------------------------------------------------------
(* What the portfolio was told of an order lies in its past, too. *)
Backed == \A o \in Orders : reg[o] <= x[o].ex

LEMMA BecomesGrows ==
  ASSUME TypeInv, NEW o \in Orders, NEW st, NEW n \in 0..Qty, x[o].ex <= n, Becomes(o, st, n)
  PROVE  \A p \in Orders : x[p].ex <= x'[p].ex
  BY DEF Becomes, TypeInv, DataOK, XState

(* Only these steps touch the exchange, and none takes an execution back. *)
LEMMA ExecutedStays ==
  ASSUME TypeInv, SafeInv, [Next]_vars
  PROVE  \A p \in Orders : x[p].ex <= x'[p].ex
  <1>0. \A p \in Orders : x[p].ex \in 0..Qty
    BY DEF TypeInv, DataOK, XState
  <1>1. ASSUME UNCHANGED x PROVE \A p \in Orders : x[p].ex <= x'[p].ex
    BY <1>0, <1>1
  <1>2. ASSUME NEW t \in Threads, NEW r, th[t].o \in Orders, CancelCall(th[t].o, r)
        PROVE  \A p \in Orders : x[p].ex <= x'[p].ex
    <2>1. UNCHANGED x \/ Becomes(th[t].o, "CANCELED", x[th[t].o].ex)
      BY <1>2 DEF CancelCall, Ends, exchange
    <2>2. x[th[t].o].ex \in 0..Qty /\ x[th[t].o].ex <= x[th[t].o].ex
      BY <1>0, <1>2
    <2> QED BY <1>1, <1>2, <2>1, <2>2, BecomesGrows
  <1>3. CASE PlaceAccepted \/ PlaceFailed
    <2> DEFINE o == th["feed"].o
    <2>0. "feed" \in Threads /\ th["feed"].pc = "place" /\ Fine("feed", th["feed"]) /\ o \in Orders
      BY <1>3, ThreadFits DEF PlaceAccepted, PlaceFailed, At, Threads, Acting, Fits, TypeInv, SafeInv
    <2>1. o \in Orders /\ x[o].ex = 0 /\ 0 \in 0..Qty
      BY <2>0 DEF SafeInv, SafeData, ExchangeOK, Fine, Placing
    <2> HIDE DEF o
    <2>2. CASE PlaceAccepted
      <3>1. PICK n \in 0..Qty : \E st : Becomes(o, st, n)
        BY <2>2 DEF PlaceAccepted, o
      <3> QED BY <2>1, <3>1, BecomesGrows
    <2>3. CASE PlaceFailed
      <3>1. Becomes(o, "NEW", 0) \/ UNCHANGED x
        BY <2>3 DEF PlaceFailed, exchange, o
      <3> QED BY <1>1, <2>1, <3>1, BecomesGrows
    <2> QED BY <1>3, <2>2, <2>3
  <1>4. ASSUME NEW t \in Threads, Remainder(t) \/ Cancel(t)
        PROVE  \A p \in Orders : x[p].ex <= x'[p].ex
    <2>1. th[t].o \in Orders
      BY <1>4, ThreadFits DEF Remainder, Cancel, At, Acting, Fits, TypeInv
    <2>2. UNCHANGED x \/ \E r : CancelCall(th[t].o, r)
      BY <1>4 DEF Remainder, Cancel, exchange
    <2> QED BY <1>1, <1>2, <2>1, <2>2
  <1>5. CASE BulkCancel
    <2>1. PICK o \in Orders : Becomes(o, "CANCELED", x[o].ex) \/ UNCHANGED x
      BY <1>5, ThreadIsLocal DEF BulkCancel, exchange, Threads, Local
    <2> QED BY <1>0, <1>1, <2>1, BecomesGrows
  <1>6. ASSUME NEW o \in Orders, Fill(o) \/ Expire(o) PROVE \A p \in Orders : x[p].ex <= x'[p].ex
    <2>1. \E n \in 0..Qty : x[o].ex <= n /\ \E st : Becomes(o, st, n)
      <3>1. CASE Fill(o)
        <4>1. PICK n \in (x[o].ex + 1)..Qty : Becomes(o, Working(n), n)
          BY <3>1 DEF Fill
        <4>2. n \in 0..Qty /\ x[o].ex <= n
          BY <1>0, <4>1
        <4> QED BY <4>1, <4>2
      <3>2. CASE Expire(o)
        BY <1>0, <3>2 DEF Expire
      <3> QED BY <1>6, <3>1, <3>2
    <2> QED BY <2>1, BecomesGrows
  <1>7. \A t \in Threads : Remainder(t) \/ Cancel(t) => \A p \in Orders : x[p].ex <= x'[p].ex
    BY <1>4
  <1>8. \A o \in Orders : Fill(o) \/ Expire(o) => \A p \in Orders : x[p].ex <= x'[p].ex
    BY <1>6
  <1>9. \/ UNCHANGED x \/ PlaceAccepted \/ PlaceFailed \/ BulkCancel
        \/ \E t \in Threads : Remainder(t) \/ Cancel(t)
        \/ \E o \in Orders : Fill(o) \/ Expire(o)
    <2>1. "feed" \in Threads /\ "main" \in Threads /\ "stream" \in Threads /\ "cmd" \in Threads
      BY DEF Threads
    <2>2. \A t : Register(t) \/ Update(t) \/ ProtectFill(t) \/ RemainderAnswer(t) \/ CancelAnswer(t)
                   => UNCHANGED x
      BY DEF Register, Update, ProtectFill, RemainderAnswer, CancelAnswer, exchange
    <2>3. FeedAppend \/ FeedCheck \/ FeedProtect \/ FeedOpen => UNCHANGED x
      BY DEF FeedAppend, FeedCheck, FeedProtect, FeedOpen, exchange
    <2>4. PollStart \/ PollQuery \/ PollApply \/ PollDone \/ Push => UNCHANGED x
      BY DEF PollStart, PollQuery, PollApply, PollDone, Push, exchange
    <2>5. EmergencyStop \/ StopNext \/ Resume \/ Pause \/ CancelAll \/ BulkReturn \/ BulkMark => UNCHANGED x
      BY DEF EmergencyStop, StopNext, Resume, Pause, CancelAll, BulkReturn, BulkMark, exchange
    <2>6. \A o \in Orders : Signal(o) \/ PendingTimeout(o) => UNCHANGED x
      BY DEF Signal, PendingTimeout, exchange
    <2>7. StreamDrop \/ ClosePosition \/ UNCHANGED vars => UNCHANGED x
      BY DEF StreamDrop, ClosePosition, vars, exchange
    <2> QED BY <2>1, <2>2, <2>3, <2>4, <2>5, <2>6, <2>7
            DEF Next, Feed, Poll, Timeouts, Stream, Commands, Exchange
  <1> QED BY <1>1, <1>3, <1>5, <1>7, <1>8, <1>9

(* Telling the portfolio of n lots of order o. *)
LEMMA TellBacked ==
  ASSUME TypeInv, Backed, NEW o \in Orders, NEW n \in 0..Qty, n <= x[o].ex, UNCHANGED x, Tell(o, n)
  PROVE  Backed'
  BY DEF Tell, Larger, Backed, TypeInv, DataOK

LEMMA NextBacked == ASSUME TypeInv, TypeInv', SafeInv, Backed, [Next]_vars PROVE Backed'
  <1>1. CASE UNCHANGED reg
    <2>1. \A p \in Orders : reg[p] \in 0..Qty /\ x[p].ex \in 0..Qty /\ x'[p].ex \in 0..Qty
      BY DEF TypeInv, DataOK, XState
    <2> QED BY <1>1, <2>1, ExecutedStays DEF Backed
  <1>2. CASE FeedOpen
    <2>1. th["feed"].o \in Orders /\ UNCHANGED x
      BY <1>2, ThreadFits DEF TypeInv, FeedOpen, At, Threads, Acting, Fits, exchange
    <2>2. CASE l[th["feed"].o].st \in Filled
      <3>1. l[th["feed"].o].ex > 0
        BY <2>1, <2>2 DEF SafeInv, SafeData, LocalOK
      <3>2. FilledOf(th["feed"].o) \in 0..Qty /\ FilledOf(th["feed"].o) <= x[th["feed"].o].ex
        BY <2>1, <3>1, FilledOfExecuted
      <3> QED BY <1>2, <2>1, <2>2, <3>2, TellBacked DEF FeedOpen
    <2>3. CASE l[th["feed"].o].st \notin Filled
      BY <1>1, <1>2, <2>3 DEF FeedOpen
    <2> QED BY <2>2, <2>3
  <1>3. ASSUME NEW t \in Threads, Update(t) PROVE Backed'
    <2>1. /\ Fine(t, th[t]) /\ th[t].o \in Orders /\ UNCHANGED x
          /\ th[t].held + th[t].view.ex \in 0..Qty
      BY <1>3, ThreadFits DEF TypeInv, SafeInv, Fits, Update, At, Acting, exchange, Local
    <2>2. th[t].held + th[t].view.ex <= x[th[t].o].ex
      BY <1>3, <2>1 DEF Update, At, Fine, Answered
    <2>3. UNCHANGED reg \/ Tell(th[t].o, th[t].held + th[t].view.ex)
      BY <1>3 DEF Update
    <2> QED BY <1>1, <2>1, <2>2, <2>3, TellBacked
  <1>4. UNCHANGED reg \/ FeedOpen \/ \E t \in Threads : Update(t)
    <2>1. "main" \in Threads /\ "stream" \in Threads
      BY DEF Threads
    <2>2. \A t : Register(t) \/ ProtectFill(t) \/ Remainder(t) \/ RemainderAnswer(t) \/ Cancel(t) \/ CancelAnswer(t)
                   => UNCHANGED reg
      BY DEF Register, ProtectFill, Remainder, RemainderAnswer, Cancel, CancelAnswer, book
    <2>3. PlaceAccepted \/ PlaceFailed \/ FeedAppend \/ FeedCheck \/ FeedProtect => UNCHANGED reg
      BY DEF PlaceAccepted, PlaceFailed, FeedAppend, FeedCheck, FeedProtect, book
    <2>4. PollStart \/ PollQuery \/ PollApply \/ PollDone \/ Push => UNCHANGED reg
      BY DEF PollStart, PollQuery, PollApply, PollDone, Push, book
    <2>5. EmergencyStop \/ StopNext \/ Resume \/ Pause \/ CancelAll \/ BulkCancel \/ BulkReturn \/ BulkMark
            => UNCHANGED reg
      BY DEF EmergencyStop, StopNext, Resume, Pause, CancelAll, BulkCancel, BulkReturn, BulkMark, book
    <2>6. \A o \in Orders : Signal(o) \/ PendingTimeout(o) \/ Fill(o) \/ Expire(o) => UNCHANGED reg
      BY DEF Signal, PendingTimeout, Fill, Expire, book
    <2>7. StreamDrop \/ ClosePosition \/ UNCHANGED vars => UNCHANGED reg
      BY DEF StreamDrop, ClosePosition, vars, book
    <2> QED BY <2>1, <2>2, <2>3, <2>4, <2>5, <2>6, <2>7
            DEF Next, Feed, Poll, Timeouts, Stream, Commands, Exchange
  <1> QED BY <1>1, <1>2, <1>3, <1>4

(* Whichever of the three threads registers a fill, and however old the      *)
(* quantity it has read: of no order is the portfolio ever told more lots    *)
(* than the exchange has executed of that order (open_position,              *)
(* update_position).                                                         *)
THEOREM ToldIsExecuted == Spec => [](\A o \in Orders : reg[o] <= x[o].ex)
  <1>1. Init => Backed
    <2> SUFFICES ASSUME Init PROVE Backed
      OBVIOUS
    <2>1. \A o \in Orders : x[o] = NoView /\ reg[o] = 0
      BY DEF Init
    <2>2. NoView.ex = 0
      BY DEF NoView
    <2>3. \A o \in Orders : x[o].ex = 0
      BY <2>1, <2>2
    <2>4. 0 <= 0
      OBVIOUS
    <2> QED BY <2>1, <2>3, <2>4, Zenon DEF Backed
  <1>2. TypeInv /\ TypeInv' /\ SafeInv /\ Backed /\ [Next]_vars => Backed'
    BY NextBacked
  <1> QED BY <1>1, <1>2, TypeInvariant, SafeInvariant, PTL DEF Spec, Backed

(* _fills_lock: no two threads are in the middle of a registration, in which *)
(* the position is read, written and protected in three steps.               *)
THEOREM OneRegisters ==
  Spec => [](\A t, u \in Threads : th[t].pc \in Growing /\ th[u].pc \in Growing => t = u)
  <1>1. TypeInv /\ TypeInv' /\ CoverInv /\ [Next]_vars => CoverInv'
    BY NextCover
  <1>2. CoverInv => \A t, u \in Threads : th[t].pc \in Growing /\ th[u].pc \in Growing => t = u
    BY DEF CoverInv, Holds
  <1> QED BY <1>1, <1>2, InitCover, TypeInvariant, PTL DEF Spec

-----------------------------------------------------------------------------
(* Where the threads that register fills are, and what they carry.  A thread *)
(* outside of a registration keeps the fills it has confirmed (newly), and   *)
(* the feed thread its order, until they are registered.                     *)
Fillers     == {"main", "stream"}
Registering == Growing \cup {"register"}
Carrying    == {"poll", "apply", "remainder", "remainderAns"} \cup Registering
FeedTail    == {"remainder", "remainderAns", "check", "protect", "open"}

Carries == \A t \in Threads : th[t].newly # {} => t \in Fillers /\ th[t].pc \in Carrying

(* The feed thread is done with its order. *)
FeedEnds == FeedOpen \/ (FeedCheck /\ l[th["feed"].o].st = "REJECTED")

Keeps(t, r) ==
  /\ r.pc \notin Growing /\ th[t].newly \subseteq r.newly
  /\ r.newly # {} => t \in Fillers /\ r.pc \in Carrying
  /\ t = "feed" /\ th[t].pc \in FeedTail => FeedEnds \/ (r.o = th[t].o /\ r.pc \in FeedTail)

Walks == \A t \in Threads : th'[t] = th[t] \/ (th[t].pc \notin Registering /\ Keeps(t, th'[t]))

LEMMA WalkMove ==
  ASSUME TypeInv, NEW t \in Threads, NEW r, Goes(t, r), th[t].pc \notin Registering, Keeps(t, r)
  PROVE  Walks
  <1>1. th \in [Threads -> Local]
    BY DEF TypeInv, ThreadsOK
  <1>2. th'[t] = r /\ \A u \in Threads \ {t} : th'[u] = th[u]
    BY <1>1 DEF Goes
  <1> QED BY <1>2 DEF Walks

LEMMA StayWalks == ASSUME UNCHANGED th PROVE Walks
  BY DEF Walks

(* A thread that carries nothing goes on without. *)
LEMMA EmptyWalk ==
  ASSUME TypeInv, NEW t \in Threads \ {"feed"}, NEW r, Goes(t, r), th[t].pc \notin Registering,
         th[t].newly = {}, r.newly = {}, r.pc \notin Growing
  PROVE  Walks
  BY WalkMove DEF Keeps

LEMMA RestIsEmpty == Rest.newly = {} /\ Rest.pc \notin Growing
  BY DEF Rest, Growing

LEMMA FeedWalks ==
  ASSUME TypeInv, Carries,
         \/ \E o \in Orders : Signal(o)
         \/ PlaceAccepted \/ PlaceFailed \/ FeedAppend \/ FeedCheck \/ FeedProtect \/ FeedOpen
  PROVE  Walks
  <1> DEFINE f == th["feed"]
  <1>0. "feed" \in Threads /\ f \in Local /\ f.newly = {}
    BY ThreadIsLocal DEF Threads, Carries, Fillers
  <1>1. ASSUME NEW r, Goes("feed", r), r.newly = {}, r.pc \notin Growing, f.pc \notin Registering,
               f.pc \in FeedTail => FeedEnds \/ (r.o = f.o /\ r.pc \in FeedTail)
        PROVE  Walks
    BY <1>0, <1>1, WalkMove DEF Keeps
  <1>2. CASE \E o \in Orders : Signal(o)
    <2>1. PICK o \in Orders : Signal(o)
      BY <1>2
    <2> DEFINE r == [f EXCEPT !.pc = "place", !.o = o]
    <2>2. r.newly = {} /\ r.pc \notin Growing /\ Goes("feed", r)
      BY <1>0, <2>1 DEF Local, Growing, Signal
    <2>3. f.pc \notin Registering /\ f.pc \notin FeedTail
      BY <2>1 DEF Signal, At, Registering, Growing, FeedTail
    <2> HIDE DEF r
    <2> QED BY <1>1, <2>2, <2>3
  <1>3. CASE PlaceAccepted \/ PlaceFailed
    <2>1. PICK v : Goes("feed", [f EXCEPT !.pc = "append", !.view = v])
      BY <1>3 DEF PlaceAccepted, PlaceFailed
    <2> DEFINE r == [f EXCEPT !.pc = "append", !.view = v]
    <2>2. r.newly = {} /\ r.pc \notin Growing
      BY <1>0 DEF Local, Growing
    <2>3. f.pc \notin Registering /\ f.pc \notin FeedTail
      BY <1>3 DEF PlaceAccepted, PlaceFailed, At, Registering, Growing, FeedTail
    <2> QED BY <1>1, <2>1, <2>2, <2>3
  <1>4. CASE FeedAppend
    <2>1. PICK p \in {"remainder", "check"} : Goes("feed", [f EXCEPT !.pc = p])
      BY <1>4 DEF FeedAppend, Goto
    <2>2. [f EXCEPT !.pc = p].newly = {} /\ [f EXCEPT !.pc = p].pc \notin Growing
      BY <1>0 DEF Local, Growing
    <2>3. f.pc \notin Registering /\ f.pc \notin FeedTail
      BY <1>4 DEF FeedAppend, At, Registering, Growing, FeedTail
    <2> QED BY <1>1, <2>1, <2>2, <2>3
  <1>5. CASE FeedCheck
    <2>1. f.pc \notin Registering
      BY <1>5 DEF FeedCheck, At, Registering, Growing
    <2>2. CASE l[f.o].st = "REJECTED"
      <3>1. FeedEnds
        BY <1>5, <2>2 DEF FeedEnds
      <3>2. Leave("feed")
        BY <1>5, <2>2 DEF FeedCheck, Filled
      <3> QED BY <1>1, <2>1, <3>1, <3>2, RestIsEmpty DEF Leave
    <2>3. CASE l[f.o].st # "REJECTED"
      <3>1. PICK p \in {"protect", "open"} : \E n :
              \/ Goes("feed", [f EXCEPT !.pc = p])
              \/ Goes("feed", [f EXCEPT !.pc = p, !.view.ex = n])
        BY <1>5, <2>3 DEF FeedCheck, Goto
      <3>2. \A n : /\ [f EXCEPT !.pc = p].newly = {} /\ [f EXCEPT !.pc = p].pc = p
                   /\ [f EXCEPT !.pc = p].o = f.o
                   /\ [f EXCEPT !.pc = p, !.view.ex = n].newly = {}
                   /\ [f EXCEPT !.pc = p, !.view.ex = n].pc = p
                   /\ [f EXCEPT !.pc = p, !.view.ex = n].o = f.o
        BY <1>0 DEF Local
      <3>3. p \notin Growing /\ p \in FeedTail
        BY DEF Growing, FeedTail
      <3> QED BY <1>1, <2>1, <3>1, <3>2, <3>3
    <2> QED BY <2>2, <2>3
  <1>6. CASE FeedProtect
    <2>1. Goes("feed", [f EXCEPT !.pc = "open"]) /\ f.pc \notin Registering
      BY <1>6 DEF FeedProtect, Goto, At, Registering, Growing
    <2>2. [f EXCEPT !.pc = "open"].newly = {} /\ [f EXCEPT !.pc = "open"].o = f.o
          /\ [f EXCEPT !.pc = "open"].pc \notin Growing /\ [f EXCEPT !.pc = "open"].pc \in FeedTail
      BY <1>0 DEF Local, Growing, FeedTail
    <2> QED BY <1>1, <2>1, <2>2
  <1>7. CASE FeedOpen
    <2>1. Goes("feed", Rest) /\ FeedEnds /\ f.pc \notin Registering
      BY <1>7 DEF FeedOpen, Leave, FeedEnds, At, Registering, Growing
    <2> QED BY <1>1, <2>1, RestIsEmpty
  <1> QED BY <1>2, <1>3, <1>4, <1>5, <1>6, <1>7

LEMMA RemainderWalks ==
  ASSUME TypeInv, Carries, NEW t \in {"feed", "main", "stream"}, Remainder(t) \/ RemainderAnswer(t)
  PROVE  Walks
  <1>0. t \in Threads /\ th[t] \in Local
    BY ThreadIsLocal DEF Threads
  <1>1. th[t].pc \in {"remainder", "remainderAns"} /\ th[t].pc \notin Registering
    BY DEF Remainder, RemainderAnswer, At, Registering, Growing
  <1>2. t = "feed" => th[t].newly = {}
    BY <1>0 DEF Carries, Fillers
  <1>3. CASE Goes(t, AfterRemainder(t, th[t]))
    <2> DEFINE r == AfterRemainder(t, th[t])
    <2>1. CASE t = "feed"
      <3>1. r.pc = "check" /\ r.newly = th[t].newly /\ r.o = th[t].o
        BY <1>0, <2>1 DEF AfterRemainder, Local
      <3>2. Keeps(t, r)
        BY <1>2, <2>1, <3>1 DEF Keeps, Growing, FeedTail
      <3> QED BY <1>0, <1>1, <1>3, <3>2, WalkMove
    <2>2. CASE t = "main"
      <3>1. r.pc = "poll" /\ r.newly = th[t].newly
        BY <1>0, <2>2 DEF AfterRemainder, Local
      <3>2. Keeps(t, r)
        BY <2>2, <3>1 DEF Keeps, Growing, Carrying, Fillers
      <3> QED BY <1>0, <1>1, <1>3, <3>2, WalkMove
    <2>3. CASE t = "stream" /\ th[t].newly = {}
      <3>1. r = Rest
        BY <2>3 DEF AfterRemainder
      <3> QED BY <1>0, <1>1, <1>3, <2>3, <3>1, RestIsEmpty, EmptyWalk
    <2>4. CASE t = "stream" /\ th[t].newly # {}
      <3>1. r.pc = "register" /\ r.newly = th[t].newly
        BY <1>0, <2>4 DEF AfterRemainder, Local
      <3>2. Keeps(t, r)
        BY <2>4, <3>1 DEF Keeps, Growing, Registering, Carrying, Fillers
      <3> QED BY <1>0, <1>1, <1>3, <3>2, WalkMove
    <2> QED BY <2>1, <2>2, <2>3, <2>4
  <1>4. ASSUME NEW a, Goes(t, [th[t] EXCEPT !.pc = "remainderAns", !.ans = a]) PROVE Walks
    <2> DEFINE r == [th[t] EXCEPT !.pc = "remainderAns", !.ans = a]
    <2>1. r.pc = "remainderAns" /\ r.newly = th[t].newly /\ r.o = th[t].o
      BY <1>0 DEF Local
    <2> HIDE DEF r
    <2>2. Keeps(t, r)
      BY <1>2, <2>1 DEF Keeps, Growing, Carrying, Fillers, FeedTail
    <2> QED BY <1>0, <1>1, <1>4, <2>2, WalkMove DEF r
  <1> QED BY <1>3, <1>4 DEF Remainder, RemainderAnswer

LEMMA CancelWalks ==
  ASSUME TypeInv, Carries, NEW t \in {"main", "cmd"}, Cancel(t) \/ CancelAnswer(t)
  PROVE  Walks
  <1>0. t \in Threads \ {"feed"} /\ th[t] \in Local
    BY ThreadIsLocal DEF Threads
  <1>1. th[t].newly = {} /\ th[t].pc \notin Registering
    BY <1>0 DEF Cancel, CancelAnswer, At, Registering, Growing, Carries, Carrying
  <1>2. CASE Cancel(t)
    <2>1. PICK a : Goes(t, [th[t] EXCEPT !.pc = "cancelAns", !.ans = a])
      BY <1>2 DEF Cancel
    <2>2. [th[t] EXCEPT !.pc = "cancelAns", !.ans = a].newly = {}
          /\ [th[t] EXCEPT !.pc = "cancelAns", !.ans = a].pc \notin Growing
      BY <1>0, <1>1 DEF Local, Growing
    <2> QED BY <1>0, <1>1, <2>1, <2>2, EmptyWalk
  <1>3. CASE CancelAnswer(t) /\ t = "cmd"
    <2>1. Goes(t, [th[t] EXCEPT !.pc = "stop", !.o = NoOrder, !.ans = "none"])
      BY <1>3 DEF CancelAnswer
    <2>2. [th[t] EXCEPT !.pc = "stop", !.o = NoOrder, !.ans = "none"].newly = {}
          /\ [th[t] EXCEPT !.pc = "stop", !.o = NoOrder, !.ans = "none"].pc \notin Growing
      BY <1>0, <1>1 DEF Local, Growing
    <2> QED BY <1>0, <1>1, <2>1, <2>2, EmptyWalk
  <1>4. CASE CancelAnswer(t) /\ t # "cmd"
    <2>1. Goes(t, Rest)
      BY <1>4 DEF CancelAnswer, Leave
    <2> QED BY <1>0, <1>1, <2>1, RestIsEmpty, EmptyWalk
  <1> QED BY <1>2, <1>3, <1>4

(* A thread learns of a fill, and carries it if it is newly confirmed. *)
LEMMA LearnWalks ==
  ASSUME TypeInv, NEW t \in Fillers, NEW o, NEW st, NEW ex, NEW r \in Local, Learn(t, o, st, ex, r),
         th[t].pc \notin Registering, Keeps(t, r)
  PROVE  Walks
  <1>0. t \in Threads /\ t # "feed"
    BY DEF Threads, Fillers
  <1>1. CASE st \in Filled
    <2> DEFINE n == IF IsNew(o, ex) THEN r.newly \cup {o} ELSE r.newly
               s == [r EXCEPT !.pc = "remainder", !.o = o, !.newly = n]
    <2>1. Goes(t, s)
      BY <1>1 DEF Learn
    <2>2. s.pc = "remainder" /\ r.newly \subseteq s.newly
      BY DEF Local
    <2> HIDE DEF s
    <2>3. Keeps(t, s)
      BY <1>0, <2>2 DEF Keeps, Growing, Carrying
    <2> QED BY <1>0, <2>1, <2>3, WalkMove
  <1>2. CASE st \notin Filled
    BY <1>0, <1>2, WalkMove DEF Learn
  <1> QED BY <1>1, <1>2

LEMMA PollWalks ==
  ASSUME TypeInv, Carries,
         \/ PollStart \/ PollQuery \/ PollApply \/ PollDone
         \/ \E o \in Orders : PendingTimeout(o)
  PROVE  Walks
  <1> DEFINE m == th["main"]
  <1>0. "main" \in Threads \ {"feed"} /\ "main" \in Fillers /\ m \in Local
    BY ThreadIsLocal DEF Threads, Fillers
  <1>1. ASSUME NEW r, Goes("main", r), m.pc \notin Registering, r.pc = "poll" \/ r.pc = "apply",
               r.newly = m.newly
        PROVE  Walks
    <2>1. Keeps("main", r)
      BY <1>0, <1>1 DEF Keeps, Growing, Carrying
    <2> QED BY <1>0, <1>1, <2>1, WalkMove
  <1>2. CASE PollStart
    <2>1. PICK s : Goes("main", [m EXCEPT !.pc = "poll", !.todo = s])
      BY <1>2 DEF PollStart
    <2> DEFINE r == [m EXCEPT !.pc = "poll", !.todo = s]
    <2>2. r.pc = "poll" /\ r.newly = m.newly
      BY <1>0 DEF Local
    <2>3. m.pc \notin Registering
      BY <1>2 DEF PollStart, At, Registering, Growing
    <2> QED BY <1>1, <2>1, <2>2, <2>3
  <1>3. CASE PollQuery
    <2>1. m.pc = "poll"
      BY <1>3 DEF PollQuery, At
    <2>2. PICK o : \/ Goes("main", [[m EXCEPT !.todo = @ \ {o}] EXCEPT !.pc = "apply", !.o = o, !.view = x[o]])
                   \/ Goes("main", [m EXCEPT !.todo = @ \ {o}])
      BY <1>3 DEF PollQuery
    <2>3. /\ [[m EXCEPT !.todo = @ \ {o}] EXCEPT !.pc = "apply", !.o = o, !.view = x[o]].pc = "apply"
          /\ [[m EXCEPT !.todo = @ \ {o}] EXCEPT !.pc = "apply", !.o = o, !.view = x[o]].newly = m.newly
          /\ [m EXCEPT !.todo = @ \ {o}].pc = "poll"
          /\ [m EXCEPT !.todo = @ \ {o}].newly = m.newly
      BY <1>0, <2>1 DEF Local
    <2>4. m.pc \notin Registering
      BY <2>1 DEF Registering, Growing
    <2> QED BY <1>1, <2>2, <2>3, <2>4
  <1>4. CASE PollApply
    <2> DEFINE r == [m EXCEPT !.pc = "poll", !.o = NoOrder, !.view = NoView]
    <2>1. PICK o, st, ex : Learn("main", o, st, ex, r)
      BY <1>4 DEF PollApply
    <2>2. r.pc = "poll" /\ r.newly = m.newly /\ r \in Local
      <3>1. NoView \in [st : XStatus \cup {"REJECTED"}, ex : 0..Qty]
        BY DEF NoView, XStatus
      <3> QED BY <1>0, <3>1 DEF Local
    <2>3. m.pc \notin Registering
      BY <1>4 DEF PollApply, At, Registering, Growing
    <2> HIDE DEF r
    <2>4. Keeps("main", r)
      BY <1>0, <2>2 DEF Keeps, Growing, Carrying
    <2> QED BY <1>0, <2>1, <2>2, <2>3, <2>4, LearnWalks
  <1>5. CASE PollDone
    <2>1. m.pc \notin Registering
      BY <1>5 DEF PollDone, At, Registering, Growing
    <2>2. CASE m.newly = {}
      <3>1. Goes("main", Rest)
        BY <1>5, <2>2 DEF PollDone, Leave
      <3> QED BY <1>0, <2>1, <2>2, <3>1, RestIsEmpty, EmptyWalk
    <2>3. CASE m.newly # {}
      <3> DEFINE r == [m EXCEPT !.pc = "register", !.todo = {}]
      <3>1. Goes("main", r) /\ r.pc = "register" /\ r.newly = m.newly
        BY <1>0, <1>5, <2>3 DEF PollDone, Local
      <3> HIDE DEF r
      <3>2. Keeps("main", r)
        BY <1>0, <3>1 DEF Keeps, Growing, Carrying, Registering
      <3> QED BY <1>0, <2>1, <3>1, <3>2, WalkMove
    <2> QED BY <2>2, <2>3
  <1>6. CASE \E o \in Orders : PendingTimeout(o)
    <2>1. PICK o \in Orders : Goes("main", [m EXCEPT !.pc = "cancel", !.o = o])
      BY <1>6 DEF PendingTimeout
    <2>2. m.pc \notin Registering /\ m.newly = {}
      BY <1>0, <1>6 DEF PendingTimeout, At, Registering, Growing, Carries, Carrying
    <2>3. [m EXCEPT !.pc = "cancel", !.o = o].newly = {} /\ [m EXCEPT !.pc = "cancel", !.o = o].pc \notin Growing
      BY <1>0, <2>2 DEF Local, Growing
    <2> QED BY <1>0, <2>1, <2>2, <2>3, EmptyWalk
  <1> QED BY <1>2, <1>3, <1>4, <1>5, <1>6

LEMMA PushWalks == ASSUME TypeInv, Carries, Push PROVE Walks
  <1>0. "stream" \in Threads /\ "stream" \in Fillers /\ Rest \in Local
    BY RestFits DEF Threads, Fillers, Fits
  <1>1. th["stream"].pc \notin Registering /\ th["stream"].newly = {}
    BY <1>0 DEF Push, At, Registering, Growing, Carries, Carrying
  <1>2. UNCHANGED th \/ \E o, st, ex : Learn("stream", o, st, ex, Rest)
    BY DEF Push
  <1>3. Keeps("stream", Rest)
    BY <1>1, RestIsEmpty DEF Keeps
  <1> QED BY <1>0, <1>1, <1>2, <1>3, StayWalks, LearnWalks

LEMMA CommandsWalk ==
  ASSUME TypeInv, Carries,
         EmergencyStop \/ StopNext \/ Resume \/ Pause \/ CancelAll \/ BulkCancel \/ BulkReturn \/ BulkMark
  PROVE  Walks
  <1> DEFINE c == th["cmd"]
  <1>0. "cmd" \in Threads \ {"feed"} /\ c \in Local /\ c.newly = {}
    BY ThreadIsLocal DEF Threads, Carries, Fillers
  <1>1. CASE Resume \/ Pause
    BY <1>1, StayWalks DEF Resume, Pause
  <1>2. CASE EmergencyStop \/ StopNext \/ CancelAll \/ BulkCancel \/ BulkReturn \/ BulkMark
    <2>1. c.pc \in {"idle", "stop", "bulk", "mark"}
      BY <1>2 DEF EmergencyStop, StopNext, CancelAll, BulkCancel, BulkReturn, BulkMark, Command, At
    <2>2. \/ Goes("cmd", Rest)
          \/ \E s : Goes("cmd", [c EXCEPT !.todo = s])
          \/ \E p \in {"stop", "bulk", "mark"} : \E s : Goes("cmd", [c EXCEPT !.pc = p, !.todo = s])
          \/ \E o, s : Goes("cmd", [c EXCEPT !.pc = "cancel", !.o = o, !.todo = s])
      <3>1. CASE EmergencyStop
        BY <3>1 DEF EmergencyStop
      <3>2. CASE StopNext
        BY <3>2 DEF StopNext, Leave
      <3>3. CASE CancelAll
        BY <3>3 DEF CancelAll
      <3>4. CASE BulkCancel
        BY <3>4 DEF BulkCancel
      <3>5. CASE BulkReturn
        BY <3>5 DEF BulkReturn
      <3>6. CASE BulkMark
        BY <3>6 DEF BulkMark, Leave
      <3> QED BY <1>2, <3>1, <3>2, <3>3, <3>4, <3>5, <3>6
    <2>3. c.pc \notin Registering
      BY <2>1 DEF Registering, Growing
    <2>4. ASSUME NEW r, Goes("cmd", r), r.newly = {}, r.pc \in {"idle", "stop", "bulk", "mark", "cancel"}
          PROVE  Walks
      BY <1>0, <2>3, <2>4, EmptyWalk DEF Growing
    <2>5. Rest.newly = {} /\ Rest.pc = "idle"
      BY DEF Rest
    <2>6. \A s : [c EXCEPT !.todo = s].newly = {} /\ [c EXCEPT !.todo = s].pc = c.pc
      BY <1>0 DEF Local
    <2>7. \A p, s : [c EXCEPT !.pc = p, !.todo = s].newly = {} /\ [c EXCEPT !.pc = p, !.todo = s].pc = p
      BY <1>0 DEF Local
    <2>8. \A o, s : /\ [c EXCEPT !.pc = "cancel", !.o = o, !.todo = s].newly = {}
                    /\ [c EXCEPT !.pc = "cancel", !.o = o, !.todo = s].pc = "cancel"
      BY <1>0 DEF Local
    <2>9. CASE Goes("cmd", Rest)
      BY <2>4, <2>5, <2>9
    <2>10. ASSUME NEW s, Goes("cmd", [c EXCEPT !.todo = s]) PROVE Walks
      BY <2>1, <2>4, <2>6, <2>10
    <2>11. ASSUME NEW p \in {"stop", "bulk", "mark"}, NEW s, Goes("cmd", [c EXCEPT !.pc = p, !.todo = s])
           PROVE  Walks
      BY <2>4, <2>7, <2>11
    <2>12. ASSUME NEW o, NEW s, Goes("cmd", [c EXCEPT !.pc = "cancel", !.o = o, !.todo = s]) PROVE Walks
      BY <2>4, <2>8, <2>12
    <2> QED BY <2>2, <2>9, <2>10, <2>11, <2>12
  <1> QED BY <1>1, <1>2

(* All that is not the registration of a fill. *)
LEMMA NextWalks ==
  ASSUME TypeInv, Carries, [Next]_vars
  PROVE  Walks \/ \E t \in Fillers : Register(t) \/ Update(t) \/ ProtectFill(t)
  <1>1. CASE (\E o \in Orders : Signal(o)) \/ Feed
    BY <1>1, FeedWalks, RemainderWalks DEF Feed
  <1>2. CASE Poll
    BY <1>2, PollWalks, RemainderWalks DEF Poll, Fillers
  <1>3. CASE Timeouts
    BY <1>3, PollWalks, CancelWalks DEF Timeouts
  <1>4. CASE Stream
    BY <1>4, PushWalks, RemainderWalks DEF Stream, Fillers
  <1>5. CASE Commands
    BY <1>5, CommandsWalk, CancelWalks DEF Commands
  <1>6. CASE Exchange \/ UNCHANGED vars
    BY <1>6, StayWalks DEF Exchange, Fill, Expire, StreamDrop, ClosePosition, vars
  <1> QED BY <1>1, <1>2, <1>3, <1>4, <1>5, <1>6 DEF Next

-----------------------------------------------------------------------------
(* The registration: the holder of the lock is in it and has fills left. *)
Let == lock # Free => th[lock].pc \in Registering /\ th[lock].newly # {}

LEMMA SettleWhere ==
  ASSUME TypeInv, NEW t \in Threads, NEW o, Settle(t, o)
  PROVE  /\ \A u \in Threads \ {t} : th'[u] = th[u]
         /\ th'[t].newly = th[t].newly \ {o}
         /\ th'[t].newly # {} => th'[t].pc = "register"
         /\ th'[t].pc \notin Growing
         /\ lock' # Free => lock' = t /\ th'[t].newly # {}
  <1> DEFINE rest == th[t].newly \ {o}
  <1>0. th \in [Threads -> Local] /\ th[t] \in Local
    BY ThreadIsLocal DEF TypeInv, ThreadsOK
  <1>1. CASE rest = {}
    <2>1. th'[t] = Rest /\ lock' = Free /\ \A u \in Threads \ {t} : th'[u] = th[u]
      BY <1>0, <1>1 DEF Settle, Goes
    <2> QED BY <1>1, <2>1, RestIsEmpty
  <1>2. CASE rest # {}
    <2> DEFINE r == [th[t] EXCEPT !.pc = "register", !.newly = rest]
    <2>1. th'[t] = r /\ lock' = t /\ \A u \in Threads \ {t} : th'[u] = th[u]
      BY <1>0, <1>2 DEF Settle, Goes
    <2>2. r.pc = "register" /\ r.newly = rest
      BY <1>0 DEF Local
    <2> HIDE DEF r
    <2> QED BY <1>2, <2>1, <2>2 DEF Growing
  <1> QED BY <1>1, <1>2

(* What a thread does that registers: begin an increment, or leave a fill. *)
LEMMA RegisterWhere ==
  ASSUME TypeInv, NEW t \in Threads, Register(t)
  PROVE  /\ lock \in {Free, t}
         /\ \E o \in th[t].newly :
              \/ /\ FilledOf(o) > pos /\ lock' = t
                 /\ th'[t].pc = "update" /\ th'[t].o = o /\ th'[t].newly = th[t].newly
                 /\ th'[t].held = pos /\ th'[t].view.ex = FilledOf(o) - pos
                 /\ \A u \in Threads \ {t} : th'[u] = th[u]
              \/ ~(FilledOf(o) > pos) /\ Settle(t, o)
  <1>0. th \in [Threads -> Local] /\ th[t] \in Local
    BY ThreadIsLocal DEF TypeInv, ThreadsOK
  <1>1. PICK o \in th[t].newly :
          IF FilledOf(o) > pos
          THEN /\ lock' = t
               /\ Goes(t, [th[t] EXCEPT !.pc = "update", !.o = o, !.held = pos,
                                        !.view.ex = FilledOf(o) - pos])
          ELSE Settle(t, o)
    BY DEF Register
  <1>2. lock \in {Free, t}
    BY DEF Register, MayHold
  <1>3. CASE FilledOf(o) > pos
    <2> DEFINE r == [th[t] EXCEPT !.pc = "update", !.o = o, !.held = pos, !.view.ex = FilledOf(o) - pos]
    <2>1. r.pc = "update" /\ r.o = o /\ r.newly = th[t].newly /\ r.held = pos /\ r.view.ex = FilledOf(o) - pos
      BY <1>0 DEF Local
    <2>2. th'[t] = r /\ \A u \in Threads \ {t} : th'[u] = th[u]
      BY <1>0, <1>1, <1>3 DEF Goes
    <2> HIDE DEF r
    <2> QED BY <1>1, <1>2, <1>3, <2>1, <2>2
  <1> QED BY <1>1, <1>2, <1>3

LEMMA UpdateWhere ==
  ASSUME TypeInv, NEW t \in Threads, Update(t)
  PROVE  /\ th[t].pc = "update" /\ th'[t].pc = "protectFill" /\ UNCHANGED lock
         /\ th'[t].newly = th[t].newly /\ th'[t].o = th[t].o
         /\ \A u \in Threads \ {t} : th'[u] = th[u]
  <1>0. th \in [Threads -> Local] /\ th[t] \in Local
    BY ThreadIsLocal DEF TypeInv, ThreadsOK
  <1>1. th'[t] = [th[t] EXCEPT !.pc = "protectFill"] /\ \A u \in Threads \ {t} : th'[u] = th[u]
    BY <1>0 DEF Update, Goto, Goes
  <1>2. LET r == [th[t] EXCEPT !.pc = "protectFill"] IN
          r.pc = "protectFill" /\ r.newly = th[t].newly /\ r.o = th[t].o
    BY <1>0 DEF Local
  <1> QED BY <1>1, <1>2 DEF Update, At

(* Nothing else touches the lock. *)
LEMMA LockFrame ==
  ASSUME [Next]_vars
  PROVE  UNCHANGED lock \/ \E t \in Fillers : Register(t) \/ ProtectFill(t)
  <1>1. \A t : Update(t) \/ Remainder(t) \/ RemainderAnswer(t) \/ Cancel(t) \/ CancelAnswer(t) => UNCHANGED lock
    BY DEF Update, Remainder, RemainderAnswer, Cancel, CancelAnswer
  <1>2. PlaceAccepted \/ PlaceFailed \/ FeedAppend \/ FeedCheck \/ FeedProtect \/ FeedOpen => UNCHANGED lock
    BY DEF PlaceAccepted, PlaceFailed, FeedAppend, FeedCheck, FeedProtect, FeedOpen
  <1>3. PollStart \/ PollQuery \/ PollApply \/ PollDone \/ Push => UNCHANGED lock
    BY DEF PollStart, PollQuery, PollApply, PollDone, Push
  <1>4. EmergencyStop \/ StopNext \/ Resume \/ Pause \/ CancelAll \/ BulkCancel \/ BulkReturn \/ BulkMark
          => UNCHANGED lock
    BY DEF EmergencyStop, StopNext, Resume, Pause, CancelAll, BulkCancel, BulkReturn, BulkMark
  <1>5. \A o \in Orders : Signal(o) \/ PendingTimeout(o) \/ Fill(o) \/ Expire(o) => UNCHANGED lock
    BY DEF Signal, PendingTimeout, Fill, Expire
  <1>6. StreamDrop \/ ClosePosition \/ UNCHANGED vars => UNCHANGED lock
    BY DEF StreamDrop, ClosePosition, vars
  <1> QED BY <1>1, <1>2, <1>3, <1>4, <1>5, <1>6
          DEF Next, Feed, Poll, Timeouts, Stream, Commands, Exchange, Fillers

LEMMA NextLet ==
  ASSUME TypeInv, Carries, Let, [Next]_vars
  PROVE  Carries' /\ Let'
  <1>0. Fillers \subseteq Threads /\ lock \in Threads \cup {Free} /\ Free \notin Threads
    BY DEF Fillers, Threads, Free, TypeInv, DataOK
  <1>1. CASE Walks /\ UNCHANGED lock
    <2>1. Carries'
      BY <1>1 DEF Walks, Carries, Keeps
    <2>2. Let'
      BY <1>0, <1>1 DEF Walks, Let
    <2> QED BY <2>1, <2>2
  <1>2. ASSUME NEW t \in Fillers, NEW o, Settle(t, o) PROVE Carries' /\ Let'
    <2>1. t \in Threads
      BY <1>0
    <2>2. Carries'
      BY <1>2, <2>1, SettleWhere DEF Carries, Carrying, Registering
    <2>3. Let'
      BY <1>2, <2>1, SettleWhere DEF Let, Registering
    <2> QED BY <2>2, <2>3
  <1>3. ASSUME NEW t \in Fillers, Register(t) PROVE Carries' /\ Let'
    <2>1. t \in Threads
      BY <1>0
    <2>2. PICK o \in th[t].newly :
              \/ /\ FilledOf(o) > pos /\ lock' = t
                 /\ th'[t].pc = "update" /\ th'[t].o = o /\ th'[t].newly = th[t].newly
                 /\ th'[t].held = pos /\ th'[t].view.ex = FilledOf(o) - pos
                 /\ \A u \in Threads \ {t} : th'[u] = th[u]
              \/ ~(FilledOf(o) > pos) /\ Settle(t, o)
      BY <1>3, <2>1, RegisterWhere
    <2>3. CASE Settle(t, o)
      BY <1>2, <2>3
    <2>4. CASE /\ lock' = t /\ th'[t].pc = "update" /\ th'[t].newly = th[t].newly
               /\ \A u \in Threads \ {t} : th'[u] = th[u]
      <3>1. Let'
        BY <2>1, <2>2, <2>4 DEF Let, Registering, Growing
      <3>2. Carries'
        BY <2>1, <2>4 DEF Carries, Carrying, Registering, Growing
      <3> QED BY <3>1, <3>2
    <2> QED BY <2>2, <2>3, <2>4
  <1>4. ASSUME NEW t \in Fillers, Update(t) PROVE Carries' /\ Let'
    <2>1. t \in Threads
      BY <1>0
    <2>2. Let'
      BY <1>0, <1>4, <2>1, UpdateWhere DEF Let, Registering, Growing
    <2>3. Carries'
      BY <1>4, <2>1, UpdateWhere DEF Carries, Carrying, Registering, Growing
    <2> QED BY <2>2, <2>3
  <1>5. ASSUME NEW t \in Fillers, ProtectFill(t) PROVE Carries' /\ Let'
    BY <1>2, <1>5 DEF ProtectFill
  <1>6. \/ \E t \in Fillers : Register(t) \/ Update(t) \/ ProtectFill(t)
        \/ Walks /\ UNCHANGED lock
    BY NextWalks, LockFrame
  <1> QED BY <1>1, <1>3, <1>4, <1>5, <1>6

LEMMA InitLet == Init => Carries /\ Let
  BY DEF Init, Carries, Let, Rest, Threads

(* _fills_lock is let go: whoever has it is in the middle of a registration  *)
(* and still has a fill to deal with, so its next step is not one that may   *)
(* wait for another thread (_register_fills).  No thread returns to its loop *)
(* with the lock.                                                            *)
THEOREM LockIsLet ==
  Spec => [](lock # Free => /\ th[lock].pc \in {"register", "update", "protectFill"}
                            /\ th[lock].newly # {})
  <1>1. TypeInv /\ Carries /\ Let /\ [Next]_vars => Carries' /\ Let'
    BY NextLet
  <1>2. Let => (lock # Free => /\ th[lock].pc \in {"register", "update", "protectFill"}
                               /\ th[lock].newly # {})
    BY DEF Let, Registering, Growing
  <1> QED BY <1>1, <1>2, InitLet, TypeInvariant, PTL DEF Spec

-----------------------------------------------------------------------------
(* What becomes of a fill the order list knows.  It is with the feed thread, *)
(* or with a thread that has confirmed it, or the portfolio has been told of *)
(* as many lots.                                                             *)
GivenUp == {"CANCELED", "REJECTED"}

Fed(o)  == th["feed"].o = o /\ th["feed"].pc \in FeedTail
Told(o) == \E p \in Orders : reg[p] >= l[o].ex

(* A thread in the middle of a registration of o has read enough, or has     *)
(* told it already.                                                          *)
Carried(t, o) ==
  /\ o \in th[t].newly
  /\ th[t].pc \in Growing /\ th[t].o = o =>
       th[t].pc = "update" /\ l[o].ex <= th[t].held + th[t].view.ex

Accounted(o) == l[o].st \in Filled => Fed(o) \/ Told(o) \/ \E t \in Threads : Carried(t, o)

PositionTold == pos > 0 => \E p \in Orders : reg[p] >= pos
HeldIsThere  == \A t \in Threads : th[t].pc = "update" =>
                   th[t].view.ex > 0 /\ (th[t].held > 0 => pos > 0)

FillInv(o) == PositionTold /\ (used.closes = 0 => HeldIsThere /\ Accounted(o))

LEMMA TellGrows ==
  ASSUME TypeInv, NEW o \in Orders, NEW n \in 0..Qty, Tell(o, n)
  PROVE  pos' = n /\ reg'[o] >= n /\ \A p \in Orders : reg'[p] >= reg[p]
  BY DEF Tell, Larger, TypeInv, DataOK

(* Only these steps touch the position, or what the portfolio was told. *)
LEMMA BookFrame ==
  ASSUME [Next]_vars
  PROVE  \/ UNCHANGED <<pos, reg>> \/ FeedOpen \/ ClosePosition
         \/ \E t \in Fillers : Update(t)
  <1>1. \A t : Register(t) \/ ProtectFill(t) \/ Remainder(t) \/ RemainderAnswer(t) \/ Cancel(t) \/ CancelAnswer(t)
                 => UNCHANGED <<pos, reg>>
    BY DEF Register, ProtectFill, Remainder, RemainderAnswer, Cancel, CancelAnswer, book
  <1>2. PlaceAccepted \/ PlaceFailed \/ FeedAppend \/ FeedCheck \/ FeedProtect => UNCHANGED <<pos, reg>>
    BY DEF PlaceAccepted, PlaceFailed, FeedAppend, FeedCheck, FeedProtect, book
  <1>3. PollStart \/ PollQuery \/ PollApply \/ PollDone \/ Push => UNCHANGED <<pos, reg>>
    BY DEF PollStart, PollQuery, PollApply, PollDone, Push, book
  <1>4. EmergencyStop \/ StopNext \/ Resume \/ Pause \/ CancelAll \/ BulkCancel \/ BulkReturn \/ BulkMark
          => UNCHANGED <<pos, reg>>
    BY DEF EmergencyStop, StopNext, Resume, Pause, CancelAll, BulkCancel, BulkReturn, BulkMark, book
  <1>5. \A o \in Orders : Signal(o) \/ PendingTimeout(o) \/ Fill(o) \/ Expire(o) => UNCHANGED <<pos, reg>>
    BY DEF Signal, PendingTimeout, Fill, Expire, book
  <1>6. StreamDrop \/ UNCHANGED vars => UNCHANGED <<pos, reg>>
    BY DEF StreamDrop, vars, book
  <1> QED BY <1>1, <1>2, <1>3, <1>4, <1>5, <1>6
          DEF Next, Feed, Poll, Timeouts, Stream, Commands, Exchange, Fillers

LEMMA ClosesFrame == ASSUME TypeInv, [Next]_vars, used'.closes = 0 PROVE used.closes = 0 /\ ~ClosePosition
  <1>0. used.closes \in Nat
    BY DEF TypeInv, DataOK
  <1>1. \A o \in Orders : \A r : CancelCall(o, r) => used'.closes = used.closes
    BY CancelCallCover
  <1>2. \A t \in Threads : Remainder(t) \/ Cancel(t) => used'.closes = used.closes
    BY CancelCallCover DEF Remainder, Cancel
  <1>3. \A t : Register(t) \/ Update(t) \/ ProtectFill(t) \/ RemainderAnswer(t) \/ CancelAnswer(t) => UNCHANGED used
    BY DEF Register, Update, ProtectFill, RemainderAnswer, CancelAnswer
  <1>4. PlaceAccepted \/ PlaceFailed \/ PollQuery \/ BulkReturn \/ StreamDrop => used'.closes = used.closes
    BY FaultClosesNothing DEF PlaceAccepted, PlaceFailed, PollQuery, BulkReturn, StreamDrop
  <1>5. FeedAppend \/ FeedCheck \/ FeedProtect \/ FeedOpen \/ PollStart \/ PollApply \/ PollDone \/ Push
          \/ StopNext \/ BulkCancel \/ BulkMark => UNCHANGED used
    BY DEF FeedAppend, FeedCheck, FeedProtect, FeedOpen, PollStart, PollApply, PollDone, Push,
           StopNext, BulkCancel, BulkMark
  <1>6. EmergencyStop \/ Resume \/ Pause \/ CancelAll => used'.closes = used.closes
    BY CommandClosesNothing DEF EmergencyStop, Resume, Pause, CancelAll
  <1>7. \A o \in Orders : Signal(o) \/ PendingTimeout(o) \/ Fill(o) \/ Expire(o) => UNCHANGED used
    BY DEF Signal, PendingTimeout, Fill, Expire
  <1>8. ClosePosition => used'.closes = used.closes + 1
    BY DEF ClosePosition, TypeInv, DataOK
  <1>9. UNCHANGED vars => UNCHANGED used
    BY DEF vars
  <1>10. "feed" \in Threads /\ "main" \in Threads /\ "stream" \in Threads /\ "cmd" \in Threads
    BY DEF Threads
  <1>11. used'.closes = used.closes \/ ClosePosition
    BY <1>2, <1>3, <1>4, <1>5, <1>6, <1>7, <1>9, <1>10
       DEF Next, Feed, Poll, Timeouts, Stream, Commands, Exchange
  <1> QED BY <1>0, <1>8, <1>11

(* The list knows no more lots of o than before. *)
Lower(o) == l'[o].ex <= l[o].ex /\ (l'[o].st \in Filled \cup GivenUp => l[o].st \in Filled \/ l'[o].st \in GivenUp)

LEMMA MarkLowers ==
  ASSUME TypeInv, NEW o \in Orders, NEW p,
         \/ l' = [l EXCEPT ![p].st = "CANCELED"] \/ \E b : l' = [l EXCEPT ![p].canc = b] \/ UNCHANGED l
  PROVE  Lower(o)
  <1>1. l \in [Orders -> LState] /\ l[o] \in LState /\ l[o].ex \in Nat
    BY DEF TypeInv, DataOK, LState
  <1>2. l'[o].ex = l[o].ex /\ (l'[o].st = l[o].st \/ l'[o].st = "CANCELED")
    BY <1>1 DEF LState
  <1>3. "CANCELED" \in GivenUp /\ \A st \in GivenUp : st \notin Filled
    BY DEF GivenUp, Filled
  <1> QED BY <1>1, <1>2, <1>3 DEF Lower

LEMMA ListFrame ==
  ASSUME TypeInv, NEW o \in Orders, [Next]_vars
  PROVE  Lower(o) \/ FeedAppend \/ PollApply \/ Push
  <1>1. \A t : Remainder(t) \/ RemainderAnswer(t) \/ CancelAnswer(t) => Lower(o)
    BY MarkLowers DEF Remainder, RemainderAnswer, CancelAnswer
  <1>2. BulkMark => Lower(o)
    BY MarkLowers DEF BulkMark
  <1>3. \A t : Register(t) \/ Update(t) \/ ProtectFill(t) \/ Cancel(t) => UNCHANGED l
    BY DEF Register, Update, ProtectFill, Cancel
  <1>4. PlaceAccepted \/ PlaceFailed \/ FeedCheck \/ FeedProtect \/ FeedOpen => UNCHANGED l
    BY DEF PlaceAccepted, PlaceFailed, FeedCheck, FeedProtect, FeedOpen
  <1>5. PollStart \/ PollQuery \/ PollDone => UNCHANGED l
    BY DEF PollStart, PollQuery, PollDone
  <1>6. EmergencyStop \/ StopNext \/ Resume \/ Pause \/ CancelAll \/ BulkCancel \/ BulkReturn => UNCHANGED l
    BY DEF EmergencyStop, StopNext, Resume, Pause, CancelAll, BulkCancel, BulkReturn
  <1>7. \A p \in Orders : Signal(p) \/ PendingTimeout(p) \/ Fill(p) \/ Expire(p) => UNCHANGED l
    BY DEF Signal, PendingTimeout, Fill, Expire
  <1>8. StreamDrop \/ ClosePosition \/ UNCHANGED vars => UNCHANGED l
    BY DEF StreamDrop, ClosePosition, vars
  <1>9. UNCHANGED l => Lower(o)
    BY MarkLowers
  <1> QED BY <1>1, <1>2, <1>3, <1>4, <1>5, <1>6, <1>7, <1>8, <1>9
          DEF Next, Feed, Poll, Timeouts, Stream, Commands, Exchange

(* The portfolio is never told of fewer lots, and nothing but a close takes  *)
(* the position away.                                                        *)
LEMMA BookGrows ==
  ASSUME TypeInv, TypeInv', HeldIsThere, [Next]_vars, ~ClosePosition
  PROVE  /\ pos > 0 => pos' > 0
         /\ \A p \in Orders : reg'[p] >= reg[p]
         /\ pos' = pos \/ \E p \in Orders : reg'[p] >= pos'
  <1>0. /\ pos \in 0..Qty /\ pos' \in 0..Qty /\ reg \in [Orders -> 0..Qty]
        /\ \A p \in Orders : reg[p] \in 0..Qty
    BY DEF TypeInv, DataOK
  <1>1. CASE UNCHANGED <<pos, reg>>
    BY <1>0, <1>1
  <1>2. ASSUME NEW o \in Orders, NEW n \in 1..Qty, Tell(o, n)
        PROVE  pos' > 0 /\ (\A p \in Orders : reg'[p] >= reg[p]) /\ reg'[o] >= pos'
    BY <1>2, TellGrows
  <1>3. CASE FeedOpen
    <2>1. th["feed"].o \in Orders /\ FilledOf(th["feed"].o) \in 1..Qty
      BY <1>3, ThreadFits, FieldTypes, FilledOfType DEF TypeInv, FeedOpen, At, Acting, Threads
    <2>2. Tell(th["feed"].o, FilledOf(th["feed"].o)) \/ UNCHANGED <<pos, reg>>
      BY <1>3 DEF FeedOpen
    <2> QED BY <1>1, <1>2, <2>1, <2>2
  <1>4. ASSUME NEW t \in Fillers, Update(t), ~(UNCHANGED <<pos, reg>>)
        PROVE  pos' > 0 /\ (\A p \in Orders : reg'[p] >= reg[p]) /\ reg'[th[t].o] >= pos' /\ th[t].o \in Orders
    <2>1. t \in Threads /\ th[t].pc = "update"
      BY <1>4 DEF Fillers, Threads, Update, At
    <2>2. Fits(th[t]) /\ th[t].o \in Orders /\ th[t].held \in 0..Qty /\ th[t].view.ex \in 0..Qty
      BY <2>1, ThreadFits, FieldTypes DEF TypeInv, Acting
    <2>3. th[t].held + th[t].view.ex \in 1..Qty
      BY <2>1, <2>2 DEF HeldIsThere, Fits
    <2>4. Tell(th[t].o, th[t].held + th[t].view.ex)
      BY <1>4 DEF Update
    <2> HIDE DEF Tell
    <2> QED BY <1>2, <2>2, <2>3, <2>4
  <1> QED BY <1>1, <1>3, <1>4, BookFrame

LEMMA PositionStaysTold ==
  ASSUME TypeInv, TypeInv', PositionTold, [Next]_vars
  PROVE  PositionTold'
  <1>0. pos \in 0..Qty /\ pos' \in 0..Qty
    BY DEF TypeInv, DataOK
  <1>1. CASE UNCHANGED <<pos, reg>>
    BY <1>1 DEF PositionTold
  <1>2. ASSUME NEW o \in Orders, NEW n \in 0..Qty, Tell(o, n) PROVE PositionTold'
    BY <1>2, TellGrows DEF PositionTold
  <1>3. CASE FeedOpen
    <2>1. th["feed"].o \in Orders /\ FilledOf(th["feed"].o) \in 1..Qty
      BY <1>3, ThreadFits, FieldTypes, FilledOfType DEF TypeInv, FeedOpen, At, Acting, Threads
    <2>2. Tell(th["feed"].o, FilledOf(th["feed"].o)) \/ UNCHANGED <<pos, reg>>
      BY <1>3 DEF FeedOpen
    <2> QED BY <1>1, <1>2, <2>1, <2>2
  <1>4. ASSUME NEW t \in Fillers, Update(t) PROVE PositionTold'
    <2>1. t \in Threads /\ th[t].pc = "update"
      BY <1>4 DEF Fillers, Threads, Update, At
    <2>2. Fits(th[t]) /\ th[t].o \in Orders /\ th[t].held \in 0..Qty /\ th[t].view.ex \in 0..Qty
      BY <2>1, ThreadFits, FieldTypes DEF TypeInv, Acting
    <2>3. th[t].held + th[t].view.ex \in 0..Qty
      BY <2>1, <2>2 DEF Fits
    <2>4. Tell(th[t].o, th[t].held + th[t].view.ex) \/ UNCHANGED <<pos, reg>>
      BY <1>4 DEF Update
    <2> QED BY <1>1, <1>2, <2>2, <2>3, <2>4
  <1>5. CASE ClosePosition
    BY <1>5 DEF ClosePosition, PositionTold
  <1> QED BY <1>1, <1>3, <1>4, <1>5, BookFrame

(* An increment that is about to be registered is at least one lot, and the  *)
(* position it is to be added to is still there.                             *)
LEMMA HeldStaysThere ==
  ASSUME TypeInv, TypeInv', Carries, HeldIsThere, [Next]_vars, ~ClosePosition
  PROVE  HeldIsThere'
  <1>0. pos > 0 => pos' > 0
    BY BookGrows
  <1>1. CASE Walks
    BY <1>0, <1>1 DEF Walks, Keeps, HeldIsThere, Growing
  <1>2. ASSUME NEW t \in Fillers, NEW o, Settle(t, o) PROVE HeldIsThere'
    <2>1. t \in Threads
      BY DEF Fillers, Threads
    <2> QED BY <1>0, <1>2, <2>1, SettleWhere DEF HeldIsThere, Growing
  <1>3. ASSUME NEW t \in Fillers, Register(t) PROVE HeldIsThere'
    <2>1. t \in Threads /\ th[t].newly \subseteq Orders
      BY ThreadFits, FieldTypes DEF Fillers, Threads, TypeInv
    <2>2. PICK o \in th[t].newly :
              \/ /\ FilledOf(o) > pos
                 /\ th'[t].held = pos /\ th'[t].view.ex = FilledOf(o) - pos
                 /\ \A u \in Threads \ {t} : th'[u] = th[u]
              \/ Settle(t, o)
      BY <1>3, <2>1, RegisterWhere
    <2>3. FilledOf(o) \in 1..Qty /\ pos \in 0..Qty
      BY <2>1, FilledOfType DEF TypeInv, DataOK
    <2> QED BY <1>0, <1>2, <2>1, <2>2, <2>3 DEF HeldIsThere
  <1>4. ASSUME NEW t \in Fillers, Update(t) PROVE HeldIsThere'
    <2>1. t \in Threads
      BY DEF Fillers, Threads
    <2> QED BY <1>0, <1>4, <2>1, UpdateWhere DEF HeldIsThere
  <1>5. ASSUME NEW t \in Fillers, ProtectFill(t) PROVE HeldIsThere'
    BY <1>2, <1>5 DEF ProtectFill
  <1> QED BY <1>1, <1>3, <1>4, <1>5, NextWalks

(* A thread that learns of more lots than the list knew carries them. *)
LEMMA LearnCarries ==
  ASSUME TypeInv, SafeInv, NEW o \in Orders, NEW t \in Fillers, NEW p \in Orders, NEW st, NEW ex \in 0..Qty,
         NEW r \in Local, Learn(t, p, st, ex, r), l[p].st # "NONE",
         l[o].st \notin GivenUp, l'[o].st \notin GivenUp
  PROVE  Lower(o) \/ Carried(t, o)'
  <1>0. /\ l \in [Orders -> LState] /\ l[o] \in LState /\ l[o].ex \in 0..Qty /\ t \in Threads
        /\ th \in [Threads -> Local]
        /\ l[o].st = "FILLED" => l[o].ex = Qty
    BY DEF TypeInv, DataOK, ThreadsOK, LState, Fillers, Threads, SafeInv, SafeData, LocalOK, LocalNeverAhead
  <1>1. CASE st \in Filled /\ p = o
    <2>1. l'[o].ex = ex /\ l'[o].st = st
      BY <1>0, <1>1 DEF Learn, LState
    <2>2. CASE IsNew(o, ex)
      <3> DEFINE s == [r EXCEPT !.pc = "remainder", !.o = p, !.newly = r.newly \cup {o}]
      <3>1. th'[t] = s
        BY <1>0, <1>1, <2>2 DEF Learn, Goes
      <3>2. s.pc = "remainder" /\ o \in s.newly
        BY DEF Local
      <3> HIDE DEF s
      <3> QED BY <3>1, <3>2 DEF Carried, Growing
    <2>3. CASE ~IsNew(o, ex)
      <3>1. l[o].st \in Filled /\ ex <= l[o].ex
        BY <1>0, <1>1, <2>3 DEF IsNew, LState, LStatus, Active, GivenUp, Filled
      <3> QED BY <2>1, <3>1 DEF Lower
    <2> QED BY <2>2, <2>3
  <1>2. CASE st \in Filled /\ p # o
    <2>1. l'[o] = l[o]
      BY <1>0, <1>2 DEF Learn
    <2> QED BY <1>0, <2>1 DEF Lower
  <1>3. CASE st \notin Filled
    <2>1. l' = [l EXCEPT ![p].st = "CANCELED"] \/ UNCHANGED l
      BY <1>3 DEF Learn
    <2> QED BY <2>1, MarkLowers
  <1> QED BY <1>1, <1>2, <1>3

(* More lots come to the list with the feed thread, or with a thread that    *)
(* carries them.                                                             *)
LEMMA MoreIsCarried ==
  ASSUME TypeInv, SafeInv, NEW o \in Orders, [Next]_vars,
         l[o].st \notin GivenUp, l'[o].st \notin GivenUp
  PROVE  Lower(o) \/ Fed(o)' \/ \E t \in Threads : Carried(t, o)'
  <1>0. l \in [Orders -> LState] /\ l[o] \in LState /\ l[o].ex \in 0..Qty /\ th \in [Threads -> Local]
    BY DEF TypeInv, DataOK, ThreadsOK, LState
  <1>1. CASE FeedAppend
    <2>1. CASE th["feed"].o = o
      <3>1. PICK p \in {"remainder", "check"} : Goes("feed", [th["feed"] EXCEPT !.pc = p])
        BY <1>1 DEF FeedAppend, Goto
      <3>2. th'["feed"].pc = p /\ th'["feed"].o = o
        BY <1>0, <2>1, <3>1 DEF Goes, Local, Threads
      <3> QED BY <3>2 DEF Fed, FeedTail
    <2>2. CASE th["feed"].o # o
      <3>1. l'[o] = l[o]
        BY <1>0, <1>1, <2>2 DEF FeedAppend
      <3> QED BY <1>0, <3>1 DEF Lower
    <2> QED BY <2>1, <2>2
  <1>2. CASE PollApply
    <2> DEFINE m == th["main"]
               r == [m EXCEPT !.pc = "poll", !.o = NoOrder, !.view = NoView]
    <2>1. /\ "main" \in Threads /\ m \in Local /\ m.pc = "apply" /\ m.o \in Orders /\ m.view.ex \in 0..Qty
          /\ Fine("main", m)
      BY <1>2, ThreadIsLocal, ThreadFits, FieldTypes DEF TypeInv, SafeInv, PollApply, At, Threads, Acting
    <2>2. l[m.o].st # "NONE"
      BY <2>1 DEF Fine, Knowing, Acting
    <2>3. r \in Local
      <3>1. NoView \in [st : XStatus \cup {"REJECTED"}, ex : 0..Qty]
        BY DEF NoView, XStatus
      <3> QED BY <2>1, <3>1 DEF Local
    <2>4. Learn("main", m.o, m.view.st, m.view.ex, r) /\ "main" \in Fillers
      BY <1>2 DEF PollApply, Fillers
    <2> HIDE DEF m, r
    <2> QED BY <2>1, <2>2, <2>3, <2>4, LearnCarries
  <1>3. CASE Push
    <2> DEFINE m == Head(wire)
    <2>1. m \in Message /\ m.o \in Orders /\ m.ex \in 0..Qty
      <3>1. wire # <<>> /\ wire \in Seq(Message)
        BY <1>3 DEF Push, TypeInv, DataOK
      <3>2. m = wire[1] /\ 1 \in 1..Len(wire) /\ m \in Message
        BY <3>1
      <3> QED BY <3>2 DEF Message
    <2>2. UNCHANGED l \/ (l[m.o].st # "NONE" /\ Learn("stream", m.o, m.st, m.ex, Rest))
      BY <1>3 DEF Push
    <2>3. UNCHANGED l => Lower(o)
      BY MarkLowers
    <2>4. Rest \in Local /\ "stream" \in Fillers /\ "stream" \in Threads
      BY RestFits DEF Fits, Fillers, Threads
    <2> HIDE DEF m
    <2> QED BY <2>1, <2>2, <2>3, <2>4, LearnCarries
  <1> QED BY <1>1, <1>2, <1>3, ListFrame

LEMMA FilledOfLarger == ASSUME TypeInv, NEW o \in Orders PROVE FilledOf(o) \in 1..Qty /\ l[o].ex <= FilledOf(o)
  BY FilledOfType DEF TypeInv, DataOK, FilledOf, LState

(* The feed thread leaves its filled order only after it told the portfolio. *)
LEMMA FeedTells ==
  ASSUME TypeInv, NEW o \in Orders, FeedEnds, th["feed"].o = o, l[o].st \in Filled
  PROVE  UNCHANGED l /\ Told(o)'
  <1>1. FeedOpen /\ UNCHANGED l
    BY DEF FeedEnds, Filled, FeedOpen
  <1>2. Tell(o, FilledOf(o))
    BY <1>1 DEF FeedOpen
  <1>3. FilledOf(o) \in 1..Qty /\ l[o].ex <= FilledOf(o) /\ l[o].ex \in Nat
    BY FilledOfLarger DEF TypeInv, DataOK, LState
  <1>4. reg'[o] >= FilledOf(o) /\ reg'[o] \in Nat
    BY <1>2, <1>3 DEF Tell, Larger, TypeInv, DataOK
  <1> QED BY <1>1, <1>3, <1>4 DEF Told

(* A fill that is accounted for stays so while no more lots are learnt. *)
LEMMA WalkAccounts ==
  ASSUME TypeInv, TypeInv', HeldIsThere, NEW o \in Orders, Accounted(o), [Next]_vars, ~ClosePosition,
         Walks, Lower(o), l'[o].st \notin GivenUp
  PROVE  Accounted(o)'
  <1>0. /\ l'[o].ex <= l[o].ex /\ l[o].ex \in 0..Qty /\ l'[o].ex \in 0..Qty
        /\ \A p \in Orders : reg'[p] >= reg[p] /\ reg[p] \in 0..Qty /\ reg'[p] \in 0..Qty
    BY BookGrows DEF Lower, TypeInv, DataOK, LState
  <1> SUFFICES ASSUME l'[o].st \in Filled PROVE Fed(o)' \/ Told(o)' \/ \E t \in Threads : Carried(t, o)'
    BY DEF Accounted
  <1>1. l[o].st \in Filled
    BY DEF Lower
  <1>2. CASE Told(o)
    BY <1>0, <1>2 DEF Told
  <1>3. ASSUME NEW t \in Threads, Carried(t, o) PROVE Carried(t, o)'
    <2>1. th'[t] = th[t] \/ (th'[t].pc \notin Growing /\ th[t].newly \subseteq th'[t].newly)
      BY DEF Walks, Keeps
    <2>2. th[t].held \in Nat /\ th[t].view.ex \in Nat
      BY ThreadFits, FieldTypes DEF TypeInv
    <2> QED BY <1>0, <1>3, <2>1, <2>2 DEF Carried
  <1>4. CASE Fed(o)
    <2>1. FeedEnds \/ Fed(o)'
      BY <1>4 DEF Fed, Walks, Keeps, Threads
    <2> QED BY <1>1, <1>4, <2>1, FeedTells DEF Fed
  <1> QED BY <1>1, <1>2, <1>3, <1>4 DEF Accounted

(* Leaving a fill the portfolio has been told of, or another one. *)
LEMMA SettleAccounts ==
  ASSUME TypeInv, TypeInv', HeldIsThere, NEW o \in Orders, Accounted(o), [Next]_vars, ~ClosePosition,
         UNCHANGED l, NEW t \in Fillers, NEW p, Settle(t, p), p = o /\ Carried(t, o) => Told(o)
  PROVE  Accounted(o)'
  <1>0. /\ t \in Threads /\ t # "feed" /\ "feed" \in Threads /\ l[o].ex \in 0..Qty
        /\ \A q \in Orders : reg'[q] >= reg[q] /\ reg[q] \in 0..Qty /\ reg'[q] \in 0..Qty
    BY BookGrows DEF Fillers, Threads, TypeInv, DataOK, LState
  <1>1. /\ \A u \in Threads \ {t} : th'[u] = th[u]
        /\ th'[t].newly = th[t].newly \ {p} /\ th'[t].pc \notin Growing
    BY <1>0, SettleWhere
  <1>2. Fed(o) => Fed(o)'
    BY <1>0, <1>1 DEF Fed
  <1>3. Told(o) => Told(o)'
    BY <1>0 DEF Told
  <1>4. ASSUME NEW u \in Threads, Carried(u, o) PROVE Told(o)' \/ Carried(u, o)'
    BY <1>1, <1>3, <1>4 DEF Carried
  <1> QED BY <1>2, <1>3, <1>4 DEF Accounted

LEMMA RegisterAccounts ==
  ASSUME TypeInv, TypeInv', PositionTold, HeldIsThere, NEW o \in Orders, Accounted(o), [Next]_vars,
         NEW t \in Fillers, Register(t)
  PROVE  Accounted(o)'
  <1>0. /\ UNCHANGED <<l, pos, reg>> /\ t \in Threads /\ t # "feed" /\ "feed" \in Threads
        /\ th[t].newly \subseteq Orders /\ pos \in 0..Qty /\ l[o].ex \in 0..Qty
        /\ \A q \in Orders : reg[q] \in 0..Qty
    BY ThreadFits, FieldTypes DEF Register, book, Fillers, Threads, TypeInv, DataOK, LState
  <1>1. PICK p \in th[t].newly :
              \/ /\ FilledOf(p) > pos
                 /\ th'[t].pc = "update" /\ th'[t].o = p /\ th'[t].newly = th[t].newly
                 /\ th'[t].held = pos /\ th'[t].view.ex = FilledOf(p) - pos
                 /\ \A u \in Threads \ {t} : th'[u] = th[u]
              \/ ~(FilledOf(p) > pos) /\ Settle(t, p)
    BY <1>0, RegisterWhere
  <1>2. FilledOf(p) \in 1..Qty /\ (p = o => l[o].ex <= FilledOf(p))
    BY <1>0, FilledOfLarger
  <1>3. CASE ~(FilledOf(p) > pos) /\ Settle(t, p)
    <2>1. p = o => Told(o)
      BY <1>0, <1>2, <1>3 DEF Told, PositionTold
    <2>2. ~ClosePosition \/ pos' = 0
      BY DEF ClosePosition
    <2>3. ~ClosePosition
      BY <1>0, <1>2, <1>3, <2>2
    <2> QED BY <1>0, <1>3, <2>1, <2>3, SettleAccounts
  <1>4. CASE /\ FilledOf(p) > pos
             /\ th'[t].pc = "update" /\ th'[t].o = p /\ th'[t].newly = th[t].newly
             /\ th'[t].held = pos /\ th'[t].view.ex = FilledOf(p) - pos
             /\ \A u \in Threads \ {t} : th'[u] = th[u]
    <2>1. Fed(o) => Fed(o)'
      BY <1>0, <1>4 DEF Fed
    <2>2. Told(o) => Told(o)'
      BY <1>0 DEF Told
    <2>3. ASSUME NEW u \in Threads, Carried(u, o) PROVE Carried(u, o)'
      BY <1>0, <1>2, <1>4, <2>3 DEF Carried
    <2> QED BY <1>0, <2>1, <2>2, <2>3 DEF Accounted
  <1> QED BY <1>1, <1>3, <1>4

LEMMA UpdateAccounts ==
  ASSUME TypeInv, TypeInv', HeldIsThere, NEW o \in Orders, Accounted(o), [Next]_vars, ~ClosePosition,
         NEW t \in Fillers, Update(t)
  PROVE  Accounted(o)'
  <1>0. /\ UNCHANGED l /\ t \in Threads /\ t # "feed" /\ "feed" \in Threads /\ l[o].ex \in 0..Qty
        /\ pos \in 0..Qty
        /\ \A q \in Orders : reg'[q] >= reg[q] /\ reg[q] \in 0..Qty /\ reg'[q] \in 0..Qty
    BY BookGrows DEF Update, Fillers, Threads, TypeInv, DataOK, LState
  <1>1. /\ th[t].pc = "update" /\ th'[t].newly = th[t].newly /\ th'[t].o = th[t].o
        /\ \A u \in Threads \ {t} : th'[u] = th[u]
    BY <1>0, UpdateWhere
  <1>2. Fed(o) => Fed(o)'
    BY <1>0, <1>1 DEF Fed
  <1>3. Told(o) => Told(o)'
    BY <1>0 DEF Told
  <1>4. ASSUME Carried(t, o), th[t].o = o PROVE Told(o)'
    <2>1. /\ th[t].held \in 0..Qty /\ th[t].view.ex \in 0..Qty /\ th[t].held + th[t].view.ex \in 0..Qty
          /\ l[o].ex <= th[t].held + th[t].view.ex
      BY <1>0, <1>1, <1>4, ThreadFits, FieldTypes DEF TypeInv, Fits, Carried, Growing
    <2>2. Tell(o, th[t].held + th[t].view.ex)
      BY <1>0, <1>1, <1>4 DEF Update, HeldIsThere
    <2>3. reg'[o] >= th[t].held + th[t].view.ex
      BY <2>1, <2>2, TellGrows
    <2> QED BY <1>0, <2>1, <2>3 DEF Told
  <1>5. ASSUME Carried(t, o), th[t].o # o PROVE Carried(t, o)'
    BY <1>1, <1>5 DEF Carried
  <1>6. ASSUME NEW u \in Threads \ {t}, Carried(u, o) PROVE Carried(u, o)'
    BY <1>0, <1>1, <1>6 DEF Carried
  <1> QED BY <1>0, <1>2, <1>3, <1>4, <1>5, <1>6 DEF Accounted

LEMMA NextFill ==
  ASSUME TypeInv, TypeInv', SafeInv, Carries, NEW o \in Orders, FillInv(o), [Next]_vars,
         l[o].st \notin GivenUp, l'[o].st \notin GivenUp
  PROVE  FillInv(o)'
  <1>1. PositionTold'
    BY PositionStaysTold DEF FillInv
  <1>2. ASSUME used'.closes = 0 PROVE HeldIsThere' /\ Accounted(o)'
    <2>1. ~ClosePosition /\ HeldIsThere /\ Accounted(o) /\ PositionTold
      BY <1>2, ClosesFrame DEF FillInv
    <2>2. HeldIsThere'
      BY <2>1, HeldStaysThere
    <2>3. CASE Walks
      <3>1. Lower(o) => Accounted(o)'
        BY <2>1, <2>3, WalkAccounts
      <3>2. Fed(o)' \/ (\E t \in Threads : Carried(t, o)') => Accounted(o)'
        BY DEF Accounted
      <3> QED BY <2>2, <3>1, <3>2, MoreIsCarried
    <2>4. ASSUME NEW t \in Fillers, Register(t) PROVE Accounted(o)'
      BY <2>1, <2>4, RegisterAccounts
    <2>5. ASSUME NEW t \in Fillers, Update(t) PROVE Accounted(o)'
      BY <2>1, <2>5, UpdateAccounts
    <2>6. ASSUME NEW t \in Fillers, ProtectFill(t) PROVE Accounted(o)'
      <3>1. UNCHANGED l /\ Settle(t, th[t].o) /\ th[t].pc = "protectFill"
        BY <2>6 DEF ProtectFill, At
      <3>2. th[t].o = o /\ Carried(t, o) => Told(o)
        BY <3>1 DEF Carried, Growing
      <3> QED BY <2>1, <3>1, <3>2, SettleAccounts
    <2> QED BY <2>2, <2>3, <2>4, <2>5, <2>6, NextWalks
  <1> QED BY <1>1, <1>2 DEF FillInv

LEMMA InitFill == ASSUME NEW o \in Orders PROVE Init => FillInv(o)
  BY DEF Init, FillInv, PositionTold, HeldIsThere, Accounted, Filled, Rest

(* No confirmed fill is forgotten (D2): as long as an order is not given up  *)
(* and nothing closes the position, the lots the order list shows as         *)
(* executed are with the feed thread that placed the order, or with a thread *)
(* that has confirmed them and is going to register them, or the portfolio   *)
(* has been told of as many, however polls, pushes and the feed thread's own *)
(* registration interleave and whichever of them reads filled_qty late       *)
(* (sync_entry_fills, on_user_order_update, _register_fills).  The portfolio *)
(* holds one position per symbol, so the lots it was told of may be those of *)
(* another order.  It is the safety half of FilledIsRegistered.              *)
THEOREM NoFillForgotten ==
  ASSUME NEW o \in Orders
  PROVE  Spec /\ [](l[o].st \notin {"CANCELED", "REJECTED"})
           => [](l[o].st \in Filled /\ used.closes = 0 =>
                   \/ \E t \in Threads : o \in th[t].newly
                   \/ /\ th["feed"].o = o
                      /\ th["feed"].pc \in {"remainder", "remainderAns", "check", "protect", "open"}
                   \/ \E p \in Orders : reg[p] >= l[o].ex)
  <1> DEFINE Kept   == l[o].st \notin {"CANCELED", "REJECTED"}
             Result == l[o].st \in Filled /\ used.closes = 0 =>
                          \/ \E t \in Threads : o \in th[t].newly
                          \/ /\ th["feed"].o = o
                             /\ th["feed"].pc \in {"remainder", "remainderAns", "check", "protect", "open"}
                          \/ \E p \in Orders : reg[p] >= l[o].ex
  <1>1. Init => FillInv(o)
    BY InitFill
  <1>2. TypeInv /\ TypeInv' /\ SafeInv /\ Carries /\ FillInv(o) /\ [Next]_vars /\ Kept /\ Kept' => FillInv(o)'
    BY NextFill DEF GivenUp
  <1>3. FillInv(o) => Result
    BY DEF FillInv, Accounted, Fed, Told, Carried, FeedTail
  <1>4. Init => Carries
    BY InitLet
  <1>5. TypeInv /\ Carries /\ Let /\ [Next]_vars => Carries' /\ Let'
    BY NextLet
  <1>6. Spec => []Carries
    BY <1>5, InitLet, TypeInvariant, PTL DEF Spec
  <1> HIDE DEF Kept, Result
  <1>7. Spec /\ []Kept => []Result
    BY <1>1, <1>2, <1>3, <1>6, TypeInvariant, SafeInvariant, PTL DEF Spec
  <1> QED BY <1>7 DEF Kept, Result

=============================================================================
