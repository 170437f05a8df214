-------------------------- MODULE ProtectionProof --------------------------
(* Proofs about Protection, for any number of entries, lots, failed calls    *)
(* and commands: an SL/TP order that the program counts as triggered or      *)
(* canceled is not open on the exchange, and one that is open is counted as  *)
(* pending, unless it was left behind.                                       *)
EXTENDS Protection, TLAPS

(* An order is placed once, for an entry that has been filled. *)
Placed == \A a \in Algos : la[a] # "none" => a[1] \in filled

(* What the entry thread has still to place is new. *)
New(e, k) == e \in filled /\ (<<e, k>> \in Algos => la[<<e, k>>] = "none")

Places ==
  LET l == th["entry"] IN
  /\ l.pc \in {"idle", "open", "SL", "TP"}
  /\ l.pc = "SL" \/ (l.pc = "open" /\ l.late) => New(l.lots, "SL") /\ New(l.lots, "TP")
  /\ l.pc = "TP" => New(l.lots, "TP")

(* The orders that another thread has at hand were placed before, so none of *)
(* them can become open any more: what the thread read of them stays true.   *)
Knows(t) ==
  LET l == th[t] IN
  /\ \A a \in l.todo : a \in Algos /\ la[a] # "none"
  /\ l.pc = "cancelAns" => /\ l.cur \in Algos /\ la[l.cur] # "none"
                           /\ l.ans = "ERROR" \/ xa[l.cur] # "open" \/ l.cur \in abandoned
  /\ l.pc = "apply" => \A a \in l.todo : xa[a] # "open"

Others == Threads \ {"entry"}

Inv == TypeOK /\ Placed /\ Places /\ (\A t \in Others : Knows(t)) /\ SettledIsNotOpen

-----------------------------------------------------------------------------
LEMMA RestIsLocal == Rest \in Local
  BY DEF Rest, Local

LEMMA LessIsNat == ASSUME NEW m \in Nat, NEW n \in Nat PROVE Less(m, n) \in Nat /\ Less(m, n) <= m
  BY DEF Less

(* Whatever comes after a cancellation, the thread has at hand no more than  *)
(* it had.                                                                   *)
LEMMA AfterIsLocal ==
  ASSUME NEW l \in Local
  PROVE  /\ After(l) \in Local /\ After(l).todo \subseteq l.todo
         /\ After(l).pc \in {"cancel", "idle", "market", "close"}
<1>1. CASE l.todo # {}
  BY <1>1 DEF After, Local
<1>2. CASE l.todo = {} /\ l.then = "idle"
  BY <1>2, RestIsLocal DEF After, Rest
<1>3. CASE l.todo = {} /\ l.then # "idle"
  BY <1>3 DEF After, Rest, Local
<1> QED BY <1>1, <1>2, <1>3

LEMMA InitInv == Init => Inv
<1> SUFFICES ASSUME Init PROVE Inv
  OBVIOUS
<1>1. TypeOK
  BY RestIsLocal DEF Init, TypeOK, XStatus, LStatus
<1>2. Placed /\ SettledIsNotOpen
  BY DEF Init, Placed, SettledIsNotOpen
<1>3. Places
  BY DEF Init, Places, Rest, Threads
<1>4. ASSUME NEW t \in Others PROVE Knows(t)
  BY <1>4 DEF Init, Knows, Rest, Others
<1> QED BY <1>1, <1>2, <1>3, <1>4 DEF Inv

-----------------------------------------------------------------------------
(* No order that was placed before is opened or taken off the list, and what *)
(* was left behind stays so.                                                 *)
Steady ==
  /\ \A a \in Algos : la[a] # "none" => la'[a] # "none" /\ (xa'[a] = "open" => xa[a] = "open")
  /\ abandoned \subseteq abandoned'

(* A thread that does not move knows what it knew. *)
LEMMA StillKnows ==
  ASSUME Inv, Steady, NEW t \in Others, th'[t] = th[t]
  PROVE  Knows(t)'
BY DEF Inv, Steady, Knows

(* The entry thread has the same to place when nothing else places anything. *)
LEMMA StillPlaces ==
  ASSUME Inv, th'["entry"] = th["entry"], filled \subseteq filled',
         \A a \in Algos : la[a] = "none" => la'[a] = "none"
  PROVE  Places'
BY DEF Inv, Places, New

(* Only one of the other threads moves, and places nothing. *)
LEMMA ThreadStep ==
  ASSUME Inv, NEW t \in Others, NEW l \in Local, Goes(t, l), Steady,
         UNCHANGED filled, \A a \in Algos : la[a] = "none" => la'[a] = "none",
         Knows(t)'
  PROVE  /\ th' \in [Threads -> Local] /\ Placed' /\ Places'
         /\ \A s \in Others : Knows(s)'
<1>1. th \in [Threads -> Local] /\ "entry" \in Threads /\ t \in Threads /\ t # "entry"
  BY DEF Inv, TypeOK, Threads, Others
<1>2. th' \in [Threads -> Local] /\ th'["entry"] = th["entry"]
  BY <1>1 DEF Goes
<1>3. Placed'
  BY DEF Inv, Placed
<1>4. Places'
  BY <1>2, StillPlaces
<1>5. ASSUME NEW s \in Others PROVE Knows(s)'
  <2>1. CASE s = t
    BY <2>1
  <2>2. CASE s # t
    <3>1. th'[s] = th[s]
      BY <1>1, <2>2 DEF Goes, Others
    <3> QED BY <3>1, StillKnows
  <2> QED BY <2>1, <2>2
<1> QED BY <1>2, <1>3, <1>4, <1>5

(* No thread moves. *)
LEMMA ExchangeStep ==
  ASSUME Inv, UNCHANGED <<th, la, filled>>, Steady
  PROVE  Placed' /\ Places' /\ \A s \in Others : Knows(s)'
<1>1. Placed'
  BY DEF Inv, Placed
<1>2. Places'
  BY StillPlaces
<1>3. \A s \in Others : Knows(s)'
  BY StillKnows
<1> QED BY <1>1, <1>2, <1>3

-----------------------------------------------------------------------------
(* What the exchange does by itself. *)
LEMMA ReducesTyped ==
  ASSUME Inv, Reduces
  PROVE  held' \in Nat
<1>1. held \in Nat /\ Qty \in Nat
  BY QtyAssumption DEF Inv, TypeOK
<1>2. Less(held, Qty) \in Nat /\ Less(held, Qty) <= held
  BY <1>1, LessIsNat
<1>3. held' = held - Less(held, Qty)
  BY DEF Reduces
<1> QED BY <1>1, <1>2, <1>3

LEMMA TriggerStep == ASSUME Inv, NEW a \in Algos, Trigger(a) PROVE Inv'
<1>1. TypeOK'
  BY ReducesTyped DEF Inv, TypeOK, Trigger, Reduces, XStatus
<1>2. Steady
  BY DEF Inv, TypeOK, Trigger, Reduces, Steady
<1>3. Placed' /\ Places' /\ \A s \in Others : Knows(s)'
  BY <1>2, ExchangeStep DEF Trigger, Reduces
<1>4. SettledIsNotOpen'
  BY DEF Inv, TypeOK, Trigger, Reduces, SettledIsNotOpen
<1> QED BY <1>1, <1>3, <1>4 DEF Inv

LEMMA TriggerGhostStep == ASSUME Inv, NEW a \in Algos, TriggerGhost(a) PROVE Inv'
<1>1. TypeOK'
  BY ReducesTyped DEF Inv, TypeOK, TriggerGhost, Reduces
<1>2. Steady
  BY DEF TriggerGhost, Reduces, Steady
<1>3. Placed' /\ Places' /\ \A s \in Others : Knows(s)'
  BY <1>2, ExchangeStep DEF TriggerGhost, Reduces
<1>4. SettledIsNotOpen'
  BY DEF Inv, TriggerGhost, Reduces, SettledIsNotOpen
<1> QED BY <1>1, <1>3, <1>4 DEF Inv

-----------------------------------------------------------------------------
(* The entry thread. *)
LEMMA EntryStep ==
  ASSUME Inv, NEW l \in Local, Goes("entry", l), Steady, Placed', Places'
  PROVE  /\ th' \in [Threads -> Local]
         /\ \A s \in Others : Knows(s)'
<1>1. th \in [Threads -> Local]
  BY DEF Inv, TypeOK
<1>2. th' \in [Threads -> Local] /\ \A s \in Others : th'[s] = th[s]
  BY <1>1 DEF Goes, Others, Threads
<1> QED BY <1>2, StillKnows

LEMMA EnterStep == ASSUME Inv, NEW e \in Entries, Enter(e) PROVE Inv'
<1>1. PICK p \in {"open", "SL"} : Goes("entry", [Rest EXCEPT !.pc = p, !.lots = e, !.late = (p = "open")])
  BY DEF Enter
<1> DEFINE l == [Rest EXCEPT !.pc = p, !.lots = e, !.late = (p = "open")]
<1>2. l \in Local /\ l.pc = p /\ l.lots = e
  BY EntriesAssumption, RestIsLocal DEF Rest, Local
<1>3. th'["entry"] = l
  BY <1>1 DEF Inv, TypeOK, Goes, Threads
<1>4. Placed'
  BY DEF Inv, Placed, Enter
<1>5. New(e, "SL")' /\ New(e, "TP")'
  BY DEF Inv, Placed, Enter, New
<1>6. Places'
  BY <1>2, <1>3, <1>5 DEF Places
<1>7. Steady
  BY DEF Enter, Steady
<1>8. th' \in [Threads -> Local] /\ \A s \in Others : Knows(s)'
  BY <1>1, <1>2, <1>4, <1>6, <1>7, EntryStep
<1>9. TypeOK'
  BY <1>8, QtyAssumption DEF Inv, TypeOK, Enter
<1>10. SettledIsNotOpen'
  BY DEF Inv, Enter, SettledIsNotOpen
<1> QED BY <1>4, <1>6, <1>8, <1>9, <1>10 DEF Inv

LEMMA OpenStep == ASSUME Inv, Open PROVE Inv'
<1>1. th \in [Threads -> Local] /\ th["entry"] \in Local
  BY DEF Inv, TypeOK, Threads
<1> DEFINE lacks == th["entry"].late /\ pos < Qty
           l == IF lacks THEN [th["entry"] EXCEPT !.pc = "SL"] ELSE Rest
<1>2. Goes("entry", l)
  BY DEF Open, Goto, Leave
<1>3. l \in Local
  BY <1>1, RestIsLocal DEF Local
<1>4. th'["entry"] = l
  BY <1>1, <1>2 DEF Goes, Threads
<1>5. Placed' /\ Steady
  BY DEF Inv, Placed, Open, exchange, Steady
<1>6. Places'
  <2>1. CASE lacks
    <3>1. New(th["entry"].lots, "SL") /\ New(th["entry"].lots, "TP")
      BY <2>1 DEF Inv, Places, Open, At
    <3>2. th'["entry"].pc = "SL" /\ th'["entry"].lots = th["entry"].lots
      BY <1>1, <1>4, <2>1 DEF Local
    <3> QED BY <3>1, <3>2 DEF Places, New, Open
  <2>2. CASE ~lacks
    BY <1>4, <2>2 DEF Places, Rest
  <2> QED BY <2>1, <2>2
<1>7. th' \in [Threads -> Local] /\ \A s \in Others : Knows(s)'
  BY <1>2, <1>3, <1>5, <1>6, EntryStep
<1>8. TypeOK'
  BY <1>7, QtyAssumption DEF Inv, TypeOK, Open, Larger, exchange
<1>9. SettledIsNotOpen'
  BY DEF Inv, Open, exchange, SettledIsNotOpen
<1> QED BY <1>5, <1>6, <1>7, <1>8, <1>9 DEF Inv

LEMMA PlaceStep == ASSUME Inv, NEW k \in {"SL", "TP"}, Place(k) PROVE Inv'
<1>1. th \in [Threads -> Local] /\ th["entry"] \in Local
  BY DEF Inv, TypeOK, Threads
<1> DEFINE e == th["entry"].lots
           a == <<e, k>>
           l == IF k = "SL" THEN [th["entry"] EXCEPT !.pc = "TP"]
                ELSE IF th["entry"].late THEN Rest
                ELSE [th["entry"] EXCEPT !.pc = "open"]
<1>2. Goes("entry", l)
  <2>1. CASE k = "SL"
    BY <2>1 DEF Place, Goto, Goes
  <2>2. CASE k # "SL" /\ th["entry"].late
    BY <2>2 DEF Place, Leave, Goes
  <2>3. CASE k # "SL" /\ ~th["entry"].late
    BY <2>3 DEF Place, Goto, Goes
  <2> QED BY <2>1, <2>2, <2>3
<1>3. l \in Local
  BY <1>1, RestIsLocal DEF Local
<1>4. th'["entry"] = l
  BY <1>1, <1>2 DEF Goes, Threads
<1>5. New(e, k) /\ (k = "SL" => New(e, "TP"))
  BY DEF Inv, Places, Place, At
<1>6. a \in Algos /\ a[1] = e /\ a \in Algos /\ la[a] = "none"
  BY <1>5 DEF New, Inv, TypeOK, Algos
<1>7. /\ xa' \in [Algos -> XStatus] /\ la' \in [Algos -> LStatus]
      /\ \A b \in Algos \ {a} : xa'[b] = xa[b] /\ la'[b] = la[b]
      /\ la'[a] \in {"PENDING", "REJECTED"}
  BY <1>6 DEF Place, Outcome, Inv, TypeOK, XStatus, LStatus
<1>8. Steady
  BY <1>6, <1>7 DEF Steady, Place
<1>9. Placed'
  BY <1>5, <1>6, <1>7 DEF Inv, Placed, Place, New
<1>10. Places'
  <2>1. CASE k = "SL"
    <3>1. th'["entry"].pc = "TP" /\ th'["entry"].lots = e
      BY <1>1, <1>4, <2>1 DEF Local
    <3>2. e \in filled' /\ (<<e, "TP">> \in Algos => la'[<<e, "TP">>] = "none")
      BY <1>5, <1>7, <2>1 DEF New, Place
    <3> QED BY <3>1, <3>2 DEF Places, New
  <2>2. CASE k # "SL" /\ th["entry"].late
    BY <1>4, <2>2 DEF Places, Rest
  <2>3. CASE k # "SL" /\ ~th["entry"].late
    <3>1. th'["entry"].pc = "open" /\ th'["entry"].late = th["entry"].late
      BY <1>1, <1>4, <2>3 DEF Local
    <3> QED BY <3>1, <2>3 DEF Places
  <2> QED BY <2>1, <2>2, <2>3
<1>11. th' \in [Threads -> Local] /\ \A s \in Others : Knows(s)'
  BY <1>2, <1>3, <1>8, <1>9, <1>10, EntryStep
<1>12. TypeOK'
  <2>1. ghosts' \subseteq Algos /\ used' \in [faults : Nat, commands : Nat]
    BY <1>6 DEF Place, LostTries, Fault, Inv, TypeOK
  <2> QED BY <1>7, <1>11, <2>1 DEF Inv, TypeOK, Place
<1>13. SettledIsNotOpen'
  BY <1>7 DEF Inv, Place, SettledIsNotOpen
<1> QED BY <1>9, <1>10, <1>11, <1>12, <1>13 DEF Inv

-----------------------------------------------------------------------------
(* Cancelling. *)

(* Cancelling begins with what is pending, and places nothing. *)
LEMMA CancellingStep ==
  ASSUME Inv, NEW t \in Others, NEW then \in {"idle", "market", "close"}, Cancelling(t, then),
         Steady, UNCHANGED filled, \A a \in Algos : la[a] = "none" => la'[a] = "none"
  PROVE  /\ th' \in [Threads -> Local] /\ Placed' /\ Places'
         /\ \A s \in Others : Knows(s)'
<1> DEFINE r == [Rest EXCEPT !.todo = Active, !.then = then,
                             !.lots = IF then = "market" THEN pos ELSE 0]
           l == After(r)
<1>1. r \in Local /\ r.todo = Active
  BY RestIsLocal DEF Rest, Local, Active, Inv, TypeOK
<1>2. l \in Local /\ l.todo \subseteq Active /\ l.pc \in {"cancel", "idle", "market", "close"}
  BY <1>1, AfterIsLocal
<1>3. Goes(t, l)
  BY DEF Cancelling
<1>4. th'[t] = l
  BY <1>3 DEF Goes, Inv, TypeOK, Others
<1> HIDE DEF l
<1>5. \A a \in l.todo : a \in Algos /\ la'[a] # "none"
  BY <1>2 DEF Active, Steady
<1>6. Knows(t)'
  BY <1>2, <1>4, <1>5 DEF Knows
<1> QED BY <1>2, <1>3, <1>6, ThreadStep

(* A cancellation opens nothing, and what it answers holds of the order,     *)
(* unless it was refused.                                                    *)
LEMMA CancelCallLemma ==
  ASSUME Inv, NEW a \in Algos, NEW r, CancelCall(a, r)
  PROVE  /\ xa' \in [Algos -> XStatus] /\ \A b \in Algos : xa'[b] = "open" => xa[b] = "open"
         /\ r = "ERROR" \/ xa'[a] # "open" \/ a \in abandoned'
         /\ abandoned \subseteq abandoned' /\ abandoned' \subseteq Algos
         /\ used' = used \/ Fault
<1>1. xa \in [Algos -> XStatus] /\ abandoned \subseteq Algos
  BY DEF Inv, TypeOK
<1>2. Ends(a) => /\ xa' \in [Algos -> XStatus] /\ xa'[a] # "open"
                 /\ \A b \in Algos : xa'[b] = "open" => xa[b] = "open"
  BY <1>1 DEF Ends, XStatus
<1>3. CASE Ends(a)
  BY <1>1, <1>2, <1>3 DEF CancelCall
<1>4. CASE ~Ends(a)
  BY <1>1, <1>4 DEF CancelCall
<1> QED BY <1>3, <1>4

LEMMA CancelNextStep == ASSUME Inv, NEW t \in Others, CancelNext(t) PROVE Inv'
<1>1. th \in [Threads -> Local] /\ t \in Threads /\ th[t] \in Local /\ Knows(t)
  BY DEF Inv, TypeOK, Others
<1>2. PICK a \in th[t].todo, ans \in {"CANCELED", "REJECTED", "ERROR"} :
         /\ CancelCall(a, ans)
         /\ Goes(t, [th[t] EXCEPT !.pc = "cancelAns", !.cur = a, !.todo = @ \ {a}, !.ans = ans])
  BY DEF CancelNext
<1> DEFINE l == [th[t] EXCEPT !.pc = "cancelAns", !.cur = a, !.todo = @ \ {a}, !.ans = ans]
<1>3. a \in Algos /\ la[a] # "none"
  BY <1>1 DEF Knows
<1>4. l \in Local /\ l.pc = "cancelAns" /\ l.cur = a /\ l.ans = ans /\ l.todo = th[t].todo \ {a}
  BY <1>1, <1>3 DEF Local
<1>5. Goes(t, l)
  BY <1>2
<1>6. th'[t] = l
  BY <1>1, <1>5 DEF Goes
<1> HIDE DEF l
<1>7. /\ xa' \in [Algos -> XStatus] /\ \A b \in Algos : xa'[b] = "open" => xa[b] = "open"
      /\ ans = "ERROR" \/ xa'[a] # "open" \/ a \in abandoned'
      /\ abandoned \subseteq abandoned' /\ abandoned' \subseteq Algos
      /\ used' = used \/ Fault
      /\ UNCHANGED <<la, filled, held, ghosts, pos>>
  BY <1>2, <1>3, CancelCallLemma DEF CancelNext
<1>8. Steady
  BY <1>7 DEF Steady
<1>9. Knows(t)'
  BY <1>1, <1>2, <1>3, <1>4, <1>6, <1>7 DEF Knows
<1>10. /\ th' \in [Threads -> Local] /\ Placed' /\ Places'
       /\ \A s \in Others : Knows(s)'
  BY <1>4, <1>5, <1>7, <1>8, <1>9, ThreadStep
<1>11. TypeOK'
  BY <1>2, <1>7, <1>10 DEF Inv, TypeOK, Fault
<1>12. SettledIsNotOpen'
  BY <1>7 DEF Inv, SettledIsNotOpen
<1> QED BY <1>10, <1>11, <1>12 DEF Inv

LEMMA CancelAnswerStep == ASSUME Inv, NEW t \in Others, CancelAnswer(t) PROVE Inv'
<1>1. th \in [Threads -> Local] /\ t \in Threads /\ th[t] \in Local /\ Knows(t)
  BY DEF Inv, TypeOK, Others
<1> DEFINE r == [th[t] EXCEPT !.cur = NoAlgo, !.ans = "none"]
           l == After(r)
           a == th[t].cur
<1>2. a \in Algos /\ la[a] # "none" /\ (th[t].ans = "ERROR" \/ xa[a] # "open" \/ a \in abandoned)
  BY <1>1 DEF CancelAnswer, At, Knows
<1>3. r \in Local /\ r.todo = th[t].todo
  BY <1>1 DEF Local
<1>4. l \in Local /\ l.todo \subseteq th[t].todo /\ l.pc \in {"cancel", "idle", "market", "close"}
  BY <1>3, AfterIsLocal
<1>5. Goes(t, l)
  BY DEF CancelAnswer
<1>6. th'[t] = l
  BY <1>1, <1>5 DEF Goes
<1>7. /\ la' \in [Algos -> LStatus] /\ UNCHANGED <<xa, held, ghosts, filled, pos, used, abandoned>>
      /\ \A b \in Algos : la'[b] = la[b] \/ (b = a /\ la'[b] = "CANCELED" /\ (xa[b] # "open" \/ b \in abandoned))
  BY <1>2 DEF CancelAnswer, exchange, Inv, TypeOK, LStatus
<1>8. Steady /\ \A b \in Algos : la[b] = "none" => la'[b] = "none"
  BY <1>2, <1>7 DEF Steady
<1> HIDE DEF l
<1>9. Knows(t)'
  BY <1>1, <1>4, <1>6, <1>8 DEF Knows, Steady
<1>10. /\ th' \in [Threads -> Local] /\ Placed' /\ Places'
       /\ \A s \in Others : Knows(s)'
  BY <1>4, <1>5, <1>7, <1>8, <1>9, ThreadStep
<1>11. TypeOK'
  BY <1>7, <1>10 DEF Inv, TypeOK
<1>12. SettledIsNotOpen'
  BY <1>7 DEF Inv, SettledIsNotOpen
<1> QED BY <1>10, <1>11, <1>12 DEF Inv

-----------------------------------------------------------------------------
(* Steps that leave the orders and the list as they are. *)
Counts == [faults : Nat, commands : Nat]

LEMMA CountsTyped ==
  ASSUME Inv, Fault \/ Command \/ UNCHANGED used
  PROVE  used' \in Counts
BY DEF Inv, TypeOK, Fault, Command, Counts

LEMMA QuietTyped ==
  ASSUME Inv, UNCHANGED <<xa, la, ghosts, filled, abandoned>>,
         held' \in Nat, pos' \in Nat, used' \in Counts, th' \in [Threads -> Local]
  PROVE  TypeOK' /\ SettledIsNotOpen'
BY DEF Inv, TypeOK, SettledIsNotOpen, Counts

(* The thread has at hand what it had, or what is pending. *)
LEMMA QuietStep ==
  ASSUME Inv, NEW t \in Others, NEW l \in Local, Goes(t, l),
         UNCHANGED <<xa, la, ghosts, filled, abandoned>>,
         held' \in Nat, pos' \in Nat, used' \in Counts,
         l.todo \subseteq th[t].todo \cup Active,
         l.pc = "cancelAns" => FALSE, l.pc = "apply" => \A a \in l.todo : xa[a] # "open"
  PROVE  Inv'
<1>1. th'[t] = l
  BY DEF Goes, Inv, TypeOK, Others
<1>2. \A a \in l.todo : a \in Algos /\ la[a] # "none"
  BY DEF Inv, Knows, Active
<1>3. Knows(t)'
  BY <1>1, <1>2 DEF Knows
<1>4. /\ th' \in [Threads -> Local] /\ Placed' /\ Places'
      /\ \A s \in Others : Knows(s)'
  BY <1>3, ThreadStep DEF Steady
<1> QED BY <1>4, QuietTyped DEF Inv

LEMMA QuietCancelling ==
  ASSUME Inv, NEW t \in Others, NEW then \in {"idle", "market", "close"}, Cancelling(t, then),
         UNCHANGED <<xa, la, ghosts, filled, abandoned>>,
         held' \in Nat, pos' \in Nat, used' \in Counts
  PROVE  Inv'
<1>1. /\ th' \in [Threads -> Local] /\ Placed' /\ Places'
      /\ \A s \in Others : Knows(s)'
  BY CancellingStep DEF Steady
<1> QED BY <1>1, QuietTyped DEF Inv

LEMMA ThreadTyped ==
  ASSUME Inv, NEW t \in Others
  PROVE  /\ th[t] \in Local /\ t \in Threads
         /\ \A p \in {"close", "triggered", "bulk", "import", "align"} :
              /\ [th[t] EXCEPT !.pc = p] \in Local
              /\ [th[t] EXCEPT !.pc = p].pc = p
              /\ [th[t] EXCEPT !.pc = p].todo = th[t].todo
<1>1. th[t] \in Local /\ t \in Threads
  BY DEF Inv, TypeOK, Others
<1> QED BY <1>1 DEF Local

LEMMA LeaveStep ==
  ASSUME Inv, NEW t \in Others, Leave(t),
         UNCHANGED <<xa, la, ghosts, filled, abandoned>>,
         held' \in Nat, pos' \in Nat, used' \in Counts
  PROVE  Inv'
<1>1. Rest.todo = {} /\ Rest.pc = "idle"
  BY DEF Rest
<1> QED BY <1>1, RestIsLocal, QuietStep DEF Leave

LEMMA GotoStep ==
  ASSUME Inv, NEW t \in Others, NEW p \in {"close", "triggered", "bulk", "import", "align"}, Goto(t, p),
         UNCHANGED <<xa, la, ghosts, filled, abandoned>>,
         held' \in Nat, pos' \in Nat, used' \in Counts
  PROVE  Inv'
BY ThreadTyped, QuietStep DEF Goto

LEMMA Numbers == ASSUME Inv PROVE held \in Nat /\ pos \in Nat /\ used \in Counts
  BY DEF Inv, TypeOK, Counts

LEMMA CloseStep == ASSUME Inv, NEW t \in Others, Close(t) PROVE Inv'
  BY Numbers, LeaveStep DEF Close, exchange

LEMMA MarketStep == ASSUME Inv, NEW t \in Others, Market(t) PROVE Inv'
<1>1. PICK n \in Exits(t) :
        /\ held' = held - n
        /\ \/ Goto(t, "close") /\ UNCHANGED used
           \/ Leave(t) /\ (UNCHANGED used \/ Fault)
  BY DEF Market
<1>2. held \in Nat /\ pos \in Nat /\ th[t].lots \in Nat
  BY Numbers, ThreadTyped DEF Local
<1>3. n \in Nat /\ n <= held
  BY <1>2 DEF Exits, Less, Larger
<1>4. held' \in Nat /\ UNCHANGED <<xa, la, ghosts, filled, abandoned, pos>>
  BY <1>1, <1>2, <1>3 DEF Market
<1>5. used' \in Counts
  BY <1>1, CountsTyped
<1>6. CASE Goto(t, "close")
  BY <1>2, <1>4, <1>5, <1>6, GotoStep
<1>7. CASE Leave(t)
  BY <1>2, <1>4, <1>5, <1>7, LeaveStep
<1> QED BY <1>1, <1>6, <1>7

LEMMA ForceExitStep == ASSUME Inv, NEW t \in Threads, ForceExit(t) PROVE Inv'
<1>1. t \in Others
  BY DEF ForceExit, Others, Threads
<1>2. used' \in Counts
  BY CountsTyped DEF ForceExit
<1>3. Cancelling(t, "market") /\ UNCHANGED <<exchange, pos, la, filled, abandoned>>
  BY DEF ForceExit
<1> QED BY <1>1, <1>2, <1>3, Numbers, QuietCancelling DEF exchange

-----------------------------------------------------------------------------
(* The main thread. *)
LEMMA AlgoPollStep == ASSUME Inv, AlgoPoll PROVE Inv'
<1> DEFINE l == [Rest EXCEPT !.pc = "query", !.todo = Active]
<1>1. l \in Local /\ l.todo = Active /\ l.pc = "query"
  BY RestIsLocal DEF Rest, Local, Active
<1>2. "main" \in Others /\ Goes("main", l)
  BY DEF AlgoPoll, Others, Threads
<1> HIDE DEF l
<1> QED BY <1>1, <1>2, Numbers, QuietStep DEF AlgoPoll, exchange

LEMMA QueryAnswered ==
  ASSUME Inv, AlgoQuery, NEW gone, gone \subseteq th["main"].todo,
         Goes("main", [th["main"] EXCEPT !.pc = "apply", !.todo = gone]),
         \A a \in gone : xa[a] # "open", used' \in Counts
  PROVE  Inv'
<1> DEFINE l == [th["main"] EXCEPT !.pc = "apply", !.todo = gone]
<1>1. "main" \in Others
  BY DEF Others, Threads
<1>2. th["main"] \in Local
  BY <1>1, ThreadTyped
<1>3. l \in Local /\ l.pc = "apply" /\ l.todo = gone
  BY <1>2 DEF Local
<1>4. Goes("main", l)
  OBVIOUS
<1> HIDE DEF l
<1> QED BY <1>1, <1>3, <1>4, Numbers, QuietStep DEF AlgoQuery, exchange

LEMMA AlgoQueryStep == ASSUME Inv, AlgoQuery PROVE Inv'
<1> DEFINE shut == {a \in th["main"].todo : xa[a] # "open"}
           none == {}
<1>1. \/ Goes("main", [th["main"] EXCEPT !.pc = "apply", !.todo = shut]) /\ UNCHANGED used
      \/ Goes("main", [th["main"] EXCEPT !.pc = "apply", !.todo = none]) /\ Fault
  BY DEF AlgoQuery, Missing
<1>2. used' \in Counts
  BY <1>1, CountsTyped
<1>3. /\ shut \subseteq th["main"].todo /\ \A a \in shut : xa[a] # "open"
      /\ none \subseteq th["main"].todo /\ \A a \in none : xa[a] # "open"
  OBVIOUS
<1> HIDE DEF shut, none
<1>4. CASE Goes("main", [th["main"] EXCEPT !.pc = "apply", !.todo = shut])
  BY <1>2, <1>3, <1>4, QueryAnswered
<1>5. CASE Goes("main", [th["main"] EXCEPT !.pc = "apply", !.todo = none])
  BY <1>2, <1>3, <1>5, QueryAnswered
<1> QED BY <1>1, <1>4, <1>5

LEMMA AlgoApplyStep == ASSUME Inv, AlgoApply PROVE Inv'
<1>1. "main" \in Others /\ th["main"] \in Local /\ Knows("main")
  BY ThreadTyped DEF Others, Threads, Inv
<1> DEFINE todo == th["main"].todo
           l == IF todo = {} THEN Rest ELSE [th["main"] EXCEPT !.pc = "triggered"]
<1>2. \A a \in todo : a \in Algos /\ la[a] # "none" /\ xa[a] # "open"
  BY <1>1 DEF Knows, AlgoApply, At
<1>3. /\ la' \in [Algos -> LStatus] /\ UNCHANGED <<xa, held, ghosts, pos, filled, used, abandoned>>
      /\ \A a \in Algos : la'[a] = la[a] \/ (a \in todo /\ la'[a] = "FILLED")
  BY DEF AlgoApply, exchange, Inv, TypeOK, LStatus
<1>4. Steady /\ \A a \in Algos : la[a] = "none" => la'[a] = "none"
  BY <1>2, <1>3 DEF Steady
<1>5. l \in Local /\ l.todo \subseteq todo /\ l.pc \in {"idle", "triggered"}
  BY <1>1, RestIsLocal, ThreadTyped DEF Rest
<1>6. Goes("main", l)
  BY DEF AlgoApply, Goto, Leave
<1>7. th'["main"] = l
  BY <1>6 DEF Goes, Inv, TypeOK, Threads
<1> HIDE DEF l
<1>8. Knows("main")'
  BY <1>2, <1>4, <1>5, <1>7 DEF Knows, Steady
<1>9. /\ th' \in [Threads -> Local] /\ Placed' /\ Places'
      /\ \A s \in Others : Knows(s)'
  BY <1>1, <1>3, <1>4, <1>5, <1>6, <1>8, ThreadStep
<1>10. TypeOK'
  BY <1>3, <1>9 DEF Inv, TypeOK
<1>11. SettledIsNotOpen'
  BY <1>2, <1>3 DEF Inv, SettledIsNotOpen
<1> QED BY <1>9, <1>10, <1>11 DEF Inv

LEMMA OnTriggeredStep == ASSUME Inv, OnTriggered PROVE Inv'
<1>1. "main" \in Others
  BY DEF Others, Threads
<1>2. PICK then \in {"idle", "close"} : Cancelling("main", then)
  BY DEF OnTriggered
<1> QED BY <1>1, <1>2, Numbers, QuietCancelling DEF OnTriggered, exchange

LEMMA PendingTimeoutStep == ASSUME Inv, NEW a \in Algos, PendingTimeout(a) PROVE Inv'
<1> DEFINE l == [Rest EXCEPT !.pc = "cancel", !.todo = {a}]
<1>1. l \in Local /\ l.todo = {a} /\ l.pc = "cancel" /\ a \in Active
  BY RestIsLocal DEF Rest, Local, Active, PendingTimeout
<1>2. "main" \in Others /\ Goes("main", l)
  BY DEF PendingTimeout, Others, Threads
<1> HIDE DEF l
<1> QED BY <1>1, <1>2, Numbers, QuietStep DEF PendingTimeout, exchange

-----------------------------------------------------------------------------
(* cancel_all. *)
LEMMA CancelAllStep == ASSUME Inv, CancelAll PROVE Inv'
<1>1. "cmd" \in Others /\ th["cmd"] \in Local /\ Knows("cmd") /\ Goto("cmd", "bulk")
  BY ThreadTyped DEF Others, Threads, Inv, CancelAll
<1> DEFINE l == [th["cmd"] EXCEPT !.pc = "bulk"]
<1>2. l \in Local /\ l.pc = "bulk" /\ l.todo = th["cmd"].todo
  BY <1>1, ThreadTyped
<1>3. Goes("cmd", l)
  BY <1>1 DEF Goto
<1>4. th'["cmd"] = l
  BY <1>3 DEF Goes, Inv, TypeOK, Threads
<1> HIDE DEF l
<1>5. /\ xa' \in [Algos -> XStatus] /\ \A a \in Algos : xa'[a] = "open" => xa[a] = "open"
      /\ UNCHANGED <<la, filled, held, pos, abandoned>>
      /\ ghosts' \subseteq Algos /\ used' \in Counts
  BY DEF CancelAll, Inv, TypeOK, XStatus, Counts
<1>6. Steady
  BY <1>5 DEF Steady
<1>7. Knows("cmd")'
  BY <1>1, <1>2, <1>4, <1>5 DEF Knows
<1>8. /\ th' \in [Threads -> Local] /\ Placed' /\ Places'
      /\ \A s \in Others : Knows(s)'
  BY <1>1, <1>2, <1>3, <1>5, <1>6, <1>7, ThreadStep
<1>9. TypeOK'
  BY <1>5, <1>8 DEF Inv, TypeOK, Counts
<1>10. SettledIsNotOpen'
  BY <1>5 DEF Inv, SettledIsNotOpen
<1> QED BY <1>8, <1>9, <1>10 DEF Inv

LEMMA CancelAllMarkStep == ASSUME Inv, CancelAllMark PROVE Inv'
<1>1. "cmd" \in Others /\ Goes("cmd", Rest)
  BY DEF Others, Threads, CancelAllMark, Leave
<1>2. /\ la' \in [Algos -> LStatus] /\ UNCHANGED <<xa, held, ghosts, pos, filled, used>>
      /\ abandoned' = abandoned \cup {a \in Active : xa[a] = "open"}
      /\ \A a \in Algos : la'[a] = IF a \in Active THEN "CANCELED" ELSE la[a]
  BY DEF CancelAllMark, exchange, Inv, TypeOK, LStatus
<1>3. Steady /\ \A a \in Algos : la[a] = "none" => la'[a] = "none"
  BY <1>2 DEF Steady, Active
<1>4. th'["cmd"] = Rest
  BY <1>1 DEF Goes, Inv, TypeOK, Threads
<1>5. Knows("cmd")'
  BY <1>4 DEF Knows, Rest
<1>6. /\ th' \in [Threads -> Local] /\ Placed' /\ Places'
      /\ \A s \in Others : Knows(s)'
  BY <1>1, <1>2, <1>3, <1>5, RestIsLocal, ThreadStep
<1>7. TypeOK'
  BY <1>2, <1>6 DEF Inv, TypeOK, Active
<1>8. SettledIsNotOpen'
  BY <1>2 DEF Inv, SettledIsNotOpen, Active
<1> QED BY <1>6, <1>7, <1>8 DEF Inv

-----------------------------------------------------------------------------
(* The reconciler. *)
LEMMA ReconIsOther == "recon" \in Others
  BY DEF Others, Threads

LEMMA FetchStep == ASSUME Inv, Fetch PROVE Inv'
<1> DEFINE l == [Rest EXCEPT !.pc = "compare", !.lots = held]
<1>1. l \in Local /\ l.todo = {} /\ l.pc = "compare"
  BY RestIsLocal, Numbers DEF Rest, Local
<1>2. Goes("recon", l)
  BY DEF Fetch
<1> HIDE DEF l
<1> QED BY <1>1, <1>2, ReconIsOther, Numbers, QuietStep DEF Fetch, exchange

LEMMA FetchFailedStep == ASSUME Inv, FetchFailed PROVE Inv'
<1>1. UNCHANGED <<exchange, pos, la, th, filled, abandoned>> /\ used' \in Counts
  BY CountsTyped DEF FetchFailed
<1>2. Placed' /\ Places' /\ \A s \in Others : Knows(s)'
  BY <1>1, ExchangeStep DEF Steady, exchange
<1>3. TypeOK' /\ SettledIsNotOpen'
  BY <1>1, Numbers, QuietTyped DEF exchange, Inv, TypeOK
<1> QED BY <1>2, <1>3 DEF Inv

LEMMA CompareStep == ASSUME Inv, Compare PROVE Inv'
<1>1. UNCHANGED <<exchange, pos, la, filled, abandoned>>
  BY DEF Compare
<1>2. /\ \/ Cancelling("recon", "close")
         \/ Leave("recon")
         \/ \E p \in {"import", "align"} : Goto("recon", p)
      /\ UNCHANGED used \/ Fault
  BY DEF Compare
<1>3. used' \in Counts
  BY <1>2, CountsTyped
<1>4. CASE Cancelling("recon", "close")
  BY <1>1, <1>3, <1>4, ReconIsOther, Numbers, QuietCancelling DEF exchange
<1>5. CASE Leave("recon")
  BY <1>1, <1>3, <1>5, ReconIsOther, Numbers, LeaveStep DEF exchange
<1>6. CASE \E p \in {"import", "align"} : Goto("recon", p)
  BY <1>1, <1>3, <1>6, ReconIsOther, Numbers, GotoStep DEF exchange
<1> QED BY <1>2, <1>4, <1>5, <1>6

LEMMA ImportStep == ASSUME Inv, Import PROVE Inv'
<1>1. th["recon"].lots \in Nat
  BY ReconIsOther, ThreadTyped DEF Local
<1> QED BY <1>1, ReconIsOther, Numbers, LeaveStep DEF Import, exchange

LEMMA AlignStep == ASSUME Inv, Align PROVE Inv'
<1>1. th["recon"].lots \in Nat
  BY ReconIsOther, ThreadTyped DEF Local
<1>2. pos' \in Nat
  BY <1>1 DEF Align
<1> QED BY <1>2, ReconIsOther, Numbers, LeaveStep DEF Align, exchange

-----------------------------------------------------------------------------
LEMMA CancelsStep == ASSUME Inv, NEW t \in Others, Cancels(t) PROVE Inv'
  BY CancelNextStep, CancelAnswerStep, CloseStep DEF Cancels

LEMMA StutterStep == ASSUME Inv, UNCHANGED vars PROVE Inv'
<1>1. Placed' /\ Places' /\ \A s \in Others : Knows(s)'
  BY ExchangeStep DEF vars, exchange, Steady
<1>2. TypeOK' /\ SettledIsNotOpen'
  BY Numbers, QuietTyped DEF vars, exchange, Inv, TypeOK
<1> QED BY <1>1, <1>2 DEF Inv

LEMMA NextStep == Inv /\ [Next]_vars => Inv'
<1> SUFFICES ASSUME Inv, [Next]_vars PROVE Inv'
  OBVIOUS
<1>1. {"main", "cmd", "recon"} \subseteq Others
  BY DEF Others, Threads
<1>2. CASE \E e \in Entries : Enter(e)
  BY <1>2, EnterStep
<1>3. CASE Entry
  BY <1>3, OpenStep, PlaceStep DEF Entry
<1>4. CASE Main
  BY <1>1, <1>4, AlgoPollStep, AlgoQueryStep, AlgoApplyStep, OnTriggeredStep, CancelsStep, MarketStep DEF Main
<1>5. CASE Cmd
  BY <1>1, <1>5, CancelAllMarkStep, CancelsStep, MarketStep DEF Cmd
<1>6. CASE Recon
  BY <1>1, <1>6, FetchStep, CompareStep, ImportStep, AlignStep, CancelsStep DEF Recon
<1>7. CASE FetchFailed
  BY <1>7, FetchFailedStep
<1>8. CASE CancelAll
  BY <1>8, CancelAllStep
<1>9. CASE \E t \in Threads : ForceExit(t)
  BY <1>9, ForceExitStep
<1>10. CASE \E a \in Algos : Trigger(a) \/ TriggerGhost(a) \/ PendingTimeout(a)
  BY <1>10, TriggerStep, TriggerGhostStep, PendingTimeoutStep
<1>11. CASE UNCHANGED vars
  BY <1>11, StutterStep
<1> QED BY <1>2, <1>3, <1>4, <1>5, <1>6, <1>7, <1>8, <1>9, <1>10, <1>11 DEF Next

(* Every reachable state is type correct, for any entries and bounds.        *)
THEOREM ProtectionTyped == Spec => []TypeOK
<1>1. Inv => TypeOK
  BY DEF Inv
<1> QED BY InitInv, NextStep, <1>1, PTL DEF Spec

(* What the program counts as triggered or canceled cannot close a position  *)
(* any more, whichever calls fail and however the answers of one thread      *)
(* interleave with the steps of the others (sync_algo_orders,                *)
(* _cancel_one_order); except what a failed cancel_all, or a cancellation    *)
(* refused with an error code, has left open.                                *)
THEOREM SettledAreNotOpen == Spec => []SettledIsNotOpen
<1>1. Inv => SettledIsNotOpen
  BY DEF Inv
<1> QED BY InitInv, NextStep, <1>1, PTL DEF Spec

-----------------------------------------------------------------------------
(* An order the list does not know as placed is not open on the exchange.    *)
Unplaced  == {"none", "REJECTED"}
Untouched == \A a \in Algos : la[a] \in Unplaced => xa[a] # "open"

(* No order is opened, and none of the list becomes unplaced. *)
OpensNone == \A a \in Algos : /\ la'[a] \in Unplaced => la[a] \in Unplaced
                              /\ xa'[a] = "open" => xa[a] = "open"

LEMMA OpenFrame ==
  ASSUME Inv, [Next]_vars
  PROVE  OpensNone \/ \E k \in {"SL", "TP"} : Place(k)
<1>0. /\ xa \in [Algos -> XStatus] /\ la \in [Algos -> LStatus]
      /\ \A m, n : Less(m, n) \in {m, n}
  BY DEF Inv, TypeOK, Less
<1>1. UNCHANGED <<xa, la>> => OpensNone
  BY DEF OpensNone
<1>2. CASE \E a \in Algos : Trigger(a) \/ TriggerGhost(a) \/ PendingTimeout(a)
  <2>1. \/ UNCHANGED <<xa, la>>
        \/ \E a \in Algos : xa' = [xa EXCEPT ![a] = "triggered"] /\ la' = la
    BY <1>2 DEF Trigger, TriggerGhost, PendingTimeout, Reduces, exchange
  <2> QED BY <1>0, <1>1, <2>1 DEF OpensNone
<1>3. ASSUME NEW t, CancelNext(t) PROVE OpensNone
  <2>1. la' = la /\ (xa' = xa \/ \E a : xa' = [xa EXCEPT ![a] = "canceled"])
    BY <1>3 DEF CancelNext, CancelCall, Ends
  <2> QED BY <1>0, <2>1 DEF OpensNone
<1>4. ASSUME NEW t, CancelAnswer(t) PROVE OpensNone
  <2>1. xa' = xa /\ (la' = la \/ \E a : la' = [la EXCEPT ![a] = "CANCELED"])
    BY <1>4 DEF CancelAnswer, exchange
  <2> QED BY <1>0, <2>1 DEF OpensNone, Unplaced
<1>5. \A t : Close(t) \/ Market(t) \/ ForceExit(t) => UNCHANGED <<xa, la>>
  BY DEF Close, Market, ForceExit, exchange
<1>6. AlgoPoll \/ AlgoQuery \/ OnTriggered \/ Open => UNCHANGED <<xa, la>>
  BY DEF AlgoPoll, AlgoQuery, OnTriggered, Open, exchange
<1>7. Fetch \/ FetchFailed \/ Compare \/ Import \/ Align => UNCHANGED <<xa, la>>
  BY DEF Fetch, FetchFailed, Compare, Import, Align, exchange
<1>8. CASE AlgoApply
  <2>1. xa' = xa /\ la' = [a \in Algos |-> IF a \in th["main"].todo THEN "FILLED" ELSE la[a]]
    BY <1>8 DEF AlgoApply, exchange
  <2> QED BY <2>1 DEF OpensNone, Unplaced
<1>9. CASE CancelAll
  <2>1. la' = la /\ (xa' = xa \/ xa' = [a \in Algos |-> IF xa[a] = "open" THEN "canceled" ELSE xa[a]])
    BY <1>9 DEF CancelAll
  <2> QED BY <2>1 DEF OpensNone
<1>10. CASE CancelAllMark
  <2>1. xa' = xa /\ la' = [a \in Algos |-> IF a \in Active THEN "CANCELED" ELSE la[a]]
    BY <1>10 DEF CancelAllMark, exchange
  <2> QED BY <2>1 DEF OpensNone, Unplaced
<1>11. (\E e \in Entries : Enter(e)) \/ UNCHANGED vars => UNCHANGED <<xa, la>>
  BY DEF Enter, vars, exchange
<1> QED BY <1>1, <1>2, <1>3, <1>4, <1>5, <1>6, <1>7, <1>8, <1>9, <1>10, <1>11
        DEF Next, Entry, Main, Cmd, Recon, Cancels

(* An order is placed only where it was not placed before. *)
LEMMA PlaceOpens ==
  ASSUME Inv, Untouched, NEW k \in {"SL", "TP"}, Place(k)
  PROVE  Untouched'
<1> DEFINE a == <<th["entry"].lots, k>>
<1>1. New(th["entry"].lots, k) /\ Outcome(a)
  BY DEF Inv, Places, Place, At
<1>2. a \in Algos /\ la[a] = "none" /\ xa \in [Algos -> XStatus] /\ la \in [Algos -> LStatus]
  BY <1>1 DEF New, Inv, TypeOK, Algos
<1> HIDE DEF a
<1>3. CASE xa' = [xa EXCEPT ![a] = "open"] /\ la' = [la EXCEPT ![a] = "PENDING"]
  BY <1>2, <1>3 DEF Untouched, Unplaced
<1>4. CASE xa' = xa /\ la' = [la EXCEPT ![a] = "REJECTED"]
  BY <1>2, <1>4 DEF Untouched, Unplaced
<1> QED BY <1>1, <1>3, <1>4 DEF Outcome

LEMMA UntouchedStep == Inv /\ Untouched /\ [Next]_vars => Untouched'
<1> SUFFICES ASSUME Inv, Untouched, [Next]_vars PROVE Untouched'
  OBVIOUS
<1>1. OpensNone => Untouched'
  BY DEF OpensNone, Untouched
<1> QED BY <1>1, OpenFrame, PlaceOpens

LEMMA InitUntouched == Init => Untouched
BY DEF Init, Untouched

(* Every SL/TP order that is open on the exchange, and whose acceptance was  *)
(* heard of, is PENDING in the order list, so sync_algo_orders polls it and  *)
(* the pending timeout cancels it, however calls fail and whatever the       *)
(* threads do to one another; only a failed cancel_all and a cancellation    *)
(* refused with an error code (_status_or_fail) lose one.  It is what        *)
(* OrphansEnd rests on.                                                      *)
THEOREM OpenIsPending ==
  Spec => [](\A a \in Algos : xa[a] = "open" => la[a] = "PENDING" \/ a \in abandoned)
<1>1. Inv /\ Untouched => \A a \in Algos : xa[a] = "open" => la[a] = "PENDING" \/ a \in abandoned
  BY DEF Inv, TypeOK, LStatus, SettledIsNotOpen, Untouched, Unplaced
<1> QED BY InitInv, NextStep, InitUntouched, UntouchedStep, <1>1, PTL DEF Spec

=============================================================================
