------------------------ MODULE OrderPlacementProof ------------------------
(* Proofs about OrderPlacement, for every number of retries, recvWindow and   *)
(* bounds: submit_entry implements EntryPlacement.                            *)
EXTENDS OrderPlacement, FiniteSetTheorems, TLAPS

(* What the requests in flight have in common. *)
Flight ==
  /\ pc \in {"send", "wait", "recover", "done"}
  /\ req.id = 0 /\ req.left \in Nat /\ waited \in Nat
  /\ \A r \in stray : r.id = 0 /\ r.left \in Nat
  /\ accepted \in {{}, {0}}
  /\ resets \in Nat

(* The outcome agrees with the place the client is at, and with the exchange. *)
Outcome ==
  /\ state \in {"none", "PENDING", "REJECTED"}
  /\ state = "none" <=> pc # "done"
  /\ req.ans = "NEW" \/ state = "PENDING" => accepted = {0}

(* The request that is waited for is acceptable no longer than the timeout,   *)
(* and those that are not waited for any more are not acceptable at all.      *)
Windows ==
  /\ pc = "wait" => req.left = 0 \/ req.left + waited <= RecvWindow + Skew
  /\ resets = 0 => \A r \in stray : r.left = 0

Inv == Flight /\ Outcome /\ Windows

LEMMA TimeoutLasts == Timeout \in Nat /\ RecvWindow + Skew <= Timeout
BY TimesAssumption, SkewAssumption DEF Timeout

LEMMA InitInv == Init => Inv
BY DEF Init, Inv, Flight, Outcome, Windows, NoReq

(* What the client does when a call has failed, with the request that it      *)
(* stops waiting for.                                                         *)
LEMMA FailInv ==
  ASSUME Inv, pc = "wait", Fail, accepted' = accepted, resets' \in Nat,
         \A r \in stray' : r.id = 0 /\ r.left \in Nat,
         resets' = 0 => \A r \in stray' : r.left = 0
  PROVE  Inv'
<1>1. Flight'
  BY DEF Inv, Flight, Fail, NoReq, Record
<1>2. Outcome'
  BY DEF Inv, Outcome, Fail, NoReq, Record
<1>3. Windows'
  BY DEF Inv, Windows, Fail, NoReq, Record
<1> QED BY <1>1, <1>2, <1>3 DEF Inv

LEMMA StepInv == Inv /\ [Next]_vars => Inv'
<1> SUFFICES ASSUME Inv, [Next]_vars PROVE Inv'
  OBVIOUS
<1> USE TimesAssumption, SkewAssumption
<1>1. CASE Send
  <2>1. PICK left \in (RecvWindow - Skew)..(RecvWindow + Skew) :
           req' = [id |-> IdOf(try.place), valid |-> ~signed, left |-> left, ans |-> "none"]
    BY <1>1 DEF Send, WindowLeft
  <2>2. left \in Nat /\ left <= RecvWindow + Skew
    OBVIOUS
  <2>3. Flight'
    BY <1>1, <2>1, <2>2 DEF Send, WindowLeft, Inv, Flight, IdOf
  <2>4. Outcome'
    BY <1>1, <2>1 DEF Send, WindowLeft, Inv, Outcome
  <2>5. Windows'
    BY <1>1, <2>1, <2>2 DEF Send, WindowLeft, Inv, Windows
  <2> QED BY <2>3, <2>4, <2>5 DEF Inv
<1>2. CASE TimedOut
  <2>1. req.left = 0
    BY <1>2, TimeoutLasts DEF TimedOut, Inv, Flight, Windows
  <2>2. \A r \in stray' : r \in stray \/ r = req
    BY <1>2 DEF TimedOut
  <2>3. \A r \in stray' : r.id = 0 /\ r.left \in Nat
    BY <2>2 DEF Inv, Flight
  <2>4. resets' = 0 => \A r \in stray' : r.left = 0
    BY <1>2, <2>1, <2>2 DEF TimedOut, Inv, Windows
  <2>5. pc = "wait" /\ Fail /\ accepted' = accepted /\ resets' \in Nat
    BY <1>2 DEF TimedOut, Inv, Flight
  <2> QED BY <2>3, <2>4, <2>5, FailInv
<1>3. CASE Reset
  <2>1. \A r \in stray' : r \in stray \/ r = req
    BY <1>3 DEF Reset
  <2>2. \A r \in stray' : r.id = 0 /\ r.left \in Nat
    BY <2>1 DEF Inv, Flight
  <2>3. resets' \in Nat /\ resets' # 0
    BY <1>3 DEF Reset, Inv, Flight
  <2>4. pc = "wait" /\ Fail /\ accepted' = accepted
    BY <1>3 DEF Reset
  <2> QED BY <2>2, <2>3, <2>4, FailInv
<1>4. CASE AnswerLost
  <2>1. /\ pc = "wait" /\ Fail /\ accepted' = accepted
        /\ stray' = stray /\ resets' = resets
    BY <1>4 DEF AnswerLost
  <2> QED BY <2>1, FailInv DEF Inv, Flight, Windows
<1>5. CASE Answered
  <2>1. Flight'
    BY <1>5 DEF Answered, Inv, Flight, Record
  <2>2. Outcome'
    BY <1>5 DEF Answered, Inv, Outcome, Record, StatusOf
  <2>3. Windows'
    BY <1>5 DEF Answered, Inv, Windows, Record
  <2> QED BY <2>1, <2>2, <2>3 DEF Inv
<1>6. CASE Recover
  <2>1. Flight'
    BY <1>6 DEF Recover, Found, Inv, Flight, Record
  <2>2. Outcome'
    BY <1>6 DEF Recover, Found, Inv, Flight, Outcome, Record, IdOf
  <2>3. Windows'
    BY <1>6 DEF Recover, Found, Inv, Windows, Record
  <2> QED BY <2>1, <2>2, <2>3 DEF Inv
<1>7. CASE Arrive
  <2>1. PICK ans \in Answers : Process(req, ans) /\ req' = [req EXCEPT !.ans = ans]
    BY <1>7 DEF Arrive
  <2>2. req'.id = req.id /\ req'.left = req.left
    BY <2>1
  <2>3. accepted' \in {{}, {0}} /\ (accepted = {0} => accepted' = {0})
    BY <2>1 DEF Process, Inv, Flight
  <2>4. Flight'
    BY <1>7, <2>2, <2>3 DEF Arrive, Inv, Flight
  <2>5. req'.ans = "NEW" => accepted' = {0}
    BY <1>7, <2>1 DEF Arrive, Process, Inv, Flight, Outcome
  <2>6. Outcome'
    BY <1>7, <2>3, <2>5 DEF Arrive, Inv, Outcome
  <2>7. Windows'
    BY <1>7, <2>2 DEF Arrive, Inv, Windows
  <2> QED BY <2>4, <2>6, <2>7 DEF Inv
<1>8. CASE ArriveLate
  <2>1. PICK r \in stray : /\ \E ans \in Answers : Process(r, ans)
                           /\ stray' = stray \ {r}
    BY <1>8 DEF ArriveLate
  <2>2. accepted' \in {{}, {0}} /\ (accepted = {0} => accepted' = {0})
    BY <2>1 DEF Process, Inv, Flight
  <2>3. Flight'
    BY <1>8, <2>1, <2>2 DEF ArriveLate, client, Inv, Flight
  <2>4. Outcome'
    BY <1>8, <2>2 DEF ArriveLate, client, Inv, Outcome
  <2>5. Windows'
    BY <1>8, <2>1 DEF ArriveLate, client, Inv, Windows
  <2> QED BY <2>3, <2>4, <2>5 DEF Inv
<1>9. CASE Tick
  <2>1. /\ req'.id = req.id /\ req'.ans = req.ans /\ req'.left \in Nat
        /\ pc = "wait" => \/ req'.left = 0
                          \/ req'.left + 1 = req.left
    BY <1>9 DEF Tick, Older, Inv, Flight
  <2>2. \A r \in stray' : /\ r.id = 0 /\ r.left \in Nat
                          /\ resets = 0 => r.left = 0
    <3> SUFFICES ASSUME NEW q \in stray
                 PROVE  LET r == Older(q) IN /\ r.id = 0 /\ r.left \in Nat
                                             /\ resets = 0 => r.left = 0
      BY <1>9 DEF Tick
    <3> QED BY DEF Older, Inv, Flight, Windows
  <2>3. waited' \in Nat /\ (pc = "wait" => waited' = waited + 1)
    BY <1>9 DEF Tick, Inv, Flight
  <2>4. Flight'
    BY <1>9, <2>1, <2>2, <2>3 DEF Tick, Inv, Flight
  <2>5. Outcome'
    BY <1>9, <2>1 DEF Tick, Inv, Outcome
  <2>6. pc' = "wait" => req'.left = 0 \/ req'.left + waited' <= RecvWindow + Skew
    BY <1>9, <2>1, <2>3 DEF Tick, Inv, Flight, Windows
  <2>7. resets' = 0 => \A r \in stray' : r.left = 0
    BY <1>9, <2>2 DEF Tick, Inv, Windows
  <2> QED BY <2>4, <2>5, <2>6, <2>7 DEF Inv, Windows
<1>10. CASE UNCHANGED vars
  BY <1>10 DEF vars, client, Inv, Flight, Outcome, Windows
<1> QED BY <1>1, <1>2, <1>3, <1>4, <1>5, <1>6, <1>7, <1>8, <1>9, <1>10 DEF Next

LEMMA Invariance == Spec => []Inv
BY InitInv, StepInv, PTL DEF Spec

LEMMA CardinalityOf == Cardinality({}) = 0 /\ Cardinality({0}) = 1
BY FS_EmptySet, FS_Singleton

-----------------------------------------------------------------------------
Outside == <<Cardinality(accepted), state, resets > 0>>

(* A step in which the exchange accepts nothing, no connection breaks and the *)
(* outcome changes as the client may change it.                               *)
LEMMA Recording ==
  ASSUME Inv, Inv', accepted' = accepted, resets' = resets,
         state' = state \/ state = "none"
  PROVE  [Promise!Next]_Outside
<1> USE DEF Outside
<1>1. CASE state' = state
  BY <1>1
<1>2. CASE state' = "REJECTED" /\ state = "none"
  BY <1>2 DEF Promise!Next, Promise!GivenUp
<1>3. CASE state' = "PENDING" /\ state = "none"
  BY <1>3, CardinalityOf DEF Inv, Outcome, Promise!Next, Promise!Placed
<1> QED BY <1>1, <1>2, <1>3 DEF Inv, Outcome

LEMMA StepMaps ==
  ASSUME Inv, Inv', [Next]_vars
  PROVE  [Promise!Next]_Outside
<1>1. CASE Arrive
  <2>1. state' = state /\ resets' = resets /\ pc = "wait" /\ state = "none"
    BY <1>1 DEF Arrive, Inv, Outcome
  <2>2. accepted' = accepted \/ (accepted = {} /\ accepted' = {0})
    BY <1>1 DEF Arrive, Process, Inv, Flight
  <2> QED BY <2>1, <2>2, CardinalityOf DEF Outside, Promise!Next, Promise!Accept
<1>2. CASE ArriveLate
  <2>1. PICK r \in stray : \E ans \in Answers : Process(r, ans)
    BY <1>2 DEF ArriveLate
  <2>2. state' = state /\ resets' = resets
    BY <1>2 DEF ArriveLate, client
  <2>3. CASE resets = 0
    <3>1. r.left = 0
      BY <2>3 DEF Inv, Windows
    <3>2. accepted' = accepted
      BY <2>1, <3>1 DEF Process
    <3> QED BY <2>2, <3>2 DEF Outside
  <2>4. CASE resets > 0
    <3>1. accepted' = accepted \/ (accepted = {} /\ accepted' = {0})
      BY <2>1 DEF Process, Inv, Flight
    <3> QED BY <2>2, <2>4, <3>1, CardinalityOf DEF Outside, Promise!Next, Promise!Accept
  <2> QED BY <2>3, <2>4 DEF Inv, Flight
<1>3. CASE Reset
  <2>1. accepted' = accepted /\ state = "none" /\ resets' > 0
    BY <1>3 DEF Reset, Inv, Flight, Outcome
  <2>2. state' \in {"none", "REJECTED"}
    BY <1>3, <2>1 DEF Reset, Fail, Record
  <2> QED BY <2>1, <2>2 DEF Outside, Promise!Next, Promise!Break
<1>4. CASE Send \/ TimedOut \/ AnswerLost \/ Answered \/ Recover \/ Tick \/ UNCHANGED vars
  <2>1. accepted' = accepted /\ resets' = resets
    BY <1>4 DEF Send, WindowLeft, TimedOut, AnswerLost, Answered, Recover, Tick, vars
  <2>2. state' = state \/ pc \in {"wait", "recover"}
    BY <1>4 DEF Send, WindowLeft, TimedOut, AnswerLost, Answered, Recover, Tick, vars, client
  <2>3. state' = state \/ state = "none"
    BY <2>2 DEF Inv, Outcome
  <2> QED BY <2>1, <2>3, Recording
<1> QED BY <1>1, <1>2, <1>3, <1>4 DEF Next

(* submit_entry with its three retry loops implements EntryPlacement: one     *)
(* order at most, none any more after the outcome is recorded unless a        *)
(* connection broke under a travelling request, and a placed order is there.  *)
THEOREM PromiseKept == Spec => KeepsPromise
<1>1. Init => Promise!Init
  BY CardinalityOf DEF Init, Promise!Init
<1>2. Inv /\ Inv' /\ [Next]_vars => [Promise!Next]_Outside
  BY StepMaps
<1> QED BY <1>1, <1>2, Invariance, PTL DEF Spec, KeepsPromise, Promise!Spec, Outside
-----------------------------------------------------------------------------
(* Types.  A failed call leaves no request that is waited for.               *)
Tries == [place : 1..MaxPlace, call : 1..MaxCalls, biz : 1..MaxBiz]

LEMMA Positive ==
  /\ MaxPlace \in Nat \ {0} /\ MaxCalls \in Nat \ {0} /\ MaxBiz \in Nat \ {0}
  /\ 0 \in 0..MaxPlace /\ 1 \in 1..MaxPlace /\ 1 \in 1..MaxCalls /\ 1 \in 1..MaxBiz
<1>1. MaxPlace \in Nat \ {0} /\ MaxCalls \in Nat \ {0} /\ MaxBiz \in Nat \ {0}
  BY RetriesAssumption
<1> QED BY <1>1

LEMMA NoReqIsRequest == NoReq \in Request
BY TimesAssumption, Positive DEF NoReq, Request

LEMMA FailType ==
  ASSUME TypeOK, Fail
  PROVE  /\ pc' \in {"send", "wait", "recover", "done"} /\ try' \in Tries /\ signed' \in BOOLEAN
         /\ req' \in Request /\ waited' \in Nat /\ state' \in {"none", "PENDING", "REJECTED"}
<1> USE Positive
<1>1. try' \in Tries
  <2>1. try \in Tries
    BY DEF TypeOK, Tries
  <2>2. CASE ~LastCall
    <3> DEFINE c == IF try.call < MaxCalls THEN try.call + 1 ELSE try.call
    <3>1. try' = [try EXCEPT !.call = c, !.biz = 1]
      BY <2>2 DEF Fail
    <3>2. c \in 1..MaxCalls
      BY <2>1 DEF Tries
    <3> HIDE DEF c
    <3> QED BY <2>1, <3>1, <3>2 DEF Tries
  <2>3. CASE LastCall /\ try.place < MaxPlace
    <3>1. try' = [place |-> try.place + 1, call |-> 1, biz |-> 1]
      BY <2>3 DEF Fail
    <3> QED BY <2>1, <2>3, <3>1 DEF Tries
  <2>4. CASE LastCall /\ ~(try.place < MaxPlace)
    BY <2>1, <2>4 DEF Fail
  <2> QED BY <2>2, <2>3, <2>4
<1>2. req' \in Request /\ waited' \in Nat
  BY NoReqIsRequest DEF Fail
<1> QED BY <1>1, <1>2 DEF Fail, TypeOK, Record

LEMMA OlderIsRequest == ASSUME NEW r \in Request PROVE Older(r) \in Request
<1>1. r.left \in 0..(RecvWindow + Skew)
  BY DEF Request
<1>2. (IF r.left = 0 THEN 0 ELSE r.left - 1) \in 0..(RecvWindow + Skew)
  BY <1>1, TimesAssumption
<1> QED BY <1>2 DEF Older, Request

LEMMA StepType == TypeOK /\ [Next]_vars => TypeOK'
<1> SUFFICES ASSUME TypeOK, [Next]_vars PROVE TypeOK'
  OBVIOUS
<1>1. CASE Send
  <2>1. PICK left \in WindowLeft :
           req' = [id |-> 0, valid |-> ~signed, left |-> left, ans |-> "none"]
    BY <1>1 DEF Send, IdOf
  <2>2. left \in 0..(RecvWindow + Skew)
    BY TimesAssumption, SkewAssumption DEF WindowLeft
  <2>3. req' \in Request
    BY <2>1, <2>2, RetriesAssumption DEF Request, TypeOK
  <2> QED BY <1>1, <2>3 DEF Send, TypeOK
<1>2. CASE TimedOut \/ Reset \/ AnswerLost
  <2>1. Fail
    BY <1>2 DEF TimedOut, Reset, AnswerLost
  <2>2. stray' \subseteq Request
    BY <1>2 DEF TimedOut, Reset, AnswerLost, TypeOK
  <2>3. accepted' = accepted /\ resets' \in Nat /\ faults' \in Nat /\ blind' = blind
    BY <1>2 DEF TimedOut, Reset, AnswerLost, TypeOK
  <2> QED BY <2>1, <2>2, <2>3, FailType DEF TypeOK, Tries
<1>3. CASE Answered
  <2>1. try \in Tries
    BY DEF TypeOK, Tries
  <2>2. try' \in Tries
    <3>1. CASE try' = try
      BY <2>1, <3>1
    <3>2. CASE MoreBiz /\ try' = [try EXCEPT !.biz = @ + 1]
      BY <2>1, <3>2, RetriesAssumption DEF MoreBiz, Tries
    <3> QED BY <1>3, <3>1, <3>2 DEF Answered
  <2>3. /\ pc' \in {"send", "wait", "recover", "done"} /\ waited' \in Nat
        /\ state' \in {"none", "PENDING", "REJECTED"}
    BY <1>3 DEF Answered, TypeOK, Record, StatusOf
  <2>4. UNCHANGED <<signed, req, stray, accepted, resets, faults, blind>>
    BY <1>3 DEF Answered
  <2> QED BY <2>2, <2>3, <2>4 DEF TypeOK, Tries
<1>4. CASE Recover
  <2>1. blind' \in BOOLEAN
    BY <1>4, Zenon DEF Recover, TypeOK
  <2> QED BY <1>4, <2>1 DEF Recover, TypeOK, Record
<1>5. CASE Arrive
  <2>1. PICK ans \in Answers : Process(req, ans) /\ req' = [req EXCEPT !.ans = ans]
    BY <1>5 DEF Arrive
  <2>2. req' \in Request
    BY <2>1 DEF TypeOK, Request
  <2>3. accepted' \subseteq 0..MaxPlace
    BY <2>1 DEF Process, TypeOK, Request
  <2> QED BY <1>5, <2>2, <2>3 DEF Arrive, TypeOK
<1>6. CASE ArriveLate
  <2>1. PICK r \in stray : /\ \E ans \in Answers : Process(r, ans)
                           /\ stray' = stray \ {r}
    BY <1>6 DEF ArriveLate
  <2>2. r.id \in 0..MaxPlace
    BY <2>1 DEF TypeOK, Request
  <2>3. accepted' = accepted \/ accepted' = accepted \cup {r.id}
    BY <2>1 DEF Process
  <2>4. accepted' \subseteq 0..MaxPlace
    BY <2>2, <2>3 DEF TypeOK
  <2> QED BY <1>6, <2>1, <2>4 DEF ArriveLate, TypeOK, client
<1>7. CASE Tick
  <2>1. req' \in Request /\ stray' \subseteq Request
    BY <1>7, OlderIsRequest DEF Tick, TypeOK
  <2> QED BY <1>7, <2>1 DEF Tick, TypeOK
<1>8. CASE UNCHANGED vars
  BY <1>8 DEF vars, client, TypeOK
<1> QED BY <1>1, <1>2, <1>3, <1>4, <1>5, <1>6, <1>7, <1>8 DEF Next

(* Every reachable state of client, requests and exchange is type correct:   *)
(* no loop exceeds its bound, no request outlives its window.                *)
THEOREM PlacementTyped == Spec => []TypeOK
<1>1. Init => TypeOK
  <2> SUFFICES ASSUME Init PROVE TypeOK
    OBVIOUS
  <2>1. [place |-> 1, call |-> 1, biz |-> 1] \in [place : 1..MaxPlace, call : 1..MaxCalls, biz : 1..MaxBiz]
    BY Positive
  <2>2. signed \in BOOLEAN /\ blind \in BOOLEAN
    BY Zenon DEF Init
  <2>3. req \in Request /\ resets \in Nat /\ faults \in Nat /\ waited \in Nat
    BY NoReqIsRequest DEF Init
  <2>4. pc \in {"send", "wait", "recover", "done"} /\ state \in {"none", "PENDING", "REJECTED"}
    BY DEF Init
  <2> QED BY <2>1, <2>2, <2>3, <2>4 DEF Init, TypeOK
<1> QED BY <1>1, StepType, PTL DEF Spec

-----------------------------------------------------------------------------
(* The recovery.  Without broken connections nothing is accepted behind the  *)
(* client's back, so an answer that refuses the order, or a query that finds *)
(* none, stays true; and after a final answer to the contrary the order is   *)
(* not recorded as rejected.                                                 *)
Truthful ==
  /\ resets = 0 /\ req.ans = "refused" => accepted = {}
  /\ pc = "recover" => req.ans = "duplicate"
  /\ state = "REJECTED" => req.ans # "NEW"
  /\ resets = 0 /\ ~blind /\ state = "REJECTED" /\ req.ans = "duplicate" => accepted = {}

LEMMA InitTruthful == Init => Truthful
BY DEF Init, Truthful, NoReq

(* A stray request is not accepted, since its window is over.                *)
LEMMA StrayIsRefused ==
  ASSUME Inv, resets = 0, ArriveLate PROVE accepted' = accepted
BY DEF ArriveLate, Process, Inv, Windows

LEMMA StepTruthful == TypeOK /\ Inv /\ Truthful /\ [Next]_vars => Truthful'
<1> SUFFICES ASSUME TypeOK, Inv, Truthful, [Next]_vars PROVE Truthful'
  OBVIOUS
<1>1. CASE Send
  <2>1. req'.ans = "none" /\ pc' = "wait"
    BY <1>1 DEF Send
  <2> QED BY <2>1 DEF Truthful
<1>2. CASE TimedOut \/ Reset \/ AnswerLost
  <2>1. req'.ans = "none" /\ pc' \in {"send", "done"}
    BY <1>2 DEF TimedOut, Reset, AnswerLost, Fail, NoReq, Record, Inv, Flight
  <2> QED BY <2>1 DEF Truthful
<1>3. CASE Answered
  <2>1. UNCHANGED <<req, accepted, resets, blind>> /\ state = "none"
    BY <1>3 DEF Answered, Inv, Outcome
  <2>2. pc' = "recover" => req.ans = "duplicate"
    BY <1>3 DEF Answered, ToRecover, Record
  <2>3. state' = "REJECTED" => req.ans \notin {"NEW", "duplicate"}
    BY <1>3, <2>1 DEF Answered, ToRecover, Record, StatusOf
  <2> QED BY <2>1, <2>2, <2>3 DEF Truthful
<1>4. CASE Recover
  <2>1. UNCHANGED <<req, accepted, resets>> /\ req.ans = "duplicate" /\ pc' = "done"
    BY <1>4 DEF Recover, Record, Truthful
  <2>2. ~blind' /\ state' = "REJECTED" => accepted = {}
    BY <1>4 DEF Recover, Record, Found, IdOf, Inv, Flight
  <2> QED BY <2>1, <2>2 DEF Truthful
<1>5. CASE Arrive
  <2>1. PICK ans \in Answers : Process(req, ans) /\ req' = [req EXCEPT !.ans = ans]
    BY <1>5 DEF Arrive
  <2>2. ans = "refused" => accepted' = {}
    BY <2>1 DEF Process, Inv, Flight
  <2>3. state' = "none" /\ pc' = "wait"
    BY <1>5 DEF Arrive, Inv, Outcome
  <2>4. req'.ans = ans
    BY <2>1 DEF TypeOK, Request
  <2> QED BY <2>2, <2>3, <2>4 DEF Truthful
<1>6. CASE ArriveLate
  <2>1. resets = 0 => accepted' = accepted
    BY <1>6, StrayIsRefused
  <2> QED BY <1>6, <2>1 DEF ArriveLate, client, Truthful
<1>7. CASE Tick
  <2>1. req'.ans = req.ans
    BY <1>7 DEF Tick, Older
  <2> QED BY <1>7, <2>1 DEF Tick, Truthful
<1>8. CASE UNCHANGED vars
  BY <1>8 DEF vars, client, Truthful
<1> QED BY <1>1, <1>2, <1>3, <1>4, <1>5, <1>6, <1>7, <1>8 DEF Next

(* _recover_by_client_id: an answer that names a duplicate never ends in a   *)
(* rejection of an order that is on the exchange, as long as the query       *)
(* answers and no connection breaks under a travelling request.              *)
THEOREM DuplicatesAreRecovered == Spec => []DuplicateIsRecovered
<1>1. TypeOK /\ Truthful => DuplicateIsRecovered
  BY DEF TypeOK, Request, Answers, Truthful, DuplicateIsRecovered
<1> QED BY <1>1, InitInv, StepInv, InitTruthful, StepTruthful, PlacementTyped, PTL DEF Spec

=============================================================================
