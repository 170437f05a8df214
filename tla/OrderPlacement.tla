--------------------------- MODULE OrderPlacement ---------------------------
(***************************************************************************)
(* How one entry order reaches the exchange: three nested retry loops.     *)
(*                                                                         *)
(*   OrderManager._place_with_retry   "place"  a new gateway.place_order   *)
(*   retrier around _request          "call"   after a failed HTTP call    *)
(*   the loop in _request             "biz"    after a 429 or -1021 answer *)
(*                                                                         *)
(* A request travels until the exchange processes it, which it accepts to  *)
(* do until recvWindow after the timestamp.  The client gives up waiting   *)
(* at its own timeout, or at once when the connection breaks or a proxy    *)
(* answers in its place; the request may still be travelling then.         *)
(* Time is counted in ticks.                                               *)
(***************************************************************************)
EXTENDS Naturals, FiniteSets

CONSTANTS
  MaxPlace,    \* OrderManager.max_retries
  MaxCalls,    \* max_retries of the retrier around _request
  MaxBiz,      \* OrderGateway.retry_business_errors
  RecvWindow,  \* RECV_WINDOW
  Margin,      \* what the HTTP timeout adds to it
  MinTimeout,  \* least HTTP timeout
  Skew,        \* largest clock error that _sync_server_time leaves
  MaxResets,   \* bound: connections broken while the request travels
  MaxFaults    \* bound: answers lost, queries failed

ASSUME RetriesAssumption == {MaxPlace, MaxCalls, MaxBiz} \subseteq Nat \ {0}
ASSUME TimesAssumption   == {RecvWindow, Margin, MinTimeout, Skew} \subseteq Nat
ASSUME SkewAssumption    == Skew <= Margin /\ Skew <= RecvWindow

VARIABLES
  pc,        \* the client: "send", "wait", "recover", "done"
  try,       \* number of the current try in each of the three loops
  signed,    \* does params, shared by the tries of one place_order, hold a signature?
  req,       \* the request the client waits for, and the answer on its way back
  waited,    \* ticks since it was sent
  stray,     \* travelling requests that nobody waits for
  accepted,  \* exchange: client ids of the orders it accepted
  state,     \* local order state: "none", "PENDING", "REJECTED"
  resets, faults,  \* what the bounds count
  blind      \* history: did the query of the recovery fail?

client == <<pc, try, signed, req, waited, state>>
vars   == <<client, stray, accepted, resets, faults, blind>>

Answers == {"NEW", "duplicate", "refused", "-1021", "-1022", "429"}
NoReq   == [id |-> 0, valid |-> FALSE, left |-> 0, ans |-> "none"]
Request == [id : 0..MaxPlace, valid : BOOLEAN, left : 0..(RecvWindow + Skew),
            ans : Answers \cup {"none"}]

TypeOK ==
  /\ pc \in {"send", "wait", "recover", "done"}
  /\ try \in [place : 1..MaxPlace, call : 1..MaxCalls, biz : 1..MaxBiz]
  /\ signed \in BOOLEAN
  /\ req \in Request
  /\ waited \in Nat
  /\ stray \subseteq Request
  /\ accepted \subseteq 0..MaxPlace
  /\ state \in {"none", "PENDING", "REJECTED"}
  /\ resets \in Nat /\ faults \in Nat
  /\ blind \in BOOLEAN

Init ==
  /\ pc = "send"
  /\ try = [place |-> 1, call |-> 1, biz |-> 1]
  /\ signed = FALSE
  /\ req = NoReq
  /\ waited = 0
  /\ stray = {}
  /\ accepted = {}
  /\ state = "none"
  /\ resets = 0 /\ faults = 0
  /\ blind = FALSE

(* newClientOrderId: the same for every try. *)
IdOf(place) == 0

Timeout_Short == 1   \* mutant
Timeout == IF MinTimeout > RecvWindow + Margin THEN MinTimeout ELSE RecvWindow + Margin

-----------------------------------------------------------------------------
(* The client. *)

(* _sync_server_time: what is left of the window on arrival, as the clock of *)
(* the exchange has it.  An offset beyond the limit is not taken over, and a *)
(* failed synchronisation leaves the last one.                               *)
WindowLeft == (RecvWindow - Skew)..(RecvWindow + Skew)

(* _request stamps and signs params.  A signature that is still in params    *)
(* from the try before is signed with the rest, and so the new one is wrong. *)
Send ==
  /\ pc = "send"
  /\ \E left \in WindowLeft :
       req' = [id |-> IdOf(try.place), valid |-> ~signed, left |-> left, ans |-> "none"]
  /\ signed' = TRUE
  /\ waited' = 0
  /\ pc' = "wait"
  /\ UNCHANGED <<try, stray, accepted, state, resets, faults, blind>>

(* submit_entry records the outcome. *)
Record(s) == pc' = "done" /\ state' = s

LastCall_Never == FALSE   \* mutant
LastCall == try.call = MaxCalls

(* The HTTP call has failed with an exception. *)
Fail ==
  /\ req' = NoReq
  /\ waited' = 0
  /\ IF ~LastCall
     THEN /\ try' = [try EXCEPT !.call = IF @ < MaxCalls THEN @ + 1 ELSE @, !.biz = 1]
          /\ pc' = "send"
          /\ UNCHANGED <<signed, state>>
     ELSE IF try.place < MaxPlace
     THEN /\ try' = [place |-> try.place + 1, call |-> 1, biz |-> 1]
          /\ signed' = FALSE
          /\ pc' = "send"
          /\ UNCHANGED state
     ELSE /\ Record("REJECTED")
          /\ UNCHANGED <<try, signed>>

TimedOut ==
  /\ pc = "wait"
  /\ waited >= Timeout
  /\ stray' = IF req.ans = "none" THEN stray \cup {req} ELSE stray
  /\ Fail
  /\ UNCHANGED <<accepted, resets, faults, blind>>

(* The connection breaks, or a proxy answers, while the request travels. *)
Reset ==
  /\ pc = "wait"
  /\ req.ans = "none"
  /\ resets < MaxResets
  /\ resets' = resets + 1
  /\ stray' = stray \cup {req}
  /\ Fail
  /\ UNCHANGED <<accepted, faults, blind>>

(* The answer is lost on its way back: a 5xx, no JSON, a broken connection. *)
AnswerLost ==
  /\ pc = "wait"
  /\ req.ans # "none"
  /\ faults < MaxFaults
  /\ faults' = faults + 1
  /\ Fail
  /\ UNCHANGED <<stray, accepted, resets, blind>>

(* _is_business_retryable *)
Retryable(ans) == ans \in {"429", "-1021"}

(* An answer without a status is a rejection. *)
StatusOf(ans) == IF ans = "NEW" THEN "PENDING" ELSE "REJECTED"

(* -2010 and -2011: the client id may be taken by an earlier try. *)
ToRecover_Never(ans) == FALSE   \* mutant
ToRecover(ans) == ans = "duplicate"

MoreBiz_OffByOne == try.biz <= MaxBiz   \* mutant
MoreBiz == try.biz < MaxBiz

Answered ==
  /\ pc = "wait"
  /\ req.ans # "none"
  /\ IF Retryable(req.ans) /\ MoreBiz
     THEN /\ try' = [try EXCEPT !.biz = @ + 1]
          /\ pc' = "send"
          /\ UNCHANGED state
     ELSE IF ToRecover(req.ans)
     THEN pc' = "recover" /\ UNCHANGED <<try, state>>
     ELSE Record(StatusOf(req.ans)) /\ UNCHANGED try
  /\ waited' = 0
  /\ UNCHANGED <<signed, req, stray, accepted, resets, faults, blind>>

(* query_order_by_client_id *)
Found == IdOf(try.place) \in accepted

(* _recover_by_client_id: the query finds the order or not, or fails. *)
Recover ==
  /\ pc = "recover"
  /\ \/ /\ Record(IF Found THEN "PENDING" ELSE "REJECTED")
        /\ UNCHANGED <<faults, blind>>
     \/ /\ faults < MaxFaults
        /\ faults' = faults + 1
        /\ blind' = TRUE
        /\ Record("REJECTED")
  /\ UNCHANGED <<try, signed, req, waited, stray, accepted, resets>>

-----------------------------------------------------------------------------
(* The exchange. *)

(* It answers request r with ans.  Duplicates and orders refused for other   *)
(* reasons have the same code.                                               *)
Process(r, ans) ==
  \/ ans = "429" /\ UNCHANGED accepted
  \/ ans = "-1021" /\ r.left = 0 /\ UNCHANGED accepted
  \/ ans = "-1022" /\ ~r.valid /\ UNCHANGED accepted
  \/ /\ r.left > 0 /\ r.valid
     /\ \/ ans \in {"refused", "duplicate"} /\ r.id \notin accepted /\ UNCHANGED accepted
        \/ ans = "duplicate" /\ r.id \in accepted /\ UNCHANGED accepted
        \/ ans = "NEW" /\ r.id \notin accepted /\ accepted' = accepted \cup {r.id}

Arrive ==
  /\ pc = "wait" /\ req.ans = "none"
  /\ \E ans \in Answers : Process(req, ans) /\ req' = [req EXCEPT !.ans = ans]
  /\ UNCHANGED <<pc, try, signed, waited, stray, state, resets, faults, blind>>

ArriveLate ==
  /\ \E r \in stray : /\ \E ans \in Answers : Process(r, ans)
                      /\ stray' = stray \ {r}
  /\ UNCHANGED <<client, resets, faults, blind>>

Older(r) == [r EXCEPT !.left = IF @ = 0 THEN 0 ELSE @ - 1]

(* Time passes for the client that waits and for every travelling request. *)
Tick ==
  /\ \/ pc = "wait" /\ waited < Timeout
     \/ pc # "wait" /\ \E r \in stray : r.left > 0
  /\ waited' = IF pc = "wait" THEN waited + 1 ELSE waited
  /\ req' = IF pc = "wait" THEN Older(req) ELSE req
  /\ stray' = {Older(r) : r \in stray}
  /\ UNCHANGED <<pc, try, signed, accepted, state, resets, faults, blind>>

Next == \/ Send \/ TimedOut \/ Reset \/ AnswerLost \/ Answered \/ Recover
        \/ Arrive \/ ArriveLate \/ Tick

Spec == Init /\ [][Next]_vars

(* submit_entry runs to its end, and time passes while it waits. *)
FairSpec == Spec /\ WF_vars(Send \/ TimedOut \/ Answered \/ Recover) /\ WF_vars(Tick)

-----------------------------------------------------------------------------
(* submit_entry keeps to EntryPlacement: the HTTP timeout outlasts the window *)
(* in which the exchange accepts the request, so that only a connection that *)
(* breaks under a travelling request lets an order be accepted after the     *)
(* outcome is recorded; and what is recorded as placed is there.             *)
Promise ==
  INSTANCE EntryPlacement
    WITH orders <- Cardinality(accepted), outcome <- state, broken <- resets > 0
KeepsPromise == Promise!Spec

(* The recovery by client id works (_recover_by_client_id): an order that is *)
(* on the exchange is recorded as rejected only after an answer that hides   *)
(* it, or none, or a failed query; never after one that names a duplicate.   *)
DuplicateIsRecovered ==
  state = "REJECTED" /\ accepted # {} /\ resets = 0 /\ ~blind =>
    req.ans \in {"none", "429", "-1021", "-1022"}

(* The retries end (with every loop's bound) and an outcome is recorded.     *)
Ends == <>(pc = "done")

-----------------------------------------------------------------------------
(* A statement of the repository that the code does not keep: after a lost   *)
(* answer the real order is found instead of being judged failed             *)
(* (order_manager.py:314-315, submit_entry), so a rejected order is not on   *)
(* the exchange.                                                             *)
RejectedIsNotPlaced == state = "REJECTED" => accepted = {}
=============================================================================
