----------------------------- MODULE UserStream -----------------------------
(***************************************************************************)
(* UserDataStream: the thread that holds the socket on which the exchange  *)
(* pushes orders and balances, the thread that keeps the listen key alive, *)
(* and the exchange, which serves a socket for as long as its key lives.   *)
(*                                                                         *)
(* A key lives for 60 minutes from its last extension.  Time is counted in *)
(* rounds of the keep-alive thread, of 30 minutes.  A key that has seen    *)
(* two rounds since then expires before the third.  stop() is left out:    *)
(* the process ends with it.                                               *)
(***************************************************************************)
EXTENDS Naturals, FiniteSets

CONSTANTS
  Keys,      \* listen keys
  NoKey,     \* None
  MaxFaults  \* bound: failed requests and broken connections

ASSUME StreamAssumption == NoKey \notin Keys /\ MaxFaults \in Nat

VARIABLES
  listenKey,  \* _listen_key
  stream,     \* the thread _run_ws
  seen,       \* _keepalive_loop: the key that it read
  keeper,     \* _keepalive_loop: where it is
  socket,     \* the connection: the key in its URL; "up", "expired" when the exchange
              \*   has sent listenKeyExpired, "broken" or "closed"
  rounds,     \* exchange: the rounds that each key may still see; 0 when it is dead
  faults

vars == <<listenKey, stream, seen, keeper, socket, rounds, faults>>

Fresh   == 3
Dying   == 1
Live(k) == k \in Keys /\ rounds[k] > 0

(* The key that the program holds, and will open its next socket with, has   *)
(* at least a round to live, whichever of its two threads replaced it, and   *)
(* whichever requests failed.                                                *)
TypeOK ==
  /\ listenKey \in {k \in Keys : rounds[k] > Dying} \cup {NoKey}
  /\ stream \in {"ensure", "url", "connect", "open", "refresh", "create", "close"}
  /\ keeper \in {"wait", "read", "put", "refresh", "create"}
  /\ seen \in Keys \cup {NoKey}
  /\ socket \in [key : Keys \cup {NoKey}, is : {"up", "expired", "broken", "closed"}]
  /\ rounds \in [Keys -> 0..Fresh]
  /\ faults \in 0..MaxFaults

Init ==
  /\ listenKey = NoKey /\ seen = NoKey
  /\ stream = "ensure" /\ keeper = "wait"
  /\ socket = [key |-> NoKey, is |-> "closed"]
  /\ rounds = [k \in Keys |-> 0]
  /\ faults = 0

Fault == faults < MaxFaults /\ faults' = faults + 1

-----------------------------------------------------------------------------
(* The exchange. *)

(* A request for a key: it gives a new one, or extends one that lives. *)
Given(k) == Live(k) \/ k \notin {listenKey, seen, socket.key}

(* The requests. *)

(* create_listen_key: None if it fails. *)
Create ==
  \/ \E k \in Keys :
       /\ Given(k) /\ listenKey' = k /\ rounds' = [rounds EXCEPT ![k] = Fresh]
       /\ UNCHANGED faults
  \/ Fault /\ UNCHANGED <<listenKey, rounds>>

(* _ensure_listen_key, which holds the lock over the request. *)
Ensure == IF listenKey # NoKey THEN UNCHANGED <<listenKey, rounds, faults>> ELSE Create

Forget == listenKey' = NoKey

-----------------------------------------------------------------------------
(* _run_ws; it has waited for RECONNECT_DELAY if it comes from a failure. *)
EnsureKey ==
  /\ stream = "ensure" /\ Ensure
  /\ stream' = IF listenKey' = NoKey THEN "ensure" ELSE "url"
  /\ UNCHANGED <<seen, keeper, socket>>

(* ws_url. *)
Url ==
  /\ stream = "url" /\ stream' = "connect"
  /\ socket' = [key |-> listenKey, is |-> "closed"]
  /\ UNCHANGED <<listenKey, seen, keeper, rounds, faults>>

(* run_forever connects, or fails.  The exchange takes any name in the URL,  *)
(* "pending" too, and has nothing to push for it.                            *)
Connect ==
  /\ stream = "connect"
  /\ \/ stream' = "open" /\ socket' = [socket EXCEPT !.is = "up"] /\ UNCHANGED faults
     \/ stream' = "ensure" /\ Fault /\ UNCHANGED socket
  /\ UNCHANGED <<listenKey, seen, keeper, rounds>>

(* The connection breaks; the ping notices, and run_forever returns. *)
Break ==
  /\ socket.is \in {"up", "expired"} /\ Fault
  /\ socket' = [socket EXCEPT !.is = "broken"]
  /\ UNCHANGED <<listenKey, stream, seen, keeper, rounds>>

PingTimeout ==
  /\ stream = "open" /\ socket.is = "broken"
  /\ stream' = "ensure" /\ socket' = [socket EXCEPT !.is = "closed"]
  /\ UNCHANGED <<listenKey, seen, keeper, rounds, faults>>

(* _on_message with listenKeyExpired: _refresh_listen_key, in two critical   *)
(* sections, and the socket is closed.                                       *)
OnExpired ==
  /\ stream = "open" /\ socket.is = "expired" /\ stream' = "refresh"
  /\ UNCHANGED <<listenKey, seen, keeper, socket, rounds, faults>>

StreamForgets ==
  /\ stream = "refresh" /\ Forget /\ stream' = "create"
  /\ UNCHANGED <<seen, keeper, socket, rounds, faults>>

StreamCreates ==
  /\ stream = "create" /\ Ensure /\ stream' = "close"
  /\ UNCHANGED <<seen, keeper, socket>>

(* Mutant: the socket is left open, as it was before. *)
AfterRefresh_Stays == [stream |-> "open", is |-> "up"]
AfterRefresh == [stream |-> "ensure", is |-> "closed"]

CloseSocket ==
  /\ stream = "close"
  /\ stream' = AfterRefresh.stream /\ socket' = [socket EXCEPT !.is = AfterRefresh.is]
  /\ UNCHANGED <<listenKey, seen, keeper, rounds, faults>>

-----------------------------------------------------------------------------
(* _keepalive_loop. *)

ReadKey ==
  /\ keeper = "read" /\ keeper' = "put" /\ seen' = listenKey
  /\ UNCHANGED <<listenKey, stream, socket, rounds, faults>>

(* Mutant: a keep-alive that failed is not followed by a new key. *)
AfterPut_Waits(ok) == "wait"
AfterPut(ok) == IF ok THEN "wait" ELSE "refresh"

(* keepalive_listen_key.  Without a key it names none, and extends what      *)
(* lives, if anything does.  An answer that is lost counts as a failure.     *)
Put ==
  /\ keeper = "put"
  /\ LET target == IF seen = NoKey THEN {k \in Keys : Live(k)} ELSE {seen} \cap {k \in Keys : Live(k)} IN
     \/ /\ target # {} /\ keeper' = AfterPut(TRUE)
        /\ rounds' = [k \in Keys |-> IF k \in target THEN Fresh ELSE rounds[k]]
        /\ UNCHANGED faults
     \/ target = {} /\ keeper' = AfterPut(FALSE) /\ UNCHANGED <<rounds, faults>>
     \/ /\ Fault /\ keeper' = AfterPut(FALSE)
        /\ \E reached \in {{}, target} : rounds' = [k \in Keys |-> IF k \in reached THEN Fresh ELSE rounds[k]]
  /\ seen' = NoKey
  /\ UNCHANGED <<listenKey, stream, socket>>

KeeperForgets ==
  /\ keeper = "refresh" /\ Forget /\ keeper' = "create"
  /\ UNCHANGED <<stream, seen, socket, rounds, faults>>

KeeperCreates ==
  /\ keeper = "create" /\ Ensure /\ keeper' = "wait"
  /\ UNCHANGED <<stream, seen, socket>>

-----------------------------------------------------------------------------
(* A round ends: the threads are long through with what they were doing,     *)
(* and a key that was due has expired.                                       *)
Round ==
  /\ keeper = "wait" /\ keeper' = "read"
  /\ stream = "ensure" \/ (stream = "open" /\ socket.is = "up")
  /\ \A k \in Keys : rounds[k] # Dying
  /\ rounds' = [k \in Keys |-> IF Live(k) THEN rounds[k] - 1 ELSE 0]
  /\ UNCHANGED <<listenKey, stream, seen, socket, faults>>

(* A key expires, and a socket that listens to it is told. *)
Expire(k) ==
  /\ rounds[k] = Dying /\ rounds' = [rounds EXCEPT ![k] = 0]
  /\ socket' = IF socket.key = k /\ socket.is = "up" THEN [socket EXCEPT !.is = "expired"] ELSE socket
  /\ UNCHANGED <<listenKey, stream, seen, keeper, faults>>

Stream == EnsureKey \/ Url \/ Connect \/ PingTimeout \/ OnExpired \/ StreamForgets \/ StreamCreates \/ CloseSocket
Keeper == ReadKey \/ Put \/ KeeperForgets \/ KeeperCreates
Time   == Round \/ \E k \in Keys : Expire(k)

Next == Stream \/ Keeper \/ Time \/ Break

Spec == Init /\ [][Next]_vars

(* Both threads run, and time passes.  Connections and requests fail as      *)
(* often as the bound allows.                                                *)
FairSpec == Spec /\ WF_vars(Stream) /\ WF_vars(Keeper) /\ WF_vars(Time)

-----------------------------------------------------------------------------
(* The pushes come back for good once the failures end, whichever thread     *)
(* replaced the key of the socket meanwhile: a key that is replaced while    *)
(* its socket stays open expires, and the socket is then opened with the     *)
(* other.  But a socket that was opened without a key, because the key was   *)
(* dropped between _ensure_listen_key and ws_url, is never told.             *)
Served == stream = "open" /\ socket.is = "up" /\ Live(socket.key)

PushesReturn == <>[]Served \/ <>[](stream = "open" /\ socket = [key |-> NoKey, is |-> "up"])
=============================================================================
