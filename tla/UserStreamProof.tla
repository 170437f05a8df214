--------------------------- MODULE UserStreamProof ---------------------------
(* Proof that the key which the program holds always has a round to live,    *)
(* and that a socket which is up is served, for any number of keys and       *)
(* failures.                                                                 *)
EXTENDS UserStream, TLAPS

(* The key that is held is at least as fresh as the keep-alive thread needs  *)
(* it at the place where it is.                                              *)
Held(n) == listenKey = NoKey \/ rounds[listenKey] >= n

KeptInTime ==
  /\ keeper \in {"wait", "create"} => Held(Fresh)
  /\ keeper = "put" => listenKey = seen \/ Held(Fresh)

IInv == TypeOK /\ KeptInTime

LEMMA InitIInv == Init => IInv
  BY StreamAssumption DEF Init, IInv, TypeOK, KeptInTime, Held, Fresh, Dying

(* What both threads do under the lock: afterwards there is no key, the old  *)
(* one, or a fresh one.                                                      *)
LEMMA EnsureKeeps ==
  ASSUME IInv, Ensure
  PROVE  /\ rounds' \in [Keys -> 0..Fresh] /\ faults' \in 0..MaxFaults
         /\ listenKey' \in {k \in Keys : rounds'[k] > Dying} \cup {NoKey}
         /\ \/ listenKey' = listenKey /\ rounds' = rounds
            \/ listenKey' \in Keys /\ rounds'[listenKey'] = Fresh
<1> USE StreamAssumption DEF IInv, TypeOK, Ensure, Create, Fault, Fresh, Dying
<1>1. CASE listenKey # NoKey
  BY <1>1
<1>2. CASE listenKey = NoKey
  BY <1>2
<1> QED BY <1>1, <1>2

LEMMA StreamKeeps == IInv /\ Stream => IInv'
<1> SUFFICES ASSUME IInv, Stream PROVE IInv'
  OBVIOUS
<1> USE StreamAssumption DEF IInv, TypeOK, KeptInTime, Held, Fresh, Dying
<1>1. CASE EnsureKey
  BY <1>1, EnsureKeeps DEF EnsureKey
<1>2. CASE Url
  BY <1>2 DEF Url
<1>3. CASE Connect
  BY <1>3 DEF Connect, Fault
<1>4. CASE PingTimeout
  BY <1>4 DEF PingTimeout
<1>5. CASE OnExpired
  BY <1>5 DEF OnExpired
<1>6. CASE StreamForgets
  BY <1>6 DEF StreamForgets, Forget
<1>7. CASE StreamCreates
  BY <1>7, EnsureKeeps DEF StreamCreates
<1>8. CASE CloseSocket
  BY <1>8 DEF CloseSocket, AfterRefresh
<1> QED BY <1>1, <1>2, <1>3, <1>4, <1>5, <1>6, <1>7, <1>8 DEF Stream

LEMMA KeeperKeeps == IInv /\ Keeper => IInv'
<1> SUFFICES ASSUME IInv, Keeper PROVE IInv'
  OBVIOUS
<1> USE StreamAssumption DEF IInv, TypeOK, KeptInTime, Held, Fresh, Dying
<1>1. CASE ReadKey
  BY <1>1 DEF ReadKey
<1>2. CASE Put
  <2> DEFINE target == IF seen = NoKey THEN {k \in Keys : Live(k)} ELSE {seen} \cap {k \in Keys : Live(k)}
             extended(s) == [k \in Keys |-> IF k \in s THEN Fresh ELSE rounds[k]]
  <2>1. CASE target # {} /\ keeper' = "wait" /\ rounds' = extended(target) /\ UNCHANGED faults
    <3>1. listenKey # NoKey /\ listenKey = seen => listenKey \in target
      BY <1>2 DEF Put, Live
    <3>2. listenKey # NoKey => rounds'[listenKey] = Fresh
      BY <1>2, <2>1, <3>1 DEF Put
    <3> QED BY <1>2, <2>1, <3>2 DEF Put
  <2>2. CASE keeper' = "refresh" /\ UNCHANGED <<rounds, faults>>
    BY <1>2, <2>2 DEF Put
  <2>3. CASE Fault /\ keeper' = "refresh" /\ \E reached \in {{}, target} : rounds' = extended(reached)
    BY <1>2, <2>3 DEF Put, Fault
  <2> QED BY <1>2, <2>1, <2>2, <2>3 DEF Put, AfterPut
<1>3. CASE KeeperForgets
  BY <1>3 DEF KeeperForgets, Forget
<1>4. CASE KeeperCreates
  BY <1>4, EnsureKeeps DEF KeeperCreates
<1> QED BY <1>1, <1>2, <1>3, <1>4 DEF Keeper

LEMMA TimeKeeps == IInv /\ (Time \/ Break) => IInv'
<1> SUFFICES ASSUME IInv, Time \/ Break PROVE IInv'
  OBVIOUS
<1> USE StreamAssumption DEF IInv, TypeOK, KeptInTime, Held, Fresh, Dying
<1>1. CASE Round
  BY <1>1 DEF Round, Live
<1>2. CASE \E k \in Keys : Expire(k)
  BY <1>2 DEF Expire
<1>3. CASE Break
  BY <1>3 DEF Break, Fault
<1> QED BY <1>1, <1>2, <1>3 DEF Time

(* _refresh_listen_key, _keepalive_loop: no interleaving of the two threads  *)
(* and no failure of a request leaves the program with a key that is dead,   *)
(* or that may die before the keep-alive thread looks at it again.           *)
THEOREM KeyIsKept == Spec => []TypeOK
<1>1. IInv /\ [Next]_vars => IInv'
  <2>1. IInv /\ UNCHANGED vars => IInv'
    BY DEF IInv, TypeOK, KeptInTime, Held, vars
  <2> QED BY <2>1, StreamKeeps, KeeperKeeps, TimeKeeps DEF Next
<1>2. IInv => TypeOK
  BY DEF IInv
<1> QED BY InitIInv, <1>1, <1>2, PTL DEF Spec

-----------------------------------------------------------------------------
(* What the exchange tells.  A socket that is being opened has a key with    *)
(* more than its last round to live, or none; one that is up has a live key, *)
(* or none: a key that dies takes the socket that listens to it along.       *)
Opening == stream = "connect" => socket.key = NoKey \/ rounds[socket.key] > Dying

UpIsServed == socket.is = "up" => socket.key = NoKey \/ Live(socket.key)

SInv == TypeOK /\ Opening /\ UpIsServed

(* A request for a key leaves every key that a socket has as live as it was, *)
(* or makes it fresh: it is never one that died.                             *)
LEMMA EnsureRevives ==
  ASSUME TypeOK, Ensure, NEW k \in Keys
  PROVE  rounds'[k] = rounds[k] \/ rounds'[k] = Fresh
<1> USE StreamAssumption DEF TypeOK, Ensure, Create, Fault, Fresh
<1>1. CASE listenKey # NoKey
  BY <1>1
<1>2. CASE listenKey = NoKey
  BY <1>2
<1> QED BY <1>1, <1>2

LEMMA RevivedKeepsSocket ==
  ASSUME SInv, TypeOK', UNCHANGED socket, stream' = "connect" => stream = "connect",
         \A k \in Keys : rounds'[k] = rounds[k] \/ rounds'[k] = Fresh
  PROVE  SInv'
<1> USE StreamAssumption DEF SInv, TypeOK, Fresh, Dying
<1>1. Opening'
  BY DEF Opening
<1>2. UpIsServed'
  BY DEF UpIsServed, Live
<1> QED BY <1>1, <1>2

LEMMA StreamServes == SInv /\ TypeOK' /\ Stream => SInv'
<1> SUFFICES ASSUME SInv, TypeOK', Stream PROVE SInv'
  OBVIOUS
<1> USE StreamAssumption DEF SInv, TypeOK, Opening, UpIsServed, Live, Fresh, Dying
<1>1. CASE EnsureKey
  <2>1. stream' # "connect" /\ UNCHANGED socket
    BY <1>1 DEF EnsureKey
  <2>2. \A k \in Keys : rounds'[k] = rounds[k] \/ rounds'[k] = Fresh
    BY <1>1, EnsureRevives DEF EnsureKey
  <2> QED BY <2>1, <2>2, RevivedKeepsSocket
<1>2. CASE Url
  BY <1>2 DEF Url
<1>3. CASE Connect
  BY <1>3 DEF Connect, Fault
<1>4. CASE PingTimeout
  BY <1>4 DEF PingTimeout
<1>5. CASE OnExpired
  BY <1>5 DEF OnExpired
<1>6. CASE StreamForgets
  BY <1>6 DEF StreamForgets, Forget
<1>7. CASE StreamCreates
  <2>1. stream' # "connect" /\ UNCHANGED socket
    BY <1>7 DEF StreamCreates
  <2>2. \A k \in Keys : rounds'[k] = rounds[k] \/ rounds'[k] = Fresh
    BY <1>7, EnsureRevives DEF StreamCreates
  <2> QED BY <2>1, <2>2, RevivedKeepsSocket
<1>8. CASE CloseSocket
  BY <1>8 DEF CloseSocket, AfterRefresh
<1> QED BY <1>1, <1>2, <1>3, <1>4, <1>5, <1>6, <1>7, <1>8 DEF Stream

LEMMA KeeperServes == SInv /\ TypeOK' /\ Keeper => SInv'
<1> SUFFICES ASSUME SInv, TypeOK', Keeper PROVE SInv'
  OBVIOUS
<1>1. UNCHANGED <<stream, socket>>
  BY DEF Keeper, ReadKey, Put, KeeperForgets, KeeperCreates
<1>2. \A k \in Keys : rounds'[k] = rounds[k] \/ rounds'[k] = Fresh
  <2>1. CASE ReadKey \/ KeeperForgets
    BY <2>1 DEF ReadKey, KeeperForgets
  <2>2. CASE Put
    BY <2>2 DEF Put
  <2>3. CASE KeeperCreates
    BY <2>3, EnsureRevives DEF KeeperCreates, SInv
  <2> QED BY <2>1, <2>2, <2>3 DEF Keeper
<1> QED BY <1>1, <1>2, RevivedKeepsSocket

LEMMA TimeServes == SInv /\ TypeOK' /\ (Time \/ Break) => SInv'
<1> SUFFICES ASSUME SInv, TypeOK', Time \/ Break PROVE SInv'
  OBVIOUS
<1> USE StreamAssumption DEF SInv, TypeOK, Opening, UpIsServed, Live, Fresh, Dying
<1>1. CASE Round
  BY <1>1 DEF Round
<1>2. CASE \E k \in Keys : Expire(k)
  <2>1. PICK k \in Keys : Expire(k)
    BY <1>2
  <2>2. CASE socket.key = k
    BY <2>1, <2>2 DEF Expire
  <2>3. CASE socket.key # k
    BY <2>1, <2>3 DEF Expire
  <2> QED BY <2>2, <2>3
<1>3. CASE Break
  BY <1>3 DEF Break, Fault
<1> QED BY <1>1, <1>2, <1>3 DEF Time

(* The safety half of PushesReturn: however the two threads replace the key  *)
(* under each other, a socket that counts as up is one that the exchange     *)
(* serves, unless ws_url gave it no key at all: it never waits in silence    *)
(* at a key that has died.                                                   *)
THEOREM UpSocketIsServed == Spec => []UpIsServed
<1>1. Init => SInv
  BY StreamAssumption, InitIInv DEF Init, IInv, SInv, Opening, UpIsServed
<1>2. SInv /\ TypeOK' /\ [Next]_vars => SInv'
  <2>1. SInv /\ UNCHANGED vars => SInv'
    BY DEF SInv, TypeOK, Opening, UpIsServed, Live, vars
  <2> QED BY <2>1, StreamServes, KeeperServes, TimeServes DEF Next
<1>3. SInv => UpIsServed
  BY DEF SInv
<1> QED BY <1>1, <1>2, <1>3, KeyIsKept, PTL DEF Spec

=============================================================================
