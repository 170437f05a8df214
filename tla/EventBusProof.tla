--------------------------- MODULE EventBusProof ---------------------------
(* Proofs about EventBus, for any number of messages, faults and batches:    *)
(* what a consumer holds follows from the last message.                      *)
EXTENDS EventBus, FiniteSetTheorems, SequenceTheorems, WellFoundedInduction, TLAPS

(* A thread that is down or idle has nothing at hand, the group is empty     *)
(* until it is created, and what is at hand does not count as idle.          *)
Shape ==
  /\ group \in [made : BOOLEAN, last : Nat, pending : SUBSET Nat, idle : SUBSET Nat]
  /\ th \in [pc : {"down", "poll", "claim"}, todo : SUBSET Nat, done : BOOLEAN]
  /\ {first, base, replayed} \subseteq Nat

Hands ==
  /\ ~group.made => group.last = 0 /\ group.pending = {} /\ first = 0 /\ base = 0
  /\ th.todo \cap group.idle = {}
  /\ th.pc = "claim" => group.made
  /\ \A i \in left : i <= group.last
  /\ th.done => th.todo # {}
  /\ th.pc = "down" => th.todo = {}
  /\ base <= group.last /\ replayed <= Len(log)

(* What is pending and not at hand was left over.  What is at hand and was   *)
(* never left over was published since the process started, and everything   *)
(* given out after it is at hand too: it is delivered in order.              *)
InOrder ==
  /\ group.pending \ th.todo \subseteq left
  /\ \A i \in th.todo \ left : i > base /\ i..group.last \subseteq th.todo \ left

(* The archives: what the group has given out is kept, failed, or pending.   *)
Kept(id) == Belongs(id) => id \in state \cup failed

Archived ==
  who \in Archives =>
    /\ \A id \in (first + 1)..group.last : Kept(id) \/ id \in group.pending
    /\ th.done => Kept(Least(th.todo))

(* The other two: as long as nothing but the last message was ever left      *)
(* over, the state follows from the latest message that this life of the     *)
(* process has handled; and before there is one, from the replay.            *)
Clean   == \A id \in left : id >= Len(log)
Told(i) == i \notin th.todo \/ i \in left \/ (th.done /\ i = Least(th.todo))
Latest(i) == Told(i) /\ \A j \in (i + 1)..group.last : ~Told(j)
Shows(i)  == who = "panel" \/ (who = "runner" /\ log[i] \in {"emergency_stop", "pause"})
Mine      == (base + 1)..group.last   \* given out in this life

Follows ==
  th.pc # "down" /\ Clean =>
    /\ \A i \in Mine : Latest(i) /\ Shows(i) => state = log[i]
    /\ (who = "panel" /\ log # <<>> /\ replayed = Len(log) /\ \A i \in Mine : ~Told(i)) =>
          state = log[Len(log)]

Inv == TypeOK /\ Shape /\ Hands /\ InOrder /\ Archived /\ Follows

-----------------------------------------------------------------------------
(* What Least and Take give. *)
LEMMA LeastIsLeast ==
  ASSUME NEW S, S \subseteq Nat, S # {}
  PROVE  Least(S) \in S /\ \A j \in S : Least(S) <= j
<1>1. PICK x \in S : \A y \in S : ~(<<y, x>> \in OpToRel(<, Nat))
  BY NatLessThanWellFounded, WFMin
<1>2. ASSUME NEW y \in S PROVE x <= y
  <2>1. ~(y < x)
    BY <1>1 DEF OpToRel
  <2> QED BY <2>1
<1> QED BY <1>2 DEF Least

LEMMA TakeIsPart == \A S : Take(S) \subseteq S
BY DEF Take

(* A batch of what has not been given out is the next few messages. *)
LEMMA TakeNext ==
  ASSUME NEW a \in Nat, NEW b \in Nat, a <= b
  PROVE  \E c \in a..b : Take((a + 1)..b) = (a + 1)..c /\ Cardinality(Take((a + 1)..b)) = c - a
<1>0. Batch \in Nat
  BY BusAssumption
<1> DEFINE c == IF a + Batch <= b THEN a + Batch ELSE b
<1>1. c \in a..b
  BY <1>0
<1>2. ASSUME NEW id \in (a + 1)..b
      PROVE  Cardinality({other \in (a + 1)..b : other < id}) < Batch <=> id <= c
  <2>1. {other \in (a + 1)..b : other < id} = (a + 1)..(id - 1)
    OBVIOUS
  <2>2. Cardinality((a + 1)..(id - 1)) = id - 1 - a
    BY FS_Interval
  <2>3. id - 1 - a < Batch <=> id <= c
    BY <1>0
  <2> HIDE DEF c
  <2> QED BY <2>1, <2>2, <2>3
<1>3. Take((a + 1)..b) = (a + 1)..c
  BY <1>1, <1>2 DEF Take
<1>4. Cardinality((a + 1)..c) = c - a
  <2> HIDE DEF c
  <2>1. c \in Int /\ a + 1 \in Int
    BY <1>1
  <2>2. Cardinality((a + 1)..c) = IF a + 1 > c THEN 0 ELSE c - (a + 1) + 1
    BY <2>1, FS_Interval
  <2> QED BY <1>1, <2>1, <2>2
<1> QED BY <1>1, <1>3, <1>4

-----------------------------------------------------------------------------
LEMMA InitInv == Init => Inv
<1> SUFFICES ASSUME Init PROVE Inv
  OBVIOUS
<1>1. group \in [made : BOOLEAN, last : Nat, pending : SUBSET Nat, idle : SUBSET Nat]
  BY DEF Init
<1>2. th \in [pc : {"down", "poll", "claim"}, todo : SUBSET Nat, done : BOOLEAN]
  BY DEF Init, Down
<1>3. th.pc = "down" /\ th.todo = {} /\ ~th.done
  BY DEF Init, Down
<1>4. Shape /\ Hands /\ InOrder
  BY <1>1, <1>2, <1>3 DEF Init, Shape, Hands, InOrder
<1>5. TypeOK
  BY <1>1, <1>2, <1>3, BusAssumption DEF Init, TypeOK, Start, Consumers, Archives
<1> QED BY <1>3, <1>4, <1>5 DEF Inv, Archived, Follows, Init
-----------------------------------------------------------------------------
LEMMA Facts ==
  ASSUME Inv
  PROVE  /\ MaxMessages \in Nat /\ Len(log) \in Nat /\ Len(log) <= MaxMessages
         /\ group.last \in Nat /\ first \in Nat /\ base \in Nat /\ replayed \in Nat
         /\ first <= group.last /\ group.last <= Len(log)
         /\ th.todo \subseteq (first + 1)..group.last /\ th.todo \subseteq Nat /\ th.todo \subseteq Ids
         /\ group.pending \subseteq Nat /\ left \subseteq Nat
<1>1. MaxMessages \in Nat /\ Len(log) \in Nat /\ Len(log) <= MaxMessages
  BY BusAssumption, LenProperties DEF Inv, TypeOK
<1>2. /\ group.last \in Nat /\ first \in Nat /\ base \in Nat /\ replayed \in Nat
      /\ th.todo \subseteq Nat /\ group.pending \subseteq Nat
  BY DEF Inv, Shape
<1>3. group.last \in first..Len(log) /\ th.todo \subseteq (first + 1)..group.last
  BY DEF Inv, TypeOK
<1>4. left \subseteq Nat
  BY DEF Inv, TypeOK, Ids
<1> QED BY <1>1, <1>2, <1>3, <1>4 DEF Ids

(* Steps that hand nothing to the handler. *)
LEMMA FollowsKept ==
  ASSUME Inv, UNCHANGED <<who, log, base, replayed>>, group'.last = group.last,
         th'.pc # "down" => th.pc # "down", left \subseteq left',
         \A i \in Mine : Told(i)' <=> Told(i),
         state' = state \/ (who = "runner" /\ state = "none")
  PROVE  Follows'
<1>1. Mine' = Mine /\ (Clean' => Clean)
  BY DEF Mine, Clean
<1>2. ASSUME NEW i \in Mine, Latest(i)' PROVE Latest(i)
  <2>1. \A j \in (i + 1)..group.last : j \in Mine
    BY Facts DEF Mine
  <2> QED BY <1>2, <2>1 DEF Latest
<1>3. \A i \in Mine : Shows(i)' <=> Shows(i)
  BY DEF Shows
<1>4. ASSUME NEW i \in Mine, Shows(i), state = log[i] PROVE state' = state
  BY <1>4 DEF Shows
<1> QED BY <1>1, <1>2, <1>3, <1>4 DEF Follows, Inv

LEMMA ArchivedKept ==
  ASSUME Inv, UNCHANGED <<who, log, first, state, failed>>, group'.last = group.last,
         th'.done => th.done /\ th'.todo = th.todo,
         \A id \in group.pending : id \in group'.pending \/ (who \in Archives => Kept(id))
  PROVE  Archived'
<1>1. \A id : Kept(id)' <=> Kept(id)
  BY DEF Kept, Belongs
<1> QED BY <1>1 DEF Archived, Inv

-----------------------------------------------------------------------------
LEMMA PublishInv == ASSUME Inv, Publish PROVE Inv'
<1>1. PICK m \in Kinds : log' = Append(log, m)
  BY DEF Publish
<1>2. UNCHANGED <<who, group, th, state, price, strikes, faults, handled, failed, left, first, base, replayed>>
  BY DEF Publish, main, history
<1>3. log \in Seq(Kinds) /\ log' \in Seq(Kinds)' /\ Len(log') = Len(log) + 1 /\ Len(log') <= MaxMessages
  <2>1. log \in Seq(Kinds) /\ Kinds' = Kinds
    BY <1>2 DEF Inv, TypeOK, Kinds
  <2>2. log' \in Seq(Kinds) /\ Len(log') = Len(log) + 1
    BY <1>1, <2>1, AppendProperties
  <2> QED BY <2>1, <2>2, Facts DEF Publish
<1>4. \A i \in 1..Len(log) : log'[i] = log[i]
  BY <1>1, <1>3, AppendProperties
<1>5. TypeOK'
  <2>1. group.last \in first..Len(log')
    BY <1>3, Facts DEF Inv, TypeOK
  <2> QED BY <1>2, <1>3, <2>1 DEF Inv, TypeOK
<1>6. Shape' /\ Hands' /\ InOrder'
  BY <1>2, <1>3, Facts DEF Inv, Shape, Hands, InOrder
<1>7. \A id \in (first + 1)..group.last : id \in 1..Len(log)
  BY Facts
<1>8. Archived'
  <2>1. \A id \in 1..Len(log) : Kept(id)' <=> Kept(id)
    BY <1>2, <1>4 DEF Kept, Belongs
  <2>2. th.done => Least(th.todo) \in 1..Len(log)
    BY <1>7, Facts, LeastIsLeast DEF Inv, Hands
  <2> QED BY <1>2, <1>7, <2>1, <2>2 DEF Inv, Archived
<1>9. Follows'
  <2>1. Mine' = Mine /\ \A i \in Mine : i \in 1..Len(log)
    BY <1>2, Facts DEF Mine
  <2>2. Clean' => Clean
    BY <1>2, <1>3, Facts DEF Clean
  <2>3. \A i : (Latest(i)' <=> Latest(i)) /\ (Told(i)' <=> Told(i))
    BY <1>2 DEF Latest, Told
  <2>4. \A i \in Mine : Shows(i)' <=> Shows(i)
    BY <1>2, <1>4, <2>1 DEF Shows
  <2>5. replayed' # Len(log')
    BY <1>2, <1>3, Facts DEF Inv, Hands
  <2> QED BY <1>2, <1>4, <2>1, <2>2, <2>3, <2>4, <2>5 DEF Follows, Inv
<1> QED BY <1>5, <1>6, <1>8, <1>9 DEF Inv

LEMMA BootInv == ASSUME Inv, Boot PROVE Inv'
<1>1. /\ th.pc = "down" /\ th' = [pc |-> "poll", todo |-> {}, done |-> FALSE]
      /\ base' = group.last
      /\ UNCHANGED <<who, log, group, price, strikes, handled, failed, left, first>>
  BY DEF Boot, Ready, main
<1>2. \/ UNCHANGED <<state, replayed, faults>> /\ who # "panel"
      \/ who = "panel" /\ state' = Replay(log) /\ replayed' = Len(log) /\ UNCHANGED faults
      \/ who = "panel" /\ UNCHANGED state /\ replayed' = 0 /\ Fault
  BY DEF Boot
<1>3. th'.pc = "poll" /\ th'.todo = {} /\ th'.done = FALSE /\ th.todo = {}
  BY <1>1 DEF Inv, Hands
<1>4. replayed' \in Nat /\ replayed' <= Len(log)
  BY <1>2, Facts, <1>1 DEF Inv, Hands
<1>5. TypeOK'
  <2>1. who = "panel" => state' \in {"open", "close"}
    <3>1. who = "panel" /\ log # <<>> => log[Len(log)] \in {"open", "close"}
      BY Facts, ElementOfSeq, LenProperties, EmptySeq DEF Inv, TypeOK, Kinds, Positions
    <3>2. who = "panel" => Replay(log) \in {"open", "close"}
      BY <3>1 DEF Replay, Start, Archives
    <3> QED BY <1>2, <3>2 DEF Inv, TypeOK
  <2>2. who # "panel" => state' = state
    BY <1>2
  <2>3. faults' \in 0..MaxFaults
    BY <1>2, BusAssumption DEF Inv, TypeOK, Fault
  <2>4. {first', base', replayed'} \subseteq 0..MaxMessages
    BY <1>1, <1>4, Facts
  <2>5. Kinds' = Kinds /\ who' = who
    BY <1>1 DEF Kinds
  <2>6. /\ group'.made \in BOOLEAN /\ group'.last \in first'..Len(log')
        /\ group'.pending \subseteq (first' + 1)..group'.last /\ group'.idle \subseteq group'.pending
    BY <1>1 DEF Inv, TypeOK
  <2> QED BY <1>1, <1>3, <2>1, <2>2, <2>3, <2>4, <2>5, <2>6 DEF Inv, TypeOK, Archives
<1>6. Shape'
  BY <1>1, <1>4, Facts DEF Inv, Shape
<1>7. Hands' /\ InOrder'
  BY <1>1, <1>3, <1>4, Facts DEF Inv, Hands, InOrder, Shape
<1>8. Archived'
  <2>1. who \in Archives => UNCHANGED state
    BY <1>2 DEF Archives
  <2> QED BY <1>1, <1>3, <2>1 DEF Inv, Archived, Kept, Belongs
<1>9. Follows'
  <2>1. Mine' = {}
    BY <1>1, Facts DEF Mine
  <2>2. log # <<>> => Len(log) # 0
    BY EmptySeq DEF Inv, TypeOK
  <2>3. who = "panel" /\ log # <<>> /\ replayed' = Len(log) => state' = log[Len(log)]
    BY <1>2, <2>2 DEF Replay
  <2> QED BY <1>1, <2>1, <2>3 DEF Follows
<1> QED BY <1>5, <1>6, <1>7, <1>8, <1>9 DEF Inv

LEMMA CreateInv == ASSUME Inv, Create PROVE Inv'
<1>1. /\ th.pc = "poll" /\ ~group.made
      /\ group' = [group EXCEPT !.made = TRUE, !.last = Len(log)]
      /\ first' = Len(log) /\ base' = Len(log)
      /\ UNCHANGED <<who, log, th, state, price, strikes, faults, handled, failed, left, replayed>>
  BY DEF Create, main
<1>2. group.pending = {} /\ group.idle = {} /\ th.todo = {} /\ ~th.done
  BY <1>1 DEF Inv, Hands, TypeOK
<1>3. /\ group'.made = TRUE /\ group'.last = Len(log) /\ group'.pending = {} /\ group'.idle = {}
      /\ Len(log) \in first'..Len(log)
  BY <1>1, <1>2, Facts DEF Inv, Shape
<1>4. TypeOK'
  BY <1>1, <1>2, <1>3, Facts DEF Inv, TypeOK, Kinds
<1>5. Shape'
  BY <1>1, Facts DEF Inv, Shape
<1>6. Hands' /\ InOrder'
  BY <1>1, <1>2, <1>3, Facts DEF Inv, Hands, InOrder
<1>7. Archived'
  BY <1>1, <1>2, <1>3, Facts DEF Inv, Archived
<1>8. Follows'
  <2>1. Mine' = {}
    BY <1>1, <1>3, Facts DEF Mine
  <2>2. Mine = {}
    BY <1>1, Facts DEF Mine, Inv, Hands
  <2> QED BY <1>1, <2>1, <2>2 DEF Inv, Follows, Clean
<1> QED BY <1>4, <1>5, <1>6, <1>7, <1>8 DEF Inv

LEMMA ClaimInv == ASSUME Inv, Claim PROVE Inv'
<1>1. /\ th.todo = {} /\ th.pc = "poll"
      /\ UNCHANGED <<who, log, state, price, strikes, handled, failed, left, first, base, replayed>>
  BY DEF Claim, main, history
<1>2. PICK ids : /\ ids \subseteq group.idle
                 /\ th' = [th EXCEPT !.pc = "claim", !.todo = ids]
                 /\ group' = [group EXCEPT !.idle = @ \ ids]
  BY TakeIsPart DEF Claim, Claimed
<1>3. faults' \in 0..MaxFaults
  BY BusAssumption DEF Claim, Inv, TypeOK, Fault
<1>4. ~th.done
  BY <1>1 DEF Inv, Hands
<1>5. th'.pc = "claim" /\ th'.todo = ids /\ th'.done = th.done
  BY <1>2 DEF Inv, Shape
<1>6. /\ group'.made = group.made /\ group'.last = group.last
      /\ group'.pending = group.pending /\ group'.idle = group.idle \ ids
  BY <1>2 DEF Inv, Shape
<1>7. ids \subseteq group.pending /\ ids \subseteq left
  BY <1>1, <1>2 DEF Inv, TypeOK, InOrder
<1>8. TypeOK'
  BY <1>1, <1>3, <1>4, <1>5, <1>6, <1>7, Facts DEF Inv, TypeOK, Kinds
<1>9. Shape'
  BY <1>1, <1>2, <1>7, Facts DEF Inv, Shape
<1>10. Hands'
  <2>1. th'.todo \cap group'.idle = {}
    BY <1>5, <1>6
  <2>2. group.made
    BY DEF Claim
  <2> QED BY <1>1, <1>4, <1>5, <1>6, <2>1, <2>2 DEF Inv, Hands
<1>13. InOrder'
  BY <1>1, <1>4, <1>5, <1>6, <1>7 DEF Inv, InOrder
<1>11. Archived'
  BY <1>1, <1>4, <1>5, <1>6, ArchivedKept
<1>12. Follows'
  <2>1. \A i \in Mine : Told(i)' <=> Told(i)
    BY <1>1, <1>4, <1>5, <1>7 DEF Told
  <2> QED BY <1>1, <1>5, <1>6, <2>1, FollowsKept
<1> QED BY <1>8, <1>9, <1>10, <1>11, <1>12, <1>13 DEF Inv

LEMMA ReadInv == ASSUME Inv, Read PROVE Inv'
<1>1. /\ th.pc = "claim" /\ th.todo = {} /\ ~th.done
      /\ UNCHANGED <<who, log, state, price, strikes, faults, handled, failed, left, first, base, replayed>>
  BY DEF Read, main, history, Inv, Hands
<1>2. PICK c \in group.last..Len(log) :
        /\ th' = [th EXCEPT !.pc = "poll", !.todo = (group.last + 1)..c]
        /\ group' = [group EXCEPT !.last = @ + (c - group.last), !.pending = @ \cup (group.last + 1)..c]
  <2>1. group.last \in Nat /\ Len(log) \in Nat /\ group.last <= Len(log)
    BY Facts
  <2>2. PICK c \in group.last..Len(log) :
          /\ Take((group.last + 1)..Len(log)) = (group.last + 1)..c
          /\ Cardinality(Take((group.last + 1)..Len(log))) = c - group.last
    BY <2>1, TakeNext
  <2> QED BY <2>2 DEF Read
<1> DEFINE new == (group.last + 1)..c
<1>3. th'.pc = "poll" /\ th'.todo = new /\ th'.done = FALSE
  BY <1>1, <1>2 DEF Inv, Shape
<1>4. /\ group'.made = group.made /\ group'.last = c
      /\ group'.pending = group.pending \cup new /\ group'.idle = group.idle
  BY <1>2, Facts DEF Inv, Shape
<1>5. /\ group.pending \subseteq (first + 1)..group.last /\ group.idle \subseteq group.pending
      /\ group.pending \subseteq left
  BY <1>1 DEF Inv, TypeOK, InOrder
<1>6. /\ c \in Nat /\ group.last <= c /\ c <= Len(log) /\ new \subseteq Nat /\ group.made
      /\ first <= group.last /\ base <= group.last
  BY <1>1, Facts DEF Inv, Hands
<1> HIDE DEF new
<1>7. \A i \in new : i > group.last /\ i \notin group.pending /\ i \notin left /\ i <= c
  BY <1>5, Facts DEF new, Inv, Hands
<1>8. TypeOK'
  <2>1. group'.last \in first..Len(log)
    BY <1>4, <1>6, Facts
  <2>2. new \subseteq (first + 1)..c /\ group.pending \subseteq (first + 1)..c
    BY <1>5, <1>6, Facts DEF new
  <2> QED BY <1>1, <1>3, <1>4, <1>5, <2>1, <2>2 DEF Inv, TypeOK, Kinds
<1>9. Shape'
  <2>1. group.last + (c - group.last) = c
    BY <1>6, Facts
  <2>2. group.pending \cup new \in SUBSET Nat
    BY <1>6, Facts
  <2> QED BY <1>1, <1>2, <1>6, <2>1, <2>2 DEF Inv, Shape, new
<1>10. Hands'
  <2>1. new \cap group.idle = {}
    BY <1>5, <1>7
  <2>2. \A i \in left : i <= c
    BY <1>6, Facts DEF Inv, Hands
  <2> QED BY <1>1, <1>3, <1>4, <1>6, <2>1, <2>2, Facts DEF Inv, Hands
<1>11. InOrder'
  <2>1. ASSUME NEW i \in new PROVE i > base /\ i..c \subseteq new \ left
    <3>1. i > base /\ i..c \subseteq new
      BY <2>1, <1>6, Facts DEF new
    <3> QED BY <1>7, <3>1
  <2> QED BY <1>1, <1>3, <1>4, <1>5, <2>1 DEF InOrder
<1>12. Archived'
  <2>1. \A id \in (first + 1)..c : id \in (first + 1)..group.last \/ id \in new
    BY <1>6, Facts DEF new
  <2>2. \A id : Kept(id)' <=> Kept(id)
    BY <1>1 DEF Kept, Belongs
  <2> QED BY <1>1, <1>3, <1>4, <2>1, <2>2 DEF Inv, Archived
<1>13. Follows'
  <2> SUFFICES ASSUME Clean PROVE
         /\ \A i \in Mine' : Latest(i)' /\ Shows(i) => state = log[i]
         /\ (who = "panel" /\ log # <<>> /\ replayed = Len(log) /\ \A i \in Mine' : ~Told(i)') =>
               state = log[Len(log)]
    BY <1>1 DEF Follows, Clean, Shows
  <2>1. Mine' = Mine \cup new /\ Mine \subseteq (base + 1)..group.last
    BY <1>1, <1>4, <1>6, Facts DEF Mine, new
  <2>2. \A i \in Mine : i \notin new
    BY <1>6, Facts DEF Mine, new
  <2>3. \A i \in Mine : Told(i)' /\ Told(i)
    BY <1>1, <1>3, <2>2 DEF Told
  <2>5. \A i \in new : ~Told(i)'
    BY <1>1, <1>3, <1>7 DEF Told
  <2>6. ASSUME NEW i \in Mine, Latest(i)' PROVE Latest(i)
    <3>1. \A j \in (i + 1)..group.last : j \in Mine /\ j \in (i + 1)..c
      BY <1>6, <2>1, Facts DEF Mine
    <3> QED BY <1>4, <2>3, <2>6, <3>1 DEF Latest
  <2>7. \A i \in Mine' : Latest(i)' /\ Shows(i) => state = log[i]
    BY <1>1, <2>1, <2>5, <2>6 DEF Latest, Inv, Follows
  <2>8. (\A i \in Mine' : ~Told(i)') => \A i \in Mine : ~Told(i)
    BY <2>1, <2>3
  <2> QED BY <1>1, <2>7, <2>8 DEF Inv, Follows
<1> QED BY <1>8, <1>9, <1>10, <1>11, <1>12, <1>13 DEF Inv

LEMMA HandleInv == ASSUME Inv, Handle PROVE Inv'
<1>0. PICK id : id = Least(th.todo)
  OBVIOUS
<1>1. /\ th.todo # {} /\ ~th.done /\ th' = [th EXCEPT !.done = TRUE]
      /\ UNCHANGED <<who, log, group, price, strikes, left, first, base, replayed>>
      /\ handled' \subseteq handled \cup {id}
  BY <1>0 DEF Handle, main
<1>2. id \in th.todo /\ \A j \in th.todo : id <= j
  BY <1>0, <1>1, Facts, LeastIsLeast
<1>3. \/ state' = After(id) /\ UNCHANGED failed
      \/ who \in Archives /\ UNCHANGED state /\ failed' = failed \cup {id}
  BY <1>0 DEF Handle
<1>4. faults' \in 0..MaxFaults
  BY BusAssumption DEF Handle, Fault, Inv, TypeOK
<1>5. id \in Ids /\ id \in (first + 1)..group.last /\ id \in Nat
  BY <1>2, Facts
<1>6. th'.pc = th.pc /\ th'.todo = th.todo /\ th'.done = TRUE
  BY <1>1 DEF Inv, Shape
<1>7. log[id] \in Kinds
  BY <1>5, Facts, ElementOfSeq DEF Inv, TypeOK
<1>8. /\ who = "panel" => After(id) = log[id] /\ log[id] \in {"open", "close"}
      /\ who = "runner" => After(id) \in {"none", "emergency_stop", "pause"}
      /\ who = "runner" /\ log[id] \in {"emergency_stop", "pause"} => After(id) = log[id]
  <2>1. who = "panel" => After(id) = log[id] /\ log[id] \in {"open", "close"}
    BY <1>7 DEF After, Kinds, Positions, Mirror, Archives
  <2>2. who = "runner" => After(id) = IF log[id] = "malformed" THEN state ELSE Command(log[id])
    BY DEF After
  <2> QED BY <1>7, <2>1, <2>2 DEF Kinds, Commands, Command, Inv, TypeOK
<1>9. who \in Archives => /\ state \subseteq state' /\ state' \subseteq state \cup {id}
                          /\ Belongs(id) => id \in state' \cup failed'
  <2>1. who = "archive" => After(id) = IF log[id] = "malformed" THEN state ELSE state \cup {id}
    BY DEF After, CommandRows, Key
  <2>2. who = "trades" => After(id) = IF log[id] = "close" THEN state \cup {id} ELSE state
    BY <1>7 DEF After, TradeRows, Key, Kinds, Positions
  <2>3. Belongs(id) => log[id] # "malformed" /\ (who = "trades" => log[id] = "close")
    BY <1>7 DEF Belongs, Kinds, Positions
  <2> QED BY <1>3, <2>1, <2>2, <2>3 DEF Archives
<1>10. failed \subseteq failed' /\ failed' \subseteq failed \cup {id}
  BY <1>3
<1>11. TypeOK'
  <2>1. who = "panel" => state' \in {"open", "close"}
    BY <1>3, <1>8 DEF Archives
  <2>2. who = "runner" => state' \in {"none", "emergency_stop", "pause"}
    BY <1>3, <1>8 DEF Archives
  <2>3. who \in Archives => state' \subseteq Ids
    BY <1>5, <1>9 DEF Inv, TypeOK
  <2>4. handled' \subseteq Ids /\ failed' \subseteq Ids
    BY <1>1, <1>5, <1>10 DEF Inv, TypeOK
  <2>5. th'.pc \in {"down", "poll", "claim"} /\ th'.done \in BOOLEAN
    BY <1>6 DEF Inv, TypeOK
  <2>6. Kinds' = Kinds
    BY <1>1 DEF Kinds
  <2>7. group'.made \in BOOLEAN /\ strikes' \in 0..(StallStrikes - 1)
    BY <1>1 DEF Inv, TypeOK
  <2> QED BY <1>1, <1>4, <1>6, <2>1, <2>2, <2>3, <2>4, <2>5, <2>6, <2>7 DEF Inv, TypeOK
<1>12. Shape'
  BY <1>1 DEF Inv, Shape
<1>13. Hands' /\ InOrder'
  BY <1>1, <1>6 DEF Inv, Hands, InOrder
<1>14. Archived'
  <2>1. ASSUME who \in Archives, NEW i, Kept(i) PROVE Kept(i)'
    BY <1>1, <1>9, <1>10, <2>1 DEF Kept, Belongs
  <2>2. who \in Archives => Kept(id)'
    BY <1>1, <1>9 DEF Kept, Belongs
  <2>3. Least(th'.todo) = id
    BY <1>0, <1>6
  <2> QED BY <1>1, <2>1, <2>2, <2>3 DEF Inv, Archived
<1>15. Follows'
  <2> SUFFICES ASSUME th.pc # "down", Clean PROVE
         /\ \A i \in Mine : Latest(i)' /\ Shows(i) => state' = log[i]
         /\ (who = "panel" /\ log # <<>> /\ replayed = Len(log) /\ \A i \in Mine : ~Told(i)') =>
               state' = log[Len(log)]
    BY <1>1, <1>6 DEF Follows, Clean, Shows, Mine
  <2>1. \A i : Told(i)' <=> Told(i) \/ i = id
    BY <1>0, <1>1, <1>6 DEF Told
  <2>2. (\E i : Shows(i)) => state' = After(id)
    BY <1>3 DEF Shows, Archives
  <2>3. id \in left => id = Len(log)
    BY <1>5, Facts DEF Clean
  <2>4. id \notin left => id > base /\ id..group.last \subseteq th.todo \ left
    BY <1>2 DEF Inv, InOrder
  <2>5. ASSUME NEW i \in Mine, Latest(i)', Shows(i) PROVE i = id
    <3> SUFFICES ASSUME i # id PROVE FALSE
      OBVIOUS
    <3>1. i \in Nat /\ i <= group.last
      BY Facts DEF Mine
    <3>2. Told(i)' /\ \A j \in (i + 1)..group.last : ~Told(j)'
      BY <1>1, <2>5 DEF Latest
    <3>3. Told(i) /\ id < i
      BY <1>5, <2>1, <3>1, <3>2
    <3>4. id \notin left
      BY <1>5, <2>3, <3>1, <3>3, Facts
    <3>5. i \in id..group.last
      BY <1>5, <3>1, <3>3
    <3> QED BY <1>1, <2>4, <3>3, <3>4, <3>5 DEF Told
  <2>6. ASSUME NEW i \in Mine, Latest(i)', Shows(i) PROVE state' = log[i]
    BY <1>8, <2>2, <2>5, <2>6 DEF Shows
  <2>7. ASSUME who = "panel", \A i \in Mine : ~Told(i)' PROVE state' = log[Len(log)]
    <3>1. id \notin Mine
      BY <2>1, <2>7
    <3>2. ~(id > base)
      BY <1>5, <3>1, Facts DEF Mine
    <3>3. Shows(id)
      BY <2>7 DEF Shows
    <3> QED BY <1>8, <2>2, <2>3, <2>4, <2>7, <3>2, <3>3
  <2> QED BY <2>6, <2>7
<1> QED BY <1>11, <1>12, <1>13, <1>14, <1>15 DEF Inv

LEMMA AckInv == ASSUME Inv, Ack PROVE Inv'
<1>0. PICK id : id = Least(th.todo)
  OBVIOUS
<1>1. /\ th.todo # {} /\ th.done /\ th' = [th EXCEPT !.todo = @ \ {id}, !.done = FALSE]
      /\ UNCHANGED <<who, log, state, price, strikes, handled, failed, first, base, replayed>>
  BY <1>0 DEF Ack, main
<1>2. id \in th.todo /\ \A j \in th.todo : id <= j
  BY <1>0, <1>1, Facts, LeastIsLeast
<1>3. \/ group' = [group EXCEPT !.pending = @ \ {id}] /\ UNCHANGED left
      \/ left' = left \cup {id} /\ UNCHANGED group
  BY <1>0 DEF Ack
<1>4. faults' \in 0..MaxFaults
  BY BusAssumption DEF Ack, Fault, Inv, TypeOK
<1>5. Told(id)
  BY <1>0, <1>1 DEF Told
<1>6. who \in Archives => Kept(id)
  BY <1>0, <1>1 DEF Inv, Archived
<1>7. \A i : Told(i) <=> i \notin th.todo \/ i \in left \/ i = id
  BY <1>0, <1>1 DEF Told
<1>8. id \in Ids /\ id <= group.last /\ id \in Nat
  BY <1>2, Facts
<1>9. th'.pc = th.pc /\ th'.todo = th.todo \ {id} /\ th'.done = FALSE
  BY <1>1 DEF Inv, Shape
<1>10. /\ group'.made = group.made /\ group'.last = group.last /\ group'.idle = group.idle
       /\ group.pending \ {id} \subseteq group'.pending /\ group'.pending \subseteq group.pending
       /\ left \subseteq left' /\ left' \subseteq left \cup {id}
       /\ group'.pending \subseteq group.pending \ {id} \/ id \in left'
  BY <1>3 DEF Inv, Shape
<1>11. id \notin group.idle
  BY <1>2 DEF Inv, Hands
<1>12. TypeOK'
  <2>1. Kinds' = Kinds
    BY <1>1 DEF Kinds
  <2>2. group'.made \in BOOLEAN
    BY <1>10 DEF Inv, TypeOK
  <2> QED BY <1>1, <1>4, <1>8, <1>9, <1>10, <1>11, <2>1, <2>2 DEF Inv, TypeOK
<1>13. Shape'
  BY <1>1, <1>3 DEF Inv, Shape
<1>14. Hands'
  <2>1. \A i \in left' : i <= group.last
    BY <1>8, <1>10 DEF Inv, Hands
  <2>2. group.made
    BY <1>2 DEF Inv, Hands, TypeOK
  <2>3. group'.made
    BY <1>10, <2>2
  <2> QED BY <1>1, <1>9, <1>10, <2>1, <2>3 DEF Inv, Hands
<1>15. InOrder'
  <2>1. group'.pending \ th'.todo \subseteq left'
    BY <1>9, <1>10 DEF Inv, InOrder
  <2>2. ASSUME NEW i \in th'.todo \ left' PROVE i > base /\ i..group.last \subseteq th'.todo \ left'
    <3>1. i \in th.todo \ left /\ i # id /\ i \in Nat
      BY <1>9, <1>10, Facts
    <3>2. i > base /\ i..group.last \subseteq th.todo \ left
      BY <3>1 DEF Inv, InOrder
    <3>3. id < i
      BY <1>2, <1>8, <3>1
    <3>4. id \notin i..group.last
      BY <1>8, <3>1, <3>3
    <3> QED BY <1>9, <1>10, <3>2, <3>4
  <2> QED BY <1>1, <1>10, <2>1, <2>2 DEF InOrder
<1>16. Archived'
  BY <1>1, <1>6, <1>9, <1>10, ArchivedKept
<1>17. Follows'
  <2>1. \A i : Told(i)' <=> i \notin th'.todo \/ i \in left'
    BY <1>9 DEF Told
  <2>2. \A i : Told(i)' <=> Told(i)
    BY <1>7, <1>9, <1>10, <2>1
  <2> QED BY <1>1, <1>9, <1>10, <2>2, FollowsKept
<1> QED BY <1>12, <1>13, <1>14, <1>15, <1>16, <1>17 DEF Inv

LEMMA IdlesInv == ASSUME Inv, Idles PROVE Inv'
<1>1. PICK id \in group.pending \ (group.idle \cup th.todo) :
        group' = [group EXCEPT !.idle = @ \cup {id}]
  BY DEF Idles
<1>2. UNCHANGED <<who, log, th, state, price, strikes, faults, handled, failed, left, first, base, replayed>>
  BY DEF Idles, main, history
<1>3. /\ group'.made = group.made /\ group'.last = group.last
      /\ group'.pending = group.pending /\ group'.idle = group.idle \cup {id}
  BY <1>1 DEF Inv, Shape
<1>4. TypeOK'
  BY <1>2, <1>3 DEF Inv, TypeOK, Kinds
<1>5. Shape'
  BY <1>1, <1>2, Facts DEF Inv, Shape
<1>6. Hands' /\ InOrder'
  BY <1>1, <1>2, <1>3 DEF Inv, Hands, InOrder
<1>7. Archived'
  BY <1>2, <1>3, ArchivedKept
<1>8. \A i : Told(i)' <=> Told(i)
  BY <1>2 DEF Told
<1>9. Follows'
  BY <1>2, <1>3, <1>8, FollowsKept
<1> QED BY <1>4, <1>5, <1>6, <1>7, <1>9 DEF Inv

(* What happens to the price, the strikes and the faults matters to none of  *)
(* it; and the runner's own stop only turns "none" into a stop.              *)
LEMMA MainInv ==
  ASSUME Inv, UNCHANGED <<who, log, group, th, history>>,
         state' = state \/ (who = "runner" /\ state = "none" /\ state' = "emergency_stop"),
         price' \in {"none", "fresh", "stale"}, strikes' \in 0..(StallStrikes - 1),
         faults' \in 0..MaxFaults
  PROVE  Inv'
<1>1. UNCHANGED <<who, log, group, th, handled, failed, left, first, base, replayed>>
  BY DEF history
<1>2. TypeOK'
  <2>1. group'.made \in BOOLEAN /\ th'.done \in BOOLEAN /\ Kinds' = Kinds
    BY <1>1 DEF Inv, TypeOK, Kinds
  <2> QED BY <1>1, <2>1 DEF Inv, TypeOK, Archives
<1>3. Shape' /\ Hands' /\ InOrder'
  BY <1>1 DEF Inv, Shape, Hands, InOrder
<1>4. Archived'
  BY <1>1 DEF Inv, Archived, Kept, Belongs, Archives
<1>5. \A i : Told(i)' <=> Told(i)
  BY <1>1 DEF Told
<1>6. Follows'
  BY <1>1, <1>5, FollowsKept
<1> QED BY <1>2, <1>3, <1>4, <1>6 DEF Inv

LEMMA FeedChangesInv == ASSUME Inv, FeedChanges PROVE Inv'
<1>1. UNCHANGED <<who, log, group, th, state, strikes, history>> /\ price' \in {"fresh", "stale"}
  BY DEF FeedChanges
<1>2. faults' \in 0..MaxFaults
  BY BusAssumption DEF FeedChanges, Fault, Inv, TypeOK
<1>3. strikes' \in 0..(StallStrikes - 1)
  BY <1>1 DEF Inv, TypeOK
<1> QED BY <1>1, <1>2, <1>3, MainInv

LEMMA CheckStallInv == ASSUME Inv, CheckStall PROVE Inv'
<1>1. UNCHANGED <<who, log, group, th, price, faults, history>> /\ who = "runner"
  BY DEF CheckStall, Runs
<1>2. strikes \in 0..(StallStrikes - 1) /\ StallStrikes \in Nat \ {0}
  BY BusAssumption DEF Inv, TypeOK
<1>3. strikes' \in 0..(StallStrikes - 1)
  BY <1>2 DEF CheckStall, NewStrikes
<1>4. state' = state \/ (state = "none" /\ state' = "emergency_stop")
  BY DEF CheckStall
<1>5. price' \in {"none", "fresh", "stale"} /\ faults' \in 0..MaxFaults
  BY <1>1 DEF Inv, TypeOK
<1> QED BY <1>1, <1>3, <1>4, <1>5, MainInv

LEMMA CrashInv == ASSUME Inv, Crash PROVE Inv'
<1>1. /\ th' = [pc |-> "down", todo |-> {}, done |-> FALSE]
      /\ price' = "none" /\ strikes' = 0 /\ left' = left \cup group.pending
      /\ UNCHANGED <<who, log, group, handled, failed, first, base, replayed>>
  BY DEF Crash, Down
<1>2. state' = IF who \in Archives THEN state ELSE Start
  BY DEF Crash
<1>3. faults' \in 0..MaxFaults /\ strikes' \in 0..(StallStrikes - 1)
  BY <1>1, BusAssumption DEF Crash, Fault, Inv, TypeOK
<1>4. th'.pc = "down" /\ th'.todo = {} /\ th'.done = FALSE
  BY <1>1
<1>5. group.pending \subseteq Ids /\ \A i \in group.pending : i <= group.last
  BY Facts DEF Inv, TypeOK, Ids
<1>6. TypeOK'
  <2>1. group'.made \in BOOLEAN /\ Kinds' = Kinds
    BY <1>1 DEF Inv, TypeOK, Kinds
  <2>2. /\ who = "runner" => state' = "none"
        /\ who = "panel" => state' = "close"
        /\ who \in Archives => state' = state
    BY <1>2 DEF Start, Archives
  <2> QED BY <1>1, <1>3, <1>4, <1>5, <2>1, <2>2 DEF Inv, TypeOK
<1>7. Shape'
  BY <1>1 DEF Inv, Shape
<1>8. Hands' /\ InOrder'
  BY <1>1, <1>4, <1>5 DEF Inv, Hands, InOrder
<1>9. Archived'
  BY <1>1, <1>2, <1>4 DEF Inv, Archived, Kept, Belongs
<1>10. Follows'
  BY <1>4 DEF Follows
<1> QED BY <1>6, <1>7, <1>8, <1>9, <1>10 DEF Inv

LEMMA StepInv == Inv /\ [Next]_vars => Inv'
<1> SUFFICES ASSUME Inv, [Next]_vars PROVE Inv'
  OBVIOUS
<1>1. CASE Next
  BY <1>1, PublishInv, BootInv, CreateInv, ClaimInv, ReadInv, HandleInv, AckInv, IdlesInv,
     FeedChangesInv, CheckStallInv, CrashInv DEF Next, Consume
<1>2. CASE UNCHANGED vars
  <2>1. price' = price /\ strikes' = strikes /\ faults' = faults /\ state' = state
        /\ UNCHANGED <<who, log, group, th, history>>
    BY <1>2 DEF vars, main
  <2> QED BY <2>1, MainInv DEF Inv, TypeOK
<1> QED BY <1>1, <1>2

LEMMA InvHolds == Spec => []Inv
BY InitInv, StepInv, PTL DEF Spec

-----------------------------------------------------------------------------
(* The bus hands out each message once and in order, what is pending has     *)
(* been handed out, what is at hand is pending, and the state of each        *)
(* consumer is one that its handler can produce (run_consumer).              *)
THEOREM BusTyped == Spec => []TypeOK
BY InvHolds, PTL DEF Inv

(* A consumer that has nothing left to do holds what follows from the last   *)
(* message, however it crashed, however Redis failed and whatever was        *)
(* redelivered, unless something older than that message was left over       *)
(* (EventBus.run_consumer, StateStore.replay, OpsArchive).                   *)
THEOREM CurrentHolds == Spec => []Current
<1>1. Inv => Current
  <2> SUFFICES ASSUME Inv, Quiet, log # <<>>
               PROVE LET last == log[Len(log)] IN
                 /\ who = "runner" /\ Len(log) > base /\ last \in {"emergency_stop", "pause"} => state = last
                 /\ who = "panel" /\ (Len(log) <= replayed \/ Len(log) > base) => state = last
                 /\ who \in Archives => {id \in (first + 1)..Len(log) : Belongs(id)} \subseteq state \cup failed
    BY DEF Current
  <2> DEFINE n == Len(log)
  <2>1. /\ th.pc # "down" /\ th.todo = {} /\ group.pending = {} /\ group.last = n /\ Clean
    BY DEF Quiet, Clean
  <2>2. n \in Nat /\ base \in Nat /\ base <= n /\ replayed \in Nat /\ replayed <= n
    BY <2>1, Facts DEF Inv, Hands
  <2> HIDE DEF n
  <2>3. \A i : Told(i)
    BY <2>1 DEF Told
  <2>4. ASSUME n > base PROVE n \in Mine /\ Latest(n)
    <3>1. n \in Mine /\ (n + 1)..group.last = {}
      BY <2>1, <2>2, <2>4 DEF Mine
    <3> QED BY <2>3, <3>1 DEF Latest
  <2>5. n > base /\ Shows(n) => state = log[n]
    BY <2>1, <2>4 DEF Inv, Follows
  <2>6. who = "panel" /\ n <= replayed /\ ~(n > base) => state = log[n]
    <3>1. ~(n > base) => Mine = {}
      BY <2>1, <2>2 DEF Mine
    <3>2. n <= replayed => replayed = n
      BY <2>2
    <3> QED BY <2>1, <3>1, <3>2 DEF Inv, Follows, n
  <2>7. who \in Archives => \A id \in (first + 1)..n : Kept(id)
    BY <2>1 DEF Inv, Archived
  <2> QED BY <2>5, <2>6, <2>7 DEF Shows, Kept, n
<1> QED BY <1>1, InvHolds, PTL

-----------------------------------------------------------------------------
(* A message that the group has given out is pending until it is dealt with. *)
Dealt(id) == log[id] = "malformed" \/ id \in handled

Accounted ==
  /\ \A id \in (first + 1)..group.last : id \in group.pending \/ Dealt(id)
  /\ th.done => Dealt(Least(th.todo))

LEMMA AccountedStep == Inv /\ Accounted /\ [Next]_vars => Accounted'
<1> SUFFICES ASSUME Inv, Accounted, [Next]_vars PROVE Accounted'
  OBVIOUS
(* Steps that leave the messages and the handler alone. *)
<1>1. ASSUME UNCHANGED <<log, handled, first>>, group'.last = group.last,
             group.pending \subseteq group'.pending,
             th'.done => th.done /\ th'.todo = th.todo
      PROVE  Accounted'
  BY <1>1 DEF Accounted, Dealt
<1>2. CASE Publish
  <2>1. PICK m \in Kinds : log' = Append(log, m)
    BY <1>2 DEF Publish
  <2>2. UNCHANGED <<group, th, handled, first>>
    BY <1>2 DEF Publish, history
  <2>3. \A i \in 1..Len(log) : log'[i] = log[i]
    BY <2>1, AppendProperties DEF Inv, TypeOK
  <2>4. \A i \in (first + 1)..group.last : i \in 1..Len(log)
    BY Facts
  <2>5. th.done => Least(th.todo) \in (first + 1)..group.last
    BY Facts, LeastIsLeast DEF Inv, Hands
  <2> QED BY <2>2, <2>3, <2>4, <2>5 DEF Accounted, Dealt
<1>3. CASE Boot
  BY <1>1, <1>3 DEF Boot, Ready
<1>4. CASE Create
  <2>1. group' = [group EXCEPT !.made = TRUE, !.last = Len(log)] /\ first' = Len(log) /\ UNCHANGED th
    BY <1>4 DEF Create
  <2>2. ~th.done
    BY <1>4 DEF Create, Inv, Hands, TypeOK
  <2>3. group'.last = Len(log)
    BY <2>1 DEF Inv, Shape
  <2> QED BY <2>1, <2>2, <2>3, Facts DEF Accounted
<1>5. CASE Claim
  <2>1. PICK ids : th' = [th EXCEPT !.pc = "claim", !.todo = ids] /\ group' = [group EXCEPT !.idle = @ \ ids]
    BY <1>5 DEF Claim
  <2>2. ~th'.done /\ group'.pending = group.pending /\ group'.last = group.last
    BY <1>5, <2>1 DEF Claim, Inv, Shape, Hands
  <2> QED BY <1>1, <1>5, <2>2 DEF Claim, history
<1>6. CASE Read
  <2>1. group.last \in Nat /\ Len(log) \in Nat /\ group.last <= Len(log)
    BY Facts
  <2>2. PICK c \in group.last..Len(log) :
          /\ Take((group.last + 1)..Len(log)) = (group.last + 1)..c
          /\ Cardinality(Take((group.last + 1)..Len(log))) = c - group.last
    BY <2>1, TakeNext
  <2>3. /\ th' = [th EXCEPT !.pc = "poll", !.todo = (group.last + 1)..c]
        /\ group' = [group EXCEPT !.last = @ + (c - group.last), !.pending = @ \cup (group.last + 1)..c]
        /\ UNCHANGED <<log, handled, first>> /\ ~th.done
    BY <1>6, <2>2 DEF Read, history, Inv, Hands
  <2>4. ~th'.done /\ group'.last = c /\ group'.pending = group.pending \cup (group.last + 1)..c
    BY <2>1, <2>3 DEF Inv, Shape
  <2>5. \A i \in (first + 1)..c : i \in (first + 1)..group.last \/ i \in (group.last + 1)..c
    BY Facts
  <2> QED BY <2>3, <2>4, <2>5 DEF Accounted, Dealt
<1>7. CASE Handle
  <2>1. /\ UNCHANGED <<log, group, first>> /\ th'.todo = th.todo
        /\ handled' = IF log[Least(th.todo)] = "malformed" THEN handled ELSE handled \cup {Least(th.todo)}
    BY <1>7 DEF Handle, Inv, Shape
  <2> QED BY <2>1 DEF Accounted, Dealt
<1>8. CASE Ack
  <2>1. th'.done = FALSE /\ th.done /\ UNCHANGED <<log, handled, first>>
    BY <1>8 DEF Ack, Inv, Shape
  <2>2. group'.last = group.last /\ group.pending \ {Least(th.todo)} \subseteq group'.pending
    BY <1>8 DEF Ack, Inv, Shape
  <2>3. Dealt(Least(th.todo))
    BY <2>1 DEF Accounted
  <2> QED BY <2>1, <2>2, <2>3 DEF Accounted, Dealt
<1>9. CASE Idles
  BY <1>1, <1>9 DEF Idles, history, Inv, Shape
<1>10. CASE FeedChanges \/ CheckStall \/ UNCHANGED vars
  BY <1>1, <1>10 DEF FeedChanges, CheckStall, vars, history
<1>11. CASE Crash
  BY <1>1, <1>11 DEF Crash, Down
<1> QED BY <1>2, <1>3, <1>4, <1>5, <1>6, <1>7, <1>8, <1>9, <1>10, <1>11 DEF Next, Consume

(* At least once: from the group's beginning on, a message that was given    *)
(* out and is no longer pending was handled, or given up as malformed; none  *)
(* is dropped by a crash, a failed call of Redis or an acknowledgement       *)
(* (_deliver, _retry_pending).                                               *)
THEOREM NoneDropped ==
  Spec => [](\A id \in (first + 1)..group.last : id \notin group.pending => Done(id))
<1>1. Init => Accounted
  BY DEF Init, Accounted, Down
<1>2. Inv /\ Accounted => \A id \in (first + 1)..group.last : id \notin group.pending => Done(id)
  BY Facts DEF Accounted, Dealt, Done
<1> QED BY <1>1, <1>2, AccountedStep, InvHolds, PTL DEF Spec

=============================================================================
