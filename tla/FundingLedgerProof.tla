------------------------- MODULE FundingLedgerProof -------------------------
(* Proofs about FundingLedger, for any number of fees, faults and crashes:    *)
(* every cursor, in memory or in the file, has all fees up to it settled, and *)
(* no fee above the one in memory has been booked in this life.  The books of *)
(* a life are one run of fees, without a gap.                                 *)
EXTENDS FundingLedger, TLAPS

LEMMA NoCursorType == NoCursor \in Nat /\ NoCursor = MaxFees + 1 /\ MaxFees \in Nat
BY LedgerAssumption DEF NoCursor

(* The type invariant in parts: the cursors, the two threads, the books.      *)
CursorsOK == charged \in 0..MaxFees /\ file \in Cursors /\ cursor \in Cursors
MainOK    == main \in [pc : {"idle", "got", "write", "dump"}, hi : 0..MaxFees]
BooksOK   == booked \in [Fees -> Nat] /\ estimated \in [Fees -> Nat] /\ settled \subseteq Fees
UsedOK    == used \in [faults : Nat, crashes : Nat]
FlagsOK   == up \in BOOLEAN /\ estimating \in BOOLEAN /\ blind \in BOOLEAN
               /\ monitor \in {"first", "due", "done"}
Typed     == CursorsOK /\ MainOK /\ BooksOK /\ UsedOK /\ FlagsOK

LEMMA TypedIsTypeOK == TypeOK <=> Typed
BY DEF TypeOK, Typed, CursorsOK, MainOK, BooksOK, UsedOK, FlagsOK

LEMMA MainTypes ==
  ASSUME NEW p \in {"idle", "got", "write", "dump"}, NEW n \in 0..MaxFees
  PROVE  [pc |-> p, hi |-> n] \in [pc : {"idle", "got", "write", "dump"}, hi : 0..MaxFees]
OBVIOUS

LEMMA TypeInit == Init => Typed
<1> SUFFICES ASSUME Init PROVE Typed
  OBVIOUS
<1>1. CursorsOK
  BY NoCursorType DEF Init, CursorsOK, Cursors
<1>2. MainOK
  BY NoCursorType, MainTypes DEF Init, MainOK, MainIdle
<1>3. BooksOK
  BY DEF Init, BooksOK
<1>4. UsedOK
  BY DEF Init, UsedOK
<1>5. FlagsOK
  BY DEF Init, FlagsOK
<1>q. QED BY <1>1, <1>2, <1>3, <1>4, <1>5 DEF Typed

LEMMA FaultType == ASSUME UsedOK, Fault PROVE UsedOK'
BY DEF UsedOK, Fault

LEMMA TypeStep == Typed /\ [Next]_vars => Typed'
<1> SUFFICES ASSUME Typed, [Next]_vars PROVE Typed'
  OBVIOUS
<1> USE DEF Typed
<1>1. CASE Charge
  BY <1>1, NoCursorType DEF Charge, CursorsOK, MainOK, BooksOK, UsedOK, FlagsOK
<1>2. CASE Estimate
  <2>1. BooksOK'
    BY <1>2 DEF Estimate, BooksOK
  <2>2. CursorsOK' /\ MainOK' /\ UsedOK' /\ FlagsOK'
    BY <1>2 DEF Estimate, CursorsOK, MainOK, UsedOK, FlagsOK
  <2>q. QED BY <2>1, <2>2
<1>3. CASE Poll
  <2>1. CursorsOK'
    BY <1>3 DEF Poll, Newest, Remembered, CursorsOK
  <2>2. MainOK'
    BY <1>3, MainTypes DEF Poll, Newest, MainOK, CursorsOK
  <2>3. BooksOK' /\ UsedOK' /\ FlagsOK'
    BY <1>3 DEF Poll, Newest, BooksOK, UsedOK, FlagsOK
  <2>q. QED BY <2>1, <2>2, <2>3
<1>4. CASE PollFails
  <2>1. CursorsOK' /\ MainOK' /\ BooksOK'
    BY <1>4 DEF PollFails, Remembered, CursorsOK, MainOK, BooksOK
  <2>2. UsedOK' /\ FlagsOK'
    BY <1>4, FaultType DEF PollFails, Falls, FlagsOK
  <2>q. QED BY <2>1, <2>2
<1>5. CASE NothingNew
  BY <1>5, NoCursorType, MainTypes DEF NothingNew, MainIdle, CursorsOK, MainOK, BooksOK, UsedOK, FlagsOK
<1>6. CASE Seed
  <2>1. CursorsOK' /\ MainOK'
    BY <1>6, NoCursorType DEF Seed, CursorsOK, Cursors, MainOK
  <2>2. BooksOK'
    BY <1>6, NoCursorType DEF Seed, BooksOK, MainOK, Fees
  <2>3. UsedOK' /\ FlagsOK'
    BY <1>6 DEF Seed, UsedOK, FlagsOK
  <2>q. QED BY <2>1, <2>2, <2>3
<1>7. CASE Book
  <2>1. CursorsOK' /\ MainOK'
    BY <1>7, NoCursorType DEF Book, CursorsOK, Cursors, MainOK
  <2>2. BooksOK'
    BY <1>7, NoCursorType DEF Book, Fresh, BooksOK, MainOK, Fees
  <2>3. UsedOK' /\ FlagsOK'
    BY <1>7 DEF Book, UsedOK, FlagsOK
  <2>q. QED BY <2>1, <2>2, <2>3
<1>8. CASE Write
  <2>1. CursorsOK' /\ MainOK'
    BY <1>8, NoCursorType, MainTypes DEF Write, MainIdle, CursorsOK, Cursors, MainOK
  <2>2. BooksOK' /\ UsedOK' /\ FlagsOK'
    BY <1>8, FaultType DEF Write, BooksOK, UsedOK, FlagsOK
  <2>q. QED BY <2>1, <2>2
<1>9. CASE Dump
  <2>1. CursorsOK' /\ MainOK'
    BY <1>9, NoCursorType, MainTypes DEF Dump, MainIdle, CursorsOK, MainOK
  <2>2. BooksOK' /\ UsedOK' /\ FlagsOK'
    BY <1>9, FaultType DEF Dump, BooksOK, UsedOK, FlagsOK
  <2>q. QED BY <2>1, <2>2
<1>10. CASE Crash
  <2>1. CursorsOK' /\ MainOK'
    BY <1>10, NoCursorType, MainTypes DEF Crash, MainIdle, CursorsOK, Cursors, MainOK
  <2>2. BooksOK'
    BY <1>10 DEF Crash, BooksOK
  <2>3. UsedOK'
    BY <1>10 DEF Crash, UsedOK
  <2>4. FlagsOK'
    BY <1>10 DEF Crash, FlagsOK
  <2>q. QED BY <2>1, <2>2, <2>3, <2>4
<1>11. CASE Start
  BY <1>11 DEF Start, memory, CursorsOK, MainOK, BooksOK, UsedOK, FlagsOK
<1>12. CASE UNCHANGED vars
  BY <1>12 DEF vars, memory, CursorsOK, MainOK, BooksOK, UsedOK, FlagsOK
<1>q. QED BY <1>1, <1>2, <1>3, <1>4, <1>5, <1>6, <1>7, <1>8, <1>9, <1>10, <1>11, <1>12 DEF Next, Sync

-----------------------------------------------------------------------------
(* The cursors: none is past what was charged, and all below it is settled.  *)
Safe(c) == c # NoCursor => c <= charged /\ 1..c \subseteq settled

(* The books of this life: only fees up to the cursor, once; an estimate, or  *)
(* the readiness to book one, only after the flow failed without a cursor.   *)
Books ==
  /\ \A k \in Fees : booked[k] > 0 => cursor # NoCursor /\ k <= cursor
  /\ \A k \in Fees : booked[k] <= 1
  /\ estimating => blind
  /\ \A k \in Fees : estimated[k] > 0 => blind

(* The flow that was fetched reaches as far as the exchange has charged.     *)
Inv == Safe(cursor) /\ Safe(file) /\ main.hi <= charged /\ Books

LEMMA InitInv == Init => Inv
BY NoCursorType DEF Init, Inv, Safe, Books, MainIdle

LEMMA StepInv == Typed /\ Inv /\ [Next]_vars => Inv'
<1> SUFFICES ASSUME Typed, Inv, [Next]_vars PROVE Inv'
  OBVIOUS
<1> USE NoCursorType DEF Typed, Inv
<1>1. CASE Charge
  BY <1>1 DEF Charge, Safe, Books, CursorsOK, Cursors, MainOK
<1>2. CASE Estimate
  BY <1>2 DEF Estimate, Safe, Books, BooksOK
<1>3. CASE Poll
  <2>1. Safe(cursor)' /\ Safe(file)' /\ (main.hi <= charged)'
    BY <1>3 DEF Poll, Newest, Remembered, None, Safe, CursorsOK
  <2>2. Books'
    BY <1>3 DEF Poll, Newest, Remembered, None, Books
  <2>q. QED BY <2>1, <2>2
<1>4. CASE PollFails
  BY <1>4 DEF PollFails, Remembered, None, Falls, Safe, Books
<1>5. CASE NothingNew
  BY <1>5 DEF NothingNew, MainIdle, Safe, Books, CursorsOK
<1>6. CASE Seed
  <2>1. main.hi \in 1..charged /\ main.hi # NoCursor
    BY <1>6 DEF Seed, MainOK, CursorsOK
  <2>2. Safe(cursor)' /\ Safe(file)' /\ (main.hi <= charged)'
    BY <1>6, <2>1 DEF Seed, Safe, MainOK
  <2>3. Books'
    BY <1>6 DEF Seed, None, Books, BooksOK
  <2>q. QED BY <2>2, <2>3
<1>7. CASE Book
  <2>1. /\ main.hi \in Nat /\ cursor \in Nat /\ main.hi # NoCursor /\ cursor < main.hi
        /\ cursor' = main.hi /\ (main.hi)' = main.hi
    BY <1>7 DEF Book, MainOK, CursorsOK, Cursors
  <2>2. Safe(cursor)'
    <3>1. 1..main.hi \subseteq 1..cursor \cup Fresh
      BY <2>1 DEF Fresh
    <3>2. 1..cursor \subseteq settled
      BY <1>7 DEF Book, None, Safe
    <3>q. QED BY <1>7, <2>1, <3>1, <3>2 DEF Book, Safe
  <2>3. Safe(file)' /\ (main.hi <= charged)'
    BY <1>7, <2>1 DEF Book, Safe
  <2>4. ASSUME NEW k \in Fees
        PROVE  booked'[k] <= 1 /\ (booked'[k] > 0 => k <= main.hi)
    <3>1. booked[k] \in Nat /\ k \in Nat
      BY DEF BooksOK, Fees
    <3>2. CASE k \in Fresh
      <4>1. booked[k] = 0
        BY <2>1, <3>1, <3>2 DEF Fresh, Books
      <4>q. QED BY <1>7, <3>1, <3>2, <4>1 DEF Book, Fresh
    <3>3. CASE k \notin Fresh
      <4>1. booked'[k] = booked[k]
        BY <1>7, <3>3 DEF Book
      <4>q. QED BY <2>1, <3>1, <4>1 DEF Books
    <3>q. QED BY <3>2, <3>3
  <2>5. Books'
    BY <1>7, <2>1, <2>4 DEF Book, Books
  <2>q. QED BY <2>2, <2>3, <2>5
<1>8. CASE Write
  <2>1. Safe(cursor)' /\ Safe(file)' /\ (main.hi <= charged)'
    BY <1>8 DEF Write, MainIdle, Safe, CursorsOK, MainOK
  <2>2. Books'
    BY <1>8 DEF Write, Books
  <2>q. QED BY <2>1, <2>2
<1>9. CASE Dump
  BY <1>9 DEF Dump, MainIdle, Safe, Books, CursorsOK
<1>10. CASE Crash
  BY <1>10 DEF Crash, MainIdle, Safe, Books, CursorsOK
<1>11. CASE Start
  BY <1>11 DEF Start, memory, Safe, Books
<1>12. CASE UNCHANGED vars
  BY <1>12 DEF vars, memory, Safe, Books
<1>q. QED BY <1>1, <1>2, <1>3, <1>4, <1>5, <1>6, <1>7, <1>8, <1>9, <1>10, <1>11, <1>12 DEF Next, Sync

LEMMA Invariance == Spec => [](Typed /\ Inv)
<1>1. Init => Typed /\ Inv
  BY TypeInit, InitInv
<1>2. Typed /\ Inv /\ [Next]_vars => Typed' /\ Inv'
  BY TypeStep, StepInv
<1>q. QED BY <1>1, <1>2, PTL DEF Spec

-----------------------------------------------------------------------------
(* Cursors, books and threads of the ledger stay within their types          *)
(* (_sync_funding_income, FundingRateMonitor).                                *)
THEOREM LedgerTyped == Spec => []TypeOK
BY Invariance, TypedIsTypeOK, PTL

(* In one life no fee is booked twice from the flow (_sync_funding_income).  *)
THEOREM BookedOnceHolds == Spec => []BookedOnce
<1>1. Inv => BookedOnce
  BY DEF Inv, Books, BookedOnce
<1>q. QED BY <1>1, Invariance, PTL

(* Flow and estimate book the same fee only in a life that could not read    *)
(* the flow before it had a cursor (_enable_estimate_fallback).              *)
THEOREM OneSourceHolds == Spec => []OneSource
<1>1. Typed /\ Inv => OneSource
  BY DEF Typed, BooksOK, Inv, Books, OneSource
<1>q. QED BY <1>1, Invariance, PTL

(* The cursor file never skips a fee, whatever step of writing it a crash or *)
(* a full disk interrupts (_write_funding_state).                            *)
THEOREM FileIsSafeHolds == Spec => []FileIsSafe
<1>1. Inv => FileIsSafe
  BY DEF Inv, Safe, FileIsSafe
<1>q. QED BY <1>1, Invariance, PTL

-----------------------------------------------------------------------------
(* The books of a life are one run of fees: from the one after a cursor this *)
(* life started with (its own seed, or the file's) up to its cursor now.     *)
Run(s) == \A k \in Fees : booked[k] = IF cursor # NoCursor /\ s < k /\ k <= cursor THEN 1 ELSE 0
Gapless == \E s \in Cursors : Run(s) /\ (cursor # NoCursor => s <= cursor)

LEMMA InitGapless == Init => Gapless
BY NoCursorType DEF Init, Gapless, Run, Cursors

LEMMA StepGapless == Typed /\ Gapless /\ [Next]_vars => Gapless'
<1> SUFFICES ASSUME Typed, Gapless, [Next]_vars PROVE Gapless'
  OBVIOUS
<1> USE NoCursorType
<1>0. booked \in [Fees -> Nat] /\ main.hi \in 0..MaxFees /\ cursor \in Cursors /\ file \in Cursors /\ Fees \subseteq Nat
  BY DEF Typed, BooksOK, MainOK, CursorsOK, Fees
<1>1. PICK s \in Cursors : Run(s) /\ (cursor # NoCursor => s <= cursor)
  BY DEF Gapless
<1>2. CASE UNCHANGED <<booked, cursor>>
  BY <1>1, <1>2 DEF Run, Gapless
(* Without a cursor nothing is booked: the run begins wherever it is set.    *)
<1>3. ASSUME cursor = NoCursor, UNCHANGED booked, cursor' \in Cursors PROVE Gapless'
  BY <1>1, <1>3 DEF Run, Gapless, Fees, Cursors
<1>4. CASE Seed
  BY <1>0, <1>3, <1>4 DEF Seed, None, Cursors
<1>5. CASE Poll \/ PollFails
  BY <1>0, <1>2, <1>3, <1>5 DEF Poll, PollFails, Remembered, None
<1>6. CASE Book
  <2>1. /\ cursor # NoCursor /\ cursor < main.hi /\ cursor' = main.hi /\ main.hi # NoCursor
        /\ cursor \in Nat /\ s \in Nat /\ s <= cursor
    BY <1>0, <1>1, <1>6 DEF Book, None, Cursors
  <2>2. ASSUME NEW k \in Fees PROVE booked'[k] = IF s < k /\ k <= main.hi THEN 1 ELSE 0
    <3>1. booked'[k] = IF cursor < k /\ k <= main.hi THEN booked[k] + 1 ELSE booked[k]
      BY <1>0, <1>6, <2>1 DEF Book, Fresh, Fees
    <3>2. booked[k] = IF s < k /\ k <= cursor THEN 1 ELSE 0
      BY <1>1, <2>1 DEF Run
    <3>3. k \in Nat
      BY DEF Fees
    <3>q. QED BY <1>0, <2>1, <3>1, <3>2, <3>3
  <2>3. Run(s)'
    BY <2>1, <2>2 DEF Run
  <2>4. s <= cursor'
    BY <1>0, <2>1
  <2>q. QED BY <2>3, <2>4 DEF Gapless
<1>7. CASE Crash
  <2>1. booked' = [k \in Fees |-> 0] /\ cursor' = NoCursor
    BY <1>7 DEF Crash
  <2>q. QED BY <2>1 DEF Run, Gapless
<1>8. CASE Charge \/ Estimate \/ NothingNew \/ Write \/ Dump \/ Start \/ UNCHANGED vars
  BY <1>2, <1>8 DEF Charge, Estimate, NothingNew, Write, Dump, Start, memory, vars
<1>q. QED BY <1>4, <1>5, <1>6, <1>7, <1>8 DEF Next, Sync

(* The books of a life have no gap and no double: they hold, once each,      *)
(* exactly the fees after the one the life set out from, up to its cursor,   *)
(* however many fees arrive between two polls and whatever polls and writes  *)
(* fail in between (_sync_funding_income).                                    *)
THEOREM BooksAreARun ==
  Spec => [](\E s \in Cursors : \A k \in Fees :
               booked[k] = IF cursor # NoCursor /\ s < k /\ k <= cursor THEN 1 ELSE 0)
<1>1. Gapless => \E s \in Cursors : \A k \in Fees :
                    booked[k] = IF cursor # NoCursor /\ s < k /\ k <= cursor THEN 1 ELSE 0
  BY DEF Gapless, Run
<1>2. Typed /\ Inv /\ Gapless /\ [Next]_vars => Gapless'
  BY StepGapless
<1>q. QED BY <1>1, <1>2, InitGapless, Invariance, PTL DEF Spec

(* No fee is passed over: the cursor of the running process, too, and with   *)
(* it the one about to be written, has every fee up to it booked in some     *)
(* life or taken for history, so a fee that is missing in the books is above *)
(* it, where the next poll looks (_sync_funding_income).                     *)
THEOREM CursorIsSafe == Spec => [](cursor # NoCursor => 1..cursor \subseteq settled)
<1>1. Inv => (cursor # NoCursor => 1..cursor \subseteq settled)
  BY DEF Inv, Safe
<1>q. QED BY <1>1, Invariance, PTL

=============================================================================
