------------------------------ MODULE EventBus ------------------------------
(***************************************************************************)
(* The event bus on Redis streams, and one of its consumers:               *)
(*                                                                         *)
(*   "runner"    the command thread of the runner, with the stall check of *)
(*               its main loop, which stops trading by the same handler    *)
(*   "archive"   OpsArchive, the history of commands                       *)
(*   "trades"    OpsArchive, the history of closed positions               *)
(*   "panel"     StateStore, the dashboard's mirror of the positions       *)
(*                                                                         *)
(* Redis keeps the cursors of the groups apart and no consumer publishes   *)
(* from its handler, so a behaviour has one of the four, with its stream.  *)
(* A group has one consumer.  A stream keeps all messages: its bound of    *)
(* 10000 is not reached.  A message that could not be published is not in  *)
(* the stream, and its sender knows.                                       *)
(***************************************************************************)
EXTENDS Naturals, Sequences, FiniteSets

CONSTANTS
  MaxMessages,   \* bound: messages published
  MaxFaults,     \* bound: crashes, failed calls of Redis, silences of the feed
  Batch,         \* count: how many messages a consumer takes at once
  StallStrikes   \* stall_strikes

ASSUME BusAssumption ==
  /\ MaxMessages \in Nat /\ MaxFaults \in Nat
  /\ Batch \in Nat \ {0} /\ StallStrikes \in Nat \ {0}

VARIABLES
  who,       \* the consumer of this behaviour
  log,       \* the messages of its stream; a message's id is its place
  group,     \* its group in Redis: does it exist, the last id given out, those pending
             \*   (PEL), and which of these are idle for min_idle_ms
  th,        \* its thread: "down", at "poll" or after "claim"; the ids it has still to
             \*   deliver, and whether the handler is through with the least of them
  state,     \* what the handler keeps: the runner _circuit_breaker, the panel the position
             \*   that it shows, the archive the ids of its rows
  price,     \* runner, the last message to the feed: "none" so far, "fresh" or "stale"
  strikes,   \* runner: _stall_strikes
  faults,
  handled,   \* history: the messages that the handler has dealt with
  failed,    \* history: those whose insertion into the archive failed
  left,      \* history: those left pending by a crash or a failed XACK
  first,     \* history: where the group began
  base,      \* history: the last id given out when the process started
  replayed   \* history: the last id that was replayed when the process started

main    == <<price, strikes>>
history == <<handled, failed, left, first, base, replayed>>
vars    == <<who, log, group, th, state, main, faults, history>>

Consumers == {"runner", "archive", "trades", "panel"}
Archives  == {"archive", "trades"}
Ids       == 1..MaxMessages
Start     == CASE who = "runner" -> "none" [] who = "panel" -> "close" [] who \in Archives -> {}

(* What comes over the web socket of the dashboard, or from other senders. *)
Commands  == {"emergency_stop", "pause", "resume", "malformed"}
(* PortfolioTracker._publish. *)
Positions == {"open", "close"}
Kinds     == IF who \in {"runner", "archive"} THEN Commands ELSE Positions

(* What is pending has been given out, and what the thread has at hand is    *)
(* pending.                                                                  *)
TypeOK ==
  /\ who \in Consumers /\ log \in Seq(Kinds) /\ Len(log) <= MaxMessages
  /\ group.made \in BOOLEAN /\ group.last \in first..Len(log)
  /\ group.pending \subseteq (first + 1)..group.last /\ group.idle \subseteq group.pending
  /\ th.pc \in {"down", "poll", "claim"} /\ th.done \in BOOLEAN /\ th.todo \subseteq group.pending
  /\ who = "runner" => state \in {"none", "emergency_stop", "pause"}
  /\ who = "panel" => state \in {"open", "close"}
  /\ who \in Archives => state \subseteq Ids
  /\ price \in {"none", "fresh", "stale"} /\ strikes \in 0..(StallStrikes - 1)
  /\ faults \in 0..MaxFaults
  /\ {handled, failed, left} \subseteq SUBSET Ids /\ {first, base, replayed} \subseteq 0..MaxMessages

Down  == [pc |-> "down", todo |-> {}, done |-> FALSE]
Ready == [pc |-> "poll", todo |-> {}, done |-> FALSE]

Init ==
  /\ who \in Consumers
  /\ log = <<>>
  /\ group = [made |-> FALSE, last |-> 0, pending |-> {}, idle |-> {}]
  /\ th = Down /\ state = Start
  /\ price = "none" /\ strikes = 0
  /\ faults = 0
  /\ handled = {} /\ failed = {} /\ left = {} /\ first = 0 /\ base = 0 /\ replayed = 0

Fault == faults < MaxFaults /\ faults' = faults + 1

-----------------------------------------------------------------------------
(* EventBus.publish, by whoever holds a connection. *)
Publish ==
  /\ Len(log) < MaxMessages
  /\ \E m \in Kinds : log' = Append(log, m)
  /\ UNCHANGED <<who, group, th, state, main, faults, history>>

(* Mutant: the messages are replayed in the order in which XREVRANGE gives   *)
(* them.                                                                     *)
Replay_Backwards(events) == IF events = <<>> THEN Start ELSE Head(events)
Replay(events) == IF events = <<>> THEN Start ELSE events[Len(events)]

(* The process starts.  StateStore replays the stream before it consumes,    *)
(* unless Redis cannot be reached at the moment.                             *)
Boot ==
  /\ th.pc = "down" /\ th' = Ready
  /\ base' = group.last
  /\ \/ who # "panel" /\ UNCHANGED <<state, replayed, faults>>
     \/ who = "panel" /\ state' = Replay(log) /\ replayed' = Len(log) /\ UNCHANGED faults
     \/ who = "panel" /\ UNCHANGED state /\ replayed' = 0 /\ Fault
  /\ UNCHANGED <<who, log, group, main, handled, failed, left, first>>

-----------------------------------------------------------------------------
(* run_consumer. *)

(* xgroup_create: the group begins at "$". *)
Create ==
  /\ th.pc = "poll" /\ ~group.made
  /\ group' = [group EXCEPT !.made = TRUE, !.last = Len(log)]
  /\ first' = Len(log) /\ base' = Len(log)
  /\ UNCHANGED <<who, log, th, state, main, faults, handled, failed, left, replayed>>

Take(ids)  == {id \in ids : Cardinality({other \in ids : other < id}) < Batch}
Least(ids) == CHOOSE id \in ids : \A other \in ids : id <= other

(* Mutant: no _retry_pending. *)
Claimed_Never == {}
(* _retry_pending, XAUTOCLAIM: what has been pending for min_idle_ms. *)
Claimed == Take(group.idle)

(* If the claim fails, the consumer goes on to read. *)
Claim ==
  /\ th.pc = "poll" /\ th.todo = {} /\ group.made
  /\ \E ids \in {Claimed, {}} :
       /\ IF ids = Claimed THEN UNCHANGED faults ELSE Fault
       /\ th' = [th EXCEPT !.pc = "claim", !.todo = ids]
       /\ group' = [group EXCEPT !.idle = @ \ ids]
  /\ UNCHANGED <<who, log, state, main, history>>

(* XREADGROUP ">". *)
Read ==
  /\ th.pc = "claim" /\ th.todo = {}
  /\ LET ids == Take((group.last + 1)..Len(log)) IN
       /\ th' = [th EXCEPT !.pc = "poll", !.todo = ids]
       /\ group' = [group EXCEPT !.last = @ + Cardinality(ids), !.pending = @ \cup ids]
  /\ UNCHANGED <<who, log, state, main, faults, history>>

(* _handle_command. *)
Command(m) == IF m = "resume" THEN "none" ELSE m

(* StateStore._handle: the dashboard follows the runner's position events. *)
Mirror(m) == m

(* _event_ts: the message's time is the key of its row. *)
Key(id) == id

(* OpsArchive.on_command. *)
CommandRows(id) == state \cup {Key(id)}

(* OpsArchive.on_position: a trade is what is closed. *)
TradeRows(id) == IF log[id] = "close" THEN state \cup {Key(id)} ELSE state

After(id) ==
  IF log[id] = "malformed" THEN state
  ELSE CASE who = "archive" -> CommandRows(id)
         [] who = "trades" -> TradeRows(id)
         [] who = "panel" -> Mirror(log[id])
         [] who = "runner" -> Command(log[id])

(* _deliver: the handler is called, and called again when it raises; a       *)
(* message for which it raises twice is given up.  The archive's handler     *)
(* does not raise when the insertion fails.                                  *)
Handle ==
  /\ th.todo # {} /\ ~th.done
  /\ \/ state' = After(Least(th.todo)) /\ UNCHANGED <<faults, failed>>
     \/ who \in Archives /\ UNCHANGED state /\ failed' = failed \cup {Least(th.todo)} /\ Fault
  /\ handled' = IF log[Least(th.todo)] = "malformed" THEN handled ELSE handled \cup {Least(th.todo)}
  /\ th' = [th EXCEPT !.done = TRUE]
  /\ UNCHANGED <<who, log, group, main, left, first, base, replayed>>

(* XACK; when it fails the message stays pending. *)
Ack ==
  /\ th.todo # {} /\ th.done
  /\ \/ group' = [group EXCEPT !.pending = @ \ {Least(th.todo)}] /\ UNCHANGED <<faults, left>>
     \/ Fault /\ left' = left \cup {Least(th.todo)} /\ UNCHANGED group
  /\ th' = [th EXCEPT !.todo = @ \ {Least(th.todo)}, !.done = FALSE]
  /\ UNCHANGED <<who, log, state, main, handled, failed, first, base, replayed>>

Consume == Create \/ Claim \/ Read \/ Handle \/ Ack

(* 30 s pass for a message that nobody has at hand. *)
Idles ==
  /\ \E id \in group.pending \ (group.idle \cup th.todo) :
       group' = [group EXCEPT !.idle = @ \cup {id}]
  /\ UNCHANGED <<who, log, th, state, main, faults, history>>

-----------------------------------------------------------------------------
Runs == who = "runner" /\ th.pc # "down"

(* A mark price or a trade comes; or STALE_THRESHOLD passes without one. *)
FeedChanges ==
  /\ Runs
  /\ \/ price # "fresh" /\ price' = "fresh" /\ UNCHANGED faults
     \/ price = "fresh" /\ price' = "stale" /\ Fault
  /\ UNCHANGED <<who, log, group, th, state, strikes, history>>

(* Mutant: the check of old, which asks for a price, and there always is one *)
(* once there was one.                                                       *)
Stalled_NoPrice == price = "none"
Stalled == price = "stale"

(* Mutant: the count is not reset when it trips the breaker. *)
NewStrikes_KeepOn == strikes + 1
NewStrikes == IF strikes + 1 >= StallStrikes THEN 0 ELSE strikes + 1

(* _check_stall, for one symbol; one that never had a message is skipped. *)
CheckStall ==
  /\ Runs /\ price # "none"
  /\ IF ~Stalled THEN strikes' = 0 /\ UNCHANGED state
     ELSE /\ strikes' = NewStrikes
          /\ state' = IF strikes + 1 >= StallStrikes /\ state = "none" THEN "emergency_stop" ELSE state
  /\ UNCHANGED <<who, log, group, th, price, faults, history>>

(* A crash leaves in Redis what was pending; the archive is a file, the rest *)
(* is gone.                                                                  *)
Crash ==
  /\ th.pc # "down" /\ Fault
  /\ th' = Down
  /\ state' = IF who \in Archives THEN state ELSE Start
  /\ price' = "none" /\ strikes' = 0
  /\ left' = left \cup group.pending
  /\ UNCHANGED <<who, log, group, handled, failed, first, base, replayed>>

-----------------------------------------------------------------------------
Next == Publish \/ Boot \/ Consume \/ Idles \/ FeedChanges \/ CheckStall \/ Crash

Spec == Init /\ [][Next]_vars

(* pm2 starts what has crashed; consumers and the main loop go on; time      *)
(* passes.  Nothing is assumed of messages, faults and the feed.             *)
FairSpec == Spec /\ WF_vars(Boot) /\ WF_vars(Consume) /\ WF_vars(Idles) /\ WF_vars(CheckStall)

-----------------------------------------------------------------------------
(* _retry_pending: every message published after the group began is dealt    *)
(* with, or given up as malformed, and acknowledged in the end, whatever     *)
(* crashes and failed calls of Redis come before or while it is delivered.   *)
(* (Messages and faults are bounded: in the end means after the last one.)   *)
Done(id) == id <= group.last /\ id \notin group.pending /\ (log[id] = "malformed" \/ id \in handled)

Settled == <>[](group.made => \A id \in (first + 1)..Len(log) : Done(id))

(* The consumer has nothing left to do, and no message but perhaps the last  *)
(* was ever left over, to be redelivered after newer ones.                   *)
Quiet ==
  /\ th.pc # "down" /\ th.todo = {} /\ group.made
  /\ group.last = Len(log) /\ group.pending = {}
  /\ \A id \in left : id >= Len(log)

Belongs(id) == log[id] \notin {"malformed", "open"}

(* What a consumer holds follows from the last message: a stop or a pause    *)
(* that came since the runner started is in force, and the dashboard shows   *)
(* the position as the runner last told it, over restarts of both, unless    *)
(* the replay failed or the message fell between the replay and the          *)
(* creation of the group; and the archive misses what it could not insert.   *)
Current ==
  LET last == log[Len(log)] IN
  Quiet /\ log # <<>> =>
    /\ who = "runner" /\ Len(log) > base /\ last \in {"emergency_stop", "pause"} => state = last
    /\ who = "panel" /\ (Len(log) <= replayed \/ Len(log) > base) => state = last
    /\ who \in Archives => {id \in (first + 1)..Len(log) : Belongs(id)} \subseteq state \cup failed

(* When the feed goes silent for good, trading is stopped and stays so,      *)
(* whatever was commanded before and however often it is resumed meanwhile.  *)
Halted == who = "runner" /\ state # "none"
StallStops == <>[](Runs /\ price = "stale") => <>[]Halted
=============================================================================
