----------------------------- MODULE ProxyPool -----------------------------
(***************************************************************************)
(* The proxy pool, through which all traffic to the exchange goes.  Three  *)
(* processes share two files, the pool of nodes and the configuration of   *)
(* the proxy core, and the core itself:                                    *)
(*                                                                         *)
(*   "service"   proxy_pool.py --service: update, health check, watchdog   *)
(*   "task"      proxy_pool.py --all, from the task scheduler              *)
(*   "failover"  proxy_watchdog.py: probes the core, applies the pool      *)
(*                                                                         *)
(* Each runs scripts of the same steps.  Of a node the model keeps whether *)
(* its server answers and whether traffic gets through it to the exchange; *)
(* the groups for other traffic (auto, web-safe, iyf-fixed) are left out.  *)
(***************************************************************************)
EXTENDS Naturals, Sequences, FiniteSets

CONSTANTS
  Nodes,
  Supported,    \* nodes of a type in SUPPORTED_PROXY_TYPES
  Sources,      \* of each source the nodes that come from it
  Nodes0,       \* the nodes at the start
  MaxFails,     \* max_fail_count
  MaxEvents     \* bound: faults, changes of nodes, runs of the task and of the failover

ASSUME PoolAssumption ==
  /\ Supported \subseteq Nodes /\ Sources \subseteq SUBSET Nodes
  /\ Nodes0 \in [Nodes -> {"down", "up", "good"}]
  /\ MaxFails \in Nat \ {0}
  /\ MaxEvents \in Nat

VARIABLES
  file,    \* what the two files hold: {} if nothing can be read, or {the contents}
  tmp,     \* their .tmp files: who has it open, and what was written to it meanwhile
  core,    \* the core: does it listen, and with which configuration
  todo,    \* of each process: the steps it has yet to do
  mem,     \* of each process: the pool it has loaded
  hash,    \* of each process: the configuration it applied last (_last_written_hash)
  node,    \* of each node: its server is "down", "up", or it also lets traffic through
           \*   to the exchange ("good")
  used     \* what the bound counts

own   == <<todo, mem, hash>>
vars  == <<file, tmp, core, own, node, used>>

Procs  == {"service", "task", "failover"}
Files  == {"pool", "config"}
Nothing == {}   \* no file, or one with the text of two writers

Pools   == UNION {[D -> [healthy : BOOLEAN, fails : 0..MaxFails, ok : BOOLEAN]] : D \in SUBSET Nodes}
Configs == [proxies : SUBSET Supported, group : SUBSET Nodes, names : SUBSET Nodes]
Steps   == {"watchdog", "load", "merge", "connect", "probe", "save", "write", "reload", "force"}

(* A node counts as healthy from its last check exactly if that succeeded:   *)
(* merging must not bring a dead node to life nor bury a live one.           *)
TypeOK ==
  /\ file.pool \subseteq Pools /\ file.config \subseteq Configs
  /\ \A p \in Procs : /\ mem[p] \in Pools /\ todo[p] \in Seq(Steps)
                      /\ \A n \in DOMAIN mem[p] : mem[p][n].healthy <=> mem[p][n].fails = 0
                      /\ hash[p] \subseteq Configs
  /\ \A f \in Files : tmp[f].by \subseteq Procs
  /\ core.alive \in BOOLEAN /\ core.cfg \in Configs
  /\ node \in [Nodes -> {"down", "up", "good"}]
  /\ used \in 0..MaxEvents

Event == used < MaxEvents /\ used' = used + 1

-----------------------------------------------------------------------------
(* The scripts. *)

Update == <<"merge", "save", "write", "force">>
Check  == <<"connect", "probe", "save", "write", "reload">>
First  == <<"watchdog", "merge", "save", "connect", "probe", "save", "load", "write", "reload">>
All    == <<"merge", "save", "connect", "probe", "save", "load", "write", "force">>
Switch == <<"load", "write", "force">>

NoPool == [n \in {} |-> n]
Fresh  == [healthy |-> TRUE, fails |-> 0, ok |-> FALSE]
Idle   == [by |-> {}, text |-> {}]
Dead   == [alive |-> FALSE, cfg |-> [proxies |-> {}, group |-> {}, names |-> {}]]

Init ==
  /\ file = [pool |-> {NoPool}, config |-> Nothing]
  /\ tmp = [f \in Files |-> Idle]
  /\ core = Dead
  /\ todo = [p \in Procs |-> IF p = "service" THEN First ELSE <<>>]
  /\ mem = [p \in Procs |-> NoPool]
  /\ hash = [p \in Procs |-> Nothing]
  /\ node = Nodes0
  /\ used = 0

At(p, step) == todo[p] # <<>> /\ Head(todo[p]) = step
Done(p)     == todo' = [todo EXCEPT ![p] = Tail(@)]
Quit(p)     == todo' = [todo EXCEPT ![p] = <<>>]   \* an exception ends the script
Forget(p)   == mem' = [mem EXCEPT ![p] = NoPool]   \* it loads the pool before it uses it again

-----------------------------------------------------------------------------
(* config_generator: the proxies are the healthy nodes of a known type; the  *)
(* group for the exchange and the groups of each source in PORT_GROUPS hold  *)
(* those that a probe has passed, or while there are none all that are       *)
(* healthy, of any type ({} stands for DIRECT).                              *)

Healthy(pool) == {n \in DOMAIN pool : pool[n].healthy}
Proxies(pool) == Healthy(pool) \cap Supported

Group(pool, src) ==
  LET verified == {n \in Healthy(pool) \cap src : pool[n].ok}
  IN  IF verified # {} THEN verified ELSE Healthy(pool) \cap src

Config(pool) ==
  [proxies |-> Proxies(pool),
   group   |-> Group(pool, Nodes),
   names   |-> UNION {Group(pool, src) : src \in Sources \cup {Nodes}}]

(* The core takes a configuration as a whole, or refuses it. *)
Loads(text)  == \E c \in text : c.names \subseteq c.proxies
Running(text) == [alive |-> TRUE, cfg |-> CHOOSE c \in text : TRUE]

(* start_core; a core that is not up within START_TIMEOUT counts as dead. *)
StartCore ==
  \/ core' = (IF Loads(file.config) THEN Running(file.config) ELSE Dead) /\ UNCHANGED used
  \/ core' = Dead /\ Event

(* reload_core: PUT /configs, which the core refuses if it cannot load it. *)
ReloadCore ==
  IF ~core.alive THEN StartCore
  ELSE \/ core' = (IF Loads(file.config) THEN Running(file.config) ELSE core) /\ UNCHANGED used
       \/ UNCHANGED core /\ Event

-----------------------------------------------------------------------------
(* The steps of process p. *)

Watchdog(p) ==
  /\ At(p, "watchdog") /\ Done(p)
  /\ IF core.alive THEN UNCHANGED <<core, used>> ELSE StartCore
  /\ UNCHANGED <<file, tmp, mem, hash, node>>

(* load_pool, then Change.  A file that cannot be read ends the script. *)
LoadAnd(p, Change(_)) ==
  /\ \/ file.pool = Nothing /\ Quit(p) /\ Forget(p)
     \/ \E pool \in file.pool : Done(p) /\ mem' = [mem EXCEPT ![p] = Change(pool)]
  /\ UNCHANGED <<file, tmp, core, hash, node, used>>

Load(p) == At(p, "load") /\ LET Same(pool) == pool IN LoadAnd(p, Same)

(* merge_proxies: known nodes keep what is known of them; nodes that are no  *)
(* longer in the subscription stay too, except dead ones, after so many      *)
(* failures or (old) after so many days.                                     *)
Merged(pool, listed, old) ==
  LET gone == {n \in DOMAIN pool \ listed : pool[n].fails >= MaxFails \/ (n \in old /\ ~pool[n].healthy)}
  IN  [n \in (DOMAIN pool \cup listed) \ gone |-> IF n \in DOMAIN pool THEN pool[n] ELSE Fresh]

(* A source is downloaded, or else taken from the cache, or else left out.   *)
Download(src) == {src, {}}
Listings      == {listed \in SUBSET Nodes : \A src \in Sources : listed \cap src \in Download(src)}

Merge(p) ==
  /\ At(p, "merge")
  /\ \E listed \in Listings, old \in SUBSET Nodes :
       LET Change(pool) == Merged(pool, listed, old) IN LoadAnd(p, Change)

(* Mutant: the first stage asks the core, as before the loop was broken.     *)
Answers_ViaCore(n) == core.alive /\ n \in core.cfg.proxies /\ node[n] = "good"
Answers(n) == node[n] # "down"

(* Mutant: a success does not reset the count of failures. *)
Connected_KeepsFails(e, up) ==
  [e EXCEPT !.healthy = up, !.fails = IF up THEN @ ELSE IF @ < MaxFails THEN @ + 1 ELSE @]
Connected(e, up) ==
  [e EXCEPT !.healthy = up, !.fails = IF up THEN 0 ELSE IF @ < MaxFails THEN @ + 1 ELSE @]

(* health_check, first stage: a direct connection to each server. *)
Connect(p) ==
  /\ At(p, "connect")
  /\ LET Change(pool) == [n \in DOMAIN pool |-> Connected(pool[n], Answers(n))] IN LoadAnd(p, Change)

InConfig  == UNION {c.proxies : c \in file.config}
Passes(n) == core.alive /\ n \in core.cfg.proxies /\ node[n] = "good"

(* Second stage: the core tests each healthy node that is in its file. *)
Probe(p) ==
  /\ At(p, "probe") /\ Done(p)
  /\ mem' = [mem EXCEPT ![p] = [n \in DOMAIN @ |->
       IF @[n].healthy /\ n \in InConfig THEN [@[n] EXCEPT !.ok = Passes(n)] ELSE @[n]]]
  /\ UNCHANGED <<file, tmp, core, hash, node, used>>

(* save_pool and update_clash_config write FILE.tmp and rename it.  Another  *)
(* process that writes the same FILE.tmp mixes its text with this one's.     *)
Open(p, f, contents) ==
  /\ p \notin tmp[f].by
  /\ tmp' = [tmp EXCEPT ![f].by = @ \cup {p},
                      ![f].text = (IF tmp[f].by = {} THEN {} ELSE @) \cup {{contents}}]
  /\ UNCHANGED used

Text(f) == IF Cardinality(tmp[f].text) = 1 THEN tmp[f].text ELSE tmp[f].text \cup {Nothing}

(* The rename fails while somebody else has the .tmp file (or, for a moment, *)
(* the file itself) open.                                                    *)
Replaced(p, f) ==
  /\ tmp[f].by = {p}
  /\ \E text \in Text(f) : file' = [file EXCEPT ![f] = text]
  /\ tmp' = [tmp EXCEPT ![f] = Idle]
  /\ UNCHANGED used

NotReplaced(p, f) ==
  /\ p \in tmp[f].by
  /\ IF tmp[f].by # {p} THEN UNCHANGED used ELSE Event
  /\ tmp' = [tmp EXCEPT ![f].by = @ \ {p}]
  /\ UNCHANGED file

Save(p) ==
  /\ At(p, "save")
  /\ \/ Open(p, "pool", mem[p]) /\ UNCHANGED <<file, todo, mem>>
     \/ /\ Replaced(p, "pool") /\ Done(p)
        /\ IF Head(todo'[p]) \in {"connect", "load"} THEN Forget(p) ELSE UNCHANGED mem
     \/ NotReplaced(p, "pool") /\ Quit(p) /\ Forget(p)
  /\ UNCHANGED <<core, hash, node>>

(* apply_config does nothing without nodes, and nothing more when it cannot  *)
(* write.                                                                    *)
Skip(p) == todo' = [todo EXCEPT ![p] = Tail(Tail(@))]

Write(p) ==
  /\ At(p, "write")
  /\ \/ Proxies(mem[p]) = {} /\ Skip(p) /\ Forget(p)
        /\ UNCHANGED <<file, tmp, used>>
     \/ /\ Proxies(mem[p]) # {} /\ Open(p, "config", Config(mem[p]))
        /\ UNCHANGED <<file, todo, mem>>
     \/ Replaced(p, "config") /\ Done(p) /\ Forget(p)
     \/ NotReplaced(p, "config") /\ Skip(p) /\ Forget(p)
  /\ UNCHANGED <<core, hash, node>>

(* Mutant: the update, too, reloads the core only if the file has changed.   *)
MustReload_Changed(p) == file.config # hash[p]
MustReload(p) == At(p, "force") \/ file.config # hash[p]

(* What was applied is noted before the core has taken it. *)
Reload(p) ==
  /\ At(p, "reload") \/ At(p, "force")
  /\ Done(p)
  /\ IF MustReload(p)
     THEN hash' = [hash EXCEPT ![p] = file.config] /\ ReloadCore
     ELSE UNCHANGED <<hash, core, used>>
  /\ UNCHANGED <<file, tmp, mem, node>>

Proceed(p) ==
  \/ Watchdog(p) \/ Load(p) \/ Merge(p) \/ Connect(p) \/ Probe(p)
  \/ Save(p) \/ Write(p) \/ Reload(p)

-----------------------------------------------------------------------------
(* The loop of the service: what is due, then the watchdog. *)
Due(update, check) ==
  /\ todo["service"] = <<>>
  /\ todo' = [todo EXCEPT !["service"] =
                (IF update THEN Update ELSE <<>>) \o (IF check THEN Check ELSE <<>>) \o <<"watchdog">>]
  /\ UNCHANGED <<file, tmp, core, mem, hash, node, used>>

Restart ==
  /\ Event
  /\ todo' = [todo EXCEPT !["service"] = First]
  /\ tmp' = [f \in Files |-> [tmp[f] EXCEPT !.by = @ \ {"service"}]]
  /\ mem' = [mem EXCEPT !["service"] = NoPool]
  /\ hash' = [hash EXCEPT !["service"] = Nothing]
  /\ UNCHANGED <<file, core, node>>

RunTask ==
  /\ todo["task"] = <<>> /\ Event
  /\ todo' = [todo EXCEPT !["task"] = All]
  /\ hash' = [hash EXCEPT !["task"] = Nothing]
  /\ UNCHANGED <<file, tmp, core, mem, node>>

(* ProxyWatchdog.check_once: after so many bad probes in a row, and not too  *)
(* soon after the last time.  A probe is bad, too, when it is just slow.     *)
Failover ==
  /\ todo["failover"] = <<>> /\ Event
  /\ todo' = [todo EXCEPT !["failover"] = Switch]
  /\ UNCHANGED <<file, tmp, core, mem, hash, node>>

CoreDies ==
  /\ core.alive /\ core' = Dead /\ Event
  /\ UNCHANGED <<file, tmp, own, node>>

NodeChanges ==
  /\ Event
  /\ \E n \in Nodes : \E state \in {"down", "up", "good"} \ {node[n]} :
       node' = [node EXCEPT ![n] = state]
  /\ UNCHANGED <<file, tmp, core, own>>

-----------------------------------------------------------------------------
Next ==
  \/ \E p \in Procs : Proceed(p)
  \/ \E update, check \in BOOLEAN : Due(update, check)
  \/ Restart \/ RunTask \/ Failover \/ CoreDies \/ NodeChanges

Spec == Init /\ [][Next]_vars

(* Processes go on with what they do, update and check fall due again and    *)
(* again.  Nothing is assumed of the subscriptions; faults end, and so do    *)
(* the runs of the task and the failover.                                    *)
FairSpec ==
  /\ Spec
  /\ \A p \in Procs : WF_vars(Proceed(p))
  /\ SF_vars(\E check \in BOOLEAN : Due(TRUE, check))
  /\ SF_vars(\E update \in BOOLEAN : Due(update, TRUE))

-----------------------------------------------------------------------------
Readable == file.pool # Nothing

Serves == core.alive /\ \E n \in core.cfg.group : node[n] = "good"

(* health_check, "breaks the death loop": once some node of the pool answers *)
(* and lets traffic through for good, the core comes to run with such a node *)
(* in the group for the exchange, from whatever state of the core, the file  *)
(* and the marks, after crashes, failed reloads and writes of three          *)
(* processes; as long as the pool can be read.                               *)
Usable(n) ==
  /\ n \in Supported /\ node[n] = "good"
  /\ Readable /\ \A pool \in file.pool : n \in DOMAIN pool
Recovers  == (\E n \in Nodes : <>[]Usable(n)) => <>[]Serves

(* apply_config notes what it wrote before the core has taken it, and the    *)
(* three processes overwrite each other's file: still the core is never left *)
(* with an old configuration for good, for the update reloads it in any case.*)
NeverStuck ==
  (\E n \in Nodes : <>[]Usable(n)) => []<>(core.alive /\ file.config = {core.cfg})
=============================================================================
