-------------------------- MODULE SentinelMonitor --------------------------
(***************************************************************************)
(* How the Sentinel controller makes every sentinel monitor every shard:   *)
(* the loop "Ensure all shards are being monitored" of Reconcile, with     *)
(* Cluster.Discover, IsMonitoringShards and Monitor.                       *)
(*                                                                         *)
(* Each call to a server or a sentinel is a step of its own: servers and   *)
(* sentinels stop and Sentinel fails over between two of them, and the     *)
(* operator may stop at any point.  What a sentinel does with a shard once *)
(* it monitors it is external, so is redis.                                *)
(***************************************************************************)
EXTENDS Integers

CONSTANTS
  Shards,        \* the shards of the topology
  Servers,       \* their redis servers: numbers in the order of the IDs
  ShardOf,       \* the shard of each server
  FirstMaster,   \* the master of each shard at first
  N,             \* the number of sentinels
  Scenarios      \* bound: how many outside events of each kind may come together

EventKinds == {"crash", "failover", "callError", "stop", "wipe", "operator"}
Sentinels  == 1..N

ASSUME MonitorAssumption ==
  /\ Shards # {} /\ N \in Nat
  /\ Servers \subseteq Nat \ {0}
  /\ ShardOf \in [Servers -> Shards]
  /\ FirstMaster \in [Shards -> Servers]
  /\ \A h \in Shards : ShardOf[FirstMaster[h]] = h
  /\ Scenarios \subseteq [EventKinds -> Nat]

VARIABLES
  role,      \* the role each server has
  up,        \* the servers that answer
  leader,    \* the master that the sentinels follow, of each shard
  running,   \* the sentinels that answer
  started,   \* the address each sentinel was told to monitor each shard at
  tuned,     \* the shards each sentinel has down-after-milliseconds set for
  cut,       \* those the setting was not reached for
  pc,        \* how far the loop is
  n,         \* the sentinel it is at
  todo,      \* the servers Discover has still to ask
  shards,    \* the shards Monitor has still to look at
  cur,       \* the one it is at
  known,     \* the roles in the cluster
  failed,    \* some server could not be discovered
  witness,   \* who was a master, and who was not, at some time since Begin
  events     \* number of outside events of each kind so far

redis    == <<role, up, leader>>
sentinel == <<started, tuned, cut>>
loop     == <<pc, n, todo, shards, cur, known, failed>>
vars     == <<redis, running, sentinel, loop, witness, events>>

NoServer == 0
Of(h) == {x \in Servers : ShardOf[x] = h}
Roles == {"master", "slave"}
KnownRoles == Roles \cup {"unknown"}
Phases == {"idle", "check", "discover", "shards", "monitor", "set"}

\* Every variable holds a value of its type.
TypeOK ==
  /\ role \in [Servers -> Roles] /\ up \subseteq Servers
  /\ leader \in [Shards -> Servers] /\ running \subseteq Sentinels
  /\ started \in [Sentinels -> [Shards -> Servers \cup {NoServer}]]
  /\ tuned \in [Sentinels -> SUBSET Shards] /\ cut \in [Sentinels -> SUBSET Shards]
  /\ pc \in Phases /\ n \in 1..(N + 1)
  /\ todo \subseteq Servers /\ shards \subseteq Shards /\ cur \in Shards
  /\ known \in [Servers -> KnownRoles] /\ failed \in BOOLEAN
  /\ witness \in [master : SUBSET Servers, other : SUBSET Servers]
  /\ events \in [EventKinds -> Nat]

Monitored(k) == {h \in Shards : started[k][h] # NoServer}

Init ==
  /\ leader = FirstMaster
  /\ role = [x \in Servers |-> IF FirstMaster[ShardOf[x]] = x THEN "master" ELSE "slave"]
  /\ up = Servers /\ running = Sentinels
  /\ started = [k \in Sentinels |-> [h \in Shards |-> NoServer]]
  /\ tuned = [k \in Sentinels |-> {}] /\ cut = [k \in Sentinels |-> {}]
  /\ pc = "idle" /\ n = 1 /\ todo = {} /\ shards = {}
  /\ cur \in {CHOOSE h \in Shards : TRUE}
  /\ known = [x \in Servers |-> "unknown"] /\ failed = FALSE
  /\ witness = [master |-> {}, other |-> {}]
  /\ events = [k \in EventKinds |-> 0]

Happens(kind) ==
  /\ events' = [events EXCEPT ![kind] = @ + 1]
  /\ events' \in Scenarios

-----------------------------------------------------------------------------
(* Redis and Sentinel.                                                     *)

IsMaster(x) == x \in up /\ role[x] = "master"

Witness ==
  witness' = [master |-> witness.master \cup {x \in Servers : IsMaster(x)'},
              other  |-> witness.other \cup {x \in Servers : ~IsMaster(x)'}]

Crash(x) ==
  /\ x \in up /\ Happens("crash")
  /\ up' = up \ {x}
  /\ UNCHANGED <<role, leader>>

\* A server comes back with the role it had.
Recover(x) ==
  /\ x \notin up
  /\ up' = up \cup {x}
  /\ UNCHANGED <<role, leader, events>>

\* The sentinels that monitor the shard promote a slave; who was the master
\* keeps that role until they reach it.
Failover(x) ==
  /\ IsMaster(x) = FALSE /\ x \in up
  /\ \E k \in running : ShardOf[x] \in Monitored(k)
  /\ Happens("failover")
  /\ role' = [role EXCEPT ![x] = "master"]
  /\ leader' = [leader EXCEPT ![ShardOf[x]] = x]
  /\ UNCHANGED up

Demote(x) ==
  /\ IsMaster(x) /\ leader[ShardOf[x]] # x
  /\ role' = [role EXCEPT ![x] = "slave"]
  /\ UNCHANGED <<up, leader, events>>

World ==
  /\ \E x \in Servers : Crash(x) \/ Recover(x) \/ Failover(x) \/ Demote(x)
  /\ Witness
  /\ UNCHANGED <<running, sentinel, loop>>

Stop(k) ==
  /\ k \in running /\ Happens("stop")
  /\ running' = running \ {k}
  /\ UNCHANGED <<redis, sentinel, loop, witness>>

Start(k) ==
  /\ k \notin running
  /\ running' = running \cup {k}
  /\ UNCHANGED <<redis, sentinel, loop, witness, events>>

\* The volume with the configuration of a sentinel is lost.
Wipe(k) ==
  /\ k \notin running /\ Happens("wipe")
  /\ started' = [started EXCEPT ![k] = [h \in Shards |-> NoServer]]
  /\ tuned' = [tuned EXCEPT ![k] = {}]
  /\ cut' = [cut EXCEPT ![k] = {}]
  /\ UNCHANGED <<redis, running, loop, witness>>

-----------------------------------------------------------------------------
(* The loop over the sentinels.                                            *)

\* The cluster is built from the topology with no roles.
Begin ==
  /\ pc = "idle"
  /\ pc' = "check" /\ n' = 1 /\ failed' = FALSE
  /\ known' = [x \in Servers |-> "unknown"]
  /\ witness' = [master |-> {x \in Servers : IsMaster(x)},
                 other  |-> {x \in Servers : ~IsMaster(x)}]
  /\ UNCHANGED <<redis, running, sentinel, todo, shards, cur, events>>

\* Mutant: one monitored shard is enough.
MonitoringSome(k) == Monitored(k) # {}

MonitoringShards(k) == Monitored(k) = Shards

IsMonitoringShards ==
  /\ pc = "check" /\ n \in running
  /\ IF MonitoringShards(n)
     THEN n' = n + 1 /\ UNCHANGED <<pc, todo, failed>>
     ELSE pc' = "discover" /\ todo' = Servers /\ failed' = FALSE /\ UNCHANGED n
  /\ UNCHANGED <<redis, running, sentinel, shards, cur, known, witness, events>>

\* The watchers, the gatherers and the status follow (Threads, Discovery).
LoopDone ==
  /\ pc = "check" /\ n = N + 1
  /\ pc' = "idle"
  /\ UNCHANGED <<redis, running, sentinel, n, todo, shards, cur, known, failed, witness, events>>

\* What the role of a server becomes that does not answer.
UndiscoveredRole == "unknown"

\* A server is asked for its role; the others are asked even if it fails.
Discover(x) ==
  /\ pc = "discover" /\ x \in todo
  /\ todo' = todo \ {x}
  /\ \/ /\ x \in up
        /\ known' = [known EXCEPT ![x] = role[x]]
        /\ UNCHANGED <<failed, events>>
     \/ /\ \/ x \notin up /\ UNCHANGED events
           \/ x \in up /\ Happens("callError")
        /\ known' = [known EXCEPT ![x] = UndiscoveredRole]
        /\ failed' = TRUE
  /\ UNCHANGED <<redis, running, sentinel, pc, n, shards, cur, witness>>

DiscoverDone ==
  /\ pc = "discover" /\ todo = {}
  /\ IF failed THEN pc' = "idle" /\ UNCHANGED shards
     ELSE pc' = "shards" /\ shards' = Shards
  /\ UNCHANGED <<redis, running, sentinel, n, todo, cur, known, failed, witness, events>>

-----------------------------------------------------------------------------
(* Monitor, for one sentinel.                                              *)

Masters(h) == {x \in Of(h) : known[x] = "master"}

\* Mutant: the first master will do.
SomeMaster(h) == Masters(h) # {}

HasMaster(h) == \E x \in Of(h) : Masters(h) = {x}

GetMaster(h) == CHOOSE x \in Masters(h) : \A y \in Masters(h) : x <= y

\* A shard the sentinel does not have, or that has not one master, ends it.
SentinelMaster(h) ==
  /\ pc = "shards" /\ h \in shards /\ n \in running
  /\ cur' = h
  /\ \/ h \in Monitored(n) /\ shards' = shards \ {h} /\ UNCHANGED pc
     \/ h \notin Monitored(n) /\ HasMaster(h) /\ pc' = "monitor" /\ UNCHANGED shards
     \/ h \notin Monitored(n) /\ ~HasMaster(h) /\ pc' = "idle" /\ UNCHANGED shards
  /\ UNCHANGED <<redis, running, sentinel, n, todo, known, failed, witness, events>>

SentinelMonitor ==
  /\ pc = "monitor" /\ n \in running
  /\ started' = [started EXCEPT ![n][cur] = GetMaster(cur)]
  /\ pc' = "set"
  /\ UNCHANGED <<redis, running, tuned, cut, n, todo, shards, cur, known, failed, witness, events>>

SentinelSet ==
  /\ pc = "set" /\ n \in running
  /\ tuned' = [tuned EXCEPT ![n] = @ \cup {cur}]
  /\ shards' = shards \ {cur}
  /\ pc' = "shards"
  /\ UNCHANGED <<redis, running, started, cut, n, todo, cur, known, failed, witness, events>>

MonitorDone ==
  /\ pc = "shards" /\ shards = {}
  /\ pc' = "check" /\ n' = n + 1
  /\ UNCHANGED <<redis, running, sentinel, todo, shards, cur, known, failed, witness, events>>

\* Any call to a sentinel may fail, and the reconcile ends with the error.
\* That of SentinelMonitor may have been carried out all the same.
SentinelFails ==
  /\ \/ pc = "check" /\ n <= N
     \/ pc = "shards" /\ shards # {}
     \/ pc \in {"monitor", "set"}
  /\ \/ n \notin running /\ UNCHANGED events
     \/ n \in running /\ Happens("callError")
  /\ \/ pc = "monitor" /\ n \in running /\ started' = [started EXCEPT ![n][cur] = GetMaster(cur)]
     \/ UNCHANGED started
  /\ cut' = [cut EXCEPT ![n] =
               IF pc = "set" \/ started' # started THEN @ \cup {cur} ELSE @]
  /\ pc' = "idle"
  /\ UNCHANGED <<redis, running, tuned, n, todo, shards, cur, known, failed, witness>>

\* The operator stops and starts again.
OperatorRestart ==
  /\ pc # "idle" /\ Happens("operator")
  /\ cut' = [k \in Sentinels |-> IF pc = "set" /\ k = n THEN cut[k] \cup {cur} ELSE cut[k]]
  /\ pc' = "idle"
  /\ UNCHANGED <<redis, running, started, tuned, n, todo, shards, cur, known, failed, witness>>

Reconcile ==
  \/ Begin \/ IsMonitoringShards \/ LoopDone
  \/ \E x \in Servers : Discover(x)
  \/ DiscoverDone
  \/ \E h \in Shards : SentinelMaster(h)
  \/ SentinelMonitor \/ SentinelSet \/ MonitorDone \/ SentinelFails

Next ==
  \/ World \/ Reconcile \/ OperatorRestart
  \/ \E k \in Sentinels : Stop(k) \/ Start(k) \/ Wipe(k)

Spec == Init /\ [][Next]_vars

\* The controller reconciles every 30 s and after every error.
FairSpec == Spec /\ WF_vars(Reconcile)

-----------------------------------------------------------------------------
(* Properties.                                                             *)

\* Monitor never guesses: the server a sentinel is told to monitor was a
\* master at some time during the reconcile, and every other server of the
\* shard was seen not to be one, however failovers and crashes fall between the
\* calls of Discover (GetMaster: "error if zero or more than one master is
\* found").
NeverGuesses ==
  [][\A k \in Sentinels, h \in Shards :
       LET x == started'[k][h] IN
       x # started[k][h] /\ x # NoServer =>
         /\ x \in witness.master
         /\ Of(h) \ {x} \subseteq witness.other]_vars

\* What makes it so.  The witness saw the roles as they are and as they were
\* discovered; Monitor is reached with every role discovered, and its call only
\* for a shard with one master.
Witnessed ==
  /\ pc # "idle" =>
       \A x \in Servers : IF IsMaster(x) THEN x \in witness.master ELSE x \in witness.other
  /\ \A x \in Servers : /\ known[x] = "master" => x \in witness.master
                        /\ known[x] = "slave" => x \in witness.other

Discovered ==
  /\ pc = "discover" /\ ~failed => \A x \in Servers \ todo : known[x] # "unknown"
  /\ pc \in {"shards", "monitor", "set"} => \A x \in Servers : known[x] # "unknown"
  /\ pc \in {"discover", "shards", "monitor", "set"} => n \in Sentinels
  /\ pc = "monitor" => HasMaster(cur)

MonitorInv == Witnessed /\ Discovered

MastersUp == \A h \in Shards : \E x \in Of(h) : /\ IsMaster(x)
                                                /\ \A y \in Of(h) \ {x} : role[y] # "master"
Healthy   == MastersUp /\ up = Servers /\ running = Sentinels

\* Once the servers and the sentinels stay healthy, every sentinel comes to
\* monitor every shard, with the down-after-milliseconds of the operator
\* unless the one call that sets it failed or the operator stopped before it.
Monitors ==
  <>[]Healthy => <>[](\A k \in Sentinels : /\ Monitored(k) = Shards
                                           /\ Shards \subseteq tuned[k] \cup cut[k])
=============================================================================
