------------------------------ MODULE Discovery ------------------------------
(***************************************************************************)
(* How the operator finds out, through Sentinel, which redis server is the *)
(* master of each shard and which are its slaves (package sharded), and    *)
(* what it does with the answer: the targets of a TwemproxyConfig, or the  *)
(* status of the Sentinel resource.                                        *)
(*                                                                         *)
(* A discovery is a sequence of calls, to one sentinel and to the servers  *)
(* it names.  Every call is a step of its own, so that servers fail and    *)
(* Sentinel fails over from one to another while a discovery goes on.      *)
(* Sentinel and redis themselves are external.                             *)
(***************************************************************************)
EXTENDS Integers

CONSTANTS
  Shards,        \* the physical shards of the topology
  Servers,       \* their servers: numbers in the order of the server IDs
  ShardOf,       \* the shard of each server
  FirstMaster,   \* the master of each shard at first
  RW,            \* the servers with slave-read-only "no"
  Consumers,     \* who discovers: one of them in each behaviour
  Scenarios      \* bound: how many outside events of each kind may come together

EventKinds == {"crash", "failover", "sentinelError", "forget"}

ASSUME DiscoveryAssumption ==
  /\ Shards # {}
  /\ Servers \subseteq Nat \ {0}
  /\ ShardOf \in [Servers -> Shards]
  /\ FirstMaster \in [Shards -> Servers]
  /\ \A s \in Shards : ShardOf[FirstMaster[s]] = s
  /\ RW \subseteq Servers
  /\ Consumers \subseteq {"masters", "slaves-rw", "status"}
  /\ Scenarios \subseteq [EventKinds -> Nat]

VARIABLES
  consumer,   \* TwemproxyConfig with masters, or slaves too, or Sentinel status
  role,       \* the role each server has
  up,         \* the servers that answer
  announced,  \* the master of each shard in "sentinel master(s)"
  addr,       \* the one in "sentinel get-master-addr-by-name"
  flagged,    \* the servers with flag s_down or o_down in Sentinel
  monitored,  \* the shards the sentinel that answers monitors
  pc,         \* how far the discovery is
  unread,     \* the servers whose role Discover still has to ask for
  surveyed,   \* Discover was called: the list of servers started from its roles
  todo,       \* the shards of the listing it still has to look at
  cur,        \* the shard it is looking at
  master,     \* what "sentinel master" answered: server and down flag
  moved,      \* failoverInProgress
  slaves,     \* what is left of the answer to "sentinel slaves"
  known,      \* the role in the list of servers of the shard
  config,     \* the servers known to be read-write
  errs,       \* the kinds of errors so far
  targets,    \* the targets in the generated configuration
  status,     \* the roles in the status of the Sentinel resource
  witness,    \* who was a master at some time during this discovery
  events      \* number of outside events of each kind so far

world == <<consumer, role, up, announced, addr, flagged, monitored, events>>
local == <<unread, surveyed, todo, cur, master, moved, slaves, known, config, errs>>
vars  == <<world, pc, local, targets, status, witness>>

NoServer == 0
Of(s) == {x \in Servers : ShardOf[x] = s}
Roles == {"master", "slave"}
KnownRoles == Roles \cup {"absent", "unknown"}
Phases == {"idle", "monitoring", "roles", "ping", "masters", "shards", "addr", "role", "slaves",
           "servers", "targets"}
ErrorKinds == {"plain", "sentinel", "master", "slave", "failover"}
Answers == [server : Servers, down : BOOLEAN]
Targets == [master : Servers \cup {NoServer}, slave : Servers \cup {NoServer}]

\* Every variable holds a value of its type.
TypeOK ==
  /\ consumer \in Consumers
  /\ role \in [Servers -> Roles] /\ up \subseteq Servers
  /\ announced \in [Shards -> Servers] /\ addr \in [Shards -> Servers]
  /\ flagged \subseteq Servers /\ monitored \subseteq Shards
  /\ pc \in Phases /\ unread \subseteq Servers /\ surveyed \in BOOLEAN
  /\ todo \subseteq Shards /\ cur \in Shards
  /\ master \in Answers /\ moved \in BOOLEAN /\ slaves \subseteq Answers
  /\ known \in [Servers -> KnownRoles] /\ config \subseteq Servers
  /\ errs \subseteq ErrorKinds
  /\ targets \in [Shards -> Targets] /\ status \in [Servers -> KnownRoles]
  /\ witness \subseteq Servers
  /\ events \in [EventKinds -> Nat]

\* What discoveries start from: the topology of the Sentinel resource, or
\* nothing but the sentinels.
NewShardedClusterFromTopology ==
  [x \in Servers |-> IF consumer = "status" THEN "unknown" ELSE "absent"]

Init ==
  /\ consumer \in Consumers
  /\ announced = FirstMaster /\ addr = FirstMaster
  /\ role = [x \in Servers |-> IF FirstMaster[ShardOf[x]] = x THEN "master" ELSE "slave"]
  /\ up = Servers /\ flagged = {} /\ monitored = Shards
  /\ pc = "idle" /\ unread = {} /\ surveyed = FALSE /\ todo = {} /\ cur \in {CHOOSE s \in Shards : TRUE}
  /\ master = [server |-> FirstMaster[cur], down |-> FALSE] /\ moved = FALSE
  /\ slaves = {} /\ known = NewShardedClusterFromTopology /\ config = {}
  /\ errs = {}
  /\ targets = [s \in Shards |-> [master |-> FirstMaster[s], slave |-> FirstMaster[s]]]
  /\ status = role
  /\ witness = {}
  /\ events = [k \in EventKinds |-> 0]

-----------------------------------------------------------------------------
(* Redis and Sentinel.                                                     *)

discovery == <<pc, local, targets, status>>

Happens(kind) ==
  /\ events' = [events EXCEPT ![kind] = @ + 1]
  /\ events' \in Scenarios

\* What the properties compare with: who was a master at some time since the
\* discovery began.
Witness == witness' = witness \cup {x \in up' : role'[x] = "master"}

Crash(x) ==
  /\ x \in up
  /\ Happens("crash")
  /\ up' = up \ {x}
  /\ UNCHANGED <<role, announced, addr, flagged, monitored>>

\* A server comes back with the role it had, or as a slave when its
\* configuration file says so.
Recover(x) ==
  /\ x \notin up
  /\ up' = up \cup {x}
  /\ \E r \in {role[x], "slave"} : role' = [role EXCEPT ![x] = r]
  /\ UNCHANGED <<announced, addr, flagged, monitored, events>>

Flag(x) ==
  /\ flagged' = IF x \in up THEN flagged \ {x} ELSE flagged \cup {x}
  /\ flagged' # flagged
  /\ UNCHANGED <<role, up, announced, addr, monitored, events>>

\* A slave is promoted: of a master that is down, or on demand.
Promote(x) ==
  LET s == ShardOf[x] IN
  /\ x \in up /\ role[x] = "slave" /\ addr[s] = announced[s]
  /\ Happens("failover")
  /\ role' = [role EXCEPT ![x] = "master"]
  /\ addr' = [addr EXCEPT ![s] = x]
  /\ UNCHANGED <<up, announced, flagged, monitored>>

\* The failover ends: the new master is announced everywhere.
Switch(s) ==
  /\ addr[s] # announced[s]
  /\ announced' = [announced EXCEPT ![s] = addr[s]]
  /\ UNCHANGED <<role, up, addr, flagged, monitored, events>>

\* A former master is made a slave of the new one.
Demote(x) ==
  /\ x \in up /\ role[x] = "master" /\ addr[ShardOf[x]] # x
  /\ role' = [role EXCEPT ![x] = "slave"]
  /\ UNCHANGED <<up, announced, addr, flagged, monitored, events>>

\* The sentinel that answers has just been recreated and monitors nothing; the
\* Sentinel controller restores that, for its own status in MonitorShard.
Forget ==
  /\ monitored # {}
  /\ Happens("forget")
  /\ monitored' = {}
  /\ UNCHANGED <<role, up, announced, addr, flagged>>

Restore ==
  /\ consumer # "status" /\ monitored # Shards
  /\ monitored' = Shards
  /\ UNCHANGED <<role, up, announced, addr, flagged, events>>

World ==
  /\ \/ \E x \in Servers : Crash(x) \/ Recover(x) \/ Flag(x) \/ Promote(x) \/ Demote(x)
     \/ \E s \in Shards : Switch(s)
     \/ Forget \/ Restore
  /\ Witness
  /\ UNCHANGED <<consumer, discovery>>

-----------------------------------------------------------------------------
(* A reconcile.  The Sentinel controller makes the sentinels monitor the   *)
(* shards before it looks at its status, and on the same list of servers.  *)

Begin ==
  /\ pc = "idle"
  /\ pc' = IF consumer = "status" THEN "monitoring" ELSE "ping"
  /\ known' = NewShardedClusterFromTopology
  /\ config' = {} /\ errs' = {} /\ unread' = {} /\ surveyed' = FALSE
  /\ todo' = {} /\ slaves' = {}
  /\ moved' = FALSE
  /\ witness' = {x \in up : role[x] = "master"}
  /\ UNCHANGED <<world, cur, master, targets, status>>

\* IsMonitoringShards; if not, Cluster.Discover asks every server for its role.
IsMonitoringShards ==
  /\ pc = "monitoring"
  /\ IF monitored = Shards
     THEN pc' = "ping" /\ UNCHANGED <<unread, surveyed>>
     ELSE pc' = "roles" /\ unread' = Servers /\ surveyed' = TRUE
  /\ UNCHANGED <<world, todo, cur, master, moved, slaves, known, config, errs,
                 targets, status, witness>>

\* A server that does not answer ends the reconcile.
DiscoverRole(x) ==
  /\ pc = "roles" /\ x \in unread
  /\ unread' = unread \ {x}
  /\ IF x \in up
     THEN known' = [known EXCEPT ![x] = role[x]] /\ UNCHANGED pc
     ELSE known' = [known EXCEPT ![x] = "unknown"] /\ pc' = "idle"
  /\ UNCHANGED <<world, surveyed, todo, cur, master, moved, slaves, config, errs,
                 targets, status, witness>>

Masters(s)  == {x \in Of(s) : known[x] = "master"}
SlavesRW(s) == {x \in Of(s) : known[x] = "slave" /\ x \in config}

\* Monitor, a shard at a time: module SentinelMonitor has the details.  The
\* roles that Discover has noted stay in the list.
MonitorShard(s) ==
  /\ pc = "roles" /\ unread = {} /\ s \in Shards \ monitored
  /\ IF \E x \in Of(s) : Masters(s) = {x}
     THEN /\ monitored' = monitored \cup {s}
          /\ pc' = IF monitored' = Shards THEN "ping" ELSE "roles"
     ELSE pc' = "idle" /\ UNCHANGED monitored
  /\ UNCHANGED <<consumer, role, up, announced, addr, flagged, events, local,
                 targets, status, witness>>

\* A call to a sentinel in this loop fails, and the reconcile with it.
MonitoringFails ==
  /\ pc = "monitoring" \/ (pc = "roles" /\ unread = {})
  /\ Happens("sentinelError")
  /\ pc' = "idle"
  /\ UNCHANGED <<consumer, role, up, announced, addr, flagged, monitored, local,
                 targets, status, witness>>

-----------------------------------------------------------------------------
(* SentinelDiscover: a healthy sentinel, its masters, then every shard.    *)

\* GetSentinel: one of the sentinels answers a ping.
GetSentinel ==
  /\ pc = "ping"
  /\ pc' = "masters"
  /\ UNCHANGED <<world, local, targets, status, witness>>

SentinelMasters ==
  /\ pc = "masters"
  /\ pc' = "shards"
  /\ todo' = monitored
  /\ UNCHANGED <<world, unread, surveyed, cur, master, moved, slaves, known, config, errs,
                 targets, status, witness>>

\* No sentinel answers, or not with a list: a plain error ends the discovery.
SentinelUnreachable ==
  /\ pc \in {"ping", "masters"}
  /\ Happens("sentinelError")
  /\ errs' = errs \cup {"plain"}
  /\ pc' = "targets"
  /\ UNCHANGED <<consumer, role, up, announced, addr, flagged, monitored, unread, surveyed,
                 todo, cur, master, moved, slaves, known, config, targets, status, witness>>

-----------------------------------------------------------------------------
(* Shard.Discover with a sentinel.                                         *)

SentinelMaster(s) ==
  /\ pc = "shards" /\ s \in todo
  /\ cur' = s
  /\ todo' = todo \ {s}
  /\ master' = [server |-> announced[s], down |-> announced[s] \in flagged]
  /\ pc' = "addr"
  /\ UNCHANGED <<world, unread, surveyed, moved, slaves, known, config, errs, targets, status, witness>>

\* A call for one shard fails, on to the next one.
SentinelFails ==
  /\ Happens("sentinelError")
  /\ \/ /\ pc = "shards"
        /\ \E s \in todo : todo' = todo \ {s} /\ cur' = s
     \/ /\ pc \in {"addr", "slaves"}
        /\ UNCHANGED <<todo, cur>>
  /\ errs' = errs \cup {"sentinel"}
  /\ pc' = "shards"
  /\ UNCHANGED <<consumer, role, up, announced, addr, flagged, monitored, unread, surveyed,
                 master, moved, slaves, known, config, targets, status, witness>>

\* GetServerByID adds a server that is not in the list.
Listed(x) == IF known[x] = "absent" THEN "unknown" ELSE known[x]

\* The address of the master replaces the one "sentinel master" gave, its flags
\* do not.
SentinelGetMasterAddrByName ==
  LET x == addr[cur] IN
  /\ pc = "addr"
  /\ moved' = (master.server # x)
  /\ master' = [master EXCEPT !.server = x]
  /\ known' = [known EXCEPT ![x] = Listed(x)]
  /\ IF master.down
     THEN pc' = "shards" /\ errs' = errs \cup {"master"}
     ELSE pc' = "role" /\ UNCHANGED errs
  /\ UNCHANGED <<world, unread, surveyed, todo, cur, slaves, config, targets, status, witness>>

\* Mutant: the role that Sentinel claims is believed.
ConfirmedBySentinel(x, claimed) == IF x \in up THEN claimed ELSE "unknown"

\* Mutant: a server that is not what Sentinel claims keeps the role it reports.
ConfirmedAsReported(x, claimed) == IF x \in up THEN role[x] ELSE "unknown"

\* What RedisServer.Discover leaves as the role of a server, and what
\* Shard.Discover makes of it when it is not the role Sentinel claims.
Confirmed(x, claimed) == IF x \in up /\ role[x] = claimed THEN claimed ELSE "unknown"

DiscoverMaster ==
  LET x == master.server IN
  /\ pc = "role"
  /\ known' = [known EXCEPT ![x] = Confirmed(x, "master")]
  /\ IF known'[x] # "master"
     THEN pc' = "shards" /\ errs' = errs \cup {"master"}
     ELSE \/ consumer = "masters" /\ pc' = "shards" /\ UNCHANGED errs
          \/ /\ consumer # "masters"
             /\ IF moved
                THEN pc' = "shards" /\ errs' = errs \cup {"failover"}
                ELSE pc' = "slaves" /\ UNCHANGED errs
  /\ UNCHANGED <<world, unread, surveyed, todo, cur, master, moved, slaves, config,
                 targets, status, witness>>

SentinelSlaves ==
  /\ pc = "slaves"
  /\ slaves' = {[server |-> x, down |-> x \in flagged] : x \in Of(cur) \ {announced[cur]}}
  /\ pc' = "servers"
  /\ UNCHANGED <<world, unread, surveyed, todo, cur, master, moved, known, config, errs,
                 targets, status, witness>>

\* One slave of the answer; its configuration is read together with its role.
DiscoverSlave(a) ==
  LET x == a.server IN
  /\ pc = "servers" /\ a \in slaves
  /\ slaves' = slaves \ {a}
  /\ known' = [known EXCEPT ![x] = IF a.down THEN Listed(x) ELSE Confirmed(x, "slave")]
  /\ config' = IF ~a.down /\ x \in up /\ role[x] = "slave" /\ x \in RW
               THEN config \cup {x} ELSE config
  /\ errs' = IF a.down \/ known'[x] # "slave" THEN errs \cup {"slave"} ELSE errs
  /\ UNCHANGED <<world, pc, unread, surveyed, todo, cur, master, moved, targets, status, witness>>

SlavesDone ==
  /\ pc = "servers" /\ slaves = {}
  /\ pc' = "shards"
  /\ UNCHANGED <<world, local, targets, status, witness>>

ShardsDone ==
  /\ pc = "shards" /\ todo = {}
  /\ pc' = "targets"
  /\ UNCHANGED <<world, local, targets, status, witness>>

-----------------------------------------------------------------------------
(* What the answer is used for.                                            *)

\* cluster.Shards: those Sentinel listed.
Found == {s \in Shards : \E x \in Of(s) : known[x] # "absent"}

GetMaster(s) == CHOOSE x \in Of(s) : Masters(s) = {x}
FirstOf(S)   == CHOOSE x \in S : \A y \in S : x <= y

MasterTarget(s) == GetMaster(s)
SlaveTarget(s)  == IF SlavesRW(s) # {} THEN FirstOf(SlavesRW(s)) ELSE GetMaster(s)

\* Mutant: an error of a slave returns too.
FatalIncludingSlaves == errs \ {"plain"} # {}

\* Mutant: only failures of the servers count.
FatalServers == errs \cap {"master", "slave"} # {}

\* The errors after which nothing is generated.
Fatal ==
  IF consumer = "masters" THEN errs # {} ELSE errs \cap {"sentinel", "master"} # {}

\* NewGenerator: a shard that is not found has no target, and its line in the
\* configuration an empty address.
NewGenerator ==
  /\ pc = "targets" /\ consumer # "status"
  /\ pc' = "idle"
  /\ targets' =
       IF Fatal \/ \E s \in Found : \A x \in Of(s) : Masters(s) # {x}
       THEN targets
       ELSE [s \in Shards |->
              IF s \in Found
              THEN [master |-> MasterTarget(s),
                    slave  |-> IF consumer = "slaves-rw" THEN SlaveTarget(s) ELSE MasterTarget(s)]
              ELSE [master |-> NoServer, slave |-> NoServer]]
  /\ UNCHANGED <<world, local, status, witness>>

\* The roles go to the status unless a call to Sentinel failed.
SentinelStatusReconciler ==
  /\ pc = "targets" /\ consumer = "status"
  /\ pc' = "idle"
  /\ status' = IF "sentinel" \in errs THEN status ELSE known
  /\ UNCHANGED <<world, local, targets, witness>>

Discover ==
  \/ Begin \/ IsMonitoringShards \/ GetSentinel \/ SentinelMasters
  \/ \E x \in Servers : DiscoverRole(x)
  \/ \E s \in Shards : MonitorShard(s)
  \/ \E s \in Shards : SentinelMaster(s)
  \/ SentinelGetMasterAddrByName \/ DiscoverMaster \/ SentinelSlaves
  \/ \E a \in Answers : DiscoverSlave(a)
  \/ SlavesDone \/ ShardsDone
  \/ NewGenerator \/ SentinelStatusReconciler

Next == World \/ Discover \/ MonitoringFails \/ SentinelUnreachable \/ SentinelFails

Spec == Init /\ [][Next]_vars

\* The controllers reconcile for ever (the requests of the periodic reconcile
\* and of the watchers), and Sentinel finishes what it has begun.
Settling ==
  /\ \/ \E x \in Servers : Flag(x) \/ Demote(x)
     \/ \E s \in Shards : Switch(s)
     \/ Restore
  /\ Witness
  /\ UNCHANGED <<consumer, discovery>>

FairSpec == Spec /\ WF_vars(Discover) /\ WF_vars(Settling)

-----------------------------------------------------------------------------
(* Properties.                                                             *)

\* Failovers, crashes and errors in the middle of a discovery never make the
\* operator see two masters in a shard, if the discovery starts from a new list
\* of servers.  One that Discover has filled keeps the role of a master that
\* was overtaken since (Shard.Discover leaves the slaves of a shard alone during
\* a failover).
OneMaster ==
  ~surveyed => \A s \in Shards : \A x, y \in Masters(s) : x = y

\* What NewGenerator configures as the master of a shard, and what the status
\* comes to show as a master, was one at some time during the reconcile,
\* whatever Sentinel claims and whatever Discover had noted before.
MastersWereReal ==
  [][/\ \A s \in Shards : targets'[s] # targets[s] =>
          targets'[s].master \in witness \cup {NoServer}
     /\ \A x \in Servers : status'[x] = "master" /\ status[x] # "master" => x \in witness]_vars

\* With targets that are masters, a generated configuration has an address for
\* every shard, whichever of them fails ("any error discovering masters should
\* return", generator.go:107), as long as the sentinel monitors them all.
AllShardsTargeted ==
  consumer = "masters" /\ events["forget"] = 0 =>
    \A s \in Shards : targets[s].master # NoServer

\* Every shard has a master that answers, Sentinel and the server agree on it,
\* and the sentinel that answers monitors all shards.
Settled ==
  /\ monitored = Shards
  /\ \A s \in Shards : /\ addr[s] = announced[s] /\ addr[s] \in up \ flagged
                       /\ role[addr[s]] = "master"

\* The slaves that can be written to.
UsableRW(s) == {x \in Of(s) \cap RW \cap up : x \notin flagged /\ role[x] = "slave"}

\* The targets are the master of each shard, and its first usable read-write
\* slave or else the master; the status shows this master and no other.
Configured ==
  \A s \in Shards :
    IF consumer = "status" THEN \A x \in Of(s) : status[x] = "master" <=> x = addr[s]
    ELSE /\ targets[s].master = addr[s]
         /\ targets[s].slave = IF consumer = "slaves-rw" /\ UsableRW(s) # {}
                               THEN FirstOf(UsableRW(s)) ELSE addr[s]

\* When Sentinel and the masters have settled configuration or status follow, even
\* if slaves stay down: "Slave failures will just failover to the master
\* without returning error" (generator.go:122).
Converges == <>[]Settled => <>[]Configured
=============================================================================
