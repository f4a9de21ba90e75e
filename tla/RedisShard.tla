----------------------------- MODULE RedisShard -----------------------------
(***************************************************************************)
(* The RedisShard controller: how the pods of a shard, which all start as  *)
(* slaves of 127.0.0.1, become one master and its slaves (setRedisRoles,   *)
(* Shard.Init, InitMaster, InitSlave), and what the status shows.          *)
(*                                                                         *)
(* Every call to a server is a step of its own.  Pods are restarted and    *)
(* replaced in between.  Kubernetes, redis and Sentinel are external.      *)
(***************************************************************************)
EXTENDS Integers, FiniteSets

CONSTANTS
  Replicas,      \* SlaveCount + 1
  Indices,       \* the values of MasterIndex over time
  FirstIndex,    \* the one at first
  Scenarios      \* bound: how many outside events of each kind may come together

EventKinds == {"restart", "replace", "index", "failover", "callError"}
Pods == 0..(Replicas - 1)

ASSUME ShardAssumption ==
  /\ Replicas \in Nat
  /\ Indices \subseteq Nat /\ FirstIndex \in Indices
  /\ Scenarios \subseteq [EventKinds -> Nat]

VARIABLES
  ip,        \* the address of each pod, NoIP until it has one
  fresh,     \* the next address to be given
  slaveof,   \* whom the server in the pod replicates
  ready,     \* the pods the readiness probe is satisfied with
  seen,      \* the status of the StatefulSet: how many pods run and are ready
  index,     \* spec.masterIndex
  queued,    \* a reconcile is requested
  pc,        \* how far the reconcile is
  next,      \* the pod it reads
  masterIndex,  \* the index it has read
  urls,      \* the addresses it has read
  todo,      \* the slaves it has still to look at
  cur,       \* the one it is at
  found,     \* Role of each server in the shard
  failed,    \* a slave could not be initialised
  status,    \* status.shardNodes
  overtaken, \* Sentinel has promoted a server that was about to be attached
  events     \* number of outside events of each kind so far

cluster == <<ip, fresh, slaveof, ready, seen, index>>
local   == <<next, masterIndex, urls, todo, cur, found, failed>>
vars    == <<cluster, queued, pc, local, status, overtaken, events>>

NoIP     == 0
Loopback == -1    \* slaveof 127.0.0.1, as in redis.conf
NoOne    == -2    \* slaveof NO ONE: a master
Nodes  == [role : {"absent", "master", "slave"}, addr : Nat]
Absent == [role |-> "absent", addr |-> NoIP]
Roles  == {"unknown", "master", "slave"}
Phases == {"idle", "pods", "master", "promote", "slaves", "validate", "attach", "status"}

\* Every variable holds a value of its type.
TypeOK ==
  /\ ip \in [Pods -> Nat] /\ fresh \in Nat \ {0}
  /\ slaveof \in [Pods -> Nat \cup {Loopback, NoOne}] /\ ready \subseteq Pods
  /\ seen \in [running : Nat, ready : Nat] /\ index \in Indices /\ queued \in BOOLEAN
  /\ pc \in Phases /\ next \in 0..Replicas /\ masterIndex \in Indices
  /\ urls \in [Pods -> Nat] /\ todo \subseteq Pods /\ cur \in Nat
  /\ found \in [Pods -> Roles] /\ failed \in BOOLEAN
  /\ status \in [Pods -> Nodes] /\ overtaken \in BOOLEAN /\ events \in [EventKinds -> Nat]

Init ==
  /\ ip = [i \in Pods |-> NoIP] /\ fresh = 1
  /\ slaveof = [i \in Pods |-> Loopback] /\ ready = {}
  /\ seen = [running |-> 0, ready |-> 0]
  /\ index = FirstIndex /\ queued = TRUE
  /\ pc = "idle" /\ next = 0 /\ masterIndex = FirstIndex
  /\ urls = [i \in Pods |-> NoIP] /\ todo = {} /\ cur = 0
  /\ found = [i \in Pods |-> "unknown"] /\ failed = FALSE
  /\ status = [i \in Pods |-> Absent] /\ overtaken = FALSE
  /\ events = [k \in EventKinds |-> 0]

Happens(kind) ==
  /\ events' = [events EXCEPT ![kind] = @ + 1]
  /\ events' \in Scenarios

-----------------------------------------------------------------------------
(* Kubernetes, redis and Sentinel.                                         *)

Running == {i \in Pods : ip[i] # NoIP}
IsMaster(i) == i \in Running /\ slaveof[i] = NoOne

\* A pod gets an address that no pod had before, and its server starts.
StartPod(i) ==
  /\ ip[i] = NoIP
  /\ ip' = [ip EXCEPT ![i] = fresh] /\ fresh' = fresh + 1
  /\ slaveof' = [slaveof EXCEPT ![i] = Loopback]
  /\ UNCHANGED <<ready, seen, index, queued, events>>

\* The container restarts, with the configuration of the ConfigMap.
Restart(i) ==
  /\ i \in Running /\ Happens("restart")
  /\ slaveof' = [slaveof EXCEPT ![i] = Loopback]
  /\ ready' = ready \ {i}
  /\ UNCHANGED <<ip, fresh, seen, index, queued>>

\* The pod is deleted; the StatefulSet starts another with its name.
Replace(i) ==
  /\ i \in Running /\ Happens("replace")
  /\ ip' = [ip EXCEPT ![i] = NoIP]
  /\ slaveof' = [slaveof EXCEPT ![i] = Loopback]
  /\ ready' = ready \ {i}
  /\ UNCHANGED <<fresh, seen, index, queued>>

\* The script ready.sh.
Probe(i) ==
  /\ i \in Running
  /\ ready' = IF slaveof[i] = Loopback THEN ready \ {i} ELSE ready \cup {i}
  /\ ready' # ready
  /\ UNCHANGED <<ip, fresh, slaveof, seen, index, queued, events>>

\* The StatefulSet is watched.
StatefulSetStatus ==
  /\ seen' = [running |-> Cardinality(Running), ready |-> Cardinality(ready)]
  /\ seen' # seen
  /\ queued' = TRUE
  /\ UNCHANGED <<ip, fresh, slaveof, ready, index, events>>

EditIndex(i) ==
  /\ i # index /\ Happens("index")
  /\ index' = i /\ queued' = TRUE
  /\ UNCHANGED <<ip, fresh, slaveof, ready, seen>>

\* Sentinel promotes a slave and points all the others at it.
Failover(i) ==
  /\ i \in Running /\ slaveof[i] > 0 /\ Happens("failover")
  /\ slaveof' = [j \in Pods |-> IF j = i THEN NoOne ELSE IF j \in Running THEN ip[i] ELSE slaveof[j]]
  /\ UNCHANGED <<ip, fresh, ready, seen, index, queued>>

\* The server is promoted after InitSlave has validated the master it will
\* attach the server to.
Overtakes(i) == pc = "attach" /\ i = cur

World ==
  /\ \/ /\ \/ \E i \in Pods : StartPod(i) \/ Restart(i) \/ Replace(i) \/ Probe(i)
           \/ \E i \in Indices : EditIndex(i)
           \/ StatefulSetStatus
        /\ UNCHANGED overtaken
     \/ \E i \in Pods : Failover(i) /\ overtaken' = (overtaken \/ Overtakes(i))
  /\ UNCHANGED <<pc, local, status>>

\* The caches are listed again every 10 hours.
Resync ==
  /\ ~queued
  /\ queued' = TRUE
  /\ UNCHANGED <<cluster, pc, local, status, overtaken, events>>

-----------------------------------------------------------------------------
(* setRedisRoles.                                                          *)

Begin ==
  /\ pc = "idle" /\ queued
  /\ pc' = "pods" /\ queued' = FALSE
  /\ next' = 0 /\ masterIndex' = index
  /\ urls' = [i \in Pods |-> NoIP] /\ found' = [i \in Pods |-> "unknown"]
  /\ failed' = FALSE
  /\ UNCHANGED <<cluster, todo, cur, status, events>>

\* The reconcile ends here and is requested again: an error, or a pause of 5
\* or 10 seconds.
Requeue == pc' = "idle" /\ queued' = TRUE

GetPod ==
  /\ pc = "pods" /\ next < Replicas
  /\ IF ip[next] = NoIP
     THEN Requeue /\ UNCHANGED <<next, urls>>
     ELSE /\ urls' = [urls EXCEPT ![next] = ip[next]]
          /\ next' = next + 1
          /\ UNCHANGED <<pc, queued>>
  /\ UNCHANGED <<cluster, masterIndex, todo, cur, found, failed, status, events>>

\* Shard.Init: the master first, if there is one with that index, then the others.
PodsDone ==
  /\ pc = "pods" /\ next = Replicas
  /\ pc' = IF masterIndex \in Pods THEN "master" ELSE "slaves"
  /\ todo' = Pods \ {masterIndex}
  /\ UNCHANGED <<cluster, queued, next, masterIndex, urls, cur, found, failed, status, events>>

\* The server that answers at the address read for a pod.
Answers(i) == i \in Running /\ ip[i] = urls[i]

\* What the role of a server shows; a call may fail.
RoleOf(i) == IF slaveof[i] = NoOne THEN "master" ELSE "slave"

\* Mutant: a server is initialised once.
NeedsInitOnce(i) == slaveof[i] = Loopback /\ status[i] = Absent

\* Mutant: every server that does not replicate the one at the index is initialised.
NeedsInitStray(i) == masterIndex \in Pods => slaveof[i] # urls[masterIndex]

NeedsInit(i) == slaveof[i] = Loopback

\* InitMaster.
MasterRole ==
  /\ pc = "master" /\ Answers(masterIndex)
  /\ IF NeedsInit(masterIndex)
     THEN pc' = "promote" /\ UNCHANGED found
     ELSE pc' = "slaves" /\ found' = [found EXCEPT ![masterIndex] = RoleOf(masterIndex)]
  /\ UNCHANGED <<cluster, queued, next, masterIndex, urls, todo, cur, failed, status, events>>

Promote ==
  /\ pc = "promote" /\ Answers(masterIndex)
  /\ slaveof' = [slaveof EXCEPT ![masterIndex] = NoOne]
  /\ pc' = "slaves"
  /\ UNCHANGED <<ip, fresh, ready, seen, index, queued, local, status, events>>

MasterFails ==
  /\ pc \in {"master", "promote"}
  /\ \/ ~Answers(masterIndex) /\ UNCHANGED events
     \/ Answers(masterIndex) /\ Happens("callError")
  /\ Requeue
  /\ UNCHANGED <<cluster, local, status>>

\* InitSlave, of each of the others.
SlaveRole(i) ==
  /\ pc = "slaves" /\ i \in todo /\ Answers(i)
  /\ cur' = i
  /\ IF NeedsInit(i)
     THEN pc' = "validate" /\ UNCHANGED <<todo, found>>
     ELSE /\ todo' = todo \ {i} /\ UNCHANGED pc
          /\ found' = [found EXCEPT ![i] = RoleOf(i)]
  /\ UNCHANGED <<cluster, queued, next, masterIndex, urls, failed, status, events>>

SlaveError(i) ==
  /\ failed' = TRUE /\ todo' = todo \ {i} /\ pc' = "slaves"
  /\ UNCHANGED <<cluster, queued, next, masterIndex, urls, found, status>>

\* Mutant: the master only has to answer.
ValidatedAnswers == Answers(masterIndex)

\* "validate first that the master is ready"
Validated == Answers(masterIndex) /\ IsMaster(masterIndex)

MasterIsReady ==
  /\ pc = "validate" /\ masterIndex \in Pods /\ Validated
  /\ pc' = "attach"
  /\ UNCHANGED <<cluster, queued, local, status, events>>

\* There is no server with the index of the master: InitSlave panics, and the
\* controller starts over.
NilMaster ==
  /\ pc = "validate" /\ masterIndex \notin Pods
  /\ Requeue
  /\ UNCHANGED <<cluster, local, status, events>>

Attach ==
  /\ pc = "attach" /\ Answers(cur)
  /\ slaveof' = [slaveof EXCEPT ![cur] = urls[masterIndex]]
  /\ todo' = todo \ {cur} /\ pc' = "slaves"
  /\ UNCHANGED <<ip, fresh, ready, seen, index, queued, next, masterIndex, urls, cur,
                 found, failed, status, events>>

SlaveFails ==
  \/ /\ pc = "slaves"
     /\ \E i \in todo : /\ \/ ~Answers(i) /\ UNCHANGED events
                           \/ Answers(i) /\ Happens("callError")
                        /\ cur' = i /\ SlaveError(i)
  \/ /\ pc = "validate" /\ masterIndex \in Pods
     /\ \/ ~Validated /\ UNCHANGED events
        \/ Validated /\ Happens("callError")
     /\ SlaveError(cur) /\ UNCHANGED cur
  \/ /\ pc = "attach"
     /\ \/ ~Answers(cur) /\ UNCHANGED events
        \/ Answers(cur) /\ Happens("callError")
     /\ SlaveError(cur) /\ UNCHANGED cur

SlavesDone ==
  /\ pc = "slaves" /\ todo = {}
  /\ IF failed THEN Requeue ELSE pc' = "status" /\ UNCHANGED queued
  /\ UNCHANGED <<cluster, local, status, events>>

-----------------------------------------------------------------------------
(* The status.                                                             *)

\* A server that has just been initialised has no role yet.
Shown(i) ==
  IF found[i] = "unknown" THEN Absent ELSE [role |-> found[i], addr |-> urls[i]]

\* The status is written if it changes, and the RedisShard is watched.
ReconcileStatus ==
  /\ pc = "status"
  /\ pc' = "idle"
  /\ status' = [i \in Pods |-> Shown(i)]
  /\ queued' = (queued \/ status' # status)
  /\ UNCHANGED <<cluster, local, events>>

Reconcile ==
  /\ \/ Begin \/ GetPod \/ PodsDone \/ MasterRole \/ Promote \/ MasterFails
     \/ \E i \in Pods : SlaveRole(i)
     \/ MasterIsReady \/ NilMaster \/ Attach \/ SlaveFails \/ SlavesDone \/ ReconcileStatus
  /\ UNCHANGED overtaken

Next == World \/ Resync \/ Reconcile

Spec == Init /\ [][Next]_vars

\* What Kubernetes does of its own accord.
Kubernetes ==
  /\ \/ \E i \in Pods : StartPod(i) \/ Probe(i)
     \/ StatefulSetStatus
  /\ UNCHANGED <<pc, local, status, overtaken>>

\* The periodic listing is needed: a container that restarts before it became
\* ready changes nothing in the status of the StatefulSet.
FairSpec == Spec /\ WF_vars(Reconcile) /\ WF_vars(Kubernetes) /\ WF_vars(Resync)

-----------------------------------------------------------------------------
(* Properties.                                                             *)

\* The controller makes no master a slave, which would cost it its data: not
\* when the index moves to another pod, nor when a pod that it moved to
\* restarts and is promoted beside the master there is, nor after a failover
\* it has not seen.  Only servers that are still slaves of 127.0.0.1 are
\* attached (redis_server.go:81).  Unless Sentinel promotes the very server
\* between InitSlave's check of the master and the call.
MastersKept ==
  [][Reconcile /\ ~overtaken => \A i \in Pods : IsMaster(i) => slaveof'[i] = NoOne]_vars

\* Every replica runs, the one with the index is the master, the others
\* replicate it, and the status shows that.
Established ==
  /\ Running = Pods
  /\ IsMaster(index)
  /\ \A i \in Pods \ {index} : slaveof[i] = ip[index]
  /\ status = [i \in Pods |-> [role |-> IF i = index THEN "master" ELSE "slave", addr |-> ip[i]]]

\* Whatever the restarts and the errors, the shard ends up established and
\* stays so, if the index is that of a pod, never moves to another pod, and
\* neither Sentinel nor a new address of the master interferes.
Establishes ==
  /\ [](events["failover"] = 0 /\ events["replace"] = 0)
  /\ [](index \in Pods => index = FirstIndex) /\ <>[](index \in Pods)
  => <>[]Established

\* A server is made a slave only of one that was found to be a master
\* ("validate first that the master is ready", redis_server.go:82), so that
\* after any failovers and restarts no server replicates itself or one that
\* replicates it.  Unless Sentinel promotes the very server between that
\* check and the call that makes it a slave.
NoCycle ==
  ~overtaken => ~\E i, j \in Running : slaveof[i] = ip[j] /\ slaveof[j] = ip[i]

-----------------------------------------------------------------------------
(* What makes them so: the parts of an inductive invariant.                *)

\* No two pods have the same address, and an address names the pod that it
\* was read for as long as any pod has it.
Addresses ==
  /\ \A i \in Pods : ip[i] < fresh /\ urls[i] < fresh /\ slaveof[i] < fresh
  /\ \A i, j \in Pods : ip[j] # NoIP /\ ip[j] \in {ip[i], urls[i]} => i = j

\* The reconcile looks at pods, and never attaches the master it was told of.
Targets ==
  /\ pc \in {"master", "promote", "attach"} => masterIndex \in Pods
  /\ pc \in {"master", "promote", "slaves", "validate", "attach"} => masterIndex \notin todo
  /\ pc \in {"validate", "attach"} => cur \in todo

\* A server that is about to be attached is not replicated by its master to be.
AttachSafe ==
  pc = "attach" /\ cur \in Running /\ slaveof[masterIndex] = ip[cur] => overtaken

\* A server that has become a master since it was found to need initialisation
\* has made the master it was to be attached to a slave, and one that becomes
\* a master after the check is the exception.
AttachesNoMaster ==
  /\ pc = "validate" /\ masterIndex \in Pods /\ IsMaster(cur) => ~Validated
  /\ pc = "attach" /\ IsMaster(cur) => overtaken

ShardInv == Addresses /\ Targets /\ AttachSafe /\ NoCycle /\ AttachesNoMaster

=============================================================================
