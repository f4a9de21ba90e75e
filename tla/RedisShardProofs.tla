--------------------------- MODULE RedisShardProofs ---------------------------
(***************************************************************************)
(* Proofs about RedisShard, for any number of replicas, any indices and    *)
(* any number of restarts, replacements, failovers and errors.             *)
(***************************************************************************)
EXTENDS RedisShard, FiniteSetTheorems, TLAPS

-----------------------------------------------------------------------------
(* Types.                                                                  *)

\* A controller that has not begun is well typed.
LEMMA InitType == Init => TypeOK
  <1> SUFFICES ASSUME Init PROVE TypeOK
    OBVIOUS
  <1> USE DEF Init
  <1>1. /\ Absent \in Nodes /\ "unknown" \in Roles /\ "idle" \in Phases
        /\ NoIP \in Nat /\ FirstIndex \in Indices /\ 0 \in 0..Replicas
    BY ShardAssumption DEF Nodes, Absent, Roles, Phases, NoIP
  <1>2. seen \in [running : Nat, ready : Nat]
    OBVIOUS
  <1>3. ip \in [Pods -> Nat] /\ urls \in [Pods -> Nat] /\ events \in [EventKinds -> Nat]
    BY <1>1
  <1>4. slaveof \in [Pods -> Nat \cup {Loopback, NoOne}]
    OBVIOUS
  <1>5. found \in [Pods -> Roles] /\ status \in [Pods -> Nodes]
    BY <1>1
  <1>6. /\ fresh \in Nat \ {0} /\ index \in Indices /\ masterIndex \in Indices
        /\ next \in 0..Replicas /\ cur \in Nat
    BY <1>1
  <1>7. /\ {queued, failed, overtaken} \subseteq BOOLEAN /\ pc \in Phases
        /\ ready \subseteq Pods /\ todo \subseteq Pods
    BY <1>1
  <1> HIDE DEF Init
  <1> QED
    BY <1>2, <1>3, <1>4, <1>5, <1>6, <1>7 DEF TypeOK

\* The status of the StatefulSet is a pair of numbers.
LEMMA Counts ==
  ASSUME NEW S \in SUBSET Pods
  PROVE  Cardinality(S) \in Nat
  <1>1. IsFiniteSet(Pods)
    BY ShardAssumption, FS_Interval DEF Pods
  <1> QED
    BY <1>1, FS_Subset, FS_CardinalityType

\* Counting an event keeps the counters natural numbers.
LEMMA HappensType ==
  ASSUME TypeOK, NEW kind, Happens(kind)
  PROVE  events' \in [EventKinds -> Nat]
  BY ShardAssumption DEF Happens

\* What Kubernetes, redis and Sentinel do to the pods keeps the types.
LEMMA WorldType == TypeOK /\ World => TypeOK'
  <1> SUFFICES ASSUME TypeOK, World PROVE TypeOK'
    OBVIOUS
  <1> USE DEF TypeOK
  <1>1. pc' = pc /\ local' = local /\ status' = status
    BY DEF World
  <1>2. ASSUME NEW i \in Pods, StartPod(i), overtaken' = overtaken PROVE TypeOK'
    BY <1>1, <1>2 DEF StartPod, local, Loopback
  <1>3. ASSUME NEW i \in Pods, Restart(i), overtaken' = overtaken PROVE TypeOK'
    BY <1>1, <1>3, HappensType DEF Restart, local, Loopback
  <1>4. ASSUME NEW i \in Pods, Replace(i), overtaken' = overtaken PROVE TypeOK'
    BY <1>1, <1>4, HappensType DEF Replace, local, Loopback, NoIP
  <1>5. ASSUME NEW i \in Pods, Probe(i), overtaken' = overtaken PROVE TypeOK'
    BY <1>1, <1>5 DEF Probe, local
  <1>6. ASSUME NEW i \in Indices, EditIndex(i), overtaken' = overtaken PROVE TypeOK'
    BY <1>1, <1>6, HappensType DEF EditIndex, local
  <1>7. ASSUME StatefulSetStatus, overtaken' = overtaken PROVE TypeOK'
    <2>1. Cardinality(Running) \in Nat /\ Cardinality(ready) \in Nat
      BY Counts DEF Running
    <2> QED
      BY <1>1, <1>7, <2>1 DEF StatefulSetStatus, local
  <1>8. ASSUME NEW i \in Pods, Failover(i), overtaken' = (overtaken \/ Overtakes(i))
        PROVE  TypeOK'
    BY <1>1, <1>8, HappensType DEF Failover, local, NoOne, Overtakes
  <1> QED
    BY <1>2, <1>3, <1>4, <1>5, <1>6, <1>7, <1>8 DEF World

\* Every step of a reconcile keeps the types: what a server is attached to is
\* the address read for a pod.
LEMMA ReconcileType == TypeOK /\ Targets /\ Reconcile => TypeOK'
  <1> SUFFICES ASSUME TypeOK, Targets, Reconcile PROVE TypeOK'
    OBVIOUS
  <1> USE DEF TypeOK, Phases, Roles, cluster, local, Requeue
  <1>0. overtaken' = overtaken
    BY DEF Reconcile
  <1>1. CASE Begin
    <2>1. urls' \in [Pods -> Nat] /\ found' \in [Pods -> Roles] /\ next' \in 0..Replicas
      BY <1>1, ShardAssumption DEF Begin, NoIP
    <2> QED
      BY <1>0, <1>1, <2>1 DEF Begin
  <1>2. CASE GetPod
    <2>1. next \in Pods /\ next + 1 \in 0..Replicas
      BY <1>2, ShardAssumption DEF GetPod, Pods
    <2>2. ip[next] \in Nat
      BY <2>1
    <2>3. urls' \in [Pods -> Nat] /\ next' \in 0..Replicas
      BY <1>2, <2>1, <2>2 DEF GetPod
    <2> QED
      BY <1>0, <1>2, <2>3 DEF GetPod
  <1>3. CASE PodsDone
    BY <1>0, <1>3 DEF PodsDone
  <1>4. CASE MasterRole
    BY <1>0, <1>4 DEF MasterRole, RoleOf
  <1>5. CASE Promote
    BY <1>0, <1>5 DEF Promote, NoOne
  <1>6. CASE MasterFails
    BY <1>0, <1>6, HappensType DEF MasterFails
  <1>7. ASSUME NEW i \in Pods, SlaveRole(i) PROVE TypeOK'
    <2>1. i \in Nat
      BY ShardAssumption DEF Pods
    <2> QED
      BY <1>0, <1>7, <2>1 DEF SlaveRole, RoleOf
  <1>8. CASE MasterIsReady
    BY <1>0, <1>8 DEF MasterIsReady
  <1>9. CASE NilMaster
    BY <1>0, <1>9 DEF NilMaster
  <1>10. CASE Attach
    BY <1>0, <1>10 DEF Attach, Targets
  <1>11. CASE SlaveFails
    <2>1. Pods \subseteq Nat
      BY ShardAssumption DEF Pods
    <2>2. events' \in [EventKinds -> Nat]
      BY <1>11, HappensType DEF SlaveFails
    <2>3. cur' \in Nat /\ \E i : SlaveError(i)
      BY <1>11, <2>1 DEF SlaveFails
    <2> QED
      BY <1>0, <2>2, <2>3 DEF SlaveError
  <1>12. CASE SlavesDone
    BY <1>0, <1>12 DEF SlavesDone
  <1>13. CASE ReconcileStatus
    <2>1. \A i \in Pods : Shown(i) \in Nodes
      BY DEF Shown, Nodes, Absent, NoIP
    <2> QED
      BY <1>0, <1>13, <2>1 DEF ReconcileStatus
  <1> QED
    BY <1>1, <1>2, <1>3, <1>4, <1>5, <1>6, <1>7, <1>8, <1>9, <1>10, <1>11, <1>12, <1>13
       DEF Reconcile

\* Every step keeps the types.
LEMMA NextType == TypeOK /\ Targets /\ [Next]_vars => TypeOK'
  <1>1. TypeOK /\ Resync => TypeOK'
    BY DEF TypeOK, Resync, cluster, local
  <1>2. TypeOK /\ UNCHANGED vars => TypeOK'
    BY DEF TypeOK, vars, cluster, local
  <1> QED
    BY <1>1, <1>2, WorldType, ReconcileType DEF Next

\* Every step keeps the reconcile on the pods it is to look at.
LEMMA NextTargets == TypeOK /\ Targets /\ [Next]_vars => Targets'
  <1> SUFFICES ASSUME TypeOK, Targets, [Next]_vars PROVE Targets'
    OBVIOUS
  <1> USE DEF Targets
  <1>1. CASE World
    BY <1>1 DEF World, local
  <1>2. CASE Resync \/ UNCHANGED vars
    BY <1>2 DEF Resync, vars, local
  <1>3. CASE Reconcile
    <2> USE DEF local, Requeue
    <2>1. CASE Begin         BY <2>1 DEF Begin
    <2>2. CASE GetPod        BY <2>2 DEF GetPod
    <2>3. CASE PodsDone      BY <2>3 DEF PodsDone
    <2>4. CASE MasterRole    BY <2>4 DEF MasterRole
    <2>5. CASE Promote       BY <2>5 DEF Promote
    <2>6. CASE MasterFails   BY <2>6 DEF MasterFails
    <2>7. ASSUME NEW i \in Pods, SlaveRole(i) PROVE Targets'
      BY <2>7 DEF SlaveRole
    <2>8. CASE MasterIsReady BY <2>8 DEF MasterIsReady
    <2>9. CASE NilMaster     BY <2>9 DEF NilMaster
    <2>10. CASE Attach       BY <2>10 DEF Attach
    <2>11. CASE SlaveFails   BY <2>11 DEF SlaveFails, SlaveError
    <2>12. CASE SlavesDone   BY <2>12 DEF SlavesDone
    <2>13. CASE ReconcileStatus BY <2>13 DEF ReconcileStatus
    <2> QED
      BY <1>3, <2>1, <2>2, <2>3, <2>4, <2>5, <2>6, <2>7, <2>8, <2>9, <2>10, <2>11, <2>12,
         <2>13 DEF Reconcile
  <1> QED
    BY <1>1, <1>2, <1>3 DEF Next

\* Every variable keeps its type and the reconcile looks at pods only, for any
\* number of replicas: in particular a master index that names no pod is never
\* used to read an address.
THEOREM TypeCorrect == Spec => [](TypeOK /\ Targets)
  <1>1. Init => Targets
    BY DEF Init, Targets
  <1> QED
    BY <1>1, InitType, NextType, NextTargets, PTL DEF Spec

-----------------------------------------------------------------------------
(* Addresses.                                                              *)

\* Addresses are never given twice, and are known before they are used.
LEMMA NextAddresses == TypeOK /\ Targets /\ Addresses /\ [Next]_vars => Addresses'
  <1> SUFFICES ASSUME TypeOK, Targets, Addresses, [Next]_vars PROVE Addresses'
    OBVIOUS
  <1> USE DEF TypeOK, Addresses, NoOne, Loopback, NoIP
  <1>1. CASE World
    <2>0. urls' = urls
      BY <1>1 DEF World, local
    <2>1. ASSUME NEW i \in Pods, StartPod(i) PROVE Addresses'
      <3>1. \A j \in Pods : ip'[j] = IF j = i THEN fresh ELSE ip[j]
        BY <2>1 DEF StartPod
      <3>2. \A j \in Pods : slaveof'[j] < fresh + 1
        BY <2>1 DEF StartPod
      <3> QED
        BY <2>0, <2>1, <3>1, <3>2 DEF StartPod
    <2>2. ASSUME NEW i \in Pods, Restart(i) \/ Replace(i) PROVE Addresses'
      BY <2>0, <2>2 DEF Restart, Replace
    <2>3. ASSUME NEW i \in Pods, Failover(i) PROVE Addresses'
      BY <2>0, <2>3 DEF Failover
    <2>4. CASE ~\E i \in Pods : StartPod(i) \/ Restart(i) \/ Replace(i) \/ Failover(i)
      BY <1>1, <2>0, <2>4 DEF World, Probe, EditIndex, StatefulSetStatus
    <2> QED
      BY <2>1, <2>2, <2>3, <2>4
  <1>2. CASE Resync \/ UNCHANGED vars
    BY <1>2 DEF Resync, vars, cluster, local
  <1>3. CASE Reconcile
    <2>1. CASE Begin
      BY <2>1 DEF Begin, cluster
    <2>2. CASE GetPod
      <3>1. next \in Pods
        BY <2>2, ShardAssumption DEF GetPod, Pods
      <3>2. \A j \in Pods : urls'[j] \in {urls[j], ip[j]}
        BY <2>2, <3>1 DEF GetPod
      <3> QED
        BY <2>2, <3>2 DEF GetPod, cluster
    <2>3. CASE Promote
      BY <2>3 DEF Promote, local
    <2>4. CASE Attach
      BY <2>4 DEF Attach, Targets
    <2>5. CASE ~(Begin \/ GetPod \/ Promote \/ Attach)
      <3>1. cluster' = cluster /\ urls' = urls
        BY <1>3, <2>5 DEF Reconcile, PodsDone, MasterRole, MasterFails, SlaveRole, SlaveFails,
             SlaveError, MasterIsReady, NilMaster, SlavesDone, ReconcileStatus, local
      <3> QED
        BY <3>1 DEF cluster
    <2> QED
      BY <2>1, <2>2, <2>3, <2>4, <2>5
  <1> QED
    BY <1>1, <1>2, <1>3 DEF Next

-----------------------------------------------------------------------------
(* No cycles.                                                              *)

\* From the check of the master on, only a failover to the server itself makes
\* the master replicate it.
LEMMA NextAttachSafe ==
  TypeOK /\ Targets /\ Addresses /\ AttachSafe /\ [Next]_vars => AttachSafe'
  <1> SUFFICES ASSUME TypeOK, Targets, Addresses, AttachSafe, [Next]_vars,
                      pc' = "attach", cur' \in Running', slaveof'[masterIndex'] = ip'[cur']
               PROVE  overtaken'
    BY DEF AttachSafe
  <1> USE DEF TypeOK, Addresses, AttachSafe, Targets, Running, NoOne, Loopback, NoIP
  <1>1. CASE World
    <2>1. pc = "attach" /\ cur' = cur /\ masterIndex' = masterIndex
      BY <1>1 DEF World, local
    <2>2. cur \in Pods /\ masterIndex \in Pods /\ cur # masterIndex
      BY <2>1
    <2>3. ASSUME NEW i \in Pods, StartPod(i), overtaken' = overtaken PROVE overtaken'
      BY <2>1, <2>2, <2>3 DEF StartPod
    <2>4. ASSUME NEW i \in Pods, Restart(i) \/ Replace(i), overtaken' = overtaken
          PROVE  overtaken'
      BY <2>1, <2>2, <2>4 DEF Restart, Replace
    <2>5. ASSUME NEW i \in Pods, Failover(i), overtaken' = (overtaken \/ Overtakes(i))
          PROVE  overtaken'
      <3>1. \A p \in Pods :
               slaveof'[p] = IF p = i THEN NoOne ELSE IF ip[p] # NoIP THEN ip[i] ELSE slaveof[p]
        BY <2>5 DEF Failover
      <3>2. ip[i] # NoIP /\ ip' = ip
        BY <2>5 DEF Failover
      <3>3. CASE i = cur
        BY <2>1, <2>5, <3>3 DEF Overtakes
      <3>4. CASE i # cur /\ overtaken
        BY <2>5, <3>4
      <3>5. CASE i # cur /\ ~overtaken
        <4>1. slaveof[masterIndex] # ip[cur]
          BY <2>1, <2>2, <3>2, <3>5
        <4>2. ip[i] # ip[cur] /\ NoOne # ip[cur]
          BY <2>2, <3>2, <3>5
        <4> QED
          BY <2>1, <2>2, <3>1, <3>2, <4>1, <4>2
      <3> QED
        BY <3>3, <3>4, <3>5
    <2>6. CASE ip' = ip /\ slaveof' = slaveof /\ overtaken' = overtaken
      BY <2>1, <2>2, <2>6
    <2> QED
      BY <1>1, <2>3, <2>4, <2>5, <2>6 DEF World, Probe, EditIndex, StatefulSetStatus
  <1>2. CASE Resync \/ UNCHANGED vars
    BY <1>2 DEF Resync, vars, cluster, local
  <1>3. CASE Reconcile
    <2>1. MasterIsReady
      BY <1>3 DEF Reconcile, Begin, GetPod, PodsDone, MasterRole, Promote, MasterFails, Requeue,
           SlaveRole, NilMaster, Attach, SlaveFails, SlaveError, SlavesDone, ReconcileStatus
    <2>2. slaveof'[masterIndex'] = NoOne /\ ip'[cur'] \in Nat
      BY <2>1 DEF MasterIsReady, Validated, IsMaster, cluster, local
    <2> QED
      BY <2>2
  <1> QED
    BY <1>1, <1>2, <1>3 DEF Next

\* Only Attach makes a cycle, of the server and its master.
LEMMA NextNoCycle ==
  TypeOK /\ Targets /\ Addresses /\ AttachSafe /\ NoCycle /\ [Next]_vars => NoCycle'
  <1> SUFFICES ASSUME TypeOK, Targets, Addresses, AttachSafe, NoCycle, [Next]_vars,
                      ~overtaken',
                      NEW i \in Pods, NEW j \in Pods, ip'[i] # NoIP, ip'[j] # NoIP,
                      slaveof'[i] = ip'[j], slaveof'[j] = ip'[i]
               PROVE  FALSE
    BY DEF NoCycle, Running
  <1> USE DEF TypeOK, Addresses, NoCycle, Running, NoOne, Loopback, NoIP
  <1>1. CASE World
    <2>0. ~overtaken
      BY <1>1 DEF World
    <2>1. ASSUME NEW p \in Pods, StartPod(p) PROVE FALSE
      BY <2>0, <2>1 DEF StartPod
    <2>2. ASSUME NEW p \in Pods, Restart(p) \/ Replace(p) PROVE FALSE
      BY <2>0, <2>2 DEF Restart, Replace
    <2>3. ASSUME NEW p \in Pods, Failover(p) PROVE FALSE
      BY <2>0, <2>3 DEF Failover
    <2>4. CASE ip' = ip /\ slaveof' = slaveof
      BY <2>0, <2>4
    <2> QED
      BY <1>1, <2>1, <2>2, <2>3, <2>4 DEF World, Probe, EditIndex, StatefulSetStatus
  <1>2. CASE Resync \/ UNCHANGED vars
    BY <1>2 DEF Resync, vars, cluster
  <1>3. CASE Reconcile
    <2>0. ~overtaken
      BY <1>3 DEF Reconcile
    <2>1. CASE Promote
      BY <2>0, <2>1 DEF Promote
    <2>2. CASE Attach
      <3>1. /\ cur \in Pods /\ masterIndex \in Pods /\ cur # masterIndex /\ pc = "attach"
            /\ ip[cur] # NoIP /\ ip' = ip
        BY <2>2 DEF Attach, Answers, Targets
      <3>2. \A p \in Pods : slaveof'[p] = IF p = cur THEN urls[masterIndex] ELSE slaveof[p]
        BY <2>2, <3>1 DEF Attach
      <3>3. slaveof[masterIndex] # ip[cur]
        BY <2>0, <3>1 DEF AttachSafe
      <3>4. \A p \in Pods : ip[p] # NoIP /\ ip[p] = urls[masterIndex] => p = masterIndex
        BY <3>1
      <3>5. CASE i = cur
        BY <3>1, <3>2, <3>3, <3>4, <3>5
      <3>6. CASE j = cur
        BY <3>1, <3>2, <3>3, <3>4, <3>6
      <3> QED
        BY <2>0, <3>1, <3>2, <3>5, <3>6
    <2>3. CASE ~(Promote \/ Attach)
      <3>1. ip' = ip /\ slaveof' = slaveof
        BY <1>3, <2>3 DEF Reconcile, Begin, GetPod, PodsDone, MasterRole, MasterFails, SlaveRole,
             SlaveFails, SlaveError, MasterIsReady, NilMaster, SlavesDone, ReconcileStatus, cluster
      <3> QED
        BY <2>0, <3>1
    <2> QED
      BY <2>1, <2>2, <2>3
  <1> QED
    BY <1>1, <1>2, <1>3 DEF Next

-----------------------------------------------------------------------------
(* Masters are kept.                                                       *)

\* A server found to need initialisation becomes a master only by a failover to
\* it, which takes its master to be off the validation.
LEMMA NextAttachesNoMaster ==
  TypeOK /\ Targets /\ AttachesNoMaster /\ [Next]_vars => AttachesNoMaster'
  <1> SUFFICES ASSUME TypeOK, Targets, AttachesNoMaster, [Next]_vars PROVE AttachesNoMaster'
    OBVIOUS
  <1> USE DEF TypeOK, Targets, AttachesNoMaster, Validated, Answers, IsMaster, Running,
              NoOne, Loopback, NoIP
  <1>1. CASE World
    <2>1. pc' = pc /\ cur' = cur /\ masterIndex' = masterIndex /\ urls' = urls
      BY <1>1 DEF World, local
    <2> SUFFICES ASSUME pc \in {"validate", "attach"}, masterIndex \in Pods
                 PROVE  AttachesNoMaster'
      BY <2>1
    <2>2. cur \in Pods /\ cur # masterIndex
      OBVIOUS
    <2>3. ASSUME NEW i \in Pods, StartPod(i), overtaken' = overtaken PROVE AttachesNoMaster'
      BY <2>1, <2>2, <2>3 DEF StartPod
    <2>4. ASSUME NEW i \in Pods, Restart(i) \/ Replace(i), overtaken' = overtaken
          PROVE  AttachesNoMaster'
      BY <2>1, <2>2, <2>4 DEF Restart, Replace
    <2>5. ASSUME NEW i \in Pods, Failover(i), overtaken' = (overtaken \/ Overtakes(i))
          PROVE  AttachesNoMaster'
      <3>1. \A p \in Pods :
               slaveof'[p] = IF p = i THEN NoOne ELSE IF ip[p] # NoIP THEN ip[i] ELSE slaveof[p]
        BY <2>5 DEF Failover
      <3>2. ip' = ip /\ ip[i] # NoOne
        BY <2>5 DEF Failover
      <3>3. CASE i = cur
        BY <2>1, <2>2, <2>5, <3>1, <3>2, <3>3 DEF Overtakes
      <3>4. CASE i # cur
        <4>1. ~IsMaster(cur)'
          BY <2>1, <2>2, <3>1, <3>2, <3>4
        <4> QED
          BY <4>1
      <3> QED
        BY <3>3, <3>4
    <2>6. CASE ip' = ip /\ slaveof' = slaveof /\ overtaken' = overtaken
      BY <2>1, <2>2, <2>6
    <2> QED
      BY <1>1, <2>3, <2>4, <2>5, <2>6 DEF World, Probe, EditIndex, StatefulSetStatus
  <1>2. CASE Resync \/ UNCHANGED vars
    BY <1>2 DEF Resync, vars, cluster, local
  <1>3. CASE Reconcile
    <2>1. ASSUME NEW i \in Pods, SlaveRole(i) PROVE AttachesNoMaster'
      BY <2>1 DEF SlaveRole, NeedsInit, cluster
    <2>2. CASE MasterIsReady
      BY <2>2 DEF MasterIsReady, cluster, local
    <2>3. CASE ~MasterIsReady /\ ~\E i \in Pods : SlaveRole(i)
      <3>1. pc' \notin {"validate", "attach"}
        BY <1>3, <2>3 DEF Reconcile, Begin, GetPod, PodsDone, MasterRole, Promote, MasterFails,
             Requeue, NilMaster, Attach, SlaveFails, SlaveError, SlavesDone, ReconcileStatus
      <3> QED
        BY <3>1
    <2> QED
      BY <2>1, <2>2, <2>3
  <1> QED
    BY <1>1, <1>2, <1>3 DEF Next

\* Of the steps of a reconcile only Attach makes a server a slave.
LEMMA StepKeepsMasters ==
  TypeOK /\ Targets /\ AttachesNoMaster /\ Reconcile /\ ~overtaken
    => \A i \in Pods : IsMaster(i) => slaveof'[i] = NoOne
  <1> SUFFICES ASSUME TypeOK, Targets, AttachesNoMaster, Reconcile, ~overtaken,
                      NEW i \in Pods, IsMaster(i)
               PROVE  slaveof'[i] = NoOne
    OBVIOUS
  <1> USE DEF TypeOK, IsMaster
  <1>1. CASE Promote
    BY <1>1 DEF Promote
  <1>2. CASE Attach
    <2>1. cur # i
      BY <1>2 DEF Attach, AttachesNoMaster
    <2> QED
      BY <1>2, <2>1 DEF Attach
  <1>3. CASE ~(Promote \/ Attach)
    BY <1>3 DEF Reconcile, Begin, GetPod, PodsDone, MasterRole, MasterFails, SlaveRole,
         SlaveFails, SlaveError, MasterIsReady, NilMaster, SlavesDone, ReconcileStatus, cluster
  <1> QED
    BY <1>1, <1>2, <1>3

-----------------------------------------------------------------------------
(* The theorems.                                                           *)

\* The inductive invariant: addresses name one pod for ever, the reconcile
\* attaches only pods other than the master, the master it has validated does
\* not come to replicate the server to attach unless that is promoted, and a
\* server promoted before the validation makes that fail.
THEOREM ShardInvariant == Spec => []ShardInv
  <1>1. Init => ShardInv
    BY DEF Init, ShardInv, Addresses, Targets, AttachSafe, AttachesNoMaster, NoCycle, Running,
           NoIP, Loopback
  <1> QED
    BY <1>1, TypeCorrect, NextTargets, NextAddresses, NextAttachSafe, NextNoCycle,
       NextAttachesNoMaster, PTL DEF Spec, ShardInv

\* However many failovers, restarts, replacements and errors there are, and for
\* any number of replicas, InitSlave makes no two servers replicate each other
\* and none itself, unless Sentinel promotes the server after InitSlave's check.
THEOREM NoCycles == Spec => []NoCycle
  BY ShardInvariant, PTL DEF ShardInv

\* For any number of replicas and any indices, setRedisRoles makes no master a
\* slave, whatever restarts, is replaced, is edited or fails over between its
\* calls, unless Sentinel promotes the server after InitSlave's check.
THEOREM MastersAreKept == Spec => MastersKept
  <1>1. TypeOK /\ ShardInv /\ [Next]_vars
          => [Reconcile /\ ~overtaken => \A i \in Pods : IsMaster(i) => slaveof'[i] = NoOne]_vars
    BY StepKeepsMasters DEF ShardInv
  <1> QED
    BY <1>1, TypeCorrect, ShardInvariant, PTL DEF Spec, MastersKept

=============================================================================
