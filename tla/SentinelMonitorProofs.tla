------------------------ MODULE SentinelMonitorProofs ------------------------
(***************************************************************************)
(* Proofs about SentinelMonitor, for any topology, any number of sentinels *)
(* and any number of crashes, failovers, errors and restarts.              *)
(***************************************************************************)
EXTENDS SentinelMonitor, TLAPS

-----------------------------------------------------------------------------
(* The operators.                                                          *)

\* GetMaster is the one master of a shard that has one.
LEMMA TheMaster ==
  ASSUME NEW h \in Shards, HasMaster(h)
  PROVE  /\ GetMaster(h) \in Servers
         /\ Masters(h) = {GetMaster(h)}
  <1>1. PICK x \in Of(h) : Masters(h) = {x}
    BY DEF HasMaster
  <1>2. x \in Nat
    BY <1>1, MonitorAssumption DEF Of
  <1>3. x <= x
    BY <1>2
  <1>4. GetMaster(h) \in Masters(h)
    BY <1>1, <1>3 DEF GetMaster
  <1> QED
    BY <1>1, <1>4 DEF Of

\* An outside event is counted.
LEMMA HappensType ==
  ASSUME NEW kind, Happens(kind)
  PROVE  events' \in [EventKinds -> Nat]
  BY MonitorAssumption DEF Happens

-----------------------------------------------------------------------------
(* Types.                                                                  *)

\* A controller that has not begun is well typed.
LEMMA InitType == Init => TypeOK
  <1> SUFFICES ASSUME Init PROVE TypeOK
    OBVIOUS
  <1> USE MonitorAssumption DEF Init
  <1>1. role \in [Servers -> Roles] /\ known \in [Servers -> KnownRoles]
    BY DEF Roles, KnownRoles
  <1>2. /\ started \in [Sentinels -> [Shards -> Servers \cup {NoServer}]]
        /\ tuned \in [Sentinels -> SUBSET Shards] /\ cut \in [Sentinels -> SUBSET Shards]
    OBVIOUS
  <1>3. cur \in Shards
    OBVIOUS
  <1>4. witness \in [master : SUBSET Servers, other : SUBSET Servers]
    OBVIOUS
  <1>5. n \in 1..(N + 1) /\ events \in [EventKinds -> Nat]
    OBVIOUS
  <1> QED
    BY <1>1, <1>2, <1>3, <1>4, <1>5 DEF TypeOK, Phases

\* The servers and the sentinels keep the types.
LEMMA WorldType == TypeOK /\ World => TypeOK'
  <1> SUFFICES ASSUME TypeOK, World PROVE TypeOK'
    OBVIOUS
  <1> USE DEF TypeOK
  <1>1. /\ running' = running /\ sentinel' = sentinel /\ loop' = loop
        /\ witness' \in [master : SUBSET Servers, other : SUBSET Servers]
    BY DEF World, Witness
  <1>2. ASSUME NEW x \in Servers, Crash(x) PROVE TypeOK'
    BY <1>1, <1>2, HappensType DEF Crash, sentinel, loop
  <1>3. ASSUME NEW x \in Servers, Recover(x) PROVE TypeOK'
    BY <1>1, <1>3 DEF Recover, sentinel, loop
  <1>4. ASSUME NEW x \in Servers, Failover(x) PROVE TypeOK'
    BY <1>1, <1>4, HappensType DEF Failover, sentinel, loop, Roles
  <1>5. ASSUME NEW x \in Servers, Demote(x) PROVE TypeOK'
    BY <1>1, <1>5 DEF Demote, sentinel, loop, Roles
  <1> QED
    BY <1>2, <1>3, <1>4, <1>5 DEF World

\* Every step of the loop keeps the types: it is at a sentinel, and asks it to
\* monitor a server.
LEMMA ReconcileType == TypeOK /\ MonitorInv /\ Reconcile => TypeOK'
  <1> SUFFICES ASSUME TypeOK, Witnessed, Discovered, Reconcile PROVE TypeOK'
    BY DEF MonitorInv
  <1> USE DEF TypeOK, Phases, Discovered, redis, sentinel
  <1>0. \A k \in Sentinels : k + 1 \in 1..(N + 1)
    BY MonitorAssumption DEF Sentinels
  <1>1. CASE Begin
    <2>1. known' \in [Servers -> KnownRoles] /\ n' \in 1..(N + 1)
      BY <1>1, MonitorAssumption DEF Begin, KnownRoles
    <2>2. witness' \in [master : SUBSET Servers, other : SUBSET Servers]
      BY <1>1 DEF Begin
    <2> QED
      BY <1>1, <2>1, <2>2 DEF Begin
  <1>2. CASE IsMonitoringShards
    BY <1>0, <1>2 DEF IsMonitoringShards
  <1>3. CASE LoopDone
    BY <1>3 DEF LoopDone
  <1>4. ASSUME NEW x \in Servers, Discover(x) PROVE TypeOK'
    <2>1. known' \in [Servers -> KnownRoles]
      BY <1>4 DEF Discover, KnownRoles, UndiscoveredRole
    <2>2. events' \in [EventKinds -> Nat]
      BY <1>4, HappensType DEF Discover
    <2> QED
      BY <1>4, <2>1, <2>2 DEF Discover
  <1>5. CASE DiscoverDone
    BY <1>5 DEF DiscoverDone
  <1>6. ASSUME NEW h \in Shards, SentinelMaster(h) PROVE TypeOK'
    BY <1>6 DEF SentinelMaster
  <1>7. CASE SentinelMonitor
    BY <1>7, TheMaster DEF SentinelMonitor
  <1>8. CASE SentinelSet
    BY <1>8 DEF SentinelSet
  <1>9. CASE MonitorDone
    BY <1>0, <1>9 DEF MonitorDone
  <1>10. CASE SentinelFails
    <2>1. events' \in [EventKinds -> Nat]
      BY <1>10, HappensType DEF SentinelFails
    <2>2. started' \in [Sentinels -> [Shards -> Servers \cup {NoServer}]]
      <3>1. CASE UNCHANGED started
        BY <3>1
      <3>2. CASE started' = [started EXCEPT ![n][cur] = GetMaster(cur)] /\ pc = "monitor"
        <4>1. cur \in Shards /\ HasMaster(cur)
          BY <3>2
        <4>2. GetMaster(cur) \in Servers
          BY <4>1, TheMaster
        <4> QED
          BY <3>2, <4>1, <4>2
      <3> QED
        BY <1>10, <3>1, <3>2 DEF SentinelFails
    <2>3. cut' \in [Sentinels -> SUBSET Shards]
      BY <1>10 DEF SentinelFails
    <2> QED
      BY <1>10, <2>1, <2>2, <2>3 DEF SentinelFails
  <1> QED
    BY <1>1, <1>2, <1>3, <1>4, <1>5, <1>6, <1>7, <1>8, <1>9, <1>10 DEF Reconcile

\* Every step keeps the types.
LEMMA NextType == TypeOK /\ MonitorInv /\ [Next]_vars => TypeOK'
  <1> SUFFICES ASSUME TypeOK, MonitorInv, [Next]_vars PROVE TypeOK'
    OBVIOUS
  <1> USE DEF TypeOK, Phases, redis, sentinel, loop
  <1>1. ASSUME NEW k \in Sentinels, Stop(k) PROVE TypeOK'
    BY <1>1, HappensType DEF Stop
  <1>2. ASSUME NEW k \in Sentinels, Start(k) PROVE TypeOK'
    BY <1>2 DEF Start
  <1>3. ASSUME NEW k \in Sentinels, Wipe(k) PROVE TypeOK'
    BY <1>3, HappensType DEF Wipe
  <1>4. CASE OperatorRestart
    BY <1>4, HappensType DEF OperatorRestart
  <1>5. CASE UNCHANGED vars
    BY <1>5 DEF vars
  <1> QED
    BY <1>1, <1>2, <1>3, <1>4, <1>5, WorldType, ReconcileType DEF Next

-----------------------------------------------------------------------------
(* What Monitor goes by.                                                   *)

\* The witness sees every change of a role, and Discover learns only what is so.
LEMMA NextWitnessed == TypeOK /\ MonitorInv /\ [Next]_vars => Witnessed'
  <1> SUFFICES ASSUME TypeOK, Witnessed, [Next]_vars PROVE Witnessed'
    BY DEF MonitorInv
  <1> USE DEF TypeOK, Witnessed
  <1>1. CASE World
    <2>1. /\ pc' = pc /\ known' = known
          /\ witness.master \subseteq witness'.master /\ witness.other \subseteq witness'.other
          /\ \A x \in Servers : IF IsMaster(x)' THEN x \in witness'.master
                                                 ELSE x \in witness'.other
      BY <1>1 DEF World, Witness, loop
    <2> QED
      BY <2>1
  <1>2. CASE Begin
    BY <1>2 DEF Begin, IsMaster, redis
  <1>3. ASSUME NEW x \in Servers, Discover(x) PROVE Witnessed'
    BY <1>3 DEF Discover, IsMaster, redis, UndiscoveredRole, Roles
  <1>4. CASE ~(World \/ Begin \/ \E x \in Servers : Discover(x))
    <2>1. /\ redis' = redis /\ witness' = witness /\ known' = known
          /\ pc' = "idle" \/ pc # "idle" \/ pc' = pc
      BY <1>4 DEF Next, Reconcile, OperatorRestart, Stop, Start, Wipe, vars, IsMonitoringShards,
           LoopDone, DiscoverDone, SentinelMaster, SentinelMonitor, SentinelSet, MonitorDone,
           SentinelFails, loop
    <2> QED
      BY <2>1 DEF IsMaster, redis
  <1> QED
    BY <1>1, <1>2, <1>3, <1>4

\* Monitor is reached with all the roles, and its call with the master.
LEMMA NextDiscovered == TypeOK /\ MonitorInv /\ [Next]_vars => Discovered'
  <1> SUFFICES ASSUME TypeOK, Discovered, [Next]_vars PROVE Discovered'
    BY DEF MonitorInv
  <1> USE DEF TypeOK, Discovered, HasMaster, Masters
  <1>1. CASE World \/ (\E k \in Sentinels : Stop(k) \/ Start(k) \/ Wipe(k)) \/ UNCHANGED vars
    BY <1>1 DEF World, Stop, Start, Wipe, vars, loop
  <1>2. CASE Begin \/ LoopDone \/ SentinelFails \/ OperatorRestart
    BY <1>2 DEF Begin, LoopDone, SentinelFails, OperatorRestart
  <1>3. CASE IsMonitoringShards
    BY <1>3 DEF IsMonitoringShards
  <1>4. ASSUME NEW x \in Servers, Discover(x) PROVE Discovered'
    BY <1>4 DEF Discover, Roles
  <1>5. CASE DiscoverDone
    BY <1>5 DEF DiscoverDone
  <1>6. ASSUME NEW h \in Shards, SentinelMaster(h) PROVE Discovered'
    BY <1>6 DEF SentinelMaster
  <1>7. CASE SentinelMonitor \/ SentinelSet \/ MonitorDone
    BY <1>7 DEF SentinelMonitor, SentinelSet, MonitorDone
  <1> QED
    BY <1>1, <1>2, <1>3, <1>4, <1>5, <1>6, <1>7 DEF Next, Reconcile

\* Every variable keeps its type, the witness has seen every role that was
\* discovered, and Monitor is reached with every role discovered.
THEOREM MonitorInvariant == Spec => [](TypeOK /\ MonitorInv)
  <1>1. Init => MonitorInv
    BY DEF Init, MonitorInv, Witnessed, Discovered
  <1> QED
    BY <1>1, InitType, NextType, NextWitnessed, NextDiscovered, PTL DEF Spec, MonitorInv

\* A sentinel is told to monitor a server in two places, with GetMaster.
LEMMA MonitorStep ==
  ASSUME TypeOK, MonitorInv, [Next]_vars,
         NEW k \in Sentinels, NEW h \in Shards,
         started'[k][h] # started[k][h], started'[k][h] # NoServer
  PROVE  /\ started'[k][h] \in witness.master
         /\ Of(h) \ {started'[k][h]} \subseteq witness.other
  <1>1. /\ pc = "monitor"
        /\ started' = [started EXCEPT ![n][cur] = GetMaster(cur)]
    BY DEF TypeOK, Next, World, Stop, Start, Wipe, OperatorRestart, Reconcile, Begin,
         IsMonitoringShards, LoopDone, Discover, DiscoverDone, SentinelMaster, SentinelMonitor,
         SentinelSet, MonitorDone, SentinelFails, vars, sentinel
  <1>2. h = cur /\ started'[k][h] = GetMaster(cur)
    BY <1>1 DEF TypeOK
  <1>3. Masters(cur) = {GetMaster(cur)} /\ \A x \in Servers : known[x] # "unknown"
    BY <1>1, TheMaster DEF TypeOK, MonitorInv, Discovered
  <1>4. \A x \in Of(cur) : x \in Servers /\ known[x] \in {"master", "slave"}
    BY <1>3 DEF TypeOK, Of, KnownRoles, Roles
  <1> QED
    BY <1>2, <1>3, <1>4 DEF Masters, MonitorInv, Witnessed

\* Whatever crashes, fails over, fails or restarts between the calls of Discover
\* and Monitor, and for any topology and number of sentinels: a sentinel is told
\* to monitor only a server that was a master during the reconcile while every
\* other server of its shard was seen not to be one.
THEOREM MonitorNeverGuesses == Spec => NeverGuesses
  <1>1. TypeOK /\ MonitorInv /\ [Next]_vars =>
          [\A k \in Sentinels, h \in Shards :
             LET x == started'[k][h] IN
             x # started[k][h] /\ x # NoServer =>
               /\ x \in witness.master
               /\ Of(h) \ {x} \subseteq witness.other]_vars
    BY MonitorStep
  <1> QED
    BY <1>1, MonitorInvariant, PTL DEF Spec, NeverGuesses

=============================================================================
