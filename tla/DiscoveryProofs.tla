--------------------------- MODULE DiscoveryProofs ---------------------------
(***************************************************************************)
(* Proofs about module Discovery, for any shards, servers and roles, and   *)
(* any number of crashes, failovers and errors.                            *)
(***************************************************************************)
EXTENDS Discovery, WellFoundedInduction, TLAPS

\* Sentinel names servers of the shard it is asked about.
NamesInv ==
  /\ \A s \in Shards : ShardOf[announced[s]] = s /\ ShardOf[addr[s]] = s
  /\ pc = "role" => ShardOf[master.server] = cur

\* In a list that Discover has not filled, a shard that the discovery has not
\* yet confirmed the master of has none; every other shard has at most one.
Unconfirmed(s) ==
  \/ pc \in {"monitoring", "ping", "masters"}
  \/ s \in todo
  \/ pc \in {"addr", "role"} /\ s = cur
MastersInv ==
  /\ ~surveyed => \A s \in Shards : Unconfirmed(s) => Masters(s) = {}
  /\ OneMaster
  /\ pc \in {"addr", "role"} => cur \notin todo
  /\ pc = "roles" => surveyed

\* A server that is a master while the discovery goes on, and one in the list
\* as master, was one during the discovery.
WitnessInv ==
  pc # "idle" => \A x \in Servers :
    (x \in up /\ role[x] = "master") \/ known[x] = "master" => x \in witness

-----------------------------------------------------------------------------
\* The first of some servers is one of them.
LEMMA FirstOfThem ==
  ASSUME NEW S, S \subseteq Servers, S # {}
  PROVE  FirstOf(S) \in S
<1>1. S \subseteq Nat  BY DiscoveryAssumption
<1> DEFINE Less == OpToRel(<, Nat)
<1>2. PICK x \in S : \A y \in S : <<y, x>> \notin Less
  <2> HIDE DEF Less
  <2>1. IsWellFoundedOn(Less, Nat)  BY NatLessThanWellFounded DEF Less
  <2> QED  BY <1>1, <2>1, WFMin
<1>3. \E z \in S : \A y \in S : z <= y
  <2>1. ASSUME NEW y \in S PROVE x <= y
    <3>1. ~(y < x)  BY <1>1, <1>2 DEF OpToRel
    <3> QED  BY <1>1, <3>1
  <2> QED  BY <2>1
<1> QED  BY <1>3 DEF FirstOf

\* The targets of a shard with one master are servers of it, the master one
\* that is in the list as master.
LEMMA TargetTypes ==
  ASSUME TypeOK, NEW s \in Shards, NEW x \in Of(s), Masters(s) = {x}
  PROVE  /\ MasterTarget(s) \in Masters(s) /\ MasterTarget(s) \in Servers
         /\ SlaveTarget(s) \in Servers
<1>1. GetMaster(s) = x  BY DEF GetMaster
<1>2. x \in Servers /\ SlavesRW(s) \subseteq Servers  BY DEF Of, SlavesRW
<1>3. SlavesRW(s) # {} => FirstOf(SlavesRW(s)) \in Servers  BY <1>2, FirstOfThem
<1> QED  BY <1>1, <1>2, <1>3 DEF MasterTarget, SlaveTarget

-----------------------------------------------------------------------------
\* The first state has its types.
LEMMA TypeInit == Init => TypeOK
<1> SUFFICES ASSUME Init PROVE TypeOK
  OBVIOUS
<1>1. cur \in Shards
  <2>1. \E s : s \in Shards  BY DiscoveryAssumption
  <2> QED  BY <2>1 DEF Init
<1> QED
  BY <1>1, DiscoveryAssumption DEF Init, TypeOK, NewShardedClusterFromTopology, Roles, KnownRoles,
     Phases, ErrorKinds, Answers, Targets, NoServer

\* Redis and Sentinel keep the types.
LEMMA WorldType ==
  ASSUME TypeOK, World
  PROVE  TypeOK'
<1> USE DEF TypeOK, discovery, local, Happens
<1>1. witness' \subseteq Servers
  <2>1. up' \subseteq Servers /\ flagged' \subseteq Servers
    BY DEF World, Crash, Recover, Flag, Promote, Switch, Demote, Forget, Restore
  <2> QED  BY <2>1 DEF World, Witness
<1>2. ASSUME NEW x \in Servers, Crash(x) \/ Recover(x) \/ Flag(x) PROVE TypeOK'
  BY <1>1, <1>2 DEF World, Crash, Recover, Flag, Roles
<1>3. ASSUME NEW x \in Servers, Promote(x) \/ Demote(x) PROVE TypeOK'
  <2>1. ShardOf[x] \in Shards  BY DiscoveryAssumption
  <2> QED  BY <1>1, <1>3, <2>1 DEF World, Promote, Demote, Roles
<1>4. CASE (\E s \in Shards : Switch(s)) \/ Forget \/ Restore
  BY <1>1, <1>4 DEF World, Switch, Forget, Restore
<1> QED  BY <1>2, <1>3, <1>4 DEF World

\* So does every step of a discovery.
LEMMA TypeInductive ==
  ASSUME TypeOK, [Next]_vars
  PROVE  TypeOK'
<1> USE DEF TypeOK, world, local, Phases, ErrorKinds
<1>1. CASE World  BY <1>1, WorldType
<1>2. CASE Begin
  <2>1. known' \in [Servers -> KnownRoles]
    BY <1>2 DEF Begin, NewShardedClusterFromTopology, KnownRoles
  <2> QED  BY <1>2, <2>1 DEF Begin
<1>2a. CASE IsMonitoringShards \/ MonitoringFails
  <2>1. CASE IsMonitoringShards  BY <2>1 DEF IsMonitoringShards
  <2>2. CASE MonitoringFails
    <3>1. events' \in [EventKinds -> Nat]
      <4> HIDE DEF Phases, ErrorKinds
      <4>1. events \in [EventKinds -> Nat] /\ "sentinelError" \in EventKinds  BY DEF EventKinds
      <4> QED  BY <2>2, <4>1 DEF MonitoringFails, Happens
    <3> QED  BY <2>2, <3>1 DEF MonitoringFails
  <2> QED  BY <1>2a, <2>1, <2>2
<1>2b. ASSUME NEW x \in Servers, DiscoverRole(x) PROVE TypeOK'
  <2>1. known' \in [Servers -> KnownRoles]  BY <1>2b DEF DiscoverRole, KnownRoles
  <2> QED  BY <1>2b, <2>1 DEF DiscoverRole
<1>2c. ASSUME NEW s \in Shards, MonitorShard(s) PROVE TypeOK'
  BY <1>2c DEF MonitorShard
<1>3. CASE GetSentinel \/ SentinelMasters \/ SlavesDone \/ ShardsDone
  BY <1>3 DEF GetSentinel, SentinelMasters, SlavesDone, ShardsDone
<1>4. ASSUME NEW s \in Shards, SentinelMaster(s) PROVE TypeOK'
  BY <1>4 DEF SentinelMaster, Answers
<1>a. \A x \in Servers : /\ Listed(x) \in KnownRoles
                         /\ Confirmed(x, "master") \in KnownRoles
                         /\ Confirmed(x, "slave") \in KnownRoles
  BY DEF Listed, Confirmed, KnownRoles, Roles
<1>5. CASE SentinelGetMasterAddrByName
  <2>1. addr[cur] \in Servers  OBVIOUS
  <2>2. master' \in Answers  BY <1>5, <2>1 DEF SentinelGetMasterAddrByName, Answers
  <2>3. known' \in [Servers -> KnownRoles]
    BY <1>5, <1>a, <2>1 DEF SentinelGetMasterAddrByName
  <2> QED  BY <1>5, <2>1, <2>2, <2>3 DEF SentinelGetMasterAddrByName
<1>6. CASE DiscoverMaster
  <2>1. master.server \in Servers  BY DEF Answers
  <2>2. known' \in [Servers -> KnownRoles]
    BY <1>6, <1>a, <2>1 DEF DiscoverMaster
  <2> QED  BY <1>6, <2>2 DEF DiscoverMaster
<1>7. CASE SentinelSlaves
  <2>1. ASSUME NEW a \in slaves' PROVE a \in Answers
    <3>1. PICK x \in Of(cur) : a = [server |-> x, down |-> x \in flagged]
      BY <1>7 DEF SentinelSlaves
    <3> QED  BY <3>1 DEF Of, Answers
  <2> QED  BY <1>7, <2>1 DEF SentinelSlaves
<1>8. ASSUME NEW a \in Answers, DiscoverSlave(a) PROVE TypeOK'
  <2>1. a.server \in Servers  BY DEF Answers
  <2>2. known' \in [Servers -> KnownRoles]
    BY <1>8, <1>a, <2>1 DEF DiscoverSlave
  <2> QED  BY <1>8, <2>1, <2>2 DEF DiscoverSlave
<1>9. CASE NewGenerator
  <2>1. targets' \in [Shards -> Targets]
    <3>1. CASE Fatal \/ \E s \in Found : \A x \in Of(s) : Masters(s) # {x}
      BY <1>9, <3>1 DEF NewGenerator
    <3>2. CASE ~(Fatal \/ \E s \in Found : \A x \in Of(s) : Masters(s) # {x})
      <4>1. ASSUME NEW s \in Found
            PROVE  MasterTarget(s) \in Servers /\ SlaveTarget(s) \in Servers
        <5>1. s \in Shards  BY DEF Found
        <5>2. PICK x \in Of(s) : Masters(s) = {x}  BY <3>2
        <5> QED  BY <5>1, <5>2, TargetTypes
      <4> QED  BY <1>9, <3>2, <4>1 DEF NewGenerator, Targets
    <3> QED  BY <3>1, <3>2
  <2> QED  BY <1>9, <2>1 DEF NewGenerator
<1>10. CASE SentinelStatusReconciler
  BY <1>10 DEF SentinelStatusReconciler
<1>11. CASE SentinelUnreachable \/ SentinelFails
  <2>0. Happens("sentinelError")  BY <1>11 DEF SentinelUnreachable, SentinelFails
  <2>1. events' \in [EventKinds -> Nat]
    <3> HIDE DEF Phases, ErrorKinds
    <3>1. events \in [EventKinds -> Nat] /\ "sentinelError" \in EventKinds  BY DEF EventKinds
    <3> QED  BY <2>0, <3>1 DEF Happens
  <2>3. errs' \subseteq ErrorKinds /\ pc' \in Phases
    BY <1>11 DEF SentinelUnreachable, SentinelFails
  <2>2. todo' \subseteq Shards /\ cur' \in Shards
    BY <1>11 DEF SentinelUnreachable, SentinelFails
  <2> QED  BY <1>11, <2>1, <2>2, <2>3 DEF SentinelUnreachable, SentinelFails
<1>12. CASE UNCHANGED vars  BY <1>12 DEF vars
<1> QED
  BY <1>1, <1>2, <1>2a, <1>2b, <1>2c, <1>3, <1>4, <1>5, <1>6, <1>7, <1>8, <1>9, <1>10, <1>11,
     <1>12 DEF Next, Discover

\* Servers, Sentinel and the discovery stay within their types.
THEOREM TypeCorrect == Spec => []TypeOK
BY TypeInit, TypeInductive, PTL DEF Spec

-----------------------------------------------------------------------------
DiscoveryInv == TypeOK /\ NamesInv /\ MastersInv /\ WitnessInv

\* The first state satisfies the invariant: nobody is known as master.
LEMMA InvInit == Init => DiscoveryInv
<1> SUFFICES ASSUME Init PROVE DiscoveryInv
  OBVIOUS
<1>1. TypeOK  BY TypeInit
<1>2. NamesInv  BY DiscoveryAssumption DEF Init, NamesInv
<1>3. \A s \in Shards : Masters(s) = {}
  BY DEF Init, Masters, Of, NewShardedClusterFromTopology
<1>4. MastersInv  BY <1>3 DEF Init, MastersInv, OneMaster
<1>5. WitnessInv  BY DEF Init, WitnessInv
<1> QED  BY <1>1, <1>2, <1>4, <1>5 DEF DiscoveryInv

\* A step that makes nobody known as master, and after which no further shard
\* is to be confirmed, keeps the part on masters.
LEMMA NoNewMaster ==
  ASSUME MastersInv, surveyed' = surveyed,
         \A x \in Servers : known'[x] = "master" => known[x] = "master",
         \A s \in Shards : Unconfirmed(s)' => Unconfirmed(s),
         pc' \in {"addr", "role"} => cur' \notin todo',
         pc' = "roles" => pc = "roles"
  PROVE  MastersInv'
<1>1. \A s \in Shards : Masters(s)' \subseteq Masters(s)  BY DEF Masters, Of
<1>2. OneMaster'  BY <1>1 DEF MastersInv, OneMaster
<1>3. ~surveyed' => \A s \in Shards : Unconfirmed(s)' => Masters(s)' = {}  BY <1>1 DEF MastersInv
<1> QED  BY <1>2, <1>3 DEF MastersInv

\* Servers and Sentinel change nothing the discovery has noted, and what was
\* a master during the discovery stays noted as such.
LEMMA WorldInv ==
  ASSUME DiscoveryInv, World
  PROVE  NamesInv' /\ MastersInv' /\ WitnessInv'
<1> USE DEF DiscoveryInv, World, discovery, local
<1>1. \A s \in Shards : ShardOf[announced'[s]] = s /\ ShardOf[addr'[s]] = s
  <2> USE DEF NamesInv, TypeOK
  <2>1. ASSUME NEW x \in Servers, Promote(x)
        PROVE  \A s \in Shards : ShardOf[announced'[s]] = s /\ ShardOf[addr'[s]] = s
    BY <2>1, DiscoveryAssumption DEF Promote
  <2>2. ASSUME NEW x \in Servers, Crash(x) \/ Recover(x) \/ Flag(x) \/ Demote(x)
        PROVE  announced' = announced /\ addr' = addr
    BY <2>2 DEF Crash, Recover, Flag, Demote
  <2>3. ASSUME NEW s \in Shards, Switch(s)
        PROVE  \A r \in Shards : ShardOf[announced'[r]] = r /\ ShardOf[addr'[r]] = r
    BY <2>3 DEF Switch
  <2>4. CASE Forget \/ Restore  BY <2>4 DEF Forget, Restore
  <2> QED  BY <2>1, <2>2, <2>3, <2>4
<1>2. NamesInv'  BY <1>1 DEF NamesInv
<1>3. MastersInv'  BY NoNewMaster DEF MastersInv, Unconfirmed
<1>4. WitnessInv'  BY DEF WitnessInv, Witness
<1> QED  BY <1>2, <1>3, <1>4

\* Every step keeps the invariant.
LEMMA InvInductive ==
  ASSUME DiscoveryInv, [Next]_vars
  PROVE  DiscoveryInv'
<1>0. TypeOK /\ TypeOK'  BY TypeInductive DEF DiscoveryInv
<1>1. CASE World  BY <1>0, <1>1, WorldInv DEF DiscoveryInv
<1> USE DEF world, local
<1>2. CASE Begin
  <2>1. NamesInv'  BY <1>2 DEF Begin, NamesInv, DiscoveryInv
  <2>2. \A x \in Servers : known'[x] # "master"
    BY <1>2 DEF Begin, NewShardedClusterFromTopology
  <2>3. \A s \in Shards : Masters(s)' = {}  BY <2>2 DEF Masters, Of
  <2>4. MastersInv'  BY <1>2, <2>3 DEF Begin, MastersInv, OneMaster
  <2>5. WitnessInv'  BY <1>2, <2>2 DEF Begin, WitnessInv
  <2> QED  BY <1>0, <2>1, <2>4, <2>5 DEF DiscoveryInv
<1>2a. CASE IsMonitoringShards
  <2>1. NamesInv' /\ WitnessInv'
    BY <1>2a DEF IsMonitoringShards, NamesInv, WitnessInv, DiscoveryInv
  <2>2. CASE monitored = Shards
    <3>1. MastersInv'
      BY <1>2a, <2>2, NoNewMaster DEF IsMonitoringShards, DiscoveryInv, Unconfirmed
    <3> QED  BY <1>0, <2>1, <3>1 DEF DiscoveryInv
  <2>3. CASE monitored # Shards
    <3>1. MastersInv'  BY <1>2a, <2>3 DEF IsMonitoringShards, MastersInv, OneMaster
    <3> QED  BY <1>0, <2>1, <3>1 DEF DiscoveryInv
  <2> QED  BY <2>2, <2>3
<1>2b. ASSUME NEW x \in Servers, DiscoverRole(x) PROVE DiscoveryInv'
  <2>1. surveyed' /\ pc' \in {"roles", "idle"}
    BY <1>2b DEF DiscoverRole, DiscoveryInv, MastersInv
  <2>2. NamesInv'  BY <1>2b, <2>1 DEF DiscoverRole, NamesInv, DiscoveryInv
  <2>3. MastersInv'  BY <2>1 DEF MastersInv, OneMaster
  <2>4. \A y \in Servers : known'[y] = "master" =>
          known[y] = "master" \/ (y \in up /\ role[y] = "master")
    BY <1>0, <1>2b DEF DiscoverRole, TypeOK
  <2>5. WitnessInv'  BY <1>2b, <2>4 DEF DiscoverRole, WitnessInv, DiscoveryInv
  <2> QED  BY <1>0, <2>2, <2>3, <2>5 DEF DiscoveryInv
<1>2c. CASE MonitoringFails \/ \E s \in Shards : MonitorShard(s)
  <2> USE <1>2c DEF MonitoringFails, MonitorShard
  <2>1. NamesInv' /\ WitnessInv'  BY DEF NamesInv, WitnessInv, DiscoveryInv
  <2>2. MastersInv'
    <3>1. CASE MonitoringFails  BY <3>1, NoNewMaster DEF DiscoveryInv, Unconfirmed
    <3>2. ASSUME NEW s \in Shards, MonitorShard(s) PROVE MastersInv'
      <4>1. surveyed' /\ pc' \notin {"addr", "role"}
        BY <3>2 DEF DiscoveryInv, MastersInv
      <4> QED  BY <4>1 DEF MastersInv, OneMaster
    <3> QED  BY <3>1, <3>2
  <2> QED  BY <1>0, <2>1, <2>2 DEF DiscoveryInv
<1>3. CASE GetSentinel \/ SentinelMasters \/ SlavesDone \/ ShardsDone
  <2> USE <1>3 DEF GetSentinel, SentinelMasters, SlavesDone, ShardsDone
  <2>1. NamesInv' /\ WitnessInv'  BY DEF NamesInv, WitnessInv, DiscoveryInv
  <2>2. MastersInv'  BY NoNewMaster DEF DiscoveryInv, Unconfirmed
  <2> QED  BY <1>0, <2>1, <2>2 DEF DiscoveryInv
<1>4. ASSUME NEW s \in Shards, SentinelMaster(s) PROVE DiscoveryInv'
  <2> USE <1>4 DEF SentinelMaster
  <2>1. NamesInv' /\ WitnessInv'  BY DEF NamesInv, WitnessInv, DiscoveryInv
  <2>2. MastersInv'  BY NoNewMaster DEF DiscoveryInv, Unconfirmed
  <2> QED  BY <1>0, <2>1, <2>2 DEF DiscoveryInv
<1>5. CASE SentinelGetMasterAddrByName
  <2> USE <1>5 DEF SentinelGetMasterAddrByName
  <2>1. addr[cur] \in Servers /\ cur \in Shards  BY <1>0 DEF TypeOK
  <2>2. NamesInv'
    <3>1. master'.server = addr[cur]  BY <1>0, <2>1 DEF TypeOK, Answers
    <3> QED  BY <2>1, <3>1 DEF NamesInv, DiscoveryInv
  <2>3. \A x \in Servers : known'[x] = "master" => known[x] = "master"
    BY <1>0, <2>1 DEF Listed, TypeOK
  <2>4. MastersInv'  BY <2>3, NoNewMaster DEF DiscoveryInv, Unconfirmed, MastersInv
  <2>5. WitnessInv'  BY <2>3 DEF WitnessInv, DiscoveryInv
  <2> QED  BY <1>0, <2>2, <2>4, <2>5 DEF DiscoveryInv
<1>6. CASE DiscoverMaster
  <2> DEFINE x == master.server
  <2>1. x \in Servers /\ ShardOf[x] = cur /\ cur \in Shards /\ cur \notin todo
    BY <1>0, <1>6 DEF DiscoverMaster, TypeOK, Answers, DiscoveryInv, NamesInv, MastersInv
  <2>2. /\ \A y \in Servers \ {x} : known'[y] = known[y]
        /\ known'[x] = "master" => x \in up /\ role[x] = "master"
    BY <1>0, <1>6, <2>1 DEF DiscoverMaster, TypeOK, Confirmed
  <2>3. NamesInv'  BY <1>6 DEF DiscoverMaster, NamesInv, DiscoveryInv
  <2>4. MastersInv'
    <3>1. ~surveyed => Masters(cur) = {}  BY <1>6, <2>1 DEF DiscoverMaster, DiscoveryInv, MastersInv, Unconfirmed
    <3>2. ASSUME NEW s \in Shards, s # cur PROVE Masters(s)' = Masters(s)
      BY <2>1, <2>2, <3>2 DEF Masters, Of
    <3>3. ASSUME ~surveyed, NEW y \in Servers, ShardOf[y] = cur, known'[y] = "master" PROVE y = x
      BY <2>2, <3>1, <3>3 DEF Masters, Of
    <3>4. ~surveyed => \A y, z \in {w \in Of(cur) : known'[w] = "master"} : y = z
      BY <3>3 DEF Of
    <3>5. ASSUME ~surveyed, NEW s \in Shards PROVE \A y, z \in Masters(s)' : y = z
      <4>1. CASE s = cur  BY <3>5, <4>1, <3>4 DEF Masters, Of
      <4>2. CASE s # cur  BY <3>5, <4>2, <3>2 DEF DiscoveryInv, MastersInv, OneMaster
      <4> QED  BY <4>1, <4>2
    <3>6. pc' \in {"shards", "slaves"} /\ todo' = todo /\ cur' = cur /\ surveyed' = surveyed
      BY <1>6 DEF DiscoverMaster
    <3>7. ASSUME ~surveyed, NEW s \in Shards, Unconfirmed(s)' PROVE Masters(s)' = {}
      BY <2>1, <3>2, <3>6, <3>7 DEF Unconfirmed, DiscoveryInv, MastersInv
    <3> QED  BY <3>5, <3>6, <3>7 DEF MastersInv, OneMaster
  <2>5. WitnessInv'
    BY <1>6, <2>1, <2>2 DEF DiscoverMaster, WitnessInv, DiscoveryInv
  <2> QED  BY <1>0, <2>3, <2>4, <2>5 DEF DiscoveryInv
<1>7. CASE SentinelSlaves
  <2> USE <1>7 DEF SentinelSlaves
  <2>1. NamesInv' /\ WitnessInv'  BY DEF NamesInv, WitnessInv, DiscoveryInv
  <2>2. MastersInv'  BY NoNewMaster DEF DiscoveryInv, Unconfirmed
  <2> QED  BY <1>0, <2>1, <2>2 DEF DiscoveryInv
<1>8. ASSUME NEW a \in Answers, DiscoverSlave(a) PROVE DiscoveryInv'
  <2> USE <1>8 DEF DiscoverSlave
  <2>1. a.server \in Servers  BY DEF Answers
  <2>2. \A x \in Servers : known'[x] = "master" => known[x] = "master"
    BY <1>0, <2>1 DEF Listed, Confirmed, TypeOK
  <2>3. NamesInv' /\ WitnessInv'  BY <2>2 DEF NamesInv, WitnessInv, DiscoveryInv
  <2>4. MastersInv'  BY <2>2, NoNewMaster DEF DiscoveryInv, Unconfirmed
  <2> QED  BY <1>0, <2>3, <2>4 DEF DiscoveryInv
<1>9. CASE NewGenerator \/ SentinelStatusReconciler
  <2> USE <1>9 DEF NewGenerator, SentinelStatusReconciler
  <2>1. NamesInv' /\ WitnessInv'  BY DEF NamesInv, WitnessInv, DiscoveryInv
  <2>2. MastersInv'  BY NoNewMaster DEF DiscoveryInv, Unconfirmed
  <2> QED  BY <1>0, <2>1, <2>2 DEF DiscoveryInv
<1>10. CASE SentinelUnreachable \/ SentinelFails
  <2> USE <1>10 DEF SentinelUnreachable, SentinelFails
  <2>1. NamesInv' /\ WitnessInv'  BY DEF NamesInv, WitnessInv, DiscoveryInv
  <2>2. MastersInv'  BY NoNewMaster DEF DiscoveryInv, Unconfirmed
  <2> QED  BY <1>0, <2>1, <2>2 DEF DiscoveryInv
<1>11. CASE UNCHANGED vars
  BY <1>0, <1>11 DEF vars, DiscoveryInv, NamesInv, MastersInv, WitnessInv, OneMaster, Masters, Unconfirmed
<1> QED
  BY <1>1, <1>2, <1>2a, <1>2b, <1>2c, <1>3, <1>4, <1>5, <1>6, <1>7, <1>8, <1>9, <1>10, <1>11
     DEF Next, Discover

\* The discovery's invariant holds in every reachable state.
THEOREM DiscoveryInvariant == Spec => []DiscoveryInv
BY InvInit, InvInductive, PTL DEF Spec

\* However failovers and errors fall between the calls of a discovery, no
\* shard ends up with two masters in its list of servers, unless Discover has
\* left roles there in the same reconcile.
THEOREM OneMasterSeen == Spec => []OneMaster
<1>1. DiscoveryInv => OneMaster  BY DEF DiscoveryInv, MastersInv
<1> QED  BY <1>1, DiscoveryInvariant, PTL

-----------------------------------------------------------------------------
\* What a step may do to the targets and to the status.
LEMMA TargetsStep ==
  ASSUME DiscoveryInv, [Next]_vars, NEW s \in Shards, targets'[s] # targets[s]
  PROVE  targets'[s].master \in witness \cup {NoServer}
<1>1. NewGenerator
  BY DEF Next, World, discovery, local, world, vars, Discover, Begin, IsMonitoringShards, DiscoverRole, MonitorShard,
     MonitoringFails, GetSentinel, SentinelMasters, SentinelMaster,
     SentinelGetMasterAddrByName, DiscoverMaster, SentinelSlaves, DiscoverSlave, SlavesDone,
     ShardsDone, SentinelStatusReconciler, SentinelUnreachable, SentinelFails
<1>2. CASE s \notin Found
  BY <1>1, <1>2 DEF NewGenerator
<1>3. CASE s \in Found
  <2>1. PICK x \in Of(s) : Masters(s) = {x}
    BY <1>1, <1>3 DEF NewGenerator
  <2>2. MasterTarget(s) \in Masters(s)  BY <2>1, TargetTypes DEF DiscoveryInv
  <2>3. MasterTarget(s) \in witness
    BY <1>1, <2>2 DEF NewGenerator, DiscoveryInv, WitnessInv, Masters, Of
  <2>4. targets'[s].master = MasterTarget(s)
    BY <1>1, <1>3 DEF NewGenerator
  <2> QED  BY <2>3, <2>4
<1> QED  BY <1>2, <1>3

\* A server the status comes to show as master was one.
LEMMA StatusStep ==
  ASSUME DiscoveryInv, [Next]_vars, NEW x \in Servers,
         status'[x] = "master", status[x] # "master"
  PROVE  x \in witness
<1>1. SentinelStatusReconciler
  BY DEF Next, World, discovery, local, world, vars, Discover, Begin, IsMonitoringShards, DiscoverRole, MonitorShard,
     MonitoringFails, GetSentinel, SentinelMasters, SentinelMaster,
     SentinelGetMasterAddrByName, DiscoverMaster, SentinelSlaves, DiscoverSlave, SlavesDone,
     ShardsDone, NewGenerator, SentinelUnreachable, SentinelFails
<1> QED  BY <1>1 DEF SentinelStatusReconciler, DiscoveryInv, WitnessInv

\* What NewGenerator configures as the master of a shard, and what the status
\* of the Sentinel resource comes to show as one, was a master at some time
\* during the reconcile, also when its role is one that Discover noted before
\* the sentinels were asked.
THEOREM MastersConfirmed == Spec => MastersWereReal
<1>1. DiscoveryInv /\ [Next]_vars =>
        [/\ \A s \in Shards : targets'[s] # targets[s] =>
             targets'[s].master \in witness \cup {NoServer}
         /\ \A x \in Servers : status'[x] = "master" /\ status[x] # "master" => x \in witness]_vars
  BY TargetsStep, StatusStep
<1> QED  BY <1>1, DiscoveryInvariant, PTL DEF Spec, MastersWereReal

-----------------------------------------------------------------------------
\* As long as the sentinel monitors all shards and nothing has failed, a shard
\* is still to be looked at, or found: none is passed over.
Reached(s) == s \in todo \/ (pc = "addr" /\ s = cur) \/ s \in Found
CoverInv ==
  events["forget"] = 0 =>
    /\ monitored = Shards
    /\ errs = {} /\ pc \notin {"idle", "monitoring", "roles", "ping", "masters"} =>
         \A s \in Shards : Reached(s)
    /\ errs = {} /\ pc = "targets" => todo = {}

\* A sentinel that has never been recreated monitors what it has monitored.
LEMMA ForgetCounted ==
  ASSUME TypeOK, [Next]_vars, events'["forget"] = 0
  PROVE  events["forget"] = 0 /\ (monitored = Shards => monitored' = Shards)
<1>0. events \in [EventKinds -> Nat] /\ "forget" \in EventKinds
  BY DEF TypeOK, EventKinds
<1>1. ASSUME NEW e \in EventKinds, Happens(e)
      PROVE  events'[e] = events[e] + 1 /\ (e # "forget" => events'["forget"] = events["forget"])
  BY <1>0, <1>1 DEF Happens
<1>2. ~Forget
  BY <1>0, <1>1 DEF Forget
<1>3. CASE World
  BY <1>0, <1>1, <1>2, <1>3 DEF World, Crash, Recover, Flag, Promote, Demote, Switch, Restore,
     EventKinds
<1>4. CASE SentinelUnreachable \/ SentinelFails
  BY <1>1, <1>4 DEF SentinelUnreachable, SentinelFails, EventKinds
<1>5. CASE UNCHANGED world
  BY <1>5 DEF world
<1>7. CASE MonitoringFails \/ \E s \in Shards : MonitorShard(s)
  BY <1>1, <1>7 DEF MonitoringFails, MonitorShard, EventKinds
<1>6. \/ World \/ SentinelUnreachable \/ SentinelFails \/ UNCHANGED world
      \/ MonitoringFails \/ \E s \in Shards : MonitorShard(s)
  BY DEF Next, Discover, Begin, IsMonitoringShards, DiscoverRole, MonitorShard,
     MonitoringFails, GetSentinel, SentinelMasters, SentinelMaster,
     SentinelGetMasterAddrByName, DiscoverMaster, SentinelSlaves, DiscoverSlave, SlavesDone,
     ShardsDone, NewGenerator, SentinelStatusReconciler, vars
<1> QED  BY <1>3, <1>4, <1>5, <1>6, <1>7

\* No shard is passed over by any step.
LEMMA CoverInductive ==
  ASSUME DiscoveryInv, CoverInv, [Next]_vars
  PROVE  CoverInv'
<1> SUFFICES ASSUME events'["forget"] = 0
             PROVE  /\ monitored' = Shards
                    /\ errs' = {} /\ pc' \notin {"idle", "monitoring", "roles", "ping", "masters"}
                       => \A s \in Shards : Reached(s)'
                    /\ errs' = {} /\ pc' = "targets" => todo' = {}
  BY DEF CoverInv
<1>0. TypeOK /\ NamesInv
  BY DEF DiscoveryInv
<1>1. /\ monitored = Shards /\ monitored' = Shards
      /\ errs = {} /\ pc \notin {"idle", "monitoring", "roles", "ping", "masters"} =>
         \A s \in Shards : Reached(s)
      /\ errs = {} /\ pc = "targets" => todo = {}
  BY <1>0, ForgetCounted DEF CoverInv
<1> USE DEF local
<1>2. CASE World
  BY <1>1, <1>2 DEF World, discovery, Reached, Found
<1>3. CASE \/ Begin \/ GetSentinel \/ IsMonitoringShards \/ MonitoringFails
           \/ (\E x \in Servers : DiscoverRole(x)) \/ (\E s \in Shards : MonitorShard(s))
  BY <1>1, <1>3 DEF Begin, GetSentinel, IsMonitoringShards, MonitoringFails, DiscoverRole,
     MonitorShard
<1>4. CASE SentinelMasters
  BY <1>1, <1>4 DEF SentinelMasters, Reached
<1>5. ASSUME NEW s \in Shards, SentinelMaster(s)
      PROVE  /\ pc' = "addr"
             /\ errs' = {} => \A r \in Shards : Reached(r)'
  BY <1>1, <1>5 DEF SentinelMaster, Reached, Found
<1>6. CASE SentinelGetMasterAddrByName
  <2>1. /\ addr[cur] \in Servers /\ addr[cur] \in Of(cur)
    BY <1>0 DEF TypeOK, NamesInv, Of
  <2>2. known'[addr[cur]] # "absent" /\ \A x \in Servers : known[x] # "absent" => known'[x] # "absent"
    BY <1>0, <1>6, <2>1 DEF SentinelGetMasterAddrByName, Listed, TypeOK
  <2>3. Found \subseteq Found' /\ cur \in Found'
    BY <1>0, <2>1, <2>2 DEF Found, Of, TypeOK
  <2> QED  BY <1>1, <1>6, <2>3 DEF SentinelGetMasterAddrByName, Reached
<1>7. CASE DiscoverMaster
  <2>1. \A x \in Servers : known[x] # "absent" => known'[x] # "absent"
    BY <1>0, <1>7 DEF DiscoverMaster, Confirmed, TypeOK, Answers
  <2>2. Found \subseteq Found'
    BY <2>1 DEF Found, Of
  <2> QED  BY <1>1, <1>7, <2>2 DEF DiscoverMaster, Reached
<1>8. CASE SentinelSlaves \/ SlavesDone \/ ShardsDone
  BY <1>1, <1>8 DEF SentinelSlaves, SlavesDone, ShardsDone, Reached, Found
<1>9. ASSUME NEW a \in Answers, DiscoverSlave(a)
      PROVE  /\ pc' = "servers"
             /\ errs' = {} => \A s \in Shards : Reached(s)'
  <2>1. \A x \in Servers : known[x] # "absent" => known'[x] # "absent"
    BY <1>0, <1>9 DEF DiscoverSlave, Confirmed, Listed, TypeOK, Answers
  <2>2. Found \subseteq Found'
    BY <2>1 DEF Found, Of
  <2> QED  BY <1>1, <1>9, <2>2 DEF DiscoverSlave, Reached
<1>10. CASE NewGenerator \/ SentinelStatusReconciler
  BY <1>1, <1>10 DEF NewGenerator, SentinelStatusReconciler
<1>11. CASE SentinelUnreachable \/ SentinelFails
  BY <1>1, <1>11 DEF SentinelUnreachable, SentinelFails
<1>12. CASE UNCHANGED vars
  BY <1>1, <1>12 DEF vars, Reached, Found
<1> QED
  BY <1>1, <1>2, <1>3, <1>4, <1>5, <1>6, <1>7, <1>8, <1>9, <1>10, <1>11, <1>12 DEF Next, Discover

\* A configuration that is generated has a target for every shard.
LEMMA TargetedStep ==
  ASSUME DiscoveryInv, CoverInv, AllShardsTargeted, [Next]_vars
  PROVE  AllShardsTargeted'
<1> SUFFICES ASSUME consumer' = "masters", events'["forget"] = 0, NEW s \in Shards
             PROVE  targets'[s].master # NoServer
  BY DEF AllShardsTargeted
<1>0. TypeOK
  BY DEF DiscoveryInv
<1>1. events["forget"] = 0
  BY <1>0, ForgetCounted
<1>2. consumer = "masters"
  BY DEF Next, World, world, vars, Discover, Begin, IsMonitoringShards, DiscoverRole, MonitorShard,
     MonitoringFails, GetSentinel, SentinelMasters, SentinelMaster,
     SentinelGetMasterAddrByName, DiscoverMaster, SentinelSlaves, DiscoverSlave, SlavesDone,
     ShardsDone, NewGenerator, SentinelStatusReconciler, SentinelUnreachable, SentinelFails
<1>3. CASE targets' = targets
  BY <1>1, <1>2, <1>3 DEF AllShardsTargeted
<1>4. CASE NewGenerator /\ targets' # targets
  <2>1. errs = {} /\ pc = "targets" /\ ~ \E r \in Found : \A x \in Of(r) : Masters(r) # {x}
    BY <1>2, <1>4 DEF NewGenerator, Fatal
  <2>2. s \in Found
    BY <1>1, <2>1 DEF CoverInv, Reached
  <2>3. PICK x \in Of(s) : Masters(s) = {x}
    BY <2>1, <2>2
  <2>4. MasterTarget(s) \in Servers
    BY <1>0, <2>3, TargetTypes
  <2>5. targets'[s].master = MasterTarget(s)
    BY <1>4, <2>2 DEF NewGenerator
  <2> QED  BY <2>4, <2>5, DiscoveryAssumption DEF NoServer
<1>5. NewGenerator \/ targets' = targets
  BY DEF Next, World, discovery, world, vars, Discover, Begin, IsMonitoringShards, DiscoverRole, MonitorShard,
     MonitoringFails, GetSentinel, SentinelMasters,
     SentinelMaster, SentinelGetMasterAddrByName, DiscoverMaster, SentinelSlaves, DiscoverSlave,
     SlavesDone, ShardsDone, SentinelStatusReconciler, SentinelUnreachable, SentinelFails
<1> QED  BY <1>3, <1>4, <1>5

\* With targets that are masters, every configuration that is generated has an
\* address for every shard, as long as the sentinel monitors them all.
THEOREM EveryShardTargeted == Spec => []AllShardsTargeted
<1>1. Init => CoverInv
  BY DEF Init, CoverInv
<1>2. Init => AllShardsTargeted
  <2> SUFFICES ASSUME Init, NEW s \in Shards PROVE targets[s].master # NoServer
    BY DEF AllShardsTargeted
  <2>1. targets[s].master = FirstMaster[s]  BY DEF Init
  <2>2. FirstMaster[s] \in Servers  BY DiscoveryAssumption
  <2> QED  BY <2>1, <2>2, DiscoveryAssumption DEF NoServer
<1>3. DiscoveryInv /\ CoverInv /\ [Next]_vars => CoverInv'
  BY CoverInductive
<1>4. DiscoveryInv /\ CoverInv /\ AllShardsTargeted /\ [Next]_vars => AllShardsTargeted'
  BY TargetedStep
<1> QED  BY <1>1, <1>2, <1>3, <1>4, DiscoveryInvariant, PTL DEF Spec
=============================================================================
