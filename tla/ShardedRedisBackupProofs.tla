---------------------- MODULE ShardedRedisBackupProofs ----------------------
(***************************************************************************)
(* Theorems about ShardedRedisBackup, for every set of shards and servers, *)
(* every topology, schedule, timeout and limit, and any number of          *)
(* failures, edits and restarts.                                           *)
(***************************************************************************)
EXTENDS PromptBackup, BackupSlices, FiniteSetTheorems, SequenceTheorems,
        WellFoundedInduction, TLAPS

-----------------------------------------------------------------------------
(* Facts about the operators.                                              *)

\* A set of servers that is not empty has one with the smallest ID, so the
\* CHOOSE of FirstROSlave is well defined.
LEMMA SmallestServer ==
  ASSUME NEW R \in SUBSET Nat, R # {}
  PROVE  \E r \in R : \A q \in R : r =< q
<1> DEFINE lt == OpToRel(<, Nat)
<1>1. IsWellFoundedOn(lt, Nat)
  BY NatLessThanWellFounded
<1>2. \E r \in R : \A q \in R : ~ (<<q, r>> \in lt)
  <2> HIDE DEF lt
  <2> QED BY <1>1, WFMin
<1>3. PICK r \in R : \A q \in R : ~ (<<q, r>> \in lt)
  BY <1>2
<1>4. ASSUME NEW q \in R PROVE r =< q
  <2>1. <<q, r>> \in Nat \X Nat /\ ~ (q < r)
    BY <1>3 DEF OpToRel
  <2> QED BY <2>1
<1> QED BY <1>4

\* The server a backup is started on is a read-only slave of its shard.
LEMMA FirstROSlaveType ==
  ASSUME cluster \in Topologies, NEW s \in Shards, cluster.ro[s] # {}
  PROVE  FirstROSlave(s) \in Servers /\ FirstROSlave(s) \in cluster.ro[s]
<1>1. cluster.ro[s] \in SUBSET Servers
  BY TopologyAssumption
<1>2. cluster.ro[s] \in SUBSET Nat
  BY <1>1, ServersAssumption
<1>3. \E r \in cluster.ro[s] : \A q \in cluster.ro[s] : r =< q
  BY <1>2, SmallestServer
<1> QED BY <1>1, <1>3 DEF FirstROSlave

\* What reconcileBackupList leaves in the list: old entries, but no pending
\* one of a shard that gets a new one, and the new ones.
LEMMA ReconcileElements ==
  ASSUME NEW B, NEW n, NEW S, NEW limit,
         NEW b \in ReconcileBackupList(B, n, S, limit)
  PROVE  \/ /\ b \in B
            /\ ~ \E s \in ToSchedule(B, n, S) : b \in FindLastBackup(B, s, "Pending")
         \/ \E s \in ToSchedule(B, n, S) : b = Scheduled(s, n)
BY DEF ReconcileBackupList, ApplyHistoryLimit

\* An entry reconcileBackupList adds is a backup status.
LEMMA ScheduledType ==
  ASSUME NEW s \in Shards, NEW n \in Nat
  PROVE  Scheduled(s, n) \in BackupStatus
BY DEF Scheduled, BackupStatus, BackupStates, NoServer

\* The next run is a time of the schedule.
LEMMA NextRunType ==
  ASSUME NEW c \in Crons, NEW t \in Times
  PROVE  NextRun(c, t) \in Scheds /\ NextRun(c, t) \in Nat /\ NextRun(c, t) >= t
BY NextRunAssumption DEF Times, Scheds

\* A list whose entries are backups of the schedules.
Listed(B) == B \subseteq BackupStatus /\ \A b \in B : b.sched \in Scheds

\* What phase 2 starts comes from the cache, is pending, and has a slave.
LEMMA StartableFacts ==
  ASSUME TypeOK, NEW b \in Startable
  PROVE  /\ b \in cache.backups /\ b \in BackupStatus /\ b.sched \in Scheds
         /\ b.state = "Pending" /\ b.sched < now /\ b.shard \in cluster.shards
         /\ FirstROSlave(b.shard) \in Servers
<1>1. /\ b \in cache.backups /\ b.state = "Pending" /\ b.sched < now
      /\ b.shard \in cluster.shards /\ cluster.ro[b.shard] # {}
  BY DEF Startable, Due, FindLastBackup
<1>2. b \in BackupStatus /\ b.sched \in Scheds
  BY <1>1 DEF TypeOK, Resources
<1>3. b.shard \in Shards /\ cluster \in Topologies
  BY <1>2 DEF BackupStatus, TypeOK
<1> QED BY <1>1, <1>2, <1>3, FirstROSlaveType

\* Phase 2 turns a startable entry into a well-typed running one.
LEMMA StartedType ==
  ASSUME TypeOK, NEW b \in Startable
  PROVE  /\ Started(b) \in BackupStatus
         /\ Started(b).shard = b.shard /\ Started(b).sched = b.sched
         /\ Started(b).state = "Running"
<1>1. b \in BackupStatus /\ FirstROSlave(b.shard) \in Servers /\ now \in Nat
  BY StartableFacts, NumbersAssumption DEF TypeOK, Times
<1> QED BY <1>1 DEF Started, BackupStatus, BackupStates

\* Phase 3 keeps an entry well-typed and on schedule.
LEMMA ObservedType ==
  ASSUME TypeOK, NEW b \in cache.backups, b.state = "Running"
  PROVE  /\ Observed(b) \in BackupStatus
         /\ Observed(b).shard = b.shard /\ Observed(b).sched = b.sched
         /\ Observed(b).state \in BackupStates \ {"Pending"}
<1>1. b \in BackupStatus
  BY DEF TypeOK, Resources
<1> QED BY <1>1 DEF Observed, SeenState, SeenLocated, BackupStatus, BackupStates

\* The three lists Reconcile may write.
LEMMA Phase2Listed ==
  ASSUME TypeOK
  PROVE  Listed((cache.backups \ Startable) \cup {Started(b) : b \in Startable})
<1>1. Listed(cache.backups)
  BY DEF TypeOK, Resources, Listed
<1>2. \A b \in Startable : Started(b) \in BackupStatus /\ Started(b).sched \in Scheds
  BY StartedType, StartableFacts
<1> QED BY <1>1, <1>2 DEF Listed

\* Phase 3 writes entries of the status type.
LEMMA Phase3Listed ==
  ASSUME TypeOK
  PROVE  Listed(AfterPhase3)
<1>1. Listed(cache.backups)
  BY DEF TypeOK, Resources, Listed
<1>2. \A b \in cache.backups : b.state = "Running" =>
        Observed(b) \in BackupStatus /\ Observed(b).sched \in Scheds
  BY <1>1, ObservedType DEF Listed
<1> QED BY <1>1, <1>2 DEF Listed, AfterPhase3

\* Phase 4 writes entries of the status type.
LEMMA Phase4Listed ==
  ASSUME TypeOK
  PROVE  Listed(AfterPhase4)
<1> DEFINE n == NextRun(cache.cron, now)
<1>1. Listed(cache.backups)
  BY DEF TypeOK, Resources, Listed
<1>2. n \in Scheds /\ n \in Nat
  BY NextRunType DEF TypeOK, Resources
<1>3. cluster.shards \subseteq Shards
  BY TopologyAssumption DEF TypeOK
<1>4. ASSUME NEW b \in AfterPhase4 PROVE b \in BackupStatus /\ b.sched \in Scheds
  <2>1. CASE b \in cache.backups
    BY <2>1, <1>1 DEF Listed
  <2>2. CASE \E s \in ToSchedule(cache.backups, n, cluster.shards) : b = Scheduled(s, n)
    <3>1. PICK s \in cluster.shards : b = Scheduled(s, n)
      BY <2>2 DEF ToSchedule
    <3> QED BY <3>1, <1>2, <1>3, ScheduledType DEF Scheduled
  <2> QED BY <2>1, <2>2, ReconcileElements DEF AfterPhase4
<1> QED BY <1>4 DEF Listed

-----------------------------------------------------------------------------
(* Type correctness.                                                       *)

\* The stored resource keeps its type, and its list comes from somewhere.
LEMMA WrittenType ==
  ASSUME TypeOK
  PROVE  /\ Written \in Resources
         /\ Listed(Written.backups)
         /\ Written = api \/ Written.rv = api.rv + 1
         /\ \/ Written.backups \in {api.backups, {}}
            \/ write.kind = "status" /\ Written.backups = write.backups
<1>1. /\ api \in Resources /\ api.backups \in SUBSET BackupStatus /\ api.rv + 1 \in Nat
      /\ write \in Writes /\ write.backups \in SUBSET BackupStatus
      /\ Listed(api.backups) /\ Listed(write.backups) /\ Listed({})
  BY DEF TypeOK, Resources, Writes, Listed
<1> DEFINE new == CASE write.kind = "status"   -> [api EXCEPT !.backups = write.backups]
                    [] write.kind = "init"     -> [api EXCEPT !.finalizer = TRUE]
                    [] write.kind = "finalize" -> [api EXCEPT !.finalizer = FALSE,
                                                     !.exists = FALSE, !.backups = {}]
                    [] OTHER                   -> api
<1>2. /\ new \in Resources
      /\ \/ new.backups \in {api.backups, {}}
         \/ write.kind = "status" /\ new.backups = write.backups
  <2>1. CASE write.kind = "status"
    BY <1>1, <2>1 DEF Resources
  <2>2. CASE write.kind = "init"
    BY <1>1, <2>2 DEF Resources
  <2>3. CASE write.kind = "finalize"
    BY <1>1, <2>3 DEF Resources
  <2>4. CASE write.kind = "none"
    BY <1>1, <2>4
  <2> QED BY <1>1, <2>1, <2>2, <2>3, <2>4 DEF Writes
<1>3. Written = IF new = api THEN api ELSE [new EXCEPT !.rv = api.rv + 1]
  BY DEF Written
<1> HIDE DEF new
<1>4. /\ Written \in Resources
      /\ Written = api \/ Written.rv = api.rv + 1
      /\ \/ Written.backups \in {api.backups, {}}
         \/ write.kind = "status" /\ Written.backups = write.backups
  BY <1>1, <1>2, <1>3 DEF Resources
<1> QED BY <1>1, <1>4

\* ReconcileThreads keeps the map and the runners in their types.
LEMMA ReconcileThreadsType ==
  ASSUME TypeOK, NEW K \in SUBSET Keys, ReconcileThreads(K)
  PROVE  threads' \subseteq Keys /\ runner' \in [Keys -> Runners]
<1>1. now \in Nat
  BY NumbersAssumption DEF TypeOK, Times
<1>2. runner' \in [Keys -> Runners]
  BY <1>1 DEF TypeOK, ReconcileThreads, Start, Runners, RunnerStates
<1> QED BY <1>2 DEF TypeOK, ReconcileThreads

\* The delayed request is set to a time.
LEMMA AddAfterType ==
  ASSUME NEW t \in Nat, wake \subseteq Nat, AddAfter(t)
  PROVE  wake' \subseteq Nat
BY DEF AddAfter

\* The status update is a well-typed write.
LEMMA StatusUpdateType ==
  ASSUME TypeOK, NEW B, Listed(B), StatusUpdate(B)
  PROVE  write' \in Writes /\ Listed(write'.backups)
BY DEF TypeOK, StatusUpdate, Writes, Resources, Listed

\* Counting an outside event keeps the counters natural.
LEMMA HappensType ==
  ASSUME events \in [EventKinds -> Nat], NEW e \in EventKinds, Happens(e)
  PROVE  events' \in [EventKinds -> Nat]
BY DEF Happens

\* The program starts in a well-typed state.
LEMMA InitType == Init => TypeOK
BY TopologyAssumption, NumbersAssumption, NextRunAssumption
DEF Init, TypeOK, Times, Resources, Writes, NoWrite, NotStarted, Runners, RunnerStates

\* Every branch of Reconcile keeps the types.
LEMMA ReconcileType ==
  ASSUME TypeOK, Reconcile
  PROVE  TypeOK'
<1>1. CASE ReconcileGone
  BY <1>1 DEF ReconcileGone, TakeRequest, TypeOK
<1>2. CASE Finalize
  <2>1. write' \in Writes /\ write'.backups = {}
    BY <1>2 DEF Finalize, TypeOK, Writes, Resources
  <2> QED BY <1>2, <2>1 DEF Finalize, TakeRequest, TypeOK
<1>3. CASE Initialize
  <2>1. write' \in Writes /\ write'.backups = {}
    BY <1>3 DEF Initialize, TypeOK, Writes, Resources
  <2> QED BY <1>3, <2>1 DEF Initialize, TakeRequest, TypeOK
<1>4. CASE RunPendingBackups
  <2> DEFINE K == {KeyOf(b, FirstROSlave(b.shard)) : b \in Startable}
             B == (cache.backups \ Startable) \cup {Started(b) : b \in Startable}
  <2>1. ASSUME NEW b \in Startable PROVE KeyOf(b, FirstROSlave(b.shard)) \in Keys
    <3>1. b.shard \in Shards
      BY StartableFacts DEF BackupStatus
    <3> QED BY <3>1, StartableFacts DEF KeyOf, Keys, TypeOK
  <2>2. K \in SUBSET Keys
    BY <2>1
  <2>3. ReconcileThreads(K) /\ StatusUpdate(B)
    BY <1>4 DEF RunPendingBackups
  <2>4. threads' \subseteq Keys /\ runner' \in [Keys -> Runners]
    BY <2>2, <2>3, ReconcileThreadsType
  <2>5. write' \in Writes /\ Listed(write'.backups)
    BY <2>3, Phase2Listed, StatusUpdateType
  <2> QED BY <1>4, <2>4, <2>5 DEF RunPendingBackups, TakeRequest, TypeOK, Listed
<1>5. CASE RequeueNoSlaves
  <2>1. threads' \subseteq Keys /\ runner' \in [Keys -> Runners]
    BY <1>5, ReconcileThreadsType DEF RequeueNoSlaves
  <2>2. now + RetryDelay \in Nat
    BY NumbersAssumption DEF TypeOK, Times
  <2>3. wake' \subseteq Nat
    BY <1>5, <2>2, AddAfterType DEF RequeueNoSlaves, TypeOK
  <2> QED BY <1>5, <2>1, <2>3 DEF RequeueNoSlaves, TakeRequest, TypeOK
<1>6. CASE ReconcileRunningBackups
  <2>1. threads' \subseteq Keys /\ runner' \in [Keys -> Runners]
    BY <1>6, ReconcileThreadsType DEF ReconcileRunningBackups
  <2>2. write' \in Writes /\ Listed(write'.backups)
    BY <1>6, Phase3Listed, StatusUpdateType DEF ReconcileRunningBackups
  <2> QED BY <1>6, <2>1, <2>2 DEF ReconcileRunningBackups, TakeRequest, TypeOK, Listed
<1>7. CASE ScheduleBackups
  <2>1. threads' \subseteq Keys /\ runner' \in [Keys -> Runners]
    BY <1>7, ReconcileThreadsType DEF ScheduleBackups
  <2>2. write' \in Writes /\ Listed(write'.backups)
    BY <1>7, Phase4Listed, StatusUpdateType DEF ScheduleBackups
  <2> QED BY <1>7, <2>1, <2>2 DEF ScheduleBackups, TakeRequest, TypeOK, Listed
<1>8. CASE AwaitNextRun
  <2>1. threads' \subseteq Keys /\ runner' \in [Keys -> Runners]
    BY <1>8, ReconcileThreadsType DEF AwaitNextRun
  <2>2. NextRun(cache.cron, now) + 1 \in Nat
    BY NextRunType DEF TypeOK, Resources
  <2>3. wake' \subseteq Nat
    BY <1>8, <2>2, AddAfterType DEF AwaitNextRun, TypeOK
  <2> QED BY <1>8, <2>1, <2>3 DEF AwaitNextRun, TakeRequest, TypeOK
<1> QED BY <1>1, <1>2, <1>3, <1>4, <1>5, <1>6, <1>7, <1>8 DEF Reconcile

\* Every step keeps the types.
LEMMA NextType ==
  ASSUME TypeOK, [Next]_vars
  PROVE  TypeOK'
<1>1. CASE Reconcile
  BY <1>1, ReconcileType
<1>2. CASE WriteSucceeds
  BY <1>2, WrittenType DEF WriteSucceeds, TypeOK, Listed, Writes, NoWrite
<1>3. CASE WriteConflicts
  BY <1>3 DEF WriteConflicts, TypeOK, Writes, NoWrite
<1>4. CASE WriteFails
  <2>1. events' \in [EventKinds -> Nat]
    BY <1>4, HappensType DEF WriteFails, EventKinds, TypeOK
  <2> QED BY <1>4, <2>1, WrittenType DEF WriteFails, TypeOK, Listed, Writes, NoWrite
<1>5. CASE Deliver
  BY <1>5 DEF Deliver, TypeOK
<1>6. CASE TimerFires
  BY <1>6 DEF TimerFires, TypeOK
<1>7. CASE Tick
  BY <1>7, NumbersAssumption DEF Tick, TypeOK, Times
<1>8. ASSUME NEW k \in Keys, WorkerEnds(k) \/ RunnerTimesOut(k) \/ RunnerPublishes(k)
      PROVE  TypeOK'
  <2>1. runner' \in [Keys -> Runners]
    BY <1>8 DEF WorkerEnds, RunnerTimesOut, RunnerPublishes, TypeOK, Runners, RunnerStates
  <2> QED BY <1>8, <2>1 DEF WorkerEnds, RunnerTimesOut, RunnerPublishes, TypeOK
<1>9. CASE TogglePause
  <2>1. events' \in [EventKinds -> Nat]
    BY <1>9, HappensType DEF TogglePause, EventKinds, TypeOK
  <2>2. api' \in Resources /\ api'.backups = api.backups
    <3> DEFINE x == ~api.pause
               n == api.rv + 1
    <3>1. x \in BOOLEAN /\ n \in Nat /\ api \in Resources
      BY DEF TypeOK, Resources
    <3>2. api' = [api EXCEPT !.pause = x, !.rv = n]
      BY <1>9, <3>1 DEF TogglePause, Resources
    <3> HIDE DEF x, n
    <3> QED BY <3>1, <3>2 DEF Resources
  <2> QED BY <1>9, <2>1, <2>2 DEF TogglePause, TypeOK
<1>10. CASE EditSchedule
  <2>1. events' \in [EventKinds -> Nat]
    BY <1>10, HappensType DEF EditSchedule, EventKinds, TypeOK
  <2>2. api' \in Resources /\ api'.backups = api.backups
    <3> DEFINE n == api.rv + 1
    <3>1. n \in Nat /\ api \in Resources
      BY DEF TypeOK, Resources
    <3>2. PICK c \in Crons : api' = [api EXCEPT !.cron = c, !.rv = n]
      BY <1>10, <3>1 DEF EditSchedule, Resources
    <3> HIDE DEF n
    <3> QED BY <3>1, <3>2 DEF Resources
  <2> QED BY <1>10, <2>1, <2>2 DEF EditSchedule, TypeOK
<1>11. CASE Delete
  <2>1. events' \in [EventKinds -> Nat]
    BY <1>11, HappensType DEF Delete, EventKinds, TypeOK
  <2>2. api' \in Resources /\ api'.backups \subseteq api.backups
    <3> DEFINE n == api.rv + 1
    <3>1. n \in Nat /\ api \in Resources
      BY DEF TypeOK, Resources
    <3>2. \/ api' = [api EXCEPT !.deleting = TRUE, !.rv = n]
          \/ api' = [api EXCEPT !.exists = FALSE, !.backups = {}, !.rv = n]
      BY <1>11, <3>1 DEF Delete, Resources
    <3> HIDE DEF n
    <3>3. CASE api' = [api EXCEPT !.deleting = TRUE, !.rv = n]
      BY <3>1, <3>3 DEF Resources
    <3>4. CASE api' = [api EXCEPT !.exists = FALSE, !.backups = {}, !.rv = n]
      BY <3>1, <3>4 DEF Resources
    <3> QED BY <3>2, <3>3, <3>4
  <2> QED BY <1>11, <2>1, <2>2 DEF Delete, TypeOK
<1>12. CASE TopologyChanges
  <2>1. events' \in [EventKinds -> Nat]
    BY <1>12, HappensType DEF TopologyChanges, EventKinds, TypeOK
  <2> QED BY <1>12, <2>1 DEF TopologyChanges, TypeOK
<1>13. CASE Restart
  <2>1. events' \in [EventKinds -> Nat]
    BY <1>13, HappensType DEF Restart, EventKinds, TypeOK
  <2>2. runner' \in [Keys -> Runners]
    BY <1>13 DEF Restart, TypeOK, Runners, RunnerStates
  <2> QED BY <1>13, <2>1, <2>2 DEF Restart, TypeOK, Writes, NoWrite
<1>14. CASE SetAliases
  BY <1>14 DEF SetAliases, TypeOK
<1>15. CASE UNCHANGED vars
  BY <1>15 DEF vars, TypeOK
<1> QED BY <1>1, <1>2, <1>3, <1>4, <1>5, <1>6, <1>7, <1>8, <1>9, <1>10, <1>11, <1>12,
           <1>13, <1>14, <1>15 DEF Next

\* Type correctness: no reconcile, write, event or failure takes a variable
\* out of its type.
THEOREM TypeCorrect == Spec => []TypeOK
BY InitType, NextType, PTL DEF Spec

-----------------------------------------------------------------------------
(* How the lists move: what a step may do to the resource, its cached copy *)
(* and the pending write.                                                  *)

\* The list phase 2 writes.
Phase2List == (cache.backups \ Startable) \cup {Started(b) : b \in Startable}

\* Reconcile has no write under way, looks at the cached copy, and leaves at
\* most one write behind: a status made by one of its phases, or a finalizer.
LEMMA ReconcileWrites ==
  ASSUME Reconcile
  PROVE  /\ write = NoWrite /\ UNCHANGED <<now, api, cache, cluster, aliased, events>>
         /\ \/ write' = write
            \/ write'.kind # "status" /\ write'.backups = {} /\ write'.rv = cache.rv
            \/ /\ write'.kind = "status" /\ write'.rv = cache.rv
               /\ \/ RunPendingBackups /\ write'.backups = Phase2List
                  \/ ReconcileRunningBackups /\ write'.backups = AfterPhase3
                  \/ ScheduleBackups /\ write'.backups = AfterPhase4
<1> USE DEF TakeRequest
<1>1. CASE ReconcileGone \/ RequeueNoSlaves \/ AwaitNextRun
  BY <1>1 DEF ReconcileGone, RequeueNoSlaves, AwaitNextRun
<1>2. CASE Finalize \/ Initialize
  BY <1>2 DEF Finalize, Initialize
<1>3. CASE RunPendingBackups
  BY <1>3 DEF RunPendingBackups, StatusUpdate, Phase2List
<1>4. CASE ReconcileRunningBackups
  BY <1>4 DEF ReconcileRunningBackups, StatusUpdate
<1>5. CASE ScheduleBackups
  BY <1>5 DEF ScheduleBackups, StatusUpdate
<1> QED BY <1>1, <1>2, <1>3, <1>4, <1>5 DEF Reconcile

\* Every other step: the resource stays, loses its list, takes over the
\* pending list, or changes in another field; the cached copy stays or is
\* brought up to date; the pending write stays or is over.
LEMMA OtherSteps ==
  ASSUME TypeOK, [Next]_vars, ~Reconcile
  PROVE  /\ write' = write \/ write' = NoWrite
         /\ cache' = cache \/ (cache' = api /\ api' = api)
         /\ \/ api' = api
            \/ /\ api'.rv = api.rv + 1 /\ cache' = cache
               /\ \/ api'.backups = api.backups
                  \/ api'.backups = {}
                  \/ /\ write.kind = "status" /\ write.rv = api.rv /\ write' = NoWrite
                     /\ api'.backups = write.backups
<1>1. CASE WriteSucceeds \/ WriteFails
  <2>1. /\ write.rv = api.rv /\ write' = NoWrite /\ cache' = cache
        /\ api' = api \/ api' = Written
    BY <1>1 DEF WriteSucceeds, WriteFails, Accepted
  <2> QED BY <2>1, WrittenType
<1>2. CASE TogglePause \/ EditSchedule \/ Delete
  <2>1. api \in Resources
    BY DEF TypeOK
  <2>2. UNCHANGED <<cache, write>>
    BY <1>2 DEF TogglePause, EditSchedule, Delete
  <2>3. api'.rv = api.rv + 1 /\ (api'.backups = api.backups \/ api'.backups = {})
    <3>1. CASE TogglePause
      BY <2>1, <3>1 DEF TogglePause, Resources
    <3>2. CASE EditSchedule
      BY <2>1, <3>2 DEF EditSchedule, Resources
    <3>3. CASE Delete
      BY <2>1, <3>3 DEF Delete, Resources
    <3> QED BY <1>2, <3>1, <3>2, <3>3
  <2> QED BY <2>2, <2>3
<1>3. CASE Deliver \/ Restart
  BY <1>3 DEF Deliver, Restart
<1>4. CASE WriteConflicts
  BY <1>4 DEF WriteConflicts
<1>5. CASE UNCHANGED <<api, cache, write>>
  BY <1>5
<1>6. \/ WriteSucceeds \/ WriteFails \/ TogglePause \/ EditSchedule \/ Delete
      \/ Deliver \/ Restart \/ WriteConflicts \/ UNCHANGED <<api, cache, write>>
  BY DEF Next, TimerFires, Tick, WorkerEnds, RunnerTimesOut, RunnerPublishes,
         TopologyChanges, SetAliases, vars
<1> QED BY <1>1, <1>2, <1>3, <1>4, <1>5, <1>6

\* An entry of phase 2's list: one of the cache that stays, or a startable one
\* that has become running.
LEMMA Phase2Elements ==
  ASSUME TypeOK, NEW b \in Phase2List
  PROVE  \E old \in cache.backups :
           /\ old.shard = b.shard /\ old.sched = b.sched
           /\ \/ b = old /\ old \notin Startable
              \/ old \in Startable /\ b = Started(old)
BY StartableFacts, StartedType DEF Phase2List

\* An entry of phase 3's list: one of the cache, looked at if it is running.
LEMMA Phase3Elements ==
  ASSUME TypeOK, NEW b \in AfterPhase3
  PROVE  \E old \in cache.backups :
           /\ old.shard = b.shard /\ old.sched = b.sched
           /\ \/ b = old /\ old.state # "Running"
              \/ old.state = "Running" /\ b = Observed(old) /\ b.state # "Pending"
BY ObservedType DEF AfterPhase3

\* An entry of phase 4's list: one of the cache, closed if its shard gets a
\* new one, or a new one, for a time to come.
LEMMA Phase4Elements ==
  ASSUME TypeOK, Sound(cache.backups, now), NEW b \in AfterPhase4
  PROVE  LET n   == NextRun(cache.cron, now)
             Add == ToSchedule(cache.backups, n, cluster.shards)
         IN  /\ n \in Nat /\ n >= now /\ now \in Nat
             /\ \/ b \in cache.backups /\ (b.shard \in Add => b.state \notin OpenStates)
                \/ b = Scheduled(b.shard, n) /\ b.shard \in Add
<1> DEFINE n == NextRun(cache.cron, now)
           B == cache.backups
           Add == ToSchedule(B, n, cluster.shards)
<1>1. n \in Nat /\ n >= now /\ now \in Nat /\ B \in SUBSET BackupStatus
  BY NextRunType, NumbersAssumption DEF TypeOK, Resources, Times
<1>2. \A c \in B : c.sched \in Nat
  BY <1>1 DEF BackupStatus
<1>3. ASSUME NEW s \in Add, NEW c \in B, c.shard = s
      PROVE  /\ c.state # "Running"
             /\ c.state = "Pending" => c \in FindLastBackup(B, s, "Pending")
  <2>1. c.state = "Running" => c \in FindLastBackup(B, s, "Running")
    BY <1>2, <1>3 DEF FindLastBackup, Sound, OneOpenIn, OpenStates
  <2>2. c.state = "Pending" => c \in FindLastBackup(B, s, "Pending")
    BY <1>2, <1>3 DEF FindLastBackup, Sound, OneOpenIn, OpenStates
  <2> QED BY <2>1, <2>2 DEF ToSchedule
<1>4. \/ b \in B /\ ~ \E s \in Add : b \in FindLastBackup(B, s, "Pending")
      \/ \E s \in Add : b = Scheduled(s, n)
  BY ReconcileElements DEF AfterPhase4
<1>5. \A s : Scheduled(s, n).shard = s
  BY DEF Scheduled
<1> QED BY <1>1, <1>3, <1>4, <1>5 DEF OpenStates

-----------------------------------------------------------------------------
(* The status is a backup ledger.                                          *)

\* The clock only advances: what was sound stays sound.
LEMMA SoundLater ==
  ASSUME NEW B \in SUBSET BackupStatus, NEW t \in Nat, NEW u \in Nat, t =< u, Sound(B, t)
  PROVE  Sound(B, u)
BY DEF Sound, BackupStatus

\* Phase 2: pending entries start running.
LEMMA Phase2Sound ==
  ASSUME TypeOK, Sound(cache.backups, now)
  PROVE  Sound(Phase2List, now) /\ Advances(cache.backups, Phase2List)
<1>1. ASSUME NEW b \in Phase2List
      PROVE  \E old \in cache.backups :
               /\ old.shard = b.shard /\ old.sched = b.sched
               /\ \/ b = old /\ old \notin Startable
                  \/ old \in Startable /\ b = Started(old)
  BY Phase2Elements
<1>2. \A b \in Startable : /\ b.state = "Pending" /\ b.sched < now
                           /\ Started(b).state = "Running"
  BY StartableFacts, StartedType
<1>3. ASSUME NEW a \in Phase2List, NEW b \in Phase2List, a.shard = b.shard,
             \/ a.sched = b.sched
             \/ a.state \in OpenStates /\ b.state \in OpenStates
      PROVE  a = b
  <2>1. PICK x \in cache.backups : /\ x.shard = a.shard /\ x.sched = a.sched
                                   /\ \/ a = x /\ x \notin Startable
                                      \/ x \in Startable /\ a = Started(x)
    BY <1>1
  <2>2. PICK y \in cache.backups : /\ y.shard = b.shard /\ y.sched = b.sched
                                   /\ \/ b = y /\ y \notin Startable
                                      \/ y \in Startable /\ b = Started(y)
    BY <1>1
  <2>3. x = y
    <3>1. CASE a.sched = b.sched
      BY <1>3, <2>1, <2>2, <3>1 DEF Sound
    <3>2. CASE a.state \in OpenStates /\ b.state \in OpenStates
      <4>1. x.state \in OpenStates /\ y.state \in OpenStates
        BY <1>2, <2>1, <2>2, <3>2 DEF OpenStates
      <4> QED BY <1>3, <2>1, <2>2, <4>1 DEF Sound, OneOpenIn
    <3> QED BY <1>3, <3>1, <3>2
  <2> QED BY <2>1, <2>2, <2>3
<1>4. \A b \in Phase2List : b.state # "Pending" => b.sched < now
  BY <1>1, <1>2 DEF Sound
<1>5. Advances(cache.backups, Phase2List)
  <2> SUFFICES ASSUME NEW b \in Phase2List
               PROVE  \E old \in cache.backups :
                        /\ old.shard = b.shard /\ old.sched = b.sched
                        /\ b.state \in Ledger!Successors(old.state)
    BY DEF Advances
  <2>1. PICK x \in cache.backups : /\ x.shard = b.shard /\ x.sched = b.sched
                                   /\ b = x \/ (x \in Startable /\ b = Started(x))
    BY <1>1
  <2>2. b.state \in Ledger!Successors(x.state)
    BY <1>2, <2>1 DEF Ledger!Successors
  <2> QED BY <2>1, <2>2
<1> QED BY <1>3, <1>4, <1>5 DEF Sound, OneOpenIn

\* Phase 3: running entries are closed or stay.
LEMMA Phase3Sound ==
  ASSUME TypeOK, Sound(cache.backups, now)
  PROVE  Sound(AfterPhase3, now) /\ Advances(cache.backups, AfterPhase3)
<1> DEFINE Seen(b) == IF b.state = "Running" THEN Observed(b) ELSE b
<1>1. AfterPhase3 = {Seen(b) : b \in cache.backups}
  BY DEF AfterPhase3
<1>2. ASSUME NEW b \in cache.backups
      PROVE  /\ Seen(b).shard = b.shard /\ Seen(b).sched = b.sched
             /\ Seen(b).state \in OpenStates => b.state \in OpenStates
             /\ Seen(b).state # "Pending" => b.state # "Pending"
             /\ Seen(b).state \in Ledger!Successors(b.state)
  <2>1. b.state \in BackupStates
    BY DEF TypeOK, Resources, BackupStatus
  <2>2. CASE b.state = "Running"
    <3>1. /\ Seen(b).shard = b.shard /\ Seen(b).sched = b.sched
          /\ Seen(b).state \in BackupStates \ {"Pending"}
      BY <2>2, ObservedType
    <3> HIDE DEF Seen
    <3> QED BY <2>2, <3>1
            DEF BackupStates, OpenStates, Ledger!Successors, Ledger!Closed, Ledger!Open,
                Ledger!States
  <2>3. CASE b.state # "Running"
    BY <2>1, <2>3 DEF BackupStates, Ledger!Successors
  <2> QED BY <2>2, <2>3
<1> HIDE DEF Seen
<1>3. Sound(AfterPhase3, now)
  BY <1>1, <1>2 DEF Sound, OneOpenIn
<1>4. Advances(cache.backups, AfterPhase3)
  BY <1>1, <1>2 DEF Advances
<1> QED BY <1>3, <1>4

\* Phase 4: a shard gets a pending entry for a time to come, and only if its
\* open entry, if any, is a pending one that goes.
LEMMA Phase4Sound ==
  ASSUME TypeOK, Sound(cache.backups, now)
  PROVE  Sound(AfterPhase4, now) /\ Advances(cache.backups, AfterPhase4)
<1> DEFINE n == NextRun(cache.cron, now)
           B == cache.backups
           Add == ToSchedule(B, n, cluster.shards)
<1>1. n \in Nat /\ n >= now /\ now \in Nat /\ B \in SUBSET BackupStatus
  BY NextRunType, NumbersAssumption DEF TypeOK, Resources, Times
<1>2. \A b \in B : b.sched \in Nat /\ b.state \in BackupStates
  BY <1>1 DEF BackupStatus
<1>3. ASSUME NEW s \in Add, NEW b \in B, b.shard = s
      PROVE  b.sched # n
  <2>1. b.state = "Pending" => b \in FindLastBackup(B, s, "Pending")
    BY <1>2, <1>3 DEF FindLastBackup, Sound, OneOpenIn, OpenStates
  <2>2. b.state # "Pending" => b.sched < now
    BY DEF Sound
  <2> QED BY <1>1, <1>2, <2>1, <2>2 DEF ToSchedule
<1>4. ASSUME NEW b \in AfterPhase4
      PROVE  \/ b \in B /\ (b.shard \in Add => b.state \notin OpenStates)
             \/ \E s \in Add : b = Scheduled(s, n)
  BY Phase4Elements
<1>5. \A s \in Add : /\ Scheduled(s, n).shard = s /\ Scheduled(s, n).sched = n
                     /\ Scheduled(s, n).state = "Pending"
  BY DEF Scheduled
<1> HIDE DEF n, B, Add
<1>6. OneOpenIn(AfterPhase4)
  <2> SUFFICES ASSUME NEW a \in AfterPhase4, NEW b \in AfterPhase4, a.shard = b.shard,
                      a.state \in OpenStates, b.state \in OpenStates
               PROVE  a = b
    BY DEF OneOpenIn
  <2>1. CASE a \in B /\ b \in B
    BY <2>1 DEF B, Sound, OneOpenIn
  <2>2. CASE a \notin B \/ b \notin B
    BY <1>4, <1>5, <2>2
  <2> QED BY <2>1, <2>2
<1>7. \A a, b \in AfterPhase4 : a.shard = b.shard /\ a.sched = b.sched => a = b
  <2> SUFFICES ASSUME NEW a \in AfterPhase4, NEW b \in AfterPhase4, a.shard = b.shard,
                      a.sched = b.sched
               PROVE  a = b
    OBVIOUS
  <2>1. CASE a \in B /\ b \in B
    BY <2>1 DEF B, Sound
  <2>2. CASE a \notin B \/ b \notin B
    BY <1>3, <1>4, <1>5, <2>2
  <2> QED BY <2>1, <2>2
<1>8. \A b \in AfterPhase4 : b.state # "Pending" => b.sched < now
  BY <1>4, <1>5 DEF B, Sound
<1>9. Advances(B, AfterPhase4)
  <2> SUFFICES ASSUME NEW b \in AfterPhase4
               PROVE  \/ \E old \in B : /\ old.shard = b.shard /\ old.sched = b.sched
                                         /\ b.state \in Ledger!Successors(old.state)
                      \/ /\ b.state = "Pending"
                         /\ \A old \in B : ~(old.shard = b.shard /\ old.sched = b.sched)
    BY DEF Advances
  <2>1. CASE b \in B
    <3>1. b.state \in Ledger!Successors(b.state)
      BY <1>2, <2>1 DEF BackupStates, Ledger!Successors
    <3> QED BY <2>1, <3>1
  <2>2. CASE \E s \in Add : b = Scheduled(s, n)
    BY <1>3, <1>5, <2>2
  <2> QED BY <1>4, <2>1, <2>2
<1> QED BY <1>6, <1>7, <1>8, <1>9 DEF Sound, B

\* The empty list is sound.
LEMMA EmptySound == \A t : Sound({}, t)
BY DEF Sound, OneOpenIn

\* The inductive invariant holds when the program starts.
LEMMA InitStatus == Init => StatusInv
<1> SUFFICES ASSUME Init PROVE StatusInv
  OBVIOUS
<1>1. api.backups = {} /\ cache = api /\ write.backups = {} /\ write.kind = "none"
  BY DEF Init, NoWrite
<1>2. api.rv = 0
  BY DEF Init
<1> QED BY <1>1, <1>2, EmptySound DEF StatusInv

\* A list that follows from the cached one makes a good write.
LEMMA StatusUpdateStep ==
  ASSUME TypeOK, StatusInv, NEW B, Sound(B, now), Advances(cache.backups, B),
         StatusUpdate(B), UNCHANGED <<now, api, cache>>
  PROVE  StatusInv'
<1>1. write'.kind = "status" /\ write'.rv = cache.rv /\ write'.backups = B
  BY DEF StatusUpdate
<1>2. cache.rv = api.rv => Advances(api.backups, B)
  BY DEF StatusInv
<1> QED BY <1>1, <1>2 DEF StatusInv

\* Every branch of Reconcile keeps the inductive invariant.
LEMMA ReconcileStatus ==
  ASSUME TypeOK, StatusInv, Reconcile
  PROVE  StatusInv'
<1>1. CASE ReconcileGone \/ RequeueNoSlaves \/ AwaitNextRun
  BY <1>1 DEF ReconcileGone, RequeueNoSlaves, AwaitNextRun, StatusInv
<1>2. CASE Finalize \/ Initialize
  <2>1. write'.backups = {} /\ write'.kind # "status"
    BY <1>2 DEF Finalize, Initialize
  <2> QED BY <1>2, <2>1, EmptySound DEF Finalize, Initialize, StatusInv
<1>3. CASE RunPendingBackups
  <2>1. StatusUpdate(Phase2List) /\ UNCHANGED <<now, api, cache>>
    BY <1>3 DEF RunPendingBackups, Phase2List
  <2> QED BY <2>1, Phase2Sound, StatusUpdateStep DEF StatusInv
<1>4. CASE ReconcileRunningBackups
  BY <1>4, Phase3Sound, StatusUpdateStep DEF ReconcileRunningBackups, StatusInv
<1>5. CASE ScheduleBackups
  BY <1>5, Phase4Sound, StatusUpdateStep DEF ScheduleBackups, StatusInv
<1> QED BY <1>1, <1>2, <1>3, <1>4, <1>5 DEF Reconcile

\* The resource changes and its resourceVersion with it, or nothing changes.
LEMMA ResourceStep ==
  ASSUME TypeOK, StatusInv, UNCHANGED <<now, cache>>, write' = write \/ write' = NoWrite,
         api' = api \/ api'.rv = api.rv + 1, Sound(api'.backups, now)
  PROVE  StatusInv'
<1>1. api.rv \in Nat /\ cache.rv \in Nat /\ write.rv \in Nat
  BY DEF TypeOK, Resources, Writes
<1>2. NoWrite.kind # "status" /\ NoWrite.backups = {}
  BY DEF NoWrite
<1>3. CASE api' = api
  BY <1>1, <1>2, <1>3, EmptySound DEF StatusInv
<1>4. CASE api'.rv = api.rv + 1
  <2>1. cache.rv < api'.rv
    BY <1>1, <1>4 DEF StatusInv
  <2>2. write.kind = "status" => write.rv < api'.rv
    BY <1>1, <1>4 DEF StatusInv
  <2>3. /\ Sound(write'.backups, now)
        /\ write'.kind = "status" => write'.rv < api'.rv
    BY <1>2, <2>2, EmptySound DEF StatusInv
  <2>4. api'.rv \in Nat /\ (write'.kind = "status" => write'.rv \in Nat)
    BY <1>1, <1>2, <1>4
  <2> QED BY <1>1, <2>1, <2>3, <2>4 DEF StatusInv
<1> QED BY <1>3, <1>4

\* Every step keeps the inductive invariant.
LEMMA NextStatus ==
  ASSUME TypeOK, StatusInv, [Next]_vars
  PROVE  StatusInv'
<1>1. CASE Reconcile
  BY <1>1, ReconcileStatus
<1>2. CASE WriteSucceeds \/ WriteFails
  <2>1. Sound(Written.backups, now)
    BY WrittenType, EmptySound DEF StatusInv
  <2>2. /\ UNCHANGED <<now, cache>> /\ write' = NoWrite
        /\ api' = api \/ api' = Written
    BY <1>2 DEF WriteSucceeds, WriteFails
  <2> QED BY <2>1, <2>2, WrittenType, ResourceStep DEF StatusInv
<1>3. CASE WriteConflicts
  BY <1>3, ResourceStep DEF WriteConflicts, StatusInv
<1>4. CASE Deliver
  <2>1. cache' = api
    BY <1>4 DEF Deliver
  <2>2. api.rv =< api.rv
    BY DEF TypeOK, Resources
  <2> QED BY <1>4, <2>1, <2>2 DEF Deliver, StatusInv
<1>5. CASE Tick
  <2>1. /\ api.backups \in SUBSET BackupStatus /\ cache.backups \in SUBSET BackupStatus
        /\ write.backups \in SUBSET BackupStatus
    BY DEF TypeOK, Resources, Writes
  <2>2. now \in Nat /\ now' \in Nat /\ now =< now'
    BY <1>5, NumbersAssumption DEF Tick, TypeOK, Times
  <2>3. /\ Sound(api.backups, now') /\ Sound(cache.backups, now')
        /\ Sound(write.backups, now')
    BY <2>1, <2>2, SoundLater DEF StatusInv
  <2> QED BY <1>5, <2>3 DEF Tick, StatusInv
<1>6. CASE TimerFires
  BY <1>6 DEF TimerFires, StatusInv
<1>7. ASSUME NEW k \in Keys, WorkerEnds(k) \/ RunnerTimesOut(k) \/ RunnerPublishes(k)
      PROVE  StatusInv'
  BY <1>7 DEF WorkerEnds, RunnerTimesOut, RunnerPublishes, StatusInv
<1>8. CASE TogglePause \/ EditSchedule \/ Delete
  <2>1. api \in Resources
    BY DEF TypeOK
  <2>2. api'.rv = api.rv + 1 /\ api'.backups \in {api.backups, {}}
    <3>1. CASE TogglePause
      BY <2>1, <3>1 DEF TogglePause, Resources
    <3>2. CASE EditSchedule
      BY <2>1, <3>2 DEF EditSchedule, Resources
    <3>3. CASE Delete
      BY <2>1, <3>3 DEF Delete, Resources
    <3> QED BY <1>8, <3>1, <3>2, <3>3
  <2>3. UNCHANGED <<now, cache, write>>
    BY <1>8 DEF TogglePause, EditSchedule, Delete
  <2>4. Sound(api'.backups, now)
    BY <2>2, EmptySound DEF StatusInv
  <2> QED BY <2>2, <2>3, <2>4, ResourceStep
<1>9. CASE TopologyChanges \/ SetAliases
  BY <1>9 DEF TopologyChanges, SetAliases, StatusInv
<1>10. CASE Restart
  <2>1. cache' = api /\ api' = api /\ now' = now /\ write' = NoWrite
    BY <1>10 DEF Restart
  <2>2. api.rv =< api.rv /\ NoWrite.kind # "status" /\ NoWrite.backups = {}
    BY DEF TypeOK, Resources, NoWrite
  <2>3. Sound(api.backups, now) /\ Sound({}, now)
    BY EmptySound DEF StatusInv
  <2> QED BY <2>1, <2>2, <2>3 DEF StatusInv
<1>11. CASE UNCHANGED vars
  BY <1>11 DEF vars, StatusInv
<1> QED BY <1>1, <1>2, <1>3, <1>4, <1>5, <1>6, <1>7, <1>8, <1>9, <1>10, <1>11 DEF Next

\* The stored, cached and outgoing status lists of the controller stay sound,
\* and a write the API server will accept follows from what it stores.
THEOREM StatusInvariant == Spec => []StatusInv
<1>1. Init => TypeOK /\ StatusInv
  BY InitType, InitStatus
<1>2. TypeOK /\ StatusInv /\ [Next]_vars => (TypeOK /\ StatusInv)'
  BY NextType, NextStatus
<1> QED BY <1>1, <1>2, PTL DEF Spec

\* A shard never has two open backups in the status.
THEOREM OneOpen == Spec => []OneOpenPerShard
<1>1. StatusInv => OneOpenPerShard
  BY DEF StatusInv, Sound, OneOpenPerShard
<1> QED BY <1>1, StatusInvariant, PTL

-----------------------------------------------------------------------------
(* Refinement.                                                             *)

\* A sound list that follows from another is an update of the ledger.
LEMMA LedgerUpdate ==
  ASSUME TypeOK', NEW t, Sound(api'.backups, t), Advances(api.backups, api'.backups)
  PROVE  Ledger!Update
<1>1. api'.backups \in SUBSET BackupStatus
  BY DEF TypeOK, Resources
<1> DEFINE L == Lines(api.backups)
           M == Lines(api'.backups)
<1>2. M \subseteq Ledger!Line
  BY <1>1 DEF Lines, Ledger!Line, BackupStatus, Ledger!States, BackupStates
<1>3. Ledger!WellFormed(M)
  <2> SUFFICES ASSUME NEW a \in M, NEW b \in M, a # b
               PROVE  /\ ~(a.shard = b.shard /\ a.sched = b.sched)
                      /\ ~(/\ a.shard = b.shard
                           /\ a.state \in Ledger!Open /\ b.state \in Ledger!Open)
    BY DEF Ledger!WellFormed, Ledger!SameLine
  <2>1. PICK x \in api'.backups : a = [shard |-> x.shard, sched |-> x.sched, state |-> x.state]
    BY DEF Lines
  <2>2. PICK y \in api'.backups : b = [shard |-> y.shard, sched |-> y.sched, state |-> y.state]
    BY DEF Lines
  <2>3. x # y
    BY <2>1, <2>2
  <2> QED BY <2>1, <2>2, <2>3 DEF Sound, OneOpenIn, OpenStates, Ledger!Open
<1>4. ASSUME NEW new \in M
      PROVE  \/ \E old \in L : /\ old.shard = new.shard /\ old.sched = new.sched
                                /\ new.state \in Ledger!Successors(old.state)
             \/ /\ new.state = "Pending"
                /\ \A old \in L : ~(old.shard = new.shard /\ old.sched = new.sched)
  <2>1. PICK y \in api'.backups : new = [shard |-> y.shard, sched |-> y.sched, state |-> y.state]
    BY DEF Lines
  <2>2. CASE \E x \in api.backups : /\ x.shard = y.shard /\ x.sched = y.sched
                                    /\ y.state \in Ledger!Successors(x.state)
    <3>1. PICK x \in api.backups : /\ x.shard = y.shard /\ x.sched = y.sched
                                   /\ y.state \in Ledger!Successors(x.state)
      BY <2>2
    <3>2. [shard |-> x.shard, sched |-> x.sched, state |-> x.state] \in L
      BY DEF Lines
    <3> QED BY <2>1, <3>1, <3>2
  <2>3. CASE /\ y.state = "Pending"
             /\ \A x \in api.backups : ~(x.shard = y.shard /\ x.sched = y.sched)
    BY <2>1, <2>3 DEF Lines
  <2> QED BY <2>2, <2>3 DEF Advances
<1> QED BY <1>2, <1>3, <1>4 DEF Ledger!Update, Ledger!SameLine

\* Every step of the controller is a step of the ledger, or leaves it alone.
LEMMA StepSimulation ==
  ASSUME TypeOK, TypeOK', StatusInv, StatusInv', [Next]_vars
  PROVE  [Ledger!Next]_(Lines(api.backups))
<1>1. \/ api'.backups = api.backups
      \/ api'.backups = {}
      \/ /\ write.kind = "status" /\ write.rv = api.rv
         /\ api'.backups = write.backups
  BY ReconcileWrites, OtherSteps
<1>2. Sound(api'.backups, now')
  BY DEF StatusInv
<1>3. CASE api'.backups = api.backups
  BY <1>3 DEF Lines
<1>4. CASE api'.backups = {}
  <2>1. Advances(api.backups, api'.backups)
    BY <1>4 DEF Advances
  <2> QED BY <1>2, <2>1, LedgerUpdate DEF Ledger!Next
<1>5. CASE write.kind = "status" /\ write.rv = api.rv /\ api'.backups = write.backups
  <2>1. Advances(api.backups, api'.backups)
    BY <1>5 DEF StatusInv
  <2> QED BY <1>2, <2>1, LedgerUpdate DEF Ledger!Next
<1> QED BY <1>1, <1>3, <1>4, <1>5

\* The controller implements the ledger: whatever fails, conflicts, is read
\* late or restarted, an entry of the status only moves forward and a closed
\* one stays closed.
THEOREM ImplementsLedger == Spec => LedgerSpec
<1>1. Init => Ledger!Init
  <2> SUFFICES ASSUME Init PROVE Ledger!Init
    OBVIOUS
  <2>1. api.backups = {}
    BY DEF Init
  <2> QED BY <2>1 DEF Ledger!Init, Lines
<1>2. /\ TypeOK /\ TypeOK' /\ StatusInv /\ StatusInv' /\ [Next]_vars
      => [Ledger!Next]_(Lines(api.backups))
  BY StepSimulation
<1> QED BY <1>1, <1>2, TypeCorrect, StatusInvariant, PTL DEF Spec, LedgerSpec, Ledger!Spec

-----------------------------------------------------------------------------
(* Finalization.                                                           *)

\* Runners exist only for a resource that holds the finalizer; while its
\* removal is under way the cache shows the deletion, so none is started.
FinalizationInv ==
  /\ cache.deleting => api.deleting
  /\ api.exists /\ ~api.finalizer => threads = {} /\ ~cache.finalizer
  /\ write.kind = "finalize" => threads = {} /\ cache.deleting
  /\ ~api.exists => threads = {} /\ ~Ready

\* The finalization invariant holds when the program starts.
LEMMA InitFinalization == Init => FinalizationInv
BY DEF Init, FinalizationInv, NoWrite

\* Every branch of Reconcile keeps the finalization invariant.
LEMMA ReconcileFinalization ==
  ASSUME FinalizationInv, Reconcile
  PROVE  FinalizationInv'
<1>1. UNCHANGED <<api, cache>>
  BY DEF Reconcile, ReconcileGone, Finalize, Initialize, RunPendingBackups, RequeueNoSlaves,
         ReconcileRunningBackups, ScheduleBackups, AwaitNextRun
<1>2. write.kind # "finalize"
  BY DEF Reconcile, ReconcileGone, Finalize, Initialize, RunPendingBackups, RequeueNoSlaves,
         ReconcileRunningBackups, ScheduleBackups, AwaitNextRun, TakeRequest, NoWrite
<1>3. CASE RunPendingBackups
  <2>1. Ready /\ write'.kind = "status"
    BY <1>3 DEF RunPendingBackups, StatusUpdate
  <2> QED BY <1>1, <2>1 DEF FinalizationInv, Ready
<1>4. CASE Finalize
  <2>1. threads' = {} /\ cache.deleting
    BY <1>4 DEF Finalize
  <2> QED BY <1>1, <2>1 DEF FinalizationInv, Ready
<1>5. CASE ReconcileGone \/ Initialize
  <2>1. threads' = threads /\ write'.kind # "finalize"
    BY <1>2, <1>5 DEF ReconcileGone, Initialize
  <2> QED BY <1>1, <2>1 DEF FinalizationInv, Ready
<1>6. CASE RequeueNoSlaves \/ ReconcileRunningBackups \/ ScheduleBackups \/ AwaitNextRun
  <2>1. threads' \subseteq threads /\ write'.kind # "finalize"
    BY <1>2, <1>6 DEF RequeueNoSlaves, ReconcileRunningBackups, ScheduleBackups,
                      AwaitNextRun, ReconcileThreads, StatusUpdate
  <2> QED BY <1>1, <2>1 DEF FinalizationInv, Ready
<1> QED BY <1>3, <1>4, <1>5, <1>6 DEF Reconcile

\* Every step keeps the finalization invariant.
LEMMA NextFinalization ==
  ASSUME TypeOK, FinalizationInv, [Next]_vars
  PROVE  FinalizationInv'
<1>1. CASE Reconcile
  BY <1>1, ReconcileFinalization
<1>2. CASE WriteSucceeds \/ WriteFails
  <2>1. /\ api.exists /\ UNCHANGED <<cache, threads>> /\ write' = NoWrite
        /\ api' = api \/ api' = Written
    BY <1>2 DEF WriteSucceeds, WriteFails, Accepted
  <2>2. NoWrite.kind # "finalize"
    BY DEF NoWrite
  <2>3. api \in Resources /\ write \in Writes
    BY DEF TypeOK
  <2>4. CASE api' = api
    BY <2>1, <2>2, <2>4 DEF FinalizationInv, Ready
  <2>5. CASE api' = Written /\ write.kind = "status"
    <3>1. api'.exists = api.exists /\ api'.finalizer = api.finalizer
          /\ api'.deleting = api.deleting
      BY <2>3, <2>5 DEF Written, Resources
    <3> QED BY <2>1, <2>2, <3>1 DEF FinalizationInv, Ready
  <2>6. CASE api' = Written /\ write.kind = "init"
    <3>1. api'.exists = api.exists /\ api'.finalizer = TRUE /\ api'.deleting = api.deleting
      BY <2>3, <2>6 DEF Written, Resources
    <3> QED BY <2>1, <2>2, <3>1 DEF FinalizationInv, Ready
  <2>7. CASE api' = Written /\ write.kind = "finalize"
    <3>1. api'.deleting = api.deleting
      BY <2>3, <2>7 DEF Written, Resources
    <3>2. api'.exists = FALSE
      BY <2>3, <2>7 DEF Written, Resources
    <3> QED BY <2>1, <2>2, <2>7, <3>1, <3>2 DEF FinalizationInv, Ready
  <2>8. CASE api' = Written /\ write.kind = "none"
    <3>1. Written = api
      BY <2>8 DEF Written
    <3> QED BY <2>4, <2>8, <3>1
  <2> QED BY <2>1, <2>3, <2>4, <2>5, <2>6, <2>7, <2>8 DEF Writes
<1>3. CASE WriteConflicts
  BY <1>3 DEF WriteConflicts, NoWrite, FinalizationInv, Ready
<1>4. CASE Deliver
  <2>1. cache' = api /\ UNCHANGED <<api, write, threads>>
    BY <1>4 DEF Deliver
  <2> QED BY <2>1 DEF FinalizationInv, Ready
<1>5. CASE TogglePause \/ EditSchedule
  <2>1. api'.exists = api.exists /\ api'.finalizer = api.finalizer
        /\ api'.deleting = api.deleting
    BY <1>5 DEF TogglePause, EditSchedule, TypeOK, Resources
  <2>2. UNCHANGED <<cache, write, threads>>
    BY <1>5 DEF TogglePause, EditSchedule
  <2> QED BY <2>1, <2>2 DEF FinalizationInv, Ready
<1>6. CASE Delete
  <2>1. UNCHANGED <<cache, write, threads>> /\ api.exists /\ ~api.deleting
    BY <1>6 DEF Delete
  <2>2. CASE api.finalizer
    <3>1. api'.exists = api.exists /\ api'.finalizer = api.finalizer
      BY <1>6, <2>2 DEF Delete, TypeOK, Resources
    <3> QED BY <2>1, <2>2, <3>1 DEF FinalizationInv, Ready
  <2>3. CASE ~api.finalizer
    <3>1. api'.exists = FALSE /\ api'.deleting = api.deleting
      BY <1>6, <2>3 DEF Delete, TypeOK, Resources
    <3> QED BY <2>1, <2>3, <3>1 DEF FinalizationInv, Ready
  <2> QED BY <2>2, <2>3
<1>7. CASE Restart
  <2>1. cache' = api /\ api' = api /\ write' = NoWrite /\ threads' = {}
    BY <1>7 DEF Restart
  <2> QED BY <2>1 DEF FinalizationInv, Ready, NoWrite
<1>8. CASE UNCHANGED <<api, cache, write, threads>>
  BY <1>8 DEF FinalizationInv, Ready
<1>9. \/ Reconcile \/ WriteSucceeds \/ WriteFails \/ WriteConflicts \/ Deliver
      \/ TogglePause \/ EditSchedule \/ Delete \/ Restart
      \/ UNCHANGED <<api, cache, write, threads>>
  BY DEF Next, TimerFires, Tick, WorkerEnds, RunnerTimesOut, RunnerPublishes,
         TopologyChanges, SetAliases, vars
<1> QED BY <1>1, <1>2, <1>3, <1>4, <1>5, <1>6, <1>7, <1>8, <1>9

\* Once the resource is gone, no runner of it is left in the thread map.
THEOREM Finalized == Spec => []NoThreadAfterDeletion
<1>1. FinalizationInv => NoThreadAfterDeletion
  BY DEF FinalizationInv, NoThreadAfterDeletion
<1>2. TypeOK /\ FinalizationInv /\ [Next]_vars => FinalizationInv'
  BY NextFinalization
<1> QED BY <1>1, <1>2, InitFinalization, TypeCorrect, PTL DEF Spec

-----------------------------------------------------------------------------
(* A running backup is not dropped.                                        *)

\* An open entry is the newest of its shard: what is added is for a time to
\* come, what is closed has had its time.
Newest(B) == \A a, b \in B : a.shard = b.shard /\ a.state \in OpenStates => b.sched =< a.sched

NewestInv == Newest(api.backups) /\ Newest(cache.backups) /\ Newest(write.backups)

\* The three phases keep the open entry the newest.
LEMMA PhasesNewest ==
  ASSUME TypeOK, Sound(cache.backups, now), Newest(cache.backups)
  PROVE  Newest(Phase2List) /\ Newest(AfterPhase3) /\ Newest(AfterPhase4)
<1>0. /\ \A b \in cache.backups : b.sched \in Nat
      /\ \A b \in cache.backups : b.state # "Pending" => b.sched < now
  BY DEF TypeOK, Resources, BackupStatus, Sound
<1>1. Newest(Phase2List)
  <2>1. \A b \in Startable : Started(b).state = "Running" /\ b.state = "Pending"
    BY StartedType, StartableFacts
  <2>2. ASSUME NEW b \in Phase2List
        PROVE  \E old \in cache.backups : /\ old.shard = b.shard /\ old.sched = b.sched
                                          /\ b.state \in OpenStates => old.state \in OpenStates
    BY <2>1, Phase2Elements DEF OpenStates
  <2> QED BY <2>2 DEF Newest
<1>2. Newest(AfterPhase3)
  <2>1. ASSUME NEW b \in AfterPhase3
        PROVE  \E old \in cache.backups : /\ old.shard = b.shard /\ old.sched = b.sched
                                          /\ b.state \in OpenStates => old.state \in OpenStates
    BY Phase3Elements DEF OpenStates
  <2> QED BY <2>1 DEF Newest
<1>3. Newest(AfterPhase4)
  <2> DEFINE n   == NextRun(cache.cron, now)
             Add == ToSchedule(cache.backups, n, cluster.shards)
  <2> SUFFICES ASSUME NEW a \in AfterPhase4, NEW b \in AfterPhase4,
                      a.shard = b.shard, a.state \in OpenStates
               PROVE  b.sched =< a.sched
    BY DEF Newest
  <2>1. /\ n \in Nat /\ n >= now /\ now \in Nat
        /\ \/ a \in cache.backups /\ a.shard \notin Add
           \/ a = Scheduled(a.shard, n) /\ a.shard \in Add
        /\ \/ b \in cache.backups /\ (b.shard \in Add => b.state \notin OpenStates)
           \/ b = Scheduled(b.shard, n) /\ b.shard \in Add
    BY Phase4Elements
  <2>2. \A s : Scheduled(s, n).sched = n
    BY DEF Scheduled
  <2> HIDE DEF n, Add
  <2>3. CASE a.shard \notin Add
    BY <2>1, <2>3 DEF Newest
  <2>4. CASE a.shard \in Add
    BY <1>0, <2>1, <2>2, <2>4 DEF OpenStates
  <2> QED BY <2>3, <2>4
<1> QED BY <1>1, <1>2, <1>3

\* Every step keeps the open entries the newest.
LEMMA NextNewest ==
  ASSUME TypeOK, StatusInv, NewestInv, [Next]_vars
  PROVE  NewestInv'
<1>1. Newest({}) /\ NoWrite.backups = {}
  BY DEF Newest, NoWrite
<1>2. CASE Reconcile
  <2>1. Newest(write'.backups)
    BY <1>1, <1>2, ReconcileWrites, PhasesNewest DEF NewestInv, StatusInv
  <2> QED BY <1>2, <2>1, ReconcileWrites DEF NewestInv
<1>3. CASE ~Reconcile
  BY <1>1, <1>3, OtherSteps DEF NewestInv
<1> QED BY <1>2, <1>3

\* Nothing is newer than a running backup, so phase 4 keeps it.
LEMMA Phase4KeepsRunning ==
  ASSUME TypeOK, Sound(cache.backups, now), Newest(cache.backups), HistoryLimit > 0,
         NEW b \in cache.backups, b.state = "Running", b.shard \in cluster.shards
  PROVE  b \in AfterPhase4
<1> DEFINE n == NextRun(cache.cron, now)
           B == cache.backups
           Add == ToSchedule(B, n, cluster.shards)
           Replaced == UNION {FindLastBackup(B, s, "Pending") : s \in Add}
           New == (B \ Replaced) \cup {Scheduled(s, n) : s \in Add}
<1>1. \A c \in B : c.sched \in Nat
  BY DEF TypeOK, Resources, BackupStatus
<1>2. b.shard \notin Add
  <2>1. b \in FindLastBackup(B, b.shard, "Running")
    BY <1>1 DEF FindLastBackup, Sound, OneOpenIn, OpenStates
  <2> QED BY <2>1 DEF ToSchedule
<1>3. b \in New
  BY DEF FindLastBackup
<1>4. {c \in New : c.shard = b.shard /\ c.sched > b.sched} = {}
  <2> SUFFICES ASSUME NEW c \in New, c.shard = b.shard, c.sched > b.sched PROVE FALSE
    OBVIOUS
  <2>1. c \in B
    BY <1>2 DEF Scheduled
  <2>2. c.sched =< b.sched
    BY <2>1 DEF Newest, OpenStates
  <2> QED BY <1>1, <2>1, <2>2
<1>5. Cardinality({c \in New : c.shard = b.shard /\ c.sched > b.sched}) < HistoryLimit
  BY <1>4, FS_EmptySet, NumbersAssumption
<1> QED BY <1>3, <1>5 DEF AfterPhase4, ReconcileBackupList, ApplyHistoryLimit

\* Whatever status Reconcile writes, a running backup of a shard that is still
\* in the cluster is in it.
LEMMA KeepsRunning ==
  ASSUME TypeOK, StatusInv, NewestInv, HistoryLimit > 0, [Next]_vars,
         NEW b \in GetRunningBackups(cache.backups),
         write' # write, write'.kind = "status", b.shard \in cluster.shards
  PROVE  \E c \in write'.backups : c.shard = b.shard /\ c.sched = b.sched
<1>1. b \in cache.backups /\ b.state = "Running"
  BY DEF GetRunningBackups
<1>2. Reconcile
  BY OtherSteps DEF NoWrite
<1>3. CASE write'.backups = Phase2List
  <2>1. b \notin Startable
    BY <1>1, StartableFacts
  <2> QED BY <1>1, <1>3, <2>1 DEF Phase2List
<1>4. CASE write'.backups = AfterPhase3
  <2>1. Observed(b) \in AfterPhase3
    BY <1>1 DEF AfterPhase3
  <2> QED BY <1>1, <1>4, <2>1, ObservedType
<1>5. CASE write'.backups = AfterPhase4
  BY <1>1, <1>5, Phase4KeepsRunning DEF StatusInv, NewestInv
<1> QED BY <1>2, <1>3, <1>4, <1>5, ReconcileWrites

\* The history limit and the replacement of schedules never drop a running
\* backup, as long as the limit leaves room for one entry.
THEOREM RunningKept == HistoryLimit > 0 => (Spec => RunningNeverDropped)
<1> SUFFICES ASSUME HistoryLimit > 0 PROVE Spec => RunningNeverDropped
  OBVIOUS
<1>1. Init => NewestInv
  BY DEF Init, NewestInv, Newest, NoWrite
<1>2. TypeOK /\ StatusInv /\ NewestInv /\ [Next]_vars => NewestInv'
  BY NextNewest
<1>3. TypeOK /\ StatusInv /\ NewestInv /\ [Next]_vars =>
        [\A b \in GetRunningBackups(cache.backups) :
           write' # write /\ write'.kind = "status" /\ b.shard \in cluster.shards
           => \E c \in write'.backups : c.shard = b.shard /\ c.sched = b.sched]_vars
  BY KeepsRunning
<1> QED BY <1>1, <1>2, <1>3, TypeCorrect, StatusInvariant, PTL DEF Spec, RunningNeverDropped

-----------------------------------------------------------------------------
(* A failure that is reported has happened.                                *)

\* The runner behind each failed entry of a list has failed.
Honest(B) ==
  \A b \in B : b.state = "Failed" =>
    \E k \in Keys : /\ k.shard = b.shard /\ k.server = b.server /\ k.sched = b.sched
                    /\ runner[k].st = "failed"

\* The inductive invariant: the three lists are honest, and no failed runner
\* is started again, because a copy of the list that still shows the entry
\* pending is older than the one from which the failure was written.
HonestInv ==
  /\ Honest(api.backups) /\ Honest(cache.backups) /\ Honest(write.backups)
  /\ \A a \in api.backups, c \in cache.backups :
       a.shard = c.shard /\ a.sched = c.sched /\ a.state = "Failed" => c.state # "Pending"
  /\ write # NoWrite => write.rv =< cache.rv

\* A runner that has failed stays so, unless phase 2 starts the entry again.
LEMMA FailedStays ==
  ASSUME TypeOK, [Next]_vars, NEW k \in Keys, runner[k].st = "failed",
         Reconcile => \A c \in cache.backups :
                        c.shard = k.shard /\ c.sched = k.sched => c.state # "Pending"
  PROVE  runner'[k].st = "failed"
<1>1. CASE RunPendingBackups
  <2>1. \A b \in Startable : KeyOf(b, FirstROSlave(b.shard)) # k
    BY <1>1, StartableFacts DEF KeyOf, Reconcile
  <2> QED BY <1>1, <2>1 DEF RunPendingBackups, ReconcileThreads, Start
<1>2. CASE RequeueNoSlaves \/ ReconcileRunningBackups \/ ScheduleBackups \/ AwaitNextRun
  BY <1>2 DEF RequeueNoSlaves, ReconcileRunningBackups, ScheduleBackups, AwaitNextRun,
              ReconcileThreads, Start
<1>3. CASE ReconcileGone \/ Finalize \/ Initialize
  BY <1>3 DEF ReconcileGone, Finalize, Initialize
<1>4. ASSUME NEW l \in Keys, WorkerEnds(l) \/ RunnerTimesOut(l) \/ RunnerPublishes(l)
      PROVE  runner'[k].st = "failed"
  BY <1>4 DEF WorkerEnds, RunnerTimesOut, RunnerPublishes, TypeOK
<1>5. CASE Restart
  BY <1>5 DEF Restart
<1>6. CASE UNCHANGED runner
  BY <1>6
<1>7. \/ Reconcile \/ Restart \/ UNCHANGED runner
      \/ \E l \in Keys : WorkerEnds(l) \/ RunnerTimesOut(l) \/ RunnerPublishes(l)
  BY DEF Next, WriteSucceeds, WriteConflicts, WriteFails, Deliver, TimerFires, Tick,
         TogglePause, EditSchedule, Delete, TopologyChanges, SetAliases, vars
<1> QED BY <1>1, <1>2, <1>3, <1>4, <1>5, <1>6, <1>7 DEF Reconcile

\* What the phases write is honest: phase 3 reports a failure it has seen.
LEMMA PhasesHonest ==
  ASSUME TypeOK, Sound(cache.backups, now), Honest(cache.backups)
  PROVE  Honest(Phase2List) /\ Honest(AfterPhase3) /\ Honest(AfterPhase4)
<1>1. Honest(Phase2List)
  <2>1. \A b \in Phase2List : b.state = "Failed" => b \in cache.backups
    BY Phase2Elements, StartedType
  <2> QED BY <2>1 DEF Honest
<1>2. Honest(AfterPhase3)
  <2> SUFFICES ASSUME NEW b \in AfterPhase3, b.state = "Failed"
               PROVE  \E k \in Keys : /\ k.shard = b.shard /\ k.server = b.server
                                      /\ k.sched = b.sched /\ runner[k].st = "failed"
    BY DEF Honest
  <2>1. CASE b \in cache.backups
    BY <2>1 DEF Honest
  <2>2. CASE \E old \in cache.backups : old.state = "Running" /\ b = Observed(old)
    <3>1. PICK old \in cache.backups : old.state = "Running" /\ b = Observed(old)
      BY <2>2
    <3> DEFINE k == KeyOf(old, old.server)
    <3>2. /\ old \in BackupStatus /\ old.sched \in Scheds /\ aliased \in BOOLEAN
          /\ cluster \in Topologies
      BY DEF TypeOK, Resources
    <3>3. old.server \in cluster.members
      BY <3>1 DEF Observed
    <3>4. k \in Keys
      <4>1. cluster.members \in SUBSET Servers
        BY <3>2, TopologyAssumption
      <4> QED BY <3>2, <3>3, <4>1 DEF KeyOf, Keys, BackupStatus
    <3>5. /\ b.shard = old.shard /\ b.server = old.server /\ b.sched = old.sched
          /\ SeenState(k) = "Failed"
      BY <3>1, <3>2 DEF Observed, BackupStatus
    <3>6. runner[k].st = "failed"
      BY <3>5 DEF SeenState
    <3> QED BY <3>4, <3>5, <3>6 DEF KeyOf
  <2> QED BY <2>1, <2>2, Phase3Elements
<1>3. Honest(AfterPhase4)
  <2>1. \A b \in AfterPhase4 : b.state = "Failed" => b \in cache.backups
    BY Phase4Elements DEF Scheduled
  <2> QED BY <2>1 DEF Honest
<1> QED BY <1>1, <1>2, <1>3

\* A list that is honest stays so, if Reconcile sees no entry pending that the
\* list shows as failed.
LEMMA HonestStays ==
  ASSUME TypeOK, [Next]_vars, NEW B, Honest(B),
         Reconcile => \A b \in B, c \in cache.backups :
           b.shard = c.shard /\ b.sched = c.sched /\ b.state = "Failed" => c.state # "Pending"
  PROVE  Honest(B)'
<1> SUFFICES ASSUME NEW b \in B, b.state = "Failed"
             PROVE  \E k \in Keys : /\ k.shard = b.shard /\ k.server = b.server
                                    /\ k.sched = b.sched /\ runner'[k].st = "failed"
  BY DEF Honest
<1>1. PICK k \in Keys : /\ k.shard = b.shard /\ k.server = b.server /\ k.sched = b.sched
                        /\ runner[k].st = "failed"
  BY DEF Honest
<1> QED BY <1>1, FailedStays

\* A failed entry does not follow from a pending one.
LEMMA FailedFollows ==
  ASSUME NEW A, NEW B, NEW t, Sound(A, t), Advances(A, B), NEW a \in A, NEW b \in B,
         a.shard = b.shard, a.sched = b.sched, b.state = "Failed"
  PROVE  a.state # "Pending"
<1>1. PICK old \in A : /\ old.shard = b.shard /\ old.sched = b.sched
                       /\ b.state \in Ledger!Successors(old.state)
  BY DEF Advances
<1>2. old = a
  BY <1>1 DEF Sound
<1> QED BY <1>1, <1>2 DEF Ledger!Successors

\* Every step keeps the lists honest.
LEMMA NextHonest ==
  ASSUME TypeOK, StatusInv, HonestInv, [Next]_vars
  PROVE  HonestInv'
<1>0. NoWrite.backups = {} /\ NoWrite.kind # "status"
  BY DEF NoWrite
<1>1. CASE Reconcile
  <2>1. \A b, c \in cache.backups :
          b.shard = c.shard /\ b.sched = c.sched /\ b.state = "Failed" => c.state # "Pending"
    BY DEF StatusInv, Sound
  <2>2. Honest(api.backups)' /\ Honest(cache.backups)'
    BY <1>1, <2>1, HonestStays, ReconcileWrites DEF HonestInv
  <2>3. Honest(write.backups)'
    <3>1. CASE write'.backups = {}
      BY <3>1 DEF Honest
    <3>2. CASE write'.backups \in {Phase2List, AfterPhase3, AfterPhase4}
      <4>1. Honest(write'.backups)
        BY <3>2, PhasesHonest DEF HonestInv, StatusInv
      <4>2. ASSUME NEW b \in write'.backups, NEW c \in cache.backups,
                   b.shard = c.shard, b.sched = c.sched, b.state = "Failed"
            PROVE  c.state # "Pending"
        <5>1. Advances(cache.backups, write'.backups)
          BY <3>2, Phase2Sound, Phase3Sound, Phase4Sound DEF StatusInv
        <5> QED BY <4>2, <5>1, FailedFollows DEF StatusInv
      <4> QED BY <4>1, <4>2, HonestStays
    <3> QED BY <1>0, <1>1, <3>1, <3>2, ReconcileWrites
  <2>4. write' # NoWrite => write'.rv =< cache'.rv
    BY <1>1, ReconcileWrites DEF TypeOK, Resources
  <2> QED BY <1>1, <2>2, <2>3, <2>4, ReconcileWrites DEF HonestInv
<1>2. CASE ~Reconcile
  <2>1. \A B : Honest(B) => Honest(B)'
    BY <1>2, HonestStays
  <2>2. Honest({})'
    BY DEF Honest
  <2>3. Honest(api.backups)' /\ Honest(cache.backups)' /\ Honest(write.backups)'
    BY <1>0, <1>2, <2>1, <2>2, OtherSteps DEF HonestInv
  <2>4. write' # NoWrite => write'.rv =< cache'.rv
    BY <1>2, OtherSteps DEF HonestInv, StatusInv, TypeOK, Resources, Writes
  <2>5. ASSUME NEW a \in api'.backups, NEW c \in cache'.backups,
               a.shard = c.shard, a.sched = c.sched, a.state = "Failed"
        PROVE  c.state # "Pending"
    <3>1. CASE cache' = api /\ api' = api
      BY <2>5, <3>1 DEF StatusInv, Sound
    <3>2. CASE cache' = cache /\ api'.backups = api.backups
      BY <2>5, <3>2 DEF HonestInv
    <3>3. CASE /\ cache' = cache /\ api'.backups = write.backups
               /\ write.kind = "status" /\ write.rv = api.rv
      <4>1. cache.backups = api.backups
        BY <1>0, <3>3 DEF HonestInv, StatusInv, TypeOK, Resources, Writes
      <4>2. Advances(cache.backups, write.backups)
        BY <3>3, <4>1 DEF StatusInv
      <4> QED BY <2>5, <3>3, <4>2, FailedFollows DEF StatusInv
    <3> QED BY <1>2, <2>5, <3>1, <3>2, <3>3, OtherSteps
  <2> QED BY <2>3, <2>4, <2>5 DEF HonestInv
<1> QED BY <1>1, <1>2

\* A backup is reported Failed only if its runner did end with an error,
\* whatever was read late, written twice or restarted in between.
THEOREM FailuresHonest == Spec => []FailedIsHonest
<1>1. Init => HonestInv
  BY DEF Init, HonestInv, Honest, NoWrite
<1>2. TypeOK /\ StatusInv /\ HonestInv /\ [Next]_vars => HonestInv'
  BY NextHonest
<1>3. HonestInv => FailedIsHonest
  BY DEF HonestInv, Honest, FailedIsHonest
<1> QED BY <1>1, <1>2, <1>3, TypeCorrect, StatusInvariant, PTL DEF Spec

-----------------------------------------------------------------------------
(* A backup is executed once.                                              *)

\* The list shows the backup of key k as pending.
PendingIn(B, k) == \E b \in B : b.shard = k.shard /\ b.sched = k.sched /\ b.state = "Pending"

\* Key k is the one phase 2 would use for its shard in the present topology.
Current(k) == /\ k.shard \in cluster.shards /\ cluster.ro[k.shard] # {}
              /\ k.server = FirstROSlave(k.shard)

\* What is known of a runner that has been started: its entry is no longer
\* pending in the stored list unless the cache shows it pending, too, and as
\* long as the cache does so the runner stays in the map.
OnceStarted(k) ==
  /\ runner[k].starts = 1
  /\ k.aliased /\ k.sched < now
  /\ events["topology"] = 0 => Current(k)
  /\ PendingIn(api.backups, k) => PendingIn(cache.backups, k)
  /\ write.kind = "status" /\ write.rv = api.rv /\ PendingIn(write.backups, k)
       => PendingIn(api.backups, k)
  /\ ~cache.deleting /\ PendingIn(cache.backups, k) /\ Current(k) => k \in threads

\* The process has not restarted, the topology has not changed twice.
Calm == events["restart"] = 0 /\ events["topology"] =< 1

RunsInv ==
  Calm => aliased /\ \A k \in Keys : runner[k].starts # 0 => OnceStarted(k)

\* A calm state comes from a calm one.
LEMMA CalmBefore ==
  ASSUME TypeOK, [Next]_vars, Calm'
  PROVE  /\ Calm /\ ~Restart
         /\ \/ cluster' = cluster /\ events'["topology"] = events["topology"]
            \/ TopologyChanges /\ events["topology"] = 0 /\ events'["topology"] = 1
<1>0. /\ events \in [EventKinds -> Nat] /\ "restart" \in EventKinds /\ "topology" \in EventKinds
      /\ "writeError" \in EventKinds /\ "pause" \in EventKinds /\ "schedule" \in EventKinds
      /\ "delete" \in EventKinds
  BY DEF TypeOK, EventKinds
<1>1. ASSUME NEW e \in EventKinds, Happens(e)
      PROVE  /\ events'[e] = events[e] + 1
             /\ \A f \in EventKinds \ {e} : events'[f] = events[f]
  BY <1>0, <1>1 DEF Happens
<1>2. ~Restart
  <2> SUFFICES ASSUME Restart PROVE FALSE
    OBVIOUS
  <2>1. events'["restart"] = events["restart"] + 1
    BY <1>0, <1>1 DEF Restart
  <2> QED BY <1>0, <2>1 DEF Calm
<1>3. CASE TopologyChanges
  <2>1. /\ events'["topology"] = events["topology"] + 1
        /\ events'["restart"] = events["restart"]
    BY <1>0, <1>1, <1>3 DEF TopologyChanges
  <2> QED BY <1>0, <1>2, <1>3, <2>1 DEF Calm
<1>4. CASE WriteFails \/ TogglePause \/ EditSchedule \/ Delete
  <2>1. cluster' = cluster /\ events'["topology"] = events["topology"]
        /\ events'["restart"] = events["restart"]
    BY <1>0, <1>1, <1>4 DEF WriteFails, TogglePause, EditSchedule, Delete
  <2> QED BY <1>2, <2>1 DEF Calm
<1>5. CASE UNCHANGED <<cluster, events>>
  BY <1>2, <1>5 DEF Calm
<1>6. \/ TopologyChanges \/ WriteFails \/ TogglePause \/ EditSchedule \/ Delete
      \/ UNCHANGED <<cluster, events>>
  <2>1. Reconcile => UNCHANGED <<cluster, events>>
    BY ReconcileWrites
  <2> QED BY <1>2, <2>1
      DEF Next, WriteSucceeds, WriteConflicts, Deliver, TimerFires, Tick, WorkerEnds,
          RunnerTimesOut, RunnerPublishes, SetAliases, vars
<1> QED BY <1>3, <1>4, <1>5, <1>6

\* A pending entry that Reconcile writes is pending in the cache, or is for a
\* time to come.
LEMMA PendingFollows ==
  ASSUME TypeOK, StatusInv, Reconcile, NEW b \in write'.backups, b.state = "Pending"
  PROVE  \/ \E c \in cache.backups : c.shard = b.shard /\ c.sched = b.sched /\ c.state = "Pending"
         \/ b.sched >= now
<1>1. CASE write'.backups = {}
  BY <1>1
<1>2. CASE write'.backups = Phase2List
  BY <1>2, Phase2Elements, StartedType
<1>3. CASE write'.backups = AfterPhase3
  BY <1>3, Phase3Elements
<1>4. CASE write'.backups = AfterPhase4
  BY <1>4, Phase4Elements DEF StatusInv, Scheduled
<1> QED BY <1>1, <1>2, <1>3, <1>4, ReconcileWrites DEF NoWrite

\* A pending entry whose time has come and whose shard has a slave is started.
LEMMA PendingStartable ==
  ASSUME TypeOK, StatusInv, NEW k \in Keys, Current(k), k.sched < now,
         NEW c \in cache.backups, c.shard = k.shard, c.sched = k.sched, c.state = "Pending"
  PROVE  c \in Startable
<1>1. \A b \in cache.backups : b.sched \in Nat
  BY DEF TypeOK, Resources, BackupStatus
<1>2. c \in FindLastBackup(cache.backups, k.shard, "Pending")
  BY <1>1 DEF FindLastBackup, StatusInv, Sound, OneOpenIn, OpenStates
<1> QED BY <1>2 DEF Startable, Due, Current

\* Reconcile keeps the runner of a pending entry in the map.
LEMMA ReconcileKeeps ==
  ASSUME TypeOK, StatusInv, Reconcile, aliased, ~cache.deleting, NEW k \in Keys, k.aliased,
         k.sched < now, Current(k), PendingIn(cache.backups, k), k \in threads
  PROVE  k \in threads'
<1>1. PICK c \in cache.backups : c.shard = k.shard /\ c.sched = k.sched /\ c.state = "Pending"
  BY DEF PendingIn
<1>2. c \in Startable /\ c \in Due
  BY <1>1, PendingStartable DEF Startable
<1>3. CASE RunPendingBackups
  <2>1. k = KeyOf(c, FirstROSlave(c.shard))
    BY <1>1 DEF KeyOf, Keys, Current, TypeOK
  <2> QED BY <1>2, <1>3, <2>1 DEF RunPendingBackups, ReconcileThreads
<1>4. CASE ReconcileGone \/ Initialize
  BY <1>4 DEF ReconcileGone, Initialize
<1>5. ~(RequeueNoSlaves \/ ReconcileRunningBackups \/ ScheduleBackups \/ AwaitNextRun \/ Finalize)
  BY <1>2 DEF RequeueNoSlaves, ReconcileRunningBackups, ScheduleBackups, AwaitNextRun, Finalize
<1> QED BY <1>3, <1>4, <1>5 DEF Reconcile

\* Reconcile starts no runner but one whose entry is pending and startable,
\* and only if it is not in the map.
LEMMA ReconcileStarts ==
  ASSUME TypeOK, StatusInv, Reconcile, NEW k \in Keys
  PROVE  \/ runner'[k].starts = runner[k].starts
         \/ /\ runner'[k].starts = runner[k].starts + 1
            /\ k \notin threads /\ k \in threads'
            /\ k.aliased = aliased /\ k.sched < now /\ ~cache.deleting
            /\ PendingIn(cache.backups, k) /\ Current(k) /\ ~PendingIn(write'.backups, k)
<1>1. CASE RunPendingBackups /\ \E b \in Startable : k = KeyOf(b, FirstROSlave(b.shard))
  <2>1. PICK b \in Startable : k = KeyOf(b, FirstROSlave(b.shard))
    BY <1>1
  <2>2. /\ k.shard = b.shard /\ k.sched = b.sched /\ k.aliased = aliased
        /\ k.server = FirstROSlave(b.shard)
    BY <2>1 DEF KeyOf
  <2>3. /\ b \in cache.backups /\ b.state = "Pending" /\ b.sched < now
        /\ b.shard \in cluster.shards
    BY StartableFacts
  <2>4. Current(k) /\ PendingIn(cache.backups, k)
    BY <2>2, <2>3 DEF Current, PendingIn, Startable
  <2>5. k \in threads'
    BY <1>1, <2>1 DEF RunPendingBackups, ReconcileThreads
  <2>6. \/ runner'[k].starts = runner[k].starts
        \/ runner'[k].starts = runner[k].starts + 1 /\ k \notin threads
    BY <1>1 DEF RunPendingBackups, ReconcileThreads, Start
  <2>7. ~PendingIn(write'.backups, k)
    <3> SUFFICES ASSUME NEW w \in Phase2List, w.shard = b.shard, w.sched = b.sched
                 PROVE  w.state # "Pending"
      BY <1>1, <2>2 DEF PendingIn, RunPendingBackups, StatusUpdate, Phase2List
    <3>1. PICK old \in cache.backups :
            /\ old.shard = w.shard /\ old.sched = w.sched
            /\ \/ w = old /\ old \notin Startable
               \/ old \in Startable /\ w = Started(old)
      BY Phase2Elements
    <3>2. old = b
      BY <2>3, <3>1 DEF StatusInv, Sound
    <3> QED BY <3>1, <3>2, StartedType
  <2>8. ~cache.deleting
    BY <1>1 DEF RunPendingBackups, Ready
  <2> QED BY <2>2, <2>3, <2>4, <2>5, <2>6, <2>7, <2>8
<1>2. CASE RunPendingBackups /\ ~ \E b \in Startable : k = KeyOf(b, FirstROSlave(b.shard))
  BY <1>2 DEF RunPendingBackups, ReconcileThreads, Start
<1>3. CASE RequeueNoSlaves \/ ReconcileRunningBackups \/ ScheduleBackups \/ AwaitNextRun
  BY <1>3 DEF RequeueNoSlaves, ReconcileRunningBackups, ScheduleBackups, AwaitNextRun,
              ReconcileThreads, Start
<1>4. CASE ReconcileGone \/ Finalize \/ Initialize
  BY <1>4 DEF ReconcileGone, Finalize, Initialize
<1> QED BY <1>1, <1>2, <1>3, <1>4 DEF Reconcile

\* Steps other than Reconcile and a restart start nothing and leave the map.
LEMMA OtherRunners ==
  ASSUME TypeOK, [Next]_vars, ~Reconcile, ~Restart
  PROVE  /\ threads' = threads /\ (aliased => aliased') /\ now =< now'
         /\ \A k \in Keys : runner'[k].starts = runner[k].starts
<1>0. now \in Nat /\ runner \in [Keys -> Runners]
  BY NumbersAssumption DEF TypeOK, Times
<1>1. ASSUME NEW l \in Keys, WorkerEnds(l) \/ RunnerTimesOut(l) \/ RunnerPublishes(l)
      PROVE  /\ UNCHANGED <<threads, aliased, now>>
             /\ \A k \in Keys : runner'[k].starts = runner[k].starts
  BY <1>0, <1>1 DEF WorkerEnds, RunnerTimesOut, RunnerPublishes, Runners
<1>2. CASE Tick \/ SetAliases
  BY <1>0, <1>2 DEF Tick, SetAliases
<1>3. CASE UNCHANGED <<threads, aliased, now, runner>>
  BY <1>0, <1>3
<1>4. \/ Tick \/ SetAliases \/ UNCHANGED <<threads, aliased, now, runner>>
      \/ \E l \in Keys : WorkerEnds(l) \/ RunnerTimesOut(l) \/ RunnerPublishes(l)
  BY DEF Next, WriteSucceeds, WriteConflicts, WriteFails, Deliver, TimerFires, TogglePause,
         EditSchedule, Delete, TopologyChanges, vars
<1> QED BY <1>0, <1>1, <1>2, <1>3, <1>4

\* Reconcile keeps what is known of the runners that have been started.
LEMMA ReconcileRuns ==
  ASSUME TypeOK, StatusInv, RunsInv, Reconcile, Calm, NEW k \in Keys, runner'[k].starts # 0
  PROVE  OnceStarted(k)'
<1>0. /\ UNCHANGED <<now, api, cache, cluster, aliased, events>>
      /\ write'.kind = "status" => write'.rv = cache.rv
  BY ReconcileWrites DEF NoWrite
<1>1. aliased /\ (runner[k].starts # 0 => OnceStarted(k)) /\ runner[k].starts \in Nat
  BY DEF RunsInv, TypeOK, Runners
<1>2. Current(k)' <=> Current(k)
  BY <1>0 DEF Current, FirstROSlave
<1>3. CASE runner[k].starts # 0
  <2>1. OnceStarted(k)
    BY <1>1, <1>3
  <2>2. runner'[k].starts = 1
    BY <1>1, <2>1, ReconcileStarts DEF OnceStarted
  <2>3. ~cache.deleting /\ PendingIn(cache.backups, k) /\ Current(k) => k \in threads'
    BY <1>1, <2>1, ReconcileKeeps DEF OnceStarted
  <2>4. ASSUME write'.kind = "status", write'.rv = api.rv, PendingIn(write'.backups, k)
        PROVE  PendingIn(api.backups, k)
    <3>1. PICK b \in write'.backups : b.shard = k.shard /\ b.sched = k.sched /\ b.state = "Pending"
      BY <2>4 DEF PendingIn
    <3>2. k.sched < now /\ now \in Nat /\ k.sched \in Nat
      BY <2>1, NumbersAssumption, NextRunAssumption DEF OnceStarted, TypeOK, Times, Keys, Scheds
    <3>3. PendingIn(cache.backups, k)
      BY <3>1, <3>2, PendingFollows DEF PendingIn
    <3>4. cache.backups = api.backups
      BY <1>0, <2>4 DEF StatusInv
    <3> QED BY <3>3, <3>4
  <2> QED BY <1>0, <1>2, <2>1, <2>2, <2>3, <2>4 DEF OnceStarted, PendingIn
<1>4. CASE runner[k].starts = 0
  <2>1. /\ runner'[k].starts = runner[k].starts + 1 /\ k \in threads'
        /\ k.aliased = aliased /\ k.sched < now
        /\ PendingIn(cache.backups, k) /\ Current(k) /\ ~PendingIn(write'.backups, k)
    BY <1>4, ReconcileStarts
  <2>2. runner'[k].starts = 1
    BY <1>4, <2>1
  <2>3. k.aliased
    BY <1>1, <2>1
  <2> QED BY <1>0, <1>2, <2>1, <2>2, <2>3 DEF OnceStarted, PendingIn
<1> QED BY <1>3, <1>4

\* The other steps do so, too.
LEMMA OtherRuns ==
  ASSUME TypeOK, StatusInv, FinalizationInv, RunsInv, [Next]_vars, ~Reconcile, Calm',
         NEW k \in Keys, runner'[k].starts # 0
  PROVE  OnceStarted(k)'
<1>0. /\ Calm /\ ~Restart
      /\ \/ cluster' = cluster /\ events'["topology"] = events["topology"]
         \/ TopologyChanges /\ events["topology"] = 0 /\ events'["topology"] = 1
  BY CalmBefore
<1>1. /\ threads' = threads /\ now =< now' /\ runner'[k].starts = runner[k].starts
  BY <1>0, OtherRunners
<1>2. OnceStarted(k)
  BY <1>0, <1>1 DEF RunsInv
<1>3. k.sched < now'
  <2>1. now \in Nat /\ now' \in Nat /\ k.sched \in Nat
    BY NextType, NumbersAssumption, NextRunAssumption DEF TypeOK, Times, Keys, Scheds
  <2> QED BY <1>1, <1>2, <2>1 DEF OnceStarted
<1>4. PendingIn(cache'.backups, k) => PendingIn(cache.backups, k)
  BY <1>2, OtherSteps DEF OnceStarted
<1>5. PendingIn(api'.backups, k) => PendingIn(cache'.backups, k)
  BY <1>2, OtherSteps DEF OnceStarted, PendingIn
<1>6. ASSUME write'.kind = "status", write'.rv = api'.rv, PendingIn(write'.backups, k)
      PROVE  PendingIn(api'.backups, k)
  <2>1. write' = write
    BY <1>6, OtherSteps DEF NoWrite
  <2>2. write.rv =< api.rv /\ write.rv \in Nat /\ api.rv \in Nat
    BY <1>6, <2>1 DEF StatusInv, TypeOK, Writes, Resources
  <2>3. api' = api
    BY <1>6, <2>1, <2>2, OtherSteps
  <2> QED BY <1>2, <1>6, <2>1, <2>3 DEF OnceStarted
<1>7. ASSUME ~cache'.deleting, PendingIn(cache'.backups, k), Current(k)'
      PROVE  k \in threads'
  <2>1. ~cache.deleting
    BY <1>7, OtherSteps DEF FinalizationInv
  <2>2. Current(k)
    <3>1. CASE cluster' = cluster
      BY <1>7, <3>1 DEF Current, FirstROSlave
    <3>2. CASE events["topology"] = 0
      BY <1>2, <3>2 DEF OnceStarted
    <3> QED BY <1>0, <3>1, <3>2
  <2> QED BY <1>1, <1>2, <1>4, <1>7, <2>1, <2>2 DEF OnceStarted
<1>8. events'["topology"] = 0 => Current(k)'
  <2> SUFFICES ASSUME events'["topology"] = 0 PROVE Current(k)'
    OBVIOUS
  <2>1. cluster' = cluster /\ events["topology"] = 0
    BY <1>0
  <2> QED BY <1>2, <2>1 DEF OnceStarted, Current, FirstROSlave
<1> QED BY <1>1, <1>2, <1>3, <1>5, <1>6, <1>7, <1>8 DEF OnceStarted, PendingIn

\* Every step keeps what is known of the runners.
LEMMA NextRuns ==
  ASSUME TypeOK, StatusInv, FinalizationInv, RunsInv, [Next]_vars
  PROVE  RunsInv'
<1> SUFFICES ASSUME Calm'
             PROVE  aliased' /\ \A k \in Keys : runner'[k].starts # 0 => OnceStarted(k)'
  BY DEF RunsInv
<1>1. Calm /\ ~Restart /\ aliased
  BY CalmBefore DEF RunsInv
<1>2. CASE Reconcile
  BY <1>1, <1>2, ReconcileWrites, ReconcileRuns
<1>3. CASE ~Reconcile
  BY <1>1, <1>3, OtherRunners, OtherRuns
<1> QED BY <1>2, <1>3

\* A scheduled backup is executed once, however often the write that records
\* its start fails or meets a newer version, while the process does not
\* restart and the topology does not change away and back.
THEOREM ExecutedOnce == Spec => []RunsOnce
<1>1. Init => RunsInv
  <2> SUFFICES ASSUME Init PROVE RunsInv
    OBVIOUS
  <2>1. \A k \in Keys : runner[k].starts = 0
    BY DEF Init, NotStarted
  <2> QED BY <2>1 DEF Init, RunsInv
<1>2. TypeOK /\ StatusInv /\ FinalizationInv /\ RunsInv /\ [Next]_vars => RunsInv'
  BY NextRuns
<1>3. TypeOK /\ RunsInv => RunsOnce
  <2> SUFFICES ASSUME TypeOK, RunsInv, Calm, NEW k \in Keys PROVE runner[k].starts =< 1
    BY DEF RunsOnce, Calm
  <2>1. runner[k].starts \in Nat
    BY DEF TypeOK, Runners
  <2> QED BY <2>1 DEF RunsInv, OnceStarted
<1>4. TypeOK /\ FinalizationInv /\ [Next]_vars => FinalizationInv'
  BY NextFinalization
<1> QED BY <1>1, <1>2, <1>3, <1>4, InitFinalization, TypeCorrect, StatusInvariant, PTL DEF Spec

-----------------------------------------------------------------------------
(* A controller that keeps up with the clock.                              *)

\* A step of the controller under watch.
WatchedNext == [Next /\ Watch]_<<vars, prompt>>

\* An undisturbed state comes from an undisturbed one.
LEMMA UndisturbedBefore ==
  ASSUME TypeOK, WatchedNext, Undisturbed'
  PROVE  /\ Undisturbed /\ cluster' = cluster /\ [Next]_vars
         /\ ~(Restart \/ Delete \/ EditSchedule \/ TopologyChanges)
         /\ now' # now => Settled
<1>0. /\ events \in [EventKinds -> Nat] /\ "restart" \in EventKinds /\ "topology" \in EventKinds
      /\ "writeError" \in EventKinds /\ "pause" \in EventKinds /\ "schedule" \in EventKinds
      /\ "delete" \in EventKinds
  BY DEF TypeOK, EventKinds
<1> DEFINE Quiet == EventKinds \ {"pause", "writeError"}
<1>1. /\ [Next]_vars /\ prompt /\ (now' # now => Settled)
  BY DEF WatchedNext, Watch, Undisturbed, vars
<1>2. ASSUME NEW e \in EventKinds, Happens(e)
      PROVE  e \notin Quiet /\ \A f \in Quiet : events'[f] = events[f]
  <2>1. /\ events'[e] = events[e] + 1
        /\ \A f \in EventKinds \ {e} : events'[f] = events[f]
    BY <1>0, <1>2 DEF Happens
  <2>2. events[e] \in Nat
    BY <1>0
  <2>3. e \notin Quiet
    BY <2>1, <2>2 DEF Undisturbed
  <2> QED BY <2>1, <2>3
<1>3. ~(Restart \/ Delete \/ EditSchedule \/ TopologyChanges)
  BY <1>0, <1>2 DEF Restart, Delete, EditSchedule, TopologyChanges
<1>4. CASE WriteFails \/ TogglePause
  <2>1. cluster' = cluster /\ \A f \in Quiet : events'[f] = events[f]
    BY <1>0, <1>2, <1>4 DEF WriteFails, TogglePause
  <2> QED BY <1>1, <1>3, <2>1 DEF Undisturbed
<1>5. CASE UNCHANGED <<cluster, events>>
  BY <1>1, <1>3, <1>5 DEF Undisturbed
<1>6. WriteFails \/ TogglePause \/ UNCHANGED <<cluster, events>>
  <2>1. Reconcile => UNCHANGED <<cluster, events>>
    BY ReconcileWrites
  <2> QED BY <1>1, <1>3, <2>1
      DEF Next, WriteSucceeds, WriteConflicts, Deliver, TimerFires, Tick, WorkerEnds,
          RunnerTimesOut, RunnerPublishes, SetAliases, vars
<1> QED BY <1>4, <1>5, <1>6

\* The slave and the key of an entry depend on the topology and the aliases alone.
LEMMA SameRunners ==
  ASSUME UNCHANGED <<cluster, aliased>>
  PROVE  /\ \A s : FirstROSlave(s)' = FirstROSlave(s)
         /\ \A b : RunnerOf(b)' = RunnerOf(b)
BY DEF FirstROSlave, RunnerOf, KeyOf

\* The key of an entry of a shard of the cluster.
LEMMA RunnerOfType ==
  ASSUME TypeOK, Undisturbed, aliased, NEW b, b.shard \in cluster.shards, b.sched \in Scheds
  PROVE  /\ RunnerOf(b) \in Keys
         /\ RunnerOf(b).shard = b.shard /\ RunnerOf(b).sched = b.sched
         /\ RunnerOf(b).aliased /\ RunnerOf(b).server = FirstROSlave(b.shard)
         /\ FirstROSlave(b.shard) \in cluster.members
         /\ \A k \in Keys :
              (k.shard = b.shard /\ k.sched = b.sched /\ k.aliased
               /\ k.server = FirstROSlave(b.shard)) => k = RunnerOf(b)
<1>1. cluster \in Topologies /\ b.shard \in Shards /\ cluster.ro[b.shard] # {}
      /\ cluster.ro[b.shard] \subseteq cluster.members
  BY TopologyAssumption DEF TypeOK, Undisturbed
<1>2. FirstROSlave(b.shard) \in Servers /\ FirstROSlave(b.shard) \in cluster.ro[b.shard]
  BY <1>1, FirstROSlaveType
<1>3. aliased = TRUE
  BY DEF TypeOK
<1>4. RunnerOf(b) = [shard |-> b.shard, server |-> FirstROSlave(b.shard),
                     aliased |-> TRUE, sched |-> b.sched]
  BY <1>3 DEF RunnerOf, KeyOf
<1>5. RunnerOf(b) \in Keys
  BY <1>1, <1>2, <1>4 DEF Keys
<1>6. ASSUME NEW k \in Keys, k.shard = b.shard, k.sched = b.sched, k.aliased,
             k.server = FirstROSlave(b.shard)
      PROVE  k = RunnerOf(b)
  <2>1. k.aliased = TRUE
    BY <1>6 DEF Keys
  <2> QED BY <1>4, <1>6, <2>1 DEF Keys
<1>7. /\ RunnerOf(b).shard = b.shard /\ RunnerOf(b).sched = b.sched
      /\ RunnerOf(b).server = FirstROSlave(b.shard)
  BY <1>4
<1>8. RunnerOf(b).aliased
  BY <1>4
<1>9. FirstROSlave(b.shard) \in cluster.members
  BY <1>1, <1>2
<1> QED BY <1>5, <1>6, <1>7, <1>8, <1>9

\* The entries of the three lists and their keys.
LEMMA TrackedKeys ==
  ASSUME TypeOK, Undisturbed, InPlace, NEW B, Listed(B), Tracked(B), NEW b \in B
  PROVE  /\ RunnerOf(b) \in Keys
         /\ RunnerOf(b).shard = b.shard /\ RunnerOf(b).sched = b.sched
         /\ b \in BackupStatus /\ b.sched \in Nat
BY RunnerOfType DEF Listed, Tracked, InPlace, BackupStatus

\* The three lists have entries of the schedules.
LEMMA ListsListed ==
  ASSUME TypeOK
  PROVE  Listed(api.backups) /\ Listed(cache.backups) /\ Listed(write.backups)
BY DEF TypeOK, Resources, Writes, Listed

\* A runner that has not outlived its timeout stays in the map.
LEMMA YoungStays ==
  ASSUME TypeOK, NEW k \in Keys, now =< runner[k].ts + Timeout
  PROVE  ~CanBeDeleted(k)
<1>1. now \in Nat /\ runner[k].ts \in Nat /\ Timeout \in Nat
  BY NumbersAssumption DEF TypeOK, Times, Runners
<1> QED BY <1>1 DEF CanBeDeleted

\* Of an undisturbed resource Reconcile runs these branches only.
LEMMA Branches ==
  ASSUME TypeOK, Undisturbed, InPlace, Reconcile
  PROVE  /\ Startable = Due
         /\ \/ Initialize
            \/ RunPendingBackups
            \/ /\ ReconcileRunningBackups \/ ScheduleBackups \/ AwaitNextRun
               /\ Due = {} /\ ReconcileThreads({})
<1>1. Startable = Due
  <2>1. \A b \in Due : b.shard \in cluster.shards
    BY DEF Due, FindLastBackup
  <2> QED BY <2>1 DEF Startable, Undisturbed
<1>2. ~(ReconcileGone \/ Finalize \/ RequeueNoSlaves)
  BY <1>1 DEF ReconcileGone, Finalize, RequeueNoSlaves, InPlace
<1> QED BY <1>1, <1>2 DEF Reconcile, ReconcileRunningBackups, ScheduleBackups, AwaitNextRun

\* What Reconcile does to the map and the runners: those in the map run on,
\* young ones stay there, and phase 2 starts those of startable entries.
LEMMA ThreadsStep ==
  ASSUME TypeOK, Undisturbed, InPlace, Reconcile
  PROVE  /\ \A k \in threads : /\ runner'[k] = runner[k]
                               /\ now =< runner[k].ts + Timeout => k \in threads'
         /\ \A k \in Keys \ threads :
              \/ runner'[k] = runner[k] /\ k \notin threads'
              \/ /\ k \in threads' /\ runner'[k].st = "running" /\ runner'[k].ts = now
                 /\ RunPendingBackups /\ \E b \in Startable : k = RunnerOf(b)
         /\ RunPendingBackups => \A b \in Startable : RunnerOf(b) \in threads'
<1>0. threads \subseteq Keys /\ runner \in [Keys -> Runners]
  BY DEF TypeOK
<1>1. CASE Initialize
  BY <1>0, <1>1 DEF Initialize, RunPendingBackups, Ready
<1>2. CASE RunPendingBackups
  <2> DEFINE K == {RunnerOf(b) : b \in Startable}
  <2>1. ReconcileThreads(K)
    BY <1>2 DEF RunPendingBackups, RunnerOf
  <2> HIDE DEF K
  <2>2. /\ threads' = K \cup {k \in threads : ~CanBeDeleted(k)}
        /\ runner' = [k \in Keys |->
                        IF k \in K \ threads
                        THEN [st |-> "running", ts |-> now, starts |-> runner[k].starts + 1]
                        ELSE runner[k]]
    BY <2>1 DEF ReconcileThreads, Start
  <2>3. \A k \in threads : runner'[k] = runner[k] /\
                           (now =< runner[k].ts + Timeout => k \in threads')
    BY <1>0, <2>2, YoungStays
  <2>4. \A k \in Keys \ threads :
          \/ runner'[k] = runner[k] /\ k \notin threads'
          \/ k \in threads' /\ runner'[k].st = "running" /\ runner'[k].ts = now /\ k \in K
    BY <2>2
  <2> QED BY <1>2, <2>2, <2>3, <2>4 DEF K
<1>3. CASE Due = {} /\ ReconcileThreads({})
  <2>1. /\ threads' = {k \in threads : ~CanBeDeleted(k)}
        /\ \A k \in Keys : runner'[k] = runner[k]
    BY <1>3 DEF ReconcileThreads, Start
  <2>2. ~RunPendingBackups
    BY <1>3 DEF RunPendingBackups, Startable
  <2> QED BY <1>0, <2>1, <2>2, YoungStays
<1> QED BY <1>1, <1>2, <1>3, Branches

\* Reconcile keeps the runners of a list tracked.
LEMMA ReconcileTracks ==
  ASSUME TypeOK, Undisturbed, InPlace, Reconcile, NEW B, Listed(B), Tracked(B)
  PROVE  Tracked(B)'
<1>0. UNCHANGED <<now, cluster, aliased>>
  BY ReconcileWrites
<1>1. /\ \A s : FirstROSlave(s)' = FirstROSlave(s)
      /\ \A b : RunnerOf(b)' = RunnerOf(b)
  BY <1>0, SameRunners
<1> SUFFICES ASSUME NEW b \in B
             PROVE  /\ b.state = "Running" =>
                         /\ RunnerOf(b) \in threads'
                         /\ now =< runner'[RunnerOf(b)].ts + Timeout
                    /\ b.state = "Pending" /\ RunnerOf(b) \in threads' =>
                         runner'[RunnerOf(b)].ts = now
  BY <1>0, <1>1 DEF Tracked
<1>2. RunnerOf(b) \in Keys
  BY TrackedKeys
<1>3. CASE RunnerOf(b) \in threads
  BY <1>3, ThreadsStep DEF Tracked
<1>4. CASE RunnerOf(b) \notin threads
  BY <1>2, <1>4, ThreadsStep DEF Tracked
<1> QED BY <1>3, <1>4

\* A runner that Reconcile finds for a running entry.
LEMMA RunningHasThread ==
  ASSUME TypeOK, Undisturbed, InPlace, Tracked(cache.backups),
         NEW b \in cache.backups, b.state = "Running"
  PROVE  /\ KeyOf(b, b.server) = RunnerOf(b) /\ RunnerOf(b) \in threads
         /\ b.server \in cluster.members /\ HasThread(RunnerOf(b))
         /\ Observed(b) = IF Finished(RunnerOf(b))
                          THEN [b EXCEPT !.state = SeenState(RunnerOf(b)),
                                         !.located = SeenLocated(RunnerOf(b))]
                          ELSE b
         /\ Observed(b).state \in {"Running", "Completed", "Failed"}
         /\ Observed(b).state = "Running" => Observed(b) = b /\ ~Finished(RunnerOf(b))
<1>1. KeyOf(b, b.server) = RunnerOf(b) /\ RunnerOf(b) \in threads
  BY DEF Tracked, RunnerOf
<1>2. b.server \in cluster.members /\ RunnerOf(b) \in Keys /\ b \in BackupStatus
  BY ListsListed, RunnerOfType DEF Tracked, Listed, InPlace
<1>3. HasThread(RunnerOf(b))
  BY <1>1, <1>2, YoungStays DEF HasThread, Tracked
<1>4. Observed(b) = IF Finished(RunnerOf(b))
                    THEN [b EXCEPT !.state = SeenState(RunnerOf(b)),
                                   !.located = SeenLocated(RunnerOf(b))]
                    ELSE b
  BY <1>1, <1>2, <1>3 DEF Observed
<1>5. Finished(RunnerOf(b)) => Observed(b).state \in {"Completed", "Failed"}
  BY <1>2, <1>4 DEF SeenState, BackupStatus
<1> QED BY <1>1, <1>2, <1>3, <1>4, <1>5

\* The map after Reconcile.
LEMMA ReconcileMapped ==
  ASSUME TypeOK, Undisturbed, KeptUp, Reconcile
  PROVE  Mapped'
<1>0. UNCHANGED <<now, api, cache, cluster, aliased>>
  BY ReconcileWrites
<1>1. \A s : FirstROSlave(s)' = FirstROSlave(s)
  BY <1>0, SameRunners
<1>2. threads \subseteq Keys /\ threads' \subseteq Keys
  BY NextType DEF TypeOK, Next
<1>3. now \in Nat /\ Timeout \in Nat
  BY NumbersAssumption DEF TypeOK, Times
<1>4. ASSUME NEW b \in Startable
      PROVE  /\ b \in cache.backups /\ b.state = "Pending" /\ b.sched < now
             /\ b.shard \in cluster.shards
             /\ RunnerOf(b).shard = b.shard /\ RunnerOf(b).sched = b.sched
             /\ RunnerOf(b).aliased /\ RunnerOf(b).server = FirstROSlave(b.shard)
  BY StartableFacts, RunnerOfType DEF KeptUp, InPlace
<1>5. ASSUME NEW k \in threads'
      PROVE  /\ k.aliased /\ k.shard \in cluster.shards /\ k.server = FirstROSlave(k.shard)
             /\ k.sched < now /\ runner'[k].st \notin {"none", "killed"}
  <2>1. CASE k \in threads
    BY <2>1, ThreadsStep DEF KeptUp, Mapped
  <2>2. CASE k \notin threads
    <3>1. /\ runner'[k].st = "running" /\ \E b \in Startable : k = RunnerOf(b)
      BY <1>2, <2>2, ThreadsStep DEF KeptUp
    <3> QED BY <1>4, <3>1
  <2> QED BY <2>1, <2>2
<1>6. ASSUME NEW k \in Keys, runner'[k].st = "running"
      PROVE  k \in threads' /\ now =< runner'[k].ts + Timeout /\ OpenIn(api.backups, k)
  <2>1. CASE runner'[k] = runner[k]
    <3>1. k \in threads /\ now =< runner[k].ts + Timeout /\ OpenIn(api.backups, k)
      BY <1>6, <2>1 DEF KeptUp, Mapped
    <3> QED BY <2>1, <3>1, ThreadsStep DEF KeptUp
  <2>2. CASE runner'[k] # runner[k]
    <3>1. k \notin threads /\ k \in threads' /\ runner'[k].ts = now
      BY <2>2, ThreadsStep DEF KeptUp
    <3>2. PICK b \in Startable : k = RunnerOf(b)
      BY <2>2, ThreadsStep DEF KeptUp
    <3>3. OpenIn(api.backups, b)
      BY <1>4, <3>1, <3>2 DEF KeptUp, Recorded
    <3> QED BY <1>3, <1>4, <3>1, <3>2, <3>3 DEF OpenIn
  <2> QED BY <2>1, <2>2
<1> QED BY <1>0, <1>1, <1>5, <1>6 DEF Mapped, OpenIn

\* What Reconcile writes is tracked.
LEMMA WriteTracked ==
  ASSUME TypeOK, StatusInv, Undisturbed, KeptUp, Reconcile
  PROVE  Tracked(write.backups)'
<1>0. UNCHANGED <<now, cluster, aliased>>
  BY ReconcileWrites
<1>1. /\ \A s : FirstROSlave(s)' = FirstROSlave(s)
      /\ \A b : RunnerOf(b)' = RunnerOf(b)
  BY <1>0, SameRunners
<1>2. Tracked(cache.backups)' /\ UNCHANGED cache
  BY ReconcileTracks, ReconcileWrites, ListsListed DEF KeptUp
<1>3. now \in Nat /\ Timeout \in Nat
  BY NumbersAssumption DEF TypeOK, Times
<1> DEFINE Good(b) ==
      /\ b.shard \in cluster.shards /\ b.state # "Unknown"
      /\ b.state = "Running" => /\ b.server = FirstROSlave(b.shard)
                                /\ RunnerOf(b) \in threads'
                                /\ now =< runner'[RunnerOf(b)].ts + Timeout
      /\ b.state = "Pending" /\ RunnerOf(b) \in threads' => runner'[RunnerOf(b)].ts = now
<1>4. \A b \in cache.backups : Good(b)
  BY <1>0, <1>1, <1>2 DEF Tracked
<1>5. ASSUME RunPendingBackups, NEW b \in Phase2List PROVE Good(b)
  <2>1. PICK old \in cache.backups :
          /\ old.shard = b.shard /\ old.sched = b.sched
          /\ \/ b = old /\ old \notin Startable
             \/ old \in Startable /\ b = Started(old)
    BY <1>5, Phase2Elements
  <2>2. CASE old \in Startable /\ b = Started(old)
    <3>1. RunnerOf(b) = RunnerOf(old)
      BY <2>1 DEF RunnerOf, KeyOf
    <3>2. /\ b.state = "Running" /\ b.server = FirstROSlave(b.shard)
          /\ old \in BackupStatus /\ old.state = "Pending" /\ old.shard \in cluster.shards
      BY <2>1, <2>2, StartedType, StartableFacts DEF Started, BackupStatus
    <3>3. RunnerOf(old) \in threads' /\ runner'[RunnerOf(old)].ts = now
      BY <1>4, <1>5, <2>2, <3>2, ThreadsStep DEF KeptUp
    <3> QED BY <1>3, <2>1, <3>1, <3>2, <3>3
  <2> QED BY <1>4, <2>1, <2>2
<1>6. ASSUME NEW b \in AfterPhase3 PROVE Good(b)
  <2>1. PICK old \in cache.backups :
          /\ old.shard = b.shard /\ old.sched = b.sched
          /\ \/ b = old /\ old.state # "Running"
             \/ old.state = "Running" /\ b = Observed(old) /\ b.state # "Pending"
    BY Phase3Elements
  <2>2. CASE old.state = "Running" /\ b = Observed(old)
    <3>1. b.state \in {"Running", "Completed", "Failed"} /\ (b.state = "Running" => b = old)
      BY <2>2, RunningHasThread DEF KeptUp
    <3>2. old.shard \in cluster.shards
      BY <1>4
    <3> QED BY <1>4, <2>1, <3>1, <3>2
  <2> QED BY <1>4, <2>1, <2>2
<1>7. ASSUME NEW b \in AfterPhase4 PROVE Good(b)
  <2> DEFINE n   == NextRun(cache.cron, now)
             Add == ToSchedule(cache.backups, n, cluster.shards)
  <2>1. /\ n \in Nat /\ n >= now
        /\ \/ b \in cache.backups
           \/ b = Scheduled(b.shard, n) /\ b.shard \in Add
    BY Phase4Elements DEF StatusInv
  <2>2. CASE b = Scheduled(b.shard, n) /\ b.shard \in Add
    <3>1. b.shard \in cluster.shards /\ b.state = "Pending" /\ b.sched = n
      BY <2>2 DEF ToSchedule, Scheduled
    <3>2. RunnerOf(b).sched = n
      BY <3>1 DEF RunnerOf, KeyOf
    <3>3. RunnerOf(b) \notin threads'
      BY <1>0, <1>3, <2>1, <3>2, ReconcileMapped DEF Mapped
    <3> QED BY <3>1, <3>3
  <2> QED BY <1>4, <2>1, <2>2
<1>8. \A b \in write'.backups : Good(b)
  BY <1>5, <1>6, <1>7, ReconcileWrites DEF NoWrite
<1> QED BY <1>0, <1>1, <1>8 DEF Tracked

\* Reconcile ends with nothing left to do only if it has seen everything.
LEMMA ReconcileAttends ==
  ASSUME TypeOK, StatusInv, Undisturbed, KeptUp, Reconcile
  PROVE  Attended'
<1>0. UNCHANGED <<now, api, cache, cluster, aliased>>
  BY ReconcileWrites
<1>1. \A b : RunnerOf(b)' = RunnerOf(b)
  BY <1>0, SameRunners
<1> SUFFICES ASSUME ~Busy', NEW b \in api.backups
             PROVE  /\ b.state = "Running" => runner'[RunnerOf(b)].st \notin {"done", "failed"}
                    /\ b.state = "Pending" => RunnerOf(b) \notin threads'
  BY <1>0, <1>1 DEF Attended
<1>2. write' = NoWrite /\ cache = api
  BY <1>0 DEF Busy
<1>3. AwaitNextRun /\ Due = {} /\ Startable = {} /\ AfterPhase3 = cache.backups
  <2>1. ~(Initialize \/ RunPendingBackups \/ ReconcileRunningBackups \/ ScheduleBackups)
    BY <1>2 DEF Initialize, RunPendingBackups, ReconcileRunningBackups, ScheduleBackups,
                StatusUpdate, NoWrite
  <2>2. AwaitNextRun
    BY <2>1, Branches DEF KeptUp
  <2> QED BY <2>2 DEF AwaitNextRun, Startable
<1>4. ASSUME b.state = "Running" PROVE runner'[RunnerOf(b)].st \notin {"done", "failed"}
  <2>1. /\ RunnerOf(b) \in threads /\ Observed(b).state # "Pending"
        /\ Observed(b).state = "Running" => ~Finished(RunnerOf(b))
    BY <1>2, <1>4, RunningHasThread DEF KeptUp
  <2>2. Observed(b) \in cache.backups
    BY <1>2, <1>3, <1>4 DEF AfterPhase3
  <2>3. Observed(b) = b
    BY <1>2, <1>4, <2>2, ObservedType DEF StatusInv, Sound
  <2>4. runner'[RunnerOf(b)] = runner[RunnerOf(b)]
    BY <2>1, ThreadsStep DEF KeptUp
  <2> QED BY <1>4, <2>1, <2>3, <2>4 DEF Finished
<1>5. ASSUME b.state = "Pending", RunnerOf(b) \in threads' PROVE FALSE
  <2> DEFINE k == RunnerOf(b)
  <2>1. /\ k \in Keys /\ k.shard = b.shard /\ k.sched = b.sched
    BY ListsListed, TrackedKeys DEF KeptUp
  <2>2. k \in threads
    BY <1>3, <1>5, <2>1, ThreadsStep DEF KeptUp
  <2>3. k.sched < now /\ Current(k)
    BY <2>2 DEF KeptUp, Mapped, Current, Undisturbed
  <2>4. b \in Startable
    BY <1>2, <1>5, <2>1, <2>3, PendingStartable
  <2> QED BY <1>3, <2>4
<1> QED BY <1>4, <1>5

\* Nothing that is due is lost in what Reconcile writes.
LEMMA ReconcileRecords ==
  ASSUME TypeOK, StatusInv, NewestInv, HistoryLimit > 0, Undisturbed, KeptUp, Reconcile
  PROVE  Recorded'
<1>0. UNCHANGED <<now, api, cache, cluster, aliased>>
  BY ReconcileWrites
<1>1. \A b : RunnerOf(b)' = RunnerOf(b)
  BY <1>0, SameRunners
<1>2. now \in Nat /\ Timeout \in Nat
  BY NumbersAssumption DEF TypeOK, Times
<1>3. ASSUME NEW b \in cache.backups, b.state = "Pending", b.sched < now
      PROVE  OpenIn(api.backups, b) \/ RunnerOf(b) \in threads'
  <2>1. CASE RunnerOf(b) \in threads
    <3>1. now =< runner[RunnerOf(b)].ts + Timeout
      BY <1>2, <1>3, <2>1 DEF KeptUp, Tracked
    <3> QED BY <2>1, <3>1, ThreadsStep DEF KeptUp
  <2> QED BY <1>3, <2>1 DEF KeptUp, Recorded
<1>4. ASSUME write'.kind = "status", write'.rv = api.rv
      PROVE  /\ write'.backups # api.backups \/ write'.backups = {}
             /\ \A b \in api.backups : b.state \in OpenStates /\ b.sched < now =>
                  \/ OpenIn(write'.backups, b)
                  \/ RunnerOf(b) \in threads' /\ runner'[RunnerOf(b)].st # "running"
  <2>1. cache.backups = api.backups
    BY <1>4, ReconcileWrites DEF StatusInv, NoWrite
  <2>2. CASE RunPendingBackups /\ write'.backups = Phase2List
    <3>1. PICK b \in Startable : TRUE
      BY <2>2 DEF RunPendingBackups
    <3>2. Started(b) \notin cache.backups
      BY StartableFacts, StartedType DEF StatusInv, Sound
    <3>3. Started(b) \in Phase2List
      BY DEF Phase2List
    <3>4. ASSUME NEW c \in cache.backups, c.state \in OpenStates
          PROVE  OpenIn(Phase2List, c)
      <4>1. CASE c \in Startable
        BY <4>1, StartedType DEF OpenIn, Phase2List, OpenStates
      <4>2. CASE c \notin Startable
        BY <3>4, <4>2 DEF OpenIn, Phase2List
      <4> QED BY <4>1, <4>2
    <3> QED BY <2>1, <2>2, <3>2, <3>3, <3>4
  <2>3. CASE ReconcileRunningBackups /\ write'.backups = AfterPhase3
    <3>1. AfterPhase3 # cache.backups
      BY <2>3 DEF ReconcileRunningBackups
    <3>2. ASSUME NEW b \in cache.backups, b.state \in OpenStates
          PROVE  \/ OpenIn(AfterPhase3, b)
                 \/ RunnerOf(b) \in threads' /\ runner'[RunnerOf(b)].st # "running"
      <4>1. CASE b.state = "Pending"
        BY <3>2, <4>1 DEF AfterPhase3, OpenIn
      <4>2. CASE b.state = "Running" /\ ~Finished(RunnerOf(b))
        <5>1. Observed(b) = b
          BY <4>2, RunningHasThread DEF KeptUp
        <5> QED BY <3>2, <4>2, <5>1 DEF AfterPhase3, OpenIn
      <4>3. CASE b.state = "Running" /\ Finished(RunnerOf(b))
        <5>1. /\ RunnerOf(b) \in threads' /\ runner'[RunnerOf(b)] = runner[RunnerOf(b)]
          BY <4>3, ThreadsStep DEF KeptUp, Tracked
        <5> QED BY <4>3, <5>1 DEF Finished
      <4> QED BY <3>2, <4>1, <4>2, <4>3 DEF OpenStates
    <3> QED BY <2>1, <2>3, <3>1, <3>2
  <2>4. CASE ScheduleBackups /\ write'.backups = AfterPhase4
    <3>1. AfterPhase4 # cache.backups \/ AfterPhase4 = {}
      BY <2>4 DEF ScheduleBackups, ListChanged
    <3>2. ASSUME NEW b \in cache.backups, b.state \in OpenStates, b.sched < now
          PROVE  OpenIn(AfterPhase4, b)
      <4>1. b.shard \in cluster.shards
        BY DEF KeptUp, Tracked
      <4>2. b.state # "Pending"
        <5> SUFFICES ASSUME b.state = "Pending" PROVE FALSE
          OBVIOUS
        <5>1. b \in FindLastBackup(cache.backups, b.shard, "Pending")
          BY ListsListed DEF FindLastBackup, StatusInv, Sound, OneOpenIn, OpenStates,
                             Listed, BackupStatus
        <5> QED BY <2>4, <3>2, <4>1, <5>1 DEF ScheduleBackups, Due
      <4>3. b \in AfterPhase4
        BY <3>2, <4>1, <4>2, Phase4KeepsRunning DEF OpenStates, StatusInv, NewestInv
      <4> QED BY <3>2, <4>3 DEF OpenIn
    <3> QED BY <2>1, <2>4, <3>1, <3>2
  <2> QED BY <1>4, <2>2, <2>3, <2>4, ReconcileWrites DEF NoWrite
<1> QED BY <1>0, <1>1, <1>3, <1>4 DEF Recorded, OpenIn

\* Reconcile keeps up.
LEMMA ReconcileKeepsUp ==
  ASSUME TypeOK, StatusInv, NewestInv, HistoryLimit > 0, Undisturbed, KeptUp, Reconcile
  PROVE  KeptUp'
<1>1. UNCHANGED <<api, cache, aliased>>
  BY ReconcileWrites
<1>2. InPlace'
  <2>1. write' = NoWrite \/ write'.kind \in {"init", "status"}
    <3>1. CASE Initialize
      BY <3>1 DEF Initialize
    <3>2. CASE RunPendingBackups \/ ReconcileRunningBackups \/ ScheduleBackups
      BY <3>2 DEF RunPendingBackups, ReconcileRunningBackups, ScheduleBackups, StatusUpdate
    <3>3. CASE AwaitNextRun
      BY <3>3 DEF AwaitNextRun, TakeRequest
    <3> QED BY <3>1, <3>2, <3>3, Branches DEF KeptUp
  <2> QED BY <1>1, <2>1 DEF KeptUp, InPlace
<1>3. Tracked(api.backups)' /\ Tracked(cache.backups)'
  BY <1>1, ReconcileTracks, ListsListed DEF KeptUp
<1> QED BY <1>2, <1>3, WriteTracked, ReconcileAttends, ReconcileMapped, ReconcileRecords
        DEF KeptUp

\* The clock and the runners under the steps that are not Reconcile's: a
\* runner goes towards its end, and one that has just ended makes a request.
LEMMA RunnersStep ==
  ASSUME TypeOK, InPlace, [Next]_vars, ~Reconcile, ~Restart
  PROVE  /\ UNCHANGED <<threads, aliased>> /\ (now' = now \/ Tick)
         /\ \A k \in Keys :
              /\ runner'[k].ts = runner[k].ts
              /\ runner'[k].st = "running" => runner[k].st = "running"
              /\ runner[k].st \notin {"none", "killed"} => runner'[k].st \notin {"none", "killed"}
              /\ runner'[k].st \in {"done", "failed"} => runner[k].st = runner'[k].st \/ queued'
<1>0. runner \in [Keys -> Runners]
  BY DEF TypeOK
<1>1. ASSUME NEW l \in Keys, WorkerEnds(l) \/ RunnerTimesOut(l)
      PROVE  /\ UNCHANGED <<threads, aliased, now>>
             /\ \A k \in Keys :
                  /\ runner'[k].ts = runner[k].ts
                  /\ \/ runner'[k].st = runner[k].st
                     \/ runner'[k].st \in {"tornOk", "tornErr"}
  BY <1>0, <1>1 DEF WorkerEnds, RunnerTimesOut, Runners
<1>2. ASSUME NEW l \in Keys, RunnerPublishes(l)
      PROVE  /\ UNCHANGED <<threads, aliased, now>> /\ queued'
             /\ \A k \in Keys :
                  /\ runner'[k].ts = runner[k].ts
                  /\ \/ runner'[k].st = runner[k].st
                     \/ runner'[k].st \in {"done", "failed"}
  BY <1>0, <1>2 DEF RunnerPublishes, Runners
<1>3. UNCHANGED <<threads, aliased, now, runner>> \/ Tick
      \/ \E l \in Keys : WorkerEnds(l) \/ RunnerTimesOut(l) \/ RunnerPublishes(l)
  BY DEF Next, WriteSucceeds, WriteConflicts, WriteFails, Deliver, TimerFires, TogglePause,
         EditSchedule, Delete, TopologyChanges, SetAliases, InPlace, vars
<1>4. CASE UNCHANGED <<threads, aliased, now, runner>> \/ Tick
  BY <1>4 DEF Tick
<1> QED BY <1>1, <1>2, <1>3, <1>4

\* The resource and its list under those steps, while it is not deleted or
\* edited: the list stays, or the pending write takes its place.
LEMMA ResourceStays ==
  ASSUME TypeOK, StatusInv, InPlace, [Next]_vars, ~Reconcile,
         ~(Restart \/ Delete \/ EditSchedule)
  PROVE  /\ InPlace'
         /\ \/ api'.backups = api.backups
            \/ /\ write.kind = "status" /\ write.rv = api.rv
               /\ api'.backups = write.backups
<1>0. api \in Resources /\ write \in Writes
  BY DEF TypeOK
<1>1. CASE WriteSucceeds \/ WriteFails
  <2>1. /\ write.rv = api.rv /\ write' = NoWrite /\ UNCHANGED <<cache, aliased>>
        /\ api' = api \/ api' = Written
        /\ write # NoWrite
    BY <1>1 DEF WriteSucceeds, WriteFails, Accepted
  <2>2. CASE api' = Written /\ write.kind = "status"
    <3>1. /\ Written.exists = api.exists /\ Written.deleting = api.deleting
          /\ Written.backups = write.backups
      BY <1>0, <2>2 DEF Written, Resources
    <3> QED BY <2>1, <2>2, <3>1 DEF InPlace
  <2>3. CASE api' = Written /\ write.kind = "init"
    <3>1. /\ Written.exists = api.exists /\ Written.deleting = api.deleting
          /\ Written.backups = api.backups
      BY <1>0, <2>3 DEF Written, Resources
    <3> QED BY <2>1, <2>3, <3>1 DEF InPlace
  <2> QED BY <2>1, <2>2, <2>3 DEF InPlace
<1>2. CASE TogglePause
  BY <1>0, <1>2 DEF TogglePause, InPlace, Resources
<1>3. CASE Deliver \/ WriteConflicts
  BY <1>3 DEF Deliver, WriteConflicts, InPlace
<1>4. CASE UNCHANGED <<api, cache, write, aliased>>
  BY <1>4 DEF InPlace
<1>5. \/ WriteSucceeds \/ WriteFails \/ TogglePause \/ Deliver \/ WriteConflicts
      \/ UNCHANGED <<api, cache, write, aliased>>
  BY DEF Next, TimerFires, Tick, WorkerEnds, RunnerTimesOut, RunnerPublishes,
         TopologyChanges, SetAliases, InPlace, vars
<1> QED BY <1>1, <1>2, <1>3, <1>4, <1>5

\* Those steps leave something to do, unless there was nothing and they
\* change nothing of it, or the list is empty.
LEMMA StaysBusy ==
  ASSUME TypeOK, StatusInv, InPlace, Recorded, [Next]_vars, ~Reconcile,
         ~(Restart \/ Delete \/ EditSchedule)
  PROVE  \/ Busy' \/ api'.backups = {}
         \/ ~Busy /\ api' = api
<1>0. /\ api.rv \in Nat /\ cache.rv \in Nat /\ cache.rv =< api.rv /\ api \in Resources
      /\ write \in Writes
  BY DEF TypeOK, StatusInv, Resources
<1>1. CASE queued'
  BY <1>1 DEF Busy
<1>2. CASE cache' = cache /\ api'.rv = api.rv + 1
  BY <1>0, <1>2 DEF Busy
<1>3. CASE WriteSucceeds /\ ~queued'
  <2>1. /\ write # NoWrite /\ write.kind # "init" /\ write.rv = api.rv
        /\ cache' = cache /\ api' = Written
    BY <1>3 DEF WriteSucceeds, Accepted
  <2>2. write.kind = "status"
    BY <2>1 DEF InPlace
  <2>3. CASE write.backups = api.backups
    <3>1. api' = api
      BY <1>0, <2>1, <2>2, <2>3 DEF Written, Resources
    <3> QED BY <2>1, <2>2, <2>3, <3>1 DEF Recorded
  <2>4. CASE write.backups # api.backups
    <3>1. api'.rv = api.rv + 1
      BY <1>0, <2>1, <2>2, <2>4 DEF Written, Resources
    <3> QED BY <1>2, <2>1, <3>1
  <2> QED BY <2>3, <2>4
<1>4. CASE TogglePause
  <2>1. cache' = cache /\ api'.rv = api.rv + 1
    BY <1>0, <1>4 DEF TogglePause, Resources
  <2> QED BY <1>2, <2>1
<1>5. CASE UNCHANGED <<api, cache, write, queued>>
  BY <1>5 DEF Busy
<1>6. \/ queued' \/ WriteSucceeds \/ TogglePause \/ UNCHANGED <<api, cache, write, queued>>
  BY DEF Next, WriteConflicts, WriteFails, Deliver, TimerFires, Tick, WorkerEnds,
         RunnerTimesOut, RunnerPublishes, TopologyChanges, SetAliases, vars
<1> QED BY <1>1, <1>3, <1>4, <1>5, <1>6

\* The steps that are neither Reconcile's nor the clock's keep up.
LEMMA OthersKeepUp ==
  ASSUME TypeOK, StatusInv, Undisturbed, KeptUp, [Next]_vars, ~Reconcile, cluster' = cluster,
         ~(Restart \/ Delete \/ EditSchedule), now' = now
  PROVE  KeptUp'
<1>0. InPlace /\ threads \subseteq Keys
  BY DEF KeptUp, TypeOK
<1>1. /\ UNCHANGED <<threads, aliased>>
      /\ \A k \in Keys :
           /\ runner'[k].ts = runner[k].ts
           /\ runner'[k].st = "running" => runner[k].st = "running"
           /\ runner[k].st \notin {"none", "killed"} => runner'[k].st \notin {"none", "killed"}
           /\ runner'[k].st \in {"done", "failed"} => runner[k].st = runner'[k].st \/ queued'
  BY <1>0, RunnersStep
<1>2. /\ \A s : FirstROSlave(s)' = FirstROSlave(s)
      /\ \A b : RunnerOf(b)' = RunnerOf(b)
  BY <1>1, SameRunners
<1>3. /\ InPlace'
      /\ \/ api'.backups = api.backups
         \/ /\ write.kind = "status" /\ write.rv = api.rv
            /\ api'.backups = write.backups
  BY <1>0, ResourceStays
<1>4. /\ write' = write \/ write' = NoWrite
      /\ cache' = cache \/ (cache' = api /\ api' = api)
      /\ api' = api \/ (api'.rv = api.rv + 1 /\ cache' = cache)
  BY OtherSteps
<1>5. ASSUME NEW B, Listed(B), Tracked(B) PROVE Tracked(B)'
  <2>1. \A b \in B : RunnerOf(b) \in Keys
    BY <1>0, <1>5, TrackedKeys
  <2> QED BY <1>1, <1>2, <1>5, <2>1 DEF Tracked
<1>6. Tracked(api.backups)' /\ Tracked(cache.backups)' /\ Tracked(write.backups)'
  <2>1. Tracked({})' /\ NoWrite.backups = {}
    BY DEF Tracked, NoWrite
  <2>2. /\ Tracked(api.backups) /\ Tracked(cache.backups) /\ Tracked(write.backups)
        /\ Listed(api.backups) /\ Listed(cache.backups) /\ Listed(write.backups)
    BY ListsListed DEF KeptUp
  <2> QED BY <1>3, <1>4, <1>5, <2>1, <2>2
<1>7. Attended'
  <2> SUFFICES ASSUME ~Busy', NEW b \in api'.backups
               PROVE  /\ b.state = "Running" => runner'[RunnerOf(b)].st \notin {"done", "failed"}
                      /\ b.state = "Pending" => RunnerOf(b) \notin threads
    BY <1>1, <1>2 DEF Attended
  <2>1. ~Busy /\ api' = api /\ ~queued'
    BY <1>0, StaysBusy DEF KeptUp, Busy
  <2>2. RunnerOf(b) \in Keys
    BY <1>0, <2>1, TrackedKeys, ListsListed DEF KeptUp
  <2> QED BY <1>1, <2>1, <2>2 DEF KeptUp, Attended
\* A line of the stored list that is due stays open, or its runner is over.
<1>8. ASSUME NEW b \in api.backups, b.state \in OpenStates, b.sched < now
      PROVE  \/ OpenIn(api'.backups, b)
             \/ RunnerOf(b) \in threads /\ runner[RunnerOf(b)].st # "running"
  BY <1>3, <1>8 DEF KeptUp, Recorded, OpenIn
<1>9. Mapped'
  <2>1. ASSUME NEW k \in Keys, runner'[k].st = "running"
        PROVE  k \in threads /\ now =< runner'[k].ts + Timeout /\ OpenIn(api'.backups, k)
    <3>1. /\ runner[k].st = "running" /\ k \in threads /\ now =< runner'[k].ts + Timeout
          /\ OpenIn(api.backups, k)
      BY <1>1, <2>1 DEF KeptUp, Mapped
    <3>2. PICK b \in api.backups : /\ b.shard = k.shard /\ b.sched = k.sched
                                   /\ b.state \in OpenStates
      BY <3>1 DEF OpenIn
    <3>3. k.aliased /\ k.server = FirstROSlave(b.shard) /\ b.sched < now
          /\ b.shard \in cluster.shards /\ b.sched \in Scheds
      BY <3>1, <3>2, ListsListed DEF KeptUp, Mapped, Listed
    <3>4. k = RunnerOf(b)
      BY <1>0, <3>2, <3>3, RunnerOfType DEF InPlace
    <3>5. OpenIn(api'.backups, b)
      BY <1>8, <3>1, <3>2, <3>3, <3>4
    <3> QED BY <3>1, <3>2, <3>5 DEF OpenIn
  <2>2. \A k \in threads :
          /\ k.aliased /\ k.shard \in cluster.shards /\ k.server = FirstROSlave(k.shard)
          /\ k.sched < now /\ runner'[k].st \notin {"none", "killed"}
    BY <1>0, <1>1 DEF KeptUp, Mapped
  <2> QED BY <1>1, <1>2, <2>1, <2>2 DEF Mapped
<1>10. Recorded'
  <2>1. ASSUME NEW b \in cache'.backups, b.state = "Pending", b.sched < now
        PROVE  OpenIn(api'.backups, b) \/ RunnerOf(b) \in threads
    <3>1. CASE cache' = api /\ api' = api
      BY <2>1, <3>1 DEF OpenIn, OpenStates
    <3>2. CASE cache' = cache /\ OpenIn(api.backups, b)
      <4>1. PICK c \in api.backups : /\ c.shard = b.shard /\ c.sched = b.sched
                                     /\ c.state \in OpenStates
        BY <3>2 DEF OpenIn
      <4>2. RunnerOf(c) = RunnerOf(b)
        BY <4>1 DEF RunnerOf, KeyOf
      <4> QED BY <1>8, <2>1, <4>1, <4>2 DEF OpenIn
    <3> QED BY <1>4, <2>1, <3>1, <3>2 DEF KeptUp, Recorded
  <2>2. ASSUME write'.kind = "status", write'.rv = api'.rv
        PROVE  /\ write'.backups # api'.backups \/ write'.backups = {}
               /\ \A b \in api'.backups : b.state \in OpenStates /\ b.sched < now =>
                    \/ OpenIn(write'.backups, b)
                    \/ RunnerOf(b) \in threads /\ runner'[RunnerOf(b)].st # "running"
    <3>1. write' = write
      BY <1>4, <2>2 DEF NoWrite
    <3>2. write.rv =< api.rv /\ write.rv \in Nat /\ api.rv \in Nat
      BY <2>2, <3>1 DEF StatusInv, TypeOK, Writes, Resources
    <3>3. api' = api
      BY <1>4, <2>2, <3>1, <3>2
    <3> QED BY <1>0, <1>1, <2>2, <3>1, <3>3 DEF KeptUp, Recorded
  <2> QED BY <1>1, <1>2, <2>1, <2>2 DEF Recorded, OpenIn
<1> QED BY <1>3, <1>6, <1>7, <1>9, <1>10 DEF KeptUp

\* The clock advances when there is nothing left to do, so that no result and
\* no start is left behind.
LEMMA TickKeepsUp ==
  ASSUME TypeOK, StatusInv, Undisturbed, KeptUp, Tick, Settled
  PROVE  KeptUp'
<1>0. /\ write = NoWrite /\ cache = api /\ ~Busy /\ InPlace /\ threads \subseteq Keys
      /\ runner \in [Keys -> Runners] /\ now \in Nat /\ now' = now + 1 /\ Timeout \in Nat
  BY NumbersAssumption DEF Settled, Busy, KeptUp, TypeOK, Tick, Times
<1>1. UNCHANGED <<api, cache, queued, write, cluster, aliased, threads, runner>>
  BY DEF Tick
<1>2. /\ \A s : FirstROSlave(s)' = FirstROSlave(s)
      /\ \A b : RunnerOf(b)' = RunnerOf(b)
  BY <1>1, SameRunners
<1>3. \A k \in Keys : runner[k].st = "running" => now' =< runner[k].ts + Timeout
  BY <1>0 DEF Tick, Runners
<1>4. \A b \in api.backups : b.state = "Running" => runner[RunnerOf(b)].st = "running"
  <2> SUFFICES ASSUME NEW b \in api.backups, b.state = "Running"
               PROVE  runner[RunnerOf(b)].st = "running"
    OBVIOUS
  <2>1. RunnerOf(b) \in threads /\ RunnerOf(b) \in Keys
    BY <1>0 DEF KeptUp, Tracked
  <2>2. /\ runner[RunnerOf(b)].st \notin {"none", "killed"}
        /\ runner[RunnerOf(b)].st \notin {"done", "failed"}
        /\ runner[RunnerOf(b)].st \notin {"tornOk", "tornErr"}
    BY <1>0, <2>1 DEF KeptUp, Mapped, Attended, Settled
  <2> QED BY <1>0, <2>1, <2>2 DEF Runners, RunnerStates
<1>5. Tracked(api.backups)'
  <2>1. ASSUME NEW b \in api.backups, b.state = "Running"
        PROVE  now' =< runner[RunnerOf(b)].ts + Timeout
    <3>1. RunnerOf(b) \in Keys
      BY <1>0, <2>1 DEF KeptUp, Tracked
    <3> QED BY <1>3, <1>4, <2>1, <3>1
  <2>2. \A b \in api.backups : b.state = "Pending" => RunnerOf(b) \notin threads
    BY <1>0 DEF KeptUp, Attended
  <2> QED BY <1>1, <1>2, <2>1, <2>2 DEF KeptUp, Tracked
<1>6. Tracked(cache.backups)' /\ Tracked(write.backups)'
  BY <1>0, <1>1, <1>5 DEF Tracked, NoWrite
<1>7. Attended'
  BY <1>1, <1>2 DEF KeptUp, Attended, Busy
<1>8. Mapped'
  <2>1. \A k \in threads : k.sched < now'
    <3>1. \A k \in Keys : k.sched \in Nat
      BY NextRunAssumption DEF Keys, Scheds, Times
    <3> QED BY <1>0, <3>1 DEF KeptUp, Mapped
  <2> QED BY <1>1, <1>2, <1>3, <2>1 DEF KeptUp, Mapped, OpenIn
<1>9. Recorded'
  <2>1. \A b \in cache.backups : b.state = "Pending" => OpenIn(api.backups, b)
    BY <1>0 DEF OpenIn, OpenStates
  <2>2. write.kind # "status"
    BY <1>0 DEF NoWrite
  <2> QED BY <1>1, <2>1, <2>2 DEF Recorded, OpenIn
<1>10. InPlace'
  BY <1>1 DEF KeptUp, InPlace
<1> QED BY <1>5, <1>6, <1>7, <1>8, <1>9, <1>10 DEF KeptUp

\* Every step of the watched controller keeps the invariant.
LEMMA NextPrompt ==
  ASSUME TypeOK, StatusInv, NewestInv, HistoryLimit > 0, PromptInv, WatchedNext
  PROVE  PromptInv'
<1> SUFFICES ASSUME Undisturbed' PROVE KeptUp'
  BY DEF PromptInv
<1>1. /\ Undisturbed /\ cluster' = cluster /\ [Next]_vars
      /\ ~(Restart \/ Delete \/ EditSchedule \/ TopologyChanges)
      /\ now' # now => Settled
  BY UndisturbedBefore
<1>2. KeptUp
  BY <1>1 DEF PromptInv
<1>3. CASE Reconcile
  BY <1>1, <1>2, <1>3, ReconcileKeepsUp
<1>4. CASE ~Reconcile /\ now' = now
  BY <1>1, <1>2, <1>4, OthersKeepUp
<1>5. CASE ~Reconcile /\ now' # now
  <2>1. Tick
    BY <1>1, <1>2, <1>5, RunnersStep DEF KeptUp
  <2> QED BY <1>1, <1>2, <1>5, <2>1, TickKeepsUp
<1> QED BY <1>3, <1>4, <1>5

\* The controller keeps up as long as it is not disturbed: every running entry
\* of the status has a runner that is not past its timeout, every runner that
\* executes is open in the status, and nothing is left behind by the clock.
THEOREM KeepsUp == HistoryLimit > 0 => (WatchedSpec => []PromptInv)
<1> SUFFICES ASSUME HistoryLimit > 0 PROVE WatchedSpec => []PromptInv
  OBVIOUS
<1>1. Init /\ prompt = TRUE => PromptInv
  <2> SUFFICES ASSUME Init PROVE KeptUp
    BY DEF PromptInv
  <2>1. /\ api.backups = {} /\ cache = api /\ write = NoWrite /\ queued /\ threads = {}
        /\ aliased /\ api.exists /\ ~api.deleting
    BY DEF Init
  <2>2. NoWrite.backups = {} /\ NoWrite.kind # "status"
    BY DEF NoWrite
  <2>3. \A k \in Keys : runner[k].st # "running"
    BY DEF Init, NotStarted
  <2> QED BY <2>1, <2>2, <2>3 DEF KeptUp, InPlace, Tracked, Attended, Busy, Mapped, Recorded
<1>2. Init => NewestInv
  BY DEF Init, NewestInv, Newest, NoWrite
<1>3. TypeOK /\ StatusInv /\ NewestInv /\ WatchedNext =>
        TypeOK' /\ StatusInv' /\ NewestInv'
  <2>1. WatchedNext => [Next]_vars
    BY DEF WatchedNext, vars
  <2> QED BY <2>1, NextType, NextStatus, NextNewest
<1>4. TypeOK /\ StatusInv /\ NewestInv /\ PromptInv /\ WatchedNext => PromptInv'
  BY NextPrompt
<1> QED BY <1>1, <1>2, <1>3, <1>4, InitType, InitStatus, PTL DEF WatchedSpec, WatchedNext

\* While the topology and the process stay as they are and the controller
\* keeps up with the clock, no backup ends in state Unknown.
THEOREM NeverUnknown == HistoryLimit > 0 => (WatchedSpec => []PromptNoUnknown)
<1> SUFFICES ASSUME HistoryLimit > 0 PROVE WatchedSpec => []PromptNoUnknown
  OBVIOUS
<1>1. PromptInv => PromptNoUnknown
  BY DEF PromptInv, KeptUp, Tracked, PromptNoUnknown, NoUnknown
<1> QED BY <1>1, KeepsUp, PTL

\* Under the same conditions a shard never has two backups executing at once.
THEOREM OneRunnerAtATime == HistoryLimit > 0 => (WatchedSpec => []PromptOneRunner)
<1> SUFFICES ASSUME HistoryLimit > 0 PROVE WatchedSpec => []PromptOneRunner
  OBVIOUS
<1>1. TypeOK /\ StatusInv /\ PromptInv => PromptOneRunner
  <2> SUFFICES ASSUME TypeOK, StatusInv, Undisturbed, KeptUp, NEW k \in Keys, NEW l \in Keys,
                      k.shard = l.shard, runner[k].st = "running", runner[l].st = "running"
               PROVE  k = l
    BY DEF PromptInv, PromptOneRunner, OneRunnerPerShard
  <2>1. k \in threads /\ l \in threads /\ OpenIn(api.backups, k) /\ OpenIn(api.backups, l)
    BY DEF KeptUp, Mapped
  <2>2. k.sched = l.sched
    BY <2>1 DEF OpenIn, StatusInv, Sound, OneOpenIn
  <2>3. k.server = l.server /\ k.aliased /\ l.aliased
    BY <2>1 DEF KeptUp, Mapped
  <2>4. k.aliased = TRUE /\ l.aliased = TRUE
    BY <2>3 DEF Keys
  <2> QED BY <2>2, <2>3, <2>4 DEF Keys
<1>2. WatchedNext => [Next]_vars
  BY DEF WatchedNext, vars
<1>3. TypeOK /\ StatusInv /\ [Next]_vars => TypeOK' /\ StatusInv'
  BY NextType, NextStatus
<1> QED BY <1>1, <1>2, <1>3, InitType, InitStatus, KeepsUp, PTL DEF WatchedSpec, WatchedNext

-----------------------------------------------------------------------------
(* The slice behind the set: BackupStatusList implements BackupHistory.  A *)
(* slice is sorted by ranks, so listing the elements of a finite set in    *)
(* the order of their ranks comes first, then the slice operations one by  *)
(* one, the loop, and at last the lists the controller has.                *)

\* R orders the elements of S, no two of them alike.
StrictOrder(S, R) ==
  /\ \A x \in S : <<x, x>> \notin R
  /\ \A x, y, z \in S : <<x, y>> \in R /\ <<y, z>> \in R => <<x, z>> \in R
  /\ \A x, y \in S : x # y => <<x, y>> \in R \/ <<y, x>> \in R

\* p lists the elements of S, m of them, in that order.
Lists(p, m, S, R) ==
  /\ m \in Nat
  /\ p \in [1 .. m -> S]
  /\ \A i, j \in 1 .. m : i < j => <<p[i], p[j]>> \in R
  /\ \A x \in S : \E i \in 1 .. m : p[i] = x

\* InOrder lists every element, in that order.
LEMMA InOrderSorts ==
  ASSUME NEW S, IsFiniteSet(S), NEW R, StrictOrder(S, R)
  PROVE  Lists(InOrder(S, R), Cardinality(S), S, R)
<1> DEFINE n == Cardinality(S)
           before(x) == {y \in S : <<y, x>> \in R}
           rank == [x \in S |-> Cardinality(before(x))]
<1>1. n \in Nat
  BY FS_CardinalityType
<1>2. \A x \in S : IsFiniteSet(before(x)) /\ rank[x] \in Nat
  <2>1. \A x : before(x) \in SUBSET S
    OBVIOUS
  <2>2. \A x : IsFiniteSet(before(x)) /\ Cardinality(before(x)) \in Nat
    <3> HIDE DEF before
    <3> QED BY <2>1, FS_Subset, FS_CardinalityType
  <2> QED BY <2>2
<1>3. ASSUME NEW x \in S PROVE rank[x] < n
  <2>1. before(x) \in SUBSET S /\ x \notin before(x)
    BY DEF StrictOrder
  <2>2. before(x) # S
    BY <2>1
  <2>3. Cardinality(before(x)) <= n /\ Cardinality(before(x)) # n
    <3> HIDE DEF before
    <3> QED BY <2>1, <2>2, FS_Subset
  <2> QED BY <2>3, <1>1, <1>2
<1>4. ASSUME NEW x \in S, NEW y \in S, <<x, y>> \in R PROVE rank[x] < rank[y]
  <2>1. before(x) \in SUBSET before(y) /\ x \in before(y) /\ x \notin before(x)
    BY <1>4 DEF StrictOrder
  <2>2. Cardinality(before(x)) <= Cardinality(before(y))
        /\ Cardinality(before(x)) # Cardinality(before(y))
    <3>1. IsFiniteSet(before(y)) /\ before(x) # before(y)
      BY <1>2, <2>1
    <3> HIDE DEF before
    <3> QED BY <2>1, <3>1, FS_Subset
  <2> QED BY <2>2, <1>2
<1> HIDE DEF rank
<1>a. \A x \in S : rank[x] \in Nat
  BY <1>2
<1>b. \A x, y \in S : <<x, y>> \in R => rank[x] < rank[y]
  BY <1>4
<1>c. \A x, y \in S : rank[x] = rank[y] => x = y
  <2> SUFFICES ASSUME NEW x \in S, NEW y \in S, rank[x] = rank[y], x # y PROVE FALSE
    OBVIOUS
  <2>1. rank[x] < rank[y] \/ rank[y] < rank[x]
    BY <1>b DEF StrictOrder
  <2> QED BY <2>1, <1>a
<1> USE DEF rank
<1>5. rank \in Surjection(S, 0 .. n - 1)
  <2>1. rank \in [S -> 0 .. n - 1]
    BY <1>1, <1>2, <1>3
  <2>3. rank \in Injection(S, 0 .. n - 1)
    <3> HIDE DEF rank
    <3> QED BY <2>1, <1>c DEF Injection, IsInjective
  <2>4. IsFiniteSet(0 .. n - 1) /\ Cardinality(0 .. n - 1) = n
    BY <1>1, FS_Interval
  <2> HIDE DEF rank
  <2> QED BY <2>3, <2>4, FS_Injection
<1>6. ASSUME NEW k \in 1 .. n
      PROVE  InOrder(S, R)[k] \in S /\ rank[InOrder(S, R)[k]] = k - 1
  <2>1. k - 1 \in 0 .. n - 1
    BY <1>1
  <2>2. \E x \in S : rank[x] = k - 1
    <3> HIDE DEF rank
    <3> QED BY <2>1, <1>5 DEF Surjection
  <2>3. \E x \in S : Cardinality({y \in S : <<y, x>> \in R}) = k - 1
    BY <2>2
  <2>4. InOrder(S, R)[k] = CHOOSE x \in S : Cardinality({y \in S : <<y, x>> \in R}) = k - 1
    BY DEF InOrder
  <2> QED BY <2>3, <2>4
<1>7. InOrder(S, R) \in [1 .. n -> S]
  BY <1>6 DEF InOrder
<1>8. ASSUME NEW i \in 1 .. n, NEW j \in 1 .. n, i < j
      PROVE  <<InOrder(S, R)[i], InOrder(S, R)[j]>> \in R
  <2> DEFINE a == InOrder(S, R)[i]
             b == InOrder(S, R)[j]
  <2>1. a \in S /\ b \in S /\ rank[a] < rank[b]
    BY <1>6, <1>8, <1>1
  <2> HIDE DEF a, b, rank
  <2>2. a # b /\ ~ (<<b, a>> \in R)
    BY <2>1, <1>a, <1>b
  <2>3. <<a, b>> \in R
    BY <2>1, <2>2 DEF StrictOrder
  <2> QED BY <2>3 DEF a, b
<1>9. ASSUME NEW x \in S PROVE \E i \in 1 .. n : InOrder(S, R)[i] = x
  <2> DEFINE i == rank[x] + 1
  <2>1. i \in 1 .. n
    BY <1>1, <1>2, <1>3
  <2> DEFINE y == InOrder(S, R)[i]
  <2> HIDE DEF rank
  <2>2. y \in S /\ rank[y] = i - 1
    BY <2>1, <1>6
  <2>3. rank[y] = rank[x]
    BY <2>2, <1>a
  <2> HIDE DEF y
  <2>4. y = x
    BY <2>2, <2>3, <1>c
  <2> QED BY <2>1, <2>4 DEF y
<1> QED BY <1>1, <1>7, <1>8, <1>9 DEF Lists

\* The elements that come before x.
Before(S, R, x) == {y \in S : <<y, x>> \in R}

\* A list of the elements of S in the order R has all the others that come
\* before an element in front of it, and there is only one such list.
LEMMA InOrderRank ==
  ASSUME NEW S, IsFiniteSet(S), NEW R, StrictOrder(S, R),
         NEW m, NEW p, Lists(p, m, S, R), NEW k \in 1 .. m
  PROVE  Cardinality(Before(S, R, p[k])) = k - 1
<1> DEFINE T == {y \in S : <<y, p[k]>> \in R}
           f == [i \in 1 .. k - 1 |-> p[i]]
<1> USE DEF Lists
<1>1. k - 1 \in Nat /\ \A i \in 1 .. k - 1 : i \in 1 .. m /\ i < k
  OBVIOUS
<1>2. \A i \in 1 .. k - 1 : p[i] \in T
  BY <1>1
<1>3. \A i, j \in 1 .. k - 1 : p[i] = p[j] => i = j
  <2> SUFFICES ASSUME NEW i \in 1 .. k - 1, NEW j \in 1 .. k - 1, p[i] = p[j], i # j
               PROVE  FALSE
    OBVIOUS
  <2>1. i < j \/ j < i
    BY <1>1
  <2>2. <<p[i], p[i]>> \in R
    BY <2>1, <1>1
  <2> QED BY <2>2, <1>1 DEF StrictOrder
<1>4. ASSUME NEW y \in T PROVE \E i \in 1 .. k - 1 : p[i] = y
  <2>1. PICK i \in 1 .. m : p[i] = y
    BY <1>4
  <2>2. ~ (<<p[k], p[i]>> \in R)
    BY <1>4, <2>1 DEF StrictOrder
  <2>3. i # k
    BY <1>4, <2>1 DEF StrictOrder
  <2>4. i < k
    BY <2>2, <2>3
  <2> QED BY <2>1, <2>4
<1>5. f \in Bijection(1 .. k - 1, T)
  <2>1. f \in [1 .. k - 1 -> T]
    BY <1>2
  <2> HIDE DEF T
  <2>2. f \in Injection(1 .. k - 1, T)
    BY <2>1, <1>3 DEF Injection, IsInjective
  <2>3. f \in Surjection(1 .. k - 1, T)
    BY <2>1, <1>4 DEF Surjection
  <2> QED BY <2>2, <2>3 DEF Bijection
<1> HIDE DEF T, f
<1>6. Cardinality(T) = k - 1
  BY <1>1, <1>5, FS_CountingElements DEF ExistsBijection
<1> QED BY <1>6 DEF T, Before

\* A list of the elements in order is the one InOrder makes.
LEMMA InOrderUnique ==
  ASSUME NEW S, IsFiniteSet(S), NEW R, StrictOrder(S, R),
         NEW m, NEW p, Lists(p, m, S, R)
  PROVE  m = Cardinality(S) /\ p = InOrder(S, R)
<1> DEFINE q == InOrder(S, R)
           n == Cardinality(S)
<1>1. Lists(q, n, S, R)
  BY InOrderSorts
<1>2. m = n
  <2>1. \A i, j \in 1 .. m : p[i] = p[j] => i = j
    <3> SUFFICES ASSUME NEW i \in 1 .. m, NEW j \in 1 .. m, p[i] = p[j], i # j
                 PROVE  FALSE
      OBVIOUS
    <3>1. <<p[i], p[i]>> \in R
      BY i < j \/ j < i DEF Lists
    <3> QED BY <3>1 DEF StrictOrder, Lists
  <2>2. p \in Bijection(1 .. m, S)
    BY <2>1 DEF Bijection, Injection, Surjection, IsInjective, Lists
  <2> QED BY <2>2, FS_CountingElements DEF ExistsBijection, Lists
<1>3. ASSUME NEW k \in 1 .. m PROVE p[k] = q[k]
  <2>1. PICK j \in 1 .. n : q[j] = p[k]
    BY <1>1 DEF Lists
  <2>2. Cardinality(Before(S, R, p[k])) = k - 1
    BY InOrderRank
  <2> HIDE DEF q, n
  <2>3. Cardinality(Before(S, R, q[j])) = j - 1
    BY <1>1, InOrderRank
  <2>4. k - 1 = j - 1
    BY <2>1, <2>2, <2>3
  <2> QED BY <2>1, <2>4, <1>2, <1>1 DEF Lists
<1> QED BY <1>1, <1>2, <1>3 DEF Lists

-----------------------------------------------------------------------------

\* No two entries for the same shard and time; shards are numbers.
Keyed(B) ==
  /\ \A b \in B : b.shard \in Nat /\ b.sched \in Nat
  /\ \A a, b \in B : a.shard = b.shard /\ a.sched = b.sched => a = b

\* The slice l holds the entries B, newest first.
IsSlice(l, B) ==
  /\ l \in Seq(B)
  /\ \A i, j \in 1 .. Len(l) : i < j => Newer(l[i], l[j])
  /\ \A b \in B : \E i \in 1 .. Len(l) : l[i] = b

\* The order of the slice, as a set of pairs.
NewerPairs(B) == {p \in B \X B : Newer(p[1], p[2])}

\* Entries that differ in shard or time are ordered by the comparison that the
\* sort uses.
LEMMA NewerOrders ==
  ASSUME NEW B, Keyed(B)
  PROVE  /\ StrictOrder(B, NewerPairs(B))
         /\ \A a, b \in B : <<a, b>> \in NewerPairs(B) <=> Newer(a, b)
         /\ \A a, b \in B : a # b => Newer(a, b) \/ Newer(b, a)
         /\ \A a, b \in B : ~ (Newer(a, b) /\ Newer(b, a))
         /\ \A a, b, c \in B : Newer(a, b) /\ Newer(b, c) => Newer(a, c)
<1>1. \A a, b \in B : <<a, b>> \in NewerPairs(B) <=> Newer(a, b)
  BY DEF NewerPairs
<1>2. \A a, b \in B : a # b => Newer(a, b) \/ Newer(b, a)
  BY DEF Keyed, Newer, Less
<1>3. \A a, b \in B : ~ (Newer(a, b) /\ Newer(b, a))
  BY DEF Keyed, Newer, Less
<1>4. \A a, b, c \in B : Newer(a, b) /\ Newer(b, c) => Newer(a, c)
  BY DEF Keyed, Newer, Less
<1>5. StrictOrder(B, NewerPairs(B))
  BY <1>1, <1>2, <1>3, <1>4 DEF StrictOrder
<1> QED BY <1>1, <1>2, <1>3, <1>4, <1>5

\* The slice of a finite set of entries holds them, newest first.
LEMMA SliceOfIsSlice ==
  ASSUME NEW B, IsFiniteSet(B), Keyed(B)
  PROVE  IsSlice(SliceOf(B), B)
<1> DEFINE l == InOrder(B, NewerPairs(B))
           n == Cardinality(B)
<1>1. l = SliceOf(B)
  BY DEF SliceOf, NewerPairs
<1>2. StrictOrder(B, NewerPairs(B))
  BY NewerOrders
<1>3. Lists(l, n, B, NewerPairs(B))
  BY <1>2, InOrderSorts
<1> HIDE DEF l, n
<1>4. l \in Seq(B) /\ Len(l) = n
  BY <1>3 DEF Lists
<1>5. \A i, j \in 1 .. n : i < j => Newer(l[i], l[j])
  BY <1>3, NewerOrders DEF Lists
<1>6. IsSlice(l, B)
  BY <1>3, <1>4, <1>5 DEF IsSlice, Lists
<1> QED BY <1>1, <1>6

\* No other slice does.
LEMMA SliceIsSliceOf ==
  ASSUME NEW B, IsFiniteSet(B), Keyed(B), NEW l, IsSlice(l, B)
  PROVE  l = SliceOf(B)
<1>1. Len(l) \in Nat /\ l \in [1 .. Len(l) -> B]
  BY LenProperties DEF IsSlice
<1>2. \A i, j \in 1 .. Len(l) : i < j => <<l[i], l[j]>> \in NewerPairs(B)
  BY <1>1, NewerOrders DEF IsSlice
<1>3. Lists(l, Len(l), B, NewerPairs(B))
  BY <1>1, <1>2 DEF IsSlice, Lists
<1>4. l = InOrder(B, NewerPairs(B))
  BY <1>3, NewerOrders, InOrderUnique
<1> QED BY <1>4 DEF SliceOf, NewerPairs

\* FindLast is the first position of a match.
LEMMA FindLastFirst ==
  ASSUME NEW B, NEW l \in Seq(B), NEW s, NEW st
  PROVE  LET pos == FindLast(l, s, st)
             Match(i) == l[i].shard = s /\ l[i].state = st
         IN  \/ pos = 0 /\ \A i \in 1 .. Len(l) : ~ Match(i)
             \/ pos \in 1 .. Len(l) /\ Match(pos) /\ \A i \in 1 .. Len(l) : Match(i) => pos =< i
<1> DEFINE I == {i \in 1 .. Len(l) : l[i].shard = s /\ l[i].state = st}
<1>1. FindLast(l, s, st) = IF I # {} THEN Min(I) ELSE 0
  BY DEF FindLast, SelectInSeq
<1>2. CASE I = {}
  BY <1>1, <1>2
<1>3. CASE I # {}
  <2>1. I \in SUBSET Nat
    BY LenProperties
  <2>2. \E r \in I : \A q \in I : r =< q
    <3> HIDE DEF I
    <3> QED BY <1>3, <2>1, SmallestServer
  <2>3. Min(I) \in I /\ \A q \in I : Min(I) =< q
    <3> HIDE DEF I
    <3> QED BY <2>2 DEF Min
  <2>4. FindLast(l, s, st) = Min(I)
    BY <1>1, <1>3
  <2> QED BY <2>3, <2>4
<1> QED BY <1>2, <1>3

\* On a slice that is sorted newest first, the first match is the newest.
LEMMA FirstIsNewest ==
  ASSUME NEW B, Keyed(B), NEW l, IsSlice(l, B), NEW s, NEW st
  PROVE  LET pos == FindLast(l, s, st)
         IN  /\ pos # 0 => pos \in 1 .. Len(l)
             /\ FindLastBackup(B, s, st) = IF pos = 0 THEN {} ELSE {l[pos]}
<1> DEFINE pos == FindLast(l, s, st)
           Match(i) == l[i].shard = s /\ l[i].state = st
<1>1. l \in Seq(B) /\ \A i \in 1 .. Len(l) : l[i] \in B
  BY ElementOfSeq DEF IsSlice
<1>2. \/ pos = 0 /\ \A i \in 1 .. Len(l) : ~ Match(i)
      \/ pos \in 1 .. Len(l) /\ Match(pos) /\ \A i \in 1 .. Len(l) : Match(i) => pos =< i
  BY <1>1, FindLastFirst
<1> HIDE DEF pos
<1>3. CASE pos = 0
  <2>1. \A b \in B : ~ (b.shard = s /\ b.state = st)
    BY <1>2, <1>3 DEF IsSlice
  <2>2. FindLastBackup(B, s, st) = {}
    BY <2>1 DEF FindLastBackup
  <2> QED BY <2>2, <1>3 DEF pos
<1>4. CASE pos # 0
  <2> DEFINE x == l[pos]
  <2>1. pos \in 1 .. Len(l) /\ x \in B /\ x.shard = s /\ x.state = st
    BY <1>1, <1>2, <1>4
  <2>2. ASSUME NEW c \in B, c.shard = s, c.state = st PROVE c.sched =< x.sched
    <3>1. PICK i \in 1 .. Len(l) : l[i] = c
      BY DEF IsSlice
    <3>2. pos = i \/ pos < i
      BY <1>2, <1>4, <2>2, <3>1
    <3>3. CASE pos = i
      BY <3>1, <3>3 DEF Keyed
    <3>4. CASE pos < i
      <4>1. Newer(x, c)
        BY <2>1, <3>1, <3>4 DEF IsSlice
      <4> QED BY <4>1, <2>1 DEF Newer, Less, Keyed
    <3> QED BY <3>2, <3>3, <3>4
  <2>3. x \in FindLastBackup(B, s, st)
    BY <2>1, <2>2 DEF FindLastBackup
  <2>4. ASSUME NEW b \in FindLastBackup(B, s, st) PROVE b = x
    <3>1. b \in B /\ b.shard = s /\ b.state = st /\ x.sched =< b.sched
      BY <2>1 DEF FindLastBackup
    <3>2. b.sched =< x.sched /\ b.sched \in Nat /\ x.sched \in Nat
      BY <3>1, <2>1, <2>2 DEF Keyed
    <3>3. b.sched = x.sched
      BY <3>1, <3>2
    <3> QED BY <3>1, <3>3, <2>1 DEF Keyed
  <2>5. FindLastBackup(B, s, st) = {x}
    BY <2>3, <2>4
  <2> QED BY <2>1, <2>5, <1>4 DEF pos
<1> QED BY <1>3, <1>4

-----------------------------------------------------------------------------

\* sort.Sort makes a slice of any list of the entries, each of them once.
LEMMA SortMakesSlice ==
  ASSUME NEW B, Keyed(B), NEW l \in Seq(B),
         \A i, j \in 1 .. Len(l) : l[i] = l[j] => i = j,
         \A b \in B : \E i \in 1 .. Len(l) : l[i] = b
  PROVE  IsSlice(SortReverse(l), B)
<1> DEFINE n == Len(l)
           P == 1 .. n
           R == {p \in P \X P : Newer(l[p[1]], l[p[2]])
                                \/ (~Newer(l[p[2]], l[p[1]]) /\ p[1] < p[2])}
           from == InOrder(P, R)
           s == [k \in P |-> l[from[k]]]
<1>1. s = SortReverse(l)
  BY DEF SortReverse
<1>2. n \in Nat /\ l \in [P -> B]
  BY LenProperties
<1>3. IsFiniteSet(P) /\ Cardinality(P) = n
  BY <1>2, FS_Interval
<1>4. \A i, j \in P : i # j => (<<i, j>> \in R <=> Newer(l[i], l[j]))
  <2> SUFFICES ASSUME NEW i \in P, NEW j \in P, i # j
               PROVE  <<i, j>> \in R <=> Newer(l[i], l[j])
    OBVIOUS
  <2>1. l[i] \in B /\ l[j] \in B /\ l[i] # l[j]
    BY <1>2
  <2>2. Newer(l[i], l[j]) \/ Newer(l[j], l[i])
    BY <2>1, NewerOrders
  <2> QED BY <2>2
<1>5. \A i \in P : <<i, i>> \notin R
  <2>1. \A i \in P : ~ Newer(l[i], l[i])
    BY <1>2, NewerOrders
  <2> QED BY <2>1, <1>2
<1> HIDE DEF R
<1>6. StrictOrder(P, R)
  <2>1. \A i, j \in P : i # j => <<i, j>> \in R \/ <<j, i>> \in R
    BY <1>2, <1>4, NewerOrders
  <2>2. ASSUME NEW i \in P, NEW j \in P, NEW k \in P, <<i, j>> \in R, <<j, k>> \in R
        PROVE  <<i, k>> \in R
    <3>1. Newer(l[i], l[j]) /\ Newer(l[j], l[k])
      BY <2>2, <1>4, <1>5
    <3>2. l[i] \in B /\ l[j] \in B /\ l[k] \in B
      BY <1>2
    <3>3. Newer(l[i], l[k]) /\ l[i] # l[k]
      BY <3>1, <3>2, NewerOrders
    <3> QED BY <3>3, <1>4
  <2> QED BY <2>1, <2>2, <1>5 DEF StrictOrder
<1>7. Lists(from, n, P, R)
  BY <1>3, <1>6, InOrderSorts
<1> HIDE DEF from
<1>8. s \in [P -> B]
  BY <1>2, <1>7 DEF Lists
<1>9. s \in Seq(B) /\ Len(s) = n
  BY <1>2, <1>8
<1>10. ASSUME NEW i \in P, NEW j \in P, i < j PROVE Newer(s[i], s[j])
  <2>1. <<from[i], from[j]>> \in R /\ from[i] \in P /\ from[j] \in P
    BY <1>7, <1>10 DEF Lists
  <2>2. from[i] # from[j]
    BY <2>1, <1>5
  <2> QED BY <2>1, <2>2, <1>4
<1>11. ASSUME NEW b \in B PROVE \E i \in P : s[i] = b
  <2>1. PICK j \in P : l[j] = b
    OBVIOUS
  <2>2. PICK i \in P : from[i] = j
    BY <1>7 DEF Lists
  <2> QED BY <2>1, <2>2
<1> HIDE DEF s
<1>12. IsSlice(s, B)
  BY <1>9, <1>10, <1>11 DEF IsSlice
<1> QED BY <1>1, <1>12

\* A slice holds every entry once.
LEMMA SliceElements ==
  ASSUME NEW B, Keyed(B), NEW l, IsSlice(l, B)
  PROVE  /\ Len(l) \in Nat /\ l \in [1 .. Len(l) -> B]
         /\ \A i, j \in 1 .. Len(l) : l[i] = l[j] => i = j
<1>1. Len(l) \in Nat /\ l \in [1 .. Len(l) -> B]
  BY LenProperties DEF IsSlice
<1>2. ASSUME NEW i \in 1 .. Len(l), NEW j \in 1 .. Len(l), l[i] = l[j], i # j PROVE FALSE
  <2>1. Newer(l[i], l[j]) \/ Newer(l[j], l[i])
    BY <1>1, <1>2 DEF IsSlice
  <2>2. l[i] \in B
    BY <1>1
  <2> QED BY <2>1, <2>2, <1>2, NewerOrders
<1> QED BY <1>1, <1>2

\* AddBackup inserts a new entry where it belongs.
LEMMA AddMakesSlice ==
  ASSUME NEW B, NEW l, IsSlice(l, B), NEW x, x \notin B, Keyed(B \cup {x})
  PROVE  IsSlice(AddBackup(l, x), B \cup {x})
<1> DEFINE m == Append(l, x)
           C == B \cup {x}
<1>0. Keyed(B)
  BY DEF Keyed
<1>1. /\ Len(l) \in Nat /\ l \in [1 .. Len(l) -> B]
      /\ \A i, j \in 1 .. Len(l) : l[i] = l[j] => i = j
  BY <1>0, SliceElements
<1>2. l \in Seq(C)
  BY <1>1
<1>3. /\ m \in Seq(C) /\ Len(m) = Len(l) + 1 /\ m[Len(l) + 1] = x
      /\ \A i \in 1 .. Len(l) : m[i] = l[i]
  BY <1>2
<1> HIDE DEF m
<1>4. \A i \in 1 .. Len(m) : i \in 1 .. Len(l) \/ i = Len(l) + 1
  BY <1>1, <1>3
<1>5. \A i, j \in 1 .. Len(m) : m[i] = m[j] => i = j
  BY <1>1, <1>3, <1>4
<1>6. ASSUME NEW b \in C PROVE \E i \in 1 .. Len(m) : m[i] = b
  <2>1. CASE b = x
    BY <2>1, <1>1, <1>3
  <2>2. CASE b \in B
    <3>1. PICK i \in 1 .. Len(l) : l[i] = b
      BY <2>2 DEF IsSlice
    <3> QED BY <3>1, <1>1, <1>3
  <2> QED BY <2>1, <2>2
<1>7. Keyed(C)
  OBVIOUS
<1> HIDE DEF C
<1>8. IsSlice(SortReverse(m), C)
  BY <1>3, <1>5, <1>6, <1>7, SortMakesSlice
<1> QED BY <1>8 DEF AddBackup, m, C

\* DeleteBackup takes an entry out and leaves the order of the others.
LEMMA DeleteMakesSlice ==
  ASSUME NEW B, Keyed(B), NEW l, IsSlice(l, B), NEW pos \in 1 .. Len(l)
  PROVE  IsSlice(DeleteBackup(l, pos), B \ {l[pos]})
<1> DEFINE n == Len(l)
           m == DeleteBackup(l, pos)
           C == B \ {l[pos]}
<1>1. /\ n \in Nat /\ l \in [1 .. n -> B]
      /\ \A i, j \in 1 .. n : l[i] = l[j] => i = j
  BY SliceElements
<1> DEFINE a == SubSeq(l, 1, pos - 1)
           b == SubSeq(l, pos + 1, n)
<1>2. /\ a \in Seq(B) /\ Len(a) = pos - 1
      /\ \A i \in 1 .. pos - 1 : a[i] = l[i]
  <2>1. pos - 1 \in Int /\ \A i \in 1 .. pos - 1 : l[i] \in B
    BY <1>1
  <2> HIDE DEF n
  <2> QED BY <1>1, <2>1
<1>3. /\ b \in Seq(B) /\ Len(b) = n - pos
      /\ \A i \in 1 .. n - pos : b[i] = l[pos + i]
  <2>1. pos + 1 \in Int /\ n \in Int /\ \A i \in pos + 1 .. n : l[i] \in B
    BY <1>1
  <2>2. /\ b \in Seq(B) /\ Len(b) = (IF pos + 1 <= n THEN n - (pos + 1) + 1 ELSE 0)
        /\ \A i \in 1 .. n - (pos + 1) + 1 : b[i] = l[(pos + 1) + i - 1]
    <3> HIDE DEF n
    <3> QED BY <2>1, SubSeqProperties
  <2> HIDE DEF b, n
  <2>3. n - (pos + 1) + 1 = n - pos /\ \A i \in Int : (pos + 1) + i - 1 = pos + i
    BY <1>1
  <2>4. Len(b) = n - pos
    BY <2>2, <1>1
  <2> QED BY <2>2, <2>3, <2>4
<1> HIDE DEF a, b
<1>4. m = a \o b
  BY DEF DeleteBackup, RemoveAt, a, b
<1>5. /\ m \in Seq(B) /\ Len(m) = n - 1
      /\ \A i \in 1 .. n - 1 : m[i] = IF i < pos THEN l[i] ELSE l[i + 1]
  <2>1. /\ m \in Seq(B) /\ Len(m) = Len(a) + Len(b)
        /\ \A i \in 1 .. Len(a) + Len(b) : m[i] = IF i <= Len(a) THEN a[i] ELSE b[i - Len(a)]
    <3>1. /\ (a \o b) \in Seq(B) /\ Len(a \o b) = Len(a) + Len(b)
          /\ \A i \in 1 .. Len(a) + Len(b) :
               (a \o b)[i] = IF i <= Len(a) THEN a[i] ELSE b[i - Len(a)]
      BY <1>2, <1>3, ConcatProperties
    <3> QED BY <3>1, <1>4, Zenon
  <2> HIDE DEF m
  <2>2. Len(a) + Len(b) = n - 1
    BY <1>1, <1>2, <1>3
  <2>3. ASSUME NEW i \in 1 .. n - 1 PROVE m[i] = IF i < pos THEN l[i] ELSE l[i + 1]
    <3>1. CASE i < pos
      BY <3>1, <2>1, <2>2, <1>1, <1>2
    <3>2. CASE ~ (i < pos)
      <4>1. m[i] = b[i - Len(a)]
        <5>1. ~ (i <= Len(a)) /\ i \in 1 .. Len(a) + Len(b)
          BY <3>2, <2>2, <1>1, <1>2
        <5> HIDE DEF n
        <5> QED BY <5>1, <2>1
      <4>2. i - Len(a) \in 1 .. n - pos /\ pos + (i - Len(a)) = i + 1
        BY <3>2, <1>1, <1>2
      <4> QED BY <3>2, <4>1, <4>2, <1>3
    <3> QED BY <3>1, <3>2
  <2> QED BY <2>1, <2>2, <2>3
<1> HIDE DEF m
<1> DEFINE at(i) == IF i < pos THEN i ELSE i + 1
<1>6. \A i \in 1 .. n - 1 : at(i) \in 1 .. n /\ at(i) # pos /\ m[i] = l[at(i)]
  BY <1>1, <1>5
<1>7. \A i, j \in 1 .. n - 1 : i < j => at(i) < at(j)
  BY <1>1
<1> HIDE DEF at
<1>8. m \in Seq(C)
  <2>1. \A i \in 1 .. n - 1 : m[i] \in C
    BY <1>1, <1>6
  <2>2. m \in [1 .. n - 1 -> C] /\ n - 1 \in Nat
    BY <1>1, <1>5, <2>1, LenProperties
  <2> HIDE DEF C, n
  <2> QED BY <2>2
<1>9. \A i, j \in 1 .. Len(m) : i < j => Newer(m[i], m[j])
  BY <1>5, <1>6, <1>7 DEF IsSlice
<1>10. ASSUME NEW c \in C PROVE \E i \in 1 .. Len(m) : m[i] = c
  <2>1. PICK j \in 1 .. n : l[j] = c
    BY DEF IsSlice
  <2>2. j # pos
    BY <2>1
  <2>3. CASE j < pos
    <3>1. j \in 1 .. n - 1 /\ m[j] = l[j]
      BY <2>3, <1>1, <1>5
    <3> QED BY <3>1, <2>1, <1>5
  <2>4. CASE pos < j
    <3>1. j - 1 \in 1 .. n - 1 /\ m[j - 1] = l[j]
      BY <2>4, <1>1, <1>5
    <3> QED BY <3>1, <2>1, <1>5
  <2> QED BY <2>2, <2>3, <2>4
<1> HIDE DEF C
<1>11. IsSlice(m, C)
  BY <1>8, <1>9, <1>10 DEF IsSlice
<1> QED BY <1>11 DEF m, C

\* The entries once the shards T have been scheduled.
Rescheduled(B, n, T) ==
  LET add      == ToSchedule(B, n, T)
      replaced == UNION {FindLastBackup(B, s, "Pending") : s \in add}
  IN  (B \ replaced) \cup {Scheduled(s, n) : s \in add}

\* What is there for time n is the newest pending entry of its shard.
Ahead(B, n) ==
  Keyed(B) /\ \A b \in B : b.sched = n => b \in FindLastBackup(B, b.shard, "Pending")

\* One more shard: its newest pending entry is replaced, or nothing changes.
LEMMA RescheduledStep ==
  ASSUME NEW B, NEW n, NEW T, NEW s, s \notin T
  PROVE  /\ s \in ToSchedule(B, n, {s}) =>
              Rescheduled(B, n, T \cup {s}) =
                (Rescheduled(B, n, T) \ FindLastBackup(B, s, "Pending")) \cup {Scheduled(s, n)}
         /\ s \notin ToSchedule(B, n, {s}) =>
              Rescheduled(B, n, T \cup {s}) = Rescheduled(B, n, T)
<1> DEFINE A(U) == ToSchedule(B, n, U)
           F(x) == FindLastBackup(B, x, "Pending")
<1>1. A(T \cup {s}) = A(T) \cup A({s}) /\ A({s}) \in SUBSET {s} /\ A(T) \in SUBSET T
  BY DEF ToSchedule
<1>2. \A x : \A b \in F(x) : b.shard = x
  BY DEF FindLastBackup
<1>3. \A x : Scheduled(x, n).shard = x
  BY DEF Scheduled
<1>4. \A U : Rescheduled(B, n, U) = (B \ UNION {F(x) : x \in A(U)}) \cup {Scheduled(x, n) : x \in A(U)}
  BY DEF Rescheduled
<1> HIDE DEF A, F
<1>5. CASE s \in A({s})
  <2>1. A(T \cup {s}) = A(T) \cup {s}
    BY <1>1, <1>5
  <2>2. \A x \in A(T) : Scheduled(x, n) \notin F(s)
    BY <1>1, <1>2, <1>3
  <2>3. UNION {F(x) : x \in A(T) \cup {s}} = (UNION {F(x) : x \in A(T)}) \cup F(s)
    OBVIOUS
  <2>4. {Scheduled(x, n) : x \in A(T) \cup {s}} = {Scheduled(x, n) : x \in A(T)} \cup {Scheduled(s, n)}
    OBVIOUS
  <2>5. Rescheduled(B, n, T \cup {s}) = (Rescheduled(B, n, T) \ F(s)) \cup {Scheduled(s, n)}
    <3> DEFINE X == UNION {F(x) : x \in A(T)}
               Y == {Scheduled(x, n) : x \in A(T)}
    <3>1. \A y \in Y : y \notin F(s)
      BY <2>2
    <3>2. Rescheduled(B, n, T \cup {s}) = (B \ (X \cup F(s))) \cup (Y \cup {Scheduled(s, n)})
      BY <1>4, <2>1, <2>3, <2>4
    <3>3. Rescheduled(B, n, T) = (B \ X) \cup Y
      BY <1>4
    <3> HIDE DEF X, Y
    <3> QED BY <3>1, <3>2, <3>3
  <2> QED BY <2>5, <1>5 DEF A, F
<1>6. CASE s \notin A({s})
  <2>1. A(T \cup {s}) = A(T)
    BY <1>1, <1>6
  <2> QED BY <2>1, <1>4, <1>6 DEF A
<1> QED BY <1>5, <1>6

\* Scheduling never puts two entries for the same shard and time in the list.
LEMMA RescheduledKeyed ==
  ASSUME NEW B, NEW n \in Nat, NEW T \in SUBSET Nat, Ahead(B, n)
  PROVE  Keyed(Rescheduled(B, n, T))
<1> DEFINE A == ToSchedule(B, n, T)
           old == B \ UNION {FindLastBackup(B, s, "Pending") : s \in A}
           new == {Scheduled(s, n) : s \in A}
<1>1. Rescheduled(B, n, T) = old \cup new
  BY DEF Rescheduled
<1>2. \A b \in old : b \in B
  OBVIOUS
<1>3. A \in SUBSET Nat
  BY DEF ToSchedule
<1>4. ASSUME NEW b \in new
      PROVE  b.shard \in A /\ b.sched = n /\ b = Scheduled(b.shard, n)
  BY DEF Scheduled
<1>5. ASSUME NEW b \in old, NEW c \in new, b.shard = c.shard, b.sched = c.sched PROVE FALSE
  <2>1. b \in FindLastBackup(B, c.shard, "Pending") /\ c.shard \in A
    BY <1>2, <1>4, <1>5 DEF Ahead
  <2> QED BY <2>1, <1>5
<1> HIDE DEF old, new
<1>6. Keyed(old \cup new)
  <2>1. \A b \in old \cup new : b.shard \in Nat /\ b.sched \in Nat
    BY <1>2, <1>3, <1>4 DEF Ahead, Keyed
  <2>2. \A b, c \in old : b.shard = c.shard /\ b.sched = c.sched => b = c
    BY <1>2 DEF Ahead, Keyed
  <2>3. \A b, c \in new : b.shard = c.shard => b = c
    BY <1>4
  <2> QED BY <2>1, <2>2, <2>3, <1>5 DEF Keyed
<1> QED BY <1>1, <1>6

\* Scheduling one shard leaves the entries of the others alone.
LEMMA RescheduledOthers ==
  ASSUME NEW B, NEW n, NEW T, NEW s, s \notin T, NEW st
  PROVE  FindLastBackup(Rescheduled(B, n, T), s, st) = FindLastBackup(B, s, st)
<1> DEFINE C == Rescheduled(B, n, T)
           A == ToSchedule(B, n, T)
<1>1. \A b : b.shard = s => (b \in C <=> b \in B)
  <2> SUFFICES ASSUME NEW b, b.shard = s PROVE b \in C <=> b \in B
    OBVIOUS
  <2>1. s \notin A
    BY DEF ToSchedule
  <2>2. \A x \in A : b \notin FindLastBackup(B, x, "Pending")
    BY <2>1 DEF FindLastBackup
  <2>3. \A x \in A : b # Scheduled(x, n)
    BY <2>1 DEF Scheduled
  <2> QED BY <2>2, <2>3 DEF Rescheduled
<1> HIDE DEF C
<1>2. \A b : b \in FindLastBackup(C, s, st) <=> b \in FindLastBackup(B, s, st)
  BY <1>1 DEF FindLastBackup
<1> QED BY <1>2 DEF C

\* One round of the loop in reconcileBackupList, on the slice and on the set.
LEMMA ScheduleMakesSlice ==
  ASSUME NEW B, NEW n \in Nat, NEW T \in SUBSET Nat, NEW s \in Nat \ T, Ahead(B, n),
         NEW l, IsSlice(l, Rescheduled(B, n, T))
  PROVE  IsSlice(ScheduleShard(l, s, n), Rescheduled(B, n, T \cup {s}))
<1> DEFINE C == Rescheduled(B, n, T)
           D == Rescheduled(B, n, T \cup {s})
           pos == FindLast(l, s, "Pending")
           run == FindLast(l, s, "Running")
           new == Scheduled(s, n)
<1>1. Keyed(C) /\ Keyed(D)
  BY RescheduledKeyed
<1>2. /\ pos # 0 => pos \in 1 .. Len(l)
      /\ FindLastBackup(C, s, "Pending") = IF pos = 0 THEN {} ELSE {l[pos]}
      /\ FindLastBackup(C, s, "Running") = IF run = 0 THEN {} ELSE {l[run]}
  BY <1>1, FirstIsNewest
<1>3. /\ FindLastBackup(B, s, "Pending") = IF pos = 0 THEN {} ELSE {l[pos]}
      /\ FindLastBackup(B, s, "Running") = IF run = 0 THEN {} ELSE {l[run]}
  BY <1>2, RescheduledOthers
<1>4. s \in ToSchedule(B, n, {s}) <=> run = 0 /\ (pos = 0 \/ l[pos].sched # n)
  BY <1>3 DEF ToSchedule
<1>5. /\ s \in ToSchedule(B, n, {s}) => D = (C \ FindLastBackup(B, s, "Pending")) \cup {new}
      /\ s \notin ToSchedule(B, n, {s}) => D = C
  <2>1. s \notin T
    OBVIOUS
  <2> QED BY <2>1, RescheduledStep
<1>6. ScheduleShard(l, s, n) =
        IF run # 0 \/ (pos # 0 /\ l[pos].sched = n) THEN l
        ELSE AddBackup(IF pos = 0 THEN l ELSE DeleteBackup(l, pos), new)
  BY DEF ScheduleShard
<1>7. s \in ToSchedule(B, n, {s}) => new \notin C \ FindLastBackup(B, s, "Pending")
  <2> SUFFICES ASSUME s \in ToSchedule(B, n, {s}), new \in C PROVE FALSE
    BY DEF Ahead
  <2>1. new.shard = s /\ new.sched = n
    BY DEF Scheduled
  <2>2. new \in B
    <3>1. \A x \in ToSchedule(B, n, T) : x # s
      BY DEF ToSchedule
    <3>2. \A x \in ToSchedule(B, n, T) : new # Scheduled(x, n)
      BY <3>1 DEF Scheduled
    <3> QED BY <3>2 DEF Rescheduled
  <2>3. new \in FindLastBackup(B, s, "Pending")
    BY <2>1, <2>2 DEF Ahead
  <2> QED BY <2>1, <2>3 DEF ToSchedule
<1> HIDE DEF C, D, pos, run, new
<1>8. IsSlice(l, C)
  BY DEF C
<1>9. CASE s \notin ToSchedule(B, n, {s})
  <2>1. D = C /\ ScheduleShard(l, s, n) = l
    BY <1>4, <1>5, <1>6, <1>9
  <2> QED BY <2>1, <1>8 DEF D
<1>10. CASE s \in ToSchedule(B, n, {s}) /\ pos = 0
  <2>1. D = C \cup {new} /\ new \notin C
    BY <1>3, <1>5, <1>7, <1>10
  <2>2. ScheduleShard(l, s, n) = AddBackup(l, new)
    BY <1>4, <1>6, <1>10
  <2> QED BY <2>1, <2>2, <1>1, <1>8, AddMakesSlice DEF D
<1>11. CASE s \in ToSchedule(B, n, {s}) /\ pos # 0
  <2>1. D = (C \ {l[pos]}) \cup {new} /\ new \notin C \ {l[pos]}
    BY <1>3, <1>5, <1>7, <1>11
  <2>2. ScheduleShard(l, s, n) = AddBackup(DeleteBackup(l, pos), new)
    BY <1>4, <1>6, <1>11
  <2>3. IsSlice(DeleteBackup(l, pos), C \ {l[pos]})
    BY <1>1, <1>2, <1>8, <1>11, DeleteMakesSlice
  <2>4. IsSlice(AddBackup(DeleteBackup(l, pos), new), (C \ {l[pos]}) \cup {new})
    BY <2>1, <2>3, <1>1, AddMakesSlice
  <2> QED BY <2>1, <2>2, <2>4 DEF D
<1> QED BY <1>9, <1>10, <1>11

\* A set of numbers listed from the smallest to the largest.
LEMMA AscendingLists ==
  ASSUME NEW N \in SUBSET Nat, IsFiniteSet(N)
  PROVE  LET names == Ascending(N)
             n == Cardinality(N)
         IN  /\ n \in Nat /\ names \in [1 .. n -> N]
             /\ \A i, j \in 1 .. n : names[i] = names[j] => i = j
             /\ \A x \in N : \E i \in 1 .. n : names[i] = x
<1> DEFINE R == {p \in N \X N : p[1] < p[2]}
           names == InOrder(N, R)
           n == Cardinality(N)
<1>1. names = Ascending(N)
  BY DEF Ascending
<1>2. \A x, y \in N : <<x, y>> \in R <=> x < y
  OBVIOUS
<1> HIDE DEF R
<1>3. StrictOrder(N, R)
  BY <1>2 DEF StrictOrder
<1>4. Lists(names, n, N, R)
  BY <1>3, InOrderSorts
<1> HIDE DEF names, n
<1>5. ASSUME NEW i \in 1 .. n, NEW j \in 1 .. n, names[i] = names[j], i # j PROVE FALSE
  <2>1. n \in Nat /\ names[i] \in N
    BY <1>4 DEF Lists
  <2>2. <<names[i], names[i]>> \in R
    BY <2>1, <1>4, <1>5 DEF Lists
  <2> QED BY <2>1, <2>2, <1>3 DEF StrictOrder
<1> QED BY <1>1, <1>4, <1>5 DEF Lists, n

-----------------------------------------------------------------------------

\* The newer entries of a shard are those in front.
LEMMA SameRank ==
  ASSUME NEW B, Keyed(B), NEW l, IsSlice(l, B), NEW i \in 1 .. Len(l)
  PROVE  Cardinality({j \in 1 .. i - 1 : l[j].shard = l[i].shard})
           = Cardinality({c \in B : c.shard = l[i].shard /\ c.sched > l[i].sched})
<1> DEFINE J == {j \in 1 .. i - 1 : l[j].shard = l[i].shard}
           K == {c \in B : c.shard = l[i].shard /\ c.sched > l[i].sched}
           f == [j \in J |-> l[j]]
<1>1. /\ Len(l) \in Nat /\ l \in [1 .. Len(l) -> B]
      /\ \A j, k \in 1 .. Len(l) : l[j] = l[k] => j = k
  BY SliceElements
<1>2. \A j \in J : j \in 1 .. Len(l) /\ j < i
  BY <1>1
<1>3. ASSUME NEW j \in J PROVE l[j] \in K
  <2>1. l[j] \in B /\ l[i] \in B /\ Newer(l[j], l[i])
    BY <1>1, <1>2 DEF IsSlice
  <2> QED BY <2>1 DEF Newer, Less, Keyed
<1>4. ASSUME NEW c \in K PROVE \E j \in J : l[j] = c
  <2>1. PICK j \in 1 .. Len(l) : l[j] = c
    BY DEF IsSlice
  <2>2. j < i
    <3>1. l[i] \in B /\ c \in B /\ c.shard = l[i].shard /\ c.sched > l[i].sched
      BY <1>1
    <3>2. ~ Newer(l[i], c) /\ l[i] # c
      BY <3>1 DEF Newer, Less, Keyed
    <3>3. i < j => Newer(l[i], l[j])
      BY DEF IsSlice
    <3>4. i # j /\ ~ (i < j)
      BY <3>2, <3>3, <2>1
    <3> QED BY <3>4, <1>1
  <2>3. j \in J
    BY <2>1, <2>2
  <2> QED BY <2>1, <2>3
<1>5. f \in Bijection(J, K)
  <2>1. f \in [J -> K]
    BY <1>3
  <2>2. \A j, k \in J : f[j] = f[k] => j = k
    BY <1>1, <1>2
  <2>3. \A c \in K : \E j \in J : f[j] = c
    BY <1>4
  <2> HIDE DEF f, J, K
  <2> QED BY <2>1, <2>2, <2>3 DEF Bijection, Injection, Surjection, IsInjective
<1>6. IsFiniteSet(J)
  <2>1. IsFiniteSet(1 .. i - 1)
    BY FS_Interval
  <2>2. J \in SUBSET (1 .. i - 1)
    OBVIOUS
  <2> HIDE DEF J
  <2> QED BY <2>1, <2>2, FS_Subset
<1>7. Cardinality(J) = Cardinality(K)
  <2> HIDE DEF f, J, K
  <2>1. ExistsBijection(J, K)
    BY <1>5 DEF ExistsBijection
  <2> QED BY <1>6, <2>1, FS_Bijection
<1> QED BY <1>7

\* ApplyHistoryLimit on the slice (count from the front) keeps the entries that
\* the definition on the set keeps (count the newer ones).
LEMMA LimitMakesSlice ==
  ASSUME NEW B, Keyed(B), NEW l, IsSlice(l, B), NEW limit \in Nat, NEW shards
  PROVE  IsSlice(LimitHistory(l, limit, shards), ApplyHistoryLimit(B, limit, shards))
<1> DEFINE kept == {i \in 1 .. Len(l) :
                     /\ l[i].shard \in shards
                     /\ Cardinality({j \in 1 .. i - 1 : l[j].shard = l[i].shard}) < limit}
           from == Ascending(kept)
           n == Cardinality(kept)
           m == [k \in 1 .. n |-> l[from[k]]]
           D == ApplyHistoryLimit(B, limit, shards)
<1>1. LimitHistory(l, limit, shards) = SortReverse(m)
  BY DEF LimitHistory
<1>2. /\ Len(l) \in Nat /\ l \in [1 .. Len(l) -> B]
      /\ \A j, k \in 1 .. Len(l) : l[j] = l[k] => j = k
  BY SliceElements
<1>3. ASSUME NEW i \in 1 .. Len(l) PROVE i \in kept <=> l[i] \in D
  <2>1. Cardinality({j \in 1 .. i - 1 : l[j].shard = l[i].shard})
          = Cardinality({c \in B : c.shard = l[i].shard /\ c.sched > l[i].sched})
    BY SameRank
  <2>2. l[i] \in B
    BY <1>2
  <2> QED BY <2>1, <2>2 DEF ApplyHistoryLimit
<1>4. kept \in SUBSET (1 .. Len(l))
  OBVIOUS
<1>5. D \in SUBSET B
  BY DEF ApplyHistoryLimit
<1> HIDE DEF kept, D
<1>6. IsFiniteSet(kept) /\ kept \in SUBSET Nat
  <2>1. IsFiniteSet(1 .. Len(l))
    BY <1>2, FS_Interval
  <2>2. IsFiniteSet(kept)
    BY <2>1, <1>4, FS_Subset
  <2> QED BY <2>2, <1>2, <1>4
<1>7. /\ n \in Nat /\ from \in [1 .. n -> kept]
      /\ \A i, j \in 1 .. n : from[i] = from[j] => i = j
      /\ \A x \in kept : \E i \in 1 .. n : from[i] = x
  BY <1>6, AscendingLists
<1> HIDE DEF from, n
<1>8. \A k \in 1 .. n : m[k] = l[from[k]] /\ from[k] \in 1 .. Len(l) /\ m[k] \in D
  BY <1>3, <1>4, <1>7
<1>9. m \in Seq(D) /\ Len(m) = n
  <2>1. m \in [1 .. n -> D]
    BY <1>8
  <2> HIDE DEF m
  <2> QED BY <2>1, <1>7
<1> HIDE DEF m
<1>10. \A i, j \in 1 .. Len(m) : m[i] = m[j] => i = j
  BY <1>2, <1>7, <1>8, <1>9
<1>11. ASSUME NEW b \in D PROVE \E k \in 1 .. Len(m) : m[k] = b
  <2>1. PICK i \in 1 .. Len(l) : l[i] = b
    BY <1>5 DEF IsSlice
  <2>2. PICK k \in 1 .. n : from[k] = i
    BY <2>1, <1>3, <1>7
  <2> QED BY <2>1, <2>2, <1>8, <1>9
<1>12. Keyed(D)
  BY <1>5 DEF Keyed
<1>13. IsSlice(SortReverse(m), D)
  BY <1>9, <1>10, <1>11, <1>12, SortMakesSlice
<1> QED BY <1>1, <1>13 DEF D

-----------------------------------------------------------------------------
(* The loop of reconcileBackupList.                                        *)

\* f holds the list after each of the first m shards.
Looped(f, m, l, names, n) ==
  f = [i \in 0 .. m |-> IF i = 0 THEN l ELSE ScheduleShard(f[i - 1], names[i], n)]

\* The recursive definition of the loop has a solution.
LEMMA LoopDefined ==
  ASSUME NEW N \in Nat, NEW l, NEW names, NEW n
  PROVE  \E f : Looped(f, N, l, names, n)
<1> DEFINE bad == {m \in Nat : ~ \E f : Looped(f, m, l, names, n)}
<1> SUFFICES ASSUME bad # {} PROVE FALSE
  OBVIOUS
<1>1. PICK m \in bad : \A q \in bad : m =< q
  <2>1. bad \in SUBSET Nat
    OBVIOUS
  <2> HIDE DEF bad
  <2> QED BY <2>1, SmallestServer
<1>2. CASE m = 0
  <2> DEFINE f == [i \in 0 .. 0 |-> l]
  <2>1. \A i \in 0 .. 0 : i = 0
    OBVIOUS
  <2>2. Looped(f, 0, l, names, n)
    BY <2>1 DEF Looped
  <2> QED BY <2>2, <1>2
<1>3. CASE m # 0
  <2>1. m - 1 \in Nat /\ m - 1 \notin bad
    BY <1>1, <1>3
  <2>2. PICK f : Looped(f, m - 1, l, names, n)
    BY <2>1
  <2> DEFINE F(g, i) == IF i = 0 THEN l ELSE ScheduleShard(g[i - 1], names[i], n)
             h == [i \in 0 .. m |-> IF i = m THEN ScheduleShard(f[m - 1], names[m], n) ELSE f[i]]
  <2>3. ASSUME NEW i \in 0 .. m PROVE h[i] = F(h, i)
    <3>1. CASE i = m
      <4>1. h[i - 1] = f[m - 1]
        BY <3>1, <2>1, <1>3
      <4> QED BY <4>1, <3>1, <1>3
    <3>2. CASE i # m
      <4>1. i \in 0 .. m - 1 /\ h[i] = f[i]
        BY <3>2, <2>1
      <4>2. f[i] = F(f, i)
        BY <4>1, <2>2 DEF Looped
      <4>3. i # 0 => h[i - 1] = f[i - 1]
        BY <4>1, <2>1
      <4> QED BY <4>1, <4>2, <4>3
    <3> QED BY <3>1, <3>2
  <2>4. h = [i \in 0 .. m |-> F(h, i)]
    BY <2>3
  <2>5. Looped(h, m, l, names, n)
    BY <2>4 DEF Looped
  <2> QED BY <2>5
<1> QED BY <1>2, <1>3

\* The first i of the names.
FirstOf(names, i) == {names[j] : j \in 1 .. i}

\* After each shard of the loop the slice holds the entries rescheduled so far.
LEMMA LoopMakesSlices ==
  ASSUME NEW B, NEW n \in Nat, Ahead(B, n), NEW N \in Nat, NEW names \in [1 .. N -> Nat],
         \A i, j \in 1 .. N : names[i] = names[j] => i = j,
         NEW l, IsSlice(l, B), NEW f, Looped(f, N, l, names, n)
  PROVE  \A i \in 0 .. N : IsSlice(f[i], Rescheduled(B, n, FirstOf(names, i)))
<1> DEFINE T(i) == FirstOf(names, i)
           bad == {i \in 0 .. N : ~ IsSlice(f[i], Rescheduled(B, n, T(i)))}
<1> SUFFICES ASSUME bad # {} PROVE FALSE
  OBVIOUS
<1>1. PICK m \in bad : \A q \in bad : m =< q
  <2>1. bad \in SUBSET Nat
    OBVIOUS
  <2> HIDE DEF bad
  <2> QED BY <2>1, SmallestServer
<1>2. \A i \in 0 .. N : f[i] = IF i = 0 THEN l ELSE ScheduleShard(f[i - 1], names[i], n)
  BY DEF Looped
<1>3. CASE m = 0
  <2>1. T(0) = {} /\ f[0] = l
    BY <1>2 DEF FirstOf
  <2>2. Rescheduled(B, n, {}) = B
    BY DEF Rescheduled, ToSchedule
  <2> QED BY <2>1, <2>2, <1>3
<1>4. CASE m # 0
  <2>1. m \in 1 .. N /\ m - 1 \in 0 .. N /\ m - 1 \notin bad
    BY <1>1, <1>4
  <2>2. IsSlice(f[m - 1], Rescheduled(B, n, T(m - 1)))
    BY <2>1
  <2>3. T(m) = T(m - 1) \cup {names[m]}
    BY <2>1 DEF FirstOf
  <2>4. T(m - 1) \in SUBSET Nat /\ names[m] \in Nat \ T(m - 1)
    BY <2>1 DEF FirstOf
  <2>5. f[m] = ScheduleShard(f[m - 1], names[m], n)
    BY <2>1, <1>2, <1>4
  <2> HIDE DEF T
  <2>6. IsSlice(ScheduleShard(f[m - 1], names[m], n), Rescheduled(B, n, T(m - 1) \cup {names[m]}))
    BY <2>2, <2>4, ScheduleMakesSlice
  <2> QED BY <2>3, <2>5, <2>6 DEF T
<1> QED BY <1>3, <1>4

\* A slice has finitely many entries.
LEMMA SliceFinite ==
  ASSUME NEW B, Keyed(B), NEW l, IsSlice(l, B)
  PROVE  IsFiniteSet(B)
<1>1. Len(l) \in Nat /\ l \in [1 .. Len(l) -> B]
  BY SliceElements
<1>2. l \in Surjection(1 .. Len(l), B)
  BY <1>1 DEF IsSlice, Surjection
<1>3. IsFiniteSet(1 .. Len(l))
  BY <1>1, FS_Interval
<1> QED BY <1>2, <1>3, FS_Surjection

\* The loop and the limit.
LEMMA ReconcileMakesSlice ==
  ASSUME NEW B, NEW n \in Nat, Ahead(B, n), NEW l, IsSlice(l, B),
         NEW shards \in SUBSET Nat, IsFiniteSet(shards), NEW limit \in Nat
  PROVE  IsSlice(ReconcileList(l, n, shards, limit), ReconcileBackupList(B, n, shards, limit))
<1> DEFINE N == Cardinality(shards)
           names == Ascending(shards)
           f == CHOOSE g : Looped(g, N, l, names, n)
           C == Rescheduled(B, n, shards)
<1>1. ReconcileList(l, n, shards, limit) = LimitHistory(f[N], limit, shards)
  BY DEF ReconcileList, Looped
<1>2. /\ N \in Nat /\ names \in [1 .. N -> shards]
      /\ \A i, j \in 1 .. N : names[i] = names[j] => i = j
      /\ \A s \in shards : \E i \in 1 .. N : names[i] = s
  BY AscendingLists
<1>3. FirstOf(names, N) = shards
  <2> HIDE DEF N, names
  <2>1. \A i \in 1 .. N : names[i] \in shards
    BY <1>2
  <2>2. ASSUME NEW s \in shards PROVE s \in FirstOf(names, N)
    <3>1. PICK i \in 1 .. N : names[i] = s
      BY <1>2
    <3> QED BY <3>1 DEF FirstOf
  <2>3. ASSUME NEW s \in FirstOf(names, N) PROVE s \in shards
    BY <2>1 DEF FirstOf
  <2> QED BY <2>2, <2>3
<1>4. Looped(f, N, l, names, n)
  <2> HIDE DEF N, names
  <2>1. \E g : Looped(g, N, l, names, n)
    BY <1>2, LoopDefined
  <2> QED BY <2>1
<1> HIDE DEF f, N, names
<1>5. IsSlice(f[N], Rescheduled(B, n, FirstOf(names, N)))
  <2>1. names \in [1 .. N -> Nat]
    BY <1>2
  <2>2. \A i \in 0 .. N : IsSlice(f[i], Rescheduled(B, n, FirstOf(names, i)))
    BY <1>2, <1>4, <2>1, LoopMakesSlices
  <2>3. N \in 0 .. N
    BY <1>2
  <2> QED BY <2>2, <2>3
<1>6. IsSlice(f[N], C)
  BY <1>3, <1>5
<1>7. Keyed(C)
  BY RescheduledKeyed
<1>8. ReconcileBackupList(B, n, shards, limit) = ApplyHistoryLimit(C, limit, shards)
  BY DEF ReconcileBackupList, Rescheduled
<1> HIDE DEF C
<1>9. IsSlice(LimitHistory(f[N], limit, shards), ApplyHistoryLimit(C, limit, shards))
  BY <1>6, <1>7, LimitMakesSlice
<1> QED BY <1>1, <1>8, <1>9

\* The slice algorithms of reconcileBackupList (sort, first match, loop over
\* the shards, limit per shard) compute what BackupHistory says on the set of
\* the entries, for any finite list without two entries for the same shard and
\* time in which an entry for the next run is the pending one of its shard.
THEOREM SlicesAgree ==
  ASSUME NEW B, IsFiniteSet(B), NEW n \in Nat, Ahead(B, n),
         NEW shards \in SUBSET Nat, IsFiniteSet(shards), NEW limit \in Nat
  PROVE  SliceAgrees(B, n, shards, limit)
<1> DEFINE l == SliceOf(B)
           D == ReconcileBackupList(B, n, shards, limit)
           m == ReconcileList(l, n, shards, limit)
<1>1. Keyed(B) /\ IsSlice(l, B)
  BY SliceOfIsSlice DEF Ahead
<1>2. \A s, st : LET pos == FindLast(l, s, st)
                 IN  FindLastBackup(B, s, st) = IF pos = 0 THEN {} ELSE {l[pos]}
  BY <1>1, FirstIsNewest
<1>3. IsSlice(m, D)
  BY <1>1, ReconcileMakesSlice
<1>4. Keyed(D)
  <2>1. D = ApplyHistoryLimit(Rescheduled(B, n, shards), limit, shards)
    BY DEF ReconcileBackupList, Rescheduled
  <2>2. Keyed(Rescheduled(B, n, shards))
    BY RescheduledKeyed
  <2> QED BY <2>1, <2>2 DEF ApplyHistoryLimit, Keyed
<1> HIDE DEF D, m
<1>5. m = SliceOf(D)
  BY <1>3, <1>4, SliceFinite, SliceIsSliceOf
<1> QED BY <1>2, <1>5 DEF SliceAgrees, m, D

\* The image of a finite set is finite.
LEMMA ImageFinite ==
  ASSUME NEW S, IsFiniteSet(S), NEW f, NEW T, \A y \in T : \E x \in S : f[x] = y
  PROVE  IsFiniteSet(T)
<1> DEFINE U == {x \in S : f[x] \in T}
           g == [x \in U |-> f[x]]
<1>1. U \in SUBSET S
  OBVIOUS
<1>2. g \in Surjection(U, T)
  <2>1. g \in [U -> T]
    OBVIOUS
  <2>2. \A y \in T : \E x \in U : g[x] = y
    OBVIOUS
  <2> HIDE DEF g, U
  <2> QED BY <2>1, <2>2 DEF Surjection
<1> HIDE DEF g, U
<1>3. IsFiniteSet(U)
  BY <1>1, FS_Subset
<1> QED BY <1>2, <1>3, FS_Surjection

\* The lists of the controller have finitely many entries.
FiniteLists ==
  IsFiniteSet(api.backups) /\ IsFiniteSet(cache.backups) /\ IsFiniteSet(write.backups)

\* The phases of Reconcile keep a finite list finite.
LEMMA PhasesFinite ==
  ASSUME TypeOK, IsFiniteSet(Shards), IsFiniteSet(cache.backups)
  PROVE  IsFiniteSet(Phase2List) /\ IsFiniteSet(AfterPhase3) /\ IsFiniteSet(AfterPhase4)
<1> DEFINE B == cache.backups
           n == NextRun(cache.cron, now)
<1>1. IsFiniteSet(Phase2List)
  <2> DEFINE f == [b \in B |-> Started(b)]
             T == {Started(b) : b \in Startable}
  <2>1. Startable \in SUBSET B
    BY StartableFacts
  <2>2. \A y \in T : \E b \in B : f[b] = y
    BY <2>1
  <2> HIDE DEF f, T
  <2>3. IsFiniteSet(T)
    BY <2>2, ImageFinite
  <2>4. IsFiniteSet(B \ Startable)
    BY FS_Subset
  <2> QED BY <2>3, <2>4, FS_Union DEF Phase2List, T
<1>2. IsFiniteSet(AfterPhase3)
  <2> DEFINE f == [b \in B |-> IF b.state = "Running" THEN Observed(b) ELSE b]
  <2>1. \A y \in AfterPhase3 : \E b \in B : f[b] = y
    BY DEF AfterPhase3
  <2> HIDE DEF f
  <2> QED BY <2>1, ImageFinite
<1>3. IsFiniteSet(AfterPhase4)
  <2> DEFINE f == [s \in Shards |-> Scheduled(s, n)]
             T == {Scheduled(s, n) : s \in ToSchedule(B, n, cluster.shards)}
  <2>1. ToSchedule(B, n, cluster.shards) \in SUBSET Shards
    BY TopologyAssumption DEF ToSchedule, TypeOK
  <2>2. \A y \in T : \E s \in Shards : f[s] = y
    BY <2>1
  <2>3. AfterPhase4 \in SUBSET (B \cup T)
    BY ReconcileElements DEF AfterPhase4
  <2> HIDE DEF f, T
  <2>4. IsFiniteSet(T)
    BY <2>2, ImageFinite
  <2> QED BY <2>3, <2>4, FS_Union, FS_Subset
<1> QED BY <1>1, <1>2, <1>3

\* Every step keeps the stored, the cached and the outgoing list finite.
LEMMA NextFinite ==
  ASSUME TypeOK, IsFiniteSet(Shards), FiniteLists, [Next]_vars
  PROVE  FiniteLists'
<1>1. IsFiniteSet({}) /\ IsFiniteSet(NoWrite.backups)
  BY FS_EmptySet DEF NoWrite
<1>2. CASE Reconcile
  <2>1. /\ UNCHANGED <<api, cache>>
        /\ write'.backups \in {write.backups, {}, Phase2List, AfterPhase3, AfterPhase4}
    BY <1>2, ReconcileWrites
  <2> QED BY <2>1, <1>1, PhasesFinite DEF FiniteLists
<1>3. CASE ~Reconcile
  <2>1. /\ write'.backups \in {write.backups, NoWrite.backups}
        /\ cache'.backups \in {cache.backups, api.backups}
        /\ api'.backups \in {api.backups, {}, write.backups}
    BY <1>3, OtherSteps
  <2> QED BY <2>1, <1>1 DEF FiniteLists
<1> QED BY <1>2, <1>3

\* A list that is sound now is in order for a time to come.
LEMMA SoundAhead ==
  ASSUME Shards \in SUBSET Nat, NEW B \in SUBSET BackupStatus, NEW t \in Nat, Sound(B, t),
         NEW n \in Nat, t =< n
  PROVE  Ahead(B, n)
<1>1. \A b \in B : b.shard \in Nat /\ b.sched \in Nat
  BY DEF BackupStatus
<1>2. Keyed(B)
  BY <1>1 DEF Keyed, Sound
<1>3. ASSUME NEW b \in B, b.sched = n PROVE b \in FindLastBackup(B, b.shard, "Pending")
  <2>1. b.state = "Pending"
    BY <1>1, <1>3 DEF Sound
  <2>2. \A c \in B : c.shard = b.shard /\ c.state = "Pending" => c = b
    BY <2>1 DEF Sound, OneOpenIn, OpenStates
  <2> QED BY <1>1, <2>1, <2>2 DEF FindLastBackup
<1> QED BY <1>2, <1>3 DEF Ahead

From(x, B, d) ==
  \E b \in B : /\ x = [b EXCEPT !.shard = 2 * @ + d]
               /\ x.shard = 2 * b.shard + d /\ x.sched = b.sched /\ x.state = b.state

\* A relabelled entry: another shard, and all else as it was.
LEMMA RelabelledElements ==
  ASSUME NEW B \in SUBSET BackupStatus, NEW d, NEW x \in Relabelled(B, d)
  PROVE  From(x, B, d)
<1>1. PICK b \in B : x = [b EXCEPT !.shard = 2 * @ + d]
  BY DEF Relabelled
<1>2. b \in BackupStatus
  OBVIOUS
<1>3. x.shard = 2 * b.shard + d /\ x.sched = b.sched /\ x.state = b.state
  BY <1>1, <1>2 DEF BackupStatus
<1> QED BY <1>1, <1>3 DEF From

\* Relabelling takes no order away, and the two copies share no shard.
LEMMA BothAhead ==
  ASSUME Shards \in SUBSET Nat, NEW A \in SUBSET BackupStatus, NEW B \in SUBSET BackupStatus,
         NEW t \in Nat, Sound(A, t), Sound(B, t), NEW n \in Nat, t =< n
  PROVE  Ahead(Relabelled(A, 0) \cup Relabelled(B, 1), n)
<1> DEFINE C == Relabelled(A, 0) \cup Relabelled(B, 1)
<1>1. \A b \in A \cup B : b.shard \in Nat /\ b.sched \in Nat
  BY DEF BackupStatus
<1>2. ASSUME NEW x \in C PROVE From(x, A, 0) \/ From(x, B, 1)
  BY RelabelledElements
<1> USE DEF From
<1>3. \A x \in C : x.shard \in Nat /\ x.sched \in Nat
  BY <1>1, <1>2
<1>4. ASSUME NEW x \in C, NEW y \in C, x.shard = y.shard,
             x.sched = y.sched \/ (x.state \in OpenStates /\ y.state \in OpenStates)
      PROVE  x = y
  <2>1. CASE From(x, A, 0) /\ From(y, A, 0)
    BY <1>1, <1>4, <2>1 DEF Sound, OneOpenIn
  <2>2. CASE From(x, B, 1) /\ From(y, B, 1)
    BY <1>1, <1>4, <2>2 DEF Sound, OneOpenIn
  <2>3. \A i, j \in Nat : 2 * i + 0 # 2 * j + 1
    OBVIOUS
  <2>4. ~ (From(x, A, 0) /\ From(y, B, 1)) /\ ~ (From(x, B, 1) /\ From(y, A, 0))
    BY <1>1, <1>4, <2>3
  <2> QED BY <1>2, <2>1, <2>2, <2>4
<1>5. ASSUME NEW x \in C, x.sched = n PROVE x.state = "Pending"
  <2>1. PICK b \in A \cup B : b.sched = n /\ x.state = b.state
    BY <1>2, <1>5
  <2> QED BY <1>1, <2>1 DEF Sound
<1> HIDE DEF C
<1>6. Keyed(C)
  BY <1>3, <1>4 DEF Keyed
<1>7. ASSUME NEW x \in C, x.sched = n PROVE x \in FindLastBackup(C, x.shard, "Pending")
  <2>1. x.state = "Pending"
    BY <1>5, <1>7
  <2>2. \A c \in C : c.shard = x.shard /\ c.state = "Pending" => c = x
    BY <1>4, <2>1 DEF OpenStates
  <2> QED BY <1>3, <2>1, <2>2 DEF FindLastBackup
<1>8. Ahead(C, n)
  BY <1>6, <1>7 DEF Ahead
<1> QED BY <1>8 DEF C

\* In a state of the inductive invariant the slice algorithms agree with the
\* definitions on sets.
LEMMA ListsAgreeNow ==
  ASSUME Shards \in SUBSET Nat, IsFiniteSet(Shards), TypeOK, StatusInv, FiniteLists
  PROVE  ListAgrees
<1> DEFINE A == Relabelled(api.backups, 0)
           B == Relabelled(cache.backups, 1)
           n == NextRun(cache.cron, now)
<1>1. n \in Nat /\ now \in Nat /\ now =< n
  BY NextRunType, NumbersAssumption DEF TypeOK, Resources, Times
<1>2. Ahead(A \cup B, n)
  BY <1>1, BothAhead DEF TypeOK, Resources, StatusInv
<1>3. IsFiniteSet(A \cup B)
  <2>1. IsFiniteSet(A)
    <3> DEFINE f == [b \in api.backups |-> [b EXCEPT !.shard = 2 * @ + 0]]
    <3>1. \A y \in A : \E b \in api.backups : f[b] = y
      BY DEF Relabelled
    <3> HIDE DEF f, A
    <3> QED BY <3>1, ImageFinite DEF FiniteLists
  <2>2. IsFiniteSet(B)
    <3> DEFINE f == [b \in cache.backups |-> [b EXCEPT !.shard = 2 * @ + 1]]
    <3>1. \A y \in B : \E b \in cache.backups : f[b] = y
      BY DEF Relabelled
    <3> HIDE DEF f, B
    <3> QED BY <3>1, ImageFinite DEF FiniteLists
  <2> QED BY <2>1, <2>2, FS_Union
<1>4. ASSUME NEW D \in SUBSET (0 .. 1)
      PROVE  Labels(D) \in SUBSET Nat /\ IsFiniteSet(Labels(D))
  <2> DEFINE even == {2 * s + 0 : s \in Shards}
             odd  == {2 * s + 1 : s \in Shards}
             f == [s \in Shards |-> 2 * s + 0]
             g == [s \in Shards |-> 2 * s + 1]
  <2>1. Labels(D) \in SUBSET (even \cup odd) /\ Labels(D) \in SUBSET Nat
    <3>1. \A d \in 0 .. 1 : d = 0 \/ d = 1
      OBVIOUS
    <3>2. cluster.shards \in SUBSET Shards
      BY TopologyAssumption DEF TypeOK
    <3>3. \A x \in Labels(D) : \E s \in Shards : x = 2 * s + 0 \/ x = 2 * s + 1
      <4> SUFFICES ASSUME NEW x \in Labels(D)
                   PROVE  \E s \in Shards : x = 2 * s + 0 \/ x = 2 * s + 1
        OBVIOUS
      <4>1. PICK s \in cluster.shards, d \in D : x = 2 * s + d
        BY DEF Labels
      <4> QED BY <3>1, <3>2, <4>1
    <3> QED BY <3>3
  <2>2. /\ \A y \in even : \E s \in Shards : f[s] = y
        /\ \A y \in odd : \E s \in Shards : g[s] = y
    OBVIOUS
  <2> HIDE DEF even, odd, f, g
  <2>3. IsFiniteSet(even) /\ IsFiniteSet(odd)
    BY <2>2, ImageFinite
  <2> QED BY <2>1, <2>3, FS_Union, FS_Subset
<1> HIDE DEF A, B, n
<1>5. ASSUME NEW D \in SUBSET (0 .. 1)
      PROVE  SliceAgrees(A \cup B, n, Labels(D), HistoryLimit)
  BY <1>1, <1>2, <1>3, <1>4, NumbersAssumption, SlicesAgree
<1> QED BY <1>5 DEF ListAgrees, A, B, n

\* Every list the controller ever stores or reads is such a list, so the model's
\* sets stand for the code's slices in every state it reaches, for any finite
\* number of shards.
THEOREM ListsAgree ==
  Shards \in SUBSET Nat /\ IsFiniteSet(Shards) => (Spec => []ListAgrees)
<1> SUFFICES ASSUME Shards \in SUBSET Nat, IsFiniteSet(Shards)
             PROVE  Spec => []ListAgrees
  OBVIOUS
<1>1. Init => TypeOK /\ StatusInv /\ FiniteLists
  BY InitType, InitStatus, FS_EmptySet DEF Init, NoWrite, FiniteLists
<1>2. TypeOK /\ StatusInv /\ FiniteLists /\ [Next]_vars
        => (TypeOK /\ StatusInv /\ FiniteLists)'
  BY NextType, NextStatus, NextFinite
<1>3. TypeOK /\ StatusInv /\ FiniteLists => ListAgrees
  BY ListsAgreeNow
<1> QED BY <1>1, <1>2, <1>3, PTL DEF Spec
=============================================================================
