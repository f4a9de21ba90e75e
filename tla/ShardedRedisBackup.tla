------------------------- MODULE ShardedRedisBackup -------------------------
(***************************************************************************)
(* The ShardedRedisBackup controller: one custom resource in the API, the  *)
(* informer cache that lags behind it, the work queue with its single      *)
(* worker, the map of backup runners (threads.Manager) and the runners     *)
(* themselves, the redis topology as the Sentinel status reports it, the   *)
(* clock, and a failing environment (conflicts, lost replies, operator     *)
(* restarts, failovers, edits and deletion of the resource).               *)
(*                                                                         *)
(* A call of Reconcile is one action up to its write to the API, and the   *)
(* write is a second one: between the two the API, the runners and the     *)
(* environment move on.  Time is counted in units of the schedule.         *)
(* Instant n stands for the moments just before the n-th unit ends: a run  *)
(* scheduled for n is still ahead at n and is due from n + 1 on, since     *)
(* time.Now() never falls on the very nanosecond of a run.                 *)
(***************************************************************************)
EXTENDS BackupHistory

CONSTANTS
  Topologies,    \* what the Sentinel status may report: see TopologyAssumption
  InitTopology,  \* the one it reports first
  HistoryLimit,  \* spec.historyLimit
  Timeout,       \* spec.timeout
  RetryDelay,    \* the minute after which a shard without RO slaves is retried
  Crons,         \* the values spec.schedule takes
  InitCron,      \* the first one
  NextRun(_, _), \* the next run of a schedule after a time
  MaxTime,       \* bound: last instant of the clock
  Scenarios      \* bound: how many outside events of each kind may come together

EventKinds == {"writeError", "pause", "schedule", "delete", "topology",
               "restart"}

ASSUME TopologyAssumption ==
  /\ InitTopology \in Topologies
  /\ Topologies \subseteq [shards : SUBSET Shards,
                           ro : [Shards -> SUBSET Servers],
                           members : SUBSET Servers]
  /\ \A c \in Topologies : \A s \in Shards : c.ro[s] \subseteq c.members

ASSUME NumbersAssumption ==
  /\ HistoryLimit \in Nat
  /\ Timeout \in Nat
  /\ RetryDelay \in Nat
  /\ MaxTime \in Nat
  /\ Scenarios \subseteq [EventKinds -> Nat]

ASSUME NextRunAssumption ==
  /\ InitCron \in Crons
  /\ \A c \in Crons : \A t \in 0 .. MaxTime : NextRun(c, t) \in Nat /\ NextRun(c, t) >= t

VARIABLES
  now,           \* the wall clock
  api,           \* the resource as the API server stores it
  cache,         \* the resource as the informer cache shows it
  queued,        \* a request for the resource waits in the work queue
  wake,          \* the delayed request (AddAfter), a set of at most one time
  write,         \* the write Reconcile is about to send, or NoWrite
  cluster,       \* the topology in the Sentinel status
  aliased,       \* the server pool holds the aliases of the servers
  threads,       \* keys of threads.Manager's map
  runner,        \* the backup runner last started for each key
  events         \* number of outside events of each kind so far

vars == <<now, api, cache, queued, wake, write, cluster, aliased,
          threads, runner, events>>

Times  == 0 .. MaxTime
Scheds == {NextRun(c, t) : c \in Crons, t \in Times}

\* The ID of a runner: shard, alias of the server, and scheduled time.  A
\* server without an alias is called by its host:port.
Keys == [shard : Shards, server : Servers, aliased : BOOLEAN, sched : Scheds]

\* The stored resource, rv being its resourceVersion.
Resources ==
  [exists : BOOLEAN, deleting : BOOLEAN, finalizer : BOOLEAN, pause : BOOLEAN,
   cron : Crons, rv : Nat, backups : SUBSET BackupStatus]

\* none, running; finished with the other fields of the status not yet set
\* (tornOk, tornErr); finished (done, failed); gone with the process (killed).
RunnerStates == {"none", "running", "tornOk", "tornErr", "done", "failed", "killed"}
Runners == [st : RunnerStates, ts : Nat, starts : Nat]

NotStarted == [st |-> "none", ts |-> 0, starts |-> 0]
NoWrite    == [kind |-> "none", rv |-> 0, backups |-> {}]
Writes     == [kind : {"none", "init", "finalize", "status"}, rv : Nat,
               backups : SUBSET BackupStatus]

-----------------------------------------------------------------------------
(* The runners: package internal/pkg/redis/backup.                         *)

\* Thread map lookups made with the alias the pool holds at that moment.
KeyOf(b, server) ==
  [shard |-> b.shard, server |-> server, aliased |-> aliased, sched |-> b.sched]

\* status.Finished, and what Reconcile concludes from the other fields.
Finished(k) == runner[k].st \in {"tornOk", "tornErr", "done", "failed"}
SeenState(k) == IF runner[k].st = "failed" THEN "Failed" ELSE "Completed"
SeenLocated(k) == runner[k].st = "done"

\* Mutant: one timeout instead of two.
CanBeDeletedAfterOneTimeout(k) == now - runner[k].ts >= Timeout

CanBeDeleted(k) == now - runner[k].ts > 2 * Timeout

\* The worker goroutine saves, uploads and checks, or fails on the way, and
\* the control goroutine takes note: status.Finished first.
WorkerEnds(k) ==
  /\ runner[k].st = "running"
  /\ \E st \in {"tornOk", "tornErr"} : runner' = [runner EXCEPT ![k].st = st]
  /\ UNCHANGED <<now, api, cache, queued, wake, write, cluster, aliased, threads, events>>

\* The timer of the control goroutine fires.
RunnerTimesOut(k) ==
  /\ runner[k].st = "running"
  /\ now >= runner[k].ts + Timeout
  /\ runner' = [runner EXCEPT ![k].st = "tornErr"]
  /\ UNCHANGED <<now, api, cache, queued, wake, write, cluster, aliased, threads, events>>

\* Mutant: the status is complete but no event is sent.
RunnerPublishesSilently(k) ==
  /\ runner[k].st \in {"tornOk", "tornErr"}
  /\ runner' = [runner EXCEPT ![k].st = IF @ = "tornOk" THEN "done" ELSE "failed"]
  /\ UNCHANGED <<now, api, cache, queued, wake, write, cluster, aliased, threads, events>>

\* The rest of the status is set and the event sent to the controller.
RunnerPublishes(k) ==
  /\ runner[k].st \in {"tornOk", "tornErr"}
  /\ runner' = [runner EXCEPT ![k].st = IF @ = "tornOk" THEN "done" ELSE "failed"]
  /\ queued' = TRUE
  /\ UNCHANGED <<now, api, cache, wake, write, cluster, aliased, threads, events>>

\* Mutant: a thread that is in the map is started again.
StartAgain(K) ==
  runner' = [k \in Keys |->
               IF k \in K
               THEN [st |-> "running", ts |-> now, starts |-> runner[k].starts + 1]
               ELSE runner[k]]

\* threads.Manager.ReconcileThreads: start what is not in the map, then drop
\* what is neither wanted nor young.
Start(K) ==
  runner' = [k \in Keys |->
               IF k \in K \ threads
               THEN [st |-> "running", ts |-> now, starts |-> runner[k].starts + 1]
               ELSE runner[k]]

ReconcileThreads(K) ==
  /\ Start(K)
  /\ threads' = K \cup {k \in threads : ~CanBeDeleted(k)}

-----------------------------------------------------------------------------
(* Reconcile.                                                              *)

\* The worker takes the request off the queue; it holds no other one.
TakeRequest == write = NoWrite /\ queued /\ queued' = FALSE

\* Returning RequeueAfter: the delaying queue keeps the earlier time.
AddAfter(t) ==
  wake' = IF \E w \in wake : w =< t THEN wake ELSE {t}

\* Mutant: the resourceVersion is fetched anew before the update.
StatusUpdateForced(B) == write' = [kind |-> "status", rv |-> api.rv, backups |-> B]

StatusUpdate(B) == write' = [kind |-> "status", rv |-> cache.rv, backups |-> B]

\* Phase 1 ends early: no such resource, or deleted with no finalizer left.
ReconcileGone ==
  /\ TakeRequest
  /\ ~cache.exists \/ (cache.deleting /\ ~cache.finalizer)
  /\ UNCHANGED <<now, api, cache, wake, write, cluster, aliased, threads, runner, events>>

\* Mutant: the finalizer is removed and the runners are left alone.
FinalizeWithoutCleanup ==
  /\ TakeRequest
  /\ cache.exists /\ cache.deleting /\ cache.finalizer
  /\ write' = [kind |-> "finalize", rv |-> cache.rv, backups |-> {}]
  /\ UNCHANGED <<now, api, cache, wake, cluster, aliased, threads, runner, events>>

\* Phase 1, deletion: CleanupThreads, then remove the finalizer.
Finalize ==
  /\ TakeRequest
  /\ cache.exists /\ cache.deleting /\ cache.finalizer
  /\ threads' = {}
  /\ write' = [kind |-> "finalize", rv |-> cache.rv, backups |-> {}]
  /\ UNCHANGED <<now, api, cache, wake, cluster, aliased, runner, events>>

\* Phase 1, first sight: add the finalizer.
Initialize ==
  /\ TakeRequest
  /\ cache.exists /\ ~cache.deleting /\ ~cache.finalizer
  /\ write' = [kind |-> "init", rv |-> cache.rv, backups |-> {}]
  /\ UNCHANGED <<now, api, cache, wake, cluster, aliased, threads, runner, events>>

\* Phase 1 passed.
Ready == cache.exists /\ ~cache.deleting /\ cache.finalizer

\* The backups whose time has come (strictly before now), one per shard at most.
Due == {b \in UNION {FindLastBackup(cache.backups, s, "Pending") : s \in cluster.shards} :
          b.sched < now}

\* Mutant: a shard that has no read-only slave holds up the others.
StartableTogether ==
  {b \in Due : \A c \in Due : cluster.ro[c.shard] # {}}

Startable == {b \in Due : cluster.ro[b.shard] # {}}

\* roSlaves[0]: the read-only slave with the smallest ID.
FirstROSlave(shard) ==
  CHOOSE r \in cluster.ro[shard] : \A q \in cluster.ro[shard] : r =< q

Started(b) ==
  [b EXCEPT !.state = "Running", !.server = FirstROSlave(b.shard), !.started = now]

\* Phase 2 with something to start.
RunPendingBackups ==
  /\ TakeRequest
  /\ Ready
  /\ Startable # {}
  /\ ReconcileThreads({KeyOf(b, FirstROSlave(b.shard)) : b \in Startable})
  /\ StatusUpdate((cache.backups \ Startable) \cup {Started(b) : b \in Startable})
  /\ UNCHANGED <<now, api, cache, wake, cluster, aliased, events>>

\* Phase 2 with only shards that have no read-only slave: retry later, and
\* leave phases 3 and 4 for another time.
RequeueNoSlaves ==
  /\ TakeRequest
  /\ Ready
  /\ Due # {} /\ Startable = {}
  /\ ReconcileThreads({})
  /\ AddAfter(now + RetryDelay)
  /\ UNCHANGED <<now, api, cache, write, cluster, aliased, events>>

\* Phase 3 looks into the thread map as phase 2 leaves it.
HasThread(k) == k \in threads /\ ~CanBeDeleted(k)

\* Mutant: a runner that is not found counts as a failed one.
ObservedMissingAsFailed(b) ==
  LET k == KeyOf(b, b.server)
  IN  IF b.server \notin cluster.members \/ ~HasThread(k)
      THEN [b EXCEPT !.state = "Failed"]
      ELSE IF Finished(k)
           THEN [b EXCEPT !.state = SeenState(k), !.located = SeenLocated(k)]
           ELSE b

\* Mutant: status.Finished is not looked at.
ObservedUnfinished(b) ==
  LET k == KeyOf(b, b.server)
  IN  IF b.server \notin cluster.members \/ ~HasThread(k)
      THEN [b EXCEPT !.state = "Unknown"]
      ELSE [b EXCEPT !.state = SeenState(k), !.located = SeenLocated(k)]

\* What phase 3 makes of a running backup.
Observed(b) ==
  LET k == KeyOf(b, b.server)
  IN  IF b.server \notin cluster.members \/ ~HasThread(k)
      THEN [b EXCEPT !.state = "Unknown"]
      ELSE IF Finished(k)
           THEN [b EXCEPT !.state = SeenState(k), !.located = SeenLocated(k)]
           ELSE b

AfterPhase3 ==
  {IF b.state = "Running" THEN Observed(b) ELSE b : b \in cache.backups}

\* Phase 3 with something to report.
ReconcileRunningBackups ==
  /\ TakeRequest
  /\ Ready
  /\ Due = {}
  /\ ReconcileThreads({})
  /\ AfterPhase3 # cache.backups
  /\ StatusUpdate(AfterPhase3)
  /\ UNCHANGED <<now, api, cache, wake, cluster, aliased, events>>

AfterPhase4 ==
  ReconcileBackupList(cache.backups, NextRun(cache.cron, now), cluster.shards, HistoryLimit)

\* Phase 4 changes the list.
ScheduleBackups ==
  /\ TakeRequest
  /\ Ready
  /\ Due = {} /\ AfterPhase3 = cache.backups
  /\ ReconcileThreads({})
  /\ ~cache.pause
  /\ ListChanged(cache.backups, AfterPhase4)
  /\ StatusUpdate(AfterPhase4)
  /\ UNCHANGED <<now, api, cache, wake, cluster, aliased, events>>

\* Nothing to write: come back right after the next run.
AwaitNextRun ==
  /\ TakeRequest
  /\ Ready
  /\ Due = {} /\ AfterPhase3 = cache.backups
  /\ ReconcileThreads({})
  /\ cache.pause \/ ~ListChanged(cache.backups, AfterPhase4)
  /\ AddAfter(NextRun(cache.cron, now) + 1)
  /\ UNCHANGED <<now, api, cache, write, cluster, aliased, events>>

Reconcile ==
  \/ ReconcileGone \/ Finalize \/ Initialize
  \/ RunPendingBackups \/ RequeueNoSlaves
  \/ ReconcileRunningBackups \/ ScheduleBackups \/ AwaitNextRun

-----------------------------------------------------------------------------
\* An event from outside, within its bound.
Happens(kind) ==
  /\ events' = [events EXCEPT ![kind] = @ + 1]
  /\ events' \in Scenarios

(* The API server, the informer and the queue (external).                  *)

\* The resource after the pending write: a write that changes nothing leaves
\* the resourceVersion alone, so no watcher hears of it.
Written ==
  LET new == CASE write.kind = "status"   -> [api EXCEPT !.backups = write.backups]
               [] write.kind = "init"     -> [api EXCEPT !.finalizer = TRUE]
               [] write.kind = "finalize" -> [api EXCEPT !.finalizer = FALSE, !.exists = FALSE,
                                                         !.backups = {}]
               [] OTHER                   -> api
  IN  IF new = api THEN api ELSE [new EXCEPT !.rv = api.rv + 1]

Accepted == write # NoWrite /\ api.exists /\ write.rv = api.rv

\* The write goes through and Reconcile returns (adding the finalizer asks
\* for a requeue).
WriteSucceeds ==
  /\ Accepted
  /\ api' = Written
  /\ queued' = (queued \/ write.kind = "init")
  /\ write' = NoWrite
  /\ UNCHANGED <<now, cache, wake, cluster, aliased, threads, runner, events>>

\* The copy was stale, or the resource is gone: an error, and a retry.
WriteConflicts ==
  /\ write # NoWrite /\ ~(api.exists /\ write.rv = api.rv)
  /\ queued' = TRUE
  /\ write' = NoWrite
  /\ UNCHANGED <<now, api, cache, wake, cluster, aliased, threads, runner, events>>

\* The call fails, before or after it took effect: an error, and a retry.
WriteFails ==
  /\ Accepted
  /\ Happens("writeError")
  /\ api' \in {api, Written}
  /\ queued' = TRUE
  /\ write' = NoWrite
  /\ UNCHANGED <<now, cache, wake, cluster, aliased, threads, runner>>

Deliver ==
  /\ cache # api
  /\ cache' = api
  /\ queued' = TRUE
  /\ UNCHANGED <<now, api, wake, write, cluster, aliased, threads, runner, events>>

TimerFires ==
  /\ \E w \in wake : w =< now
  /\ wake' = {}
  /\ queued' = TRUE
  /\ UNCHANGED <<now, api, cache, write, cluster, aliased, threads, runner, events>>

\* A runner's timer fires on time: the clock waits for it.
Tick ==
  /\ now < MaxTime
  /\ \A k \in Keys : runner[k].st = "running" => now < runner[k].ts + Timeout
  /\ now' = now + 1
  /\ UNCHANGED <<api, cache, queued, wake, write, cluster, aliased, threads, runner, events>>

-----------------------------------------------------------------------------
(* Outside events.                                                         *)

TogglePause ==
  /\ Happens("pause")
  /\ api.exists
  /\ api' = [api EXCEPT !.pause = ~@, !.rv = @ + 1]
  /\ UNCHANGED <<now, cache, queued, wake, write, cluster, aliased, threads, runner>>

EditSchedule ==
  /\ Happens("schedule")
  /\ api.exists
  /\ \E c \in Crons \ {api.cron} : api' = [api EXCEPT !.cron = c, !.rv = @ + 1]
  /\ UNCHANGED <<now, cache, queued, wake, write, cluster, aliased, threads, runner>>

Delete ==
  /\ Happens("delete")
  /\ api.exists /\ ~api.deleting
  /\ api' = IF api.finalizer
            THEN [api EXCEPT !.deleting = TRUE, !.rv = @ + 1]
            ELSE [api EXCEPT !.exists = FALSE, !.backups = {}, !.rv = @ + 1]
  /\ UNCHANGED <<now, cache, queued, wake, write, cluster, aliased, threads, runner>>

\* The Sentinel controller reports another topology: a failover, a slave
\* down or back, a shard added or removed.  Nobody tells this controller.
TopologyChanges ==
  /\ Happens("topology")
  /\ \E c \in Topologies \ {cluster} : cluster' = c
  /\ UNCHANGED <<now, api, cache, queued, wake, write, aliased, threads, runner>>

\* The operator's process is replaced: runners, queue and pool are lost, the
\* new informer lists the resource.
Restart ==
  /\ Happens("restart")
  /\ threads' = {}
  /\ runner' = [k \in Keys |-> IF runner[k].st \in {"running", "tornOk", "tornErr"}
                               THEN [runner[k] EXCEPT !.st = "killed"] ELSE runner[k]]
  /\ aliased' = FALSE
  /\ cache' = api
  /\ queued' = TRUE
  /\ wake' = {}
  /\ write' = NoWrite
  /\ UNCHANGED <<now, api, cluster>>

\* The Sentinel controller builds its cluster, which names the servers in the pool.
SetAliases ==
  /\ ~aliased
  /\ aliased' = TRUE
  /\ UNCHANGED <<now, api, cache, queued, wake, write, cluster, threads, runner, events>>

-----------------------------------------------------------------------------

Init ==
  /\ now = 0
  /\ api = [exists |-> TRUE, deleting |-> FALSE, finalizer |-> FALSE, pause |-> FALSE,
            cron |-> InitCron, rv |-> 0, backups |-> {}]
  /\ cache = api
  /\ queued = TRUE
  /\ wake = {}
  /\ write = NoWrite
  /\ cluster = InitTopology
  /\ aliased = TRUE
  /\ threads = {}
  /\ runner = [k \in Keys |-> NotStarted]
  /\ events = [e \in EventKinds |-> 0]

Next ==
  \/ Reconcile
  \/ WriteSucceeds \/ WriteConflicts \/ WriteFails
  \/ Deliver \/ TimerFires \/ Tick
  \/ \E k \in Keys : WorkerEnds(k) \/ RunnerTimesOut(k) \/ RunnerPublishes(k)
  \/ TogglePause \/ EditSchedule \/ Delete \/ TopologyChanges \/ Restart \/ SetAliases

Spec == Init /\ [][Next]_vars

(* Fairness: the worker takes queued requests, a call to the API returns,
   the informer delivers, Go's timers fire and goroutines run, the clock
   advances, and the Sentinel controller does its first reconcile.          *)
Fairness ==
  /\ WF_vars(Reconcile)
  /\ WF_vars(WriteSucceeds \/ WriteConflicts)
  /\ WF_vars(Deliver)
  /\ WF_vars(TimerFires)
  /\ WF_vars(Tick)
  /\ WF_vars(SetAliases)
  /\ \A k \in Keys : WF_vars(RunnerTimesOut(k)) /\ WF_vars(RunnerPublishes(k))

FairSpec == Spec /\ Fairness

\* A controller that keeps up with the clock: nothing it could do is left
\* undone when time advances.
Settled ==
  /\ write = NoWrite /\ ~queued /\ cache = api
  /\ \A w \in wake : w > now
  /\ \A k \in Keys : runner[k].st \notin {"tornOk", "tornErr"}

PromptSpec == Init /\ [][Next /\ (now' # now => Settled)]_vars

-----------------------------------------------------------------------------
(* Properties.                                                             *)

\* Every variable holds a value of its type.
TypeOK ==
  /\ now \in Times
  /\ api \in Resources /\ cache \in Resources
  /\ write \in Writes
  /\ \A b \in api.backups \cup cache.backups \cup write.backups : b.sched \in Scheds
  /\ queued \in BOOLEAN /\ aliased \in BOOLEAN
  /\ wake \subseteq Nat
  /\ cluster \in Topologies
  /\ threads \subseteq Keys
  /\ runner \in [Keys -> Runners]
  /\ events \in [EventKinds -> Nat]

OpenLines(B, s) == {b \in B : b.shard = s /\ b.state \in OpenStates}

OneOpenIn(B) ==
  \A a, b \in B : a.shard = b.shard /\ a.state \in OpenStates /\ b.state \in OpenStates
                 => a = b

\* A shard never has two backups pending or running in the status, whatever
\* the interleaving of reconciles, stale reads, conflicts and restarts
\* (reconcileBackupList skips running shards and replaces pending ones).
OneOpenPerShard == OneOpenIn(api.backups)

\* A backup is reported Failed only if its runner did end with an error.
FailedIsHonest ==
  \A b \in api.backups : b.state = "Failed" =>
    \E k \in Keys : /\ k.shard = b.shard /\ k.server = b.server /\ k.sched = b.sched
                    /\ runner[k].st = "failed"

\* Once the finalizer is removed no runner is left in the map, and none can
\* be added any more (CleanupThreads runs before the finalizer goes).
NoThreadAfterDeletion == ~api.exists => threads = {}

\* The history limit and the replacement of schedules never drop a running
\* backup of a shard that is still in the cluster: its result would be lost.
RunningNeverDropped ==
  [][ \A b \in GetRunningBackups(cache.backups) :
        write' # write /\ write'.kind = "status" /\ b.shard \in cluster.shards
        => \E c \in write'.backups : c.shard = b.shard /\ c.sched = b.sched ]_vars

\* The status is a backup ledger: module BackupLedger.
Lines(B) == {[shard |-> b.shard, sched |-> b.sched, state |-> b.state] : b \in B}

Ledger == INSTANCE BackupLedger WITH ledger <- Lines(api.backups)

LedgerSpec == Ledger!Spec

\* What makes it one.  A list has one entry for a shard and time, one open
\* entry for a shard, and nothing but pending entries ahead of time t.
Sound(B, t) ==
  /\ OneOpenIn(B)
  /\ \A a, b \in B : a.shard = b.shard /\ a.sched = b.sched => a = b
  /\ \A b \in B : b.state # "Pending" => b.sched < t

\* B may follow A: entries of A in the same or a later state, new pending ones.
Advances(A, B) ==
  \A new \in B :
    \/ \E old \in A : /\ old.shard = new.shard /\ old.sched = new.sched
                      /\ new.state \in Ledger!Successors(old.state)
    \/ new.state = "Pending" /\ \A old \in A : ~(old.shard = new.shard /\ old.sched = new.sched)

\* The inductive invariant: the stored, the cached and the outgoing list are
\* sound; a copy with the current resourceVersion is the stored list, and a
\* write that will be accepted follows from the stored list.
StatusInv ==
  /\ Sound(api.backups, now) /\ Sound(cache.backups, now) /\ Sound(write.backups, now)
  /\ cache.rv =< api.rv
  /\ cache.rv = api.rv => cache.backups = api.backups
  /\ write.kind = "status" =>
       /\ write.rv =< api.rv
       /\ write.rv = api.rv => Advances(api.backups, write.backups)

\* While the topology and the process stay as they are, a shard never has
\* two backups executing at the same time.
OneRunnerPerShard ==
  \A k, l \in Keys :
    k.shard = l.shard /\ runner[k].st = "running" /\ runner[l].st = "running" => k = l

\* A scheduled backup is executed once, however often the write that records
\* its start fails or meets a newer version (runThread finds it), as long as the
\* process does not restart and forget the runner, and the topology does not
\* change away and back: a shard that is without slaves for two timeouts lets
\* the thread manager drop a runner whose start is not in the status yet.
RunsOnce ==
  events["restart"] = 0 /\ events["topology"] =< 1
  => \A k \in Keys : runner[k].starts =< 1

\* While the topology and the process stay as they are and the controller
\* keeps up with the clock, no backup ends in state Unknown: its runner stays
\* in the map until its result is in the status (CanBeDeleted).
NoUnknown == \A b \in api.backups : b.state # "Unknown"

\* The runs whose time comes before the clock of the model stops.
Comes == {t \in Scheds : t < MaxTime}

\* A backup whose time has come is started and recorded as started, across
\* restarts, pauses and failed updates and whatever the other shards are short
\* of: it is never replaced by the next one.  Unless its shard has no read-only
\* slave or leaves the cluster, the resource is deleted, or an update decided
\* on before that time is under way that replaces it.
DuePendingStarts ==
  \A s \in Shards : \A t \in Comes :
    LET In(B, states) == \E b \in B : b.shard = s /\ b.sched = t /\ b.state \in states
        Replacing == Accepted /\ write.kind = "status" /\ ~In(write.backups, BackupStates)
        Excused   == \/ s \notin cluster.shards \/ cluster.ro[s] = {}
                     \/ ~api.exists \/ api.deleting
    IN  (t < now /\ In(api.backups, {"Pending"}) /\ ~Replacing)
        ~> (In(api.backups, BackupStates \ {"Pending"}) \/ Excused)

\* A shard without a read-only slave has a due backup: Reconcile returns before
\* it looks at the results of the others and before it schedules.
Starving ==
  \E b \in api.backups : /\ b.state = "Pending" /\ b.sched < now
                         /\ b.shard \in cluster.shards /\ cluster.ro[b.shard] = {}

\* A running backup is resolved: its runner ends by its timeout at the latest
\* and the event makes the controller look (unless the clock of the model
\* stops before that timeout), as long as no shard is starving.
RunningResolves ==
  \A s \in Shards : \A t \in Comes :
    LET Running == \E b \in api.backups : b.shard = s /\ b.sched = t /\ b.state = "Running"
        TooLate == \E k \in Keys : /\ k.shard = s /\ k.sched = t
                                  /\ runner[k].st = "running"
                                  /\ runner[k].ts + Timeout > MaxTime
    IN  (Running /\ ~Starving) ~> (~Running \/ TooLate \/ Starving)

\* Unless it is paused or deleted or a shard is starving, every shard of the
\* cluster ends up with a backup ahead of it or under way; but not a new one
\* that comes when the next delayed request lies beyond the clock of the model.
StaysScheduled ==
  LET TooNew(s) == (\A b \in api.backups : b.shard # s) /\ \E w \in wake : w > MaxTime
  IN  <>[](\/ ~api.exists \/ api.deleting \/ api.pause \/ Starving
           \/ \A s \in cluster.shards : OpenLines(api.backups, s) # {} \/ TooNew(s))

-----------------------------------------------------------------------------
(* What the repository's tests say and the code does not do.               *)

\* A backup reported Completed did complete and is where the status says.
CompletedIsStored ==
  \A b \in api.backups : b.state = "Completed" =>
    /\ b.located
    /\ \E k \in Keys : /\ k.shard = b.shard /\ k.server = b.server /\ k.sched = b.sched
                       /\ runner[k].st = "done"
=============================================================================
