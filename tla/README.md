# Verification of the 3scale SaaS operator

TLA+ models of the parts of `saas-operator` that carry its own concurrent and
stateful logic and of the way from a spec to Kubernetes objects, the TLC runs
that check them on small instances, and TLAPS proofs of the results that matter
most. File and line references are to `src/`.

## 1. The system

The operator is one process: a controller-runtime manager (`cmd/main.go`) with
one controller per custom resource. Most of the controllers translate a
resource into Kubernetes objects; four of them, which look after redis, keep
state of their own and talk to the outside.

| Component | State | Operations | Interacts with |
|---|---|---|---|
| ShardedRedisBackup controller (`internal/controller/shardedredisbackup_controller.go`, `api/v1alpha1/shardedredisbackup_types.go`) | `status.backups`, a list of scheduled, running and past backups; the finalizer | `Reconcile` (start due backups, read results, schedule), `AddBackup`, `DeleteBackup`, `FindLastBackup`, `ApplyHistoryLimit` | reads the Sentinel status; starts runners through the thread manager; woken by their events |
| Backup runner (`internal/pkg/redis/backup`) | `status` (Started, Finished, Error, BackupFile, ...), the dump on the redis host, the object in S3 | `Start` (a worker and a control goroutine), `BackgroundSave`, `UploadBackup`, `CheckBackup`, `Stop` | redis (BGSAVE, LASTSAVE), ssh to the host, S3 |
| Thread manager (`internal/pkg/reconcilers/threads`) | map from key to thread, a mutex, a channel of events | `ReconcileThreads`, `CleanupThreads`, `GetThread` | three controllers share the code, each with a manager of its own |
| Redis server pool (`internal/pkg/redis/server`) | servers with client and alias | `GetServer`, `SetAlias` | shared by all redis controllers |
| Sharded cluster (`internal/pkg/redis/sharded`) | shards, servers with roles, sentinels | `Discover`, `SentinelDiscover`, `Init`, `GetSlavesRO` | redis and sentinel servers |
| Sentinel events and metrics (`internal/pkg/redis/events`, `.../metrics`) | a goroutine per sentinel | `Start`, `Stop` | redis pub/sub; wake the Sentinel and TwemproxyConfig controllers |
| Sentinel controller | status: shards and servers as observed | `Reconcile` (workloads, monitoring, status, metrics) | sharded cluster, threads, pool |
| RedisShard controller | status: roles of the shard's servers | `Reconcile` (workloads, `setRedisRoles`) | sharded cluster |
| TwemproxyConfig controller | the ConfigMap, its hash, annotations of the twemproxy pods | `Reconcile`, `reconcileSyncAnnotations`, `syncPod` | Sentinel servers, pods |
| Workload controllers (Apicast, AutoSSL, Backend, CORSProxy, EchoAPI, MappingService, System, Zync) | the kinds that are watched and pruned (basereconciler) | `Reconcile`: default in memory, generate a list of templates, create, update, delete and prune objects, `ReconcileStatus` | generators, workloads, resource builders; the autoscaler and the Deployment controller write the same objects |
| Generators and builders (`internal/pkg/generators`, `workloads`, `resource_builders`) | none (pure) | build Deployments, Services, envoy configuration, ... | |
| API types (`api/v1alpha1`) | the default tasks of System, process-wide | defaulting, canary resolution | |

What is hard: a reconcile reads from a cache that lags, and writes with an
optimistic lock; goroutines share memory with the reconcile that reads it; time
decides (schedules, timeouts, delayed requests); the process may be replaced
between any two steps; the redis topology changes underneath. The full list is
in `PROJECT.json` under `hazards`.

What makes the parts correct:

- backups: each shard is backed up at its scheduled times, once, on a read-only
  slave; the status tells the truth about each backup, never goes backwards,
  stays within the limit, and every started backup is resolved; nothing is left
  running for a deleted resource;
- threads: a thread that should run runs, exactly once; managers of two owners
  do not disturb each other; nobody waits for ever;
- twemproxy synchronisation: when the call returns without an error every pod
  carries the hash; the call always returns;
- discovery: a role reported is one a server had; a failure of one server does
  not hide the others;
- sentinel monitoring: a shard is monitored once, with the right master, and a
  monitored shard is not reconfigured;
- workloads: what the spec says is what there is in the end, after any failure,
  edit or restart; a published workload stays published while it changes; nobody
  overwrites what another controller decides; no accepted spec makes a generator
  fail on a nil, and every field that is accepted has an effect.

## 2. Modules

| Module | Models |
|---|---|
| `BackupLedger` | abstract specification: what `status.backups` promises |
| `BackupHistory` | the operations on that list, as operators on the set of its entries |
| `BackupStatusList` | the slice algorithms that implement them |
| `BackupSlices` | the lists of the controller, stored and cached, as slices |
| `ShardedRedisBackup` | the backup controller with its runners, the API server, the cache, the queue and the clock |
| `PromptBackup` | the same controller, watched for whether it keeps up with the clock |
| `RunnerContract` | abstract specification: what the runners of a shard promise the controller |
| `BackupRunner` | the inside of the runners of one shard: save, upload, check, timer |
| `Threads` | the thread manager with several workers and the watchers it starts |
| `TwemproxyConfig` | the TwemproxyConfig controller and the goroutines that annotate pods |
| `Discovery` | discovery of masters and slaves through Sentinel, and its three users |
| `SentinelMonitor` | the loop of the Sentinel controller that makes sentinels monitor shards |
| `RedisShard` | the RedisShard controller: the roles of the pods of a shard |
| `ApiDefaults` | the rules by which a field, a section or a list is defaulted |
| `ApiSpecs` | the fields of every kind of resource, each with its rule |
| `PodOptions` | environment variables, the Secrets they come from and the rollout triggers |
| `Publishing` | endpoints, their merge with the defaults, Services and sidecars |
| `Generators` | the workloads of every kind: what their pods read and expose |
| `CustomResource` | the objects of a resource: workloads, canaries, Services, secrets, dashboards |
| `Tasks` | the tekton tasks of System and the default ones the process shares |
| `SpecReconcile` | users creating and editing resources, and reconciles that apply them |
| `Workload` | one published workload, written object by object beside Kubernetes' own controllers |
| `MC...` | small instances of the modules for TLC |
| `...Proofs` | theorems about the modules |

`ShardedRedisBackup` uses the operators of `BackupHistory` and implements
`BackupLedger`. `ShardedRedisBackup` sees a runner
as running, done or failed; `BackupRunner` says how a runner gets there, and
implements `RunnerContract`, which is what a reader of its status may rely on.
`ShardedRedisBackup` contains the thread manager for the one worker of its
controller; `Threads` has several. `Discovery` gives the targets that
`TwemproxyConfig` takes as its variable `target`, and its external action
`Restore` stands for what `SentinelMonitor` does. `SpecReconcile` extends, one
after the other, `Tasks`, `CustomResource`, `Generators`, `Publishing`,
`PodOptions`, `ApiSpecs` and `ApiDefaults`; `Workload` takes the content of the
objects as given by them and keeps of it only what is written at different
moments.

Conventions. A call over the network, to the API server, to redis, to a
sentinel or over ssh, is a step of its own, so that everything else can happen
before and after it; what a goroutine does between two such calls or two
accesses to shared memory is one step. The things that happen to the operator
(failures of calls, failovers, crashes, edits) are counted by kind in `events`,
and the constant `Scenarios` is the set of counts a run allows: it bounds the
state space and says which of them may come together. Definitions that begin
with the comment "Mutant:" are wrong versions of the definition below them;
nothing refers to them, they are there to show that a property notices.

### ShardedRedisBackup

A call of `Reconcile` is one action up to its write to the API, and the write
is another: `write` holds what is about to be sent, with the resourceVersion
that was read. In between the API, the runners and the environment move on.
There is one worker (MaxConcurrentReconciles is 1), so `write # NoWrite` also
says that it is busy. The branches of `Reconcile` are actions: `ReconcileGone`,
`Initialize`, `Finalize` (phase 1), `RunPendingBackups`, `RequeueNoSlaves`
(phase 2), `ReconcileRunningBackups` (phase 3), `ScheduleBackups`,
`AwaitNextRun` (phase 4). `ReconcileThreads` is part of every branch from phase
2 on, as in the code. Errors of phase 1 (no secret, no Sentinel) change nothing
and are retried, so they are stuttering steps.

A runner is `[st, ts, starts]` for a key (shard, server, alias known, time).
`status.Finished` is set in one step and the rest of the status in a second
one, because the code does so without a lock; `SeenState` is what a reader
makes of the fields in between. The worker's work (save, upload, check) is one
nondeterministic outcome here. A stopped runner may still end either way.

A value of the clock stands for the moments just before a unit of time ends, so
that a backup scheduled for n is due when the clock shows n + 1, and a schedule
asked at n may answer n (`NextRun(c, t) >= t`).

External, modelled from how the code uses them: the API server (optimistic
lock; an update that changes nothing produces no event), the informer cache
(delivers the newest version at some time), the work queue (a set of one
request) and the delaying queue (keeps the earlier time), the clock.

### BackupRunner

One shard with one redis server, and runners that start one after the other
while earlier ones that timed out are still at work. `pc` is the worker
goroutine, one value per call of `BackgroundSave`, `UploadBackup` and
`CheckBackup`; `ctl` is the control goroutine. Time is in seconds, which is the
precision of LASTSAVE, of file names and of S3: that a save may end in the
second of the one before is part of the model. A dump is identified with the
time its save ended. Every command can fail, hang, or (the upload) take effect
and report an error. `CleanPath` says whether `filepath.Join` leaves the S3 path
as it is; otherwise the listings find nothing. Retention tags are modelled as
`resolveTags` computes them, lengths of hour and day are parameters.

### Threads

The map is read and iterated over without the mutex, so an iteration (`left`)
may or may not see a key inserted meanwhile. `mu = Kept` is a mutex that will
never be unlocked: `stopThread` returns locked when the key is gone, and `Stop`
panics when the thread's goroutine has not yet set its cancel function (state
`spawned`). `Contains(key, owner)` is the test with `strings.Contains`, given
by the instance; a prefix is `namespace/name_`, which also occurs in the keys of
a resource of the same name in a namespace that ends in this one. `Apart(o)` says
that no other resource's prefix occurs in the keys of `o`. `ReconcileThreads`
reads the map once more before it stops a thread (`looking`, `manager.go:98`); when
another worker has deleted the key it calls a method of nil, and the call ends
as `failed` instead of `idle`.

### TwemproxyConfig

A ConfigMap is identified with its data and a hash with what it is the hash of.
`patcher[p]` is the goroutine of `syncPod`, `listener` the one that reads
`errCh`; receiving an error and appending it are two steps. The kubelet
re-reads the ConfigMap when the annotation of its pod changes; its slow
periodic refresh is left out because the annotations exist to do without it.
`instance` is the copy of the resource a reconcile has read from the cache, and
`outdated` says that the API has a newer one: the status is compared with that of
the copy, and an update from an outdated copy is refused (`StatusConflict`).
`slipped` is a history variable: a reconcile has kept the ConfigMap because an old
copy in the cache had the desired data, or has taken a pod for annotated because
an old copy of the pod said so, or has ended before every pod had the hash.

### Discovery

One action per call of `SentinelDiscover` and `Shard.Discover`: sentinel
masters, sentinel master, get-master-addr-by-name, the role of the master,
sentinel slaves, the role and configuration of each slave. A failover is
several external steps (`Promote`, `Switch`, `Demote`): the address Sentinel
answers, the master it announces and the role the server itself reports change
at different moments. `consumer` says who discovers: a TwemproxyConfig with
pools of masters, one with read-write slaves, or the status of the Sentinel
resource. The Sentinel controller first makes the sentinels monitor the shards
and, where one does not, asks every server for its role with `Cluster.Discover`;
the status is then discovered on that same list of servers
(`sentinel_controller.go:90, 103, 143`), which `surveyed` records. `witness`
collects who was a master since the reconcile began.

### SentinelMonitor

The loop over the sentinels: is it monitoring all shards, ask every server for
its role, find the one master of each shard, `SENTINEL MONITOR`, `SENTINEL SET`.
`cut` records where the loop was interrupted before the setting. Sentinels
stop, come back, and lose what they knew; the operator restarts anywhere.

### RedisShard

Pods start with `slaveof 127.0.0.1` from their ConfigMap and get a new address
whenever they are replaced. `Reconcile` reads the pods one by one, then
`InitMaster`, then `InitSlave` for each slave, then the status. `Probe` and
`StatefulSetStatus` are the readiness probe and the counts whose change wakes
the controller; a container that restarts before it was ready changes neither,
and is only found by the listing every 10 hours (`Resync`). `NilMaster` is the
nil dereference, recovered above `Reconcile`, when no pod has the master index.
`overtaken` is a history variable: Sentinel has promoted a server between the
validation of the master and the call that makes that server a slave.

### ApiDefaults to SpecReconcile

A spec is a tree of the fields that are set. A type is a tree of rules: a field
with its default, a reference to a Secret (`vault`, `seed` or `override`), a
section that is replaced, filled in (`InitializeXxx`) or switched off by `{}`, an
optional one, a nested struct. Values are tokens: what matters is whether a value
is the user's, the default or absent, never which it is. `nils` collects the
paths that a generator dereferences without a value there.

An object is its kind, name and a body of the fields of the spec it was made of,
its labels, selector, ports, environment and triggers. Texts (commands,
arguments, dashboards, Envoy messages) are left out. `PatchSpec` works on the
defaulted spec in its JSON form, which drops empty maps, and the result is
defaulted once more, as `ResolveCanarySpec` does. An extra variable keeps its
value or its reference to a Secret (`WithExtraEnv`), for tasks as for pods; a task
that is listed without a name has the name `Nameless`. `KnownNil` lists what a
spec that the API accepts can still make the code dereference.

`shared` is the only state the process has here: the default tasks' `Config`, a
pointer that every reconcile of a System fills in.

### Workload

The objects are the main Deployment with its autoscaler, the canary, the
EnvoyConfig and the two Services a strategy may have, in the order of
`deployment_workload.New`; PodDisruptionBudget and PodMonitor are handled as the
autoscaler is and left out. `pc` is the template `ReconcileOwnedResources` is at.
A Deployment is built (`Build`, with the live replicas and the hash of the
Secret) and compared in two steps, because the mutators read the cache first and
`CreateOrModify` reads it again; every write is a step, and it succeeds, fails, or
takes effect without an answer. A copy in the cache that is not the newest is in
`stale`: updates from it are refused, deletes are not. A kind is tracked (watched
and pruned) from the first object that was applied since the process started.
basereconciler is vendored and its lines are mapped; the API server, the
informers, the autoscaler and the Deployment controller are external.

`observed` stands for what the Deployment controller writes back: the revision
annotation and the counts behind the health.

## 3. Runs

| Run | Checks | Instance |
|---|---|---|
| `backup` | `StatusInv`, `FailedIsHonest`, `RunsOnce`, `NoThreadAfterDeletion`, `RunningNeverDropped`, the ledger | 1 shard, 2 slaves, 3 topologies, schedules of period 1 and 3, 4 instants; any two different outside events |
| `backup_live` | `DuePendingStarts`, `RunningResolves`, `StaysScheduled`; for a controller that keeps up with the clock `PromptNoUnknown`, `PromptOneRunner`; the slice algorithms against sets, `ListAgrees` | 2 shards, of which the second comes without a slave, 4 instants; a restart, a change of the topology, a failed write, or a pause and its end, at any moment |
| `runner` | the contract (`FulfilsContract`), `RetentionKept`, `RunnerFinishes` | 2 runners that overlap, 6 seconds, hours of 2 and days of 4; one failure, foreign save or stop |
| `threads` | `OwnThreads`, `LockReleased` | resources `a/n` and `ba/n`, three keys, any sequence of reconciles and deletions |
| `twemproxy` | `AnnotatedHasFile`, `Converges`, `ReturnsInTime` | 2 pods, 2 configurations; one event, two failovers, two failing patches, or a failover and an edit |
| `discovery` | `OneMaster`, `AllShardsTargeted`, `MastersWereReal`, `Converges` | shards of 3 and 1 servers, 2 read-write, all three users; any two events, of one kind only failovers |
| `monitor` | `NeverGuesses`, `Monitors` | shards of 2 and 1 servers, 2 sentinels; any three events |
| `shard` | `NoCycle`, `Establishes`, `MastersKept` | 2 pods, index 0, 1 or out of range; any three events (a replaced pod without a failed call or failover), or two failovers with a restart and an edit of the index |
| `specs` | `NothingNil`, `CanaryInherits`, `SecretsProvided`, `ObjectsFit`, `TrafficFollowsSpec`, `HonoursEdits`, `TaskImages` | all eleven kinds with their required fields only, with all fields, and with every optional part in turn (canaries, patches, strategies, tasks, a task without a name, tasks with variables of their own; a patch removes any field or section of the spec of a canary); one edit: of any field, or, with an optional part, of any field of the sections the part is about |
| `workload` | `Settles`, `ScaleSettles`, `Quiesces`, `StaysPublished` | 4 specs (with and without autoscaler, canary, traffic, sidecar, dynamic configurations), 2 contents of the Secret, 2 loads; two outside events of different kinds |
| `backup_torn`, `twemproxy_blocked` | expected violations, below | |

The bounds. In the four instants of `backup` and `backup_live` a schedule of
period 1 comes round three times, so that a backup is scheduled, started,
resolved and pushed out by the history limit; one of period 3 leaves a backup
pending over an edit. One shard is enough in `backup` because its properties are
about the entries of one shard at a time; `backup_live` has a second one, which
has no slave and whose due backup makes `Reconcile` return early for both.
`ListAgrees` tries the slice algorithms with each shard of the cluster twice,
once with the stored history and once with the cached one, any of the two left
in the cluster. Two runners are enough for `runner` because what they share (the
server, the file names, the bucket) is disturbed by one other. Two workers,
pods, sentinels or servers are the least that can disagree; the configurations
of `twemproxy` are interchangeable, so that one first target stands for all; a
shard with three servers in `discovery` leaves a slave after a crash and a
failover. One edit is enough for `specs` because a reconcile depends on the spec
alone, the shared tasks apart, which two reconciles show. In `workload` an edit
comes with an error, a restart or a change of load, not with a second edit, a
Secret or a user's change, which together have a few million states: their
safety part was explored once, and is where the case `Misled` of
`StaysPublished` comes from (below).

Deadlock is checked in `discovery`, `monitor` and `shard`. In the others the
model may stop: the clock ends (`backup*`, `runner`), a reconcile can block for
ever (`twemproxy`), the mutex can stay locked (`threads`), or everything is as the
user wants it (`specs`, `workload`).

Fairness. `ShardedRedisBackup`: the worker takes queued requests, calls to the
API return, the informer delivers, timers fire, goroutines run, the clock
advances, the Sentinel controller does its first reconcile; nothing is assumed
of the worker goroutine of a runner (a save may hang), of users, of the
topology. `Prompt...` properties are about behaviours in which the controller
keeps up with the clock (`prompt` in `PromptBackup`), which no controller could do
without. `BackupRunner`
(`ControlSpec`): only the clock and the control goroutine, because a command
over ssh has no timeout. `Threads`: the workers and goroutines run, and the
mutex is fair to each waiter (Go's mutex has a starvation mode), hence strong
fairness of `Lock`. `TwemproxyConfig`: the worker, its goroutines, the informers,
the kubelet and the delayed request. `Discovery`: the periodic reconcile, and
`Settling`, which lets a failover that Sentinel has begun come to its end.
`SentinelMonitor`: the reconcile every 30 s and after each error. `RedisShard`:
the reconcile of a queued request, Kubernetes (pods start, probes run, counts are
updated) and the listing every 10 hours. `Workload`: the worker goes on, each
informer delivers, and the autoscaler and the Deployment controller do their
work; the periodic listing is not assumed, so what settles does so by the events
alone. Its properties leave out one kind of behaviour (`Races`): for ever and ever
a Deployment is written between the two reads of a reconcile.

### Findings

- `backup_torn`: the control goroutine sets `Finished` before `Error` and
  `BackupFile`, without a lock (`redis/backup/manager.go:127-149`); a reconcile in
  between reports Completed for a backup that failed or has no file.
- `twemproxy_blocked`: after five seconds the listener returns, and a patch that
  fails then blocks on the unbuffered `errCh` (`twemproxyconfig_controller.go:241`),
  `wg.Wait()` and the worker with it, for ever.

### Limits of the code seen while modelling

The properties above hold under conditions they state. What the models show
without these conditions, and no run of this project pursues further:

- `spec.pause` is consulted when scheduling only: a backup that is pending runs
  (`shardedredisbackup_controller.go:241`; `PromptOneRunner`, `StaysScheduled` do
  not depend on it).
- A due shard without a read-only slave makes `Reconcile` return before phase 3
  (line 176): the results of the other shards are not read in the meantime and
  are lost after two timeouts, and no shard is scheduled again. Backups of other
  shards that are due are still started (`DuePendingStarts`); `RunningResolves` and
  `StaysScheduled` exclude that time (`Starving`).
- A pending backup may be replaced by the next one when the update that does so
  was computed before its time came and arrives after it: `DuePendingStarts` sets
  such an update apart (`Replacing`).
- The alias is part of the runner's key (line 197) and is only set once the
  Sentinel controller has run: a backup started before becomes Unknown, and the
  next one may start beside it. `RunsOnce` excludes restarts.
- A backup runs twice when the update that records its start fails, its shard then
  has no read-only slave for two timeouts, so that `ReconcileThreads` drops the
  runner, and the slave comes back: the entry is still pending. `RunsOnce` allows
  one change of the topology, with two TLC finds this.
- A shard of the cluster without a read-only slave also makes results of other
  shards Unknown, however prompt the controller is: `Undisturbed` excludes it.
- With no shards in the Sentinel status an empty list differs from a nil one for
  `reflect.DeepEqual` (`shardedredisbackup_types.go:206`) and the resource is not
  requeued until something else happens to it.
- LASTSAVE may move because of a save that was in progress already; the dump is
  then an older one than the runner's own, though one that ended after the
  runner started, which is what the contract asks for.
- A runner that timed out goes on with its commands beside the next one, and its
  worker stays blocked on `errCh`. With an S3 path that `filepath.Join` changes,
  `CheckBackup` indexes an empty list: `NoPanic` and its theorem assume a clean
  path.
- The map of threads is read without the mutex, which the Go runtime may punish
  by ending the process; a resource in a namespace that ends in the namespace of
  another of the same name has its threads stopped by the other; a key that is
  deleted while `ReconcileThreads` looks at it is a nil dereference, after which the
  reconcile is tried again; a thread stopped before its goroutine ran, or gone
  before it is stopped, leaves the mutex locked. `OwnThreads` and `LockReleased` set
  these apart (`Apart`, `failed`, `Kept`).
- An error received from `errCh` may be appended after `failures` was read.
- The annotation may have the right hash before the data are there, when a
  configuration comes back after it was replaced, because the kubelet then sees no
  change of the annotation: after a stale read of the ConfigMap, after an
  annotation that failed, and after a stale read of a pod (`slipped` in
  `AnnotatedHasFile`; the last two came up when its invariant was not inductive).
- When no sentinel answers, or the one that answers monitors nothing, discovery
  returns no shard and an error that neither the generator nor the status takes
  for one of Sentinel's: a pool of read-write slaves is generated without
  addresses, and the status loses its roles. During a failover the flags of the
  old master are applied to the new one.
- The status of a Sentinel shows two masters of a shard when `Discover` found the
  old one and a failover came before the discovery for the status, which leaves
  the role of a server that it does not look at as it is (`redis_shard.go:117-121,
  163-168`). The next reconcile corrects it (`Converges`); `OneMaster` is about lists
  that `Discover` has not filled, `MastersWereReal` about all.
- A slave that does not answer keeps sentinels from monitoring any shard.
- A pod with the master index that restarts is promoted (`redis_server.go:50-52,
  103-104`), beside the master there is when Sentinel has failed over or the index
  was moved: the shard then has two masters. When the pod of the master is
  replaced, its slaves keep the old address. `Establishes` excludes these;
  `MastersKept` does not and says that none of them costs a master its data.
- Sentinel may promote a server between `InitSlave`'s check of the master and its
  SLAVEOF, after which a master is made a slave, or the two replicate each other
  (`overtaken` in `NoCycle` and `MastersKept`, found by their proof; the run reaches
  it with two failovers).
- A strategy edited there and back within the lag of the cache: a reconcile counts
  on a Service that its list asks for and that the one before has deleted, and
  deletes the other; until the deletion is delivered the workload has none
  (`Misled`).
- An update of a Deployment built before the autoscaler scaled and accepted after
  takes the scaling back, once per coincidence.
- An object of a kind that no template asks for since the process started is not
  pruned (an EnvoyConfig after a restart, an autoscaler whose creation was not
  answered and whose deletion was asked for before the cache showed it); it stays
  until its kind is tracked or the resource is reconciled again (`Forgotten`).
- Apicast's pods carry a traffic label of their own component
  (`generators/apicast/generator.go:208`), though the comment there (206-207) says
  it is the same for all workloads, and `common_types.go:702` that `sendTraffic`
  controls if traffic is sent to the canary: a Service never selects an Apicast
  canary. `TrafficFollowsSpec` would be violated by it and says nothing about the
  canaries of Apicast.
- What an accepted spec makes the code dereference that is nil (`KnownNil`, the
  exceptions of `NothingNil`, all of which the run reaches): an endpoint without
  `serviceType` (`Simple.Default()`, `publishing_strategy_types.go:131`, has no
  caller); a listed task without a name (`system_types.go:370`); and in a canary's
  spec, before it is defaulted again, the image that a patch removed when
  `imageName` or `imageTag` is set, or a section that is a pointer and was removed
  (`backend_types.go:189-199`); and the canary section itself that a patch removed
  from Apicast's spec.
- An extra variable that has the name of an existing one and refers to a Secret
  gets an empty value instead (`environment.go:213-217`). The `extraEnv` of a task
  may refer to Secrets that the operator neither creates nor watches;
  `SecretsProvided` leaves these out.
- `requests: {}` or `limits: {}` do not survive the JSON of a canary
  (`common_types.go:726`), which then has the default ones.
- A default task of System that is not listed keeps the image of the first
  reconcile of the process, also for another System (`system_types.go:381`, where
  the pointer to its `Config` is shared).
- The readiness probe of the sidekiqs is made from `livenessProbe`
  (`sidekiq_deployment.go:50`); the console's `nodeAffinity`, the probes of Sentinel,
  the twemproxy `pullSecretName` and some fields of tasks have no effect (`Unread`).
- The entries for Task and Pipeline in `reconciler_config.go` name the group
  `pipeline`, which is not that of Tekton, so the entry for any other kind applies.

## 4. Proofs

All theorems hold for any sets of shards, servers, keys, topologies and
schedules, any limits and timeouts, and any `Scenarios`.

`ShardedRedisBackupProofs`:

- `TypeCorrect`: `Spec => []TypeOK`;
- `StatusInvariant`: `Spec => []StatusInv`. `OneOpenPerShard` is not inductive:
  a write in flight, or a write computed from the cache, could break it. The
  strengthening says that the stored, the cached and the outgoing list are all
  sound (one open entry per shard, one entry per shard and time, nothing but
  pending entries in the future), that a cache with the current resourceVersion
  shows the stored list, and that an update with the current resourceVersion
  advances the stored list;
- `OneOpen`: `Spec => []OneOpenPerShard`, from it;
- `ImplementsLedger`: `Spec => LedgerSpec`, from the same invariant: every step
  is a ledger update or leaves the lines alone;
- `Finalized`: `Spec => []NoThreadAfterDeletion`, from an invariant on finalizer,
  deletion timestamp and map (`FinalizationInv`);
- `RunningKept`: `Spec => RunningNeverDropped`, for a positive history limit. The
  limit keeps the newest entries, so the invariant (`NewestInv`) is that in all
  three lists the open entry of a shard is its newest one. A limit of zero keeps
  no entry at all;
- `FailuresHonest`: `Spec => []FailedIsHonest`. A runner that failed could be
  started again and be running while the status says Failed; `HonestInv` adds that
  a cached list that shows an entry pending is never confronted with a stored one
  that shows it failed, and that a pending write is not newer than the cache;
- `ExecutedOnce`: `Spec => []RunsOnce`. `RunsInv` says of every runner that was
  started that its entry is pending in the stored list only if it is so in the
  cache, and that while it is so there the runner is in the map;
- `KeepsUp`, `NeverUnknown`, `OneRunnerAtATime`: `WatchedSpec => []PromptNoUnknown`
  and `[]PromptOneRunner`, for a positive history limit, any number of pauses,
  failed writes and conflicts. The invariant (`KeptUp` in `PromptBackup`): a running
  entry of any of the three lists has a runner in the map that is not past its
  timeout, a pending one none or one started at this very instant (`Tracked`);
  while the stored list does not show a start or a result there is a request, a
  write or a delivery outstanding, so that a prompt controller's clock stands
  still (`Attended`); a runner that executes is in the map, is the one for the first
  slave, and is open in the stored list (`Mapped`); and a line that is due is not
  lost between cache, write and store (`Recorded`).
- `SlicesAgree` and `ListsAgree`: `Spec => []ListAgrees`, when `Shards` is a finite
  set of numbers. `SlicesAgree` is about the algorithms alone. A finite set has one
  listing in the order of `Less` (the element with k - 1 others before it is the
  k-th), so a slice is the sorted one as soon as it has the right entries and
  decreases; `AddBackup`, `DeleteBackup` and `LimitHistory` are shown to make such
  slices, the first match in one is the newest match of the set, and the loop of
  `reconcileBackupList` is followed shard by shard. Its hypothesis `Ahead` says that
  shard and time tell entries apart and that only the newest pending entry of a
  shard may have the time of the next run; without it two entries compare equal and
  the slice depends on the sort. `ListsAgree` shows that every list the controller
  meets satisfies it: stored, cached and outgoing lists stay finite (`FiniteLists`)
  and sound (`StatusInv`), and the next run is later than all that is not pending.

How the lists move is proved once (`ReconcileWrites`, `OtherSteps`, `Phase2Elements`
to `Phase4Elements`) and cited by all of these.

`BackupRunnerProofs`: `TypeCorrect`; `RunnerInvariant`, an invariant of six parts:
a save never ends in the future (`SaveInv`); from the poll on, the dump and the
file of a runner are of saves later than the one it read first, whoever moved
them (`DumpInv`); an object's runner has started (`KeyInv`); the tag a worker
carries was right when it listed the bucket and objects are never removed
(`TagInv`); and `RetentionKept` itself. From it `CompletedStored`,
`RetentionIsKept` and, for a clean path, `CheckNeverPanics`.

`RunnersFulfilContract`: `Spec => FulfilsContract`, the refinement of
`RunnerContract`. A step of the control goroutine is `Complete` or `Fail`, the start
is `Start`, an upload that takes effect, answered or not, is `Store`, and every
other step leaves status and bucket alone. The mapping needs two more
invariants: a runner that has started finds all earlier ones finished (`TurnInv`),
and a worker that has not yet uploaded has no object, so that a backup is stored
once (`UploadInv`); `RunnerInv` gives that what is uploaded is of a save after the
runner's start.

`ThreadsProofs`: `TypeCorrect` (with mutual exclusion), `NoOrphans`, and
`OwnThreadsKept`. The last needs, per worker, what it still has to start and to
visit (`WorkerInv`) and, per resource that stands apart, that a key of its own in
the map is wanted, or still to be visited, or about to be stopped, and that a
wanted key is in the map or still to be started (`MapInv`), unless the mutex is
`Kept`; a step of another worker touches no key of a resource that stands apart.

`DiscoveryProofs`: `TypeCorrect`; `DiscoveryInvariant`: Sentinel names servers of
the shard it is asked about (`NamesInv`), in a list that `Discover` has not filled a
shard not yet confirmed has no master and any other at most one (`MastersInv`), and
whoever is listed as master, by the discovery or by `Discover` before it, was one
since the reconcile began (`WitnessInv`). From it `OneMasterSeen`, for a list that
`Discover` has not filled, and `MastersConfirmed`: `Spec => MastersWereReal`, an
action property of targets and status that holds for any list.

`EveryShardTargeted`: `Spec => []AllShardsTargeted`, from `CoverInv`: while nothing
has failed and the sentinel monitors all shards, each of them is still to be asked
about, being asked about, or found.

`SentinelMonitorProofs`: `MonitorInvariant` and `MonitorNeverGuesses`
(`Spec => NeverGuesses`, an action property). The roles a reconcile has discovered
were held since it began (`Witnessed`), and `Monitor` is reached only with every
role discovered and one master in the shard (`Discovered`).

`RedisShardProofs`: `TypeCorrect` (with `Targets`: an index without a pod is never
used to read an address); `ShardInvariant`; `NoCycles`: `Spec => []NoCycle`, because
addresses are never used twice (`Addresses`), the master is never among the slaves
to attach (`Targets`), and a validated master does not replicate the server to be
attached (`AttachSafe`); `MastersAreKept`: `Spec => MastersKept`, for any indices,
failovers and restarts, because a server that became a master after it was found
to need initialisation did so by a failover that made the master it was to be
attached to a slave, so that the validation fails (`AttachesNoMaster`).

`TwemproxyConfigProofs`: `TypeCorrect`; `AnnotatedHaveFile`:
`Spec => []AnnotatedHasFile`, from `InStep`: until something has slipped, the hash is
that of the ConfigMap from its write on, and every pod has it but those still to
be patched; `ErrorsHeard`: until the five seconds pass the listener listens.

`WorkloadProofs`: `TypeCorrect`; `WorkloadInvariant`: every Service selects the
workload (`Selecting`), and what a reconcile has passed of its list it has dealt
with (`Passed`), so that nothing the spec asks for is pruned; `RemainsPublished`:
`Spec => StaysPublished`, an action property.

Assumptions: the named `ASSUME`s of the modules (server IDs are numbers, a
topology is well formed, the next run is not before the time it is computed from,
a key contains the prefix of its owner, lengths are positive, `Absent` is neither a
configuration nor the contents of an object); TLC evaluates them in every run. The
hypotheses `HistoryLimit > 0` and that `Shards` is a finite set of
numbers are in the theorems that need them; a Sentinel resource lists finitely many
shards, and numbers stand for their names, of which only the order is used.

Model-checked only:

- liveness under fairness, and ENABLED, which are out of the prover's reach;
- the properties of `specs`: defaulting, patching and generating are recursive
  operators on trees (`ApiDefaults` and its users), which the prover cannot use.

All other invariants and action properties of the passing runs are theorems.

## 5. Not modelled, and why

- Redis server pool: its list and index; only the alias is in `ShardedRedisBackup`.
- Redis client, prometheus gauges, dashboards, main, logging: input and output.
- The text in objects: commands, arguments, `sentinel.conf`, dashboards and the
  Envoy messages; whether and from what there is an EnvoyConfig is modelled.
- Deletion of a workload resource: it has no finalizer, and Kubernetes collects
  what it owned.
- The values a Service keeps (cluster IP, node ports), which are read and written
  back as the replicas are.
- Of `reconciler_config.go` the properties of kinds other than Deployment.
- controller-runtime, go-redis, the AWS client: libraries.
- Generated deep copies, vendored code other than the parts of basereconciler that
  `Workload` translates.

## 6. Plan

1. Done: backups, runners, threads, twemproxy, discovery, monitoring, shards,
   specs and workloads; proofs of every safety property of theirs but those of
   `specs`; the runners' contract and the slices behind the lists.
2. What could be proved next: that the runners inside `ShardedRedisBackup` fulfil
   `RunnerContract` too, which needs a contract that knows of operator restarts and
   of runners of one shard that overlap, both of which the controller allows.
