------------------------------- MODULE Threads -------------------------------
(***************************************************************************)
(* threads.Manager with the workers of a controller that reconciles        *)
(* several resources in parallel (TwemproxyConfig has two): the map of     *)
(* threads, the mutex that guards its writes and not its reads, and the    *)
(* sentinel event watchers the map holds.  A key belongs to the resource   *)
(* whose prefix, "namespace/name_", it begins with; a resource claims      *)
(* every key its prefix occurs in.                                         *)
(***************************************************************************)
EXTENDS Naturals

CONSTANTS
  Owners,          \* the resources, each reconciled by at most one worker
  Keys,            \* keys of threads: prefix of a resource, URI
  Owner(_),        \* the resource a key was made for
  Contains(_, _),  \* strings.Contains(key, prefix(owner))
  Free,            \* the mutex is free ...
  Kept             \* ... or was never released

ASSUME KeysAssumption == \A k \in Keys : Owner(k) \in Owners /\ Contains(k, Owner(k))
ASSUME MutexAssumption == Free \notin Owners /\ Kept \notin Owners /\ Free # Kept

VARIABLES
  map,             \* keys of mgr.threads
  thread,          \* the thread last made for each key
  mu,              \* who holds mgr.mu
  pc,              \* where the worker of each resource is
  want,            \* shouldRun
  todo,            \* threads ReconcileThreads has not yet looked at
  left,            \* keys its iteration has not yet visited
  cur,             \* the key runThread or stopThread works on
  cleaning         \* the resources whose worker is in CleanupThreads

vars == <<map, thread, mu, pc, want, todo, left, cur, cleaning>>

\* spawned: started, but the goroutine has not yet set the cancel function.
ThreadStates == {"none", "spawned", "running", "stopped"}

\* idle: the last call has returned; failed: it has panicked.
Places == {"idle", "failed", "checking", "lockToRun", "running", "sweeping", "looking",
           "lockToStop", "stopping"}
Between == {"idle", "failed"}

Own(o) == {k \in Keys : Owner(k) = o}

-----------------------------------------------------------------------------

\* A reconcile of the resource calls ReconcileThreads.
ReconcileThreads(o) ==
  /\ pc[o] \in Between
  /\ \E W \in SUBSET Own(o) : want' = [want EXCEPT ![o] = W] /\ todo' = [todo EXCEPT ![o] = W]
  /\ pc' = [pc EXCEPT ![o] = "checking"]
  /\ UNCHANGED <<map, thread, mu, left, cur, cleaning>>

\* CleanupThreads goes straight to the iteration.
CleanupThreads(o) ==
  /\ pc[o] \in Between
  /\ want' = [want EXCEPT ![o] = {}]
  /\ pc' = [pc EXCEPT ![o] = "sweeping"]
  /\ left' = [left EXCEPT ![o] = map]
  /\ cleaning' = cleaning \cup {o}
  /\ UNCHANGED <<map, thread, mu, todo, cur>>

\* runThread reads the map without the lock: a thread that is there has been
\* started, and there is nothing to do.
Present(o) ==
  /\ pc[o] = "checking"
  /\ \E k \in todo[o] \cap map : todo' = [todo EXCEPT ![o] = @ \ {k}]
  /\ UNCHANGED <<map, thread, mu, pc, want, left, cur, cleaning>>

Missing(o) ==
  /\ pc[o] = "checking"
  /\ \E k \in todo[o] \ map : cur' = [cur EXCEPT ![o] = k]
  /\ pc' = [pc EXCEPT ![o] = "lockToRun"]
  /\ UNCHANGED <<map, thread, mu, want, todo, left, cleaning>>

Lock(o) ==
  /\ mu = Free
  /\ mu' = o
  /\ \/ pc[o] = "lockToRun"  /\ pc' = [pc EXCEPT ![o] = "running"]
     \/ pc[o] = "lockToStop" /\ pc' = [pc EXCEPT ![o] = "stopping"]
  /\ UNCHANGED <<map, thread, want, todo, left, cur, cleaning>>

\* Insert, start and unlock.  An iteration that is under way may come across
\* the new key or not.
RunThread(o) ==
  /\ pc[o] = "running"
  /\ map' = map \cup {cur[o]}
  /\ thread' = [thread EXCEPT ![cur[o]] = "spawned"]
  /\ mu' = Free
  /\ todo' = [todo EXCEPT ![o] = @ \ {cur[o]}]
  /\ pc' = [pc EXCEPT ![o] = "checking"]
  /\ \E seen \in SUBSET {q \in Owners : pc[q] \in {"sweeping", "looking", "lockToStop"}} :
       left' = [q \in Owners |-> IF q \in seen THEN left[q] \cup {cur[o]} ELSE left[q]]
  /\ UNCHANGED <<want, cur, cleaning>>

\* All should run: the iteration begins.
BeginSweep(o) ==
  /\ pc[o] = "checking" /\ todo[o] = {}
  /\ pc' = [pc EXCEPT ![o] = "sweeping"]
  /\ left' = [left EXCEPT ![o] = map]
  /\ UNCHANGED <<map, thread, mu, want, todo, cur, cleaning>>

\* Mutant: threads that should run are not spared.
DoomedAll(o, k) == Contains(k, o)

\* A watcher can always be deleted.
Doomed(o, k) == Contains(k, o) /\ k \notin want[o]

Visit(o) ==
  /\ pc[o] = "sweeping"
  /\ \E k \in left[o] \cap map :
       /\ left' = [left EXCEPT ![o] = @ \ {k}]
       /\ IF Doomed(o, k)
          THEN /\ cur' = [cur EXCEPT ![o] = k]
               /\ pc' = [pc EXCEPT ![o] = IF o \in cleaning THEN "lockToStop" ELSE "looking"]
          ELSE UNCHANGED <<cur, pc>>
  /\ UNCHANGED <<map, thread, mu, want, todo, cleaning>>

\* ReconcileThreads reads the map once more, and calls a method of nil when
\* another worker has deleted the key.  Reconcile panics and is tried again.
CanBeDeleted(o) ==
  /\ pc[o] = "looking"
  /\ pc' = [pc EXCEPT ![o] = IF cur[o] \in map THEN "lockToStop" ELSE "failed"]
  /\ UNCHANGED <<map, thread, mu, want, todo, left, cur, cleaning>>

EndSweep(o) ==
  /\ pc[o] = "sweeping" /\ left[o] \cap map = {}
  /\ pc' = [pc EXCEPT ![o] = "idle"]
  /\ cleaning' = cleaning \ {o}
  /\ UNCHANGED <<map, thread, mu, want, todo, left, cur>>

\* Mutant: the mutex is not released.
StopThreadKeepingLock(o) ==
  /\ pc[o] = "stopping" /\ cur[o] \in map /\ thread[cur[o]] = "running"
  /\ thread' = [thread EXCEPT ![cur[o]] = "stopped"]
  /\ map' = map \ {cur[o]}
  /\ pc' = [pc EXCEPT ![o] = "sweeping"]
  /\ UNCHANGED <<mu, want, todo, left, cur, cleaning>>

\* stopThread: cancel, delete, unlock.
StopThread(o) ==
  /\ pc[o] = "stopping" /\ cur[o] \in map /\ thread[cur[o]] = "running"
  /\ thread' = [thread EXCEPT ![cur[o]] = "stopped"]
  /\ map' = map \ {cur[o]}
  /\ mu' = Free
  /\ pc' = [pc EXCEPT ![o] = "sweeping"]
  /\ UNCHANGED <<want, todo, left, cur, cleaning>>

\* stopThread finds that the key is gone and returns with the mutex locked.
StopMissing(o) ==
  /\ pc[o] = "stopping" /\ cur[o] \notin map
  /\ mu' = Kept
  /\ pc' = [pc EXCEPT ![o] = "sweeping"]
  /\ UNCHANGED <<map, thread, want, todo, left, cur, cleaning>>

\* The cancel function is nil: Stop panics.  The panic is recovered from
\* above Reconcile, the mutex stays locked.
StopPanics(o) ==
  /\ pc[o] = "stopping" /\ cur[o] \in map /\ thread[cur[o]] = "spawned"
  /\ mu' = Kept
  /\ pc' = [pc EXCEPT ![o] = "failed"]
  /\ cleaning' = cleaning \ {o}
  /\ UNCHANGED <<map, thread, want, todo, left, cur>>

\* The goroutine of the thread gets to run and sets the cancel function.
ThreadBegins(k) ==
  /\ thread[k] = "spawned"
  /\ thread' = [thread EXCEPT ![k] = "running"]
  /\ UNCHANGED <<map, mu, pc, want, todo, left, cur, cleaning>>

-----------------------------------------------------------------------------

Init ==
  /\ map = {}
  /\ thread = [k \in Keys |-> "none"]
  /\ mu = Free
  /\ pc = [o \in Owners |-> "idle"]
  /\ want = [o \in Owners |-> {}]
  /\ todo = [o \in Owners |-> {}]
  /\ left = [o \in Owners |-> {}]
  /\ cur \in [Owners -> Keys]
  /\ cleaning = {}

\* What a worker does once it has called ReconcileThreads or CleanupThreads.
Step(o) ==
  \/ Present(o) \/ Missing(o) \/ Lock(o) \/ RunThread(o) \/ BeginSweep(o)
  \/ Visit(o) \/ CanBeDeleted(o) \/ EndSweep(o)
  \/ StopThread(o) \/ StopMissing(o) \/ StopPanics(o)

Next ==
  \/ \E o \in Owners : ReconcileThreads(o) \/ CleanupThreads(o) \/ Step(o)
  \/ \E k \in Keys : ThreadBegins(k)

Spec == Init /\ [][Next]_vars

\* Workers and goroutines run, and the mutex is fair.
Fairness ==
  /\ \A o \in Owners : WF_vars(Step(o)) /\ SF_vars(Lock(o))
  /\ \A k \in Keys : WF_vars(ThreadBegins(k))

FairSpec == Spec /\ Fairness

-----------------------------------------------------------------------------
(* Properties.                                                             *)

\* Every variable holds a value of its type, and the mutex belongs to the
\* worker that writes the map.
TypeOK ==
  /\ map \subseteq Keys
  /\ thread \in [Keys -> ThreadStates]
  /\ mu \in Owners \cup {Free, Kept}
  /\ pc \in [Owners -> Places]
  /\ want \in [Owners -> SUBSET Keys] /\ todo \in [Owners -> SUBSET Keys]
  /\ left \in [Owners -> SUBSET Keys]
  /\ cur \in [Owners -> Keys]
  /\ cleaning \subseteq Owners
  /\ \A o \in Owners : mu = o <=> pc[o] \in {"running", "stopping"}

\* No other resource claims a key of this one.
Apart(o) == \A k \in Own(o) : \A q \in Owners : Contains(k, q) => q = o

\* After a call that returned exactly the threads that should run are in the
\* map, whatever the workers of the other resources were doing meanwhile and
\* though reads of the map are not locked, provided that no other resource's
\* prefix occurs in the keys, and until a call leaves the mutex locked.
OwnThreads ==
  mu # Kept =>
    \A o \in Owners : Apart(o) /\ pc[o] = "idle" => map \cap Own(o) = want[o]

\* A thread runs only as long as it is in the map, where it can be stopped.
NoOrphan == \A k \in Keys : thread[k] \in {"spawned", "running"} <=> k \in map

\* Whoever waits for the lock gets it and is done with it in the end, unless
\* a call has left it locked.
LockReleased ==
  \A o \in Owners : pc[o] \in {"lockToRun", "running", "lockToStop", "stopping"}
                  ~> pc[o] \in {"checking", "sweeping"} \/ mu = Kept
=============================================================================
