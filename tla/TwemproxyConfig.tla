--------------------------- MODULE TwemproxyConfig ---------------------------
(***************************************************************************)
(* The TwemproxyConfig controller for one resource: the ConfigMap it       *)
(* derives from what the sentinels report, the annotation with the hash of *)
(* the ConfigMap that it patches into the twemproxy pods to have the file  *)
(* re-synced in their containers, the goroutines that do so (one per pod,  *)
(* one that listens for their errors), the status, and the requests that   *)
(* wake the controller.                                                    *)
(*                                                                         *)
(* A ConfigMap is identified with its data and a hash with what it is the  *)
(* hash of.  The kubelet's own refresh of mounted files is left out: the   *)
(* annotations are there because it takes too long.                        *)
(***************************************************************************)
EXTENDS Naturals

CONSTANTS
  Pods,          \* the twemproxy pods the selector matches
  Data,          \* the configurations discovery may lead to
  FirstTarget,   \* the one it leads to at first
  Absent,        \* no ConfigMap, no annotation, no file
  Scenarios      \* bound: how many outside events of each kind may come together

EventKinds == {"failover", "edit", "apiError", "patchError", "expiry"}

ASSUME EventsAssumption == Scenarios \subseteq [EventKinds -> Nat]
ASSUME DataAssumption == FirstTarget \in Data /\ Absent \notin Data

VARIABLES
  target,        \* the configuration discovery would lead to now
  manage,        \* spec.reconcileServerPools
  cm, cmCache,   \* the ConfigMap in the API and in the informer cache
  ann, annCache, \* the pods' annotations in the API and in the cache
  notified,      \* pods whose kubelet has an update of the pod to process
  file,          \* the configuration file mounted in each pod
  status,        \* status.selectedTargets
  cached,        \* the resource in the cache: [manage, status]
  stale,         \* the cache has not yet the newest version of it
  instance,      \* the copy the reconcile has read
  outdated,      \* that is not the newest version
  work,          \* how far the worker is with a reconcile
  want,          \* the data the generator came up with
  hash,          \* the hash reconcileConfigMap returned
  patcher,       \* the goroutine that runs syncPod for each pod
  listener,      \* the goroutine that listens on errCh
  inbox,         \* the error it has received and not yet appended
  failures,      \* the errors it has appended
  expired,       \* innerCtx is done
  queued,        \* a request waits in the work queue
  timer,         \* the request of the periodic reconcile is under way
  watching,      \* the sentinel event watchers run
  slipped,       \* a reconcile went by an old copy, or ended, before all pods had the hash
  events         \* number of outside events of each kind so far

sync  == <<patcher, listener, inbox, failures, expired>>
cr    == <<cached, stale, instance, outdated>>
store == <<cm, cmCache, ann, annCache, notified, file, status>>
vars  == <<target, manage, cr, store, work, want, hash, sync, queued, timer, watching, slipped,
           events>>

Phases == {"idle", "generated", "hashed", "syncing", "synced"}
MaybeData == Data \cup {Absent}

Happens(kind) ==
  /\ events' = [events EXCEPT ![kind] = @ + 1]
  /\ events' \in Scenarios

-----------------------------------------------------------------------------
(* Reconcile, up to the pods.                                              *)

\* The variables of Reconcile end with it.
Copies == [manage : BOOLEAN, status : MaybeData]
NoCopy == [manage |-> FALSE, status |-> Absent]
Return ==
  /\ work' = "idle"
  /\ instance' = NoCopy /\ outdated' = FALSE /\ want' = Absent /\ hash' = Absent
Proceed(place) ==
  /\ work' = place
  /\ UNCHANGED <<instance, outdated, want>>

\* A request is taken: the resource is read from the cache and the generator
\* discovers the targets.
Generate ==
  /\ work = "idle" /\ queued
  /\ queued' = FALSE
  /\ want' = target
  /\ instance' = cached /\ outdated' = stale
  /\ work' = "generated"
  /\ UNCHANGED <<target, manage, cached, stale, store, hash, sync, timer, watching, events,
                 slipped>>

\* reconcileConfigMap finds no ConfigMap in the cache and creates it.
CreateConfigMap ==
  /\ work = "generated" /\ cmCache = Absent
  /\ IF cm = Absent
     THEN cm' = want /\ hash' = want /\ Proceed("hashed") /\ UNCHANGED queued
     ELSE Return /\ queued' = TRUE /\ UNCHANGED cm
  /\ UNCHANGED <<target, manage, cached, stale, cmCache, ann, annCache, notified, file, status,
                 sync, timer, watching, events, slipped>>

\* Mutant: an error of the patch is logged and no more.
PatchConfigMapSwallowingErrors ==
  /\ work = "generated" /\ cmCache # Absent
  /\ instance.manage /\ cmCache # want
  /\ cm' \in {cm, want} /\ hash' = want /\ work' = "hashed"
  /\ UNCHANGED <<target, manage, cr, cmCache, ann, annCache, notified, file, status, want,
                 sync, queued, timer, watching, events, slipped>>

\* The data differ from the cached ones: patch, whatever the API holds.
PatchConfigMap ==
  /\ work = "generated" /\ cmCache # Absent
  /\ instance.manage /\ cmCache # want
  /\ cm' = want /\ hash' = want /\ work' = "hashed"
  /\ UNCHANGED <<target, manage, cr, cmCache, ann, annCache, notified, file, status, want,
                 sync, queued, timer, watching, events, slipped>>

\* Nothing to change, as far as the cache shows.
KeepConfigMap ==
  /\ work = "generated" /\ cmCache # Absent
  /\ ~instance.manage \/ cmCache = want
  /\ hash' = cmCache /\ work' = "hashed"
  /\ slipped' = (slipped \/ cmCache # cm)
  /\ UNCHANGED <<target, manage, cr, store, want, sync, queued, timer, watching, events>>

-----------------------------------------------------------------------------
(* reconcileSyncAnnotations and its goroutines.                            *)

\* List the pods, start the listener and one goroutine per pod; syncPod has
\* nothing to do where the (cached) annotation has the hash already.
StartSync ==
  /\ work = "hashed"
  /\ work' = "syncing"
  /\ patcher' = [p \in Pods |-> IF annCache[p] = hash THEN "done" ELSE "patching"]
  /\ listener' = "listening" /\ inbox' = {} /\ failures' = {} /\ expired' = FALSE
  /\ slipped' = (slipped \/ \E p \in Pods : annCache[p] = hash /\ ann[p] # hash)
  /\ UNCHANGED <<target, manage, cr, store, want, hash, queued, timer, watching, events>>

\* What a patch that reaches the API does: the kubelet hears of a change.
Annotate(p) ==
  /\ ann' = [ann EXCEPT ![p] = hash]
  /\ notified' = IF ann[p] = hash THEN notified ELSE notified \cup {p}

PatchSucceeds(p) ==
  /\ patcher[p] = "patching" /\ ~expired
  /\ Annotate(p)
  /\ patcher' = [patcher EXCEPT ![p] = "done"]
  /\ UNCHANGED <<target, manage, cr, cm, cmCache, annCache, file, status, work, want, hash,
                 listener, inbox, failures, expired, queued, timer, watching, events, slipped>>

\* The API refuses, or the context is done; the patch may have gone through.
\* The goroutine goes on to send the error.
PatchFails(p) ==
  /\ patcher[p] = "patching"
  /\ IF expired THEN UNCHANGED events ELSE Happens("patchError")
  /\ Annotate(p) \/ UNCHANGED <<ann, notified>>
  /\ patcher' = [patcher EXCEPT ![p] = "sending"]
  /\ slipped' = (slipped \/ ann'[p] # hash)
  /\ UNCHANGED <<target, manage, cr, cm, cmCache, annCache, file, status, work, want, hash,
                 listener, inbox, failures, expired, queued, timer, watching>>

\* Mutant: the listener returns with the first error.
ReceiveOnce(p) ==
  /\ patcher[p] = "sending" /\ listener = "listening" /\ inbox = {}
  /\ patcher' = [patcher EXCEPT ![p] = "done"]
  /\ inbox' = {p}
  /\ listener' = "returned"
  /\ UNCHANGED <<target, manage, cr, store, work, want, hash, failures, expired, queued,
                 timer, watching, events, slipped>>

\* errCh is unbuffered: the sender is free once the listener has received ...
Receive(p) ==
  /\ patcher[p] = "sending" /\ listener = "listening" /\ inbox = {}
  /\ patcher' = [patcher EXCEPT ![p] = "done"]
  /\ inbox' = {p}
  /\ UNCHANGED <<target, manage, cr, store, work, want, hash, listener, failures, expired, queued,
                 timer, watching, events, slipped>>

\* ... and the append comes after that.
AppendFailure ==
  /\ inbox # {}
  /\ failures' = failures \cup inbox
  /\ inbox' = {}
  /\ UNCHANGED <<target, manage, cr, store, work, want, hash, patcher, listener, expired, queued,
                 timer, watching, events, slipped>>

\* Five seconds have passed.
Expire ==
  /\ work = "syncing" /\ ~expired
  /\ Happens("expiry")
  /\ expired' = TRUE
  /\ UNCHANGED <<target, manage, cr, store, work, want, hash, patcher, listener, inbox, failures,
                 queued, timer, watching, slipped>>

\* select sees innerCtx.Done().
ListenerReturns ==
  /\ listener = "listening" /\ inbox = {} /\ expired
  /\ listener' = "returned"
  /\ UNCHANGED <<target, manage, cr, store, work, want, hash, patcher, inbox, failures, expired,
                 queued, timer, watching, events, slipped>>

\* wg.Wait returns: look at the failures and cancel the context.  Nobody sees
\* what the listener does from then on, an error it has not appended is lost.
EndSync ==
  /\ work = "syncing"
  /\ \A p \in Pods : patcher[p] = "done"
  /\ listener' = "returned" /\ inbox' = {} /\ failures' = {} /\ expired' = FALSE
  /\ IF failures # {} THEN Return /\ queued' = TRUE
                      ELSE Proceed("synced") /\ UNCHANGED <<hash, queued>>
  /\ UNCHANGED <<target, manage, cached, stale, store, patcher, timer, watching, events,
                 slipped>>

-----------------------------------------------------------------------------
(* The rest of Reconcile.                                                  *)

\* The selected targets are compared with those of the copy.
SameTargets == instance.status = want

\* An update from an older version is refused, the newest one is replaced.
ReconcileStatus ==
  /\ SameTargets \/ ~outdated
  /\ status' = IF SameTargets THEN status ELSE want
  /\ stale' = (stale \/ ~SameTargets)

\* Mutant: no periodic reconcile.
FinishWithoutRequeue ==
  /\ work = "synced"
  /\ watching' = TRUE
  /\ ReconcileStatus
  /\ Return
  /\ UNCHANGED <<target, manage, cached, cm, cmCache, ann, annCache, notified, file, sync,
                 queued, timer, events, slipped>>

\* Event watchers, dashboard, status, requeue.
Finish ==
  /\ work = "synced"
  /\ watching' = TRUE
  /\ ReconcileStatus
  /\ timer' = TRUE
  /\ Return
  /\ UNCHANGED <<target, manage, cached, cm, cmCache, ann, annCache, notified, file, sync,
                 queued, events, slipped>>

\* The same, up to a conflict: the reconcile is retried.
StatusConflict ==
  /\ work = "synced"
  /\ watching' = TRUE
  /\ ~SameTargets /\ outdated
  /\ Return /\ queued' = TRUE
  /\ UNCHANGED <<target, manage, cached, stale, store, sync, timer, events, slipped>>

\* reconcileConfigMap is about to write the ConfigMap.
Writes ==
  /\ work = "generated"
  /\ IF cmCache = Absent THEN cm = Absent ELSE instance.manage /\ cmCache # want

\* A call fails and the reconcile is retried; a write of the ConfigMap may have
\* gone through.
Fail ==
  /\ work \in {"generated", "hashed", "synced"}
  /\ Happens("apiError")
  /\ Return /\ queued' = TRUE
  /\ UNCHANGED cm \/ (Writes /\ cm' = want)
  /\ slipped' = (slipped \/ work = "hashed" \/ cm' # cm)
  /\ UNCHANGED <<target, manage, cached, stale, cmCache, ann, annCache, notified, file, status,
                 sync, timer, watching>>

-----------------------------------------------------------------------------
(* The environment (external).                                             *)

\* Another master or slave: an event of the watcher, which may get lost.
TargetChanges ==
  /\ Happens("failover")
  /\ target' \in Data \ {target}
  /\ queued' \in {queued, queued \/ watching}
  /\ UNCHANGED <<manage, cr, store, work, want, hash, sync, timer, watching, slipped>>

\* spec.reconcileServerPools is edited.
EditSpec ==
  /\ Happens("edit")
  /\ manage' = ~manage
  /\ stale' = TRUE /\ outdated' = (work # "idle")
  /\ UNCHANGED <<target, cached, instance, store, work, want, hash, sync, queued, timer,
                 watching, slipped>>

\* The controller hears of every change of the resource.
DeliverResource ==
  /\ stale
  /\ stale' = FALSE
  /\ cached' = [manage |-> manage, status |-> status]
  /\ queued' = TRUE
  /\ UNCHANGED <<target, manage, instance, outdated, store, work, want, hash, sync, timer,
                 watching, events, slipped>>

\* It owns the ConfigMap and hears of its changes ...
DeliverConfigMap ==
  /\ cmCache # cm
  /\ cmCache' = cm
  /\ queued' = TRUE
  /\ UNCHANGED <<target, manage, cr, cm, ann, annCache, notified, file, status, work, want, hash,
                 sync, timer, watching, events, slipped>>

\* ... but not of the pods'.
DeliverPods ==
  /\ annCache # ann
  /\ annCache' = ann
  /\ UNCHANGED <<target, manage, cr, cm, cmCache, ann, notified, file, status, work, want, hash,
                 sync, queued, timer, watching, events, slipped>>

\* A pod's change makes its kubelet sync the mounted ConfigMap.
KubeletSyncs(p) ==
  /\ p \in notified
  /\ file' = [file EXCEPT ![p] = cm]
  /\ notified' = notified \ {p}
  /\ UNCHANGED <<target, manage, cr, cm, cmCache, ann, annCache, status, work, want, hash,
                 sync, queued, timer, watching, events, slipped>>

PeriodicReconcile ==
  /\ timer
  /\ timer' = FALSE /\ queued' = TRUE
  /\ UNCHANGED <<target, manage, cr, store, work, want, hash, sync, watching, events, slipped>>

-----------------------------------------------------------------------------

Init ==
  /\ target = FirstTarget
  /\ manage = TRUE
  /\ cm = Absent /\ cmCache = Absent
  /\ ann = [p \in Pods |-> Absent] /\ annCache = ann
  /\ notified = {}
  /\ file = [p \in Pods |-> Absent]
  /\ status = Absent
  /\ cached = [manage |-> manage, status |-> status] /\ instance = NoCopy
  /\ stale = FALSE /\ outdated = FALSE
  /\ work = "idle" /\ want = Absent /\ hash = Absent
  /\ patcher = [p \in Pods |-> "done"]
  /\ listener = "returned" /\ inbox = {} /\ failures = {} /\ expired = FALSE
  /\ queued = TRUE /\ timer = FALSE /\ watching = FALSE /\ slipped = FALSE
  /\ events = [e \in EventKinds |-> 0]

Worker ==
  \/ Generate \/ CreateConfigMap \/ PatchConfigMap \/ KeepConfigMap
  \/ StartSync \/ EndSync \/ Finish \/ StatusConflict

Next ==
  \/ Worker \/ Fail
  \/ \E p \in Pods : PatchSucceeds(p) \/ PatchFails(p) \/ Receive(p) \/ KubeletSyncs(p)
  \/ AppendFailure \/ Expire \/ ListenerReturns
  \/ TargetChanges \/ EditSpec \/ PeriodicReconcile
  \/ DeliverResource \/ DeliverConfigMap \/ DeliverPods

Spec == Init /\ [][Next]_vars

\* The worker and the goroutines run, calls to the API return, the informers
\* deliver, the kubelet processes updates, the delayed request arrives.
Fairness ==
  /\ WF_vars(Worker)
  /\ \A p \in Pods : /\ WF_vars(PatchSucceeds(p) \/ (expired /\ PatchFails(p)))
                     /\ WF_vars(Receive(p))
                     /\ WF_vars(KubeletSyncs(p))
  /\ WF_vars(AppendFailure) /\ WF_vars(ListenerReturns)
  /\ WF_vars(DeliverResource) /\ WF_vars(DeliverConfigMap) /\ WF_vars(DeliverPods)
  /\ WF_vars(PeriodicReconcile)

FairSpec == Spec /\ Fairness

-----------------------------------------------------------------------------
(* Properties.                                                             *)

\* Every variable holds a value of its type, and the pods are annotated with
\* the hash of a ConfigMap that exists.
TypeOK ==
  /\ target \in Data /\ manage \in BOOLEAN
  /\ cm \in MaybeData /\ cmCache \in MaybeData
  /\ ann \in [Pods -> MaybeData] /\ annCache \in [Pods -> MaybeData]
  /\ notified \subseteq Pods /\ file \in [Pods -> MaybeData]
  /\ status \in MaybeData
  /\ cached \in Copies /\ instance \in Copies
  /\ stale \in BOOLEAN /\ outdated \in BOOLEAN
  /\ work \in Phases /\ want \in MaybeData /\ hash \in MaybeData
  /\ work # "idle" => want \in Data
  /\ work \in {"hashed", "syncing", "synced"} => hash \in Data
  /\ patcher \in [Pods -> {"patching", "sending", "done"}]
  /\ listener \in {"listening", "returned"}
  /\ inbox \subseteq Pods /\ failures \subseteq Pods /\ expired \in BOOLEAN
  /\ queued \in BOOLEAN /\ timer \in BOOLEAN /\ watching \in BOOLEAN
  /\ slipped \in BOOLEAN
  /\ events \in [EventKinds -> Nat]

\* A pod that is annotated with the hash of the ConfigMap has its data in the
\* container, or its kubelet is about to put them there: the annotation is
\* patched after the ConfigMap and with the hash of what the API holds, and a
\* configuration that comes back is not taken for the one the pods still have.
\* That is so until a reconcile goes by an old copy of the ConfigMap or of a
\* pod, or ends between the write of the ConfigMap and the last annotation.
AnnotatedHasFile ==
  ~slipped => \A p \in Pods : ann[p] = cm /\ p \notin notified => file[p] = cm

\* What makes it so: until something slips, the hash is that of the ConfigMap
\* from its write on, and every pod has it but those still to be patched.
InStep ==
  /\ work # "syncing" => \A p \in Pods : patcher[p] = "done"
  /\ ~slipped =>
       /\ work \in {"hashed", "syncing"} => hash = cm
       /\ \A p \in Pods : work # "hashed" /\ patcher[p] # "patching" => ann[p] = cm

SyncInv == InStep /\ AnnotatedHasFile

\* Until the five seconds pass, an error that is sent finds its receiver.
Heard == work = "syncing" /\ ~expired => listener = "listening"

\* When failovers, edits and errors are over, the ConfigMap follows the
\* sentinels (unless that is switched off), and the pods' annotations and the
\* status follow, whatever the caches showed and whichever events were lost,
\* provided that the five seconds never pass.
Converges ==
  [](events["expiry"] = 0) =>
  <>[](/\ manage => cm = target
       /\ \A p \in Pods : ann[p] = cm
       /\ status = target)

\* A reconcile that has begun comes to an end, unless its five seconds pass:
\* until then every error that is sent finds its receiver.
ReturnsInTime == (work # "idle") ~> (work = "idle" \/ (work = "syncing" /\ expired))

-----------------------------------------------------------------------------
(* What the code's documentation says and the code does not do.            *)

\* "Reconcile periodically in case some event is lost": a reconcile that has
\* begun comes to an end and another one follows.
ReconcileReturns == (work # "idle") ~> (work = "idle")
=============================================================================
