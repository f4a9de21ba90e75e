------------------------ MODULE TwemproxyConfigProofs ------------------------
(***************************************************************************)
(* Proofs about TwemproxyConfig, for any pods and configurations and any   *)
(* number of failovers, edits, errors and timeouts.                        *)
(***************************************************************************)
EXTENDS TwemproxyConfig, TLAPS

-----------------------------------------------------------------------------
(* Types.                                                                  *)

\* What a reconcile holds before it reads the resource, and what the cache
\* comes to hold, are copies of it.
LEMMA CopyType == NoCopy \in Copies
  BY DEF NoCopy, Copies, MaybeData

LEMMA CachedType ==
  ASSUME NEW m \in BOOLEAN, NEW s \in MaybeData
  PROVE  [manage |-> m, status |-> s] \in Copies
  BY DEF Copies

\* A controller that has not begun is well typed.
LEMMA InitType == Init => TypeOK
  <1> SUFFICES ASSUME Init PROVE TypeOK
    OBVIOUS
  <1>1. /\ ann \in [Pods -> MaybeData] /\ annCache \in [Pods -> MaybeData]
        /\ file \in [Pods -> MaybeData]
    BY DEF Init, MaybeData
  <1>2. patcher \in [Pods -> {"patching", "sending", "done"}] /\ events \in [EventKinds -> Nat]
    BY DEF Init
  <1> QED
    BY <1>1, <1>2, CopyType, CachedType, DataAssumption DEF Init, TypeOK, MaybeData, Phases

\* An outside event is counted.
LEMMA HappensType ==
  ASSUME NEW kind, Happens(kind)
  PROVE  events' \in [EventKinds -> Nat]
  BY EventsAssumption DEF Happens

\* A patch of a pod, whether its answer arrives or not, keeps the types.
LEMMA AnnotateType ==
  ASSUME TypeOK, NEW p \in Pods, Annotate(p)
  PROVE  ann' \in [Pods -> MaybeData] /\ notified' \subseteq Pods
  BY DEF TypeOK, Annotate

\* The steps of the worker keep the types.
LEMMA WorkerType == TypeOK /\ (Worker \/ Fail) => TypeOK'
  <1> SUFFICES ASSUME TypeOK, Worker \/ Fail PROVE TypeOK'
    OBVIOUS
  <1> USE DataAssumption, CopyType DEF TypeOK, Phases, MaybeData, store, sync, cr
  <1>1. CASE Generate
    <2>1. instance' \in Copies /\ outdated' \in BOOLEAN
      BY <1>1, Zenon DEF Generate
    <2>2. want' \in Data /\ work' = "generated" /\ queued' = FALSE
      BY <1>1 DEF Generate
    <2>3. UNCHANGED <<target, manage, cached, stale, store, hash, sync, timer, watching, events,
                      slipped>>
      BY <1>1 DEF Generate
    <2> QED
      BY <2>1, <2>2, <2>3
  <1>2. CASE CreateConfigMap
    <2>1. CASE cm = Absent
      BY <1>2, <2>1 DEF CreateConfigMap, Proceed
    <2>2. CASE cm # Absent
      BY <1>2, <2>2 DEF CreateConfigMap, Return
    <2> QED
      BY <2>1, <2>2
  <1>3. CASE PatchConfigMap    BY <1>3 DEF PatchConfigMap
  <1>4. CASE KeepConfigMap     BY <1>4 DEF KeepConfigMap
  <1>5. CASE StartSync         BY <1>5 DEF StartSync
  <1>6. CASE EndSync           BY <1>6 DEF EndSync, Proceed, Return
  <1>7. CASE Finish            BY <1>7 DEF Finish, ReconcileStatus, Return
  <1>9. CASE StatusConflict    BY <1>9 DEF StatusConflict, Return
  <1>8. CASE Fail              BY <1>8, HappensType DEF Fail, Writes, Return
  <1> QED
    BY <1>1, <1>2, <1>3, <1>4, <1>5, <1>6, <1>7, <1>8, <1>9 DEF Worker

\* Every step keeps the types.
LEMMA NextType == TypeOK /\ [Next]_vars => TypeOK'
  <1> SUFFICES ASSUME TypeOK, [Next]_vars PROVE TypeOK'
    OBVIOUS
  <1> USE DEF TypeOK, Phases, store, sync, cr
  <1>1. ASSUME NEW p \in Pods, PatchSucceeds(p) PROVE TypeOK'
    BY <1>1, AnnotateType DEF PatchSucceeds
  <1>2. ASSUME NEW p \in Pods, PatchFails(p) PROVE TypeOK'
    <2>1. events' \in [EventKinds -> Nat]
      BY <1>2, HappensType DEF PatchFails
    <2>2. ann' \in [Pods -> MaybeData] /\ notified' \subseteq Pods
      BY <1>2, AnnotateType DEF PatchFails
    <2> QED
      BY <1>2, <2>1, <2>2 DEF PatchFails
  <1>3. ASSUME NEW p \in Pods, Receive(p) PROVE TypeOK'
    BY <1>3 DEF Receive
  <1>4. ASSUME NEW p \in Pods, KubeletSyncs(p) PROVE TypeOK'
    BY <1>4 DEF KubeletSyncs
  <1>5. CASE AppendFailure     BY <1>5 DEF AppendFailure
  <1>6. CASE Expire            BY <1>6, HappensType DEF Expire
  <1>7. CASE ListenerReturns   BY <1>7 DEF ListenerReturns
  <1>8. CASE TargetChanges     BY <1>8, HappensType DEF TargetChanges
  <1>9. CASE EditSpec          BY <1>9, HappensType DEF EditSpec
  <1>10. CASE DeliverConfigMap BY <1>10 DEF DeliverConfigMap
  <1>11. CASE DeliverPods      BY <1>11 DEF DeliverPods
  <1>12. CASE PeriodicReconcile BY <1>12 DEF PeriodicReconcile
  <1>14. CASE DeliverResource  BY <1>14, CachedType DEF DeliverResource
  <1>13. CASE UNCHANGED vars   BY <1>13 DEF vars
  <1> QED
    BY <1>1, <1>2, <1>3, <1>4, <1>5, <1>6, <1>7, <1>8, <1>9, <1>10, <1>11, <1>12, <1>13,
       <1>14, WorkerType DEF Next

\* Every variable keeps its type; from the ConfigMap's write on, the hash that
\* the pods are given is that of a configuration.
THEOREM TypeCorrect == Spec => []TypeOK
  BY InitType, NextType, PTL DEF Spec

-----------------------------------------------------------------------------
(* The annotations and the files.                                          *)

\* Until something slips, the worker keeps the annotations in step with the
\* ConfigMap.
LEMMA NextInStep == TypeOK /\ InStep /\ [Next]_vars => InStep'
  <1> SUFFICES ASSUME TypeOK, InStep, [Next]_vars PROVE InStep'
    OBVIOUS
  <1> USE DEF TypeOK, InStep, store, sync, cr
  <1>1. CASE Generate          BY <1>1 DEF Generate
  <1>2. CASE CreateConfigMap   BY <1>2 DEF CreateConfigMap, Proceed, Return
  <1>3. CASE PatchConfigMap    BY <1>3 DEF PatchConfigMap
  <1>4. CASE KeepConfigMap     BY <1>4 DEF KeepConfigMap
  <1>5. CASE StartSync         BY <1>5 DEF StartSync
  <1>6. CASE EndSync           BY <1>6 DEF EndSync, Proceed, Return
  <1>7. CASE Finish \/ StatusConflict
    BY <1>7 DEF Finish, ReconcileStatus, StatusConflict, Return
  <1>8. CASE Fail              BY <1>8 DEF Fail, Return
  <1>9. ASSUME NEW p \in Pods, PatchSucceeds(p) PROVE InStep'
    BY <1>9 DEF PatchSucceeds, Annotate
  <1>10. ASSUME NEW p \in Pods, PatchFails(p) PROVE InStep'
    BY <1>10 DEF PatchFails, Annotate
  <1>11. ASSUME NEW p \in Pods, Receive(p) PROVE InStep'
    BY <1>11 DEF Receive
  <1>12. ASSUME NEW p \in Pods, KubeletSyncs(p) PROVE InStep'
    BY <1>12 DEF KubeletSyncs
  <1>13. CASE \/ AppendFailure \/ Expire \/ ListenerReturns \/ TargetChanges \/ EditSpec
              \/ DeliverResource \/ DeliverConfigMap \/ DeliverPods \/ PeriodicReconcile
              \/ UNCHANGED vars
    BY <1>13 DEF AppendFailure, Expire, ListenerReturns, TargetChanges, EditSpec,
         DeliverResource, DeliverConfigMap, DeliverPods, PeriodicReconcile, vars
  <1> QED
    BY <1>1, <1>2, <1>3, <1>4, <1>5, <1>6, <1>7, <1>8, <1>9, <1>10, <1>11, <1>12, <1>13
       DEF Next, Worker

\* A ConfigMap that changes finds every pod with the hash of the old one.
LEMMA NextAnnotated == TypeOK /\ SyncInv /\ [Next]_vars => AnnotatedHasFile'
  <1> SUFFICES ASSUME TypeOK, InStep, AnnotatedHasFile, [Next]_vars PROVE AnnotatedHasFile'
    BY DEF SyncInv
  <1> USE DEF TypeOK, AnnotatedHasFile, store, sync, cr
  <1>1. CASE CreateConfigMap   BY <1>1 DEF CreateConfigMap, InStep, Proceed, Return
  <1>2. CASE PatchConfigMap    BY <1>2 DEF PatchConfigMap, InStep
  <1>3. CASE Fail              BY <1>3 DEF Fail, Return
  <1>4. ASSUME NEW p \in Pods, PatchSucceeds(p) PROVE AnnotatedHasFile'
    BY <1>4 DEF PatchSucceeds, Annotate
  <1>5. ASSUME NEW p \in Pods, PatchFails(p) PROVE AnnotatedHasFile'
    BY <1>5 DEF PatchFails, Annotate
  <1>6. ASSUME NEW p \in Pods, KubeletSyncs(p) PROVE AnnotatedHasFile'
    BY <1>6 DEF KubeletSyncs
  <1>7. CASE Generate \/ KeepConfigMap \/ StartSync \/ EndSync \/ Finish \/ StatusConflict
    BY <1>7 DEF Generate, KeepConfigMap, StartSync, EndSync, Finish, ReconcileStatus, StatusConflict
  <1>8. CASE \/ AppendFailure \/ Expire \/ ListenerReturns \/ TargetChanges \/ EditSpec
             \/ DeliverResource \/ DeliverConfigMap \/ DeliverPods \/ PeriodicReconcile
             \/ UNCHANGED vars \/ \E p \in Pods : Receive(p)
    BY <1>8 DEF AppendFailure, Expire, ListenerReturns, TargetChanges, EditSpec,
         DeliverResource, DeliverConfigMap, DeliverPods, PeriodicReconcile, vars, Receive
  <1> QED
    BY <1>1, <1>2, <1>3, <1>4, <1>5, <1>6, <1>7, <1>8 DEF Next, Worker

\* For any number of pods and whatever the failovers, timeouts and lost events:
\* until a reconcile goes by an old copy or ends half way, a pod that has the
\* hash of the ConfigMap has its data, or will when its kubelet is done.
THEOREM AnnotatedHaveFile == Spec => []AnnotatedHasFile
  <1>1. Init => SyncInv
    BY DEF Init, SyncInv, InStep, AnnotatedHasFile
  <1>2. TypeOK /\ SyncInv /\ [Next]_vars => SyncInv'
    BY NextInStep, NextAnnotated DEF SyncInv
  <1>3. SyncInv => AnnotatedHasFile
    BY DEF SyncInv
  <1> QED
    BY <1>1, <1>2, <1>3, TypeCorrect, PTL DEF Spec

-----------------------------------------------------------------------------
(* The goroutines.                                                         *)

\* The listener of reconcileSyncAnnotations does not return before the five
\* seconds have passed, so that no goroutine of syncPod waits in vain until then.
THEOREM ErrorsHeard == Spec => []Heard
  <1>1. Init => Heard
    BY DEF Init, Heard
  <1>2. TypeOK /\ Heard /\ [Next]_vars => Heard'
    <2> SUFFICES ASSUME TypeOK, Heard, [Next]_vars PROVE Heard'
      OBVIOUS
    <2> USE DEF TypeOK, Heard, sync
    <2>1. CASE StartSync        BY <2>1 DEF StartSync
    <2>2. CASE EndSync          BY <2>2 DEF EndSync, Proceed, Return
    <2>3. CASE Expire           BY <2>3 DEF Expire
    <2>4. CASE ListenerReturns  BY <2>4 DEF ListenerReturns
    <2>5. CASE ~(StartSync \/ EndSync \/ Expire \/ ListenerReturns)
      <3>1. /\ listener' = listener /\ expired' = expired
            /\ work' = work \/ work' # "syncing"
        BY <2>5 DEF Next, Worker, Generate, CreateConfigMap, PatchConfigMap, KeepConfigMap, Finish,
             StatusConflict, Proceed, Return, Fail, PatchSucceeds, PatchFails, Receive,
             KubeletSyncs, AppendFailure, TargetChanges, EditSpec, DeliverResource,
             DeliverConfigMap, DeliverPods, PeriodicReconcile, vars
      <3> QED
        BY <3>1
    <2> QED
      BY <2>1, <2>2, <2>3, <2>4, <2>5
  <1> QED
    BY <1>1, <1>2, TypeCorrect, PTL DEF Spec

=============================================================================
