--------------------------- MODULE WorkloadProofs ---------------------------
(***************************************************************************)
(* Proofs about module Workload, for any specs, Secrets and loads, and any *)
(* number of edits, errors, restarts and changes by others.                *)
(***************************************************************************)
EXTENDS Workload, WellFoundedInduction, TLAPS

-----------------------------------------------------------------------------
(* The list of templates.                                                  *)

\* The templates by their place in the list.
LEMMA TheNames ==
  /\ Len(Names) = 6 /\ DOMAIN Names = 1..6
  /\ Names[1] = "main" /\ Names[2] = "hpa" /\ Names[3] = "canary"
  /\ Names[4] = "envoy" /\ Names[5] = "svc" /\ Names[6] = "marin3r"
  BY DEF Names

\* The objects are the names in the list.
LEMMA TheObjects ==
  /\ Objects = {"main", "hpa", "canary", "envoy", "svc", "marin3r"}
  /\ Deployments \subseteq Objects /\ Services \subseteq Objects
  /\ Pruning = 7
  <1>1. Objects = {Names[i] : i \in 1..6}
    BY TheNames DEF Objects
  <1>2. 1..6 = {1, 2, 3, 4, 5, 6}
    OBVIOUS
  <1>3. Objects = {Names[1], Names[2], Names[3], Names[4], Names[5], Names[6]}
    BY <1>1, <1>2
  <1> QED
    BY <1>3, TheNames DEF Deployments, Services, Pruning

\* A set of numbers that is not empty has a smallest one.
LEMMA Smallest ==
  ASSUME NEW S \in SUBSET Nat, S # {}
  PROVE  \E j \in S : \A k \in S : j =< k
  <1> DEFINE lt == OpToRel(<, Nat)
  <1>1. IsWellFoundedOn(lt, Nat)
    BY NatLessThanWellFounded
  <1>2. PICK j \in S : \A k \in S : <<k, j>> \notin lt
    <2> HIDE DEF lt
    <2> QED
      BY <1>1, WFMin
  <1>3. ASSUME NEW k \in S PROVE j =< k
    <2>1. ~(k < j)
      BY <1>2 DEF OpToRel
    <2> QED
      BY <2>1
  <1> QED
    BY <1>3

\* What comes next is a later template, and what it passes over the spec does
\* not list.
LEMMA NextTemplate ==
  ASSUME NEW i \in 0..6, NEW spec
  PROVE  /\ After(i, spec) \in 1..7 /\ After(i, spec) > i
         /\ \A j \in 1..6 : i < j /\ j < After(i, spec) => Names[j] \notin Listed(spec)
  <1> DEFINE later == {j \in i + 1 .. 6 : Names[j] \in Listed(spec)}
  <1>1. After(i, spec) = IF later = {} THEN 7 ELSE CHOOSE j \in later : \A k \in later : j =< k
    BY TheNames, TheObjects DEF After
  <1>2. CASE later = {}
    BY <1>1, <1>2
  <1>3. CASE later # {}
    <2>1. later \in SUBSET Nat
      OBVIOUS
    <2>2. \E j \in later : \A k \in later : j =< k
      BY <1>3, <2>1, Smallest
    <2>3. After(i, spec) \in later /\ \A k \in later : After(i, spec) =< k
      BY <1>1, <1>3, <2>2
    <2> QED
      BY <2>3
  <1> QED
    BY <1>2, <1>3

\* The template the reconcile is at.
LEMMA AtName ==
  ASSUME AtTemplate
  PROVE  pc \in 1..6 /\ Name \in Objects
  BY TheNames DEF AtTemplate, Name, Objects

-----------------------------------------------------------------------------
(* The objects.                                                            *)

\* Every kind of object has its contents.
LEMMA TheContents ==
  /\ \A n \in Deployments : Contents(n) = Contents("main")
  /\ Contents("main") = [image : Nat, sidecar : BOOLEAN, trigger : Secrets,
                         replicas : Loads, observed : BOOLEAN]
  /\ \A n \in Services : Contents(n) = [selects : SUBSET Deployments]
  /\ \A n \in Objects \ (Deployments \cup Services) : Contents(n) = [name : {n}]
  BY DEF Contents, Deployments, Services

\* The fields of a Deployment.
LEMMA TheFields ==
  ASSUME NEW o \in Contents("main")
  PROVE  o.replicas \in Loads
  <1>1. o \in [image : Nat, sidecar : BOOLEAN, trigger : Secrets,
               replicas : Loads, observed : BOOLEAN]
    BY TheContents
  <1> QED
    BY <1>1

\* Nothing that exists is absent.
LEMMA ExistsNotAbsent ==
  ASSUME NEW n \in Objects, NEW o \in Contents(n)
  PROVE  o # Absent
  BY AbsentAssumption

\* Services select the workload of the resource, with or without a canary.
LEMMA SelectsMain ==
  ASSUME NEW spec
  PROVE  trafficSwitcher(spec) \subseteq Deployments /\ "main" \in trafficSwitcher(spec)
  BY DEF trafficSwitcher, Deployments, Listed, SendTraffic

\* What a template builds is an object of its kind.
LEMMA BuiltType ==
  ASSUME TypeOK, NEW spec \in Specs, NEW n \in Objects
  PROVE  Built(spec, n) \in Contents(n)
  <1>1. CASE n \in Deployments
    <2>1. spec.image \in Nat /\ spec.marin3r \in BOOLEAN
      BY WorkloadAssumption DEF SpecType
    <2>2. ASSUME NEW enforce PROVE SetDeploymentReplicas(enforce, cache[n]) \in Loads
      <3>1. cache[n] # Absent => cache[n] \in Contents("main")
        BY <1>1, TheContents DEF TypeOK, ObjectsOK
      <3>2. cache[n] # Absent => cache[n].replicas \in Loads
        BY <3>1, TheFields
      <3> QED
        BY <3>2, WorkloadAssumption DEF SetDeploymentReplicas
    <2>3. GenerateRolloutTriggers(cache[n]) \in Secrets
      BY DEF TypeOK, GenerateRolloutTriggers
    <2> DEFINE r == SetDeploymentReplicas(n = "canary" \/ ~spec.hpa, cache[n])
               t == GenerateRolloutTriggers(cache[n])
    <2>4. Built(spec, n) = [image |-> spec.image, sidecar |-> spec.marin3r, trigger |-> t,
                            replicas |-> r, observed |-> FALSE]
      <3>1. n \notin Services
        BY <1>1 DEF Deployments, Services
      <3> QED
        BY <1>1, <3>1 DEF Built
    <2>5. r \in Loads /\ t \in Secrets
      BY <2>2, <2>3
    <2> HIDE DEF r, t
    <2> QED
      BY <1>1, <2>1, <2>4, <2>5, TheContents
  <1>2. CASE n \in Services
    <2>1. n \notin Deployments
      BY <1>2 DEF Deployments, Services
    <2> QED
      BY <1>2, <2>1, SelectsMain, TheContents DEF Built
  <1>3. CASE n \in Objects \ (Deployments \cup Services)
    BY <1>3, TheContents DEF Built
  <1> QED
    BY <1>1, <1>2, <1>3

-----------------------------------------------------------------------------
(* Types.                                                                  *)

\* A write to one object keeps the objects in their types.
LEMMA WriteType ==
  ASSUME ObjectsOK, NEW n \in Objects, NEW o \in Contents(n) \cup {Absent},
         cache' = cache, stale' = stale \/ stale' = stale \cup {n},
         obj' = obj \/ obj' = [obj EXCEPT ![n] = o]
  PROVE  ObjectsOK'
  BY DEF ObjectsOK

\* A reconcile that ends leaves the worker in its types.
LEMMA RestType ==
  ASSUME WorkerOK, Rest, queued' \in BOOLEAN
  PROVE  WorkerOK'
  <1>1. pc' \in Idle .. Pruning /\ want' \in Specs
    BY WorkloadAssumption, TheObjects DEF Rest, Idle
  <1>2. built' = Absent /\ managed' = {} /\ outdated' = FALSE /\ requeue' = FALSE
    BY DEF Rest
  <1> QED
    BY <1>1, <1>2 DEF WorkerOK

\* So does one that goes on to the next template.
LEMMA ProceedType ==
  ASSUME WorkerOK, AtTemplate, Proceed, managed' \subseteq Objects, requeue' \in BOOLEAN
  PROVE  WorkerOK'
  <1>1. After(pc, want) \in 1..7
    BY AtName, NextTemplate
  <1>2. pc' \in Idle .. Pruning
    BY <1>1, TheObjects DEF Proceed, Idle
  <1> QED
    BY <1>2 DEF WorkerOK, Proceed

\* And one that has dealt with the template it is at.
LEMMA ManagedType ==
  ASSUME WorkerOK, AtTemplate, Managed
  PROVE  WorkerOK'
  <1>1. managed' \subseteq Objects /\ requeue' \in BOOLEAN
    BY AtName DEF Managed, WorkerOK
  <1>2. CASE Proceed
    BY <1>1, <1>2, ProceedType
  <1>3. CASE built' = Absent /\ UNCHANGED <<pc, want, outdated, queued>>
    BY <1>1, <1>3 DEF WorkerOK
  <1> QED
    BY <1>2, <1>3 DEF Managed

\* An outside event is counted.
LEMMA HappensType ==
  ASSUME NEW kind, Happens(kind)
  PROVE  events' \in [EventKinds -> Nat]
  BY WorkloadAssumption DEF Happens

\* A call keeps the types if what follows it does.
LEMMA CallType ==
  ASSUME TypeOK, NEW n \in Objects, NEW o \in Contents(n) \cup {Absent}, NEW ACTION Then,
         Call(n, o, Then), Then => WorkerOK'
  PROVE  TypeOK'
  <1>1. ObjectsOK'
    BY WriteType DEF TypeOK, Call
  <1>2. WorkerOK'
    BY RestType DEF TypeOK, Call, Fail
  <1>3. events' \in [EventKinds -> Nat]
    BY HappensType DEF TypeOK, Call
  <1> QED
    BY <1>1, <1>2, <1>3 DEF TypeOK, Call, resource

\* A call that is refused changes nothing but the worker.
LEMMA RefusedType ==
  ASSUME TypeOK, Refused
  PROVE  TypeOK'
  <1>1. WorkerOK'
    BY RestType DEF TypeOK, Refused, Fail
  <1> QED
    BY <1>1 DEF TypeOK, ObjectsOK, Refused, resource, objects

\* What a template is compared with, or makes of the object.
LEMMA DesiredType ==
  ASSUME TypeOK, Ready
  PROVE  Desired \in Contents(Name) /\ Name \in Objects
  <1>1. Name \in Objects
    BY AtName DEF Ready
  <1>2. CASE Name \in Deployments
    <2>1. built \in Contents("main")
      BY <1>2 DEF Ready, TypeOK, WorkerOK
    <2>2. Contents(Name) = Contents("main")
      BY <1>2, TheContents
    <2>3. Desired = built
      BY <1>2 DEF Desired
    <2> QED
      BY <1>1, <2>1, <2>2, <2>3
  <1>3. CASE Name \notin Deployments
    BY <1>1, <1>3, BuiltType DEF Desired, TypeOK, WorkerOK
  <1> QED
    BY <1>1, <1>2, <1>3

\* Every step of a reconcile keeps the types.
LEMMA ReconcileType ==
  ASSUME TypeOK, Reconcile
  PROVE  TypeOK'
  <1>0. WorkerOK /\ ObjectsOK
    BY DEF TypeOK
  <1>1. CASE Begin
    <2>1. After(0, crSeen) \in 1..7
      BY NextTemplate
    <2>2. pc' \in Idle .. Pruning
      BY <1>1, <2>1, TheObjects DEF Begin, Idle
    <2>3. WorkerOK'
      BY <1>0, <1>1, <2>2 DEF Begin, WorkerOK, TypeOK
    <2> QED
      BY <1>1, <2>3 DEF Begin, TypeOK, ObjectsOK, resource, objects
  <1>2. CASE Build
    <2>1. Built(want, Name) \in Contents("main")
      BY <1>0, <1>2, AtName, BuiltType, TheContents DEF Build, WorkerOK
    <2>2. WorkerOK'
      BY <1>0, <1>2, <2>1 DEF Build, WorkerOK
    <2> QED
      BY <1>2, <2>2 DEF Build, TypeOK, ObjectsOK, resource, objects
  <1>3. CASE Disabled
    <2>1. AtTemplate /\ Name \in Objects
      BY <1>3, AtName DEF Disabled, Ready
    <2>2. Proceed /\ UNCHANGED <<managed, requeue>> => WorkerOK'
      BY <1>0, <2>1, ProceedType DEF WorkerOK
    <2>3. CASE Call(Name, Absent, Proceed /\ UNCHANGED <<managed, requeue>>)
      BY <2>1, <2>2, <2>3, CallType
    <2>4. CASE /\ Proceed
               /\ UNCHANGED <<resource, secret, secretSeen, objects, tracked, managed, requeue,
                              load, events>>
      BY <2>2, <2>4 DEF TypeOK, ObjectsOK, resource, objects
    <2> QED
      BY <1>3, <2>3, <2>4, RefusedType DEF Disabled
  <1>4. CASE Create \/ Update
    <2>1. Ready /\ AtTemplate
      BY <1>4 DEF Create, Update, Ready
    <2>2. Desired \in Contents(Name) /\ Name \in Objects
      BY <2>1, DesiredType
    <2>3. Managed => WorkerOK'
      BY <1>0, <2>1, ManagedType
    <2>4. CASE Call(Name, Desired, Managed)
      BY <2>2, <2>3, <2>4, CallType
    <2> QED
      BY <1>4, <2>4, RefusedType DEF Create, Update
  <1>5. CASE Unchanged
    <2>1. WorkerOK'
      BY <1>0, <1>5, ManagedType DEF Unchanged, Ready
    <2> QED
      BY <1>5, <2>1 DEF Unchanged, TypeOK, ObjectsOK, resource, objects
  <1>6. CASE Track
    <2>1. Name \in Objects /\ WorkerOK'
      BY <1>0, <1>6, AtName, ProceedType DEF Track, WorkerOK
    <2> QED
      BY <1>6, <2>1 DEF Track, TypeOK, ObjectsOK, resource, objects
  <1>7. ASSUME NEW n \in Objects, pruneOrphaned(n) PROVE TypeOK'
    <2> DEFINE Then == /\ managed' = managed \cup {n}
                       /\ UNCHANGED <<pc, want, outdated, built, requeue, queued>>
    <2>1. Then => WorkerOK'
      BY <1>0 DEF WorkerOK
    <2>2. Call(n, Absent, Then) \/ Refused
      BY <1>7 DEF pruneOrphaned
    <2> HIDE DEF Then
    <2> QED
      BY <2>1, <2>2, CallType, RefusedType
  <1>8. CASE Finish
    <2>1. WorkerOK'
      BY <1>0, <1>8, RestType DEF Finish
    <2> QED
      BY <1>8, <2>1 DEF Finish, TypeOK, ObjectsOK, resource, objects
  <1>9. CASE ReconcileStatus
    <2>1. WorkerOK'
      BY <1>0, <1>9, RestType DEF ReconcileStatus, Fail, WorkerOK
    <2>2. /\ status' \in {"Unknown", "Progressing", "Healthy"} /\ crStale' \in BOOLEAN
      BY <1>9 DEF ReconcileStatus, Health, TypeOK
    <2> QED
      BY <1>9, <2>1, <2>2 DEF ReconcileStatus, TypeOK, ObjectsOK, objects
  <1> QED
    BY <1>1, <1>2, <1>3, <1>4, <1>5, <1>6, <1>7, <1>8, <1>9 DEF Reconcile

\* A Deployment that others have changed is still one.
LEMMA ChangedType ==
  ASSUME ObjectsOK, NEW n \in Deployments, obj[n] # Absent, NEW l \in Loads
  PROVE  /\ [obj[n] EXCEPT !.observed = TRUE] \in Contents(n)
         /\ [obj[n] EXCEPT !.replicas = l, !.observed = FALSE] \in Contents(n)
         /\ [obj[n] EXCEPT !.image = 0, !.observed = FALSE] \in Contents(n)
  <1> DEFINE D == [image : Nat, sidecar : BOOLEAN, trigger : Secrets,
                   replicas : Loads, observed : BOOLEAN]
             d == obj[n]
  <1>1. d \in Contents(n)
    BY TheObjects DEF ObjectsOK
  <1>2. Contents(n) = D
    BY TheContents
  <1>3. d \in D
    BY <1>1, <1>2
  <1> HIDE DEF d
  <1>4. /\ [d EXCEPT !.observed = TRUE] \in D
        /\ [d EXCEPT !.replicas = l, !.observed = FALSE] \in D
        /\ [d EXCEPT !.image = 0, !.observed = FALSE] \in D
    BY <1>3
  <1> QED
    BY <1>2, <1>4 DEF d

\* Every step keeps the types.
LEMMA NextType ==
  ASSUME TypeOK, [Next]_vars
  PROVE  TypeOK'
  <1>0. WorkerOK /\ ObjectsOK
    BY DEF TypeOK
  <1> USE DEF resource, objects, worker
  <1>1. CASE Reconcile
    BY <1>1, ReconcileType
  <1>2. CASE DeliverResource \/ DeliverSecret
    BY <1>2 DEF DeliverResource, DeliverSecret, TypeOK, ObjectsOK, WorkerOK
  <1>3. ASSUME NEW n \in Objects, DeliverObject(n) PROVE TypeOK'
    <2>1. ObjectsOK'
      BY <1>0, <1>3 DEF DeliverObject, ObjectsOK
    <2>2. WorkerOK'
      BY <1>0, <1>3 DEF DeliverObject, WorkerOK
    <2> QED
      BY <1>3, <2>1, <2>2 DEF DeliverObject, TypeOK
  <1>4. ASSUME NEW n \in Objects, NEW o \in Contents(n) \cup {Absent}, Write(n, o),
               load' = load, events' = events \/ events' \in [EventKinds -> Nat]
        PROVE  TypeOK'
    <2>1. ObjectsOK'
      BY <1>0, <1>4, WriteType DEF Write
    <2> QED
      BY <1>4, <2>1 DEF Write, TypeOK, WorkerOK
  <1>5. ASSUME NEW n \in Objects, RollsOut(n) PROVE TypeOK'
    <2>1. load \in Loads
      BY DEF TypeOK
    <2>2. [obj[n] EXCEPT !.observed = TRUE] \in Contents(n)
      BY <1>0, <1>5, <2>1, ChangedType DEF RollsOut
    <2> QED
      BY <1>4, <1>5, <2>2 DEF RollsOut
  <1>6. CASE Scales
    <2>1. load \in Loads /\ "main" \in Deployments /\ "main" \in Objects
      BY TheObjects DEF TypeOK, Deployments
    <2>2. [obj["main"] EXCEPT !.replicas = load, !.observed = FALSE] \in Contents("main")
      BY <1>0, <1>6, <2>1, ChangedType DEF Scales
    <2> QED
      BY <1>4, <1>6, <2>1, <2>2 DEF Scales
  <1>7. ASSUME NEW n \in Objects, Drift(n) PROVE TypeOK'
    <2>1. events' \in [EventKinds -> Nat] /\ load \in Loads
      BY <1>7, HappensType DEF Drift, TypeOK
    <2>2. n \in Deployments => [obj[n] EXCEPT !.image = 0, !.observed = FALSE] \in Contents(n)
      BY <1>0, <1>7, <2>1, ChangedType DEF Drift
    <2> QED
      BY <1>4, <1>7, <2>1, <2>2 DEF Drift
  <1>8. CASE Edit \/ ChangeSecret \/ LoadChanges
    <2>1. events' \in [EventKinds -> Nat]
      BY <1>8, HappensType DEF Edit, ChangeSecret, LoadChanges
    <2> QED
      BY <1>8, <2>1 DEF Edit, ChangeSecret, LoadChanges, TypeOK, ObjectsOK, WorkerOK
  <1>9. CASE Restart
    <2>1. events' \in [EventKinds -> Nat]
      BY <1>9, HappensType DEF Restart
    <2>2. WorkerOK'
      BY <1>0, <1>9, RestType DEF Restart
    <2>3. ObjectsOK'
      BY <1>0, <1>9 DEF Restart, ObjectsOK
    <2> QED
      BY <1>9, <2>1, <2>2, <2>3 DEF Restart, TypeOK
  <1>10. CASE UNCHANGED vars
    BY <1>10 DEF vars, TypeOK, ObjectsOK, WorkerOK
  <1> QED
    BY <1>1, <1>2, <1>3, <1>5, <1>6, <1>7, <1>8, <1>9, <1>10 DEF Next

\* The first state has its types: no object exists.
LEMMA InitType == Init => TypeOK
  <1> SUFFICES ASSUME Init PROVE TypeOK
    OBVIOUS
  <1>1. ObjectsOK
    BY DEF Init, ObjectsOK
  <1>2. pc \in Idle .. Pruning
    BY TheObjects DEF Init, Idle
  <1>3. WorkerOK
    BY <1>2, WorkloadAssumption DEF Init, WorkerOK
  <1> QED
    BY <1>1, <1>3, WorkloadAssumption DEF Init, TypeOK

\* No edit, error, restart or change by others takes a variable, or the
\* contents of an object, out of its type.
THEOREM TypeCorrect == Spec => []TypeOK
  BY InitType, NextType, PTL DEF Spec

-----------------------------------------------------------------------------
(* What a reconcile has passed.                                            *)

\* Going on to the next template passes nothing but what has been dealt with
\* or is not wanted.
LEMMA ProceedPasses ==
  ASSUME TypeOK, Passed, AtTemplate, Proceed, managed \subseteq managed',
         Enabled(want, Name) => Name \in managed'
  PROVE  Passed'
  <1>1. pc \in 1..6 /\ pc' = After(pc, want) /\ want' = want
    BY AtName DEF Proceed
  <1>2. /\ pc' \in 1..7 /\ pc' > pc
        /\ \A j \in 1..6 : pc < j /\ j < pc' => Names[j] \notin Listed(want)
    BY <1>1, NextTemplate
  <1> SUFFICES ASSUME NEW j \in 1..6, j < pc', Names[j] \in Listed(want), Enabled(want, Names[j])
               PROVE  Names[j] \in managed'
    BY <1>1, TheNames DEF Passed
  <1>3. CASE j < pc
    BY <1>1, <1>3, TheNames DEF Passed, Idle
  <1>4. CASE j = pc
    BY <1>4 DEF Name
  <1>5. CASE j > pc
    BY <1>2, <1>5
  <1> QED
    BY <1>1, <1>3, <1>4, <1>5

\* So does dealing with the template.
LEMMA ManagedPasses ==
  ASSUME TypeOK, Passed, AtTemplate, Managed
  PROVE  Passed'
  <1>1. managed' = managed \cup {Name}
    BY DEF Managed
  <1>2. CASE Proceed
    BY <1>1, <1>2, ProceedPasses
  <1>3. CASE UNCHANGED <<pc, want, outdated, queued>>
    BY <1>1, <1>3 DEF Passed
  <1> QED
    BY <1>2, <1>3 DEF Managed

\* A reconcile that has ended has nothing to answer for.
LEMMA RestPasses == Rest => Passed'
  BY DEF Rest, Passed

\* Every step of a reconcile keeps count of what has been dealt with.
LEMMA ReconcilePasses ==
  ASSUME TypeOK, Passed, Reconcile
  PROVE  Passed'
  <1>1. CASE Begin
    <2>1. /\ pc' = After(0, want')
          /\ \A j \in 1..6 : 0 < j /\ j < pc' => Names[j] \notin Listed(want')
      BY <1>1, NextTemplate DEF Begin
    <2> QED
      BY <2>1, TheNames DEF Passed
  <1>2. CASE Build
    BY <1>2 DEF Build, Passed
  <1>3. CASE Disabled
    <2>1. AtTemplate /\ ~Enabled(want, Name)
      BY <1>3 DEF Disabled, Ready
    <2>2. (Proceed /\ UNCHANGED managed) \/ Rest
      BY <1>3 DEF Disabled, Call, Refused, Fail
    <2> QED
      BY <2>1, <2>2, ProceedPasses, RestPasses
  <1>4. CASE Create \/ Update \/ Unchanged
    <2>1. AtTemplate /\ (Managed \/ Rest)
      BY <1>4 DEF Create, Update, Unchanged, Ready, Call, Refused, Fail
    <2> QED
      BY <2>1, ManagedPasses, RestPasses
  <1>5. CASE Track
    <2>1. AtTemplate /\ Name \in managed /\ Proceed /\ managed' = managed
      BY <1>5 DEF Track
    <2> QED
      BY <2>1, ProceedPasses
  <1>6. ASSUME NEW n \in Objects, pruneOrphaned(n) PROVE Passed'
    <2>1. \/ Rest
          \/ UNCHANGED <<pc, want>> /\ managed \subseteq managed'
      BY <1>6 DEF pruneOrphaned, Call, Refused, Fail
    <2> QED
      BY <2>1, RestPasses DEF Passed
  <1>7. CASE Finish \/ ReconcileStatus
    <2>1. Rest
      BY <1>7 DEF Finish, ReconcileStatus, Fail
    <2> QED
      BY <2>1, RestPasses
  <1> QED
    BY <1>1, <1>2, <1>3, <1>4, <1>5, <1>6, <1>7 DEF Reconcile

\* Every step does.
LEMMA NextPasses ==
  ASSUME TypeOK, Passed, [Next]_vars
  PROVE  Passed'
  <1>1. CASE Reconcile
    BY <1>1, ReconcilePasses
  <1>2. CASE Restart
    BY <1>2, RestPasses DEF Restart
  <1>3. CASE UNCHANGED <<pc, want, managed>>
    BY <1>3 DEF Passed
  <1>4. Reconcile \/ Restart \/ UNCHANGED <<pc, want, managed>>
    BY DEF Next, DeliverResource, DeliverSecret, DeliverObject, Scales, RollsOut, Drift, Write,
       Edit, ChangeSecret, LoadChanges, worker, vars
  <1> QED
    BY <1>1, <1>2, <1>3, <1>4

\* When a reconcile prunes it has dealt with the Deployment and with a Service.
LEMMA PrunesTheRest ==
  ASSUME Passed, pc = Pruning
  PROVE  "main" \in managed /\ \E n \in Services \cap Listed(want) : n \in managed
  <1>1. \A j \in 1..6 : Names[j] \in Listed(want) /\ Enabled(want, Names[j]) => Names[j] \in managed
    BY TheNames, TheObjects DEF Passed, Idle
  <1>2. "main" \in Listed(want) /\ ("svc" \in Listed(want) \/ "marin3r" \in Listed(want))
    BY DEF Listed
  <1>3. Enabled(want, "main") /\ Enabled(want, "svc") /\ Enabled(want, "marin3r")
    BY DEF Enabled
  <1>4. /\ "main" \in managed
        /\ "svc" \in Listed(want) => "svc" \in managed
        /\ "marin3r" \in Listed(want) => "marin3r" \in managed
    BY <1>1, <1>2, <1>3, TheNames
  <1> QED
    BY <1>2, <1>4 DEF Services

-----------------------------------------------------------------------------
(* The workload stays published.                                           *)

\* What a step may do to an object: the autoscaler or the EnvoyConfig goes, an
\* object is written, with a Service that selects the workload, an orphan is
\* pruned, or a user deletes something.
LEMMA ObjectSteps ==
  ASSUME TypeOK, [Next]_vars
  PROVE  \/ obj' = obj
         \/ \E n \in {"hpa", "envoy"} : obj' = [obj EXCEPT ![n] = Absent]
         \/ \E n \in Objects : \E o \in Contents(n) :
              /\ obj' = [obj EXCEPT ![n] = o]
              /\ n \in Services => "main" \in o.selects
         \/ \E n \in Objects : pruneOrphaned(n) /\ obj' = [obj EXCEPT ![n] = Absent]
         \/ \E n \in Objects : Drift(n) /\ obj' = [obj EXCEPT ![n] = Absent]
  <1> DEFINE Writes == \E n \in Objects : \E o \in Contents(n) :
                         /\ obj' = [obj EXCEPT ![n] = o]
                         /\ n \in Services => "main" \in o.selects
  <1>0. ObjectsOK /\ load \in Loads /\ "main" \in Deployments /\ Deployments \subseteq Objects
        /\ Deployments \cap Services = {}
    BY TheObjects DEF TypeOK, Deployments, Services
  <1>1. CASE Disabled
    <2>1. Name \in {"hpa", "envoy"}
      BY <1>1 DEF Disabled, Enabled
    <2> QED
      BY <1>1, <2>1 DEF Disabled, Call, Refused, objects
  <1>2. CASE Create \/ Update
    <2>1. Ready
      BY <1>2 DEF Create, Update
    <2>2. Desired \in Contents(Name) /\ Name \in Objects
      BY <2>1, DesiredType
    <2>3. Name \in Services => "main" \in Desired.selects
      <3> SUFFICES ASSUME Name \in Services PROVE "main" \in Desired.selects
        OBVIOUS
      <3>1. Name \notin Deployments
        BY <1>0
      <3>2. Desired = [selects |-> trafficSwitcher(want)]
        BY <3>1 DEF Desired, Built
      <3> QED
        BY <3>2, SelectsMain
    <2>4. obj' = obj \/ obj' = [obj EXCEPT ![Name] = Desired]
      BY <1>2 DEF Create, Update, Call, Refused, objects
    <2> QED
      BY <2>2, <2>3, <2>4
  <1>3. ASSUME NEW n \in Objects, RollsOut(n) PROVE Writes
    BY <1>0, <1>3, ChangedType DEF RollsOut, Write
  <1>4. CASE Scales
    BY <1>0, <1>4, ChangedType DEF Scales, Write
  <1>5. ASSUME NEW n \in Objects, Drift(n)
        PROVE  Writes \/ obj' = [obj EXCEPT ![n] = Absent]
    BY <1>0, <1>5, ChangedType DEF Drift, Write
  <1>6. ASSUME NEW n \in Objects, pruneOrphaned(n)
        PROVE  obj' = obj \/ obj' = [obj EXCEPT ![n] = Absent]
    BY <1>6 DEF pruneOrphaned, Call, Refused, objects
  <1>7. \/ obj' = obj \/ Disabled \/ Create \/ Update \/ Scales
        \/ \E n \in Objects : RollsOut(n) \/ Drift(n) \/ pruneOrphaned(n)
    BY DEF Next, Reconcile, Begin, Build, Unchanged, Track, Finish, ReconcileStatus,
       DeliverResource, DeliverSecret, DeliverObject, Edit, ChangeSecret, LoadChanges, Restart,
       objects, vars
  <1> QED
    BY <1>1, <1>2, <1>3, <1>4, <1>5, <1>6, <1>7

\* Every Service selects the workload.
LEMMA NextSelecting ==
  ASSUME TypeOK, Selecting, [Next]_vars
  PROVE  Selecting'
  <1>1. DOMAIN obj = Objects /\ Services \subseteq Objects
    BY TheObjects DEF TypeOK, ObjectsOK
  <1> QED
    BY <1>1, ObjectSteps DEF Selecting

\* Types, selectors and the list of what was dealt with hold for ever.
THEOREM WorkloadInvariant == Spec => []WorkloadInv
  <1>1. Init => WorkloadInv
    BY InitType, TheObjects DEF Init, WorkloadInv, Selecting, Passed
  <1>2. WorkloadInv /\ [Next]_vars => WorkloadInv'
    BY NextType, NextSelecting, NextPasses DEF WorkloadInv
  <1> QED
    BY <1>1, <1>2, PTL DEF Spec

\* No step takes the last Service or the workload away.
LEMMA PublishedStep ==
  ASSUME WorkloadInv, [Next]_vars, Published, ~Misled, events'["drift"] = 0
  PROVE  Published'
  <1>0. TypeOK /\ Selecting /\ Passed
    BY DEF WorkloadInv
  <1>1. /\ DOMAIN obj = Objects /\ Services \subseteq Objects
        /\ "main" \in Objects \ Services /\ {"hpa", "envoy"} \cap Services = {}
    BY <1>0, TheObjects DEF TypeOK, ObjectsOK, Services
  <1>2. \A n \in Objects : ~Drift(n)
    <2> SUFFICES ASSUME NEW n \in Objects, Drift(n) PROVE FALSE
      OBVIOUS
    <2>1. events'["drift"] = events["drift"] + 1 /\ events["drift"] \in Nat
      BY <1>0 DEF Drift, Happens, TypeOK, EventKinds
    <2> QED
      BY <2>1
  <1>3. CASE obj' = obj
    BY <1>3 DEF Published
  <1>4. CASE \E n \in {"hpa", "envoy"} : obj' = [obj EXCEPT ![n] = Absent]
    BY <1>1, <1>4 DEF Published
  <1>5. ASSUME NEW n \in Objects, NEW o \in Contents(n), obj' = [obj EXCEPT ![n] = o],
               n \in Services => "main" \in o.selects
        PROVE  Published'
    <2>1. o # Absent
      BY ExistsNotAbsent
    <2> QED
      BY <1>1, <1>5, <2>1 DEF Published
  <1>6. ASSUME NEW n \in Objects, pruneOrphaned(n), obj' = [obj EXCEPT ![n] = Absent]
        PROVE  Published'
    <2>1. pc = Pruning /\ n \notin managed
      BY <1>6 DEF pruneOrphaned, Orphans
    <2>2. PICK m \in Services \cap Listed(want) : m \in managed
      BY <1>0, <2>1, PrunesTheRest
    <2>3. obj[m] # Absent /\ "main" \in obj[m].selects
      BY <1>0, <2>2 DEF Misled, Selecting
    <2>4. n # "main" /\ n # m
      BY <1>0, <2>1, <2>2, PrunesTheRest
    <2> QED
      BY <1>1, <1>6, <2>2, <2>3, <2>4 DEF Published
  <1> QED
    BY <1>0, <1>2, <1>3, <1>4, <1>5, <1>6, ObjectSteps

\* The operator never takes the last Service away from the workload, nor the
\* workload from the Service, whatever is edited, fails or restarts, unless the
\* reconcile counts on a Service that is already gone.
THEOREM RemainsPublished == Spec => StaysPublished
  <1>1. WorkloadInv /\ [Next]_vars =>
          [Published /\ ~Misled /\ events'["drift"] = 0 => Published']_vars
    BY PublishedStep
  <1> QED
    BY <1>1, WorkloadInvariant, PTL DEF Spec, StaysPublished
=============================================================================
