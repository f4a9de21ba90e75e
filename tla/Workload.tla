------------------------------ MODULE Workload ------------------------------
(***************************************************************************)
(* The controller of a workload resource (Backend, System, Zync, Apicast,  *)
(* AutoSSL, MappingService, CORSProxy, EchoAPI) at work: one published     *)
(* Deployment with its HorizontalPodAutoscaler, its canary, its Services   *)
(* and its EnvoyConfig, kept as the spec says by ReconcileOwnedResources   *)
(* of basereconciler, which is external as Kubernetes is.                  *)
(*                                                                         *)
(* A template is built from what the cache shows, compared with what the   *)
(* cache shows a little later, and written: the API, the caches, the       *)
(* autoscaler, the Deployment controller and the users move on in between. *)
(* The cache has no resourceVersion but a mark on copies that the API no   *)
(* longer has.  Module SpecReconcile says what the objects contain.        *)
(***************************************************************************)
EXTENDS Naturals, FiniteSets, Sequences

CONSTANTS
  Specs,         \* what the user may ask for
  InitSpec,      \* at first
  Secrets,       \* the contents the Secret of the pods takes
  InitSecret,    \* at first
  Loads,         \* the numbers of replicas the autoscaler may come to want
  Replicas,      \* spec.replicas
  Absent,        \* no such object
  Scenarios      \* bound: how many outside events of each kind may come together

EventKinds == {"edit", "secret", "load", "drift", "restart", "callError"}

\* canary: no canary, one without traffic, one with sendTraffic.  dynamic: the
\* sidecar has dynamic configurations, of which the EnvoyConfig is made.
SpecType == [image : Nat, hpa : BOOLEAN, canary : {"none", "idle", "traffic"},
             marin3r : BOOLEAN, dynamic : BOOLEAN]

ASSUME WorkloadAssumption ==
  /\ Specs \subseteq SpecType /\ InitSpec \in Specs
  /\ InitSecret \in Secrets
  /\ Loads \subseteq Nat /\ Replicas \in Loads
  /\ Scenarios \subseteq [EventKinds -> Nat]

VARIABLES
  cr,            \* the spec in the API
  status,        \* status.health in the API
  crSeen,        \* the spec as the cache shows it
  crStale,       \* the API has a newer version than the cache
  secret, secretSeen,  \* the Secret in the API and in the cache
  obj,           \* the objects in the API
  cache,         \* and in the cache
  stale,         \* the names of those the API has another version of
  tracked,       \* the kinds that are watched and pruned
  queued,        \* a reconcile is requested
  pc,            \* the template the reconcile is at, Idle or Pruning
  want,          \* the spec it read
  outdated,      \* the resource has changed since
  built,         \* the object built from the template, Absent before that
  managed,       \* the names it has dealt with
  requeue,       \* it will ask for another one
  load,          \* the replicas the autoscaler wants
  events         \* number of outside events of each kind so far

resource == <<cr, status, crSeen, crStale>>
objects  == <<obj, cache, stale>>
worker   == <<pc, want, outdated, built, managed, requeue>>
vars     == <<resource, secret, secretSeen, objects, tracked, queued, worker, load, events>>

\* The templates in the order of the list.
Names   == <<"main", "hpa", "canary", "envoy", "svc", "marin3r">>
Objects == {Names[i] : i \in DOMAIN Names}
Idle    == 0
Pruning == Len(Names) + 1

Kind(n) == CASE n \in {"main", "canary"} -> "Deployment"
             [] n \in {"svc", "marin3r"} -> "Service"
             [] OTHER                    -> n
Deployments == {"main", "canary"}
Services    == {"svc", "marin3r"}

\* What an object is made of.
Contents(n) ==
  CASE n \in Deployments -> [image : Nat, sidecar : BOOLEAN, trigger : Secrets,
                             replicas : Loads, observed : BOOLEAN]
    [] n \in Services    -> [selects : SUBSET Deployments]
    [] OTHER             -> [name : {n}]

ASSUME AbsentAssumption == \A n \in Objects : Absent \notin Contents(n)

-----------------------------------------------------------------------------
(* The templates.                                                          *)

\* New and workloadResources: the templates of the spec.  The canary's
\* autoscaler is deactivated by the generators and never exists.
Listed(spec) ==
  {"main", "hpa"}
    \cup (IF spec.canary = "none" THEN {} ELSE {"canary"})
    \cup (IF spec.marin3r THEN {"envoy", "marin3r"} ELSE {"svc"})

Enabled(spec, n) ==
  /\ n = "hpa" => spec.hpa
  /\ n = "envoy" => spec.dynamic

\* The workloads the Services select: one by its own selector, both by the
\* traffic selector they share.
SendTraffic(spec, w) == w = "main" \/ spec.canary = "traffic"
trafficSwitcher(spec) ==
  LET enabled == {w \in Deployments \cap Listed(spec) : SendTraffic(spec, w)}
  IN  IF Cardinality(enabled) > 1 THEN Deployments ELSE enabled

\* Mutant: the replicas of the template are enforced.
SetDeploymentReplicasEnforced(enforce, live) == Replicas

\* With an autoscaler the live replicas are kept.
SetDeploymentReplicas(enforce, live) ==
  IF enforce \/ live = Absent THEN Replicas ELSE live.replicas

\* Mutant: the Secret is looked at when the Deployment is created.
GenerateRolloutTriggersOnce(live) == IF live = Absent THEN secretSeen ELSE live.trigger

\* The hash of the Secret, as an annotation of the pods.
GenerateRolloutTriggers(live) == secretSeen

\* Template.Build: the object, mutated by what the cache shows.
Built(spec, n) ==
  CASE n \in Deployments ->
         [image |-> spec.image, sidecar |-> spec.marin3r,
          trigger |-> GenerateRolloutTriggers(cache[n]),
          replicas |-> SetDeploymentReplicas(n = "canary" \/ ~spec.hpa, cache[n]),
          observed |-> FALSE]
    [] n \in Services -> [selects |-> trafficSwitcher(spec)]
    [] OTHER          -> [name |-> n]

\* Mutant: the revision annotation is not ignored.
NormalizedAll(n, o) == o

\* The properties that are compared: not the revision annotation that the
\* Deployment controller puts on what it has rolled out.
Normalized(n, o) == IF n \in Deployments THEN [o EXCEPT !.observed = FALSE] ELSE o

-----------------------------------------------------------------------------
(* Reconcile.                                                              *)

\* An event from outside, within its bound.
Happens(kind) ==
  /\ events' = [events EXCEPT ![kind] = @ + 1]
  /\ events' \in Scenarios

\* The next template of the spec, or Pruning.
After(i, spec) ==
  LET later == {j \in i + 1 .. Len(Names) : Names[j] \in Listed(spec)}
  IN  IF later = {} THEN Pruning ELSE CHOOSE j \in later : \A k \in later : j =< k

Rest ==
  /\ pc' = Idle /\ want' = InitSpec /\ outdated' = FALSE
  /\ built' = Absent /\ managed' = {} /\ requeue' = FALSE

\* Mutant: the next template is tried.
FailContinuing ==
  /\ pc' = IF pc = Pruning THEN Idle ELSE After(pc, want)
  /\ queued' = TRUE
  /\ built' = Absent
  /\ UNCHANGED <<want, outdated, managed, requeue>>

\* An error ends the reconcile, and it is retried.
Fail == Rest /\ queued' = TRUE

\* On to the next template.
Proceed ==
  /\ pc' = After(pc, want)
  /\ built' = Absent
  /\ UNCHANGED <<want, outdated, queued>>

\* A call that makes o of the object n: it succeeds and the reconcile goes on
\* as Then says, or it fails before or after it took effect.
Call(n, o, Then) ==
  /\ UNCHANGED <<resource, secret, secretSeen, cache, tracked, load>>
  /\ \/ obj' = [obj EXCEPT ![n] = o] /\ stale' = stale \cup {n}
        /\ Then /\ UNCHANGED events
     \/ Happens("callError") /\ Fail
        /\ \/ UNCHANGED <<obj, stale>>
           \/ obj' = [obj EXCEPT ![n] = o] /\ stale' = stale \cup {n}

Refused ==
  /\ Fail
  /\ UNCHANGED <<resource, secret, secretSeen, objects, tracked, load, events>>

\* Get, default in memory and generate.
Begin ==
  /\ pc = Idle /\ queued
  /\ queued' = FALSE
  /\ want' = crSeen /\ outdated' = crStale
  /\ pc' = After(0, crSeen)
  /\ UNCHANGED <<resource, secret, secretSeen, objects, tracked, built, managed, requeue,
                 load, events>>

AtTemplate == pc \in DOMAIN Names
Name       == Names[pc]

\* The mutators of a Deployment read the cluster, before the copy that is
\* compared is read.  Other templates have nothing to read.
Build ==
  /\ AtTemplate /\ Name \in Deployments \ managed /\ built = Absent
  /\ built' = Built(want, Name)
  /\ UNCHANGED <<resource, secret, secretSeen, objects, tracked, queued, pc, want, outdated,
                 managed, requeue, load, events>>

Ready   == AtTemplate /\ Name \notin managed /\ (Name \in Deployments => built # Absent)
Desired == IF Name \in Deployments THEN built ELSE Built(want, Name)

\* CreateOrModify returns a reference.  A kind that is not tracked is next.
Managed ==
  /\ managed' = managed \cup {Name}
  /\ IF Kind(Name) \in tracked THEN Proceed
     ELSE built' = Absent /\ UNCHANGED <<pc, want, outdated, queued>>
  /\ UNCHANGED requeue

\* The template is disabled: there is nothing, or it is deleted.
Disabled ==
  /\ Ready /\ ~Enabled(want, Name)
  /\ \/ cache[Name] = Absent /\ Proceed
        /\ UNCHANGED <<resource, secret, secretSeen, objects, tracked, managed, requeue,
                       load, events>>
     \/ cache[Name] # Absent /\ obj[Name] # Absent
        /\ Call(Name, Absent, Proceed /\ UNCHANGED <<managed, requeue>>)
     \/ cache[Name] # Absent /\ obj[Name] = Absent /\ Refused

Create ==
  /\ Ready /\ Enabled(want, Name)
  /\ cache[Name] = Absent
  /\ \/ obj[Name] = Absent /\ Call(Name, Desired, Managed)
     \/ obj[Name] # Absent /\ Refused

Differs == Normalized(Name, cache[Name]) # Normalized(Name, Desired)

\* An update of a copy that the API no longer has is refused.
Update ==
  /\ Ready /\ Enabled(want, Name)
  /\ cache[Name] # Absent /\ Differs
  /\ \/ Name \notin stale /\ Call(Name, Desired, Managed)
     \/ Name \in stale /\ Refused

Unchanged ==
  /\ Ready /\ Enabled(want, Name)
  /\ cache[Name] # Absent /\ ~Differs
  /\ Managed
  /\ UNCHANGED <<resource, secret, secretSeen, objects, tracked, load, events>>

\* The kind is watched from its first object on, and everything is looked at
\* once more.
Track ==
  /\ AtTemplate /\ Name \in managed
  /\ tracked' = tracked \cup {Kind(Name)}
  /\ requeue' = TRUE
  /\ Proceed
  /\ UNCHANGED <<resource, secret, secretSeen, objects, managed, load, events>>

\* What the resource owns of the kinds that are tracked, and no template asks for.
Orphans == {n \in Objects \ managed : Kind(n) \in tracked /\ cache[n] # Absent}

pruneOrphaned(n) ==
  /\ pc = Pruning /\ n \in Orphans
  /\ \/ obj[n] # Absent
        /\ Call(n, Absent, managed' = managed \cup {n}
                             /\ UNCHANGED <<pc, want, outdated, built, requeue, queued>>)
     \/ obj[n] = Absent /\ Refused

Finish ==
  /\ pc = Pruning /\ Orphans = {} /\ requeue
  /\ Rest /\ queued' = TRUE
  /\ UNCHANGED <<resource, secret, secretSeen, objects, tracked, load, events>>

Health(deployment) == IF deployment.observed THEN "Healthy" ELSE "Progressing"

\* The health of the Deployment, not that of the canary, in the status.
ReconcileStatus ==
  /\ pc = Pruning /\ Orphans = {} /\ ~requeue
  /\ UNCHANGED <<cr, crSeen, secret, secretSeen, objects, tracked, load, events>>
  /\ \/ (cache["main"] = Absent \/ outdated)
        /\ Fail /\ UNCHANGED <<status, crStale>>
     \/ cache["main"] # Absent /\ ~outdated
        /\ status' = Health(cache["main"])
        /\ crStale' = (crStale \/ status' # status)
        /\ Rest /\ UNCHANGED queued

Reconcile ==
  \/ Begin \/ Build \/ Disabled \/ Create \/ Update \/ Unchanged \/ Track
  \/ (\E n \in Objects : pruneOrphaned(n)) \/ Finish \/ ReconcileStatus

-----------------------------------------------------------------------------
(* The caches and the other controllers (external).                        *)

DeliverObject(n) ==
  /\ n \in stale
  /\ cache' = [cache EXCEPT ![n] = obj[n]] /\ stale' = stale \ {n}
  /\ queued' = (queued \/ Kind(n) \in tracked)
  /\ UNCHANGED <<resource, secret, secretSeen, obj, tracked, worker, load, events>>

DeliverResource ==
  /\ crStale
  /\ crSeen' = cr /\ crStale' = FALSE /\ queued' = TRUE
  /\ UNCHANGED <<cr, status, secret, secretSeen, objects, tracked, worker, load, events>>

\* The controller watches Secrets, whatever their name.
DeliverSecret ==
  /\ secretSeen # secret
  /\ secretSeen' = secret /\ queued' = TRUE
  /\ UNCHANGED <<resource, secret, objects, tracked, worker, load, events>>

\* Someone else writes an object.
Write(n, o) ==
  /\ obj' = [obj EXCEPT ![n] = o] /\ stale' = stale \cup {n}
  /\ UNCHANGED <<resource, secret, secretSeen, cache, tracked, queued, worker>>

RollsOut(n) ==
  /\ n \in Deployments /\ obj[n] # Absent /\ ~obj[n].observed
  /\ Write(n, [obj[n] EXCEPT !.observed = TRUE])
  /\ UNCHANGED <<load, events>>

Scales ==
  /\ obj["hpa"] # Absent /\ obj["main"] # Absent /\ obj["main"].replicas # load
  /\ Write("main", [obj["main"] EXCEPT !.replicas = load, !.observed = FALSE])
  /\ UNCHANGED <<load, events>>

-----------------------------------------------------------------------------
(* Outside events.                                                         *)

Edit ==
  /\ Happens("edit")
  /\ \E spec \in Specs \ {cr} : cr' = spec
  /\ crStale' = TRUE /\ outdated' = (pc # Idle)
  /\ UNCHANGED <<status, crSeen, secret, secretSeen, objects, tracked, queued,
                 pc, want, built, managed, requeue, load>>

ChangeSecret ==
  /\ Happens("secret")
  /\ \E s \in Secrets \ {secret} : secret' = s
  /\ UNCHANGED <<resource, secretSeen, objects, tracked, queued, worker, load>>

LoadChanges ==
  /\ Happens("load")
  /\ \E l \in Loads \ {load} : load' = l
  /\ UNCHANGED <<resource, secret, secretSeen, objects, tracked, queued, worker>>

\* A user deletes an object, or edits a Deployment.
Drift(n) ==
  /\ Happens("drift")
  /\ obj[n] # Absent
  /\ \/ Write(n, Absent)
     \/ n \in Deployments /\ Write(n, [obj[n] EXCEPT !.image = 0, !.observed = FALSE])
  /\ UNCHANGED load

Restart ==
  /\ Happens("restart")
  /\ crSeen' = cr /\ crStale' = FALSE /\ secretSeen' = secret
  /\ cache' = obj /\ stale' = {}
  /\ tracked' = {} /\ queued' = TRUE
  /\ Rest
  /\ UNCHANGED <<cr, status, secret, obj, load>>

-----------------------------------------------------------------------------

Init ==
  /\ cr = InitSpec /\ crSeen = InitSpec /\ crStale = FALSE /\ status = "Unknown"
  /\ secret = InitSecret /\ secretSeen = InitSecret
  /\ obj = [n \in Objects |-> Absent] /\ cache = obj /\ stale = {}
  /\ tracked = {} /\ queued = TRUE
  /\ pc = Idle /\ want = InitSpec /\ outdated = FALSE
  /\ built = Absent /\ managed = {} /\ requeue = FALSE
  /\ load = Replicas
  /\ events = [k \in EventKinds |-> 0]

Next ==
  \/ Reconcile
  \/ DeliverResource \/ DeliverSecret \/ Scales
  \/ \E n \in Objects : DeliverObject(n) \/ RollsOut(n) \/ Drift(n)
  \/ Edit \/ ChangeSecret \/ LoadChanges \/ Restart

Spec == Init /\ [][Next]_vars

(* Fairness: the worker goes on, the informers deliver, and Kubernetes'    *)
(* own controllers do their work.                                          *)
FairSpec ==
  /\ Spec
  /\ WF_vars(Reconcile)
  /\ WF_vars(DeliverResource) /\ WF_vars(DeliverSecret)
  /\ \A n \in Objects : WF_vars(DeliverObject(n)) /\ WF_vars(RollsOut(n))
  /\ WF_vars(Scales)

-----------------------------------------------------------------------------
(* Properties.                                                             *)

\* Every variable holds a value of its type.
ObjectsOK ==
  /\ DOMAIN obj = Objects /\ DOMAIN cache = Objects /\ stale \subseteq Objects
  /\ \A n \in Objects : /\ obj[n] \in Contents(n) \cup {Absent}
                        /\ cache[n] \in Contents(n) \cup {Absent}
WorkerOK ==
  /\ queued \in BOOLEAN /\ pc \in Idle .. Pruning /\ want \in Specs
  /\ outdated \in BOOLEAN /\ built \in Contents("main") \cup {Absent}
  /\ managed \subseteq Objects /\ requeue \in BOOLEAN
TypeOK ==
  /\ cr \in Specs /\ crSeen \in Specs /\ crStale \in BOOLEAN
  /\ status \in {"Unknown", "Progressing", "Healthy"}
  /\ secret \in Secrets /\ secretSeen \in Secrets /\ load \in Loads
  /\ ObjectsOK /\ WorkerOK
  /\ tracked \subseteq {Kind(n) : n \in Objects}
  /\ events \in [EventKinds -> Nat]

\* The autoscaler or the Deployment controller keeps writing between the read
\* that a Deployment is built from and the read that it is compared with: such
\* an update takes back what they did, and they do it again.
Overtaken == built # Absent /\ built' = built /\ cache'[Name] # cache[Name]
Races     == []<><<Overtaken>>_vars

\* What may be left behind until something else happens: an object of a kind
\* that is not tracked, because the answer to its creation was lost or the
\* operator has restarted since, and that no template asks for any more.
Forgotten(n) == Kind(n) \notin tracked

\* The objects come to be what the spec says and the status healthy, whatever
\* edits, errors, restarts and changes by others came before: canaries and
\* Services that were dropped from the spec are gone, Services select the
\* Deployments that should have traffic, and the pods run with the Secret as
\* it is.
Settles ==
  Races \/ <>[](/\ \A n \in Objects :
                     IF n \in Listed(cr) /\ Enabled(cr, n)
                     THEN /\ obj[n] # Absent
                          /\ n \in Services => obj[n].selects = trafficSwitcher(cr)
                          /\ n \in Deployments => /\ obj[n].image = cr.image
                                                  /\ obj[n].sidecar = cr.marin3r
                                                  /\ obj[n].trigger = secret
                     ELSE obj[n] = Absent \/ Forgotten(n)
                /\ status = "Healthy")

\* The Deployment comes to have the replicas of the spec, or those that the
\* autoscaler wants, and keeps them: an update that was built before the
\* autoscaler scaled, and accepted after, takes them back only for a time,
\* unless every scaling falls in between.
ScaleSettles ==
  Races \/ <>[](/\ obj["main"] # Absent
                /\ obj["main"].replicas = IF cr.hpa THEN load ELSE Replicas)

\* The operator and the other controllers do not fight over an object for
\* ever, unless they always come in between its two reads.
Quiesces == Races \/ <>[][obj' = obj]_vars

\* Whatever is edited, fails or restarts, the operator never takes the last
\* Service away from the workload, nor the workload from the Service: a new
\* strategy's Service is there before the old one's goes.  Unless a user
\* deletes one, or the reconcile counts on a Service that an earlier one
\* deleted and that the cache still showed.
Published ==
  /\ obj["main"] # Absent
  /\ \E n \in Services : obj[n] # Absent /\ "main" \in obj[n].selects
Misled == \E n \in Services \cap managed \cap Listed(want) : obj[n] = Absent
StaysPublished ==
  [][Published /\ ~Misled /\ events'["drift"] = 0 => Published']_vars

\* What it rests on: every Service selects the workload, and what a reconcile
\* has passed of its list it has dealt with, so that nothing the spec asks for
\* is an orphan when it prunes.
Selecting == \A n \in Services : obj[n] # Absent => "main" \in obj[n].selects
Passed ==
  pc # Idle => \A j \in DOMAIN Names :
    j < pc /\ Names[j] \in Listed(want) /\ Enabled(want, Names[j]) => Names[j] \in managed
WorkloadInv == TypeOK /\ Selecting /\ Passed
=============================================================================
