--------------------------- MODULE SpecReconcile ---------------------------
(***************************************************************************)
(* The workload controllers (src/internal/controller/*_controller.go) as   *)
(* far as the content of the objects goes: a user creates a resource and   *)
(* edits it, the controller of its kind reads it, defaults it in memory    *)
(* (the stored resource is never defaulted), generates the objects and     *)
(* applies them.  How the objects are written, one after another and from  *)
(* stale reads, is the subject of module Workload.                         *)
(***************************************************************************)
EXTENDS Tasks
LOCAL INSTANCE SequencesExt

CONSTANTS
    Creations,      \* kind -> the ways a user may create one: [spec, tasks, patches]
    Edited(_, _, _),    \* kind, spec, patches -> the top-level fields whose edits are explored
    Values(_, _),   \* type, path -> what a user may write there
    MaxEdits        \* how often the resource is edited

VARIABLES
    kind,       \* the kind of the resource, Nil before it is created
    stored,     \* its spec as the user left it
    listed,     \* the tekton tasks it lists (System)
    patches,    \* the patches its canaries have
    shared,     \* what the process remembers in the default tasks
    queued,     \* the controller's work queue holds the resource
    applied,    \* the outcome of the last reconcile: [err, nils, objects]
    edited,     \* the field that was edited since then, if any
    edits       \* how many there were

vars == <<kind, stored, listed, patches, shared, queued, applied, edited, edits>>

NotReconciled == [err |-> FALSE, nils |-> {}, objects |-> {}]

Init ==
    /\ kind = Nil
    /\ stored = Empty /\ listed = Empty /\ patches = <<>>
    /\ shared = NothingShared /\ queued = FALSE
    /\ applied = NotReconciled /\ edited = {} /\ edits = 0

-----------------------------------------------------------------------------
(* The user.                                                               *)

Create(k, new) ==
    /\ kind = Nil
    /\ kind' = k /\ stored' = new.spec /\ listed' = new.tasks /\ patches' = new.patches
    /\ queued' = TRUE
    /\ UNCHANGED <<shared, applied, edited, edits>>

(* The fields of a spec that a user can reach: those of a section that is  *)
(* not there and has required fields cannot be written one by one.         *)
Deprecated == {"endpoint", "marin3r", "loadBalancer"}
RECURSIVE Fields(_, _)
Fields(T, v) ==
    UNION {CASE T[f].rule \in {"field", "secret"} -> {<<f>>}
             [] IsBlock(T[f]) -> {<<f>>} \cup {<<f, g>> : g \in T[f].fields}
             [] T[f].rule = "struct" /\ (f # "bugsnag" \/ f \in DOMAIN v) ->
                    {<<f>> \o p : p \in Fields(T[f].fields, ValueAt(v, f))}
             [] T[f].rule = "optional" /\ f \in DOMAIN v ->
                    {<<f>> \o p : p \in Fields(T[f].fields, v[f])}
             [] OTHER -> {} : f \in DOMAIN T \ Deprecated}

CanEdit == edits < MaxEdits /\ applied # NotReconciled /\ edited = {}

Edit(path, value) ==
    /\ CanEdit
    /\ Read(stored, path) # {value}
    /\ stored' = Put(stored, path, value)
    /\ queued' = TRUE /\ edited' = {path} /\ edits' = edits + 1
    /\ UNCHANGED <<kind, listed, patches, shared, applied>>

EditTask(task, path, value) ==
    /\ CanEdit
    /\ listed' = [listed EXCEPT ![task] = Put(@, path, value)]
    /\ listed' # listed
    /\ queued' = TRUE /\ edited' = {<<"tasks", task>> \o path} /\ edits' = edits + 1
    /\ UNCHANGED <<kind, stored, patches, shared, applied>>

-----------------------------------------------------------------------------
(* The controllers.                                                        *)

\* An object that is not enabled is not there, whatever its template says.
Existing(objects) == {o \in objects : o.enabled}

Defaulted == DefaultSpec(SpecOf[kind], stored)
Image == ImageOf(SpecOf[kind], stored)
Generated ==
    Concat({Resources(kind, Defaulted, patches)}
           \cup (IF kind # "System" THEN {}
                 ELSE {TaskObjects(Defaulted, TasksOf(listed, Image, shared))}))

(* An error of the generators is returned and a nil pointer panics, in     *)
(* both cases before any object has been written.                          *)
ReconcileOwnedResources(kept, generated) ==
    [generated EXCEPT !.objects = IF generated.err \/ generated.nils # {} THEN kept
                                  ELSE Existing(@)]

Reconcile(k) ==
    /\ kind = k /\ queued
    /\ queued' = FALSE
    /\ applied' = ReconcileOwnedResources(applied.objects, Generated)
    /\ shared' = IF k = "System" THEN SharedAfter(listed, Image, shared) ELSE shared
    /\ edited' = {}
    /\ UNCHANGED <<kind, stored, listed, patches, edits>>

BackendReconciler == Reconcile("Backend")
SystemReconciler == Reconcile("System")
ZyncReconciler == Reconcile("Zync")
ApicastReconciler == Reconcile("Apicast")
AutoSSLReconciler == Reconcile("AutoSSL")
MappingServiceReconciler == Reconcile("MappingService")
CORSProxyReconciler == Reconcile("CORSProxy")
EchoAPIReconciler == Reconcile("EchoAPI")
SentinelReconciler == Reconcile("Sentinel")
RedisShardReconciler == Reconcile("RedisShard")
TwemproxyConfigReconciler == Reconcile("TwemproxyConfig")

\* The operator is restarted: it lists the resources again, and its package
\* variables are as compiled.
Restart ==
    /\ shared # NothingShared
    /\ shared' = NothingShared /\ queued' = TRUE
    /\ UNCHANGED <<kind, stored, listed, patches, applied, edited, edits>>

Next ==
    \/ \E k \in DOMAIN Creations : \E new \in Creations[k] : Create(k, new)
    \/ /\ kind # Nil
       /\ LET explored == Edited(kind, stored, patches) IN
          \E path \in {p \in Fields(SpecOf[kind], stored) : p[1] \in explored} :
            \E v \in Values(SpecOf[kind], path) : Edit(path, v)
    \/ \E t \in DOMAIN listed : \E path \in Fields(SystemTektonTaskSpec, listed[t]) :
            \E v \in Values(SystemTektonTaskSpec, path) : EditTask(t, path, v)
    \/ BackendReconciler \/ SystemReconciler \/ ZyncReconciler \/ ApicastReconciler
    \/ AutoSSLReconciler \/ MappingServiceReconciler \/ CORSProxyReconciler
    \/ EchoAPIReconciler \/ SentinelReconciler \/ RedisShardReconciler
    \/ TwemproxyConfigReconciler
    \/ Restart

Spec == Init /\ [][Next]_vars

-----------------------------------------------------------------------------
(* Properties of what is applied.                                          *)

\* The objects are those of the spec as it is now stored.
Current == /\ edited = {} /\ applied # NotReconciled
           /\ ~applied.err /\ applied.nils = {}
Objs(kinds) == {o \in applied.objects : o.kind \in kinds}
Pods == Objs({"Deployment", "StatefulSet", "Task"})
WorkloadsOf(k) ==
    CASE k = "Backend" -> BackendGenerator [] k = "System" -> SystemGenerator
      [] k = "Zync" -> ZyncGenerator [] k = "Apicast" -> ApicastGenerator
      [] k = "AutoSSL" -> AutoSSLGenerator [] k = "MappingService" -> MappingServiceGenerator
      [] k = "CORSProxy" -> CORSProxyGenerator [] k = "EchoAPI" -> EchoAPIGenerator
      [] OTHER -> <<>>
Workloads(k) == {WorkloadsOf(k)[i] : i \in DOMAIN WorkloadsOf(k)}

(* The fields of accepted specs that the code dereferences without having  *)
(* set them: the name of a task (SystemSpec.Default), the type of an       *)
(* endpoint's Service (Simple.Default(), that nobody calls, would set it), *)
(* and, when a patch of the canary removed it, what ResolveCanarySpec      *)
(* writes to before it defaults, or the canary itself (Apicast).           *)
Removed(p) == \E i \in DOMAIN patches : patches[i].op = "remove" /\ IsPrefix(patches[i].path, p)
KnownNil(p) ==
    \/ p = <<"tasks", "name">> /\ Nameless \in DOMAIN listed
    \/ p[Len(p)] = "serviceType"
    \/ /\ p \in CanaryImages(kind) \cup CanaryPointers(kind)
               \cup {CanaryAt(w) : w \in Workloads(kind)}
       /\ Removed(p)

(* No other spec that the API accepts makes Default() or a generator       *)
(* dereference a nil field: the defaulting has filled every one of them,   *)
(* and the second defaulting any other that a canary's patches removed.    *)
NothingNil == \A p \in applied.nils : KnownNil(p)

(* A canary without patches runs what the main Deployment runs, but for    *)
(* its image's name and tag and its replicas, which fall back to the       *)
(* operator's default and not to the main one's: its spec is a copy that   *)
(* went through JSON and a second defaulting, and whatever they lose would *)
(* make it differ.  (Requests or limits written as {} are lost.)           *)
Own(canary, field, main) == LET own == Read(canary, <<field>>) IN IF own = {} THEN main ELSE own
Lost(w) == \E f \in {"requests", "limits"} :
                \/ Read(stored, w.at \o <<"resources", f>>) = {Blank}
                \/ Read(stored, Twemproxy \o <<"resources", f>>) = {Blank}
CanaryInherits ==
    Current /\ patches = <<>> => \A w \in Workloads(kind) :
        \A c \in Objs({"Deployment"}), o \in Objs({"Deployment"}) :
            c.name = <<CanaryName(w)>> /\ o.name = <<w.component>> /\ ~Lost(w) =>
                LET canary == At(stored, CanaryAt(w))
                    main == At(Defaulted, w.image)
                    image == (IF "imageName" \in DOMAIN canary
                              THEN [name |-> canary["imageName"]] ELSE Empty)
                             @@ (IF "imageTag" \in DOMAIN canary
                                 THEN [tag |-> canary["imageTag"]] ELSE Empty) @@ main
                IN  /\ c.body.image = {image}
                    /\ c.body.fields = [o.body.fields EXCEPT
                            ![<<"replicas">>] = Own(canary, "replicas", {Fallback})]
                    /\ \A f \in {"env", "triggers", "ports", "probePorts", "sidecar", "volumes"} :
                            c.body[f] = o.body[f]

(* Every key of a Secret that a container reads is provided by an          *)
(* ExternalSecret of the same resource or by the seed Secret, and a change *)
(* of the Secret is a change of the pods that read it.  (The patches of a  *)
(* canary and the extraEnv of a task may refer to Secrets of the user's.)  *)
Provided == UNION {{[secret |-> o.name[1], key |-> k] : k \in o.body.keys} :
                      o \in Objs({"ExternalSecret"})}
UserRefs == UNION {UNION {ExtraEnvs[x][e].valueFrom : e \in DOMAIN ExtraEnvs[x]} :
                      x \in UNION {Read(listed[t], <<"config", "extraEnv">>) : t \in DOMAIN listed}}
SecretsProvided ==
    Current /\ patches = <<>> =>
        LET provided == Provided IN
        \A o \in Pods : \A v \in o.body.env :
          \A ref \in v.valueFrom \ (IF o.kind = "Task" THEN UserRefs ELSE {}) :
            /\ ref \in provided \/ ref.secret = DefaultSeedSecret
            /\ ref.secret \in o.body.triggers \/ o.kind = "Task"

(* The objects fit together: no two have the same kind and name, probes    *)
(* and PodMonitors name ports that the pods have, and so do the Services,  *)
(* but for the ports a user gave them.                                     *)
UserPorts == UNION {UNION {UNION Read(l[i], <<"simple", "servicePorts">>) : i \in DOMAIN l} :
                        l \in {EndpointLists[t] : t \in DOMAIN EndpointLists}}
Selected(svc) == {o \in Objs({"Deployment", "StatefulSet"}) :
                      svc.body.selector \subseteq o.body.labels}
ObjectsFit ==
    Current =>
        /\ Cardinality({<<o.kind, o.name>> : o \in applied.objects}) = Cardinality(applied.objects)
        /\ \A o \in Pods : o.body.probePorts \subseteq o.body.ports
        /\ \A m \in Objs({"PodMonitor"}) : \E o \in Objs({"Deployment"}) :
                o.name = m.name /\ m.body.endpoints \ {"envoy-metrics"} \subseteq o.body.ports
        /\ \A svc \in Objs({"Service"}) :
                /\ Selected(svc) # {}
                /\ \A o \in Selected(svc) : svc.body.ports \ UserPorts \subseteq o.body.ports

(* The Services of a workload send its traffic to the main pods, and to    *)
(* the canary's if and only if its SendTraffic says so (trafficSwitcher    *)
(* changes the selector of the same Services).  Apicast's canaries are     *)
(* left out: their generator labels the pods with the canary's own name,   *)
(* so that they never get the traffic their SendTraffic asks for.          *)
ServicesOf(w) == {svc \in Objs({"Service"}) :
                      svc.body.selector \cap TrafficSelector(w, w.component) # {}}
Receives(w, name) == \A svc \in ServicesOf(w) :
                          \E o \in Selected(svc) : o.name = <<name>>
CanaryTraffic(w) == Read(stored, CanaryAt(w) \o <<"sendTraffic">>) = {"true"}
TrafficFollowsSpec ==
    Current => \A w \in {x \in Workloads(kind) : IsPublished(x)} :
        /\ Receives(w, w.component)
        /\ w.canary /\ ~w.ownTraffic /\ Has(stored, CanaryAt(w)) /\ ServicesOf(w) # {} =>
                (Receives(w, CanaryName(w)) <=> CanaryTraffic(w))

(* An edit takes effect: once it is reconciled the objects are not what    *)
(* they were, or the reconcile fails.  Ignored names the fields that reach *)
(* no object: those the controllers read themselves, those nobody reads,   *)
(* and those another setting hides.                                        *)
Sidekiqs == {"sidekiqDefault", "sidekiqBilling", "sidekiqLow"}
Unread(k, p) ==
    \/ k = "System" /\ p[1] \in Sidekiqs /\ p[2] = "readinessProbe"
    \/ k = "System" /\ p = <<"console", "nodeAffinity">>
    \/ k = "System" /\ p[1] = "tasks" /\ p[Len(p)] \in
          {"nodeAffinity", "tolerations", "terminationGracePeriodSeconds", "pullSecretName",
           "pullPolicy"}
    \/ k = "Sentinel" /\ p[1] \in {"livenessProbe", "readinessProbe"}
    \/ p[1] = "twemproxy" /\ p[Len(p)] = "pullSecretName"
ReadByController(k, p) ==
    \/ k = "Sentinel" /\ p \in {<<"config", f>> : f \in {"monitoredShards", "clusterTopology",
                                                         "metricsRefreshInterval"}}
    \/ k = "RedisShard" /\ p = <<"masterIndex">>
    \/ k = "TwemproxyConfig" /\ p[1] \in {"reconcileServerPools", "sentinelURIs"}
Sibling(p, f) == Read(stored, [p EXCEPT ![Len(p)] = f])
Hidden(k, p) ==
    \/ p[Len(p)] = "sendTraffic"                       \* of a workload without Services
          /\ \E w \in Workloads(k) : ~IsPublished(w) /\ CanaryAt(w) = SubSeq(p, 1, Len(p) - 1)
    \/ p[Len(p)] = "mode" /\ Sibling(p, "endpoints") # {}     \* that are all listed
    \/ p = <<"twemproxy", "resources">>                \* {} is the default
    \/ p[1] = "tasks" /\ Read(listed, <<p[2], "enabled">>) = {"false"}
HonoursEdits ==
    [][\A p \in edited : edited' = {} =>
          \/ applied' # applied \/ applied'.err \/ applied'.nils # {}
          \/ Unread(kind, p) \/ ReadByController(kind, p) \/ Hidden(kind, p)]_vars

(* A task runs the image its spec names, filled from the System's image.   *)
(* A default task that is not listed does so only in the first reconcile   *)
(* of the process: its Config is shared, and keeps the image it got then.  *)
TaskImages ==
    [][edited' = {} /\ applied' # applied /\ ~applied'.err /\ applied'.nils = {} =>
        \A o \in {x \in applied'.objects : x.kind = "Task"} :
            LET t == o.name[1]
                Says(f) == IF t \in DOMAIN listed /\ Has(listed[t], <<"config", "image", f>>)
                           THEN At(listed[t], <<"config", "image", f>>) ELSE Image[f]
            IN  t \in DOMAIN listed \/ shared[t] = {} =>
                    \A f \in {"name", "tag"} : o.body.image[f] = {Says(f)}]_vars
=============================================================================
