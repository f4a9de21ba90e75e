--------------------------- MODULE CustomResource ---------------------------
(***************************************************************************)
(* From a custom resource to its objects: the canaries' specs are resolved *)
(* (ResolveCanarySpec), every workload and its canary become a Deployment  *)
(* with its satellites and Services (deployment_workload.New), and the     *)
(* rest of the generators' Resources() is added.                           *)
(*                                                                         *)
(* The outcome is [err, nils, objects]: whether an error is returned, the  *)
(* nil fields that are dereferenced on the way (each of them a panic), and *)
(* the objects otherwise.                                                  *)
(***************************************************************************)
EXTENDS Generators

CONSTANT EndpointLists    \* the lists of endpoints a user may give, by their token

Objects(nils, objects) == [err |-> FALSE, nils |-> nils, objects |-> objects]
Failed == [err |-> TRUE, nils |-> {}, objects |-> {}]
Concat(outcomes) ==
    [err |-> \E o \in outcomes : o.err, nils |-> UNION {o.nils : o \in outcomes},
     objects |-> UNION {o.objects : o \in outcomes}]
Object(kind, name, enabled, body) ==
    [kind |-> kind, name |-> name, enabled |-> enabled, body |-> body]

-----------------------------------------------------------------------------
(* Pods.                                                                   *)

\* The fields of Image(), ImagePullSecrets() and ImagePullPolicy.
ImageDerefs == {"name", "tag", "pullPolicy"}
NilImage(s, image) == {image \o <<f>> : f \in {g \in ImageDerefs : ~Has(s, image \o <<g>>)}}
NilProbe(s, probe) == IF ~Has(s, probe) \/ IsDeactivated(At(s, probe)) THEN {}
                      ELSE {probe \o <<f>> : f \in ProbeFields \ DOMAIN At(s, probe)}

Twemproxy == <<"twemproxy">>
TwemproxyDerefs == {<<"image">>, <<"resources">>, <<"livenessProbe">>, <<"readinessProbe">>,
                    <<"options", "metricsAddress">>, <<"options", "statsInterval">>}
TwemproxyContainer(s) ==
    [image |-> [f \in ImageDerefs |-> Read(s, Twemproxy \o <<"image", f>>)],
     fields |-> [p \in (TwemproxyDerefs \ {<<"image">>})
                       \cup {<<"options", "logLevel">>, <<"twemproxyConfigRef">>} |->
                    Read(s, Twemproxy \o p)]]
TwemproxyNils(s) ==
    {p \in {Twemproxy \o q : q \in TwemproxyDerefs} : ~Has(s, p)}
    \cup NilImage(s, Twemproxy \o <<"image">>)
    \cup NilProbe(s, Twemproxy \o <<"livenessProbe">>)
    \cup NilProbe(s, Twemproxy \o <<"readinessProbe">>)

HasTwemproxy(w, s) == w.twemproxy /\ Has(s, Twemproxy)
AddTwemproxySidecar(w, s, pod) ==
    IF ~HasTwemproxy(w, s) THEN pod
    ELSE [pod EXCEPT !.ports = @ \cup {"twemproxy", "twem-metrics"},
                     !.sidecar = {TwemproxyContainer(s)},
                     !.volumes = @ \cup {"twemproxy-config"}]

ExtraEnv(w, s) ==
    [e \in {x \in DOMAIN w.extra : Has(s, w.extra[x])} |-> Extra(At(s, w.extra[e]), {})]
ProbePorts(w, s) ==
    {probe[1] : probe \in {p \in {w.pod.liveness, w.pod.readiness} \ {NoProbe} :
        /\ p[1] # Number
        /\ Read(s, w.at \o <<p[2]>>) # {Empty}}}

PodTemplate(w, s, labels) ==
    LET opts == Options(w.declared, s)
        own == [image |-> Read(s, w.image), labels |-> labels,
                fields |-> [p \in w.pod.reads \cup w.pod.derefs |-> Read(s, w.at \o p)],
                env |-> BuildEnvironment(WithExtraEnv(opts, ExtraEnv(w, s))),
                triggers |-> GenerateRolloutTriggers(opts, UNION {Read(s, p) : p \in w.secrets}),
                ports |-> w.pod.ports, probePorts |-> ProbePorts(w, s), sidecar |-> {},
                volumes |-> w.pod.volumes]
    IN  AddTwemproxySidecar(w, s, own)

Nils(w, s) ==
    {p \in {w.at \o q : q \in w.pod.derefs} \cup w.secrets : ~Has(s, p)}
    \cup NilImage(s, w.image)
    \cup NilProbe(s, w.at \o <<w.pod.liveness[2]>>) \cup NilProbe(s, w.at \o <<w.pod.readiness[2]>>)
    \cup (IF HasTwemproxy(w, s) THEN TwemproxyNils(s) ELSE {})
    \cup (IF w.scaled THEN {p \in {w.at \o <<"hpa">>, w.at \o <<"pdb">>} : ~Has(s, p)} ELSE {})

-----------------------------------------------------------------------------
(* A Deployment and what goes with it (workloadResources).  The pods of a  *)
(* workload that may receive traffic carry its TrafficSelector.            *)

IsPublished(w) == w.endpoints # <<>>
TrafficSelector(w, name) ==
    {<<"traffic", IF w.ownTraffic THEN name ELSE w.traffic>>}
GetSelector(name) == {<<"deployment", name>>}
Labels(w, name) ==
    GetSelector(name) \cup (IF IsPublished(w) THEN TrafficSelector(w, name) ELSE {})

PDBSpec(w, s, canary) == IF ~w.scaled \/ canary THEN {Empty} ELSE Read(s, w.at \o <<"pdb">>)
HPASpec(w, s, canary) == IF ~w.scaled \/ canary THEN {Empty} ELSE Read(s, w.at \o <<"hpa">>)
NewPDB(cfg) == IF "minAvailable" \in DOMAIN cfg THEN [minAvailable |-> cfg["minAvailable"]]
               ELSE cfg
PodMonitorEndpoints(w, s) ==
    IF w.monitored # {} /\ HasTwemproxy(w, s) THEN w.monitored \cup {"twem-metrics"}
    ELSE w.monitored

workloadResources(w, name, s, canary) ==
    {Object("Deployment", <<name>>, TRUE, PodTemplate(w, s, Labels(w, name)))}
    \cup {Object("PodDisruptionBudget", <<name>>, ~IsDeactivated(cfg), NewPDB(cfg)) :
            cfg \in PDBSpec(w, s, canary)}
    \cup {Object("HorizontalPodAutoscaler", <<name>>, ~IsDeactivated(cfg), cfg) :
            cfg \in HPASpec(w, s, canary)}
    \cup {Object("PodMonitor", <<name>>, PodMonitorEndpoints(w, s) # {},
                 [endpoints |-> PodMonitorEndpoints(w, s)])}

\* Mutant: the canary is not asked whether it is sent traffic.
trafficSwitcherShared(w, name, canary) == TrafficSelector(w, name)
\* The Service's selector, from the workloads that are sent traffic.
trafficSwitcher(w, name, canary) ==
    IF canary = {} THEN GetSelector(name) \cup TrafficSelector(w, name)
    ELSE TrafficSelector(w, name)

(* The endpoints become Services; a Marin3r one also adds its sidecar to   *)
(* every Deployment and an EnvoyConfig, and is an error without a section  *)
(* of its own, while a missing serviceType is dereferenced.                *)
Endpoints(w, s) ==
    LET at == w.at \o <<"publishingStrategies">>
        list == Read(s, at \o <<"endpoints">>)
    IN  MergeWithDefaultPublishingStrategy(w.endpoints,
            IF Read(s, at \o <<"mode">>) = {"Replace"} THEN "Replace" ELSE "Merge",
            IF list \in {{}, {Fallback}} THEN <<>> ELSE EndpointLists[CHOOSE t \in list : TRUE])

Sidecars(list) == {e \in {list[i] : i \in DOMAIN list} : e["strategy"] = Marin3rSidecarStrategy}
EnvoyConfig(w, e) ==
    Object("EnvoyConfig", <<w.component>>, AsList(e["marin3rSidecar"]) # {},
           [nodeID |-> nodeIDAnnotation(w.component, e["marin3rSidecar"]),
            configs |-> AsList(e["marin3rSidecar"])])
WithSidecars(o, sidecars) ==
    IF o.kind # "Deployment" THEN o
    ELSE [o EXCEPT !.body = @ @@ [marin3r |-> {AddMarin3rSidecar(o.name[1], e["marin3rSidecar"]) :
                                                 e \in sidecars}]]

(* canary is the set of the names of the canaries that are sent traffic,   *)
(* workloads the objects of the workload and of its canary.                *)
Publish(w, s, workloads, canary) ==
    LET merged == Endpoints(w, s)
        list == merged.list
        sidecars == Sidecars(list)
        untyped == {i \in DOMAIN list : ~HasServiceType(list[i])}
    IN  CASE ~IsPublished(w) -> Objects({}, workloads)
          [] merged.err \/ \E e \in sidecars : "marin3rSidecar" \notin DOMAIN e -> Failed
          [] untyped # {} -> Objects({w.at \o <<"publishingStrategies", "serviceType">>}, {})
          [] OTHER -> Objects({}, {WithSidecars(o, sidecars) : o \in workloads}
                \cup {EnvoyConfig(w, e) : e \in sidecars}
                \cup {LET opts == ServiceOptions(w.component, list[i])
                      IN  Object("Service", opts.name, TRUE,
                                 [annotations |-> opts.annotations, ports |-> opts.ports,
                                  selector |-> trafficSwitcher(w, w.component, canary)]) :
                        i \in DOMAIN list})

-----------------------------------------------------------------------------
(* ResolveCanarySpec: the patched copy of the spec, with the canary's own  *)
(* image and replicas, defaulted again.  The image is assigned through its *)
(* pointer, and so are the replicas of the sections that are pointers: a   *)
(* patch that removes one of them leads to a nil dereference.              *)

CanaryAt(w) == w.at \o <<"canary">>
CanaryImages(kind) == IF kind = "Apicast" THEN {<<"staging", "image">>, <<"production", "image">>}
                      ELSE {<<"image">>}
CanaryReplicas(kind) ==
    CASE kind = "Backend" -> {<<"listener">>, <<"worker">>, <<"cron">>}
      [] kind = "System"  -> {<<"app">>, <<"sidekiqDefault">>, <<"sidekiqBilling">>,
                              <<"sidekiqLow">>}
      [] kind = "Apicast" -> {<<"staging">>, <<"production">>}
      [] OTHER            -> {<<>>}
CanaryPointers(kind) ==
    CASE kind = "Backend" -> {<<"worker">>, <<"cron">>}
      [] kind = "System"  -> CanaryReplicas(kind)
      [] OTHER            -> {}

RECURSIVE PutAll(_, _, _)
PutAll(doc, paths, x) ==
    IF paths = {} THEN doc
    ELSE LET p == CHOOSE q \in paths : TRUE IN PutAll(Put(doc, p, x), paths \ {p}, x)
RECURSIVE DropAll(_, _)
DropAll(doc, paths) ==
    IF paths = {} THEN doc
    ELSE LET p == CHOOSE q \in paths : TRUE
         IN  DropAll(IF Has(doc, p) THEN Drop(doc, p) ELSE doc, paths \ {p})

\* Assigns the canary's field to the paths; a nil replicas is assigned as well.
Assign(doc, paths, value) == IF value = {} THEN doc
                             ELSE PutAll(doc, paths, CHOOSE v \in value : TRUE)
Suffixed(paths, f) == {p \o <<f>> : p \in paths}

CanaryNils(kind, doc, canary) ==
    {p \in CanaryImages(kind) : ("imageName" \in DOMAIN canary \/ "imageTag" \in DOMAIN canary)
                                /\ ~Has(doc, p)}
    \cup {p \in CanaryPointers(kind) : ~Has(doc, p)}

\* Mutant: the canary's spec is not defaulted again.
ResolveCanarySpecUndefaulted(kind, doc, canary) ==
    LET replicas == Suffixed(CanaryReplicas(kind), "replicas")
        tagged == Assign(doc, Suffixed(CanaryImages(kind), "tag"), Read(canary, <<"imageTag">>))
    IN  Assign(DropAll(tagged, replicas), replicas, Read(canary, <<"replicas">>))
ResolveCanarySpec(kind, doc, canary) ==
    LET image == CanaryImages(kind)
        replicas == Suffixed(CanaryReplicas(kind), "replicas")
        named == Assign(doc, Suffixed(image, "name"), Read(canary, <<"imageName">>))
        tagged == Assign(named, Suffixed(image, "tag"), Read(canary, <<"imageTag">>))
    IN  DefaultSpec(SpecOf[kind],
            Assign(DropAll(tagged, replicas), replicas, Read(canary, <<"replicas">>)))

(* deployment_workload.New for one workload and the canary the generator   *)
(* gives it, if its spec has one.                                          *)
CanaryName(w) == w.component \o "-canary"
\* Apicast takes SendTraffic from the resolved spec, the others from the resource's.
SendTraffic(kind, w, s, resolved) ==
    Read(IF kind = "Apicast" THEN resolved ELSE s, CanaryAt(w) \o <<"sendTraffic">>)
DeploymentWorkload(kind, w, s, patches) ==
    LET canary == At(s, CanaryAt(w))
        main == workloadResources(w, w.component, s, FALSE)
        patched == PatchSpec(SpecOf[kind], s, patches)
        nils == CanaryNils(kind, patched.doc, canary)
                \cup {p \in {CanaryAt(w)} : kind = "Apicast" /\ ~Has(patched.doc, p)}
        resolved == ResolveCanarySpec(kind, patched.doc, canary)
        sent == IF SendTraffic(kind, w, s, resolved) = {"true"} THEN {CanaryName(w)} ELSE {}
    IN  CASE ~w.canary \/ ~Has(s, CanaryAt(w)) ->
                Concat({Objects(Nils(w, s), {}), Publish(w, s, main, {})})
          [] patched.err -> Failed
          [] nils # {} -> Objects(nils, {})
          [] OTHER -> Concat({Objects(Nils(w, s) \cup Nils(w, resolved), {}),
                Publish(w, s, main \cup workloadResources(w, CanaryName(w), resolved, TRUE), sent)})

-----------------------------------------------------------------------------
(* The rest of Resources(): StatefulSets, ExternalSecrets and dashboards.  *)

StatefulSetObjects(g, s) ==
    LET on == Read(s, g.enabled) = {"true"} \/ (Read(s, g.enabled) = {Fallback} /\ g.on) IN
    Objects(Nils(g.w, s) \cup {p \in {g.enabled} : ~Has(s, p)},
            {Object("StatefulSet", <<g.w.component>>, on,
                    PodTemplate(g.w, s, GetSelector(g.w.component)))}
            \cup {Object("Service", <<g.w.component>>, on,
                         [annotations |-> {}, ports |-> g.w.pod.ports,
                          selector |-> GetSelector(g.w.component)]) : x \in {y \in {g} : y.serviced}})

Dashboards(s, names) ==
    {Object("GrafanaDashboard", <<n>>, ~IsDeactivated(s["grafanaDashboard"]),
            s["grafanaDashboard"]) : n \in names}

Store == <<"config", "externalSecret">>
StoreFields == {Store \o <<"refreshInterval">>, Store \o <<"secretStoreRef", "name">>,
                Store \o <<"secretStoreRef", "kind">>}
ExternalSecrets(s, lists) ==
    Objects({p \in StoreFields : ~Has(s, p)},
            {[o EXCEPT !.name = <<@>>] : o \in
                GenerateExternalSecrets(Union([i \in DOMAIN lists |-> Options(lists[i], s)]),
                                        [p \in StoreFields |-> Read(s, p)])})

Deployments(kind, generators, s, patches) ==
    {DeploymentWorkload(kind, generators[i], s, patches) : i \in DOMAIN generators}
StatefulSets(generators, s) == {StatefulSetObjects(generators[i], s) : i \in DOMAIN generators}

\* Mutant: the worker's variables are left out of the ExternalSecrets.
BackendResourcesWithoutWorkerSecrets(s, patches) ==
    Deployments("Backend", BackendGenerator, s, patches)
    \cup {ExternalSecrets(s, <<NewListenerOptions, NewCronOptions>>),
          Objects({}, Dashboards(s, {"backend"}))}
BackendResources(s, patches) ==
    Deployments("Backend", BackendGenerator, s, patches)
    \cup {ExternalSecrets(s, <<NewListenerOptions, NewWorkerOptions, NewCronOptions>>),
          Objects({}, Dashboards(s, {"backend"}))}
SystemResources(s, patches) ==
    Deployments("System", SystemGenerator, s, patches) \cup StatefulSets(SystemStatefulSets, s)
    \cup {ExternalSecrets(s, <<NewSystemOptions>>), Objects({}, Dashboards(s, {"system"}))}
ZyncResources(s, patches) ==
    Deployments("Zync", ZyncGenerator, s, patches) \cup StatefulSets(ZyncStatefulSets, s)
    \cup {ExternalSecrets(s, <<NewAPIOptions, NewQueOptions>>),
          Objects({}, Dashboards(s, {"zync"}))}
ApicastResources(s, patches) ==
    Deployments("Apicast", ApicastGenerator, s, patches)
    \cup {Objects({}, Dashboards(s, {"apicast", "apicast-services"}))}
AutoSSLResources(s, patches) ==
    Deployments("AutoSSL", AutoSSLGenerator, s, patches)
    \cup {Objects({}, Dashboards(s, {"autossl"}))}
MappingServiceResources(s, patches) ==
    Deployments("MappingService", MappingServiceGenerator, s, patches)
    \cup {ExternalSecrets(s, <<NewMappingServiceOptions>>),
          Objects({}, Dashboards(s, {"mapping-service"}))}
CORSProxyResources(s, patches) ==
    Deployments("CORSProxy", CORSProxyGenerator, s, patches)
    \cup {ExternalSecrets(s, <<NewCORSProxyOptions>>),
          Objects({}, Dashboards(s, {"cors-proxy"}))}
EchoAPIResources(s, patches) == Deployments("EchoAPI", EchoAPIGenerator, s, patches)

(* Sentinel's PodDisruptionBudget is created even when it is deactivated.  *)
(* Each of its pods has a Service of its own, which selects it by the name *)
(* that Kubernetes labels it with: here one of them stands for all.        *)
HeadlessService(name, labels) ==
    Object("Service", name, TRUE, [annotations |-> {}, ports |-> {}, selector |-> labels])
ConfigMaps(names) == {Object("ConfigMap", <<n>>, TRUE, Empty) : n \in names}
podServices == {<<"pod-name", "redis-sentinel">>}
SentinelResources(s) ==
    LET labels == GetSelector("redis-sentinel") IN
    {Objects(Nils(SentinelGenerator, s),
        {Object("StatefulSet", <<"redis-sentinel">>, TRUE,
                PodTemplate(SentinelGenerator, s, labels \cup podServices)),
         HeadlessService(<<"redis-sentinel", "headless">>, labels),
         Object("PodDisruptionBudget", <<"redis-sentinel">>, TRUE, NewPDB(s["pdb"])),
         Object("Service", <<"redis-sentinel", "pod">>, TRUE,
                [annotations |-> {}, ports |-> {"redis-sentinel"}, selector |-> podServices])}
        \cup ConfigMaps({"redis-sentinel-gen-config"})
        \cup Dashboards(s, {"redis-sentinel"}))}
RedisShardResources(s) ==
    LET labels == GetSelector("redis-shard") IN
    {Objects(Nils(RedisShardGenerator, s) \cup {p \in {<<"masterIndex">>} : ~Has(s, p)},
        {Object("StatefulSet", <<"redis-shard">>, TRUE, PodTemplate(RedisShardGenerator, s, labels)),
         HeadlessService(<<"redis-shard">>, labels)}
        \cup ConfigMaps({"redis-config", "redis-readiness-script"}))}
TwemproxyConfigResources(s) == {Objects({}, Dashboards(s, {"twemproxy"}))}

Resources(kind, s, patches) ==
    Concat(CASE kind = "Backend" -> BackendResources(s, patches)
             [] kind = "System" -> SystemResources(s, patches)
             [] kind = "Zync" -> ZyncResources(s, patches)
             [] kind = "Apicast" -> ApicastResources(s, patches)
             [] kind = "AutoSSL" -> AutoSSLResources(s, patches)
             [] kind = "MappingService" -> MappingServiceResources(s, patches)
             [] kind = "CORSProxy" -> CORSProxyResources(s, patches)
             [] kind = "EchoAPI" -> EchoAPIResources(s, patches)
             [] kind = "Sentinel" -> SentinelResources(s)
             [] kind = "RedisShard" -> RedisShardResources(s)
             [] kind = "TwemproxyConfig" -> TwemproxyConfigResources(s))
=============================================================================
