----------------------------- MODULE Publishing -----------------------------
(***************************************************************************)
(* How the endpoints of a workload are published: the list the user gives  *)
(* is merged with the workload's own endpoints, and each of the result     *)
(* becomes a Service, with a Marin3r sidecar where it asks for one.        *)
(*                                                                         *)
(* An endpoint is a function from the fields that are set, as specs are in *)
(* ApiDefaults: its name, its strategy, and the sections "simple" and      *)
(* "marin3rSidecar" (in which the fields of Simple are inline).            *)
(***************************************************************************)
EXTENDS ApiDefaults

SimpleStrategy == "Simple"
Marin3rSidecarStrategy == "Marin3rSidecar"

\* An endpoint a workload has by itself, published as a ClusterIP on these ports.
DefaultEndpoint(name, ports) ==
    [name |-> name, strategy |-> SimpleStrategy, simple |-> [serviceType |-> "ClusterIP"],
     ports |-> ports]

Sections == {"simple", "marin3rSidecar"}
IsCreated(e) == "create" \in DOMAIN e /\ e["create"] = "true"
Named(name, list) == {i \in DOMAIN list : list[i]["name"] = name}
FirstNamed(name, list) == CHOOSE i \in Named(name, list) : \A j \in Named(name, list) : i <= j

(* mergo.Merge with nullTransformer: what the user set overrides, section  *)
(* by section.                                                             *)
nullTransformer(def, e) ==
    [f \in DOMAIN def \cup DOMAIN e |->
        CASE f \notin DOMAIN e -> def[f]
          [] f \in DOMAIN e /\ f \in DOMAIN def /\ f \in Sections -> e[f] @@ def[f]
          [] OTHER -> e[f]]

\* The section of the strategy that is not used is dropped after a merge.
Unused(e) == IF e["strategy"] = SimpleStrategy THEN "marin3rSidecar" ELSE "simple"
Cleanup(list) == [i \in DOMAIN list |->
                    [f \in DOMAIN list[i] \ {Unused(list[i])} |-> list[i][f]]]

\* The endpoints the workload does not know and that are not to be created.
Unknown(defaults, endpoints) ==
    {i \in DOMAIN endpoints : /\ Named(endpoints[i]["name"], defaults) = {}
                              /\ ~IsCreated(endpoints[i])}

\* What the workload exposes under an endpoint's name, nothing for a new one.
PortsOf(defaults, e) == IF Named(e["name"], defaults) = {} THEN {}
                        ELSE defaults[FirstNamed(e["name"], defaults)]["ports"]

(* The merged list and the workload's own share their elements until the  *)
(* first endpoint is added, and the section "simple" even afterwards.      *)
RECURSIVE MergeAll(_, _, _)
MergeAll(defaults, out, endpoints) ==
    IF endpoints = <<>> THEN out
    ELSE LET e == Head(endpoints)
             i == FirstNamed(e["name"], defaults)
             merged == nullTransformer(defaults[i], e)
             kept == IF Len(out) = Len(defaults) THEN merged
                     ELSE [defaults[i] EXCEPT !["simple"] = merged["simple"]]
         IN  IF Named(e["name"], defaults) # {}
             THEN MergeAll([defaults EXCEPT ![i] = kept], [out EXCEPT ![i] = merged],
                           Tail(endpoints))
             ELSE MergeAll(defaults, Append(out, [ports |-> {}] @@ e), Tail(endpoints))

MergeWithDefaultPublishingStrategy(defaults, mode, endpoints) ==
    IF Unknown(defaults, endpoints) # {} THEN [err |-> TRUE, list |-> <<>>]
    ELSE [err |-> FALSE,
          list |-> IF mode = "Replace"
                   THEN [i \in DOMAIN endpoints |->
                            [ports |-> PortsOf(defaults, endpoints[i])] @@ endpoints[i]]
                   ELSE Cleanup(MergeAll(defaults, defaults, endpoints))]

-----------------------------------------------------------------------------
(* ServiceDescriptor.Service: the section's serviceType is dereferenced,   *)
(* and the load balancer's configuration is defaulted here.                *)

Section(e) == IF e["strategy"] = SimpleStrategy THEN "simple" ELSE "marin3rSidecar"
Suffix(e) == IF e["strategy"] = SimpleStrategy THEN "svc" ELSE "marin3r"
HasServiceType(e) == Section(e) \in DOMAIN e /\ "serviceType" \in DOMAIN e[Section(e)]

LoadBalancerSuffix(type) == CASE type = "ELB" -> "elb" [] type = "NLB" -> "nlb" [] OTHER -> ""

\* Mutant: the endpoint's name is not part of the Service's.
ServiceNameWithoutEndpoint(prefix, e) ==
    <<prefix, Suffix(e), LoadBalancerSuffix(e[Section(e)]["serviceType"])>>
\* The name is made of the workload's, the endpoint's and the strategy's names.
ServiceName(prefix, e) ==
    LET spec == e[Section(e)] IN
    IF "serviceName" \in DOMAIN spec THEN <<spec["serviceName"]>>
    ELSE <<prefix, e["name"], Suffix(e), LoadBalancerSuffix(spec["serviceType"])>>

ELBServiceAnnotations(spec) ==
    [hostnames |-> Read(spec, <<"externalDnsHostnames">>),
     config |-> ValueAt(spec, "elasticLoadBalancerConfig") @@ DefaultElasticLoadBalancerSpec]
NLBServiceAnnotations(spec) ==
    [hostnames |-> Read(spec, <<"externalDnsHostnames">>),
     config |-> ValueAt(spec, "networkLoadBalancerConfig") @@ DefaultNetworkLoadBalancerSpec]

ServiceOptions(prefix, e) ==
    LET spec == e[Section(e)]
        type == spec["serviceType"]
    IN  [name |-> ServiceName(prefix, e),
         annotations |-> CASE type = "ELB" -> {ELBServiceAnnotations(spec)}
                           [] type = "NLB" -> {NLBServiceAnnotations(spec)}
                           [] OTHER -> {},
         ports |-> IF "servicePorts" \in DOMAIN spec THEN spec["servicePorts"] ELSE e["ports"]]

-----------------------------------------------------------------------------
(* Marin3r: the annotations that make the sidecar be injected, and the     *)
(* EnvoyConfig it is configured by, which are matched by the node id.      *)

nodeIDAnnotation(name, sidecar) == IF "nodeID" \in DOMAIN sidecar THEN sidecar["nodeID"] ELSE name

AnnotatedFields == {"envoyImage", "envoyAPIVersion", "shtdnmgrPort", "resources", "ports",
                    "shtdnmgrExtraLifecycleHooks", "extraPodAnnotations"}
AddMarin3rSidecar(name, sidecar) ==
    [nodeID |-> nodeIDAnnotation(name, sidecar),
     annotations |-> [f \in DOMAIN sidecar \cap AnnotatedFields |-> sidecar[f]]]

AsList(sidecar) == IF "dynamicConfigs" \in DOMAIN sidecar THEN sidecar["dynamicConfigs"] ELSE {}
=============================================================================
