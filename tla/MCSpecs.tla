------------------------------ MODULE MCSpecs ------------------------------
(***************************************************************************)
(* Instances of SpecReconcile: the resources users create, one for every   *)
(* optional part of every kind, and one edit of one of their fields.       *)
(***************************************************************************)
EXTENDS SpecReconcile

-----------------------------------------------------------------------------
(* Endpoints.                                                              *)

Published(name, section, spec) == ("name" :> name) @@ ("strategy" :> section)
    @@ ((IF section = SimpleStrategy THEN "simple" ELSE "marin3rSidecar") :> spec)
ListsFor(name) ==
    (("nlb " \o name) :> <<Published(name, SimpleStrategy,
        [serviceType |-> "NLB", externalDnsHostnames |-> "base",
         networkLoadBalancerConfig |-> [loadBalancerName |-> "base"]])>>)
    @@ (("marin3r " \o name) :> <<Published(name, Marin3rSidecarStrategy,
        [serviceType |-> "ELB", ports |-> "base", dynamicConfigs |-> {"base"}])>>)
    @@ (("untyped " \o name) :> <<Published(name, SimpleStrategy, [serviceName |-> "base"])>>)
MCEndpointLists ==
    ListsFor("HTTP") @@ ListsFor("Gateway") @@ ListsFor("Proxy")
    @@ ("added" :> <<[create |-> "true"] @@ Published("Added", SimpleStrategy,
                        [serviceType |-> "ClusterIP", servicePorts |-> {"base"}])>>)
    @@ ("unknown" :> <<Published("Unknown", SimpleStrategy, [serviceType |-> "ClusterIP"])>>)

-----------------------------------------------------------------------------
(* Specs: the required fields, or all the fields that have no default.     *)

Required ==
    {"redisStorageDSN", "redisQueuesDSN", "systemEventsHookURL", "systemEventsHookPassword",
     "internalAPIUser", "internalAPIPassword", "databaseDSN", "eventsSharedSecret",
     "secretKeyBase", "databaseSecret", "memcachedServers", "mappingServiceAccessToken",
     "publicKey", "privateKey", "deletionWorkspace", "deletionToken", "writeKey", "clientID",
     "clientSecret", "queuesDSN", "address", "user", "password", "port", "authProtocol",
     "opensslVerifyMode", "authToken", "endpoint", "externalEndpoint", "internalEndpoint",
     "redisDSN", "bucket", "region", "accessKey", "secretKey", "zyncAuthToken",
     "configurationCache", "threescalePortalEndpoint", "contactEmail", "proxyEndpoint",
     "verificationEndpoint", "redisHost", "apiHost", "systemAdminToken", "systemDatabaseDSN",
     "monitoredShards", "clusterTopology"}

RECURSIVE Document(_, _)
Document(T, optional) ==
    LET Written(f) == \/ /\ T[f].rule \in {"field", "secret"} /\ T[f].def = Nil
                         /\ f \in Required \/ optional
                      \/ T[f].rule = "struct" /\ Document(T[f].fields, optional) # Empty
                         /\ (f # "bugsnag" \/ optional)
        Content(f) == CASE T[f].rule = "field" -> "base"
                        [] T[f].rule = "secret" -> "vault"
                        [] OTHER -> Document(T[f].fields, optional)
    IN  [f \in {g \in DOMAIN T : Written(g)} |-> Content(f)]

\* The consoles are off by default: here they are on, so that edits can be seen.
WithConsole(k, spec) ==
    CASE k = "System" -> Put(spec, <<"config", "rails", "console">>, "true")
      [] k = "Zync" -> Put(spec, <<"console", "enabled">>, "true")
      [] OTHER -> spec
Minimal == [k \in Kinds |-> WithConsole(k, Document(SpecOf[k], FALSE))]
Full == [k \in Kinds |-> WithConsole(k, Document(SpecOf[k], TRUE))]

-----------------------------------------------------------------------------
(* The optional parts.                                                     *)

New(spec, tasks, ps) == [spec |-> spec, tasks |-> tasks, patches |-> ps]
Plain(spec) == New(spec, Empty, <<>>)

Canaries == {[sendTraffic |-> "true"],
             [sendTraffic |-> "false", imageName |-> "canary", imageTag |-> "canary",
              replicas |-> "canary"]}
WithTwemproxy(w, spec) ==
    IF w.twemproxy THEN Put(spec, Twemproxy, [twemproxyConfigRef |-> "base"]) ELSE spec
WithCanary(k, w, c) == WithTwemproxy(w, Put(Minimal[k], CanaryAt(w), c))

Nlb(w) == "nlb " \o w.endpoints[1]["name"]
Marin3r(w) == "marin3r " \o w.endpoints[1]["name"]
TokensFor(w) == {Nlb(w), Marin3r(w), "untyped " \o w.endpoints[1]["name"], "added", "unknown"}
Strategies(tokens, replaced) == {[endpoints |-> t] : t \in tokens}
                                \cup {[endpoints |-> t, mode |-> "Replace"] : t \in replaced}

(* A change of the image and of a field, both of them there once           *)
(* defaulted, one of a field that is not, and the removal of any section.  *)
Remove(path) == [op |-> "remove", path |-> path, value |-> "patched"]
Removals(k, w, spec) ==
    LET s == DefaultSpec(SpecOf[k], spec)
    IN  {<<Remove(p)>> : p \in {<<f>> : f \in DOMAIN s}
                               \cup {w.at \o <<f>> : f \in DOMAIN At(s, w.at)}}
Patches(w) ==
    {<<[op |-> "replace", path |-> w.image \o <<"tag">>, value |-> "patched"],
       Remove(w.at \o <<"hpa", "minReplicas">>)>>,
     <<[op |-> "replace", path |-> w.at \o <<"absent">>, value |-> "patched"]>>}

\* A new variable and one the System has, both with references.
UserRef(env) == Extra(NoValue, {[secret |-> "user", key |-> env]})
MCExtraEnvs ==
    [base |-> [EXTRA |-> UserRef("EXTRA"), SECRET_KEY_BASE |-> UserRef("SECRET_KEY_BASE")],
     edited |-> [EXTRA |-> Extra("edited", {})]]
TaskLists ==
    {"system-db-migrate" :> Empty,
     "system-db-migrate" :> [config |-> [extraEnv |-> "base"]],
     "system-searchd-reindex" :> [config |-> [extraEnv |-> "base"]],
     Nameless :> Empty,
     ("custom" :> [config |-> [image |-> [tag |-> "task"]]])
     @@ ("system-backend-sync" :> [enabled |-> "false"])}

CanaryCreations(k) ==
    UNION {UNION {{Plain(WithCanary(k, w, c))}
                  \cup {New(WithCanary(k, w, c), Empty, ps) :
                           ps \in Removals(k, w, WithCanary(k, w, c))} : c \in Canaries}
           \cup (IF ~IsPublished(w) THEN {}
                 ELSE {New(WithCanary(k, w, [sendTraffic |-> "true"]), Empty, ps) :
                          ps \in Patches(w)}) :
            w \in {x \in Workloads(k) : x.canary}}
StrategyCreations(k) ==
    LET With(w, spec, strategies) ==
            {Plain(Put(spec, w.at \o <<"publishingStrategies">>, y)) : y \in strategies}
    IN  UNION {With(w, Minimal[k], Strategies(TokensFor(w), {Nlb(w), Marin3r(w)}))
               \cup (IF ~w.canary THEN {}
                     ELSE With(w, WithCanary(k, w, [sendTraffic |-> "true"]),
                               Strategies({Marin3r(w)}, {Nlb(w)}))) :
                w \in {x \in Workloads(k) : IsPublished(x)}}
TaskCreations(k) ==
    IF k # "System" THEN {}
    ELSE {New(Put(Minimal[k], <<"image", "tag">>, "base"), tasks, <<>>) : tasks \in TaskLists}
MCCreations ==
    [k \in Kinds |-> {Plain(Minimal[k]), Plain(Full[k])}
        \cup CanaryCreations(k) \cup StrategyCreations(k) \cup TaskCreations(k)]

-----------------------------------------------------------------------------
(* Edits.                                                                  *)

RECURSIVE RuleAt(_, _)
RuleAt(T, path) ==
    CASE Len(path) = 1 -> T[path[1]]
      [] IsBlock(T[path[1]]) -> Field(Nil)
      [] OTHER -> RuleAt(T[path[1]].fields, Tail(path))

(* Every field of a resource without optional parts or with all of them;   *)
(* of one with an optional part, the section the part is in and what its   *)
(* canary copies from elsewhere; none of one whose canary's patch is a     *)
(* removal.                                                                *)
Differing(spec, other) == {f \in DOMAIN spec : Read(spec, <<f>>) # Read(other, <<f>>)}
MCEdited(k, spec, ps) ==
    CASE spec \in {Minimal[k], Full[k]} -> DOMAIN SpecOf[k]
      [] ps # <<>> /\ Head(ps).op = "remove" -> {}
      [] OTHER -> {"image", "twemproxy"} \cup Differing(spec, Minimal[k])
                  \cup (IF k = "System" THEN {} ELSE {"config"})

Deactivated == {"hpa", "pdb", "livenessProbe", "readinessProbe", "grafanaDashboard", "resources"}
MCValues(T, path) ==
    LET f == path[Len(path)]
        rule == RuleAt(T, path)
    IN  CASE rule.rule = "secret" -> {"vault", "seed", "override"}
          [] IsBlock(rule) -> {Empty : x \in Deactivated \cap {f}}
          [] f = "sendTraffic" -> {"true", "false"}
          [] f \in {"enabled", "console"} -> {"false"}
          [] f = "mode" -> {"Replace"}
          [] f = "endpoints" -> {"added"}
          [] f \in {"requests", "limits"} -> {"edited", Blank}
          [] OTHER -> {"edited"}

=============================================================================
