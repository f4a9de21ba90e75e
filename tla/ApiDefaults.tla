---------------------------- MODULE ApiDefaults ----------------------------
(***************************************************************************)
(* How the custom resources' specs are defaulted, copied and patched       *)
(* (src/api/v1alpha1/common_types.go).                                     *)
(*                                                                         *)
(* A spec is a function from the fields that are set to their values, so a *)
(* nil pointer is a field outside the DOMAIN and an empty struct is the    *)
(* empty function.  The value of a field is a token: Fallback for what the *)
(* operator's default gives, and whatever the user wrote otherwise.  A     *)
(* type is a function from field names to rules, and a rule says what      *)
(* Default() does with the field: one kind of rule per shape of the code.  *)
(***************************************************************************)
EXTENDS Naturals, Sequences, FiniteSets, TLC

Nil == "nil"            \* no default: the field stays as the user left it
Fallback == "default"   \* the value the operator's default gives

\* The empty spec {}, and the block of defaults that sets exactly the fields fs.
Empty == [f \in {} |-> Fallback]
Defaults(fs) == [f \in fs |-> Fallback]

-----------------------------------------------------------------------------
(* Rules for single fields: stringOrDefault, intOrDefault, boolOrDefault,  *)
(* int64OrDefault and durationOrDefault are one rule.  A list with an      *)
(* empty value counts as unset for stringSliceOrDefault only.              *)

Field(def) == [rule |-> "field", fields |-> {}, def |-> def]
Leaves(kept, defaulted) ==
    [f \in kept \cup defaulted |-> Field(IF f \in defaulted THEN Fallback ELSE Nil)]

\* A reference to a secret: the token says where the value comes from.
SecretReference == [rule |-> "secret", fields |-> {}, def |-> Nil]
Secrets(fs) == [f \in fs |-> SecretReference]

(* Rules for blocks of optional fields with a default of their own.        *)
(*   "filled"  every unset field takes its default                         *)
(*   "init"    the same, but {} deactivates the block and is left alone    *)
(*   "whole"   defaulted only when the whole block is unset                *)
(*   "image"   filled from the image the surrounding spec ended up with    *)
Block(rule, fs, def) == [rule |-> rule, fields |-> fs, def |-> def]

ImageFields == {"name", "tag", "pullSecretName", "pullPolicy"}
ImageSpec(def) == Block("filled", ImageFields, def)
ImageOfSpec == Block("image", ImageFields, Empty)

ProbeFields == {"initialDelaySeconds", "timeoutSeconds", "periodSeconds",
                "successThreshold", "failureThreshold"}
ProbeSpec(def) == Block("init", ProbeFields, def)

DefaultElasticLoadBalancerSpec ==
    Defaults({"proxyProtocol", "crossZoneLoadBalancingEnabled",
              "connectionDrainingEnabled", "connectionDrainingTimeout",
              "healthcheckHealthyThreshold", "healthcheckUnhealthyThreshold",
              "healthcheckInterval", "healthcheckTimeout"})
ElasticLoadBalancerSpec == Block("filled", DOMAIN DefaultElasticLoadBalancerSpec,
                                 DefaultElasticLoadBalancerSpec)

DefaultNetworkLoadBalancerSpec ==
    Defaults({"proxyProtocol", "crossZoneLoadBalancingEnabled", "deletionProtection"})
NetworkLoadBalancerSpec ==
    Block("filled", {"proxyProtocol", "crossZoneLoadBalancingEnabled", "eipAllocations",
                     "loadBalancerName", "deletionProtection"},
          DefaultNetworkLoadBalancerSpec)

GrafanaDashboardSpec(def) == Block("init", {"selectorKey", "selectorValue"}, def)
PodDisruptionBudgetSpec(def) == Block("whole", {"minAvailable", "maxUnavailable"}, def)
HorizontalPodAutoscalerSpec(def) ==
    Block("init", {"minReplicas", "maxReplicas", "resourceName",
                   "resourceUtilization", "behavior"}, def)
DeploymentStrategySpec(def) == Block("whole", {"type", "rollingUpdate"}, def)
ResourceRequirementsSpec(def) == Block("init", {"limits", "requests", "claims"}, def)

defaultExternalSecretSecretStoreReference == Defaults({"name", "kind"})
ExternalSecretSecretStoreReferenceSpec ==
    Block("filled", {"name", "kind"}, defaultExternalSecretSecretStoreReference)

(* Rules for nested specs: Struct is a struct or a pointer that Default()  *)
(* allocates, Optional a pointer that is defaulted only when it is set.    *)
Struct(T) == [rule |-> "struct", fields |-> T, def |-> Nil]
Optional(T) == [rule |-> "optional", fields |-> T, def |-> Nil]

\* The blocks of defaults the custom resources declare set these fields.
NameTagAndPolicy == Defaults({"name", "tag", "pullPolicy"})
EveryProbeField == Defaults(ProbeFields)
Selector == Defaults({"selectorKey", "selectorValue"})
RequestsAndLimits == Defaults({"requests", "limits"})
MaxUnavailable == Defaults({"maxUnavailable"})
RollingUpdate == Defaults({"type", "rollingUpdate"})
Scaling == Defaults({"minReplicas", "maxReplicas", "resourceName", "resourceUtilization"})

ExternalSecret == Struct([refreshInterval |-> Field(Fallback)]
                         @@ [secretStoreRef |-> ExternalSecretSecretStoreReferenceSpec])
BugsnagSpec == Struct(Leaves({"releaseStage"}, {}) @@ Secrets({"apiKey"}))
Canary == Optional(Leaves({"sendTraffic", "imageName", "imageTag", "replicas"}, {}))

-----------------------------------------------------------------------------
(* What Default() makes of a spec.                                         *)

IsDeactivated(v) == v = Empty

\* Mutant: a probe the user sets in part is not completed.
InitializeLeavesPartial(r, v, image) ==
    CASE r.rule = "filled" -> v @@ r.def
      [] r.rule = "image"  -> v @@ image
      [] r.rule \in {"init", "whole"} -> v
Initialize(r, v, image) ==
    CASE r.rule = "filled" -> v @@ r.def
      [] r.rule = "image"  -> v @@ image
      [] r.rule = "init"   -> IF IsDeactivated(v) THEN v ELSE v @@ r.def
      [] r.rule = "whole"  -> v

InitializeUnset(r, image) == IF r.rule = "image" THEN image ELSE r.def

IsBlock(r) == r.rule \in {"filled", "init", "whole", "image"}
ValueAt(v, f) == IF f \in DOMAIN v THEN v[f] ELSE Empty

(* image is the image the enclosing spec has been given by then: Default() *)
(* of a console or of a task is called with it.                            *)
RECURSIVE Default(_, _, _)
Default(T, v, image) ==
    LET SetByDefault(f) == \/ T[f].rule = "field" /\ T[f].def # Nil
                           \/ T[f].rule = "struct"
                           \/ IsBlock(T[f])
        OfField(f) ==
            LET r == T[f] IN
            CASE r.rule \in {"field", "secret"} -> IF f \in DOMAIN v THEN v[f] ELSE r.def
              [] r.rule \in {"struct", "optional"} -> Default(r.fields, ValueAt(v, f), image)
              [] IsBlock(r) -> IF f \in DOMAIN v THEN Initialize(r, v[f], image)
                                                 ELSE InitializeUnset(r, image)
    IN  [f \in DOMAIN v \cup {g \in DOMAIN T : SetByDefault(g)} |-> OfField(f)]

\* The image of a spec after its own defaulting, which comes before its parts'.
ImageOf(T, v) == IF "image" \in DOMAIN T
                 THEN ValueAt(v, "image") @@ T["image"].def ELSE Empty
DefaultSpec(T, v) == Default(T, v, ImageOf(T, v))

-----------------------------------------------------------------------------
(* Paths into a spec, as a JSON patch names them.                          *)

RECURSIVE At(_, _)
At(v, path) == IF path = <<>> THEN v ELSE At(v[Head(path)], Tail(path))

RECURSIVE Has(_, _)
Has(v, path) == \/ path = <<>>
                \/ Head(path) \in DOMAIN v /\ Has(v[Head(path)], Tail(path))

\* The content of a field: nothing when a pointer on the way is nil.
Read(spec, path) == IF Has(spec, path) THEN {At(spec, path)} ELSE {}

\* Writes x at path, making the sections on the way that are not there.
RECURSIVE Put(_, _, _)
Put(v, path, x) ==
    IF Len(path) = 1 THEN (Head(path) :> x) @@ v
    ELSE (Head(path) :> Put(ValueAt(v, Head(path)), Tail(path), x)) @@ v

RECURSIVE Drop(_, _)
Drop(v, path) ==
    IF Len(path) = 1 THEN [f \in DOMAIN v \ {Head(path)} |-> v[f]]
    ELSE (Head(path) :> Drop(v[Head(path)], Tail(path))) @@ v

(* A list or a map the user wrote as empty is the token Blank: omitempty   *)
(* drops it when the spec is marshalled, so the copy has it unset.         *)
Blank == "blank"

RECURSIVE Marshal(_, _)
Marshal(T, v) ==
    LET Kept(f) == IsBlock(T[f]) \/ T[f].rule \in {"struct", "optional"} \/ v[f] # Blank
        Copy(f) == CASE T[f].rule \in {"struct", "optional"} -> Marshal(T[f].fields, v[f])
                     [] IsBlock(T[f]) -> [g \in {h \in DOMAIN v[f] : v[f][h] # Blank} |-> v[f][g]]
                     [] OTHER -> v[f]
    IN  [f \in {g \in DOMAIN v : Kept(g)} |-> Copy(f)]

(* Canary.PatchSpec: the defaulted spec is marshalled, the patches are     *)
(* applied to the document one after another, and the result is read back. *)
(* "remove" and "replace" of a path that is not there fail, and so does    *)
(* "add" under a section that is not there.                                *)
PatchOK(doc, p) == IF p.op = "add" THEN Has(doc, SubSeq(p.path, 1, Len(p.path) - 1))
                                   ELSE Has(doc, p.path)
ApplyPatch(doc, p) == IF p.op = "remove" THEN Drop(doc, p.path)
                                         ELSE Put(doc, p.path, p.value)

RECURSIVE ApplyPatches(_, _)
ApplyPatches(doc, ps) ==
    CASE ps = <<>> -> [err |-> FALSE, doc |-> doc]
      [] ~PatchOK(doc, Head(ps)) -> [err |-> TRUE, doc |-> doc]
      [] OTHER -> ApplyPatches(ApplyPatch(doc, Head(ps)), Tail(ps))

PatchSpec(T, spec, patches) == ApplyPatches(Marshal(T, spec), patches)
=============================================================================
