----------------------------- MODULE PodOptions -----------------------------
(***************************************************************************)
(* The options of a pod (src/internal/pkg/resource_builders/pod): the      *)
(* environment variables a generator declares, the Secrets they are read   *)
(* from, the ExternalSecrets that provide those, and the rollouts their    *)
(* changes trigger.                                                        *)
(*                                                                         *)
(* A SecretReference is the token "override", "vault" or "seed", after the *)
(* source the user chose for its value.                                    *)
(***************************************************************************)
EXTENDS ApiDefaults

-----------------------------------------------------------------------------
(* What a generator declares: the variable, the Secret it may come from,   *)
(* the field it is unpacked from and the section that empties it when {}.  *)

NoSecret == ""
DefaultSeedSecret == "saas-seed"
Declare(env, secret, path, emptyIf) ==
    [env |-> env, secret |-> secret, path |-> path, emptyIf |-> emptyIf]
Const(env) == Declare(env, NoSecret, <<>>, <<>>)

\* The variables vars[env], each unpacked from that field of the section at.
Vars(at, vars) ==
    {Declare(env, NoSecret, Append(at, vars[env]), <<>>) : env \in DOMAIN vars}
SecretVars(secret, at, vars) ==
    {Declare(env, secret, Append(at, vars[env]), <<>>) : env \in DOMAIN vars}

(* An Option: the value is a set with at most one element, and so is the   *)
(* reference to a key of a Secret.  vault says that an ExternalSecret has  *)
(* to provide that key.                                                    *)
Option(d, isSet, value, valueFrom, vault) ==
    [env |-> d.env, secret |-> d.secret, isSet |-> isSet, value |-> value,
     valueFrom |-> valueFrom, vault |-> vault]

EmptyIf(d, spec) ==
    /\ d.emptyIf # <<>>
    /\ Read(spec, d.emptyIf) \in {{}, {Empty}}

Unpack(d, spec) ==
    LET v == Read(spec, d.path)
        key(secret) == {[secret |-> secret, key |-> d.env]}
    IN  CASE d.path = <<>> \/ EmptyIf(d, spec) -> Option(d, TRUE, {"const"}, {}, FALSE)
          [] v = {}            -> Option(d, FALSE, {}, {}, FALSE)
          [] d.secret = NoSecret \/ v = {"override"} -> Option(d, TRUE, v, {}, FALSE)
          [] v = {"vault"}     -> Option(d, TRUE, {}, key(d.secret), TRUE)
          [] v = {"seed"}      -> Option(d, TRUE, {}, key(DefaultSeedSecret), FALSE)
          [] OTHER             -> Option(d, TRUE, {}, {}, FALSE)

Options(declared, spec) == {Unpack(d, spec) : d \in declared}

-----------------------------------------------------------------------------
FilterSecretOptions(opts) == {o \in opts : o.valueFrom # {}}
FilterFromVaultOptions(opts) == {o \in opts : o.vault}
ListSecretResourceNames(opts) ==
    {ref.secret : ref \in UNION {o.valueFrom : o \in FilterSecretOptions(opts)}}

\* The Secrets whose hash is an annotation of the pods.
GenerateRolloutTriggers(opts, additionalSecrets) ==
    ListSecretResourceNames(opts) \cup additionalSecrets

(* Extra variables, each with a value, or with a reference and the empty   *)
(* value, replace the options of the same name.  One that exists already   *)
(* gets the extra's value in either case, and a value goes before a        *)
(* reference; one that does not keeps the reference.                       *)
NoValue == ""
Extra(value, valueFrom) == [value |-> value, valueFrom |-> valueFrom]
WithExtraEnv(opts, extra) ==
    LET exists(e) == \E o \in opts : o.env = e
    IN  {o \in opts : o.env \notin DOMAIN extra}
        \cup {[env |-> e, secret |-> NoSecret, isSet |-> TRUE,
               value |-> {v \in {extra[e].value} : v # NoValue \/ exists(e)},
               valueFrom |-> extra[e].valueFrom,
               vault |-> \E o \in opts : o.env = e /\ o.vault] : e \in DOMAIN extra}

\* The environment: a value goes before a reference, and neither is no variable.
BuildEnvironment(opts) ==
    {[env |-> o.env, value |-> o.value,
      valueFrom |-> IF o.value # {} THEN {} ELSE o.valueFrom] :
        o \in {p \in opts : p.isSet /\ (p.value # {} \/ p.valueFrom # {})}}

\* One ExternalSecret for each Secret that some variable reads from the vault.
GenerateExternalSecrets(opts, store) ==
    LET vault == FilterFromVaultOptions(opts)
    IN  {[kind |-> "ExternalSecret", name |-> secret, enabled |-> TRUE,
          body |-> [keys |-> {o.env : o \in {p \in vault : p.secret = secret}},
                    store |-> store]] : secret \in {o.secret : o \in vault}}

\* Of the variables with the same name in several lists the first one is kept.
Union(lists) ==
    UNION {{o \in lists[i] : \A j \in 1 .. (i - 1) : \A p \in lists[j] : p.env # o.env} :
               i \in DOMAIN lists}
=============================================================================
