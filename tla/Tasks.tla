------------------------------- MODULE Tasks -------------------------------
(***************************************************************************)
(* The tekton tasks of a System (systemDefaultSystemTektonTasks and        *)
(* SystemTektonTaskSpec in src/api/v1alpha1/system_types.go, and the Task  *)
(* and Pipeline generated for each of them).                               *)
(*                                                                         *)
(* The default tasks are a package variable, and a spec that does not list *)
(* one of them gets a copy that shares its Config: what Default() writes   *)
(* there stays for as long as the process runs.  shared is that memory:    *)
(* for each default task, the image its Config has been given, if any.     *)
(***************************************************************************)
EXTENDS CustomResource

CONSTANT ExtraEnvs    \* the extra variables a user may give a task, by their token

Preset == [command |-> "preset", args |-> "preset"]
systemDefaultSystemTektonTasks ==
    ("system-backend-sync" :> Preset) @@ ("system-db-migrate" :> Preset)
    @@ ("system-searchd-reindex" :> (Preset @@ [extraEnv |-> "preset"]))
DefaultTasks == DOMAIN systemDefaultSystemTektonTasks
PresetExtraEnv == [THINKING_SPHINX_BATCH_SIZE |-> Extra("preset", {})]
Nameless == ""    \* a task that is listed without its name
NothingShared == [t \in DefaultTasks |-> {}]

\* Mutant: a task's image is filled from the operator's default image.
SystemTektonTaskConfigOwnImage ==
    [image |-> ImageSpec(NameTagAndPolicy), extraEnv |-> Field(Nil)]
    @@ Leaves({}, {"command", "args", "timeout"})
SystemTektonTaskConfig ==
    [image |-> ImageOfSpec, extraEnv |-> Field(Nil)] @@ Leaves({}, {"command", "args", "timeout"})
SystemTektonTaskSpec ==
    [config |-> Struct(SystemTektonTaskConfig),
     resources |-> ResourceRequirementsSpec(RequestsAndLimits)]
    @@ Leaves({"nodeAffinity", "tolerations"},
              {"enabled", "description", "terminationGracePeriodSeconds"})

\* Merge: a missing Config stays missing, whatever the default task has.
Merge(task, name) ==
    IF name \notin DefaultTasks \/ "config" \notin DOMAIN task THEN task
    ELSE [task EXCEPT !["config"] = @ @@ systemDefaultSystemTektonTasks[name]]

\* A default task that is not listed: its Config with the image it already has.
Appended(name, shared) ==
    [config |-> systemDefaultSystemTektonTasks[name]
                @@ (IF shared[name] = {} THEN Empty
                    ELSE [image |-> CHOOSE i \in shared[name] : TRUE])]

\* The tasks of a spec that lists these, once defaulted.
TasksOf(listed, image, shared) ==
    [t \in DefaultTasks \cup DOMAIN listed |->
        Default(SystemTektonTaskSpec,
                IF t \in DOMAIN listed THEN Merge(listed[t], t) ELSE Appended(t, shared), image)]
\* The first look at a task without a name ends Default() before any is filled.
SharedAfter(listed, image, shared) ==
    IF Nameless \in DOMAIN listed THEN shared
    ELSE [t \in DefaultTasks |->
             IF t \in DOMAIN listed \/ shared[t] # {} THEN shared[t] ELSE {image}]

-----------------------------------------------------------------------------
(* The Task and the Pipeline.  The Task runs with the System's variables   *)
(* and its own, to which Merge appended the default task's if it has any,  *)
(* and nothing of its scheduling fields is used.                           *)

TaskFields == {<<"description">>, <<"resources">>, <<"config", "command">>, <<"config", "args">>,
               <<"config", "timeout">>}
TaskExtraEnv(t, task) ==
    LET given == Read(task, <<"config", "extraEnv">>) \ {"preset"}
        preset == t \in DefaultTasks /\ "extraEnv" \in DOMAIN systemDefaultSystemTektonTasks[t]
    IN  (IF given = {} THEN Empty ELSE ExtraEnvs[CHOOSE e \in given : TRUE])
        @@ (IF preset /\ Has(task, <<"config", "extraEnv">>) THEN PresetExtraEnv ELSE Empty)
TaskImage(task) == [f \in {"name", "tag"} |-> Read(task, <<"config", "image", f>>)]
TektonTask(s, t, task) ==
    LET opts == Options(NewSystemOptions, s)
        own == [image |-> TaskImage(task), fields |-> [p \in TaskFields |-> Read(task, p)],
                env |-> BuildEnvironment(WithExtraEnv(opts, TaskExtraEnv(t, task))),
                sidecar |-> {}, triggers |-> {}, ports |-> {}, probePorts |-> {}, labels |-> {},
                volumes |-> {"system-config"}]
    IN  AddTwemproxySidecar([twemproxy |-> TRUE], s, own)
TektonPipeline(task) ==
    [image |-> TaskImage(task), description |-> Read(task, <<"description">>)]

TaskNils(t, task) ==
    {<<"tasks", "name">> : x \in {t} \cap {Nameless}}
    \cup {p \in {<<"description">>, <<"resources">>, <<"enabled">>} : ~Has(task, p)}
    \cup {p \in {<<"config", "image", f>> : f \in {"name", "tag"}} : ~Has(task, p)}
TaskObjects(s, tasks) ==
    Concat({LET on == Read(tasks[t], <<"enabled">>) # {"false"}
            IN  Objects(TaskNils(t, tasks[t]),
                        {Object("Task", <<t>>, on, TektonTask(s, t, tasks[t])),
                         Object("Pipeline", <<t>>, on, TektonPipeline(tasks[t]))}) :
            t \in DOMAIN tasks})
=============================================================================
