---------------------------- MODULE BackupRunner ----------------------------
(***************************************************************************)
(* Inside the backup runners of one shard: the worker goroutine that saves *)
(* (BGSAVE and LASTSAVE), uploads over ssh and checks the bucket, the      *)
(* control goroutine with its timer, the redis server they all back up,    *)
(* the files next to its dump, and the S3 bucket.                          *)
(*                                                                         *)
(* Module ShardedRedisBackup sees a runner as running, done or failed; this *)
(* one says what a runner did to get there, and what it still does after.  *)
(* Runners are numbered in the order they start.  Time is in seconds, the  *)
(* precision of LASTSAVE, of the file names and of S3's LastModified.      *)
(***************************************************************************)
EXTENDS Naturals

CONSTANTS
  NumRunners,    \* bound: how many runners the shard gets
  Timeout,       \* br.Timeout
  HourLen,       \* length of an hour, see Hour
  DayLen,        \* length of a day
  CleanPath,     \* br.S3Path is what filepath.Join makes of it
  MaxTime,       \* bound: last instant of the clock
  MaxEvents      \* bound: calls and saves that fail, saves redis starts by itself
                 \* or for somebody else, runners stopped by the thread manager

ASSUME ParametersAssumption ==
  /\ NumRunners \in Nat /\ Timeout \in Nat /\ MaxTime \in Nat
  /\ HourLen \in Nat \ {0} /\ DayLen \in Nat \ {0}
  /\ MaxEvents \in Nat
  /\ CleanPath \in BOOLEAN

VARIABLES
  now,        \* the clock
  saving,     \* a save is in progress
  lastsave,   \* what LASTSAVE answers: when the last good save ended
  dbfile,     \* the dump file of redis, or NoFile
  files,      \* the file of each runner next to it, or NoFile
  objects,    \* the objects in the bucket
  ts,         \* br.Timestamp
  pc,         \* where the worker goroutine of each runner is
  prevsave,   \* its local variable
  dayEmpty,   \* whether its listing of the day was empty
  retention,  \* the retention tag of its upload script
  cancelled,  \* its context is cancelled
  ctl,        \* its control goroutine, and what status it set
  events      \* how many outside events there were so far

vars == <<now, saving, lastsave, dbfile, files, objects, ts, pc, prevsave,
          dayEmpty, retention, cancelled, ctl, events>>
redis  == <<saving, lastsave, dbfile>>
locals == <<ts, prevsave, dayEmpty, retention>>

Runners == 1 .. NumRunners

NoFile == [ended |-> 0, gz |-> FALSE, there |-> FALSE]
Files  == [ended : Nat, gz : BOOLEAN, there : BOOLEAN]

Retentions == {"90d", "7d", "24h"}
Objects == [key : Runners, ended : Nat, modified : Nat,
            retention : Retentions]

\* The calls of the worker, in order; then done or the error it reports.
Calls  == {"lastsave", "bgsave", "poll", "day", "hour", "dial", "mv", "gzip",
           "upload", "rm", "check"}
PCs    == {"idle", "done", "err", "panic", "ended"} \cup Calls
\* The calls that return when the context is cancelled: redis and S3, not ssh.
CtxCalls == {"lastsave", "bgsave", "poll", "day", "hour", "check"}

Hour(t) == t \div HourLen
Day(t)  == t \div DayLen

\* Every variable holds a value of its type.
TypeOK ==
  /\ now \in Nat /\ lastsave \in Nat
  /\ saving \in BOOLEAN
  /\ dbfile \in Files /\ files \in [Runners -> Files]
  /\ objects \subseteq Objects
  /\ ts \in [Runners -> Nat] /\ prevsave \in [Runners -> Nat]
  /\ pc \in [Runners -> PCs]
  /\ dayEmpty \in [Runners -> BOOLEAN]
  /\ retention \in [Runners -> Retentions]
  /\ cancelled \in [Runners -> BOOLEAN]
  /\ ctl \in [Runners -> {"none", "waiting", "completed", "failed"}]
  /\ events \in Nat

Init ==
  /\ now = 1 /\ lastsave = 0 /\ saving = FALSE
  /\ dbfile = [NoFile EXCEPT !.there = TRUE]
  /\ files = [r \in Runners |-> NoFile]
  /\ objects = {}
  /\ ts = [r \in Runners |-> 0] /\ prevsave = [r \in Runners |-> 0]
  /\ pc = [r \in Runners |-> "idle"]
  /\ dayEmpty = [r \in Runners |-> FALSE]
  /\ retention = [r \in Runners |-> "24h"]
  /\ cancelled = [r \in Runners |-> FALSE]
  /\ ctl = [r \in Runners |-> "none"]
  /\ events = 0

-----------------------------------------------------------------------------
(* Redis and the clock.                                                    *)

Tick ==
  /\ now < MaxTime
  /\ now' = now + 1
  /\ UNCHANGED <<redis, files, objects, pc, locals, cancelled, ctl, events>>

\* A save ends: the new dump replaces whatever is there.
SaveEnds ==
  /\ saving
  /\ dbfile' = [ended |-> now, gz |-> FALSE, there |-> TRUE]
  /\ lastsave' = now
  /\ saving' = FALSE
  /\ UNCHANGED <<now, files, objects, pc, locals, cancelled, ctl, events>>

\* A save fails in the child process: LASTSAVE stays as it is.
SaveFails ==
  /\ saving
  /\ events < MaxEvents
  /\ saving' = FALSE
  /\ events' = events + 1
  /\ UNCHANGED <<now, lastsave, dbfile, files, objects, pc, locals, cancelled, ctl>>

OtherSave ==
  /\ ~saving
  /\ events < MaxEvents
  /\ saving' = TRUE
  /\ events' = events + 1
  /\ UNCHANGED <<now, lastsave, dbfile, files, objects, pc, locals, cancelled, ctl>>

-----------------------------------------------------------------------------
(* The worker: BackgroundSave.                                             *)

Goto(r, l) == pc' = [pc EXCEPT ![r] = l]

\* Start, called by the thread manager for the next schedule, long enough
\* after the previous one for the timestamps to differ.
Start(r) ==
  /\ pc[r] = "idle"
  /\ r > 1 => ctl[r - 1] \in {"completed", "failed"} /\ ts[r - 1] < now
  /\ now + Timeout <= MaxTime
  /\ ts' = [ts EXCEPT ![r] = now]
  /\ Goto(r, "lastsave")
  /\ ctl' = [ctl EXCEPT ![r] = "waiting"]
  /\ UNCHANGED <<now, redis, files, objects, prevsave, dayEmpty, retention, cancelled, events>>

ReadLastSave(r) ==
  /\ pc[r] = "lastsave"
  /\ prevsave' = [prevsave EXCEPT ![r] = lastsave]
  /\ Goto(r, "bgsave")
  /\ UNCHANGED <<now, redis, files, objects, ts, dayEmpty, retention, cancelled, ctl, events>>

\* Redis refuses when a save is in progress.
BGSave(r) ==
  /\ pc[r] = "bgsave"
  /\ saving' = TRUE
  /\ Goto(r, IF saving THEN "err" ELSE "poll")
  /\ UNCHANGED <<now, lastsave, dbfile, files, objects, locals, cancelled, ctl, events>>

\* Mutant: a save that ended in the same second counts.
PollAtLeast(r) ==
  /\ pc[r] = "poll"
  /\ lastsave >= prevsave[r]
  /\ Goto(r, "day")
  /\ UNCHANGED <<now, redis, files, objects, locals, cancelled, ctl, events>>

\* A tick at which LASTSAVE moved; at any other the worker waits for the next.
Poll(r) ==
  /\ pc[r] = "poll"
  /\ lastsave > prevsave[r]
  /\ Goto(r, "day")
  /\ UNCHANGED <<now, redis, files, objects, locals, cancelled, ctl, events>>

-----------------------------------------------------------------------------
(* UploadBackup: the tags, then four commands over one ssh connection.     *)

\* What listing the bucket with a prefix of the runner's own keys returns.
\* The prefix is built from S3Path as it is, the keys from its clean form.
ListedOfDay(r)  == {o \in objects : CleanPath /\ Day(ts[o.key]) = Day(ts[r])}
ListedOfHour(r) == {o \in objects : CleanPath /\ Hour(ts[o.key]) = Hour(ts[r])}

ListDay(r) ==
  /\ pc[r] = "day" /\ ~cancelled[r]
  /\ dayEmpty' = [dayEmpty EXCEPT ![r] = ListedOfDay(r) = {}]
  /\ Goto(r, "hour")
  /\ UNCHANGED <<now, redis, files, objects, ts, prevsave, retention, cancelled, ctl, events>>

\* Mutant: the hour is looked at before the day.
ResolveTagsHourFirst(r) ==
  /\ pc[r] = "hour" /\ ~cancelled[r]
  /\ retention' = [retention EXCEPT ![r] =
                     IF ListedOfHour(r) = {} THEN "7d"
                     ELSE IF dayEmpty[r] THEN "90d" ELSE "24h"]
  /\ Goto(r, "dial")
  /\ UNCHANGED <<now, redis, files, objects, ts, prevsave, dayEmpty, cancelled, ctl, events>>

ResolveTags(r) ==
  /\ pc[r] = "hour" /\ ~cancelled[r]
  /\ retention' = [retention EXCEPT ![r] =
                     IF dayEmpty[r] THEN "90d"
                     ELSE IF ListedOfHour(r) = {} THEN "7d" ELSE "24h"]
  /\ Goto(r, "dial")
  /\ UNCHANGED <<now, redis, files, objects, ts, prevsave, dayEmpty, cancelled, ctl, events>>

Dial(r) ==
  /\ pc[r] = "dial"
  /\ Goto(r, "mv")
  /\ UNCHANGED <<now, redis, files, objects, locals, cancelled, ctl, events>>

\* mv dump.rdb redis-backup_<shard>_<timestamp>.rdb
Mv(r) ==
  /\ pc[r] = "mv"
  /\ IF dbfile.there
     THEN /\ files' = [files EXCEPT ![r] = dbfile]
          /\ dbfile' = NoFile
          /\ Goto(r, "gzip")
     ELSE UNCHANGED <<files, dbfile>> /\ Goto(r, "err")
  /\ UNCHANGED <<now, saving, lastsave, objects, locals, cancelled, ctl, events>>

Gzip(r) ==
  /\ pc[r] = "gzip"
  /\ IF files[r].there
     THEN files' = [files EXCEPT ![r].gz = TRUE] /\ Goto(r, "upload")
     ELSE files' = files /\ Goto(r, "err")
  /\ UNCHANGED <<now, redis, objects, locals, cancelled, ctl, events>>

ObjectOf(r) ==
  [key |-> r, ended |-> files[r].ended, modified |-> now,
   retention |-> retention[r]]

Upload(r) ==
  /\ pc[r] = "upload"
  /\ IF files[r].there
     THEN objects' = objects \cup {ObjectOf(r)} /\ Goto(r, "rm")
     ELSE objects' = objects /\ Goto(r, "err")
  /\ UNCHANGED <<now, redis, files, locals, cancelled, ctl, events>>

\* rm -f redis-backup_<shard>*: every runner's file, not only its own.
Rm(r) ==
  /\ pc[r] = "rm"
  /\ files' = [x \in Runners |-> NoFile]
  /\ Goto(r, "check")
  /\ UNCHANGED <<now, redis, objects, locals, cancelled, ctl, events>>

-----------------------------------------------------------------------------
(* CheckBackup.                                                            *)

\* The last object of a stable sort by LastModified of a listing by key.
Latest(S) ==
  CHOOSE o \in S : \A p \in S :
    \/ p.modified < o.modified
    \/ p.modified = o.modified /\ ts[p.key] <= ts[o.key]

\* The last element of an empty list is an index out of range.
CheckBackup(r) ==
  /\ pc[r] = "check" /\ ~cancelled[r]
  /\ LET hour == ListedOfHour(r)
     IN Goto(r, IF hour = {} THEN "panic"
                ELSE IF Latest(hour).key = r THEN "done" ELSE "err")
  /\ UNCHANGED <<now, redis, files, objects, locals, cancelled, ctl, events>>

-----------------------------------------------------------------------------
(* Failures, and the control goroutine.                                    *)

\* A call returns an error: a fault, or its context is cancelled.
CallFails(r) ==
  /\ pc[r] \in Calls
  /\ \/ /\ pc[r] \in CtxCalls /\ cancelled[r]
        /\ UNCHANGED events
     \/ /\ events < MaxEvents /\ pc[r] # "poll"
        /\ events' = events + 1
  /\ Goto(r, "err")
  /\ UNCHANGED <<now, redis, files, objects, locals, cancelled, ctl>>

\* The object is stored, and the script's answer is an error all the same.
UploadAnswerLost(r) ==
  /\ pc[r] = "upload" /\ files[r].there
  /\ events < MaxEvents
  /\ objects' = objects \cup {ObjectOf(r)}
  /\ Goto(r, "err")
  /\ events' = events + 1
  /\ UNCHANGED <<now, redis, files, locals, cancelled, ctl>>

\* Mutant: the timer is only looked at while the save runs.
TimesOutSaving(r) ==
  /\ ctl[r] = "waiting" /\ now >= ts[r] + Timeout
  /\ pc[r] = "poll"
  /\ ctl' = [ctl EXCEPT ![r] = "failed"]
  /\ cancelled' = [cancelled EXCEPT ![r] = TRUE]
  /\ UNCHANGED <<now, redis, files, objects, locals, pc, events>>

TimesOut(r) ==
  /\ ctl[r] = "waiting" /\ now >= ts[r] + Timeout
  /\ ctl' = [ctl EXCEPT ![r] = "failed"]
  /\ cancelled' = [cancelled EXCEPT ![r] = TRUE]
  /\ UNCHANGED <<now, redis, files, objects, locals, pc, events>>

ReceiveError(r) ==
  /\ ctl[r] = "waiting" /\ pc[r] = "err"
  /\ ctl' = [ctl EXCEPT ![r] = "failed"]
  /\ Goto(r, "ended")
  /\ UNCHANGED <<now, redis, files, objects, locals, cancelled, events>>

ReceiveDone(r) ==
  /\ ctl[r] = "waiting" /\ pc[r] = "done"
  /\ ctl' = [ctl EXCEPT ![r] = "completed"]
  /\ Goto(r, "ended")
  /\ UNCHANGED <<now, redis, files, objects, locals, cancelled, events>>

\* Stop, called by the thread manager.
Stop(r) ==
  /\ pc[r] # "idle" /\ ~cancelled[r]
  /\ events < MaxEvents
  /\ cancelled' = [cancelled EXCEPT ![r] = TRUE]
  /\ events' = events + 1
  /\ UNCHANGED <<now, redis, files, objects, locals, pc, ctl>>

Work(r) ==
  \/ ReadLastSave(r) \/ BGSave(r) \/ Poll(r)
  \/ ListDay(r) \/ ResolveTags(r)
  \/ Dial(r) \/ Mv(r) \/ Gzip(r) \/ Upload(r) \/ Rm(r)
  \/ CheckBackup(r)
  \/ CallFails(r) \/ UploadAnswerLost(r)

Control(r) == TimesOut(r) \/ ReceiveError(r) \/ ReceiveDone(r)

Next ==
  \/ Tick \/ SaveEnds \/ SaveFails \/ OtherSave
  \/ \E r \in Runners : Start(r) \/ Work(r) \/ Control(r) \/ Stop(r)

Spec == Init /\ [][Next]_vars

\* The clock runs and the control goroutine is scheduled; a command over ssh
\* has no timeout and may take for ever.
ControlSpec == Spec /\ WF_vars(Tick) /\ \A r \in Runners : WF_vars(Control(r))

-----------------------------------------------------------------------------
(* Properties.                                                             *)

ObjectsOf(r) == {o \in objects : o.key = r}

\* A backup reported as completed (BackupFile and BackupSize set) has its
\* object in the bucket, and the dump in it is of a save that ended after the
\* runner started: BackgroundSave waits until LASTSAVE moves.
CompletedIsStored ==
  \A r \in Runners : ctl[r] = "completed" =>
    \E o \in ObjectsOf(r) : o.ended > prevsave[r]

\* What the controller may rely on: module RunnerContract.
StatusOf(r) == IF ctl[r] = "waiting" THEN "running" ELSE ctl[r]

Contract == INSTANCE RunnerContract WITH
              status <- [r \in Runners |-> StatusOf(r)],
              stored <- {r \in Runners : \E o \in ObjectsOf(r) : o.ended > prevsave[r]}

\* The runners fulfil it: they take turns, a status the control goroutine sets
\* is final, and only a runner with a fresh dump in the bucket completes,
\* whatever the timer, the stops and the workers left behind do.
FulfilsContract == Contract!Spec

\* What resolveTags is for: whatever fails and whoever runs at the same time,
\* a day that has backups has one kept for 90 days, and an hour that has
\* backups has one kept for 7 days or more.
RetentionKept ==
  \A o \in objects :
    /\ \E p \in objects : Day(ts[p.key]) = Day(ts[o.key]) /\ p.retention = "90d"
    /\ \E p \in objects : Hour(ts[p.key]) = Hour(ts[o.key]) /\ p.retention # "24h"

\* CheckBackup never indexes an empty listing (check.go:35): the goroutine has
\* no recover, so that would end the operator.
NoPanic == \A r \in Runners : pc[r] # "panic"

\* However the save, the commands and the listings go, the status of a runner
\* that starts is set in the end: that is what the timer is for.
RunnerFinishes ==
  \A r \in Runners : ctl[r] = "waiting" ~> ctl[r] \in {"completed", "failed"}
=============================================================================
