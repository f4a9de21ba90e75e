------------------------- MODULE BackupRunnerProofs -------------------------
(***************************************************************************)
(* Proofs about module BackupRunner, for any number of runners, any        *)
(* timeout and lengths of hour and day, and any number of faults, stops    *)
(* and saves of others.                                                    *)
(***************************************************************************)
EXTENDS BackupRunner, TLAPS

\* The dump file is of the last save, and saves never end in the future.
SaveInv ==
  /\ lastsave <= now
  /\ dbfile.there => dbfile.ended = lastsave

\* The worker of r saw LASTSAVE move, and has not yet its file.
Saved == {"day", "hour", "dial", "mv"}
\* It has moved the dump, and not deleted it again.
Moved == {"gzip", "upload"}
\* Its object is in the bucket.
Stored == {"rm", "check", "done"}

\* What the worker of r has done by the time it is where it is.  Another
\* runner may have deleted the file, but never replaces it.
DumpInv ==
  \A r \in Runners :
    /\ pc[r] \in Saved => lastsave > prevsave[r]
    /\ pc[r] \in Moved /\ files[r].there => files[r].ended > prevsave[r]
    /\ pc[r] \in Stored \/ ctl[r] = "completed" =>
         \E o \in ObjectsOf(r) : o.ended > prevsave[r]
    /\ ctl[r] = "completed" => pc[r] = "ended"

\* The tags were decided on listings that may be old by now, but the objects
\* they showed are still there.
Tagged == {"dial", "mv", "gzip", "upload"}
TagInv ==
  \A r \in Runners :
    /\ pc[r] = "hour" /\ ~dayEmpty[r] =>
         \E o \in objects : Day(ts[o.key]) = Day(ts[r])
    /\ pc[r] \in Tagged /\ retention[r] # "90d" =>
         \E o \in objects : Day(ts[o.key]) = Day(ts[r])
    /\ pc[r] \in Tagged /\ retention[r] = "24h" =>
         \E o \in objects : Hour(ts[o.key]) = Hour(ts[r])

\* Only a runner that has started has objects.
KeyInv == \A o \in objects : pc[o.key] # "idle"

-----------------------------------------------------------------------------
\* The files and objects the actions make are files and objects.
LEMMA FileTypes ==
  /\ NoFile \in Files
  /\ [NoFile EXCEPT !.there = TRUE] \in Files
  /\ \A t \in Nat : [ended |-> t, gz |-> FALSE, there |-> TRUE] \in Files
  /\ \A f \in Files : /\ [f EXCEPT !.gz = TRUE] \in Files
                      /\ f.ended \in Nat
BY DEF NoFile, Files

\* So is what a runner uploads.
LEMMA ObjectType ==
  ASSUME TypeOK, NEW r \in Runners
  PROVE  ObjectOf(r) \in Objects
BY FileTypes DEF TypeOK, ObjectOf, Objects

\* Every step keeps the types.
LEMMA TypeInductive ==
  ASSUME TypeOK, [Next]_vars
  PROVE  TypeOK'
<1> USE DEF TypeOK, redis, locals, Goto, Calls, PCs
<1>1. CASE Tick  BY <1>1 DEF Tick
<1>2. CASE SaveEnds
  <2>1. dbfile' \in Files /\ lastsave' \in Nat
    BY <1>2, FileTypes DEF SaveEnds
  <2>2. saving' \in BOOLEAN
    BY <1>2 DEF SaveEnds
  <2>3. UNCHANGED <<now, files, objects, pc, ts, prevsave, dayEmpty, retention, cancelled, ctl,
                    events>>
    BY <1>2 DEF SaveEnds
  <2> QED  BY <2>1, <2>2, <2>3
<1>3. CASE SaveFails
  <2>0. saving' = FALSE
    BY <1>3 DEF SaveFails
  <2>1. events' \in Nat
    BY <1>3 DEF SaveFails
  <2>2. UNCHANGED <<now, lastsave, dbfile, files, objects, pc, ts, prevsave, dayEmpty, retention,
                    cancelled, ctl>>
    BY <1>3 DEF SaveFails
  <2>3. saving' \in BOOLEAN
    BY <2>0, Zenon
  <2> QED  BY <2>1, <2>2, <2>3
<1>4. CASE OtherSave  BY <1>4 DEF OtherSave
<1>5. ASSUME NEW r \in Runners, Start(r) PROVE TypeOK'
  BY <1>5 DEF Start
<1>6. ASSUME NEW r \in Runners, Work(r) PROVE TypeOK'
  <2>1. CASE ReadLastSave(r)  BY <2>1 DEF ReadLastSave
  <2>2. CASE BGSave(r)  BY <2>2 DEF BGSave
  <2>3. CASE Poll(r)  BY <2>3 DEF Poll
  <2>4. CASE ListDay(r)  BY <2>4 DEF ListDay
  <2>5. CASE ResolveTags(r)
    <3>1. PICK x \in Retentions : retention' = [retention EXCEPT ![r] = x]
      BY <2>5 DEF ResolveTags, Retentions
    <3> QED  BY <2>5, <3>1 DEF ResolveTags
  <2>6. CASE Dial(r)  BY <2>6 DEF Dial
  <2>7. CASE Mv(r)  BY <2>7, FileTypes DEF Mv
  <2>8. CASE Gzip(r)  BY <2>8, FileTypes DEF Gzip
  <2>9. CASE Upload(r)  BY <2>9, ObjectType DEF Upload
  <2>10. CASE Rm(r)  BY <2>10, FileTypes DEF Rm
  <2>11. CASE CheckBackup(r)
    <3>1. PICK l \in {"panic", "done", "err"} : pc' = [pc EXCEPT ![r] = l]
      BY <2>11 DEF CheckBackup
    <3> QED  BY <2>11, <3>1 DEF CheckBackup
  <2>12. CASE CallFails(r)  BY <2>12 DEF CallFails
  <2>13. CASE UploadAnswerLost(r)  BY <2>13, ObjectType DEF UploadAnswerLost
  <2> QED  BY <1>6, <2>1, <2>2, <2>3, <2>4, <2>5, <2>6, <2>7, <2>8, <2>9, <2>10, <2>11, <2>12, <2>13 DEF Work
<1>7. ASSUME NEW r \in Runners, Control(r) PROVE TypeOK'
  BY <1>7 DEF Control, TimesOut, ReceiveError, ReceiveDone
<1>8. ASSUME NEW r \in Runners, Stop(r) PROVE TypeOK'
  BY <1>8 DEF Stop
<1>9. CASE UNCHANGED vars  BY <1>9 DEF vars
<1> QED  BY <1>1, <1>2, <1>3, <1>4, <1>5, <1>6, <1>7, <1>8, <1>9 DEF Next

\* The first state has its types.
LEMMA TypeInit == Init => TypeOK
<1> SUFFICES ASSUME Init PROVE TypeOK
  OBVIOUS
<1>1. dbfile \in Files /\ files \in [Runners -> Files]
  BY FileTypes DEF Init
<1> QED  BY <1>1 DEF Init, TypeOK, Retentions, PCs

\* The runners, the redis server, the files and the bucket stay within their
\* types.
THEOREM TypeCorrect == Spec => []TypeOK
BY TypeInit, TypeInductive, PTL DEF Spec

-----------------------------------------------------------------------------
\* Objects are added and never taken away.
LEMMA ObjectsKept ==
  ASSUME [Next]_vars
  PROVE  objects \subseteq objects'
BY DEF Next, vars, Tick, SaveEnds, SaveFails, OtherSave, Start, Work, Control, Stop,
       ReadLastSave, BGSave, Poll, ListDay, ResolveTags, Dial, Mv, Gzip, Upload, Rm,
       CheckBackup, CallFails, UploadAnswerLost, TimesOut, ReceiveError, ReceiveDone

\* The dump file and LASTSAVE change together.
LEMMA SaveInductive ==
  ASSUME TypeOK, SaveInv, [Next]_vars
  PROVE  SaveInv'
<1> USE DEF SaveInv, TypeOK, redis
<1>1. CASE Tick  BY <1>1 DEF Tick
<1>2. CASE SaveEnds  BY <1>2 DEF SaveEnds
<1>3. ASSUME NEW r \in Runners, Mv(r) PROVE SaveInv'
  BY <1>3 DEF Mv, NoFile
<1> QED
  BY <1>1, <1>2, <1>3 DEF Next, vars, SaveFails, OtherSave, Start, Work, Control, Stop,
       ReadLastSave, BGSave, Poll, ListDay, ResolveTags, Dial, Gzip, Upload, Rm,
       CheckBackup, CallFails, UploadAnswerLost, TimesOut, ReceiveError, ReceiveDone

\* What a worker has done stays done: LASTSAVE only grows, its file is its own
\* or gone, and its object stays.
LEMMA DumpInductive ==
  ASSUME TypeOK, SaveInv, DumpInv, [Next]_vars
  PROVE  DumpInv'
<1> DEFINE OneDump(r) ==
      /\ pc[r] \in Saved => lastsave > prevsave[r]
      /\ pc[r] \in Moved /\ files[r].there => files[r].ended > prevsave[r]
      /\ pc[r] \in Stored \/ ctl[r] = "completed" =>
           \E o \in ObjectsOf(r) : o.ended > prevsave[r]
      /\ ctl[r] = "completed" => pc[r] = "ended"
<1> SUFFICES ASSUME NEW r \in Runners PROVE OneDump(r)'
  BY DEF DumpInv
<1>0. OneDump(r)  BY DEF DumpInv
<1>a. objects \subseteq objects'  BY ObjectsKept
<1> USE <1>0, <1>a DEF TypeOK, redis, locals, Goto, Saved, Moved, Stored, ObjectsOf
<1>1. CASE Tick  BY <1>1 DEF Tick
<1>2. CASE SaveEnds
  <2>1. now >= lastsave  BY DEF SaveInv
  <2> QED  BY <1>2, <2>1 DEF SaveEnds
<1>3. CASE SaveFails  BY <1>3 DEF SaveFails
<1>4. CASE OtherSave  BY <1>4 DEF OtherSave
<1>5. ASSUME NEW q \in Runners, Start(q) PROVE OneDump(r)'
  BY <1>5 DEF Start
<1>6. ASSUME NEW q \in Runners, Work(q) PROVE OneDump(r)'
  <2>1. CASE ReadLastSave(q)  BY <2>1 DEF ReadLastSave
  <2>2. CASE BGSave(q)  BY <2>2 DEF BGSave
  <2>3. CASE Poll(q)  BY <2>3 DEF Poll
  <2>4. CASE ListDay(q)  BY <2>4 DEF ListDay
  <2>5. CASE ResolveTags(q)  BY <2>5 DEF ResolveTags
  <2>6. CASE Dial(q)  BY <2>6 DEF Dial
  <2>7. CASE Mv(q)  BY <2>7 DEF Mv, SaveInv
  <2>8. CASE Gzip(q)  BY <2>8 DEF Gzip, Files
  <2>9. CASE Upload(q)
    <3>1. CASE files[q].there /\ q = r
      <4>1. pc'[r] = "rm" /\ UNCHANGED <<prevsave, ctl>>  BY <2>9, <3>1 DEF Upload
      <4>2. ObjectOf(r) \in objects'  BY <2>9, <3>1 DEF Upload
      <4>3. ObjectOf(r).key = r /\ ObjectOf(r).ended > prevsave[r]
        BY <2>9, <3>1 DEF Upload, ObjectOf
      <4>4. \E o \in ObjectsOf(r)' : o.ended > prevsave'[r]
        <5>1. ObjectOf(r) \in ObjectsOf(r)'  BY <4>2, <4>3 DEF ObjectsOf
        <5> QED  BY <5>1, <4>1, <4>3
      <4>5. ctl'[r] # "completed"  BY <2>9, <3>1, <4>1 DEF Upload
      <4> HIDE DEF ObjectsOf
      <4> QED  BY <4>1, <4>4, <4>5
    <3>2. CASE ~(files[q].there /\ q = r)  BY <2>9, <3>2 DEF Upload
    <3> QED  BY <3>1, <3>2
  <2>10. CASE Rm(q)  BY <2>10 DEF Rm, NoFile
  <2>11. CASE CheckBackup(q)
    <3>1. PICK l \in {"panic", "done", "err"} : pc' = [pc EXCEPT ![q] = l]
      BY <2>11 DEF CheckBackup
    <3> QED  BY <2>11, <3>1 DEF CheckBackup
  <2>12. CASE CallFails(q)  BY <2>12 DEF CallFails, Calls
  <2>13. CASE UploadAnswerLost(q)  BY <2>13 DEF UploadAnswerLost
  <2> QED  BY <1>6, <2>1, <2>2, <2>3, <2>4, <2>5, <2>6, <2>7, <2>8, <2>9, <2>10, <2>11, <2>12, <2>13 DEF Work
<1>7. ASSUME NEW q \in Runners, Control(q) PROVE OneDump(r)'
  BY <1>7 DEF Control, TimesOut, ReceiveError, ReceiveDone
<1>8. ASSUME NEW q \in Runners, Stop(q) PROVE OneDump(r)'
  BY <1>8 DEF Stop
<1>9. CASE UNCHANGED vars  BY <1>9 DEF vars
<1> QED  BY <1>1, <1>2, <1>3, <1>4, <1>5, <1>6, <1>7, <1>8, <1>9 DEF Next

-----------------------------------------------------------------------------
\* Only Start sets a timestamp, and the runner it starts has no objects yet.
LEMMA KeyInductive ==
  ASSUME TypeOK, KeyInv, [Next]_vars
  PROVE  /\ KeyInv'
         /\ \A o \in objects : ts'[o.key] = ts[o.key]
<1> USE DEF KeyInv, TypeOK, Goto, redis, locals, Objects
<1>1. ASSUME NEW q \in Runners, Start(q)
      PROVE  KeyInv' /\ \A o \in objects : ts'[o.key] = ts[o.key]
  BY <1>1 DEF Start
<1>2. ASSUME NEW q \in Runners, Upload(q) \/ UploadAnswerLost(q)
      PROVE  KeyInv' /\ \A o \in objects : ts'[o.key] = ts[o.key]
  <2>1. ObjectOf(q).key = q  BY DEF ObjectOf
  <2> QED  BY <1>2, <2>1 DEF Upload, UploadAnswerLost
<1>3. ASSUME NEW q \in Runners, CheckBackup(q)
      PROVE  KeyInv' /\ \A o \in objects : ts'[o.key] = ts[o.key]
  <2>1. PICK l \in {"panic", "done", "err"} : pc' = [pc EXCEPT ![q] = l]
    BY <1>3 DEF CheckBackup
  <2> QED  BY <1>3, <2>1 DEF CheckBackup
<1> QED
  BY <1>1, <1>2, <1>3 DEF Next, vars, Tick, SaveEnds, SaveFails, OtherSave, Work, Control, Stop,
       ReadLastSave, BGSave, Poll, ListDay, ResolveTags, Dial, Mv, Gzip, Rm,
       CallFails, TimesOut, ReceiveError, ReceiveDone

\* The tags follow what the listings showed, and that stays there.
LEMMA TagInductive ==
  ASSUME TypeOK, KeyInv, TagInv, [Next]_vars
  PROVE  TagInv'
<1> DEFINE OfDay(r)  == \E o \in objects : Day(ts[o.key]) = Day(ts[r])
           OfHour(r) == \E o \in objects : Hour(ts[o.key]) = Hour(ts[r])
           OneTag(r) == /\ pc[r] = "hour" /\ ~dayEmpty[r] => OfDay(r)
                        /\ pc[r] \in Tagged /\ retention[r] # "90d" => OfDay(r)
                        /\ pc[r] \in Tagged /\ retention[r] = "24h" => OfHour(r)
<1> SUFFICES ASSUME NEW r \in Runners PROVE OneTag(r)'
  BY DEF TagInv
<1>0. OneTag(r)  BY DEF TagInv
<1>a. ts'[r] = ts[r] => (OfDay(r) => OfDay(r)') /\ (OfHour(r) => OfHour(r)')
  BY ObjectsKept, KeyInductive
<1>b. CASE \E q \in Runners : Start(q)
  <2> PICK q \in Runners : Start(q)  BY <1>b
  <2>1. CASE q = r  BY <2>1 DEF Start, Goto, TypeOK, Tagged
  <2>2. CASE q # r
    <3>1. ts'[r] = ts[r] /\ pc'[r] = pc[r] /\ UNCHANGED <<dayEmpty, retention>>
      BY <2>2 DEF Start, Goto, TypeOK
    <3> QED  BY <3>1, <1>0, <1>a DEF Tagged
  <2> QED  BY <2>1, <2>2
<1>c. CASE ListDay(r)
  <2>1. pc'[r] = "hour" /\ ts' = ts /\ objects' = objects /\ dayEmpty'[r] = (ListedOfDay(r) = {})
    BY <1>c DEF ListDay, Goto, TypeOK
  <2>2. ListedOfDay(r) # {} => OfDay(r)  BY DEF ListedOfDay
  <2> QED  BY <2>1, <2>2 DEF Tagged
<1>d. CASE ResolveTags(r)
  <2>1. pc[r] = "hour" /\ pc'[r] = "dial" /\ ts' = ts /\ objects' = objects
    BY <1>d DEF ResolveTags, Goto, TypeOK
  <2>2. ListedOfHour(r) # {} => OfHour(r)  BY DEF ListedOfHour
  <2>3. /\ retention'[r] # "90d" => ~dayEmpty[r]
        /\ retention'[r] = "24h" => ListedOfHour(r) # {}
    BY <1>d DEF ResolveTags, TypeOK
  <2> QED  BY <1>0, <2>1, <2>2, <2>3 DEF Tagged
<1>e. CASE ~(\E q \in Runners : Start(q)) /\ ~ListDay(r) /\ ~ResolveTags(r)
  <2>1. /\ ts'[r] = ts[r] /\ dayEmpty'[r] = dayEmpty[r] /\ retention'[r] = retention[r]
        /\ pc'[r] \in Tagged => pc[r] \in Tagged
        /\ pc'[r] = "hour" => pc[r] = "hour"
    <3> USE DEF TypeOK, Goto, redis, locals, Tagged
    <3>1. ASSUME NEW q \in Runners, Work(q) PROVE <2>1!:
      <4>1. CASE CheckBackup(q)
        <5>1. PICK l \in {"panic", "done", "err"} : pc' = [pc EXCEPT ![q] = l]
          BY <4>1 DEF CheckBackup
        <5> QED  BY <4>1, <5>1 DEF CheckBackup
      <4>2. CASE ListDay(q)  BY <1>e, <4>2 DEF ListDay
      <4>3. CASE ResolveTags(q)
        <5>1. q # r  BY <1>e, <4>3
        <5> QED  BY <4>3, <5>1 DEF ResolveTags
      <4> QED
        BY <3>1, <4>1, <4>2, <4>3 DEF Work, ReadLastSave, BGSave, Poll, Dial, Mv, Gzip, Upload,
             Rm, CallFails, UploadAnswerLost
    <3> QED
      BY <1>e, <3>1 DEF Next, vars, Tick, SaveEnds, SaveFails, OtherSave, Control, Stop,
           TimesOut, ReceiveError, ReceiveDone
  <2> QED  BY <1>0, <1>a, <2>1
<1> QED  BY <1>b, <1>c, <1>d, <1>e

\* The first object of a day is tagged 90d, the first of an hour 90d or 7d, and
\* objects stay.
LEMMA RetentionInductive ==
  ASSUME TypeOK, KeyInv, TagInv, RetentionKept, [Next]_vars
  PROVE  RetentionKept'
<1> DEFINE DayKept(t)  == \E p \in objects : Day(ts[p.key]) = Day(t) /\ p.retention = "90d"
           HourKept(t) == \E p \in objects : Hour(ts[p.key]) = Hour(t) /\ p.retention # "24h"
<1>a. \A t \in Nat : (DayKept(t) => DayKept(t)') /\ (HourKept(t) => HourKept(t)')
  BY ObjectsKept, KeyInductive
<1>b. \A o \in objects : DayKept(ts[o.key]) /\ HourKept(ts[o.key])
  BY DEF RetentionKept
<1>c. \A o \in objects : ts'[o.key] = ts[o.key] /\ ts[o.key] \in Nat
  BY KeyInductive DEF TypeOK, Objects
<1>1. ASSUME NEW o \in objects PROVE (DayKept(ts[o.key]) /\ HourKept(ts[o.key]))'
  <2>1. PICK t \in Nat : t = ts[o.key] /\ t = ts'[o.key]  BY <1>c
  <2>2. DayKept(t) /\ HourKept(t)  BY <1>b, <2>1
  <2>3. (DayKept(t) /\ HourKept(t))'  BY <1>a, <2>2
  <2> QED  BY <2>1, <2>3
<1>2. ASSUME NEW r \in Runners, pc[r] = "upload", ts' = ts, objects' = objects \cup {ObjectOf(r)}
      PROVE  (DayKept(ts[r]) /\ HourKept(ts[r]))'
  <2>1. ObjectOf(r).key = r /\ ObjectOf(r).retention = retention[r]  BY DEF ObjectOf
  <2>2. ts[r] \in Nat  BY DEF TypeOK
  <2>3. DayKept(ts[r])'
    <3>1. CASE retention[r] = "90d"  BY <1>2, <2>1, <3>1
    <3>2. CASE retention[r] # "90d"
      <4>1. PICK o \in objects : Day(ts[o.key]) = Day(ts[r])
        BY <1>2, <3>2 DEF TagInv, Tagged
      <4> QED  BY <1>2, <1>1, <4>1
    <3> QED  BY <3>1, <3>2
  <2>4. HourKept(ts[r])'
    <3>1. CASE retention[r] # "24h"  BY <1>2, <2>1, <3>1
    <3>2. CASE retention[r] = "24h"
      <4>1. PICK o \in objects : Hour(ts[o.key]) = Hour(ts[r])
        BY <1>2, <3>2 DEF TagInv, Tagged
      <4> QED  BY <1>2, <1>1, <4>1
    <3> QED  BY <3>1, <3>2
  <2> QED  BY <2>3, <2>4
<1>3. \/ objects' = objects
      \/ \E r \in Runners : pc[r] = "upload" /\ ts' = ts /\ objects' = objects \cup {ObjectOf(r)}
  BY DEF Next, vars, Tick, SaveEnds, SaveFails, OtherSave, Start, Work, Control, Stop, locals,
       ReadLastSave, BGSave, Poll, ListDay, ResolveTags, Dial, Mv, Gzip, Upload, Rm,
       CheckBackup, CallFails, UploadAnswerLost, TimesOut, ReceiveError, ReceiveDone
<1>4. \A o \in objects' : (DayKept(ts[o.key]) /\ HourKept(ts[o.key]))'
  <2>1. CASE objects' = objects  BY <1>1, <2>1
  <2>2. ASSUME NEW r \in Runners, pc[r] = "upload", ts' = ts, objects' = objects \cup {ObjectOf(r)}
        PROVE  <1>4!:
    <3>1. ObjectOf(r).key = r  BY DEF ObjectOf
    <3> QED  BY <1>1, <1>2, <2>2, <3>1
  <2> QED  BY <1>3, <2>1, <2>2
<1> QED  BY <1>4 DEF RetentionKept

-----------------------------------------------------------------------------
\* What the proofs below rest on.
RunnerInv == TypeOK /\ SaveInv /\ DumpInv /\ KeyInv /\ TagInv /\ RetentionKept

\* The invariant holds at first and is kept.
THEOREM RunnerInvariant == Spec => []RunnerInv
<1>1. Init => RunnerInv
  BY TypeInit DEF Init, RunnerInv, SaveInv, DumpInv, KeyInv, TagInv, RetentionKept, NoFile,
       Saved, Moved, Stored, Tagged
<1>2. RunnerInv /\ [Next]_vars => RunnerInv'
  BY TypeInductive, SaveInductive, DumpInductive, KeyInductive, TagInductive,
     RetentionInductive DEF RunnerInv
<1> QED  BY <1>1, <1>2, PTL DEF Spec

\* A backup reported as completed has an object in the bucket with a dump of
\* a save that ended after BackgroundSave read LASTSAVE.
THEOREM CompletedStored == Spec => []CompletedIsStored
<1>1. RunnerInv => CompletedIsStored
  BY DEF RunnerInv, DumpInv, CompletedIsStored
<1> QED  BY <1>1, RunnerInvariant, PTL

\* The tags of resolveTags keep a backup of every day and of every hour.
THEOREM RetentionIsKept == Spec => []RetentionKept
<1>1. RunnerInv => RetentionKept  BY DEF RunnerInv
<1> QED  BY <1>1, RunnerInvariant, PTL

\* With a path that filepath.Join leaves as it is, the listing CheckBackup
\* makes holds at least the runner's own object.
THEOREM CheckNeverPanics == CleanPath => (Spec => []NoPanic)
<1> SUFFICES ASSUME CleanPath PROVE Spec => []NoPanic
  OBVIOUS
<1>1. Init => NoPanic  BY DEF Init, NoPanic
<1>2. RunnerInv /\ NoPanic /\ [Next]_vars => NoPanic'
  <2> SUFFICES ASSUME RunnerInv, NoPanic, [Next]_vars PROVE NoPanic'
    OBVIOUS
  <2> USE DEF NoPanic, RunnerInv, TypeOK, Goto, redis, locals
  <2>1. ASSUME NEW q \in Runners, CheckBackup(q) PROVE NoPanic'
    <3>1. PICK o \in objects : o.key = q
      BY <2>1 DEF DumpInv, Stored, ObjectsOf, CheckBackup
    <3>2. ListedOfHour(q) # {}  BY <3>1 DEF ListedOfHour
    <3>3. PICK l \in {"done", "err"} : pc' = [pc EXCEPT ![q] = l]
      BY <2>1, <3>2 DEF CheckBackup
    <3> QED  BY <3>3
  <2> QED
    BY <2>1 DEF Next, vars, Tick, SaveEnds, SaveFails, OtherSave, Start, Work, Control, Stop,
       ReadLastSave, BGSave, Poll, ListDay, ResolveTags, Dial, Mv, Gzip, Upload, Rm,
       CallFails, UploadAnswerLost, TimesOut, ReceiveError, ReceiveDone
<1> QED  BY <1>1, <1>2, RunnerInvariant, PTL DEF Spec

-----------------------------------------------------------------------------
(* The contract.                                                           *)

\* Runners start one after the other, each after the one before it is over.
TurnInv ==
  \A r \in Runners :
    /\ ctl[r] = "none" <=> pc[r] = "idle"
    /\ ctl[r] # "none" =>
         \A q \in Runners : q < r => ctl[q] \in {"completed", "failed"}

\* A worker with an object in the bucket is past its upload, so it never reads
\* LASTSAVE or uploads again.
Uploaded == {"rm", "check", "done", "err", "panic", "ended"}
UploadInv == \A o \in objects : pc[o.key] \in Uploaded

\* No step makes a runner start out of turn.
LEMMA TurnInductive ==
  ASSUME TypeOK, TurnInv, [Next]_vars
  PROVE  TurnInv'
<1> USE DEF TurnInv, TypeOK, Goto
<1>1. ASSUME NEW r \in Runners, Start(r) PROVE TurnInv'
  <2>1. \A q \in Runners : q < r => ctl[q] \in {"completed", "failed"}
    <3>1. \A q \in Runners : q < r => r > 1 /\ r - 1 \in Runners /\ (q < r - 1 \/ q = r - 1)
      BY ParametersAssumption DEF Runners
    <3> QED  BY <1>1, <3>1 DEF Start
  <2>2. ctl[r] = "none" /\ ctl' = [ctl EXCEPT ![r] = "waiting"] /\ pc' = [pc EXCEPT ![r] = "lastsave"]
    BY <1>1 DEF Start
  <2> QED  BY <2>1, <2>2
<1>2. ASSUME NEW r \in Runners, Work(r) PROVE TurnInv'
  <2>1. \E l \in PCs \ {"idle"} : pc[r] # "idle" /\ pc' = [pc EXCEPT ![r] = l] /\ ctl' = ctl
    <3>1. CASE CheckBackup(r)
      <4>1. PICK l \in {"panic", "done", "err"} : pc' = [pc EXCEPT ![r] = l]
        BY <3>1 DEF CheckBackup
      <4> QED  BY <3>1, <4>1 DEF CheckBackup, PCs, Calls
    <3> QED
      BY <1>2, <3>1 DEF Work, ReadLastSave, BGSave, Poll, ListDay, ResolveTags, Dial, Mv, Gzip,
           Upload, Rm, CallFails, UploadAnswerLost, PCs, Calls
  <2> QED  BY <2>1
<1>3. ASSUME NEW r \in Runners, Control(r) PROVE TurnInv'
  BY <1>3 DEF Control, TimesOut, ReceiveError, ReceiveDone
<1>4. CASE UNCHANGED <<pc, ctl>>  BY <1>4
<1> QED
  BY <1>1, <1>2, <1>3, <1>4 DEF Next, vars, Tick, SaveEnds, SaveFails, OtherSave, Stop

\* A worker uploads once, and only goes forward from there.
LEMMA UploadInductive ==
  ASSUME TypeOK, UploadInv, [Next]_vars
  PROVE  UploadInv'
<1> USE DEF UploadInv, TypeOK, Goto, Uploaded, Objects
<1>1. ASSUME NEW q \in Runners, Upload(q) \/ UploadAnswerLost(q) PROVE UploadInv'
  <2>1. ObjectOf(q).key = q  BY DEF ObjectOf
  <2> QED  BY <1>1, <2>1 DEF Upload, UploadAnswerLost
<1>2. ASSUME NEW q \in Runners, CheckBackup(q) PROVE UploadInv'
  <2>1. PICK l \in {"panic", "done", "err"} : pc' = [pc EXCEPT ![q] = l]
    BY <1>2 DEF CheckBackup
  <2> QED  BY <1>2, <2>1 DEF CheckBackup
<1> QED
  BY <1>1, <1>2 DEF Next, vars, Tick, SaveEnds, SaveFails, OtherSave, Start, Work, Control, Stop,
       ReadLastSave, BGSave, Poll, ListDay, ResolveTags, Dial, Mv, Gzip, Rm,
       CallFails, TimesOut, ReceiveError, ReceiveDone

\* What stands for the contract's variables.
Status == [r \in Runners |-> StatusOf(r)]
Fresh  == {r \in Runners : \E o \in ObjectsOf(r) : o.ended > prevsave[r]}

\* The runners with a fresh dump in the bucket: a step adds the one that
\* uploads, if any, and takes none away.
LEMMA FreshStep ==
  ASSUME TypeOK, DumpInv, UploadInv, [Next]_vars
  PROVE  \/ Fresh' = Fresh
         \/ \E r \in Runners : /\ pc[r] = "upload" /\ r \notin Fresh
                               /\ Fresh' = Fresh \cup {r} /\ ctl' = ctl
<1> DEFINE HasFresh(r) == \E o \in objects : o.key = r /\ o.ended > prevsave[r]
<1>a. \A r \in Runners : (r \in Fresh <=> HasFresh(r)) /\ (r \in Fresh' <=> HasFresh(r)')
  BY DEF Fresh, ObjectsOf
<1>b. Fresh \in SUBSET Runners /\ Fresh' \in SUBSET Runners
  BY DEF Fresh
<1>c. ASSUME \A r \in Runners : HasFresh(r)' <=> HasFresh(r) PROVE Fresh' = Fresh
  BY <1>a, <1>b, <1>c
<1>1. ASSUME NEW r \in Runners, ReadLastSave(r) PROVE Fresh' = Fresh
  <2>1. \A o \in objects : o.key # r
    BY <1>1 DEF ReadLastSave, UploadInv, Uploaded
  <2>2. objects' = objects /\ \A q \in Runners : q # r => prevsave'[q] = prevsave[q]
    BY <1>1 DEF ReadLastSave, TypeOK
  <2> QED  BY <2>1, <2>2, <1>c
<1>2. ASSUME NEW r \in Runners, pc[r] = "upload", files[r].there, prevsave' = prevsave,
             objects' = objects \cup {ObjectOf(r)}
      PROVE  r \notin Fresh /\ Fresh' = Fresh \cup {r}
  <2>1. \A o \in objects : o.key # r
    BY <1>2 DEF UploadInv, Uploaded
  <2>2. ObjectOf(r).key = r /\ ObjectOf(r).ended > prevsave[r]
    BY <1>2 DEF ObjectOf, DumpInv, Moved
  <2>3. \A q \in Runners : HasFresh(q)' <=> HasFresh(q) \/ q = r
    BY <1>2, <2>1, <2>2
  <2>4. ~ HasFresh(r)
    BY <2>1
  <2> HIDE DEF HasFresh
  <2> QED  BY <1>a, <1>b, <2>3, <2>4
<1>3. CASE UNCHANGED <<objects, prevsave>>
  BY <1>3, <1>c
<1>4. \/ UNCHANGED <<objects, prevsave>>
      \/ \E r \in Runners :
           \/ ReadLastSave(r)
           \/ /\ pc[r] = "upload" /\ files[r].there /\ prevsave' = prevsave /\ ctl' = ctl
              /\ objects' = objects \cup {ObjectOf(r)}
  BY DEF Next, vars, Tick, SaveEnds, SaveFails, OtherSave, Start, Work, Control, Stop, locals,
       BGSave, Poll, ListDay, ResolveTags, Dial, Mv, Gzip, Upload, Rm,
       CheckBackup, CallFails, UploadAnswerLost, TimesOut, ReceiveError, ReceiveDone
<1> QED  BY <1>1, <1>2, <1>3, <1>4

\* The status of a runner: only its start and its control goroutine set it.
LEMMA StatusStep ==
  ASSUME [Next]_vars
  PROVE  \/ ctl' = ctl
         \/ \E r \in Runners : Start(r) \/ Control(r)
BY DEF Next, vars, Tick, SaveEnds, SaveFails, OtherSave, Work, Stop, locals,
       ReadLastSave, BGSave, Poll, ListDay, ResolveTags, Dial, Mv, Gzip, Upload, Rm,
       CheckBackup, CallFails, UploadAnswerLost

\* A step does one of four things to what the contract sees: nothing, a start
\* in turn, an upload of a fresh dump, or the end of a runner.
LEMMA ContractStep ==
  ASSUME RunnerInv, TurnInv, TurnInv', UploadInv, [Next]_vars
  PROVE  Contract!Next \/ UNCHANGED <<Status, Fresh>>
<1>a. TypeOK /\ DumpInv  BY DEF RunnerInv
<1>b. Contract!Next <=>
        \E r \in Runners :
          \/ /\ \A q \in Runners : q < r => Status[q] \in {"completed", "failed"}
             /\ Status[r] = "none" /\ Status' = [Status EXCEPT ![r] = "running"]
             /\ Fresh' = Fresh
          \/ /\ Status[r] \in {"running", "failed"} /\ r \notin Fresh
             /\ Fresh' = Fresh \cup {r} /\ Status' = Status
          \/ /\ r \in Fresh
             /\ Status[r] = "running" /\ Status' = [Status EXCEPT ![r] = "completed"]
             /\ Fresh' = Fresh
          \/ /\ Status[r] = "running" /\ Status' = [Status EXCEPT ![r] = "failed"]
             /\ Fresh' = Fresh
  BY DEF Contract!Next, Contract!Start, Contract!Store, Contract!Complete, Contract!Fail,
         Contract!SetStatus, Contract!Final, Status, Fresh
<1>c. ctl \in [Runners -> {"none", "waiting", "completed", "failed"}]
  BY <1>a DEF TypeOK
<1>d. /\ DOMAIN Status = Runners /\ DOMAIN Status' = Runners
      /\ \A r \in Runners : Status[r] = StatusOf(r) /\ Status'[r] = StatusOf(r)'
  BY DEF Status
<1>1. CASE ctl' = ctl
  <2>1. Status' = Status
    BY <1>1 DEF Status, StatusOf
  <2>2. CASE Fresh' = Fresh
    BY <2>1, <2>2
  <2>3. ASSUME NEW r \in Runners, pc[r] = "upload", r \notin Fresh, Fresh' = Fresh \cup {r}
        PROVE  Contract!Next
    <3>1. ctl[r] # "none" /\ ctl[r] # "completed"
      BY <1>a, <2>3 DEF TurnInv, DumpInv
    <3>2. Status[r] \in {"running", "failed"}
      BY <1>c, <1>d, <3>1 DEF StatusOf
    <3> QED  BY <1>b, <2>1, <2>3, <3>2
  <2> QED  BY <1>a, <2>2, <2>3, FreshStep
<1>2. ASSUME NEW r \in Runners, Start(r) PROVE Contract!Next
  <2>1. /\ ctl[r] = "none" /\ ctl' = [ctl EXCEPT ![r] = "waiting"]
        /\ UNCHANGED <<objects, prevsave>>
    BY <1>2 DEF Start, TurnInv
  <2>2. Fresh' = Fresh
    BY <2>1 DEF Fresh, ObjectsOf
  <2>3. ASSUME NEW q \in Runners, q < r PROVE Status[q] \in {"completed", "failed"}
    <3>1. ctl'[r] # "none"
      BY <1>c, <2>1
    <3>2. ctl'[q] \in {"completed", "failed"}
      BY <2>3, <3>1 DEF TurnInv
    <3>3. ctl[q] \in {"completed", "failed"}
      BY <1>c, <2>1, <3>2
    <3> QED  BY <1>d, <3>3 DEF StatusOf
  <2>4. Status[r] = "none" /\ Status' = [Status EXCEPT ![r] = "running"]
    BY <1>c, <2>1 DEF Status, StatusOf
  <2> QED  BY <1>b, <2>2, <2>3, <2>4
<1>3. ASSUME NEW r \in Runners, Control(r) PROVE Contract!Next
  <2>1. /\ ctl[r] = "waiting" /\ UNCHANGED <<objects, prevsave>>
        /\ \/ ctl' = [ctl EXCEPT ![r] = "failed"]
           \/ pc[r] = "done" /\ ctl' = [ctl EXCEPT ![r] = "completed"]
    BY <1>3 DEF Control, TimesOut, ReceiveError, ReceiveDone, locals
  <2>2. Fresh' = Fresh
    BY <2>1 DEF Fresh, ObjectsOf
  <2>3. Status[r] = "running"
    BY <1>d, <2>1 DEF StatusOf
  <2>4. CASE ctl' = [ctl EXCEPT ![r] = "failed"]
    <3>1. Status' = [Status EXCEPT ![r] = "failed"]
      BY <1>c, <2>1, <2>4 DEF Status, StatusOf
    <3> QED  BY <1>b, <2>2, <2>3, <3>1
  <2>5. CASE pc[r] = "done" /\ ctl' = [ctl EXCEPT ![r] = "completed"]
    <3>1. Status' = [Status EXCEPT ![r] = "completed"]
      BY <1>c, <2>1, <2>5 DEF Status, StatusOf
    <3>2. r \in Fresh
      BY <1>a, <2>5 DEF DumpInv, Stored, Fresh
    <3> QED  BY <1>b, <2>2, <2>3, <3>1, <3>2
  <2> QED  BY <2>1, <2>4, <2>5
<1> QED  BY <1>1, <1>2, <1>3, StatusStep

\* The runners of a shard fulfil the contract: they take turns, what the control
\* goroutine sets is final, and a runner completes only with a dump of its own
\* save in the bucket, for any number of runners, faults and stops.
THEOREM RunnersFulfilContract == Spec => FulfilsContract
<1>1. Init => Contract!Init
  <2> SUFFICES ASSUME Init PROVE Contract!Init
    OBVIOUS
  <2>1. \A r \in Runners : StatusOf(r) = "none"
    BY DEF Init, StatusOf
  <2>2. Fresh = {}
    BY DEF Init, Fresh, ObjectsOf
  <2> QED  BY <2>1, <2>2 DEF Contract!Init, Fresh
<1>2. Init => TurnInv /\ UploadInv
  BY DEF Init, TurnInv, UploadInv
<1>3. TypeOK /\ TurnInv /\ UploadInv /\ [Next]_vars => TurnInv' /\ UploadInv'
  BY TurnInductive, UploadInductive
<1>4. RunnerInv => TypeOK
  BY DEF RunnerInv
<1>5. RunnerInv /\ TurnInv /\ TurnInv' /\ UploadInv /\ [Next]_vars =>
        Contract!Next \/ UNCHANGED <<Status, Fresh>>
  BY ContractStep
<1>6. RunnerInv /\ TurnInv /\ TurnInv' /\ UploadInv /\ [Next]_vars =>
        [Contract!Next]_<<[r \in Runners |-> StatusOf(r)],
                          {r \in Runners : \E o \in ObjectsOf(r) : o.ended > prevsave[r]}>>
  BY <1>5 DEF Status, Fresh
<1> QED  BY <1>1, <1>2, <1>3, <1>4, <1>6, RunnerInvariant, PTL DEF Spec, FulfilsContract, Contract!Spec
=============================================================================
