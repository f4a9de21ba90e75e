---------------------------- MODULE ThreadsProofs ----------------------------
(***************************************************************************)
(* Proofs about module Threads, for any number of workers and threads.     *)
(***************************************************************************)
EXTENDS Threads, TLAPS

-----------------------------------------------------------------------------
(* Types and mutual exclusion.                                             *)

\* The manager starts well typed, with the mutex free.
LEMMA InitType == Init => TypeOK
  BY KeysAssumption, MutexAssumption DEF Init, TypeOK, Places, ThreadStates

\* Every step keeps the types, and the mutex with the worker that writes.
LEMMA NextType == TypeOK /\ [Next]_vars => TypeOK'
<1> SUFFICES ASSUME TypeOK, [Next]_vars PROVE TypeOK'
  OBVIOUS
<1> USE MutexAssumption DEF TypeOK, Places, Between, ThreadStates, Own
<1>1. ASSUME NEW o \in Owners, ReconcileThreads(o) PROVE TypeOK'
  BY <1>1 DEF ReconcileThreads
<1>2. ASSUME NEW o \in Owners, CleanupThreads(o) PROVE TypeOK'
  BY <1>2 DEF CleanupThreads
<1>3. ASSUME NEW o \in Owners, Step(o) PROVE TypeOK'
  <2>1. CASE Present(o)    BY <2>1 DEF Present
  <2>2. CASE Missing(o)    BY <2>2 DEF Missing
  <2>3. CASE Lock(o)       BY <2>3 DEF Lock
  <2>4. CASE RunThread(o)  BY <2>4 DEF RunThread
  <2>5. CASE BeginSweep(o) BY <2>5 DEF BeginSweep
  <2>6. CASE Visit(o)      BY <2>6 DEF Visit
  <2>11. CASE CanBeDeleted(o) BY <2>11 DEF CanBeDeleted
  <2>7. CASE EndSweep(o)   BY <2>7 DEF EndSweep
  <2>8. CASE StopThread(o) BY <2>8 DEF StopThread
  <2>9. CASE StopMissing(o) BY <2>9 DEF StopMissing
  <2>10. CASE StopPanics(o) BY <2>10 DEF StopPanics
  <2> QED BY <1>3, <2>1, <2>2, <2>3, <2>4, <2>5, <2>6, <2>7, <2>8, <2>9, <2>10, <2>11 DEF Step
<1>4. ASSUME NEW k \in Keys, ThreadBegins(k) PROVE TypeOK'
  BY <1>4 DEF ThreadBegins
<1>5. CASE UNCHANGED vars
  BY <1>5 DEF vars
<1> QED BY <1>1, <1>2, <1>3, <1>4, <1>5 DEF Next

\* Whatever the names of the resources and however workers and goroutines are
\* scheduled, only the holder of the mutex writes the map.
THEOREM TypeCorrect == Spec => []TypeOK
<1> QED BY InitType, NextType, PTL DEF Spec

-----------------------------------------------------------------------------
(* Threads and the map.                                                    *)

\* Starting and stopping keep the map and the running threads together.
LEMMA NextOrphan == TypeOK /\ NoOrphan /\ [Next]_vars => NoOrphan'
<1> SUFFICES ASSUME TypeOK, NoOrphan, [Next]_vars PROVE NoOrphan'
  OBVIOUS
<1> USE DEF TypeOK, NoOrphan, ThreadStates
<1>1. ASSUME NEW o \in Owners, RunThread(o) PROVE NoOrphan'
  BY <1>1 DEF RunThread
<1>2. ASSUME NEW o \in Owners, StopThread(o) PROVE NoOrphan'
  BY <1>2 DEF StopThread
<1>3. ASSUME NEW k \in Keys, ThreadBegins(k) PROVE NoOrphan'
  BY <1>3 DEF ThreadBegins
<1>4. ASSUME NEW o \in Owners, ReconcileThreads(o) \/ CleanupThreads(o) PROVE NoOrphan'
  BY <1>4 DEF ReconcileThreads, CleanupThreads
<1>5. ASSUME NEW o \in Owners, Step(o), ~RunThread(o), ~StopThread(o) PROVE NoOrphan'
  BY <1>5 DEF Step, Present, Missing, Lock, BeginSweep, Visit, CanBeDeleted, EndSweep,
              StopMissing, StopPanics
<1>6. CASE UNCHANGED vars
  BY <1>6 DEF vars
<1> QED BY <1>1, <1>2, <1>3, <1>4, <1>5, <1>6 DEF Next

\* A thread that runs can always be found in the map, and so be stopped.
THEOREM NoOrphans == Spec => []NoOrphan
<1>1. Init => NoOrphan
  BY DEF Init, NoOrphan
<1> QED BY <1>1, NextOrphan, TypeCorrect, PTL DEF Spec

-----------------------------------------------------------------------------
(* Workers do not disturb each other.                                      *)

\* What the worker of a resource knows at each place: the threads it has
\* dealt with are in the map, those still to go are ahead of it, and it starts
\* only its own threads and stops only threads it claims.
WorkerInv(o) ==
  /\ want[o] \subseteq Own(o)
  /\ pc[o] \in {"checking", "lockToRun", "running"} => todo[o] \subseteq want[o]
  /\ pc[o] \in {"lockToRun", "running"} => cur[o] \in todo[o]
  /\ pc[o] \in {"looking", "lockToStop", "stopping"} => Contains(cur[o], o) /\ cur[o] \notin want[o]

\* What is so of the map at each place, if nobody else claims the threads.
MapInv(o) ==
  /\ pc[o] \in {"checking", "lockToRun", "running"} => want[o] \ todo[o] \subseteq map
  /\ pc[o] \in {"sweeping", "looking", "lockToStop", "stopping"} => want[o] \subseteq map
  /\ pc[o] = "sweeping" => (map \cap Own(o)) \ want[o] \subseteq left[o]
  /\ pc[o] \in {"looking", "lockToStop", "stopping"} =>
       (map \cap Own(o)) \ want[o] \subseteq left[o] \cup {cur[o]}
  /\ pc[o] = "idle" => map \cap Own(o) = want[o]

WorkersInv ==
  /\ \A o \in Owners : WorkerInv(o)
  /\ mu # Kept => \A o \in Owners : Apart(o) => MapInv(o)

\* Every step keeps what the workers know of their own variables.
LEMMA NextWorker ==
  ASSUME TypeOK, NEW o \in Owners, WorkerInv(o), [Next]_vars
  PROVE  WorkerInv(o)'
<1> USE DEF TypeOK, Own, WorkerInv
<1>1. ASSUME NEW q \in Owners, ReconcileThreads(q) PROVE WorkerInv(o)'
  BY <1>1 DEF ReconcileThreads
<1>2. ASSUME NEW q \in Owners, CleanupThreads(q) PROVE WorkerInv(o)'
  BY <1>2 DEF CleanupThreads
<1>3. ASSUME NEW q \in Owners, Step(q) PROVE WorkerInv(o)'
  <2>1. CASE Present(q)    BY <2>1 DEF Present
  <2>2. CASE Missing(q)    BY <2>2 DEF Missing
  <2>3. CASE Lock(q)       BY <2>3 DEF Lock
  <2>4. CASE RunThread(q)  BY <2>4 DEF RunThread
  <2>5. CASE BeginSweep(q) BY <2>5 DEF BeginSweep
  <2>6. CASE Visit(q)      BY <2>6 DEF Visit, Doomed
  <2>11. CASE CanBeDeleted(q) BY <2>11 DEF CanBeDeleted
  <2>7. CASE EndSweep(q)   BY <2>7 DEF EndSweep
  <2>8. CASE StopThread(q) BY <2>8 DEF StopThread
  <2>9. CASE StopMissing(q) BY <2>9 DEF StopMissing
  <2>10. CASE StopPanics(q) BY <2>10 DEF StopPanics
  <2> QED BY <1>3, <2>1, <2>2, <2>3, <2>4, <2>5, <2>6, <2>7, <2>8, <2>9, <2>10, <2>11 DEF Step
<1>4. ASSUME NEW k \in Keys, ThreadBegins(k) PROVE WorkerInv(o)'
  BY <1>4 DEF ThreadBegins
<1>5. CASE UNCHANGED vars
  BY <1>5 DEF vars
<1> QED BY <1>1, <1>2, <1>3, <1>4, <1>5 DEF Next

\* A worker's own step keeps what is so of the map, unless the mutex is lost.
LEMMA OwnStep ==
  ASSUME TypeOK, NEW o \in Owners, WorkerInv(o), MapInv(o), mu' # Kept,
         ReconcileThreads(o) \/ CleanupThreads(o) \/ Step(o)
  PROVE  MapInv(o)'
<1> USE KeysAssumption DEF TypeOK, Own, WorkerInv, MapInv
<1>1. CASE ReconcileThreads(o)  BY <1>1 DEF ReconcileThreads
<1>2. CASE CleanupThreads(o)    BY <1>2 DEF CleanupThreads
<1>3. CASE Present(o)    BY <1>3 DEF Present
<1>4. CASE Missing(o)    BY <1>4 DEF Missing
<1>5. CASE Lock(o)       BY <1>5 DEF Lock
<1>6. CASE RunThread(o)
  <2>1. left'[o] = left[o]
    BY <1>6 DEF RunThread
  <2> QED BY <1>6, <2>1 DEF RunThread
<1>7. CASE BeginSweep(o) BY <1>7 DEF BeginSweep
<1>8. CASE Visit(o)
  <2>1. PICK k \in left[o] \cap map :
          /\ left' = [left EXCEPT ![o] = @ \ {k}]
          /\ IF Doomed(o, k)
             THEN /\ cur' = [cur EXCEPT ![o] = k]
                  /\ pc' = [pc EXCEPT ![o] = IF o \in cleaning THEN "lockToStop" ELSE "looking"]
             ELSE UNCHANGED <<cur, pc>>
    BY <1>8 DEF Visit
  <2>2. k \in Own(o) \ want[o] => Doomed(o, k)
    BY <2>1 DEF Doomed
  <2> QED BY <1>8, <2>1, <2>2 DEF Visit
<1>12. CASE CanBeDeleted(o) BY <1>12 DEF CanBeDeleted
<1>9. CASE EndSweep(o)   BY <1>9 DEF EndSweep
<1>10. CASE StopThread(o) BY <1>10 DEF StopThread
<1>11. CASE StopMissing(o) \/ StopPanics(o)  BY <1>11 DEF StopMissing, StopPanics
<1> QED BY <1>1, <1>2, <1>3, <1>4, <1>5, <1>6, <1>7, <1>8, <1>9, <1>10, <1>11, <1>12 DEF Step

\* The step of another worker leaves it alone.
LEMMA OthersStep ==
  ASSUME TypeOK, NEW o \in Owners, NEW q \in Owners, q # o, Apart(o),
         WorkerInv(o), WorkerInv(q), MapInv(o),
         ReconcileThreads(q) \/ CleanupThreads(q) \/ Step(q)
  PROVE  MapInv(o)'
<1>1. /\ pc'[o] = pc[o] /\ want'[o] = want[o] /\ todo'[o] = todo[o] /\ cur'[o] = cur[o]
      /\ left[o] \subseteq left'[o]
  BY DEF TypeOK, Step, ReconcileThreads, CleanupThreads, Present, Missing, Lock, RunThread,
         BeginSweep, Visit, CanBeDeleted, EndSweep, StopThread, StopMissing, StopPanics
<1>2. map' \cap Own(o) = map \cap Own(o)
  <2>1. CASE RunThread(q)
    BY <2>1 DEF RunThread, WorkerInv, Own
  <2>2. CASE StopThread(q)
    BY <2>2 DEF StopThread, WorkerInv, Own, Apart, TypeOK
  <2>3. CASE ~RunThread(q) /\ ~StopThread(q)
    BY <2>3 DEF Step, ReconcileThreads, CleanupThreads, Present, Missing, Lock,
                BeginSweep, Visit, CanBeDeleted, EndSweep, StopMissing, StopPanics
  <2> QED BY <2>1, <2>2, <2>3
<1>3. \A S : S \subseteq want[o] /\ S \subseteq map => S \subseteq map'
  BY <1>2 DEF WorkerInv
<1> QED BY <1>1, <1>2, <1>3 DEF MapInv, Own

\* The mutex, once lost, stays lost, and every step keeps the rest.
LEMMA NextWorkers ==
  ASSUME TypeOK, TypeOK', WorkersInv, [Next]_vars
  PROVE  WorkersInv'
<1>1. \A o \in Owners : WorkerInv(o)'
  BY NextWorker DEF WorkersInv
<1>2. ASSUME mu' # Kept PROVE mu # Kept
  BY <1>2, MutexAssumption DEF TypeOK, Next, Step, ReconcileThreads, CleanupThreads, Present,
         Missing, Lock, RunThread, BeginSweep, Visit, CanBeDeleted, EndSweep, StopThread,
         StopMissing, StopPanics, ThreadBegins, vars
<1>3. ASSUME mu' # Kept, NEW o \in Owners, Apart(o) PROVE MapInv(o)'
  <2>1. WorkerInv(o) /\ MapInv(o)
    BY <1>2, <1>3 DEF WorkersInv
  <2>2. ASSUME NEW q \in Owners, ReconcileThreads(q) \/ CleanupThreads(q) \/ Step(q)
        PROVE  MapInv(o)'
    BY <1>3, <2>1, <2>2, OwnStep, OthersStep DEF WorkersInv
  <2>3. ASSUME NEW k \in Keys, ThreadBegins(k) PROVE MapInv(o)'
    BY <2>1, <2>3 DEF ThreadBegins, MapInv, Own
  <2>4. CASE UNCHANGED vars
    BY <2>1, <2>4 DEF vars, MapInv, Own
  <2> QED BY <2>2, <2>3, <2>4 DEF Next
<1> QED BY <1>1, <1>3 DEF WorkersInv, Apart, Own

\* After a call that returned, a resource whose keys no other one claims has
\* exactly the threads it should have, however many other resources are
\* reconciled in parallel and whatever their names, until a call leaves the
\* mutex locked.
THEOREM OwnThreadsKept == Spec => []OwnThreads
<1>1. Init => WorkersInv
  BY DEF Init, WorkersInv, WorkerInv, MapInv, Own
<1>2. TypeOK /\ TypeOK' /\ WorkersInv /\ [Next]_vars => WorkersInv'
  BY NextWorkers
<1>3. WorkersInv => OwnThreads
  BY DEF WorkersInv, MapInv, OwnThreads
<1> QED BY TypeCorrect, <1>1, <1>2, <1>3, PTL DEF Spec
=============================================================================
