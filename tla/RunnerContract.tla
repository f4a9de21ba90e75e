--------------------------- MODULE RunnerContract ---------------------------
(***************************************************************************)
(* What the runners of a shard promise the controller that reads their     *)
(* status: they take turns, a status that is set is final, and a runner    *)
(* completes only once its own backup, of a save made for it, is in the    *)
(* bucket.  A runner that failed promises nothing: its worker may still be *)
(* at it, and its backup may turn up later.  Module BackupRunner is shown  *)
(* to implement this.                                                      *)
(***************************************************************************)
EXTENDS Naturals

CONSTANT Runners           \* in the order they start

VARIABLES
  status,                  \* of each runner
  stored                   \* the runners whose backup is in the bucket

Final == {"completed", "failed"}

Init ==
  /\ status = [r \in Runners |-> "none"]
  /\ stored = {}

SetStatus(r, from, to) ==
  /\ status[r] = from
  /\ status' = [status EXCEPT ![r] = to]
  /\ UNCHANGED stored

Start(r) ==
  /\ \A q \in Runners : q < r => status[q] \in Final
  /\ SetStatus(r, "none", "running")

\* Once, and never before the runner is started.
Store(r) ==
  /\ status[r] \in {"running", "failed"}
  /\ r \notin stored
  /\ stored' = stored \cup {r}
  /\ UNCHANGED status

Complete(r) == r \in stored /\ SetStatus(r, "running", "completed")

Fail(r) == SetStatus(r, "running", "failed")

Next == \E r \in Runners : Start(r) \/ Store(r) \/ Complete(r) \/ Fail(r)

Spec == Init /\ [][Next]_<<status, stored>>
=============================================================================
