----------------------------- MODULE MCWorkload -----------------------------
(* A small instance of Workload for TLC.                                   *)
EXTENDS Workload, Functions

Plain   == [image |-> 1, hpa |-> TRUE, canary |-> "none", marin3r |-> FALSE, dynamic |-> FALSE]
Canary  == [Plain EXCEPT !.image = 2, !.canary = "traffic", !.marin3r = TRUE, !.dynamic = TRUE]
Idling  == [Plain EXCEPT !.hpa = FALSE, !.canary = "idle"]
Static  == [Plain EXCEPT !.marin3r = TRUE]
AnySpec == {Plain, Canary, Idling, Static}

\* Any two outside events of different kinds; an edit and a
\* change of the Secret or by a user do not come together.
AnyTwo ==
  {e \in [EventKinds -> 0..1] :
     /\ SumFunction(e) <= 2
     /\ e["edit"] = 1 => e["secret"] + e["drift"] = 0}
=============================================================================
