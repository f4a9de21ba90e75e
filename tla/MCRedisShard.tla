---------------------------- MODULE MCRedisShard ----------------------------
(* Small instances of RedisShard for TLC.                                  *)
EXTENDS RedisShard, TLC, Functions

\* Any three outside events; of the same kind only restarts and edits, and no
\* failed call or failover beside a replaced pod.  And two failovers about a
\* restart and an edit: the second one may promote the very server that the
\* reconcile is about to attach.
AnyThree ==
  {e \in [EventKinds -> 0..2] :
     \/ /\ SumFunction(e) <= 3
        /\ \A k \in EventKinds \ {"restart", "index"} : e[k] <= 1
        /\ e["replace"] = 1 => e["callError"] + e["failover"] = 0
     \/ e["replace"] + e["callError"] = 0 /\ e["restart"] <= 1 /\ e["index"] <= 1}
=============================================================================
