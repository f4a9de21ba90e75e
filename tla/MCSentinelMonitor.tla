-------------------------- MODULE MCSentinelMonitor --------------------------
(* A small instance of SentinelMonitor for TLC.                            *)
EXTENDS SentinelMonitor, TLC, Functions

\* A shard with a slave, and one with a master only.
TwoShards  == (1 :> "a") @@ (2 :> "a") @@ (3 :> "b")
TwoMasters == ("a" :> 1) @@ ("b" :> 3)

\* Any three outside events; of the same kind only failovers.
AnyThree ==
  {e \in [EventKinds -> 0..2] :
     SumFunction(e) <= 3 /\ \A k \in EventKinds \ {"failover"} : e[k] <= 1}
=============================================================================
