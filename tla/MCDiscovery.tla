----------------------------- MODULE MCDiscovery -----------------------------
(* A small instance of Discovery for TLC.                                  *)
EXTENDS Discovery, TLC, Functions

\* A shard with a master and two slaves, and one with a master only.
TwoShards  == (1 :> "a") @@ (2 :> "a") @@ (3 :> "a") @@ (4 :> "b")
TwoMasters == ("a" :> 1) @@ ("b" :> 4)

\* Any two outside events; of the same kind only failovers.
AnyTwo ==
  {e \in [EventKinds -> 0..2] :
     SumFunction(e) <= 2 /\ \A k \in EventKinds \ {"failover"} : e[k] <= 1}
=============================================================================
