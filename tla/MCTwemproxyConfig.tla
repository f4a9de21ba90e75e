-------------------------- MODULE MCTwemproxyConfig --------------------------
(* Small instances of TwemproxyConfig for TLC.                             *)
EXTENDS TwemproxyConfig, TLC, Functions

\* One outside event of any kind, or two failovers, two patches that fail, or
\* a failover and an edit of the resource.
FewEvents ==
  {e \in [EventKinds -> 0..2] :
     \/ SumFunction(e) <= 1
     \/ SumFunction(e) = 2 /\ (e["failover"] = 2 \/ e["patchError"] = 2)
     \/ SumFunction(e) = 2 /\ e["failover"] = 1 /\ e["edit"] = 1}

OneExpiry == {e \in [EventKinds -> 0..1] : \A k \in EventKinds \ {"expiry"} : e[k] = 0}
=============================================================================
