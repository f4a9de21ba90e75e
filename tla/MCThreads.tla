------------------------------ MODULE MCThreads ------------------------------
(* Small instances of Threads for TLC.  Two resources have the same name n, *)
(* in the namespaces a and ba; x and y are the URIs of sentinels.           *)
EXTENDS Threads

ThreeKeys == {"a/n_x", "a/n_y", "ba/n_x"}
OwnerOf(k) == IF k = "ba/n_x" THEN "ba/n" ELSE "a/n"

\* The prefix a/n_ occurs in the keys of both.
ContainsPrefix(k, o) == OwnerOf(k) = o \/ o = "a/n"
=============================================================================
