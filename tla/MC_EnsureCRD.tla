---------------------------- MODULE MC_EnsureCRD ----------------------------
(* Concurrent calls for the same kind; the host definition has two        *)
(* versions, one of them with a status subresource.  A third call asks    *)
(* for a version the host does not serve.                                 *)
EXTENDS EnsureCRD

MC_Callers     == {"c1", "c2", "c3"}
MC_SameVersion == [c \in MC_Callers |-> IF c = "c3" THEN "missing" ELSE "v1"]
MC_TwoVersions == [c \in {"c1", "c2"} |-> IF c = "c1" THEN "v1" ELSE "v2"]
MC_HostStatus  == [v \in {"v1", "v2"} |-> v = "v1"]
=============================================================================
