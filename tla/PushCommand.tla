----------------------------- MODULE PushCommand -----------------------------
(***************************************************************************)
(* What `vcluster registry push` promises, with the mechanism left out:    *)
(* it pushes only images it was asked to push (the images named on the     *)
(* command line and those in the archives it was given), it reports        *)
(* success only after every one of them is in the registry, and it         *)
(* returns.  It may fail at any point, leaving the images it already       *)
(* pushed in the registry.                                                 *)
(***************************************************************************)

VARIABLES
    wanted,     \* the images the invocation asks for (fixed for a run)
    pushed,     \* the images now in the vCluster registry
    result      \* "none" while running, then "ok" or "error"

vars == <<wanted, pushed, result>>

Init ==
    /\ pushed = {}
    /\ result = "none"

Push ==
    /\ result = "none"
    /\ \E img \in wanted \ pushed : pushed' = pushed \cup {img}
    /\ UNCHANGED <<wanted, result>>

Fail ==
    /\ result = "none"
    /\ result' = "error"
    /\ UNCHANGED <<wanted, pushed>>

Succeed ==
    /\ result = "none"
    /\ wanted \subseteq pushed
    /\ result' = "ok"
    /\ UNCHANGED <<wanted, pushed>>

Next == Push \/ Fail \/ Succeed

\* Safety only: remote.Push has no timeout, so the command may hang.
Spec == Init /\ [][Next]_vars

=============================================================================
