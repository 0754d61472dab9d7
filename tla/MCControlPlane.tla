--------------------------- MODULE MCControlPlane ---------------------------
(* Instances of ControlPlane for TLC; the .cfg files choose the constants. *)
EXTENDS ControlPlane, TLC

\* Scheduler goroutines are interchangeable, and so are worker sessions.
Symmetry ==
    {f @@ g : f \in Permutations(Runners), g \in Permutations(Sessions)}

=============================================================================
