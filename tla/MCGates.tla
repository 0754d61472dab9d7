------------------------------ MODULE MCGates ------------------------------
(* Instances of Gates for TLC. *)
EXTENDS Gates, TLC

CONSTANTS s1, s2, k1, k2, o1

\* An approval completes the run and a rejection goes on; an answer goes on and
\* a timeout completes the run.
MCBranches ==
    [kind \in Kinds |-> IF kind = "approval" THEN {<<FALSE, TRUE>>}
                                             ELSE {<<TRUE, FALSE>>}]

=============================================================================
