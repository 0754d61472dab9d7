------------------------------- MODULE Ledger -------------------------------
(***************************************************************************)
(* What the control plane promises about the runs of one workflow, without *)
(* rows, sessions and goroutines: runs are asked for, one at a time is     *)
(* taken up, begins, ends and is resolved by the policy, and no run is     *)
(* taken up before the policy has resolved the one that ended last.        *)
(***************************************************************************)
EXTENDS Integers

VARIABLES
    asked,      \* runs asked for so far; run n is the n-th of them
    taken,      \* the run that is taken up, 0 when there is none
    begun,      \* it was handed to a worker, or is over
    ended,      \* the run that ended last
    resolved    \* the run the policy resolved last

ledger == <<asked, taken, begun, ended, resolved>>

LedgerInit == asked = 0 /\ taken = 0 /\ ~begun /\ ended = 0 /\ resolved = 0

Ask == asked' = asked + 1 /\ UNCHANGED <<taken, begun, ended, resolved>>

\* A run is taken up, at the earliest when the last one is resolved.  Until it
\* begins a later run may take its place.
Take ==
    /\ resolved = ended
    /\ ~begun
    /\ taken' \in 1 .. asked /\ taken < taken'
    /\ UNCHANGED <<asked, begun, ended, resolved>>

Begin == taken # 0 /\ begun' = TRUE /\ UNCHANGED <<asked, taken, ended, resolved>>

\* The worker it was handed to would not have it.
GiveBack == begun /\ begun' = FALSE /\ UNCHANGED <<asked, taken, ended, resolved>>

\* The end of the run that is taken up, and of no other, is recorded, once.
End ==
    /\ begun
    /\ ended < taken /\ ended' = taken
    /\ UNCHANGED <<asked, taken, begun, resolved>>

Resolve ==
    /\ resolved < ended /\ resolved' = ended
    /\ UNCHANGED <<asked, taken, begun, ended>>

\* Only a run whose end is recorded makes room.
Clear ==
    /\ begun /\ taken <= ended
    /\ taken' = 0 /\ begun' = FALSE
    /\ UNCHANGED <<asked, ended, resolved>>

LedgerNext ==
    Ask \/ Take \/ Begin \/ GiveBack \/ End \/ Resolve \/ Clear

LedgerSpec == LedgerInit /\ [][LedgerNext]_ledger

=============================================================================
