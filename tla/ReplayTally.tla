----------------------------- MODULE ReplayTally -----------------------------
(***************************************************************************)
(* What a replay of webhook files promises: each file is tried once and    *)
(* counted as a success or a failure, and then the counts are returned.    *)
(***************************************************************************)
EXTENDS Naturals, FiniteSets

CONSTANT Files

VARIABLES
    left,      \* files not counted yet
    successes, \* files counted as successes
    failures,  \* files counted as failures
    returned   \* whether the counts have been returned

vars == <<left, successes, failures, returned>>

Init ==
    /\ left = Files
    /\ successes = 0
    /\ failures = 0
    /\ returned = FALSE

Count(f) ==
    /\ f \in left
    /\ left' = left \ {f}
    /\ \/ successes' = successes + 1 /\ UNCHANGED failures
       \/ failures' = failures + 1 /\ UNCHANGED successes
    /\ UNCHANGED returned

Return ==
    /\ left = {}
    /\ ~ returned
    /\ returned' = TRUE
    /\ UNCHANGED <<left, successes, failures>>

Next == (\E f \in Files : Count(f)) \/ Return

Spec == Init /\ [][Next]_vars
=============================================================================
