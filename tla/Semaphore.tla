----------------------------- MODULE Semaphore -----------------------------
(***************************************************************************)
(* What the deploy semaphore promises: at most Limit deployments at a time *)
(* and none while the system cleanup runs.  A slot is taken and given back *)
(* in one step, a slot may be lost (its holder leaves without giving it    *)
(* back), and the whole counter may be forgotten once nobody needs it.     *)
(***************************************************************************)
EXTENDS Integers, FiniteSets

CONSTANTS Deployers, Limit

VARIABLES
    taken,    \* slots the counter says are taken
    holders,  \* deployments that run in a slot
    cleaning  \* whether the cleanup runs

Init == taken = 0 /\ holders = {} /\ cleaning = FALSE

Acquire(p) ==
    /\ taken < Limit
    /\ taken' = taken + 1
    /\ holders' = holders \cup {p}
    /\ UNCHANGED cleaning

Leave(p) ==
    /\ holders' = holders \ {p}
    /\ UNCHANGED <<taken, cleaning>>

\* Only a slot that nobody uses is given back.
GiveBack ==
    /\ taken > Cardinality(holders)
    /\ taken' = taken - 1
    /\ UNCHANGED <<holders, cleaning>>

StartCleaning ==
    /\ taken = 0
    /\ taken' = Limit
    /\ cleaning' = TRUE
    /\ UNCHANGED holders

StopCleaning ==
    /\ cleaning' = FALSE
    /\ UNCHANGED <<taken, holders>>

Forget ==
    /\ holders = {} /\ ~cleaning
    /\ taken' = 0
    /\ UNCHANGED <<holders, cleaning>>

Next ==
    \/ \E p \in Deployers : Acquire(p) \/ Leave(p)
    \/ GiveBack \/ StartCleaning \/ StopCleaning \/ Forget

Spec == Init /\ [][Next]_<<taken, holders, cleaning>>
=============================================================================
