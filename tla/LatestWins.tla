----------------------------- MODULE LatestWins -----------------------------
(***************************************************************************)
(* What the marker runtime promises its aggregates, without markers,       *)
(* leases, loops or time: a resource is asked for ever newer versions, and  *)
(* the only result that may ever be stored is one for the version wanted    *)
(* at that moment.  A closed resource stores nothing any more, unless it   *)
(* is one whose removal is itself work (a DNS zone).                       *)
(***************************************************************************)
EXTENDS Naturals

CONSTANTS Resources, RemovalIsWork

VARIABLES wanted, stored, open

latestVars == <<wanted, stored, open>>

Init == /\ wanted = [r \in Resources |-> 0]
        /\ stored = [r \in Resources |-> 0]
        /\ open = [r \in Resources |-> TRUE]

Want(r) == /\ open[r]
           /\ wanted' = [wanted EXCEPT ![r] = @ + 1]
           /\ UNCHANGED <<stored, open>>

Close(r) == /\ open[r]
            /\ open' = [open EXCEPT ![r] = FALSE]
            /\ wanted' \in {wanted, [wanted EXCEPT ![r] = @ + 1]}
            /\ UNCHANGED stored

Store(r) == /\ open[r] \/ r \in RemovalIsWork
            /\ stored' = [stored EXCEPT ![r] = wanted[r]]
            /\ UNCHANGED <<wanted, open>>

Next == \E r \in Resources : Want(r) \/ Close(r) \/ Store(r)

Spec == Init /\ [][Next]_latestVars
=============================================================================
