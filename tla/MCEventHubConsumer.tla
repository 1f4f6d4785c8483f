------------------------- MODULE MCEventHubConsumer -------------------------
(* Instances of EventHubConsumer for TLC. *)
EXTENDS EventHubConsumer, TLC

CONSTANTS p1, p2

NoPoison == {}
\* The handler raises on the second event of p1.
OnePoison == {<<p1, 2>>}

\* _balance_ownership for every list of up to four partitions and three owners.
ListsOf(n) ==
    [1..n -> [owner : {1, 2, 3, Nobody}, fresh : BOOLEAN]]
ASSUME BalanceChecked ==
    \A n \in 1..4 : \A list \in ListsOf(n), o \in 1..3 :
        BalanceIsFair(list, o) /\ (Settled(list, o) => SharedOut(list, o))

Symmetry == Permutations(Procs) \union Permutations(Partitions)
=============================================================================
