-------------------------- MODULE EventHubDelivery --------------------------
(***************************************************************************)
(* What the event hub input promises: delivery at least once, without a    *)
(* gap.  Events of a partition reach Splunk in order, some of them more    *)
(* than once, and the position a restart would resume from never passes an *)
(* event that was not delivered.                                           *)
(***************************************************************************)
EXTENDS Integers

CONSTANTS Partitions, LastOffset

VARIABLES ingested, committed

Init == /\ ingested = [p \in Partitions |-> {}]
        /\ committed = [p \in Partitions |-> 0]

\* An event is delivered, for the first time or again, after its predecessors.
Ingest(p, i) ==
    /\ 1 .. i - 1 \subseteq ingested[p]
    /\ ingested' = [ingested EXCEPT ![p] = @ \union {i}]
    /\ UNCHANGED committed

\* The resume positions change, forwards or backwards, within what has been
\* delivered.
Commit ==
    /\ committed' \in [Partitions -> 0 .. LastOffset]
    /\ \A p \in Partitions : 1 .. committed'[p] \subseteq ingested[p]
    /\ UNCHANGED ingested

Next == \/ \E p \in Partitions, i \in 1 .. LastOffset : Ingest(p, i)
        \/ Commit

vars == <<ingested, committed>>

Spec == Init /\ [][Next]_vars
=============================================================================
