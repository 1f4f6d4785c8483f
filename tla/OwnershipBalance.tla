-------------------------- MODULE OwnershipBalance --------------------------
(***************************************************************************)
(* The load-balancing decision of the event hub consumer: which partitions *)
(* one EventProcessor asks for, given the ownership list it has just read. *)
(* OwnershipManager._balance_ownership, with the GREEDY strategy the       *)
(* add-on's client is built with.                                          *)
(*                                                                         *)
(* An ownership list is a function from partitions to records with an      *)
(* owner and a flag fresh: the claim is younger than ownership_timeout.    *)
(***************************************************************************)
EXTENDS Integers, FiniteSets, FiniteSetsExt

CONSTANT Nobody      \* the empty owner_id of a partition nobody has claimed

\* Mutant of Released: claims do not expire.
ReleasedUnowned(list) == {p \in DOMAIN list : list[p].owner = Nobody}

\* Partitions that were given up, or whose claim has expired.
Released(list) ==
    {p \in DOMAIN list : list[p].owner = Nobody \/ ~list[p].fresh}

ActiveOwnership(list, o) ==
    {p \in DOMAIN list \ Released(list) : list[p].owner = o}

\* The processor that balances counts itself as an owner.
ActiveOwners(list, self) ==
    {self} \union {list[p].owner : p \in DOMAIN list \ Released(list)}

ExpectedCount(list, self) ==
    Cardinality(DOMAIN list) \div Cardinality(ActiveOwners(list, self))

\* The rounded-up share of a processor.
MaxCount(list, self) ==
    LET n == Cardinality(ActiveOwners(list, self))
    IN  (Cardinality(DOMAIN list) + n - 1) \div n

\* Owners with the most partitions. The code takes the first of them.
BusiestOwners(list, self) ==
    {o \in ActiveOwners(list, self) :
        \A x \in ActiveOwners(list, self) :
            Cardinality(ActiveOwnership(list, x))
                =< Cardinality(ActiveOwnership(list, o))}

\* The claim lists _balance_ownership may return to the processor self: what
\* it holds already, plus released partitions up to its rounded-up share,
\* plus one partition of the busiest owner when nothing is released and it
\* holds less than the rounded-down share. The random choices are the set.
BalanceOwnership(list, self) ==
    LET mine  == ActiveOwnership(list, self)
        free  == Released(list)
        room  == MaxCount(list, self) - Cardinality(mine)
        short == Cardinality(mine) < ExpectedCount(list, self)
    IN  IF room > 0 /\ free # {}
        THEN {mine \union more :
                  more \in kSubset(Min({room, Cardinality(free)}), free)}
        ELSE IF short
        THEN {mine \union {p} :
                  p \in UNION {ActiveOwnership(list, o) :
                                   o \in BusiestOwners(list, self)}}
        ELSE {mine}

-----------------------------------------------------------------------------
(* What a decision has to keep to. *)

Share(list, o) == Cardinality(ActiveOwnership(list, o))

\* A processor goes on with what it holds, takes nothing beyond its rounded-up
\* share, and takes a partition that is not released only if its owner is left
\* with a rounded-down share, so that it has no reason to take one back.
FairDecision(list, self, parts) ==
    /\ ActiveOwnership(list, self) \subseteq parts
    /\ parts \subseteq DOMAIN list
    /\ \/ parts = ActiveOwnership(list, self)
       \/ Cardinality(parts) =< MaxCount(list, self)
    /\ LET stolen == parts \ (ActiveOwnership(list, self) \union Released(list))
       IN  /\ Cardinality(stolen) =< 1
           /\ \A p \in stolen :
                 Share(list, list[p].owner) > ExpectedCount(list, self)

\* There is a decision to take (random.choice has something to choose from),
\* and each that can be taken is fair.
BalanceIsFair(list, self) ==
    /\ BalanceOwnership(list, self) # {}
    /\ \A parts \in BalanceOwnership(list, self) :
          FairDecision(list, self, parts)

\* No active processor asks for a change.
Settled(list, self) ==
    \A o \in ActiveOwners(list, self) :
        BalanceOwnership(list, o) = {ActiveOwnership(list, o)}

\* No partition is left alone, and each processor has its rounded-down share.
SharedOut(list, self) ==
    /\ Released(list) = {}
    /\ \A o \in ActiveOwners(list, self) :
          Share(list, o) >= ExpectedCount(list, self)
=============================================================================
