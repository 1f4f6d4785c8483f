----------------------- MODULE OwnershipBalanceProofs -----------------------
(***************************************************************************)
(* Proofs about the load-balancing decision, for every ownership list,     *)
(* every number of partitions and of processors: it always has something   *)
(* to choose from, takes no more than a share, does not take what would be *)
(* taken back, and rests only when every partition is shared out.          *)
(***************************************************************************)
EXTENDS OwnershipBalance, FunctionTheorems, FiniteSetTheorems,
        WellFoundedInduction, TLAPS

-----------------------------------------------------------------------------
(* Counting.  Partitions are counted by placing them in numbered seats of  *)
(* their owners.                                                           *)

\* The elements of S that f sends to o.
Hole(S, f, o) == {x \in S : f[x] = o}

\* A finite set with at most k elements can be seated on 1..k, ...
LEMMA SeatsFor ==
    ASSUME NEW S, IsFiniteSet(S), NEW k \in Nat, Cardinality(S) =< k
    PROVE  \E g \in [S -> 1..k] : \A x, y \in S : g[x] = g[y] => x = y
<1> DEFINE n == Cardinality(S)
<1>1. n \in Nat /\ ExistsBijection(S, 1..n)
    BY FS_CardinalityType, Fun_ExistsBijSymmetric
<1>2. PICK g \in Bijection(S, 1..n) : TRUE
    BY <1>1 DEF ExistsBijection
<1>3. g \in [S -> 1..n] /\ \A x, y \in S : g[x] = g[y] => x = y
    BY <1>2 DEF Bijection, Injection, IsInjective
<1>4. 1..n \subseteq 1..k
    BY <1>1
<1>5. g \in [S -> 1..k]
    BY <1>3, <1>4
<1>6. QED
    BY <1>3, <1>5

\* ... and one with at least k elements can fill them.
LEMMA SeatsFrom ==
    ASSUME NEW S, IsFiniteSet(S), NEW k \in Nat, k =< Cardinality(S)
    PROVE  \E g \in [1..k -> S] : \A x, y \in 1..k : g[x] = g[y] => x = y
<1> DEFINE n == Cardinality(S)
<1>1. n \in Nat /\ ExistsBijection(1..n, S)
    BY FS_CardinalityType
<1>2. PICK g \in Bijection(1..n, S) : TRUE
    BY <1>1 DEF ExistsBijection
<1>3. g \in [1..n -> S] /\ \A x, y \in 1..n : g[x] = g[y] => x = y
    BY <1>2 DEF Bijection, Injection, IsInjective
<1>4. 1..k \subseteq 1..n
    BY <1>1
<1> DEFINE h == [i \in 1..k |-> g[i]]
<1>5. h \in [1..k -> S]
    BY <1>3, <1>4
<1>6. \A x, y \in 1..k : h[x] = h[y] => x = y
    BY <1>3, <1>4
<1>7. QED
    BY <1>5, <1>6

\* There are k seats for each owner.
LEMMA SeatsInAll ==
    ASSUME NEW O, IsFiniteSet(O), NEW k \in Nat
    PROVE  /\ IsFiniteSet(O \X (1..k))
           /\ Cardinality(O \X (1..k)) = Cardinality(O) * k
<1>1. IsFiniteSet(1..k)
    BY FS_Interval
<1>2. Cardinality(1..k) = k
    <2>1. Cardinality(1..k) = IF 1 > k THEN 0 ELSE k - 1 + 1
        BY FS_Interval
    <2>2. QED
        BY <2>1
<1>3. QED
    BY <1>1, <1>2, FS_Product

\* If no owner has more than k elements, the set has no more than k for each.
LEMMA AtMostEach ==
    ASSUME NEW S, IsFiniteSet(S), NEW O, IsFiniteSet(O), NEW k \in Nat,
           NEW f \in [S -> O],
           \A o \in O : Cardinality(Hole(S, f, o)) =< k
    PROVE  Cardinality(S) =< Cardinality(O) * k
<1> DEFINE Seats(o) == {g \in [Hole(S, f, o) -> 1..k] :
                          \A x, y \in Hole(S, f, o) : g[x] = g[y] => x = y}
           seat == [o \in O |-> CHOOSE g \in Seats(o) : TRUE]
           place == [x \in S |-> <<f[x], seat[f[x]][x]>>]
<1>1. \A o \in O : seat[o] \in Seats(o)
    <2>1. ASSUME NEW o \in O
          PROVE  Seats(o) # {}
        <3>1. IsFiniteSet(Hole(S, f, o))
            BY FS_Subset DEF Hole
        <3>2. QED
            BY <3>1, SeatsFor
    <2>2. QED
        BY <2>1
<1> HIDE DEF seat
<1>2. \A x \in S : f[x] \in O /\ x \in Hole(S, f, f[x])
    BY DEF Hole
<1>3. place \in [S -> O \X (1..k)]
    BY <1>1, <1>2
<1>4. ASSUME NEW x \in S, NEW y \in S, place[x] = place[y]
      PROVE  x = y
    <2>1. f[x] = f[y] /\ seat[f[x]][x] = seat[f[x]][y]
        BY <1>4
    <2>2. y \in Hole(S, f, f[x])
        BY <2>1, <1>2
    <2>3. QED
        BY <2>1, <2>2, <1>1, <1>2
<1>5. place \in Injection(S, O \X (1..k))
    BY <1>3, <1>4 DEF Injection, IsInjective
<1>6. /\ IsFiniteSet(O \X (1..k))
      /\ Cardinality(O \X (1..k)) = Cardinality(O) * k
    BY SeatsInAll
<1>7. Cardinality(S) =< Cardinality(O \X (1..k))
    <2> HIDE DEF place
    <2>1. IsFiniteSet(O \X (1..k))
        BY <1>6
    <2>2. QED
        BY <1>5, <2>1, FS_Injection
<1>8. QED
    BY <1>6, <1>7

\* If every owner has at least k elements, the set has at least k for each.
LEMMA AtLeastEach ==
    ASSUME NEW S, IsFiniteSet(S), NEW O, IsFiniteSet(O), NEW k \in Nat,
           NEW f \in [S -> O],
           \A o \in O : Cardinality(Hole(S, f, o)) >= k
    PROVE  Cardinality(S) >= Cardinality(O) * k
<1> DEFINE Seats(o) == {g \in [1..k -> Hole(S, f, o)] :
                          \A x, y \in 1..k : g[x] = g[y] => x = y}
           seat == [o \in O |-> CHOOSE g \in Seats(o) : TRUE]
           place == [c \in O \X (1..k) |-> seat[c[1]][c[2]]]
<1>1. \A o \in O : seat[o] \in Seats(o)
    <2>1. ASSUME NEW o \in O
          PROVE  Seats(o) # {}
        <3>1. IsFiniteSet(Hole(S, f, o))
            BY FS_Subset DEF Hole
        <3>2. Cardinality(Hole(S, f, o)) \in Nat
            BY <3>1, FS_CardinalityType
        <3>3. QED
            BY <3>1, <3>2, SeatsFrom
    <2>2. QED
        BY <2>1
<1> HIDE DEF seat
<1>2. \A o \in O, i \in 1..k : seat[o][i] \in S /\ f[seat[o][i]] = o
    BY <1>1 DEF Hole
<1>3. place \in [O \X (1..k) -> S]
    BY <1>2
<1>4. ASSUME NEW c \in O \X (1..k), NEW d \in O \X (1..k),
             place[c] = place[d]
      PROVE  c = d
    <2>1. PICK o \in O, i \in 1..k : c = <<o, i>>
        OBVIOUS
    <2>2. PICK u \in O, j \in 1..k : d = <<u, j>>
        OBVIOUS
    <2>3. seat[o][i] = seat[u][j]
        BY <1>4, <2>1, <2>2
    <2>4. o = u
        BY <2>3, <1>2
    <2>5. i = j
        BY <2>3, <2>4, <1>1
    <2>6. QED
        BY <2>1, <2>2, <2>4, <2>5
<1>5. place \in Injection(O \X (1..k), S)
    BY <1>3, <1>4 DEF Injection, IsInjective
<1>6. /\ IsFiniteSet(O \X (1..k))
      /\ Cardinality(O \X (1..k)) = Cardinality(O) * k
    BY SeatsInAll
<1>7. Cardinality(O \X (1..k)) =< Cardinality(S)
    <2> HIDE DEF place
    <2>1. QED
        BY <1>5, FS_Injection
<1>8. Cardinality(S) \in Nat /\ Cardinality(O \X (1..k)) \in Nat
    BY <1>6, FS_CardinalityType
<1>9. QED
    BY <1>6, <1>7, <1>8

-----------------------------------------------------------------------------
(* Shares.  \div rounds down and MaxCount rounds up.                       *)

LEMMA RoundedDown ==
    ASSUME NEW a \in Nat, NEW n \in Nat \ {0}
    PROVE  /\ a \div n \in Nat
           /\ n * (a \div n) =< a
           /\ a < n * (a \div n) + n
OBVIOUS

LEMMA Multiples ==
    ASSUME NEW n \in Nat, NEW c \in Nat, NEW d \in Nat, c < d
    PROVE  n * c + n =< n * d
<1>1. PICK e \in Nat : d = c + 1 + e
    <2>1. d - c - 1 \in Nat /\ d = c + 1 + (d - c - 1)
        OBVIOUS
    <2>2. QED
        BY <2>1
<1>2. n * d = n * c + n + n * e
    BY <1>1
<1>3. n * e \in Nat /\ n * c \in Nat
    OBVIOUS
<1>4. QED
    BY <1>2, <1>3

\* Who divides by more gets less.
LEMMA FewerForMore ==
    ASSUME NEW n \in Nat, NEW m \in Nat, NEW c \in Nat, m =< n
    PROVE  m * c =< n * c
<1>1. PICK e \in Nat : n = m + e
    <2>1. n - m \in Nat /\ n = m + (n - m)
        OBVIOUS
    <2>2. QED
        BY <2>1
<1>2. n * c = m * c + e * c /\ e * c \in Nat /\ m * c \in Nat
    BY <1>1
<1>3. QED
    BY <1>2

\* The rounded-down share of a is the greatest with n times of it in a,
LEMMA LargestShare ==
    ASSUME NEW a \in Nat, NEW n \in Nat \ {0}, NEW c \in Nat, n * c =< a
    PROVE  c =< a \div n
<1> DEFINE e == a \div n
<1>1. e \in Nat /\ a < n * e + n
    BY RoundedDown
<1>2. CASE e < c
    <2> HIDE DEF e
    <2>1. n * e + n =< n * c
        BY <1>1, <1>2, Multiples
    <2>2. n * e \in Nat /\ n * c \in Nat
        BY <1>1
    <2>3. QED
        BY <1>1, <2>1, <2>2
<1>3. QED
    BY <1>1, <1>2

\* and the rounded-up share the least with a in n times of it.
LEMMA RoundedUp ==
    ASSUME NEW a \in Nat, NEW n \in Nat \ {0}
    PROVE  /\ (a + n - 1) \div n \in Nat
           /\ a =< n * ((a + n - 1) \div n)
           /\ \A c \in Nat : a =< n * c => (a + n - 1) \div n =< c
<1> DEFINE m == (a + n - 1) \div n
<1>1. /\ a + n - 1 \in Nat /\ m \in Nat
      /\ n * m =< a + n - 1 /\ a + n - 1 < n * m + n
    BY RoundedDown
<1>2. ASSUME NEW c \in Nat, a =< n * c, c < m
      PROVE  FALSE
    <2> HIDE DEF m
    <2>1. n * c + n =< n * m
        BY <1>1, <1>2, Multiples
    <2>2. n * c \in Nat /\ n * m \in Nat
        BY <1>1
    <2>3. QED
        BY <1>1, <1>2, <2>1, <2>2
<1>3. QED
    <2>1. n * m \in Nat
        BY <1>1
    <2>2. a =< n * m
        BY <1>1, <2>1
    <2>3. QED
        BY <1>1, <1>2, <2>2

-----------------------------------------------------------------------------
(* Ownership lists *)

\* A list has the partitions of a hub: finitely many.
LEMMA OwnersAreFinite ==
    ASSUME NEW list, IsFiniteSet(DOMAIN list), NEW self
    PROVE  /\ IsFiniteSet(ActiveOwners(list, self))
           /\ self \in ActiveOwners(list, self)
           /\ Cardinality(ActiveOwners(list, self)) \in Nat \ {0}
<1> DEFINE S == DOMAIN list \ Released(list)
           T == {list[p].owner : p \in S}
           f == [p \in S |-> list[p].owner]
<1>1. IsFiniteSet(S)
    BY FS_Difference
<1>2. f \in Surjection(S, T)
    BY DEF Surjection
<1>3. IsFiniteSet(T)
    <2> HIDE DEF S, T, f
    <2> QED
        BY <1>1, <1>2, FS_Surjection
<1>4. IsFiniteSet({self} \union T)
    BY <1>3, FS_Union, FS_Singleton
<1>5. ActiveOwners(list, self) = {self} \union T
    BY DEF ActiveOwners
<1>6. QED
    BY <1>4, <1>5, FS_CardinalityType, FS_EmptySet

LEMMA SharesAreFinite ==
    ASSUME NEW list, IsFiniteSet(DOMAIN list), NEW o
    PROVE  /\ ActiveOwnership(list, o) \subseteq DOMAIN list \ Released(list)
           /\ IsFiniteSet(ActiveOwnership(list, o))
           /\ Share(list, o) \in Nat
           /\ IsFiniteSet(Released(list)) /\ Cardinality(Released(list)) \in Nat
           /\ Cardinality(DOMAIN list) \in Nat
<1>1. ActiveOwnership(list, o) \subseteq DOMAIN list \ Released(list)
    BY DEF ActiveOwnership
<1>2. Released(list) \subseteq DOMAIN list
    BY DEF Released
<1>3. IsFiniteSet(ActiveOwnership(list, o)) /\ IsFiniteSet(Released(list))
    BY <1>1, <1>2, FS_Subset
<1>4. QED
    BY <1>1, <1>3, FS_CardinalityType DEF Share

LEMMA SharesRound ==
    ASSUME NEW list, IsFiniteSet(DOMAIN list), NEW self
    PROVE  /\ ExpectedCount(list, self) \in Nat
           /\ MaxCount(list, self) \in Nat
           /\ Cardinality(ActiveOwners(list, self)) * ExpectedCount(list, self)
                 =< Cardinality(DOMAIN list)
           /\ Cardinality(DOMAIN list)
                 =< Cardinality(ActiveOwners(list, self)) * MaxCount(list, self)
<1>1. /\ Cardinality(ActiveOwners(list, self)) \in Nat \ {0}
      /\ Cardinality(DOMAIN list) \in Nat
    BY OwnersAreFinite, SharesAreFinite
<1>2. QED
    BY <1>1, RoundedDown, RoundedUp DEF ExpectedCount, MaxCount

\* An active owner counts no more owners than another processor does, which
\* counts itself: so its shares are no smaller.
LEMMA OthersShare ==
    ASSUME NEW list, IsFiniteSet(DOMAIN list), NEW self,
           NEW o \in ActiveOwners(list, self)
    PROVE  /\ ExpectedCount(list, self) =< ExpectedCount(list, o)
           /\ MaxCount(list, self) =< MaxCount(list, o)
<1> DEFINE N == Cardinality(DOMAIN list)
           n == Cardinality(ActiveOwners(list, self))
           m == Cardinality(ActiveOwners(list, o))
           e == ExpectedCount(list, self)
           c == MaxCount(list, o)
<1>1. ActiveOwners(list, o) \subseteq ActiveOwners(list, self)
    BY DEF ActiveOwners
<1>2. m =< n
    BY <1>1, OwnersAreFinite, FS_Subset
<1>3. N \in Nat /\ n \in Nat \ {0} /\ m \in Nat \ {0}
    BY OwnersAreFinite, SharesAreFinite
<1>4. e \in Nat /\ c \in Nat /\ n * e =< N /\ N =< m * c
    BY SharesRound
<1>5. m * e =< N
    <2>1. m * e =< n * e /\ m * e \in Nat /\ n * e \in Nat
        <3> HIDE DEF e, m, n
        <3> QED
            BY <1>2, <1>3, <1>4, FewerForMore
    <2>2. QED
        BY <1>3, <1>4, <2>1
<1>6. N =< n * c
    <2>1. m * c =< n * c /\ m * c \in Nat /\ n * c \in Nat
        <3> HIDE DEF c, m, n
        <3> QED
            BY <1>2, <1>3, <1>4, FewerForMore
    <2>2. QED
        BY <1>3, <1>4, <2>1
<1>7. e =< N \div m
    <2> HIDE DEF e, m, N
    <2> QED
        BY <1>3, <1>4, <1>5, LargestShare
<1>8. (N + n - 1) \div n =< c
    <2> HIDE DEF c, n, N
    <2> QED
        BY <1>3, <1>4, <1>6, RoundedUp
<1>9. QED
    BY <1>7, <1>8 DEF ExpectedCount, MaxCount

-----------------------------------------------------------------------------
(* Who has more or less than a share.                                      *)

\* While a partition is released, some owner has less than its rounded-up
\* share: otherwise there would be more claims than partitions.
LEMMA SomeoneHasRoom ==
    ASSUME NEW list, IsFiniteSet(DOMAIN list), NEW self, Released(list) # {}
    PROVE  \E o \in ActiveOwners(list, self) :
              Share(list, o) < MaxCount(list, o)
<1> DEFINE S == DOMAIN list \ Released(list)
           O == ActiveOwners(list, self)
           c == MaxCount(list, self)
           f == [p \in S |-> list[p].owner]
<1>1. IsFiniteSet(S) /\ IsFiniteSet(O) /\ c \in Nat
    BY FS_Difference, OwnersAreFinite, SharesRound
<1>2. f \in [S -> O]
    BY DEF ActiveOwners
<1>3. \A o \in O : Hole(S, f, o) = ActiveOwnership(list, o)
    BY DEF Hole, ActiveOwnership
<1>4. Cardinality(S) < Cardinality(DOMAIN list)
    <2>1. DOMAIN list # S /\ S \subseteq DOMAIN list
        BY DEF Released
    <2>2. Cardinality(S) \in Nat /\ Cardinality(DOMAIN list) \in Nat
        BY <1>1, FS_CardinalityType
    <2>3. QED
        BY <2>1, <2>2, FS_Subset
<1>5. SUFFICES ASSUME \A o \in O : Share(list, o) >= c
               PROVE  FALSE
    <2>1. SUFFICES ASSUME NEW o \in O, Share(list, o) < c
                   PROVE  Share(list, o) < MaxCount(list, o)
        BY <1>1, SharesAreFinite
    <2>2. c =< MaxCount(list, o) /\ MaxCount(list, o) \in Nat
        BY OthersShare, SharesRound
    <2>3. QED
        BY <1>1, <2>1, <2>2, SharesAreFinite
<1>6. Cardinality(S) >= Cardinality(O) * c
    <2>1. \A o \in O : Cardinality(Hole(S, f, o)) >= c
        BY <1>3, <1>5 DEF Share
    <2> HIDE DEF S, O, c, f
    <2>2. QED
        BY <1>1, <1>2, <2>1, AtLeastEach
<1>7. /\ Cardinality(DOMAIN list) =< Cardinality(O) * c
      /\ Cardinality(O) * c \in Nat
      /\ Cardinality(S) \in Nat /\ Cardinality(DOMAIN list) \in Nat
    <2>1. Cardinality(O) \in Nat
        BY OwnersAreFinite
    <2>2. QED
        BY <1>1, <2>1, SharesRound, SharesAreFinite, FS_CardinalityType
<1>8. QED
    BY <1>4, <1>6, <1>7

\* While none is released and a processor has less than its rounded-down
\* share, another one has more than that.
LEMMA SomeoneHasMore ==
    ASSUME NEW list, IsFiniteSet(DOMAIN list), NEW self, Released(list) = {},
           Share(list, self) < ExpectedCount(list, self)
    PROVE  \E o \in ActiveOwners(list, self) :
              Share(list, o) > ExpectedCount(list, self)
<1> DEFINE S == DOMAIN list \ ActiveOwnership(list, self)
           O == ActiveOwners(list, self) \ {self}
           n == Cardinality(ActiveOwners(list, self))
           e == ExpectedCount(list, self)
           f == [p \in S |-> list[p].owner]
<1>1. /\ IsFiniteSet(S) /\ IsFiniteSet(O)
      /\ e \in Nat /\ n \in Nat \ {0} /\ Share(list, self) \in Nat
    BY FS_Difference, OwnersAreFinite, SharesRound, SharesAreFinite
<1>2. f \in [S -> O]
    BY DEF ActiveOwners, ActiveOwnership
<1>3. \A o \in O : Hole(S, f, o) = ActiveOwnership(list, o)
    BY DEF Hole, ActiveOwnership
<1>4. SUFFICES ASSUME \A o \in O : Share(list, o) =< e
               PROVE  FALSE
    BY <1>1, SharesAreFinite
<1>5. Cardinality(S) =< Cardinality(O) * e
    <2>1. \A o \in O : Cardinality(Hole(S, f, o)) =< e
        BY <1>3, <1>4 DEF Share
    <2> HIDE DEF S, O, e, f
    <2>2. QED
        BY <1>1, <1>2, <2>1, AtMostEach
<1>6. Cardinality(O) = n - 1
    BY OwnersAreFinite, FS_RemoveElement
<1>7. Cardinality(S) = Cardinality(DOMAIN list) - Share(list, self)
    <2>1. DOMAIN list \cap ActiveOwnership(list, self)
             = ActiveOwnership(list, self)
        BY SharesAreFinite
    <2>2. Cardinality(S) = Cardinality(DOMAIN list)
             - Cardinality(DOMAIN list \cap ActiveOwnership(list, self))
        BY FS_Difference
    <2>3. QED
        BY <2>1, <2>2 DEF Share
<1>8. (n - 1) * e = n * e - e /\ n * e \in Nat
    <2> HIDE DEF n, e
    <2> QED
        BY <1>1
<1>9. n * e =< Cardinality(DOMAIN list) /\ Cardinality(DOMAIN list) \in Nat
    BY SharesRound, SharesAreFinite
<1> HIDE DEF n, e, S, O
<1>10. Cardinality(DOMAIN list) - Share(list, self) =< n * e - e
    BY <1>5, <1>6, <1>7, <1>8
<1>11. Share(list, self) < e
    BY DEF e
<1>12. QED
    BY <1>1, <1>8, <1>9, <1>10, <1>11

\* Every set of numbers has a least one.
NatLess == {pair \in Nat \X Nat : pair[1] < pair[2]}

LEMMA LeastNumber ==
    ASSUME NEW T \in SUBSET Nat, T # {}
    PROVE  \E n \in T : \A m \in T : n =< m
<1>1. IsWellFoundedOn(NatLess, Nat)
    BY NatLessThanWellFounded DEF OpToRel, NatLess
<1>2. PICK n \in T : \A m \in T : ~(<<m, n>> \in NatLess)
    BY <1>1, WFMin
<1>3. \A m \in T : m < n => <<m, n>> \in NatLess
    BY DEF NatLess
<1>4. \A m \in T : ~(m < n)
    BY <1>2, <1>3
<1>5. QED
    BY <1>4

\* Some owner is the busiest.
LEMMA SomeoneIsBusiest ==
    ASSUME NEW list, IsFiniteSet(DOMAIN list), NEW self
    PROVE  BusiestOwners(list, self) # {}
<1> DEFINE N == Cardinality(DOMAIN list)
           rest == [o \in ActiveOwners(list, self) |-> N - Share(list, o)]
           T == {rest[o] : o \in ActiveOwners(list, self)}
<1>1. \A o \in ActiveOwners(list, self) :
         Share(list, o) \in Nat /\ N \in Nat /\ Share(list, o) =< N
    BY SharesAreFinite, FS_Subset DEF Share
<1>2. T \in SUBSET Nat
    BY <1>1
<1>3. T # {}
    BY OwnersAreFinite
<1>4. PICK m \in T : \A k \in T : m =< k
    <2> HIDE DEF T
    <2> QED
        BY <1>2, <1>3, LeastNumber
<1>5. PICK o \in ActiveOwners(list, self) : m = rest[o]
    OBVIOUS
<1>6. \A x \in ActiveOwners(list, self) : rest[o] =< rest[x]
    BY <1>4, <1>5
<1>7. \A x \in ActiveOwners(list, self) : Share(list, x) =< Share(list, o)
    BY <1>1, <1>6
<1>8. QED
    BY <1>7 DEF BusiestOwners, Share

-----------------------------------------------------------------------------
(* The decision *)

LEMMA LesserOfTwo ==
    ASSUME NEW a \in Nat, NEW b \in Nat
    PROVE  Min({a, b}) \in {a, b} /\ Min({a, b}) =< a /\ Min({a, b}) =< b
<1>1. \E x \in {a, b} : \A y \in {a, b} : x =< y
    OBVIOUS
<1>2. Min({a, b}) \in {a, b} /\ \A y \in {a, b} : Min({a, b}) =< y
    BY <1>1 DEF Min
<1>3. QED
    BY <1>2

\* A set has subsets of every size up to its own.
LEMMA SubsetsOfSize ==
    ASSUME NEW S, IsFiniteSet(S), NEW k \in Nat, k =< Cardinality(S)
    PROVE  kSubset(k, S) # {}
<1>1. PICK g \in [1..k -> S] : \A x, y \in 1..k : g[x] = g[y] => x = y
    BY SeatsFrom
<1> DEFINE T == {g[i] : i \in 1..k}
<1>2. g \in Bijection(1..k, T)
    BY <1>1 DEF Bijection, Injection, Surjection, IsInjective
<1>3. Cardinality(T) = k
    BY <1>2, FS_CountingElements DEF ExistsBijection
<1>4. T \in SUBSET S
    BY <1>1
<1>5. QED
    BY <1>3, <1>4 DEF kSubset

\* The three kinds of decision.
Room(list, self) == MaxCount(list, self) - Share(list, self)
Greedy(list, self) == Room(list, self) > 0 /\ Released(list) # {}
Short(list, self) == Share(list, self) < ExpectedCount(list, self)
Grab(list, self) ==
    Min({Room(list, self), Cardinality(Released(list))})

LEMMA DecisionIs ==
    ASSUME NEW list, NEW self
    PROVE  BalanceOwnership(list, self) =
              IF Greedy(list, self)
              THEN {ActiveOwnership(list, self) \union more :
                       more \in kSubset(Grab(list, self), Released(list))}
              ELSE IF Short(list, self)
              THEN {ActiveOwnership(list, self) \union {p} :
                       p \in UNION {ActiveOwnership(list, o) :
                                        o \in BusiestOwners(list, self)}}
              ELSE {ActiveOwnership(list, self)}
BY DEF BalanceOwnership, Greedy, Short, Room, Grab, Share

LEMMA SharesInOrder ==
    ASSUME NEW list, IsFiniteSet(DOMAIN list), NEW self
    PROVE  ExpectedCount(list, self) =< MaxCount(list, self)
<1> DEFINE N == Cardinality(DOMAIN list)
           n == Cardinality(ActiveOwners(list, self))
           e == ExpectedCount(list, self)
           c == MaxCount(list, self)
<1>1. /\ n \in Nat \ {0} /\ N \in Nat /\ e \in Nat /\ c \in Nat
      /\ n * e =< N /\ N =< n * c
    BY SharesRound, OwnersAreFinite, SharesAreFinite
<1>2. CASE c < e
    <2> HIDE DEF n, e, c, N
    <2>1. n * c + n =< n * e
        BY <1>1, <1>2, Multiples
    <2>2. n * c \in Nat /\ n * e \in Nat
        BY <1>1
    <2>3. QED
        BY <1>1, <2>1, <2>2
<1>3. QED
    BY <1>1, <1>2

\* A processor with less than a share takes what is released, if there is any.
LEMMA ShortHasRoom ==
    ASSUME NEW list, IsFiniteSet(DOMAIN list), NEW self,
           Short(list, self), ~Greedy(list, self)
    PROVE  Released(list) = {}
<1>1. Room(list, self) > 0
    BY SharesRound, SharesInOrder, SharesAreFinite DEF Short, Room
<1>2. QED
    BY <1>1 DEF Greedy

\* What it takes from the busiest owner then leaves that one its share.
LEMMA BusiestHaveMore ==
    ASSUME NEW list, IsFiniteSet(DOMAIN list), NEW self,
           Short(list, self), Released(list) = {},
           NEW o \in BusiestOwners(list, self)
    PROVE  Share(list, o) > ExpectedCount(list, self)
<1>1. PICK x \in ActiveOwners(list, self) :
         Share(list, x) > ExpectedCount(list, self)
    BY SomeoneHasMore DEF Short
<1>2. Share(list, x) =< Share(list, o)
    BY DEF BusiestOwners, Share
<1>3. QED
    BY <1>1, <1>2, SharesAreFinite, SharesRound

\* Something can be chosen in each case.
LEMMA DecisionExists ==
    ASSUME NEW list, IsFiniteSet(DOMAIN list), NEW self
    PROVE  BalanceOwnership(list, self) # {}
<1>1. CASE Greedy(list, self)
    <2>1. /\ Grab(list, self) \in Nat
          /\ Grab(list, self) =< Cardinality(Released(list))
          /\ IsFiniteSet(Released(list))
        <3>1. Room(list, self) \in Nat
            BY <1>1, SharesAreFinite, SharesRound DEF Greedy, Room
        <3>2. QED
            BY <3>1, SharesAreFinite, LesserOfTwo DEF Grab
    <2>2. kSubset(Grab(list, self), Released(list)) # {}
        BY <2>1, SubsetsOfSize
    <2>3. QED
        BY <1>1, <2>2, DecisionIs
<1>2. CASE ~Greedy(list, self) /\ Short(list, self)
    <2>1. PICK o \in BusiestOwners(list, self) : TRUE
        BY SomeoneIsBusiest
    <2>2. Share(list, o) > ExpectedCount(list, self)
        BY <1>2, ShortHasRoom, BusiestHaveMore
    <2>3. ActiveOwnership(list, o) # {}
        <3>1. ExpectedCount(list, self) \in Nat
            BY SharesRound
        <3>2. QED
            BY <2>2, <3>1, FS_EmptySet DEF Share
    <2>4. QED
        BY <1>2, <2>1, <2>3, DecisionIs
<1>3. CASE ~Greedy(list, self) /\ ~Short(list, self)
    BY <1>3, DecisionIs
<1>4. QED
    BY <1>1, <1>2, <1>3

LEMMA UnionIsNoMore ==
    ASSUME NEW S, IsFiniteSet(S), NEW T, IsFiniteSet(T)
    PROVE  /\ Cardinality(S \union T) \in Nat
           /\ Cardinality(S) \in Nat /\ Cardinality(T) \in Nat
           /\ Cardinality(S \union T) =< Cardinality(S) + Cardinality(T)
<1>1. /\ IsFiniteSet(S \union T)
      /\ Cardinality(S \union T)
            = Cardinality(S) + Cardinality(T) - Cardinality(S \cap T)
    BY FS_Union
<1>2. IsFiniteSet(S \cap T)
    BY FS_Intersection
<1>3. Cardinality(S \cap T) \in Nat /\ Cardinality(S \union T) \in Nat
    BY <1>1, <1>2, FS_CardinalityType
<1>4. Cardinality(S) \in Nat /\ Cardinality(T) \in Nat
    BY FS_CardinalityType
<1>5. QED
    BY <1>1, <1>3, <1>4

LEMMA GreedyIsFair ==
    ASSUME NEW list, IsFiniteSet(DOMAIN list), NEW self, Greedy(list, self),
           NEW parts \in BalanceOwnership(list, self)
    PROVE  FairDecision(list, self, parts)
<1> DEFINE mine == ActiveOwnership(list, self)
           stolen == parts \ (mine \union Released(list))
<1>1. PICK more \in kSubset(Grab(list, self), Released(list)) :
         parts = mine \union more
    BY DecisionIs
<1>2. more \subseteq Released(list) /\ Cardinality(more) = Grab(list, self)
    BY DEF kSubset
<1>3. stolen = {}
    BY <1>1, <1>2
<1>4. mine \subseteq parts /\ parts \subseteq DOMAIN list
    BY <1>1, <1>2 DEF Released, ActiveOwnership
<1>5. Cardinality(parts) =< MaxCount(list, self)
    <2>1. Room(list, self) \in Nat
        BY SharesAreFinite, SharesRound DEF Greedy, Room
    <2>2. Cardinality(more) =< Room(list, self)
        BY <1>2, <2>1, SharesAreFinite, LesserOfTwo DEF Grab
    <2>3. IsFiniteSet(mine) /\ IsFiniteSet(more)
        BY <1>2, SharesAreFinite, FS_Subset
    <2>4. /\ Cardinality(parts) =< Cardinality(mine) + Cardinality(more)
          /\ Cardinality(parts) \in Nat
          /\ Cardinality(mine) \in Nat /\ Cardinality(more) \in Nat
        BY <1>1, <2>3, UnionIsNoMore
    <2>5. QED
        BY <2>1, <2>2, <2>4, SharesRound DEF Room, Share
<1>6. QED
    BY <1>3, <1>4, <1>5, FS_EmptySet DEF FairDecision

LEMMA StealingIsFair ==
    ASSUME NEW list, IsFiniteSet(DOMAIN list), NEW self,
           ~Greedy(list, self), Short(list, self),
           NEW parts \in BalanceOwnership(list, self)
    PROVE  FairDecision(list, self, parts)
<1> DEFINE mine == ActiveOwnership(list, self)
           stolen == parts \ (mine \union Released(list))
<1>0. PICK o \in BusiestOwners(list, self) :
          \E p \in ActiveOwnership(list, o) : parts = mine \union {p}
    BY DecisionIs
<1>1. PICK p \in ActiveOwnership(list, o) : parts = mine \union {p}
    BY <1>0
<1>2. mine \subseteq parts /\ parts \subseteq DOMAIN list
    BY <1>1 DEF ActiveOwnership
<1>3. stolen \subseteq {p} /\ list[p].owner = o
    BY <1>1 DEF ActiveOwnership
<1>4. Cardinality(stolen) =< 1
    <2>1. IsFiniteSet({p}) /\ Cardinality({p}) = 1
        BY FS_Singleton
    <2>2. stolen \in SUBSET {p}
        BY <1>3
    <2> HIDE DEF stolen
    <2>3. QED
        BY <2>1, <2>2, FS_Subset
<1>5. Share(list, o) > ExpectedCount(list, self)
    BY ShortHasRoom, BusiestHaveMore
<1>6. Cardinality(parts) =< MaxCount(list, self)
    <2>1. IsFiniteSet(mine) /\ IsFiniteSet({p}) /\ Cardinality({p}) = 1
        BY SharesAreFinite, FS_Singleton
    <2>2. /\ Cardinality(parts) \in Nat
          /\ Cardinality(parts) =< Cardinality(mine) + Cardinality({p})
        BY <1>1, <2>1, UnionIsNoMore
    <2>3. QED
        BY <2>1, <2>2, SharesAreFinite, SharesRound, SharesInOrder
           DEF Short, Share
<1>7. QED
    BY <1>2, <1>3, <1>4, <1>5, <1>6 DEF FairDecision

\* A processor that balances always has something to choose from, and what it
\* asks for keeps to its share: it gives up nothing it holds, takes no more
\* than the rounded-up share, and steals at most one partition, from an owner
\* that keeps a rounded-down share (_balance_ownership).
THEOREM DecisionsAreFair ==
    ASSUME NEW list, IsFiniteSet(DOMAIN list), NEW self
    PROVE  BalanceIsFair(list, self)
<1>1. SUFFICES ASSUME NEW parts \in BalanceOwnership(list, self)
               PROVE  FairDecision(list, self, parts)
    BY DecisionExists DEF BalanceIsFair
<1>2. CASE ~Greedy(list, self) /\ ~Short(list, self)
    <2>1. parts = ActiveOwnership(list, self)
        BY <1>2, DecisionIs
    <2>2. parts \ (ActiveOwnership(list, self) \union Released(list)) = {}
        BY <2>1
    <2>3. QED
        BY <2>1, <2>2, SharesAreFinite, FS_EmptySet DEF FairDecision
<1>3. QED
    BY <1>2, GreedyIsFair, StealingIsFair

\* As long as a partition is released, some active processor is certain to ask
\* for a released one, whatever it chooses at random: none is left alone.
THEOREM ReleasedIsAskedFor ==
    ASSUME NEW list, IsFiniteSet(DOMAIN list), NEW self, Released(list) # {}
    PROVE  \E o \in ActiveOwners(list, self) :
              \A parts \in BalanceOwnership(list, o) :
                 parts \cap Released(list) # {}
<1>1. PICK o \in ActiveOwners(list, self) :
         Share(list, o) < MaxCount(list, o)
    BY SomeoneHasRoom
<1>2. Greedy(list, o)
    BY <1>1, SharesAreFinite, SharesRound DEF Greedy, Room
<1>3. ASSUME NEW parts \in BalanceOwnership(list, o)
      PROVE  parts \cap Released(list) # {}
    <2>1. PICK more \in kSubset(Grab(list, o), Released(list)) :
             parts = ActiveOwnership(list, o) \union more
        BY <1>2, DecisionIs
    <2>2. Grab(list, o) > 0
        <3>1. Room(list, o) \in Nat /\ Room(list, o) > 0
            BY <1>2, SharesAreFinite, SharesRound DEF Greedy, Room
        <3>2. /\ Cardinality(Released(list)) \in Nat
              /\ Cardinality(Released(list)) > 0
            BY SharesAreFinite, FS_EmptySet
        <3>3. QED
            BY <3>1, <3>2, LesserOfTwo DEF Grab
    <2>3. more \subseteq Released(list) /\ Cardinality(more) > 0
        BY <2>2 DEF kSubset
    <2>4. more # {}
        BY <2>3, FS_EmptySet
    <2>5. QED
        BY <2>1, <2>3, <2>4
<1>4. QED
    BY <1>3

\* When no active processor asks for a change any more, no partition is left
\* alone and each processor has its rounded-down share.
THEOREM SettledIsSharedOut ==
    ASSUME NEW list, IsFiniteSet(DOMAIN list), NEW self, Settled(list, self)
    PROVE  SharedOut(list, self)
<1>1. Released(list) = {}
    <2>1. SUFFICES ASSUME Released(list) # {}
                   PROVE  FALSE
        OBVIOUS
    <2>2. PICK o \in ActiveOwners(list, self) :
             \A parts \in BalanceOwnership(list, o) :
                parts \cap Released(list) # {}
        BY <2>1, ReleasedIsAskedFor
    <2>3. ActiveOwnership(list, o) \cap Released(list) # {}
        BY <2>2 DEF Settled
    <2>4. QED
        BY <2>3, SharesAreFinite
<1>2. ASSUME NEW o \in ActiveOwners(list, self),
             ~(Share(list, o) >= ExpectedCount(list, self))
      PROVE  FALSE
    <2>1. Short(list, o) /\ ~Greedy(list, o)
        BY <1>1, <1>2, SharesAreFinite, SharesRound, OthersShare
           DEF Short, Greedy
    <2>2. ActiveOwnership(list, o) \in BalanceOwnership(list, o)
        BY DEF Settled
    <2>3. PICK x \in BusiestOwners(list, o) :
             \E p \in ActiveOwnership(list, x) :
                ActiveOwnership(list, o) = ActiveOwnership(list, o) \union {p}
        BY <2>1, <2>2, DecisionIs
    <2>4. x = o
        BY <2>3 DEF ActiveOwnership
    <2>5. Share(list, x) > ExpectedCount(list, o)
        BY <1>1, <2>1, BusiestHaveMore
    <2>6. QED
        BY <2>1, <2>4, <2>5, SharesAreFinite, SharesRound DEF Short
<1>3. QED
    BY <1>1, <1>2 DEF SharedOut
=============================================================================
