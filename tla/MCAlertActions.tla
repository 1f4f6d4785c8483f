--------------------------- MODULE MCAlertActions ---------------------------
(* Instances of AlertActions for TLC. *)
EXTENDS AlertActions, TLC

CONSTANTS s1, s2, t1, t2, i1, i2

TwoSubjects == {s1, s2}
TwoTenants == {t1, t2}
TwoIndexes == {i1, i2}
\* A row names a tenant and an index, or neither.
SomeKinds == {r \in Row : r.tenant = Nothing <=> r.index = Nothing}
Symmetry == Permutations(TwoSubjects) \union Permutations(TwoTenants)
              \union Permutations(TwoIndexes)
=============================================================================
