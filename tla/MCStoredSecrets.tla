-------------------------- MODULE MCStoredSecrets --------------------------
(* Instances of StoredSecrets for TLC. *)
EXTENDS StoredSecrets, TLC

CONSTANTS r1, r2, mask, w, h, m, t

\* A value of one piece and one of three: storing the first over the second
\* leaves a piece and a mark behind.
ShortAndLong == {<<w>>, <<h, m, t>>}
SomePieces == {mask, w, h, m, t}
Symmetry == Permutations({r1, r2})
=============================================================================
