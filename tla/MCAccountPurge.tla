--------------------------- MODULE MCAccountPurge ---------------------------
(* Instances of AccountPurge for TLC. *)
EXTENDS AccountPurge, TLC

CONSTANTS u1, c1, c2, j1

OneAccount == {u1}
OneCall == {c1}
TwoCalls == {c1, c2}
OneJob == {j1}

\* Requests are alike; used by runs of invariants only.
Alike == Permutations(TwoCalls)

=============================================================================
