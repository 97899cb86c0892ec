----------------------------- MODULE MCUserAdmin -----------------------------
(***************************************************************************)
(* UserAdmin on a small instance: two administrators and a third user, two *)
(* requests at once.                                                       *)
(***************************************************************************)
EXTENDS UserAdmin, TLC

CONSTANTS i1, i2, i3, root, bob, eve, q1, q2  \* model values

ThreeIds == {i1, i2, i3}
ThreeNames == {root, bob, eve}
TwoRequests == {q1, q2}

Symmetry == Permutations(Ids) \cup Permutations(Requests)
===============================================================================
