---------------------------- MODULE MCRateLimiter ----------------------------
(***************************************************************************)
(* RateLimiter on small instances.  Requests that have not come yet are    *)
(* interchangeable, so their permutations are a symmetry.                  *)
(***************************************************************************)
EXTENDS RateLimiter, TLC

CONSTANTS r1, r2, r3, r4, r5, a, b  \* model values

TwoRequests == {r1, r2}
FiveRequests == {r1, r2, r3, r4, r5}
OneIP == {a}
TwoIPs == {a, b}
ShortOnly == {"short"}
BothKinds == {"short", "stream"}

Symmetry == Permutations(Requests)
===============================================================================
