------------------------------ MODULE MCAccounts ------------------------------
(***************************************************************************)
(* Accounts on a small instance.  Logins that have not come yet are        *)
(* interchangeable, and so are passwords.                                  *)
(***************************************************************************)
EXTENDS Accounts, TLC

CONSTANTS l1, l2, l3, q1, p1, p2  \* model values

ThreeLogins == {l1, l2, l3}
OneRequest == {q1}
TwoPasswords == {p1, p2}

Symmetry == Permutations(Logins) \cup Permutations(Passwords)
              \cup Permutations(Requests)
===============================================================================
