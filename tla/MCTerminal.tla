------------------------------ MODULE MCTerminal ------------------------------
(***************************************************************************)
(* Terminal on a small instance.                                            *)
(***************************************************************************)
EXTENDS Terminal

CONSTANTS s1, s2, c1  \* model values

TwoSessions == {s1, s2}
OneClient == {c1}
===============================================================================
