--------------------------- MODULE MCTerminalHistory ---------------------------
(***************************************************************************)
(* One session with its buffer, and one client.                            *)
(***************************************************************************)
EXTENDS TerminalHistory

CONSTANTS s1, c1  \* model values

OneSession == {s1}
OneClient == {c1}
===============================================================================
