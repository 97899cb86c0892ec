------------------------------ MODULE MCExecutor ------------------------------
(***************************************************************************)
(* Executor on small instances.  The sizes make a line that fits, one that *)
(* crosses the limit, one that fills it exactly and one that is too long to *)
(* be scanned all occur.                                                    *)
(***************************************************************************)
EXTENDS Executor

CONSTANTS e1, e2, c1, c2, v1, v2  \* model values

OneExec == {e1}
TwoExecs == {e1, e2}
OneCommand == {c1}
TwoCommands == {c1, c2}
NoClient == {}
OneClient == {v1}
TwoClients == {v1, v2}
UnitLines == {1}
MixedLines == {1, 3, 4}
===============================================================================
