----------------------------- MODULE MCManagement -----------------------------
EXTENDS Management

\* The first may be there already; the second has more than one command.
MCBackup == <<[name |-> "n0", commands |-> 1], [name |-> "n1", commands |-> 2]>>
=============================================================================
