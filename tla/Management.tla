------------------------------ MODULE Management ------------------------------
(***************************************************************************)
(* The requests that manage the server, handled at the same time: catalog   *)
(* and backups, files, containers.  They share the audit log, the user they *)
(* are made by, and the process, which ends with all of them.               *)
(***************************************************************************)
EXTENDS Catalog, Files, Containers

\* What was there before the requests was not made by one of them.
ASSUME RequestAssumption == "earlier" \notin Requests

vars == <<handling, catalog, filesystem, container>>

Init == HandlingInit /\ CatalogInit /\ FilesInit /\ ContainersInit

Catalogs(r) == CatalogStep(r) /\ UNCHANGED <<filesystem, container>>
FilesOf(r) == FileStep(r) /\ UNCHANGED <<catalog, container>>
Containing(r) == ContainerStep(r) /\ UNCHANGED <<catalog, filesystem>>
Logging(r) == LogAndAnswer(r) /\ UNCHANGED <<catalog, filesystem, container>>
Deleting == UserDeleted /\ UNCHANGED <<catalog, filesystem, container>>

Next == Deleting \/ \E r \in Requests : Catalogs(r) \/ FilesOf(r) \/ Containing(r)
                                        \/ Logging(r)

Spec == Init /\ [][Next]_vars /\ ContainerFairness

(* What a request has made and left behind is in the audit log, when the    *)
(* request is over and its user still there: a handler that changes         *)
(* something and returns without an entry has panicked, lost its process,   *)
(* or failed half way through a write.                                      *)
ChangesAreLogged ==
  \A r \in Requests :
    (/\ \/ \E a \in Apps : apps[a].by = r
        \/ \E p \in Paths : Exists(p) /\ inode[link[p].to].by = r
     /\ job[r].at \in {"ok", "refused"} /\ staff)
    => trail[r] = 1
=============================================================================
