---------------------------- MODULE ManagementProofs ----------------------------
(***************************************************************************)
(* What the requests of Management do to each other's rows and files, for   *)
(* any number of requests, applications, commands and paths.                *)
(***************************************************************************)
EXTENDS Management, FiniteSetTheorems, SequenceTheorems, WellFoundedInduction, TLAPS

\* The file operations that look for a file at their path first, and the places
\* of their handlers after that look.
Changers == {"rename", "copy", "upload"}
Past == {"openSource", "open", "write", "info", "change"}

\* The operations that insert a command.
Inserters == {"createCommand", "import"}

\* The locals a job keeps, whichever way its handler goes.
Locals(op) ==
  {"op", "at"} \cup
  (IF op \in Changers THEN {"path", "over", "arrived"} ELSE {}) \cup
  (IF op = "rename" THEN {"from"} ELSE {}) \cup
  (IF op \in Inserters THEN {"app", "place", "seen"} ELSE {}) \cup
  (IF op = "reorder" THEN {"app", "list"} ELSE {})

JobShape(j) == Locals(j.op) \subseteq DOMAIN j

JobInv ==
  /\ DOMAIN job = Requests
  /\ \A r \in Requests :
       /\ JobShape(job[r])
       /\ job[r].op \in Changers => /\ job[r].path \in Paths
                                    /\ job[r].arrived \in 0..moment
       /\ job[r].op = "rename" => job[r].from \in Paths
       /\ job[r].op = "reorder" => DOMAIN job[r].list \subseteq {1, 2}

\* What leads to the path of a request that has looked there came after it.
LinkInv ==
  /\ moment \in Nat
  /\ DOMAIN link = Paths
  /\ \A r \in Requests :
       /\ job[r].op \in Changers /\ ~job[r].over /\ job[r].at \in Past
       /\ Exists(job[r].path)
       => link[job[r].path].since > job[r].arrived

\* Does the step of r keep what the others and r itself hold.
Keeps(r) ==
  /\ DOMAIN job' = Requests
  /\ \A q \in Requests \ {r} :
       \/ job'[q] = job[q]
       \/ UNCHANGED <<filesystem, catalog>> /\ job[q].op = job'[q].op
            /\ DOMAIN job'[q] = DOMAIN job[q]
            /\ job'[q].at \in {job[q].at, "lost"}
            /\ (job[q].op \in Changers \cup Inserters \cup {"reorder", "createApp"} =>
                  job'[q] = [job[q] EXCEPT !.at = "lost"])

\* r goes on with its operation.
GoesOn(r) ==
  /\ job'[r].op = job[r].op
  /\ DOMAIN job'[r] = DOMAIN job[r]
  /\ job[r].op \in Changers => /\ job'[r].path = job[r].path
                               /\ job'[r].over = job[r].over
                               /\ job'[r].arrived = job[r].arrived
  /\ job[r].op = "rename" => job'[r].from = job[r].from
  /\ job[r].op = "reorder" => job'[r].list = job[r].list

\* The links of a step are as before, gone, or new.
LinksNew ==
  /\ moment' \in Nat /\ moment' >= moment
  /\ DOMAIN link' = Paths
  /\ \A p \in Paths : link'[p] = link[p] \/ link'[p].to = 0 \/ link'[p].since = moment + 1

\* The operations that make something, an application or a file.
FileMakers == {"upload", "save", "copy", "mkdir"}
Makers == FileMakers \cup {"createApp", "import"}

\* The step of r is not its last, unless it makes nothing, and it logs nothing.
Goes(r) ==
  /\ job[r].at \notin {"ok", "lost", "panicked"}
  /\ UNCHANGED <<trail, staff>>
  /\ job[r].op \in Makers => job'[r].at # "ok"

LEMMA FileArrivals ==
  ASSUME NEW q \in FileRequests, moment \in Nat
  PROVE  /\ JobShape(q) /\ q.at \in {"stat", "source", "open"}
         /\ q.op \in Changers => /\ q.path \in Paths /\ q.arrived \in 0..moment
                                 /\ q.at \in {"stat", "source"}
         /\ q.op = "rename" => q.from \in Paths
         /\ q.op \notin Inserters \cup {"reorder"}
<1> DEFINE Goal == /\ JobShape(q) /\ q.at \in {"stat", "source", "open"}
                   /\ q.op \in Changers => /\ q.path \in Paths /\ q.arrived \in 0..moment
                                           /\ q.at \in {"stat", "source"}
                   /\ q.op = "rename" => q.from \in Paths
                   /\ q.op \notin Inserters \cup {"reorder"}
<1> USE DEF JobShape, Locals, Changers, Inserters
<1>1. ASSUME q \in [op : {"upload", "delete"}, at : {"stat"}, path : Paths,
                    over : BOOLEAN, file : {0}, arrived : {moment}]
      PROVE  Goal
  BY <1>1
<1>2. ASSUME q \in [op : {"save"}, at : {"open"}, path : Paths, over : {TRUE},
                    file : {0}, arrived : {moment}]
      PROVE  Goal
  BY <1>2
<1>3. ASSUME q \in [op : {"mkdir", "download"}, at : {"stat"}, path : Paths,
                    over : {FALSE}, arrived : {moment}]
      PROVE  Goal
  BY <1>3
<1>4. ASSUME q \in [op : {"rename", "copy"}, at : {"source"}, from : Paths,
                    path : Paths, over : {FALSE}, file : {0}, arrived : {moment}]
      PROVE  Goal
  BY <1>4
<1> HIDE DEF Goal
<1>5. Goal
  BY <1>1, <1>2, <1>3, <1>4 DEF FileRequests
<1>6. QED BY <1>5 DEF Goal

LEMMA CatalogArrivals ==
  ASSUME NEW q \in CatalogRequests
  PROVE  /\ JobShape(q) /\ q.op \notin Changers
         /\ q.op \in Inserters => q.at # "insert"
         /\ q.op = "reorder" => DOMAIN q.list \subseteq {1, 2}
<1> DEFINE Goal == /\ JobShape(q) /\ q.op \notin Changers
                   /\ q.op \in Inserters => q.at # "insert"
                   /\ q.op = "reorder" => DOMAIN q.list \subseteq {1, 2}
<1> USE DEF JobShape, Locals, Changers, Inserters
<1>1. ASSUME q \in [op : {"createApp"}, at : {"insert"}, name : Names, row : {0}]
      PROVE  Goal
  BY <1>1
<1>2. ASSUME q \in [op : {"updateApp"}, at : {"read"}, row : Apps,
                    name : Names \cup {"same"}, token : {0}]
      PROVE  Goal
  BY <1>2
<1>3. ASSUME q \in [op : {"regenerate", "exportApp"}, at : {"read"}, row : Apps]
      PROVE  Goal
  BY <1>3
<1>4. ASSUME q \in [op : {"deleteApp"}, at : {"erase"}, row : Apps]
      PROVE  Goal
  BY <1>4
<1>5. ASSUME q \in [op : {"createCommand"}, at : {"app"}, app : Apps, row : {0},
                    place : {0}, seen : {0}]
      PROVE  Goal
  BY <1>5
<1>6. ASSUME q \in [op : {"updateCommand", "deleteCommand", "execute"}, at : {"read"},
                    row : Commands]
      PROVE  Goal
  BY <1>6
<1>7. ASSUME q \in [op : {"reorder"}, at : {"app"}, app : Apps,
               list : {s \in UNION {[1..n -> Commands] : n \in {1, 2}} : IsInjective(s)}]
      PROVE  Goal
  <2>1. q.list \in UNION {[1..n -> Commands] : n \in {1, 2}}
    BY <1>7
  <2>2. PICK n \in {1, 2} : q.list \in [1..n -> Commands]
    BY <2>1
  <2>3. DOMAIN q.list \subseteq {1, 2}
    BY <2>2
  <2>4. q.op = "reorder" /\ DOMAIN q = {"op", "at", "app", "list"}
    BY <1>7
  <2>5. QED BY <2>3, <2>4
<1>8. ASSUME q \in [op : {"deploy"}, at : {"read"}, app : Apps, row : {0} \cup Commands,
                    token : 1..born]
      PROVE  Goal
  BY <1>8
<1>9. ASSUME q \in [op : {"export"}, at : {"list"}, left : {{}}]
      PROVE  Goal
  BY <1>9
<1>10. ASSUME q \in [op : {"import"}, at : {"look"}, nth : {1}, left : {0}, app : {0},
                     row : {0}, place : {0}, seen : {0}, imported : {0}, skipped : {0},
                     errors : {0}]
       PROVE  Goal
  BY <1>10
<1> HIDE DEF Goal
<1>11. Goal
  BY <1>1, <1>2, <1>3, <1>4, <1>5, <1>6, <1>7, <1>8, <1>9, <1>10 DEF CatalogRequests
<1>12. QED BY <1>11 DEF Goal

LEMMA ContainerArrivals ==
  ASSUME NEW q \in ContainerRequests
  PROVE  JobShape(q) /\ q.op \notin Changers \cup Inserters \cup {"reorder"}
BY DEF ContainerRequests, Shell, JobShape, Locals, Changers, Inserters

-----------------------------------------------------------------------------
(* Steps of the file handlers.                                             *)

\* A handler that has yet to look at the path changes nothing, and one that
\* has just looked has found nothing there.
LEMMA FileMoves ==
  ASSUME NEW r \in Requests, JobInv, LinkInv, FileStep(r), ~FileArrives(r)
  PROVE  /\ Keeps(r) /\ GoesOn(r) /\ LinksNew
         /\ job[r].op \in Changers /\ job[r].at \notin Past => UNCHANGED filesystem
         /\ /\ job[r].op \in Changers /\ ~job[r].over
            /\ job[r].at \notin Past /\ job'[r].at \in Past
            => ~Exists(job[r].path)
         /\ job[r].op \notin Inserters \cup {"createApp"} /\ Goes(r)
<1> DEFINE Goal ==
       /\ Keeps(r) /\ GoesOn(r) /\ LinksNew
       /\ job[r].op \in Changers /\ job[r].at \notin Past => UNCHANGED filesystem
       /\ /\ job[r].op \in Changers /\ ~job[r].over
          /\ job[r].at \notin Past /\ job'[r].at \in Past
          => ~Exists(job[r].path)
       /\ job[r].op \notin Inserters \cup {"createApp"} /\ Goes(r)
<1>0. /\ DOMAIN job = Requests /\ {"op", "at"} \subseteq DOMAIN job[r]
      /\ job[r].op \in Changers => {"path", "over", "arrived"} \subseteq DOMAIN job[r]
      /\ job[r].op = "rename" => "from" \in DOMAIN job[r]
      /\ moment \in Nat /\ DOMAIN link = Paths
  BY DEF JobInv, JobShape, Locals, LinkInv
<1> USE DEF Keeps, GoesOn, Goes, LinksNew, Changers, Inserters, Past, At, Goto, GotoWith,
            filesystem, OnlyRead, OnlyFiles, None
<1>1. ASSUME StatSource(r) PROVE Goal
  BY <1>0, <1>1 DEF StatSource
<1>2. ASSUME StatDestination(r) PROVE Goal
  BY <1>0, <1>2 DEF StatDestination, Conflict
<1>3. ASSUME StatTarget(r) PROVE Goal
  BY <1>0, <1>3 DEF StatTarget
<1>4. ASSUME OpenSource(r) PROVE Goal
  BY <1>0, <1>4 DEF OpenSource
<1>5. ASSUME OpenFile(r) PROVE Goal
  BY <1>0, <1>5 DEF OpenFile, LinkNew
<1>6. ASSUME WriteFile(r) PROVE Goal
  BY <1>0, <1>6 DEF WriteFile
<1>7. ASSUME RemovePath(r) PROVE Goal
  BY <1>0, <1>7 DEF RemovePath
<1>8. ASSUME MakeDirectory(r) PROVE Goal
  BY <1>0, <1>8 DEF MakeDirectory, LinkNew
<1>9. ASSUME RenamePath(r) PROVE Goal
  BY <1>0, <1>9 DEF RenamePath
<1>10. ASSUME StatWritten(r) PROVE Goal
  BY <1>0, <1>10 DEF StatWritten
<1> HIDE DEF Goal
<1>11. Goal
  BY <1>1, <1>2, <1>3, <1>4, <1>5, <1>6, <1>7, <1>8, <1>9, <1>10 DEF FileStep
<1>12. QED BY <1>11 DEF Goal

-----------------------------------------------------------------------------
(* Steps of the catalog's handlers, of the container handlers and the log.  *)

LEMMA CatalogMoves ==
  ASSUME NEW r \in Requests, JobInv, CatalogStep(r), ~CatalogArrives(r)
  PROVE  /\ Keeps(r) /\ GoesOn(r) /\ Goes(r) /\ job[r].op \notin Changers \cup FileMakers
         /\ job[r].op \in Inserters /\ job'[r].at = "insert" => ReadPlace(r)
<1> DEFINE Goal == /\ Keeps(r) /\ GoesOn(r) /\ Goes(r) /\ job[r].op \notin Changers \cup FileMakers
                   /\ job[r].op \in Inserters /\ job'[r].at = "insert" => ReadPlace(r)
<1>0. /\ DOMAIN job = Requests /\ {"op", "at"} \subseteq DOMAIN job[r]
      /\ job[r].op = "reorder" => "list" \in DOMAIN job[r]
  BY DEF JobInv, JobShape, Locals
<1> USE DEF Keeps, GoesOn, Goes, Makers, FileMakers, Changers, Inserters, At, Goto, GotoWith,
            Quiet, OnlyCatalog
<1>1. ASSUME CreateApp(r) PROVE Goal
  BY <1>0, <1>1 DEF CreateApp
<1>2. ASSUME ReadRow(r) PROVE Goal
  BY <1>0, <1>2 DEF ReadRow
<1>3. ASSUME ReadBack(r) PROVE Goal
  BY <1>0, <1>3 DEF ReadBack
<1>4. ASSUME ReadApp(r) PROVE Goal
  BY <1>0, <1>4 DEF ReadApp
<1>5. ASSUME WriteApp(r) PROVE Goal
  BY <1>0, <1>5 DEF WriteApp
<1>6. ASSUME RegenerateToken(r) PROVE Goal
  BY <1>0, <1>6 DEF RegenerateToken
<1>7. ASSUME EraseHistory(r) PROVE Goal
  BY <1>0, <1>7 DEF EraseHistory
<1>8. ASSUME DeleteApp(r) PROVE Goal
  BY <1>0, <1>8 DEF DeleteApp
<1>9. ASSUME FindApp(r) PROVE Goal
  BY <1>0, <1>9 DEF FindApp, CommandRefused, NextOfImport
<1>10. ASSUME ReadPlace(r) PROVE Goal
  BY <1>0, <1>10 DEF ReadPlace
<1>11. ASSUME InsertCommand(r) PROVE Goal
  BY <1>0, <1>11 DEF InsertCommand, CommandRefused, NextOfImport
<1>12. ASSUME UpdateCommand(r) PROVE Goal
  BY <1>0, <1>12 DEF UpdateCommand
<1>13. ASSUME LookForCommand(r) PROVE Goal
  BY <1>0, <1>13 DEF LookForCommand
<1>14. ASSUME DeleteCommand(r) PROVE Goal
  BY <1>0, <1>14 DEF DeleteCommand
<1>15. ASSUME ReorderCommands(r) PROVE Goal
  BY <1>0, <1>15 DEF ReorderCommands
<1>16. ASSUME CheckToken(r) PROVE Goal
  BY <1>0, <1>16 DEF CheckToken
<1>17. ASSUME FindCommand(r) PROVE Goal
  BY <1>0, <1>17 DEF FindCommand
<1>18. ASSUME InsertExecution(r) PROVE Goal
  BY <1>0, <1>18 DEF InsertExecution
<1>19. ASSUME ListApps(r) PROVE Goal
  BY <1>0, <1>19 DEF ListApps
<1>20. ASSUME ExportCommands(r) PROVE Goal
  BY <1>0, <1>20 DEF ExportCommands
<1>21. ASSUME ImportLook(r) PROVE Goal
  BY <1>0, <1>21 DEF ImportLook
<1>22. ASSUME ImportApp(r) PROVE Goal
  BY <1>0, <1>22 DEF ImportApp
<1>23. ASSUME ImportCreated(r) PROVE Goal
  BY <1>0, <1>23 DEF ImportCreated, NextOfImport
<1>24. ASSUME ImportCommand(r) PROVE Goal
  BY <1>0, <1>24 DEF ImportCommand, NextOfImport
<1> HIDE DEF Goal
<1>25. Goal
  BY <1>1, <1>2, <1>3, <1>4, <1>5, <1>6, <1>7, <1>8, <1>9, <1>10, <1>11, <1>12, <1>13, <1>14, <1>15, <1>16, <1>17, <1>18, <1>19, <1>20, <1>21, <1>22, <1>23, <1>24
     DEF CatalogStep
<1>26. QED BY <1>25 DEF Goal

LEMMA ContainerMoves ==
  ASSUME NEW r \in Requests, JobInv, ContainerStep(r), ~ContainerArrives(r),
         UNCHANGED <<filesystem, catalog>>
  PROVE  /\ Keeps(r) /\ GoesOn(r) /\ Goes(r)
         /\ job[r].op \notin Changers \cup Inserters \cup Makers
<1> DEFINE Goal == /\ Keeps(r) /\ GoesOn(r) /\ Goes(r)
                   /\ job[r].op \notin Changers \cup Inserters \cup Makers
<1>0. DOMAIN job = Requests /\ \A q \in Requests : {"op", "at"} \subseteq DOMAIN job[q]
  BY DEF JobInv, JobShape, Locals
<1> USE DEF Keeps, GoesOn, Goes, Makers, FileMakers, Changers, Inserters, At, Goto,
            Untouched, OnlyContainer
<1>1. ASSUME CallDocker(r) PROVE Goal
  BY <1>0, <1>1 DEF CallDocker
<1>2. ASSUME RunInContainer(r) PROVE Goal
  BY <1>0, <1>2 DEF RunInContainer
<1>3. ASSUME AuditContainer(r) PROVE Goal
  BY <1>0, <1>3 DEF AuditContainer, Log
<1>4. ASSUME OpenLogs(r) \/ EndLogs(r) PROVE Goal
  BY <1>0, <1>4 DEF OpenLogs, EndLogs
<1>5. ASSUME Attach(r) PROVE Goal
  BY <1>0, <1>5 DEF Attach
<1> USE DEF Open, Set, End
<1>6. ASSUME ShellExits(r) \/ BrowserLeaves(r) PROVE Goal
  BY <1>0, <1>6 DEF ShellExits, BrowserLeaves
<1>7. ASSUME PingInWrite(r) PROVE Goal
  BY <1>0, <1>7 DEF PingInWrite, Die, Running
<1>8. ASSUME OutReads(r) PROVE Goal
  BY <1>0, <1>8 DEF OutReads
<1>9. ASSUME PingEnds(r) \/ OutWrites(r) \/ InEnds(r) \/ Close(r) PROVE Goal
  BY <1>0, <1>9 DEF PingEnds, OutWrites, InEnds, Close
<1> HIDE DEF Goal
<1>10. Goal
  BY <1>1, <1>2, <1>3, <1>4, <1>5, <1>6, <1>7, <1>8, <1>9
     DEF ContainerStep, Goroutines
<1>11. QED BY <1>10 DEF Goal

-----------------------------------------------------------------------------
(* The invariant of the files.                                             *)

\* What a step of r is, for the files.
FileFacts(r) ==
  /\ Keeps(r) /\ LinksNew
  /\ \/ /\ job[r] = Idle /\ UNCHANGED filesystem
        /\ JobShape(job'[r])
        /\ job'[r].op \in Changers => job'[r].at \notin Past
        /\ job'[r].op \in Changers => /\ job'[r].path \in Paths
                                      /\ job'[r].arrived \in 0..moment
        /\ job'[r].op = "rename" => job'[r].from \in Paths
        /\ job'[r].op = "reorder" => DOMAIN job'[r].list \subseteq {1, 2}
     \/ /\ GoesOn(r)
        /\ job[r].op \in Changers /\ job[r].at \notin Past => UNCHANGED filesystem
        /\ /\ job[r].op \in Changers /\ ~job[r].over
           /\ job[r].at \notin Past /\ job'[r].at \in Past
           => ~Exists(job[r].path)

LEMMA Arrives ==
  ASSUME NEW r \in Requests, NEW q, JobInv, LinkInv, Receive(r, q), UNCHANGED filesystem,
         JobShape(q), q.op \in Changers => q.at \notin Past,
         q.op \in Changers => q.path \in Paths /\ q.arrived \in 0..moment,
         q.op = "rename" => q.from \in Paths,
         q.op = "reorder" => DOMAIN q.list \subseteq {1, 2}
  PROVE  FileFacts(r)
<1>1. DOMAIN job = Requests
  BY DEF JobInv
<1>2. job'[r] = q /\ job[r] = Idle /\ Keeps(r)
  BY <1>1 DEF Receive, Keeps
<1>3. LinksNew
  BY DEF LinksNew, LinkInv, filesystem
<1>4. QED BY <1>2, <1>3 DEF FileFacts

LEMMA StepFacts ==
  ASSUME NEW r \in Requests, JobInv, LinkInv,
         Catalogs(r) \/ FilesOf(r) \/ Containing(r) \/ Logging(r)
  PROVE  FileFacts(r)
<1>1. CASE Catalogs(r) /\ CatalogArrives(r)
  <2>1. PICK q \in CatalogRequests : Receive(r, q)
    BY <1>1 DEF CatalogArrives
  <2>2. UNCHANGED filesystem
    BY <1>1 DEF Catalogs, filesystem
  <2>3. q.op # "rename"
    BY CatalogArrivals DEF Changers
  <2>4. QED BY <2>1, <2>2, <2>3, CatalogArrivals, Arrives
<1>2. CASE FilesOf(r) /\ FileArrives(r)
  <2>1. PICK q \in FileRequests : Receive(r, q)
    BY <1>2 DEF FileArrives
  <2>2. UNCHANGED filesystem
    BY <1>2 DEF FileArrives, OnlyRead
  <2>3. moment \in Nat
    BY DEF LinkInv
  <2>4. q.op \in Changers => q.at \notin Past
    BY <2>3, FileArrivals DEF Past
  <2>5. JobShape(q) /\ q.op # "reorder" /\ (q.op = "rename" => q.from \in Paths)
        /\ (q.op \in Changers => q.path \in Paths /\ q.arrived \in 0..moment)
    BY <2>3, FileArrivals
  <2>6. QED BY <2>1, <2>2, <2>4, <2>5, Arrives
<1>3. CASE Containing(r) /\ ContainerArrives(r)
  <2>1. PICK q \in ContainerRequests : Receive(r, q)
    BY <1>3 DEF ContainerArrives
  <2>2. UNCHANGED filesystem
    BY <1>3 DEF Containing, filesystem
  <2>3. q.op # "rename"
    BY ContainerArrivals DEF Changers
  <2>4. QED BY <2>1, <2>2, <2>3, ContainerArrivals, Arrives
<1>4. CASE FilesOf(r) /\ ~FileArrives(r)
  BY <1>4, FileMoves DEF FilesOf, FileFacts
<1>5. CASE Catalogs(r) /\ ~CatalogArrives(r)
  <2>1. Keeps(r) /\ GoesOn(r) /\ job[r].op \notin Changers
    BY <1>5, CatalogMoves DEF Catalogs
  <2>2. UNCHANGED filesystem /\ LinksNew
    BY <1>5 DEF Catalogs, LinksNew, LinkInv, filesystem
  <2>3. QED BY <2>1, <2>2 DEF FileFacts
<1>6. CASE Containing(r) /\ ~ContainerArrives(r)
  <2>1. Keeps(r) /\ GoesOn(r) /\ job[r].op \notin Changers
    BY <1>6, ContainerMoves DEF Containing
  <2>2. UNCHANGED filesystem /\ LinksNew
    BY <1>6 DEF Containing, LinksNew, LinkInv, filesystem
  <2>3. QED BY <2>1, <2>2 DEF FileFacts
<1>7. CASE Logging(r)
  <2>1. DOMAIN job = Requests /\ {"op", "at"} \subseteq DOMAIN job[r]
    BY DEF JobInv, JobShape, Locals
  <2>2. /\ job' = [job EXCEPT ![r].at = IF job[r].at = "log" THEN "ok" ELSE "panicked"]
        /\ UNCHANGED filesystem
    BY <1>7 DEF Logging, LogAndAnswer, Goto
  <2>3. Keeps(r) /\ GoesOn(r) /\ job'[r].at \in {"ok", "panicked"}
    BY <2>1, <2>2 DEF Keeps, GoesOn
  <2>4. LinksNew
    BY <2>2 DEF LinksNew, LinkInv, filesystem
  <2>5. QED BY <2>2, <2>3, <2>4 DEF FileFacts, Past
<1>8. QED
  BY <1>1, <1>2, <1>3, <1>4, <1>5, <1>6, <1>7

LEMMA FileInductive ==
  ASSUME JobInv, LinkInv, NEW r \in Requests, FileFacts(r)
  PROVE  JobInv' /\ LinkInv'
<1>1. moment' \in Nat /\ moment' >= moment /\ moment \in Nat
  BY DEF FileFacts, LinksNew, LinkInv
<1> DEFINE Shaped(j, m) ==
      /\ JobShape(j)
      /\ j.op \in Changers => j.path \in Paths /\ j.arrived \in 0..m
      /\ j.op = "rename" => j.from \in Paths
      /\ j.op = "reorder" => DOMAIN j.list \subseteq {1, 2}
<1>2. \A q \in Requests : Shaped(job[q], moment)
  BY DEF JobInv
<1>3. \A q \in Requests : Shaped(job[q], moment')
  BY <1>1, <1>2
<1>4. ASSUME NEW q \in Requests \ {r} PROVE Shaped(job'[q], moment')
  <2>1. CASE job'[q] = job[q]
    BY <1>3, <2>1
  <2>2. CASE job[q].op \in Changers \cup Inserters \cup {"reorder"}
             /\ job'[q] = [job[q] EXCEPT !.at = "lost"]
    <3>1. job'[q].op = job[q].op /\ DOMAIN job'[q] = DOMAIN job[q]
          /\ \A x \in DOMAIN job[q] : x # "at" => job'[q][x] = job[q][x]
      BY <1>3, <2>2 DEF JobShape, Locals
    <3>2. Locals(job[q].op) \subseteq DOMAIN job[q]
      BY <1>3 DEF JobShape
    <3>3. job[q].op \in Changers => job'[q].path = job[q].path /\ job'[q].arrived = job[q].arrived
      BY <3>1, <3>2 DEF Locals
    <3>4. job[q].op = "reorder" => job'[q].list = job[q].list
      BY <3>1, <3>2 DEF Locals
    <3>5. job[q].op = "rename" => job'[q].from = job[q].from
      BY <3>1, <3>2 DEF Locals
    <3>6. QED BY <1>3, <3>1, <3>2, <3>3, <3>4, <3>5 DEF JobShape
  <2>3. CASE /\ job[q].op \notin Changers \cup Inserters \cup {"reorder"}
             /\ job[q].op = job'[q].op /\ DOMAIN job'[q] = DOMAIN job[q]
    BY <1>3, <2>3 DEF JobShape, Changers
  <2>4. QED BY <2>1, <2>2, <2>3 DEF FileFacts, Keeps
<1>5. Shaped(job'[r], moment')
  <2>1. CASE GoesOn(r)
    BY <1>3, <2>1 DEF GoesOn, JobShape
  <2>2. CASE ~GoesOn(r)
    BY <1>1, <2>2 DEF FileFacts
  <2>3. QED BY <2>1, <2>2
<1>6. JobInv'
  <2>1. DOMAIN job' = Requests
    BY DEF FileFacts, Keeps
  <2>2. \A q \in Requests : Shaped(job'[q], moment')
    BY <1>4, <1>5
  <2>3. QED BY <2>1, <2>2 DEF JobInv, JobShape
<1>7. ASSUME NEW q \in Requests,
             job'[q].op \in Changers, ~job'[q].over, job'[q].at \in Past, Exists(job[q].path)'
      PROVE  link'[job'[q].path].since > job'[q].arrived
  <2>1. /\ job[q].op = job'[q].op /\ job[q].path = job'[q].path
        /\ job[q].over = job'[q].over /\ job[q].arrived = job'[q].arrived
    <3>1. CASE q = r
      BY <1>7, <3>1 DEF FileFacts, GoesOn
    <3>2. CASE q # r
      BY <1>2, <1>7, <3>2 DEF FileFacts, Keeps, JobShape, Locals, Changers, Past
    <3>3. QED BY <3>1, <3>2
  <2>2. job[q].path \in Paths /\ job[q].arrived \in 0..moment
    BY <1>2, <1>7, <2>1
  <2>3. CASE link'[job[q].path] # link[job[q].path]
    <3>1. link'[job[q].path].since = moment + 1
      BY <1>7, <2>1, <2>2, <2>3 DEF FileFacts, LinksNew, Exists
    <3>2. QED BY <1>1, <2>1, <2>2, <3>1
  <2>4. CASE link'[job[q].path] = link[job[q].path] /\ job[q].at \in Past
    BY <1>7, <2>1, <2>4 DEF LinkInv, Exists
  <2>5. CASE link'[job[q].path] = link[job[q].path] /\ job[q].at \notin Past
    <3>1. q = r
      BY <1>2, <1>7, <2>1, <2>5 DEF FileFacts, Keeps, JobShape, Locals, Past, Changers
    <3>2. ~Exists(job[q].path)
      BY <1>7, <2>1, <2>5, <3>1 DEF FileFacts, GoesOn
    <3>3. QED BY <1>7, <2>1, <2>5, <3>2 DEF Exists
  <2>6. QED BY <2>3, <2>4, <2>5
<1>8. LinkInv'
  BY <1>1, <1>7 DEF LinkInv, FileFacts, LinksNew
<1>9. QED BY <1>6, <1>8

\* A request changes what is at its path only once it has looked there.
LEMMA OnlyNewcomers ==
  ASSUME JobInv, LinkInv, NEW r \in Requests, FileFacts(r), NEW q \in Requests,
         job[q].op \in Changers, ~job[q].over, job'[q] # job[q], Exists(job[q].path),
         ~UNCHANGED filesystem
  PROVE  link[job[q].path].since > job[q].arrived
<1>1. q = r
  BY DEF FileFacts, Keeps
<1>2. job[r].op # "none"
  BY <1>1 DEF Changers
<1>3. job[r].at \in Past
  BY <1>1, <1>2 DEF FileFacts, Idle
<1>4. QED BY <1>1, <1>3 DEF LinkInv

-----------------------------------------------------------------------------
(* The invariant of the catalog.                                           *)

RowInv ==
  /\ born \in Nat
  /\ Apps \subseteq 1..born /\ Commands \subseteq 1..born
  /\ \A a \in Apps : {"name", "token", "cut"} \subseteq DOMAIN apps[a]
  /\ \A c \in Commands : /\ {"app", "place", "seen", "moved"} \subseteq DOMAIN commands[c]
                          /\ commands[c].place \in 0..born

\* A place that has been read is after every place there was then, of the
\* commands nobody has moved since.
PlaceRead(j) ==
  /\ j.seen \in 0..born /\ j.place \in 0..(j.seen + 1)
  /\ \A c \in Commands :
       commands[c].app = j.app /\ c <= j.seen /\ ~commands[c].moved
       => commands[c].place < j.place

PlaceReadInv ==
  \A r \in Requests :
    job[r].op \in Inserters /\ job[r].at = "insert" => PlaceRead(job[r])

LEMMA Greatest ==
  ASSUME NEW N \in Nat, NEW S, S \subseteq 0..N, S # {}
  PROVE  \E m \in S : \A x \in S : x <= m
<1> DEFINE Above(m) == {x \in S : m < x}
           T == {Above(m) : m \in S}
           W == StrictSubsetOrdering(0..N)
<1>1. IsWellFoundedOn(W, FiniteSubsetsOf(0..N))
  BY FS_StrictSubsetOrderingWellFounded
<1>2. FiniteSubsetsOf(0..N) = SUBSET (0..N)
  <2>1. IsFiniteSet(0..N)
    BY FS_Interval
  <2>2. QED BY <2>1, FS_FiniteSubsetsOfFinite
<1>3. T \subseteq SUBSET (0..N) /\ T # {}
  OBVIOUS
<1>4. PICK A \in T : \A B \in T : ~(<<B, A>> \in W)
  <2> HIDE DEF T, W
  <2>1. QED BY <1>1, <1>2, <1>3, WFMin
<1>5. PICK m \in S : A = Above(m)
  BY <1>4
<1>6. ASSUME NEW x \in S, ~(x <= m) PROVE FALSE
  <2>1. x \in 0..N /\ m \in 0..N /\ m < x
    BY <1>6
  <2>2. Above(x) \subseteq Above(m)
    <3>1. ASSUME NEW y \in S, x < y PROVE m < y
      <4>1. y \in Int /\ x \in Int /\ m \in Int
        BY <2>1
      <4>2. QED BY <2>1, <3>1, <4>1
    <3>2. QED BY <3>1
  <2>3. Above(x) # Above(m)
    <3>1. x \in Above(m) /\ x \notin Above(x)
      BY <2>1
    <3>2. QED BY <3>1
  <2>4. Above(x) \in T
    OBVIOUS
  <2>5. Above(x) \in SUBSET (0..N) /\ Above(m) \in SUBSET (0..N)
    OBVIOUS
  <2>6. <<Above(x), Above(m)>> \in W
    <3> HIDE DEF Above
    <3>1. QED BY <2>2, <2>3, <2>5 DEF StrictSubsetOrdering
  <2>7. QED BY <1>4, <1>5, <2>4, <2>6
<1>7. QED BY <1>6

LEMMA NextPlaceIsAfter ==
  ASSUME RowInv, NEW a
  PROVE  /\ NextPlace(a) \in 0..(born + 1)
         /\ \A c \in Of(a) : commands[c].place < NextPlace(a)
<1> DEFINE P == {commands[c].place : c \in Of(a)}
<1>1. P \subseteq 0..born /\ born \in Nat
  BY DEF RowInv, Of
<1>2. CASE P = {}
  <2>1. Of(a) = {}
    BY <1>2
  <2>2. NextPlace(a) = 0
    BY <1>2 DEF NextPlace
  <2>3. QED BY <1>1, <2>1, <2>2
<1>3. CASE P # {}
  <2> DEFINE m == CHOOSE p \in P : \A q \in P : q <= p
  <2>1. \E p \in P : \A q \in P : q <= p
    <3> HIDE DEF P
    <3>1. QED BY <1>1, <1>3, Greatest
  <2>2. m \in P /\ \A q \in P : q <= m
    <3> HIDE DEF P
    <3>1. QED BY <2>1
  <2>3. NextPlace(a) = 1 + m
    BY <1>3 DEF NextPlace
  <2>4. \A c \in Of(a) : commands[c].place \in P
    OBVIOUS
  <2> HIDE DEF m, P
  <2>5. m \in 0..born /\ \A q \in P : q \in 0..born
    BY <1>1, <2>2
  <2>6. NextPlace(a) \in 0..(born + 1)
    BY <1>1, <2>3, <2>5
  <2>7. ASSUME NEW c \in Of(a) PROVE commands[c].place < NextPlace(a)
    <3>1. commands[c].place <= m /\ commands[c].place \in 0..born
      BY <2>2, <2>4, <2>5
    <3>2. QED BY <1>1, <2>3, <2>5, <3>1
  <2>8. QED BY <2>6, <2>7
<1>4. QED BY <1>2, <1>3

\* What a step does to the rows.
RowFacts ==
  /\ RowInv' /\ born' >= born
  /\ \A c \in DOMAIN commands' :
       \/ /\ c \in Commands
          /\ commands'[c].app = commands[c].app /\ commands'[c].seen = commands[c].seen
          /\ \/ commands'[c].moved = commands[c].moved
                 /\ commands'[c].place = commands[c].place
             \/ commands'[c].moved
       \/ /\ c = born + 1 /\ c \notin Commands
          /\ \A d \in Commands : commands'[d] = commands[d]
          /\ \E r \in Requests : /\ job[r].op \in Inserters /\ job[r].at = "insert"
                                 /\ commands'[c].app = job[r].app
                                 /\ commands'[c].place = job[r].place
                                 /\ commands'[c].seen = job[r].seen
  /\ \A a \in Apps \cap DOMAIN apps' :
       apps'[a].token # apps[a].token => apps'[a].token > born

LEMMA RowsStep ==
  ASSUME NEW r \in Requests, JobInv, RowInv, PlaceReadInv, CatalogStep(r)
  PROVE  RowFacts
<1>1. CASE UNCHANGED catalog
  BY <1>1 DEF RowInv, RowFacts, catalog, Apps, Commands
<1>2. ASSUME UNCHANGED commands, DOMAIN apps' \subseteq Apps, born' \in Nat, born' >= born,
             \A a \in DOMAIN apps' : /\ DOMAIN apps'[a] = DOMAIN apps[a]
                                     /\ \/ apps'[a].token = apps[a].token
                                        \/ apps'[a].token > born
      PROVE  RowFacts
  BY <1>2 DEF RowInv, RowFacts, Apps, Commands
<1>3. ASSUME NEW n, NEW due, InsertApp(r, n, due) PROVE RowFacts
  <2>1. /\ DOMAIN apps' = Apps \cup {born + 1} /\ UNCHANGED commands /\ born' = born + 1
        /\ \A a \in Apps : apps'[a] = apps[a]
        /\ born + 1 \notin Apps
    BY <1>3 DEF InsertApp, RowInv, Apps, With
  <2>2. DOMAIN apps'[born + 1] = {"name", "token", "by", "due", "cut"}
    BY <1>3, <2>1 DEF InsertApp, RowInv, Apps, With
  <2>3. QED BY <2>1, <2>2 DEF RowInv, RowFacts, Apps, Commands
<1>4. CASE WriteApp(r)
  <2>1. UNCHANGED commands /\ born' = born
        /\ DOMAIN apps' = Apps
    BY <1>4 DEF WriteApp, Apps
  <2>2. \A a \in Apps : DOMAIN apps'[a] = DOMAIN apps[a] /\ apps'[a].token = apps[a].token
    BY <1>4 DEF WriteApp, Apps, Written, RowInv
  <2>3. QED BY <1>2, <2>1, <2>2 DEF RowInv, Apps
<1>5. CASE RegenerateToken(r)
  <2>1. UNCHANGED commands /\ born' = born + 1
        /\ DOMAIN apps' = Apps
    BY <1>5 DEF RegenerateToken, Apps
  <2>2. \A a \in Apps : DOMAIN apps'[a] = DOMAIN apps[a]
          /\ (apps'[a].token = apps[a].token \/ apps'[a].token = born + 1)
    BY <1>5 DEF RegenerateToken, Apps, RowInv
  <2>3. QED BY <1>2, <2>1, <2>2 DEF RowInv, Apps
<1>6. CASE EraseHistory(r) \/ InsertExecution(r)
  <2>1. UNCHANGED <<apps, commands, born>>
    BY <1>6 DEF EraseHistory, InsertExecution
  <2>2. QED BY <2>1 DEF RowInv, RowFacts, Apps, Commands
<1>7. CASE DeleteApp(r)
  <2>1. UNCHANGED born /\ DOMAIN apps' \subseteq Apps /\ DOMAIN commands' \subseteq Commands
        /\ (\A a \in DOMAIN apps' : apps'[a] = apps[a])
        /\ (\A c \in DOMAIN commands' : commands'[c] = commands[c])
    BY <1>7 DEF DeleteApp, Without, Restrict, Apps, Commands
  <2>2. QED BY <2>1 DEF RowInv, RowFacts, Apps, Commands
<1>8. CASE DeleteCommand(r)
  <2>1. UNCHANGED born /\ DOMAIN apps' = Apps /\ DOMAIN commands' \subseteq Commands
        /\ (\A c \in DOMAIN commands' : commands'[c] = commands[c])
    BY <1>8 DEF DeleteCommand, Without, Restrict, Apps, Commands
  <2>2. \A a \in Apps : DOMAIN apps'[a] = DOMAIN apps[a] /\ apps'[a].token = apps[a].token
    BY <1>8 DEF DeleteCommand, Apps, RowInv
  <2>3. QED BY <2>1, <2>2 DEF RowInv, RowFacts, Apps, Commands
<1>9. CASE InsertCommand(r)
  <2>1. CASE UNCHANGED <<commands, born>>
    BY <1>9, <2>1 DEF InsertCommand, RowInv, RowFacts, Apps, Commands
  <2>2. CASE ~UNCHANGED <<commands, born>>
    <3>1. /\ job[r].op \in Inserters /\ job[r].at = "insert"
          /\ commands' = With(commands, born + 1,
               [app |-> job[r].app, place |-> job[r].place, seen |-> job[r].seen,
                moved |-> FALSE])
          /\ born' = born + 1 /\ apps' = apps
      BY <1>9, <2>2 DEF InsertCommand, At, Inserters
    <3>2. /\ born + 1 \notin Commands /\ DOMAIN commands' = Commands \cup {born + 1}
          /\ \A c \in Commands : commands'[c] = commands[c]
          /\ commands'[born + 1] = [app |-> job[r].app, place |-> job[r].place,
                                   seen |-> job[r].seen, moved |-> FALSE]
      BY <3>1 DEF RowInv, Commands, With
    <3>3. job[r].place \in 0..(born + 1) /\ born \in Nat
      BY <3>1 DEF PlaceReadInv, PlaceRead, RowInv
    <3>4. RowInv'
      <4>1. /\ born' \in Nat /\ Apps' \subseteq 1..born' /\ Commands' \subseteq 1..born'
            /\ \A a \in Apps' : {"name", "token", "cut"} \subseteq DOMAIN apps'[a]
        BY <3>1, <3>2, <3>3 DEF RowInv, Apps, Commands
      <4>2. ASSUME NEW c \in Commands
            PROVE  /\ {"app", "place", "seen", "moved"} \subseteq DOMAIN commands'[c]
                   /\ commands'[c].place \in 0..born'
        <5>1. commands'[c] = commands[c] /\ commands[c].place \in 0..born
              /\ {"app", "place", "seen", "moved"} \subseteq DOMAIN commands[c]
          BY <3>2 DEF RowInv
        <5>2. QED BY <3>1, <3>3, <5>1
      <4>3. /\ {"app", "place", "seen", "moved"} \subseteq DOMAIN commands'[born + 1]
            /\ commands'[born + 1].place \in 0..born'
        BY <3>1, <3>2, <3>3
      <4>4. QED BY <3>2, <4>1, <4>2, <4>3 DEF RowInv, Commands
    <3>5. /\ commands'[born + 1].app = job[r].app
          /\ commands'[born + 1].place = job[r].place
          /\ commands'[born + 1].seen = job[r].seen
      BY <3>2
    <3>6. \A c \in DOMAIN commands' :
            \/ c \in Commands /\ commands'[c] = commands[c]
            \/ c = born + 1 /\ c \notin Commands
      BY <3>2 DEF Commands
    <3>7. born' >= born /\ apps' = apps
      BY <3>1, <3>3
    <3>8. ASSUME NEW c \in DOMAIN commands', c = born + 1, c \notin Commands
          PROVE  \E q \in Requests : /\ job[q].op \in Inserters /\ job[q].at = "insert"
                                     /\ commands'[c].app = job[q].app
                                     /\ commands'[c].place = job[q].place
                                     /\ commands'[c].seen = job[q].seen
      BY <3>1, <3>5, <3>8
    <3>9. \A d \in Commands : commands'[d] = commands[d]
      BY <3>2
    <3>10. QED BY <3>4, <3>6, <3>7, <3>8, <3>9 DEF RowFacts, Apps
  <2>3. QED BY <2>1, <2>2
<1>10. CASE ReorderCommands(r)
  <2>1. CASE UNCHANGED commands
    <3>1. UNCHANGED <<apps, born>>
      BY <1>10 DEF ReorderCommands
    <3>2. QED BY <2>1, <3>1 DEF RowInv, RowFacts, Apps, Commands
  <2>2. CASE ~UNCHANGED commands
    <3> DEFINE list == job[r].list
               at(c) == Inverse(list, DOMAIN list, Range(list))[c]
    <3>1. /\ UNCHANGED <<apps, born>>
          /\ commands' = [c \in Commands |->
               IF c \in Range(list)
               THEN [commands[c] EXCEPT !.place = at(c) - 1, !.moved = TRUE]
               ELSE commands[c]]
          /\ job[r].op = "reorder"
      BY <1>10, <2>2 DEF ReorderCommands, At
    <3>2. \A c \in Range(list) : at(c) \in DOMAIN list
      BY DEF Inverse, Range
    <3>3. DOMAIN list \subseteq {1, 2}
      BY <3>1 DEF JobInv
    <3>4. \A c \in Range(list) : at(c) - 1 \in 0..1
      <4>1. \A c \in Range(list) : at(c) \in {1, 2}
        BY <3>2, <3>3
      <4> HIDE DEF list, at
      <4>2. QED BY <4>1
    <3> HIDE DEF list, at
    <3>5. ASSUME NEW c \in Commands
          PROVE  /\ c \in DOMAIN commands' /\ DOMAIN commands'[c] = DOMAIN commands[c]
                 /\ commands'[c].app = commands[c].app /\ commands'[c].seen = commands[c].seen
                 /\ commands'[c].place \in 0..born
                 /\ \/ commands'[c].moved = commands[c].moved
                        /\ commands'[c].place = commands[c].place
                    \/ commands'[c].moved
      <4>1. born >= 1 /\ born \in Nat
        <5>1. born \in Nat /\ Commands \subseteq 1..born
          BY DEF RowInv
        <5>2. c \in 1..born
          BY <5>1
        <5> HIDE DEF Commands
        <5>3. QED BY <5>1, <5>2
      <4>2. {"app", "place", "seen", "moved"} \subseteq DOMAIN commands[c]
            /\ commands[c].place \in 0..born
        BY DEF RowInv
      <4>3. CASE c \in Range(list)
        <5>1. commands'[c] = [commands[c] EXCEPT !.place = at(c) - 1, !.moved = TRUE]
          BY <3>1, <4>3
        <5>2. at(c) - 1 \in 0..born
          BY <3>4, <4>1, <4>3
        <5>3. QED BY <3>1, <4>2, <5>1, <5>2
      <4>4. CASE c \notin Range(list)
        BY <3>1, <4>2, <4>4
      <4>5. QED BY <4>3, <4>4
    <3>6. DOMAIN commands' = Commands
      BY <3>1
    <3>7. RowInv'
      <4>1. \A c \in Commands' : /\ {"app", "place", "seen", "moved"} \subseteq DOMAIN commands'[c]
                                 /\ commands'[c].place \in 0..born
        BY <3>5, <3>6 DEF RowInv, Commands
      <4>2. QED BY <3>1, <3>6, <4>1 DEF RowInv, Apps, Commands
    <3>8. \A c \in DOMAIN commands' :
            /\ c \in Commands
            /\ commands'[c].app = commands[c].app /\ commands'[c].seen = commands[c].seen
            /\ \/ commands'[c].moved = commands[c].moved
                   /\ commands'[c].place = commands[c].place
               \/ commands'[c].moved
      <4>1. TAKE c \in DOMAIN commands'
      <4>2. c \in Commands
        BY <3>6
      <4>3. commands'[c].app = commands[c].app /\ commands'[c].seen = commands[c].seen
        BY <3>5, <4>2
      <4>4. \/ commands'[c].moved = commands[c].moved /\ commands'[c].place = commands[c].place
            \/ commands'[c].moved
        BY <3>5, <4>2, Zenon
      <4>5. QED BY <4>2, <4>3, <4>4, Zenon
    <3>9. born' >= born
      <4>1. born' = born /\ born \in Nat
        BY <3>1 DEF RowInv
      <4>2. QED BY <4>1
    <3>10. QED BY <3>1, <3>7, <3>8, <3>9 DEF RowFacts, Apps
  <2>3. QED BY <2>1, <2>2
<1>11. CASE CreateApp(r)
  BY <1>1, <1>3, <1>11 DEF CreateApp
<1>12. CASE ImportApp(r)
  BY <1>1, <1>3, <1>12 DEF ImportApp
<1>13. QED
  BY <1>1, <1>4, <1>5, <1>6, <1>7, <1>8, <1>9, <1>10, <1>11, <1>12
     DEF CatalogStep, CatalogArrives, ReadRow, ReadBack, ReadApp, FindApp, ReadPlace,
         UpdateCommand, LookForCommand, CheckToken, FindCommand, ListApps, ExportCommands,
         ImportLook, ImportCreated, ImportCommand, Quiet

\* The commands there were keep their places, or have been moved.
LEMMA ClashKept ==
  ASSUME RowInv, PlaceReadInv, PlacesClashOnlyInRaces, RowFacts
  PROVE  PlacesClashOnlyInRaces'
<1>1. SUFFICES ASSUME NEW c \in DOMAIN commands', NEW d \in DOMAIN commands',
                      c < d, commands'[c].app = commands'[d].app,
                      commands'[c].place = commands'[d].place,
                      ~commands'[c].moved, ~commands'[d].moved
               PROVE  commands'[d].seen < c
  BY DEF PlacesClashOnlyInRaces, Commands
<1> DEFINE Old(x) == /\ x \in Commands
                     /\ commands'[x].app = commands[x].app
                     /\ commands'[x].seen = commands[x].seen
                     /\ commands'[x].moved = commands[x].moved
                     /\ commands'[x].place = commands[x].place
           New(x) == /\ x = born + 1 /\ x \notin Commands
                     /\ \A y \in Commands : commands'[y] = commands[y]
                     /\ \E r \in Requests : /\ job[r].op \in Inserters /\ job[r].at = "insert"
                                            /\ commands'[x].app = job[r].app
                                            /\ commands'[x].place = job[r].place
                                            /\ commands'[x].seen = job[r].seen
<1>2. (Old(c) \/ New(c)) /\ (Old(d) \/ New(d))
  BY <1>1, Zenon DEF RowFacts
<1>3. \A x \in Commands : x \in 1..born
  BY DEF RowInv
<1>4. CASE Old(c) /\ Old(d)
  <2>1. ~commands[c].moved /\ ~commands[d].moved
    BY <1>1, <1>4, Zenon
  <2>2. commands[c].app = commands[d].app /\ commands[c].place = commands[d].place
    BY <1>1, <1>4
  <2>3. commands[d].seen < c
    <3>1. c \in Commands /\ d \in Commands /\ c < d
      BY <1>1, <1>4
    <3>2. QED BY <2>1, <2>2, <3>1, Zenon DEF PlacesClashOnlyInRaces
  <2>4. QED BY <1>4, <2>3
<1>5. CASE New(c)
  <2>1. d \in Commands \/ d = born + 1
    BY <1>2
  <2>2. d \in 1..(born + 1) /\ born \in Nat
    <3>1. born \in Nat
      BY DEF RowInv
    <3>2. d \in 1..born \/ d = born + 1
      BY <1>3, <2>1
    <3>3. QED BY <3>1, <3>2
  <2>3. c = born + 1 /\ c < d
    BY <1>1, <1>5
  <2>4. QED BY <2>2, <2>3
<1>6. CASE Old(c) /\ New(d)
  <2>1. PICK r \in Requests : /\ job[r].op \in Inserters /\ job[r].at = "insert"
                              /\ commands'[d].app = job[r].app
                              /\ commands'[d].place = job[r].place
                              /\ commands'[d].seen = job[r].seen
    BY <1>6
  <2>2. PlaceRead(job[r])
    BY <2>1 DEF PlaceReadInv
  <2>3. ~commands[c].moved /\ commands[c].app = job[r].app /\ c \in Commands
    <3>1. ~commands[c].moved
      BY <1>1, <1>6, Zenon
    <3>2. QED BY <1>1, <1>6, <2>1, <3>1
  <2>4. c <= job[r].seen => commands[c].place < job[r].place
    BY <2>2, <2>3 DEF PlaceRead
  <2>5. commands[c].place = job[r].place /\ commands[c].place \in 0..born
    BY <1>1, <1>6, <2>1 DEF RowInv
  <2>6. job[r].seen \in 0..born /\ c \in 1..born /\ born \in Nat
    BY <1>3, <2>2, <2>3 DEF PlaceRead, RowInv
  <2>7. job[r].seen < c
    BY <2>4, <2>5, <2>6
  <2>8. QED BY <2>1, <2>7
<1>7. QED BY <1>2, <1>4, <1>5, <1>6

\* A place that was read stays after the places read then.
LEMMA ReadKept ==
  ASSUME RowInv, RowFacts, NEW j, PlaceRead(j)
  PROVE  /\ j.seen \in 0..born' /\ j.place \in 0..(j.seen + 1)
         /\ \A c \in Commands' :
              commands'[c].app = j.app /\ c <= j.seen /\ ~commands'[c].moved
              => commands'[c].place < j.place
<1>1. j.seen \in 0..born' /\ j.place \in 0..(j.seen + 1)
  BY DEF PlaceRead, RowFacts, RowInv
<1>2. ASSUME NEW c \in Commands', commands'[c].app = j.app, c <= j.seen, ~commands'[c].moved
      PROVE  commands'[c].place < j.place
  <2>1. c # born + 1
    BY <1>2 DEF PlaceRead, RowInv
  <2>2. /\ c \in Commands
        /\ commands'[c].app = commands[c].app
        /\ commands'[c].moved = commands[c].moved
        /\ commands'[c].place = commands[c].place
    BY <1>2, <2>1, Zenon DEF RowFacts, Commands
  <2>3. ~commands[c].moved
    BY <1>2, <2>2, Zenon
  <2>4. QED BY <1>2, <2>2, <2>3 DEF PlaceRead
<1>3. QED BY <1>1, <1>2

LEMMA ReadsKept ==
  ASSUME JobInv, RowInv, PlaceReadInv, RowFacts, NEW r \in Requests, Keeps(r),
         job'[r].op \in Inserters /\ job'[r].at = "insert" => ReadPlace(r) /\ UNCHANGED catalog
  PROVE  PlaceReadInv'
<1> SUFFICES ASSUME NEW q \in Requests, job'[q].op \in Inserters, job'[q].at = "insert"
             PROVE  PlaceRead(job[q])'
  BY DEF PlaceReadInv
<1>1. CASE job'[q] = job[q]
  BY <1>1, ReadKept DEF PlaceReadInv, PlaceRead
<1>2. CASE q # r /\ job'[q] # job[q]
  <2>1. job'[q].op = job[q].op /\ job'[q] = [job[q] EXCEPT !.at = "lost"]
    BY <1>2 DEF Keeps
  <2>2. "at" \in DOMAIN job[q]
    BY DEF JobInv, JobShape, Locals
  <2>3. QED BY <2>1, <2>2
<1>3. CASE q = r /\ ReadPlace(r) /\ UNCHANGED catalog
  <2>1. /\ {"at", "op", "app", "place", "seen"} \subseteq DOMAIN job[r]
        /\ DOMAIN job = Requests
    BY <1>3 DEF JobInv, JobShape, Locals, ReadPlace, At, Inserters
  <2>2. /\ job'[r].seen = born /\ job'[r].place = NextPlace(job[r].app)
        /\ job'[r].app = job[r].app
    BY <1>3, <2>1 DEF ReadPlace
  <2>3. born' = born /\ commands' = commands /\ born \in Nat
    BY <1>3 DEF catalog, RowInv
  <2>4. \A c \in Commands : commands[c].app = job[r].app
          => commands[c].place < NextPlace(job[r].app)
    BY NextPlaceIsAfter DEF Of
  <2>5. NextPlace(job[r].app) \in 0..(born + 1)
    BY NextPlaceIsAfter
  <2>6. QED BY <1>3, <2>2, <2>3, <2>4, <2>5 DEF PlaceRead, Commands
<1>4. QED BY <1>1, <1>2, <1>3

-----------------------------------------------------------------------------
(* What imports leave behind.                                              *)

ImportPlaces ==
  {"look", "create", "created", "app", "place", "insert", "readBack", "log", "ok", "lost"}

\* An import that is at a command of an application has commands left.
ImportJob(j) ==
  /\ {"nth", "left", "errors"} \subseteq DOMAIN j
  /\ j.errors \in Nat /\ j.nth \in Nat \ {0} /\ j.left \in Nat
  /\ j.at \in ImportPlaces
  /\ j.at \in {"create", "created"} => j.nth \in DOMAIN Backup
  /\ j.at \in {"app", "place", "insert", "readBack"} => j.left # 0

\* How many commands the import of j has yet to insert in application a.
Rest(j, a) ==
  IF j.app # a THEN 0
  ELSE CASE j.at = "created" -> Backup[j.nth].commands
         [] j.at \in {"app", "place", "insert"} -> j.left
         [] j.at = "readBack" -> j.left - 1
         [] OTHER -> 0

\* The commands of an application, with those its import will still insert, are
\* as many as its backup had.
Accounted(a) ==
  LET j == job[apps[a].by] IN
  \/ j.at = "lost" \/ j.errors > 0 \/ apps[a].cut
  \/ Cardinality(Of(a)) + Rest(j, a) >= apps[a].due

\* Where the request that has made an application is.
MakerAt(j, a) ==
  \/ j.op = "import"
  \/ j.op = "createApp" /\ j.row = a /\ j.at \in {"readBack", "log", "ok", "lost"}

AppInv ==
  /\ \A r \in Requests : /\ job[r].op = "import" => ImportJob(job[r])
                         /\ job[r].op = "createApp" => "row" \in DOMAIN job[r]
  /\ \A a \in Apps :
       /\ {"by", "due"} \subseteq DOMAIN apps[a] /\ apps[a].due \in Nat
       /\ apps[a].by \in Requests => MakerAt(job[apps[a].by], a)
       /\ apps[a].due # 0 => /\ apps[a].by \in Requests /\ job[apps[a].by].op = "import"
                             /\ Accounted(a)

LEMMA OfFinite ==
  ASSUME RowInv, NEW a
  PROVE  IsFiniteSet(Of(a)) /\ Cardinality(Of(a)) \in Nat
<1>1. Of(a) \subseteq 1..born /\ born \in Nat
  BY DEF RowInv, Of
<1>2. IsFiniteSet(1..born)
  BY <1>1, FS_Interval
<1>3. IsFiniteSet(Of(a))
  BY <1>1, <1>2, FS_Subset
<1>4. QED BY <1>3, FS_CardinalityType

LEMMA BackupType ==
  ASSUME NEW n \in DOMAIN Backup
  PROVE  Backup[n].commands \in Nat
<1>1. DOMAIN Backup = 1..Len(Backup)
  BY BackupAssumption, LenProperties
<1>2. Backup[n] \in [name : Names, commands : Nat]
  BY <1>1, BackupAssumption, ElementOfSeq
<1>3. QED BY <1>2

LEMMA RestType ==
  ASSUME NEW j, ImportJob(j), NEW a
  PROVE  Rest(j, a) \in Nat
<1>1. j.at \in {"create", "created"} => Backup[j.nth].commands \in Nat
  BY BackupType DEF ImportJob
<1>2. QED BY <1>1 DEF ImportJob, Rest

LEMMA ImportFresh ==
  ASSUME NEW q \in CatalogRequests, q.op = "import"
  PROVE  ImportJob(q)
<1>1. q \in [op : {"import"}, at : {"look"}, nth : {1}, left : {0}, app : {0},
             row : {0}, place : {0}, seen : {0}, imported : {0}, skipped : {0},
             errors : {0}]
  BY DEF CatalogRequests
<1>2. QED BY <1>1 DEF ImportJob, ImportPlaces

\* One more command, or one more error.
LEMMA NextKeeps ==
  ASSUME NEW r \in Requests, DOMAIN job = Requests, JobShape(job[r]), job[r].op = "import",
         ImportJob(job[r]), NEW n \in {0, 1}, NextOfImport(r, n),
         job[r].at \in {"created", "app", "insert", "readBack"}
  PROVE  /\ ImportJob(job'[r])
         /\ job'[r].errors = job[r].errors + n
         /\ job'[r].app = job[r].app
         /\ job'[r].at = IF job[r].left <= 1 THEN "look" ELSE "app"
         /\ job[r].left > 1 => job'[r].left = job[r].left - 1
<1>1. /\ {"op", "at", "app", "nth", "left", "errors"} \subseteq DOMAIN job[r]
      /\ job[r].errors \in Nat /\ job[r].nth \in Nat \ {0} /\ job[r].left \in Nat
  BY DEF JobShape, Locals, Inserters, ImportJob
<1>2. DOMAIN job'[r] = DOMAIN job[r] /\ job'[r].app = job[r].app
  BY <1>1 DEF NextOfImport
<1>3. /\ job'[r].errors = job[r].errors + n
      /\ job'[r].at = IF job[r].left <= 1 THEN "look" ELSE "app"
      /\ job'[r].left = IF job[r].left <= 1 THEN 0 ELSE job[r].left - 1
      /\ job'[r].nth = IF job[r].left <= 1 THEN job[r].nth + 1 ELSE job[r].nth
  BY <1>1 DEF NextOfImport
<1>4. QED BY <1>1, <1>2, <1>3 DEF ImportJob, ImportPlaces

\* A step of an import: an error, or no command is forgotten.
LEMMA ImportSteps ==
  ASSUME NEW r \in Requests, JobInv, RowInv, RowInv', job[r].op = "import",
         ImportJob(job[r]), CatalogStep(r), ~CatalogArrives(r)
  PROVE  /\ ImportJob(job'[r]) /\ job'[r].errors >= job[r].errors
         /\ \/ job'[r].errors > 0
            \/ \A a \in Apps : Cardinality(Of(a)') + Rest(job'[r], a)
                                 >= Cardinality(Of(a)) + Rest(job[r], a)
<1> DEFINE Goal ==
      /\ ImportJob(job'[r]) /\ job'[r].errors >= job[r].errors
      /\ \/ job'[r].errors > 0
         \/ \A a \in Apps : Cardinality(Of(a)') + Rest(job'[r], a)
                              >= Cardinality(Of(a)) + Rest(job[r], a)
<1>0. /\ DOMAIN job = Requests /\ JobShape(job[r])
      /\ {"op", "at", "app", "place", "seen", "nth", "left", "errors"} \subseteq DOMAIN job[r]
      /\ job[r].errors \in Nat /\ job[r].nth \in Nat \ {0} /\ job[r].left \in Nat
  BY DEF JobInv, JobShape, Locals, Inserters, ImportJob
<1>1. ASSUME ImportJob(job'[r]), job'[r].errors >= job[r].errors, UNCHANGED commands,
             \A a \in Apps : Rest(job'[r], a) >= Rest(job[r], a)
      PROVE  Goal
  <2>1. \A a : Of(a)' = Of(a)
    BY <1>1 DEF Of, Commands
  <2>2. ASSUME NEW a \in Apps
        PROVE  Cardinality(Of(a)') + Rest(job'[r], a) >= Cardinality(Of(a)) + Rest(job[r], a)
    <3>1. Cardinality(Of(a)) \in Nat /\ Rest(job[r], a) \in Nat /\ Rest(job'[r], a) \in Nat
      BY <1>1, OfFinite, RestType
    <3>2. QED BY <1>1, <2>1, <3>1
  <2>3. QED BY <1>1, <2>2
<1>2. ASSUME ImportJob(job'[r]), job'[r].errors = job[r].errors + 1 PROVE Goal
  BY <1>0, <1>2
<1>3. ASSUME NextOfImport(r, 1), job[r].at \in {"created", "app", "insert", "readBack"}
      PROVE  Goal
  BY <1>0, <1>2, <1>3, NextKeeps
<1>4. ASSUME ImportLook(r) PROVE Goal
  <2>1. job[r].at = "look" /\ UNCHANGED commands /\ job'[r].errors = job[r].errors
    BY <1>0, <1>4 DEF ImportLook, At, Quiet, catalog, Goto
  <2>2. ImportJob(job'[r])
    BY <1>0, <1>4, BackupAssumption DEF ImportLook, At, Goto, ImportJob, ImportPlaces
  <2>3. \A a \in Apps : Rest(job[r], a) = 0
    BY <2>1 DEF Rest
  <2>4. \A a \in Apps : Rest(job'[r], a) \in Nat
    BY <2>2, RestType
  <2>5. QED BY <1>0, <1>1, <2>1, <2>2, <2>3, <2>4
<1>5. ASSUME ImportApp(r) PROVE Goal
  <2>1. job[r].at = "create" /\ UNCHANGED commands
    BY <1>0, <1>5 DEF ImportApp, At, InsertApp, catalog
  <2>2. ImportJob(job'[r]) /\ job'[r].errors >= job[r].errors
    BY <1>0, <1>5 DEF ImportApp, At, GotoWith, ImportJob, ImportPlaces
  <2>3. \A a \in Apps : Rest(job[r], a) = 0
    BY <2>1 DEF Rest
  <2>4. \A a \in Apps : Rest(job'[r], a) \in Nat
    BY <2>2, RestType
  <2>5. QED BY <1>0, <1>1, <2>1, <2>2, <2>3, <2>4
<1>6. ASSUME ImportCreated(r) PROVE Goal
  <2>1. job[r].at = "created" /\ UNCHANGED commands
    BY <1>6 DEF ImportCreated, At, Quiet, catalog
  <2> DEFINE n == Backup[job[r].nth].commands
  <2>2. n \in Nat
    BY <2>1, BackupType DEF ImportJob
  <2>3. CASE job[r].app \notin Apps
    <3>1. job' = [job EXCEPT ![r].nth = @ + 1, ![r].errors = @ + 1, ![r].at = "look"]
      BY <1>6, <2>3 DEF ImportCreated
    <3>2. ImportJob(job'[r]) /\ job'[r].errors = job[r].errors + 1
      BY <1>0, <3>1 DEF ImportJob, ImportPlaces
    <3>3. QED BY <1>2, <3>2
  <2>4. CASE job[r].app \in Apps /\ n = 0
    <3>1. NextOfImport(r, 0)
      BY <1>6, <2>4 DEF ImportCreated
    <3>2. ImportJob(job'[r]) /\ job'[r].errors = job[r].errors
      BY <1>0, <2>1, <3>1, NextKeeps
    <3>3. \A a \in Apps : Rest(job[r], a) = 0
      BY <2>1, <2>4 DEF Rest
    <3>4. \A a \in Apps : Rest(job'[r], a) \in Nat
      BY <3>2, RestType
    <3>5. QED BY <1>0, <1>1, <2>1, <3>2, <3>3, <3>4
  <2>5. CASE job[r].app \in Apps /\ n # 0
    <3>1. job' = [job EXCEPT ![r].at = "app", ![r]["left"] = n]
      BY <1>6, <2>5 DEF ImportCreated, GotoWith
    <3>2. /\ job'[r].errors = job[r].errors /\ job'[r].app = job[r].app
          /\ job'[r].left = n /\ job'[r].at = "app" /\ job'[r].nth = job[r].nth
          /\ DOMAIN job'[r] = DOMAIN job[r]
      BY <1>0, <3>1
    <3>3. ImportJob(job'[r])
      BY <1>0, <2>2, <2>5, <3>2 DEF ImportJob, ImportPlaces
    <3>4. \A a \in Apps : Rest(job'[r], a) = Rest(job[r], a)
      BY <2>1, <3>2 DEF Rest
    <3>5. \A a \in Apps : Rest(job[r], a) \in Nat
      BY RestType
    <3>6. QED BY <1>0, <1>1, <2>1, <3>2, <3>3, <3>4, <3>5
  <2>6. QED BY <2>3, <2>4, <2>5
<1>7. ASSUME FindApp(r) PROVE Goal
  <2>1. job[r].at = "app" /\ UNCHANGED commands
    BY <1>7 DEF FindApp, At, Quiet, catalog
  <2>2. CASE job[r].app \notin Apps
    <3>1. NextOfImport(r, 1)
      BY <1>7, <2>2 DEF FindApp, CommandRefused
    <3>2. QED BY <1>3, <2>1, <3>1
  <2>3. CASE job[r].app \in Apps
    <3>1. job' = [job EXCEPT ![r].at = "place"]
      BY <1>7, <2>3 DEF FindApp, Goto
    <3>2. /\ job'[r].errors = job[r].errors /\ job'[r].app = job[r].app
          /\ job'[r].left = job[r].left /\ job'[r].at = "place" /\ job'[r].nth = job[r].nth
          /\ DOMAIN job'[r] = DOMAIN job[r]
      BY <1>0, <3>1
    <3>3. ImportJob(job'[r])
      BY <2>1, <3>2 DEF ImportJob, ImportPlaces
    <3>4. \A a \in Apps : Rest(job'[r], a) = Rest(job[r], a)
      BY <2>1, <3>2 DEF Rest
    <3>5. \A a \in Apps : Rest(job[r], a) \in Nat
      BY RestType
    <3>6. QED BY <1>0, <1>1, <2>1, <3>2, <3>3, <3>4, <3>5
  <2>4. QED BY <2>2, <2>3
<1>8. ASSUME ReadPlace(r) PROVE Goal
  <2>1. job[r].at = "place" /\ UNCHANGED commands
    BY <1>8 DEF ReadPlace, At, Quiet, catalog
  <2>2. /\ job'[r].errors = job[r].errors /\ job'[r].app = job[r].app
        /\ job'[r].left = job[r].left /\ job'[r].at = "insert" /\ job'[r].nth = job[r].nth
        /\ DOMAIN job'[r] = DOMAIN job[r]
    BY <1>0, <1>8 DEF ReadPlace
  <2>3. ImportJob(job'[r])
    BY <2>1, <2>2 DEF ImportJob, ImportPlaces
  <2>4. \A a \in Apps : Rest(job'[r], a) = Rest(job[r], a)
    BY <2>1, <2>2 DEF Rest
  <2>5. \A a \in Apps : Rest(job[r], a) \in Nat
    BY RestType
  <2>6. QED BY <1>0, <1>1, <2>1, <2>2, <2>3, <2>4, <2>5
<1>9. ASSUME InsertCommand(r) PROVE Goal
  <2>1. job[r].at = "insert" /\ job[r].left # 0
    BY <1>9 DEF InsertCommand, At, ImportJob
  <2>2. CASE CommandRefused(r, "failed")
    <3>1. NextOfImport(r, 1)
      BY <2>2 DEF CommandRefused
    <3>2. QED BY <1>3, <2>1, <3>1
  <2>3. CASE ~CommandRefused(r, "failed")
    <3>1. /\ commands' = With(commands, born + 1,
                [app |-> job[r].app, place |-> job[r].place, seen |-> job[r].seen,
                 moved |-> FALSE])
          /\ job' = [job EXCEPT ![r].at = "readBack", ![r]["row"] = born + 1]
      BY <1>9, <2>3 DEF InsertCommand, GotoWith
    <3>2. /\ job'[r].errors = job[r].errors /\ job'[r].app = job[r].app
          /\ job'[r].left = job[r].left /\ job'[r].at = "readBack" /\ job'[r].nth = job[r].nth
          /\ DOMAIN job'[r] = DOMAIN job[r]
      BY <1>0, <3>1
    <3>3. ImportJob(job'[r])
      BY <2>1, <3>2 DEF ImportJob, ImportPlaces
    <3>4. /\ born + 1 \notin Commands /\ DOMAIN commands' = Commands \cup {born + 1}
          /\ \A c \in Commands : commands'[c].app = commands[c].app
          /\ commands'[born + 1].app = job[r].app
      BY <3>1 DEF RowInv, Commands, With
    <3>5. ASSUME NEW a \in Apps
          PROVE  Cardinality(Of(a)') + Rest(job'[r], a) >= Cardinality(Of(a)) + Rest(job[r], a)
      <4>1. IsFiniteSet(Of(a)) /\ Cardinality(Of(a)) \in Nat
        BY OfFinite
      <4>2. CASE a = job[r].app
        <5>1. Of(a)' = Of(a) \cup {born + 1} /\ born + 1 \notin Of(a)
          BY <3>4, <4>2 DEF Of, Commands
        <5>2. Cardinality(Of(a)') = Cardinality(Of(a)) + 1
          BY <4>1, <5>1, FS_AddElement
        <5>3. Rest(job[r], a) = job[r].left /\ Rest(job'[r], a) = job[r].left - 1
          BY <2>1, <3>2, <4>2 DEF Rest
        <5>4. QED BY <1>0, <4>1, <5>2, <5>3
      <4>3. CASE a # job[r].app
        <5>1. Of(a)' = Of(a)
          BY <3>4, <4>3 DEF Of, Commands
        <5>2. Rest(job[r], a) = 0 /\ Rest(job'[r], a) = 0
          BY <3>2, <4>3 DEF Rest
        <5>3. QED BY <4>1, <5>1, <5>2
      <4>4. QED BY <4>2, <4>3
    <3>6. QED BY <1>0, <3>2, <3>3, <3>5
  <2>4. QED BY <2>2, <2>3
<1>10. ASSUME ImportCommand(r) PROVE Goal
  <2>1. job[r].at = "readBack" /\ UNCHANGED commands /\ job[r].left # 0
    BY <1>10 DEF ImportCommand, At, Quiet, catalog, ImportJob
  <2>2. CASE job[r].row \notin Commands
    <3>1. NextOfImport(r, 1)
      BY <1>10, <2>2 DEF ImportCommand
    <3>2. QED BY <1>3, <2>1, <3>1
  <2>3. CASE job[r].row \in Commands
    <3>1. NextOfImport(r, 0)
      BY <1>10, <2>3 DEF ImportCommand
    <3>2. /\ ImportJob(job'[r]) /\ job'[r].errors = job[r].errors /\ job'[r].app = job[r].app
          /\ job'[r].at = IF job[r].left <= 1 THEN "look" ELSE "app"
          /\ job[r].left > 1 => job'[r].left = job[r].left - 1
      BY <1>0, <2>1, <3>1, NextKeeps
    <3>3. \A a \in Apps : Rest(job'[r], a) = Rest(job[r], a)
      <4>1. CASE job[r].left = 1
        BY <2>1, <3>2, <4>1 DEF Rest
      <4>2. CASE job[r].left > 1
        BY <1>0, <2>1, <3>2, <4>2 DEF Rest
      <4>3. QED BY <1>0, <2>1, <4>1, <4>2
    <3>4. \A a \in Apps : Rest(job[r], a) \in Nat
      BY RestType
    <3>5. QED BY <1>0, <1>1, <2>1, <3>2, <3>3, <3>4
  <2>4. QED BY <2>2, <2>3
<1>11. ~(CreateApp(r) \/ ReadRow(r) \/ ReadBack(r) \/ ReadApp(r) \/ WriteApp(r)
         \/ RegenerateToken(r) \/ EraseHistory(r) \/ DeleteApp(r) \/ UpdateCommand(r))
  BY DEF CreateApp, ReadRow, ReadBack, ReadApp, WriteApp, RegenerateToken, EraseHistory,
         DeleteApp, UpdateCommand, At
<1>12. ~(LookForCommand(r) \/ DeleteCommand(r) \/ ReorderCommands(r) \/ CheckToken(r)
         \/ FindCommand(r) \/ InsertExecution(r) \/ ListApps(r) \/ ExportCommands(r))
  BY DEF LookForCommand, DeleteCommand, ReorderCommands, CheckToken, FindCommand,
         InsertExecution, ListApps, ExportCommands, At
<1> HIDE DEF Goal
<1>13. Goal
  BY <1>4, <1>5, <1>6, <1>7, <1>8, <1>9, <1>10, <1>11, <1>12 DEF CatalogStep
<1>14. QED BY <1>13 DEF Goal

\* What a step of r does to the applications.
AppFacts(r) ==
  \A a \in DOMAIN apps' :
    \/ /\ a \in Apps /\ DOMAIN apps'[a] = DOMAIN apps[a]
       /\ apps'[a].by = apps[a].by /\ apps'[a].due = apps[a].due
       /\ apps[a].cut => apps'[a].cut
       /\ apps'[a].cut \/ Of(a) \subseteq Of(a)'
    \/ /\ a = born + 1 /\ apps'[a].by = r /\ {"by", "due"} \subseteq DOMAIN apps'[a]
       /\ \/ CreateApp(r) /\ apps'[a].due = 0 /\ job'[r].row = a /\ job'[r].at = "readBack"
          \/ /\ ImportApp(r) /\ job'[r].app = a /\ job'[r].at = "created"
             /\ job'[r].nth = job[r].nth /\ apps'[a].due = Backup[job[r].nth].commands

LEMMA AppsStep ==
  ASSUME NEW r \in Requests, JobInv, RowInv, RowInv', AppInv, CatalogStep(r)
  PROVE  AppFacts(r)
<1>0. /\ DOMAIN job = Requests /\ {"op", "at"} \subseteq DOMAIN job[r]
      /\ job[r].op = "import" => {"app", "nth"} \subseteq DOMAIN job[r]
      /\ job[r].op = "createApp" => "row" \in DOMAIN job[r]
      /\ \A a \in Apps : {"name", "token", "cut", "by", "due"} \subseteq DOMAIN apps[a]
      /\ \A c \in Commands : "app" \in DOMAIN commands[c]
      /\ born \in Nat /\ born + 1 \notin Apps /\ born + 1 \notin Commands
  BY DEF JobInv, JobShape, Locals, Inserters, ImportJob, AppInv, RowInv
<1>1. ASSUME UNCHANGED apps, \A a \in Apps : Of(a) \subseteq Of(a)' PROVE AppFacts(r)
  BY <1>1 DEF AppFacts, Apps
<1>2. ASSUME UNCHANGED <<apps, commands>> PROVE AppFacts(r)
  BY <1>1, <1>2 DEF Of, Commands
<1>3. CASE CreateApp(r)
  <2>1. CASE Named(job[r].name) # {}
    BY <1>2, <1>3, <2>1 DEF CreateApp, catalog
  <2>2. CASE Named(job[r].name) = {}
    <3>1. /\ InsertApp(r, job[r].name, 0)
          /\ job' = [job EXCEPT ![r].at = "readBack", ![r]["row"] = born + 1]
          /\ job[r].op = "createApp"
      BY <1>3, <2>2 DEF CreateApp, GotoWith, At
    <3>2. /\ DOMAIN apps' = Apps \cup {born + 1}
          /\ \A a \in Apps : apps'[a] = apps[a]
          /\ apps'[born + 1] = [name |-> job[r].name, token |-> born + 1, by |-> r,
                                due |-> 0, cut |-> FALSE]
          /\ UNCHANGED commands
      BY <1>0, <3>1 DEF InsertApp, With, Apps
    <3>3. job'[r].at = "readBack" /\ job'[r].row = born + 1
      BY <1>0, <3>1
    <3>4. \A a : Of(a)' = Of(a)
      BY <3>2 DEF Of, Commands
    <3>5. QED BY <1>3, <3>2, <3>3, <3>4 DEF AppFacts
  <2>3. QED BY <2>1, <2>2
<1>4. CASE ImportApp(r)
  <2> DEFINE one == Backup[job[r].nth]
  <2>1. CASE Named(one.name) # {}
    BY <1>2, <1>4, <2>1 DEF ImportApp, catalog
  <2>2. CASE Named(one.name) = {}
    <3>1. /\ InsertApp(r, one.name, one.commands)
          /\ job' = [job EXCEPT ![r].at = "created", ![r]["app"] = born + 1]
          /\ job[r].op = "import"
      BY <1>4, <2>2 DEF ImportApp, GotoWith, At
    <3>2. /\ DOMAIN apps' = Apps \cup {born + 1}
          /\ \A a \in Apps : apps'[a] = apps[a]
          /\ apps'[born + 1] = [name |-> one.name, token |-> born + 1, by |-> r,
                                due |-> one.commands, cut |-> FALSE]
          /\ UNCHANGED commands
      BY <1>0, <3>1 DEF InsertApp, With, Apps
    <3>3. job'[r].at = "created" /\ job'[r].app = born + 1 /\ job'[r].nth = job[r].nth
      BY <1>0, <3>1
    <3>4. \A a : Of(a)' = Of(a)
      BY <3>2 DEF Of, Commands
    <3>5. QED BY <1>4, <3>2, <3>3, <3>4 DEF AppFacts
  <2>3. QED BY <2>1, <2>2
<1>5. CASE WriteApp(r)
  <2>1. UNCHANGED commands /\ DOMAIN apps' = Apps
    BY <1>5 DEF WriteApp, Apps
  <2>2. \A a \in Apps : /\ DOMAIN apps'[a] = DOMAIN apps[a]
                        /\ apps'[a].by = apps[a].by /\ apps'[a].due = apps[a].due
                        /\ apps'[a].cut = apps[a].cut
    BY <1>0, <1>5 DEF WriteApp, Apps, Written
  <2>3. \A a : Of(a)' = Of(a)
    BY <2>1 DEF Of, Commands
  <2>4. QED BY <2>1, <2>2, <2>3, Zenon DEF AppFacts
<1>6. CASE RegenerateToken(r)
  <2>1. UNCHANGED commands /\ DOMAIN apps' = Apps
    BY <1>6 DEF RegenerateToken, Apps
  <2>2. \A a \in Apps : /\ DOMAIN apps'[a] = DOMAIN apps[a]
                        /\ apps'[a].by = apps[a].by /\ apps'[a].due = apps[a].due
                        /\ apps'[a].cut = apps[a].cut
    BY <1>0, <1>6 DEF RegenerateToken, Apps
  <2>3. \A a : Of(a)' = Of(a)
    BY <2>1 DEF Of, Commands
  <2>4. QED BY <2>1, <2>2, <2>3, Zenon DEF AppFacts
<1>7. CASE DeleteApp(r)
  <2>1. CASE UNCHANGED <<apps, commands>>
    BY <1>2, <2>1
  <2>2. CASE ~UNCHANGED <<apps, commands>>
    <3>1. apps' = Without(apps, {job[r].row}) /\ commands' = Without(commands, Of(job[r].row))
      BY <1>7, <2>2 DEF DeleteApp
    <3>2. /\ DOMAIN apps' = Apps \ {job[r].row}
          /\ \A a \in DOMAIN apps' : apps'[a] = apps[a]
          /\ DOMAIN commands' = Commands \ Of(job[r].row)
          /\ \A c \in DOMAIN commands' : commands'[c] = commands[c]
      BY <3>1 DEF Without, Restrict, Apps, Commands
    <3>3. \A a \in DOMAIN apps' : Of(a) \subseteq Of(a)'
      BY <3>2 DEF Of, Commands
    <3>4. QED BY <3>2, <3>3, Zenon DEF AppFacts
  <2>3. QED BY <2>1, <2>2
<1>8. CASE DeleteCommand(r)
  <2>1. CASE UNCHANGED <<apps, commands>>
    BY <1>2, <2>1
  <2>2. CASE ~UNCHANGED <<apps, commands>>
    <3> DEFINE c == job[r].row
    <3>1. /\ c \in Commands /\ commands' = Without(commands, {c})
          /\ apps' = [apps EXCEPT ![commands[c].app].cut = TRUE]
      BY <1>8, <2>2 DEF DeleteCommand
    <3>2. /\ DOMAIN apps' = Apps
          /\ DOMAIN commands' = Commands \ {c}
          /\ \A d \in DOMAIN commands' : commands'[d] = commands[d]
      BY <3>1 DEF Without, Restrict, Apps, Commands
    <3>3. \A a \in Apps : /\ DOMAIN apps'[a] = DOMAIN apps[a]
                          /\ apps'[a].by = apps[a].by /\ apps'[a].due = apps[a].due
                          /\ a # commands[c].app => apps'[a].cut = apps[a].cut
      BY <1>0, <3>1 DEF Apps
    <3>4. \A a \in Apps : a = commands[c].app => apps'[a].cut
      BY <1>0, <3>1 DEF Apps
    <3>5. \A a \in Apps : a # commands[c].app => Of(a) \subseteq Of(a)'
      BY <3>2 DEF Of, Commands
    <3> HIDE DEF c
    <3>6. QED BY <3>2, <3>3, <3>4, <3>5, Zenon DEF AppFacts
  <2>3. QED BY <2>1, <2>2
<1>9. CASE InsertCommand(r)
  <2>1. CASE UNCHANGED commands
    BY <1>2, <1>9, <2>1 DEF InsertCommand
  <2>2. CASE ~UNCHANGED commands
    <3>1. \E row : commands' = With(commands, born + 1, row)
      BY <1>9, <2>2 DEF InsertCommand
    <3>2. /\ Commands \subseteq DOMAIN commands'
          /\ \A c \in Commands : commands'[c] = commands[c]
      BY <1>0, <3>1 DEF With, Commands
    <3>3. \A a : Of(a) \subseteq Of(a)'
      BY <3>2 DEF Of, Commands
    <3>4. QED BY <1>1, <1>9, <3>3 DEF InsertCommand
  <2>3. QED BY <2>1, <2>2
<1>10. CASE ReorderCommands(r)
  <2>1. CASE UNCHANGED commands
    BY <1>2, <1>10, <2>1 DEF ReorderCommands
  <2>2. CASE ~UNCHANGED commands
    <3> DEFINE list == job[r].list
               at(c) == Inverse(list, DOMAIN list, Range(list))[c]
    <3>1. commands' = [c \in Commands |->
               IF c \in Range(list)
               THEN [commands[c] EXCEPT !.place = at(c) - 1, !.moved = TRUE]
               ELSE commands[c]]
      BY <1>10, <2>2 DEF ReorderCommands
    <3> HIDE DEF list, at
    <3>2. DOMAIN commands' = Commands /\ \A c \in Commands : commands'[c].app = commands[c].app
      BY <1>0, <3>1
    <3>3. \A a : Of(a)' = Of(a)
      BY <3>2 DEF Of, Commands
    <3>4. QED BY <1>1, <1>10, <3>3 DEF ReorderCommands
  <2>3. QED BY <2>1, <2>2
<1>11. CASE EraseHistory(r) \/ InsertExecution(r)
  BY <1>2, <1>11 DEF EraseHistory, InsertExecution
<1>12. CASE UNCHANGED catalog
  BY <1>2, <1>12 DEF catalog
<1>13. QED
  BY <1>3, <1>4, <1>5, <1>6, <1>7, <1>8, <1>9, <1>10, <1>11, <1>12
     DEF CatalogStep, CatalogArrives, ReadRow, ReadBack, ReadApp, FindApp, ReadPlace,
         UpdateCommand, LookForCommand, CheckToken, FindCommand, ListApps, ExportCommands,
         ImportLook, ImportCreated, ImportCommand, Quiet

\* What the step is for the request of r.
MakerGoes(r) ==
  \/ /\ job[r] = Idle /\ UNCHANGED catalog
     /\ job'[r].op = "import" => ImportJob(job'[r])
     /\ job'[r].op = "createApp" => "row" \in DOMAIN job'[r]
  \/ /\ GoesOn(r) /\ job[r].at # "lost"
     /\ job[r].op = "import" =>
          /\ ImportJob(job'[r]) /\ job'[r].errors >= job[r].errors
          /\ \/ job'[r].errors > 0
             \/ \A a \in Apps : Cardinality(Of(a)') + Rest(job'[r], a)
                                  >= Cardinality(Of(a)) + Rest(job[r], a)
     /\ job[r].op = "createApp" =>
          \A a \in Apps : MakerAt(job[r], a) => MakerAt(job'[r], a) \/ a \notin DOMAIN apps'

LEMMA MakersStep ==
  ASSUME NEW r \in Requests, JobInv, LinkInv, RowInv, RowInv', AppInv,
         Catalogs(r) \/ FilesOf(r) \/ Containing(r) \/ Logging(r)
  PROVE  MakerGoes(r)
<1>0. /\ DOMAIN job = Requests /\ {"op", "at"} \subseteq DOMAIN job[r]
      /\ job[r].op = "createApp" => "row" \in DOMAIN job[r]
      /\ job[r].op = "import" => /\ {"op", "at", "app", "nth", "left", "errors"} \subseteq DOMAIN job[r]
                                 /\ ImportJob(job[r])
  BY DEF JobInv, JobShape, Locals, Inserters, ImportJob, AppInv
<1>1. ASSUME NEW q, Receive(r, q), UNCHANGED catalog,
             q.op = "import" => ImportJob(q), q.op = "createApp" => "row" \in DOMAIN q
      PROVE  MakerGoes(r)
  BY <1>0, <1>1 DEF Receive, MakerGoes
<1>2. ASSUME GoesOn(r), Goes(r), job[r].op \notin {"import", "createApp"}
      PROVE  MakerGoes(r)
  BY <1>2 DEF MakerGoes, Goes
<1>3. CASE Catalogs(r) /\ CatalogArrives(r)
  <2>1. PICK q \in CatalogRequests : Receive(r, q) /\ UNCHANGED catalog
    BY <1>3 DEF CatalogArrives, Quiet
  <2>2. q.op = "createApp" => "row" \in DOMAIN q
    BY DEF CatalogRequests
  <2>3. QED BY <1>1, <2>1, <2>2, ImportFresh
<1>4. CASE FilesOf(r) /\ FileArrives(r)
  <2>1. PICK q \in FileRequests : Receive(r, q)
    BY <1>4 DEF FileArrives
  <2>2. q.op \notin {"import", "createApp"}
    BY DEF FileRequests
  <2>3. UNCHANGED catalog
    BY <1>4 DEF FilesOf
  <2>4. QED BY <1>1, <2>1, <2>2, <2>3
<1>5. CASE Containing(r) /\ ContainerArrives(r)
  <2>1. PICK q \in ContainerRequests : Receive(r, q)
    BY <1>5 DEF ContainerArrives
  <2>2. q.op \notin {"import", "createApp"}
    BY DEF ContainerRequests, Shell
  <2>3. UNCHANGED catalog
    BY <1>5 DEF Containing
  <2>4. QED BY <1>1, <2>1, <2>2, <2>3
<1>6. CASE FilesOf(r) /\ ~FileArrives(r)
  <2>1. GoesOn(r) /\ Goes(r) /\ job[r].op \notin {"import", "createApp"}
    BY <1>6, FileMoves DEF FilesOf, Inserters
  <2>2. QED BY <1>2, <2>1
<1>7. CASE Containing(r) /\ ~ContainerArrives(r)
  <2>1. GoesOn(r) /\ Goes(r) /\ job[r].op \notin {"import", "createApp"}
    BY <1>7, ContainerMoves DEF Containing, Inserters, Makers
  <2>2. QED BY <1>2, <2>1
<1>8. CASE Catalogs(r) /\ ~CatalogArrives(r)
  <2>1. CatalogStep(r) /\ GoesOn(r) /\ Goes(r)
    BY <1>8, CatalogMoves DEF Catalogs
  <2>2. CASE job[r].op = "import"
    <3>1. /\ ImportJob(job'[r]) /\ job'[r].errors >= job[r].errors
          /\ \/ job'[r].errors > 0
             \/ \A a \in Apps : Cardinality(Of(a)') + Rest(job'[r], a)
                                  >= Cardinality(Of(a)) + Rest(job[r], a)
      BY <1>0, <1>8, <2>1, <2>2, ImportSteps
    <3>2. QED BY <2>1, <2>2, <3>1 DEF MakerGoes, Goes
  <2>3. CASE job[r].op = "createApp"
    <3>1. CASE CreateApp(r)
      <4>1. job[r].at = "insert"
        BY <3>1 DEF CreateApp, At
      <4>2. \A a \in Apps : ~MakerAt(job[r], a)
        BY <2>3, <4>1 DEF MakerAt
      <4>3. QED BY <2>1, <2>3, <4>2 DEF MakerGoes, Goes
    <3>2. CASE ReadBack(r)
      <4>1. ASSUME NEW a \in Apps, MakerAt(job[r], a) PROVE MakerAt(job'[r], a)
        <5>1. job[r].row = a
          BY <2>3, <4>1 DEF MakerAt
        <5>2. job' = [job EXCEPT ![r].at = "log"]
          BY <3>2, <4>1, <5>1 DEF ReadBack, Goto
        <5>3. job'[r].op = "createApp" /\ job'[r].row = a /\ job'[r].at = "log"
          BY <1>0, <2>3, <5>1, <5>2
        <5>4. QED BY <5>3 DEF MakerAt
      <4>2. QED BY <2>1, <2>3, <4>1 DEF MakerGoes, Goes
    <3>3. CreateApp(r) \/ ReadBack(r)
      <4>1. ~(ReadRow(r) \/ ReadApp(r) \/ WriteApp(r) \/ RegenerateToken(r)
              \/ EraseHistory(r) \/ DeleteApp(r) \/ FindApp(r) \/ ReadPlace(r)
              \/ InsertCommand(r) \/ UpdateCommand(r) \/ LookForCommand(r))
        BY <2>3 DEF ReadRow, ReadApp, WriteApp, RegenerateToken, EraseHistory, DeleteApp,
           FindApp, ReadPlace, InsertCommand, UpdateCommand, LookForCommand, At
      <4>2. ~(DeleteCommand(r) \/ ReorderCommands(r) \/ CheckToken(r)
              \/ FindCommand(r) \/ InsertExecution(r) \/ ListApps(r) \/ ExportCommands(r)
              \/ ImportLook(r) \/ ImportApp(r) \/ ImportCreated(r) \/ ImportCommand(r))
        BY <2>3 DEF DeleteCommand, ReorderCommands, CheckToken, FindCommand, InsertExecution,
           ListApps, ExportCommands, ImportLook, ImportApp, ImportCreated, ImportCommand, At
      <4>3. QED BY <1>8, <2>1, <4>1, <4>2 DEF CatalogStep
    <3>4. QED BY <3>1, <3>2, <3>3
  <2>4. QED BY <1>2, <2>1, <2>2, <2>3
<1>9. CASE Logging(r)
  <2>1. /\ job' = [job EXCEPT ![r].at = IF job[r].at = "log" THEN "ok" ELSE "panicked"]
        /\ UNCHANGED catalog /\ job[r].at \in {"log", "logNil"}
    BY <1>9 DEF Logging, LogAndAnswer, Goto, catalog
  <2>2. /\ DOMAIN job'[r] = DOMAIN job[r] /\ job'[r].at \in {"ok", "panicked"}
        /\ job[r].at = "log" => job'[r].at = "ok"
        /\ \A x \in DOMAIN job[r] : x # "at" => job'[r][x] = job[r][x]
    BY <1>0, <2>1
  <2>3. GoesOn(r)
    <3>1. {"op", "at"} \subseteq DOMAIN job[r] /\ JobShape(job[r])
      BY <1>0 DEF JobInv
    <3>2. QED BY <2>2, <3>1 DEF GoesOn, JobShape, Locals
  <2>l. job[r].op = "import" => job[r].at = "log" /\ job'[r].at = "ok"
    <3>1. job[r].op = "import" => job[r].at \in ImportPlaces
      BY <1>0 DEF ImportJob
    <3>2. "logNil" \notin ImportPlaces
      BY DEF ImportPlaces
    <3>3. QED BY <2>1, <2>2, <3>1, <3>2
  <2>4. job[r].op = "import" =>
          /\ ImportJob(job'[r]) /\ job'[r].errors = job[r].errors
          /\ job'[r].app = job[r].app
    BY <1>0, <2>2, <2>l DEF ImportJob, ImportPlaces
  <2>5. job[r].op = "import" => \A a : Rest(job'[r], a) = 0 /\ Rest(job[r], a) = 0
    BY <2>1, <2>2 DEF Rest
  <2>6. \A a : Of(a)' = Of(a)
    BY <2>1 DEF Of, Commands, catalog
  <2>7. job[r].op = "import" =>
          \A a \in Apps : Cardinality(Of(a)') + Rest(job'[r], a)
                            >= Cardinality(Of(a)) + Rest(job[r], a)
    <3>1. \A a : Cardinality(Of(a)) \in Nat
      BY OfFinite
    <3>2. QED BY <2>5, <2>6, <3>1
  <2>8. job[r].op = "createApp" =>
          \A a \in Apps : MakerAt(job[r], a) => MakerAt(job'[r], a)
    <3>1. ASSUME job[r].op = "createApp", NEW a \in Apps, MakerAt(job[r], a)
          PROVE  MakerAt(job'[r], a)
      <4>1. job[r].row = a /\ job[r].at = "log"
        BY <2>1, <3>1 DEF MakerAt
      <4>2. /\ job'[r].op = "createApp" /\ job'[r].row = a /\ job'[r].at = "ok"
        BY <1>0, <2>2, <3>1, <4>1
      <4>3. QED BY <4>2 DEF MakerAt
    <3>2. QED BY <3>1
  <2>9. job[r].op = "import" => job'[r].errors >= job[r].errors
    BY <1>0, <2>4 DEF ImportJob
  <2>10. QED BY <2>1, <2>3, <2>4, <2>7, <2>8, <2>9 DEF MakerGoes
<1>10. QED BY <1>3, <1>4, <1>5, <1>6, <1>7, <1>8, <1>9

\* A request that another one stops is lost, and otherwise where it was.
LEMMA OthersKept ==
  ASSUME NEW r \in Requests, NEW q \in Requests \ {r}, JobInv, AppInv, Keeps(r)
  PROVE  /\ job'[q].op = job[q].op
         /\ job[q].op \in {"import", "createApp"} =>
              job'[q] = job[q] \/ (UNCHANGED catalog /\ job'[q] = [job[q] EXCEPT !.at = "lost"])
         /\ job[q].op = "import" => ImportJob(job'[q])
         /\ job[q].op = "createApp" => "row" \in DOMAIN job'[q]
<1>0. /\ {"op", "at"} \subseteq DOMAIN job[q]
      /\ job[q].op = "createApp" => "row" \in DOMAIN job[q]
      /\ job[q].op = "import" => ImportJob(job[q])
  BY DEF JobInv, JobShape, Locals, AppInv
<1>1. CASE job'[q] = job[q]
  BY <1>0, <1>1
<1>2. CASE job'[q] # job[q]
  <2>1. /\ UNCHANGED catalog /\ job'[q].op = job[q].op
        /\ job[q].op \in {"import", "createApp"} => job'[q] = [job[q] EXCEPT !.at = "lost"]
    BY <1>2 DEF Keeps, Inserters
  <2>2. job[q].op = "import" => ImportJob(job'[q])
    BY <1>0, <2>1 DEF ImportJob, ImportPlaces
  <2>3. job[q].op = "createApp" => "row" \in DOMAIN job'[q]
    BY <1>0, <2>1
  <2>4. QED BY <2>1, <2>2, <2>3
<1>3. QED BY <1>1, <1>2

LEMMA AppKept ==
  ASSUME NEW r \in Requests, JobInv, RowInv, RowInv', AppInv, Keeps(r), AppFacts(r),
         MakerGoes(r)
  PROVE  AppInv'
<1>1. ASSUME NEW q \in Requests
      PROVE  /\ job'[q].op = "import" => ImportJob(job'[q])
             /\ job'[q].op = "createApp" => "row" \in DOMAIN job'[q]
  <2>1. CASE q = r
    BY <2>1 DEF MakerGoes, GoesOn, AppInv
  <2>2. CASE q # r
    BY <2>2, OthersKept
  <2>3. QED BY <2>1, <2>2
<1>2. ASSUME NEW a \in DOMAIN apps'
      PROVE  /\ {"by", "due"} \subseteq DOMAIN apps'[a] /\ apps'[a].due \in Nat
             /\ apps'[a].by \in Requests => MakerAt(job'[apps'[a].by], a)
             /\ apps'[a].due # 0 => /\ apps'[a].by \in Requests
                                    /\ job'[apps'[a].by].op = "import"
                                    /\ Accounted(a)'
  <2>1. CASE /\ a = born + 1 /\ apps'[a].by = r /\ {"by", "due"} \subseteq DOMAIN apps'[a]
             /\ CreateApp(r) /\ apps'[a].due = 0 /\ job'[r].row = a /\ job'[r].at = "readBack"
    <3>1. job'[r].op = "createApp"
      BY <2>1 DEF CreateApp, At, MakerGoes, GoesOn, Idle
    <3>2. QED BY <2>1, <3>1 DEF MakerAt
  <2>2. CASE /\ a = born + 1 /\ apps'[a].by = r /\ {"by", "due"} \subseteq DOMAIN apps'[a]
             /\ ImportApp(r) /\ job'[r].app = a /\ job'[r].at = "created"
             /\ job'[r].nth = job[r].nth /\ apps'[a].due = Backup[job[r].nth].commands
    <3>1. job'[r].op = "import" /\ job[r].op = "import" /\ job[r].at = "create"
      BY <2>2 DEF ImportApp, At, MakerGoes, GoesOn, Idle
    <3>2. Backup[job[r].nth].commands \in Nat
      BY <3>1, BackupType DEF AppInv, ImportJob
    <3>3. Rest(job'[r], a) = apps'[a].due
      BY <2>2 DEF Rest
    <3>4. Cardinality(Of(a)') \in Nat
      <4>1. Of(a)' = {c \in DOMAIN commands' : commands'[c].app = a}
        BY DEF Of, Commands
      <4>2. DOMAIN commands' \subseteq 1..born' /\ born' \in Nat
        BY DEF RowInv, Commands
      <4>3. IsFiniteSet(Of(a)')
        <5>1. IsFiniteSet(1..born')
          BY <4>2, FS_Interval
        <5>2. Of(a)' \subseteq 1..born'
          BY <4>1, <4>2
        <5>3. QED BY <5>1, <5>2, FS_Subset
      <4>4. QED BY <4>3, FS_CardinalityType
    <3>5. Cardinality(Of(a)') + Rest(job'[r], a) >= apps'[a].due
      BY <2>2, <3>2, <3>3, <3>4
    <3>6. Accounted(a)'
      BY <2>2, <3>5 DEF Accounted
    <3>7. QED BY <2>2, <3>1, <3>2, <3>6 DEF MakerAt
  <2>3. CASE /\ a \in Apps /\ DOMAIN apps'[a] = DOMAIN apps[a]
             /\ apps'[a].by = apps[a].by /\ apps'[a].due = apps[a].due
             /\ apps[a].cut => apps'[a].cut
             /\ apps'[a].cut \/ Of(a) \subseteq Of(a)'
    <3> DEFINE q == apps[a].by
    <3>1. /\ {"by", "due"} \subseteq DOMAIN apps'[a] /\ apps'[a].due \in Nat
          /\ apps'[a].by = q
      BY <2>3 DEF AppInv
    <3>2. /\ q \in Requests => MakerAt(job[q], a)
          /\ apps[a].due # 0 => q \in Requests /\ job[q].op = "import" /\ Accounted(a)
      BY <2>3 DEF AppInv
    <3>3. ASSUME q \in Requests PROVE MakerAt(job'[q], a) /\ job'[q].op = job[q].op
      <4>1. CASE q = r
        <5>1. GoesOn(r)
          BY <3>2, <3>3, <4>1 DEF MakerGoes, Idle, MakerAt
        <5>2. CASE job[r].op = "import"
          BY <4>1, <5>1, <5>2 DEF GoesOn, MakerAt
        <5>3. CASE job[r].op = "createApp"
          <6>1. MakerAt(job[r], a) => MakerAt(job'[r], a) \/ a \notin DOMAIN apps'
            BY <2>3, <5>3 DEF MakerGoes, Idle
          <6>2. QED BY <3>2, <3>3, <4>1, <5>1, <6>1 DEF GoesOn
        <5>4. QED BY <3>2, <3>3, <4>1, <5>2, <5>3 DEF MakerAt
      <4>2. CASE q # r
        <5>1. q \in Requests \ {r}
          BY <3>3, <4>2
        <5>2. /\ job'[q].op = job[q].op
              /\ job[q].op \in {"import", "createApp"} =>
                   job'[q] = job[q] \/ job'[q] = [job[q] EXCEPT !.at = "lost"]
          BY <5>1, OthersKept
        <5>3. {"op", "at"} \subseteq DOMAIN job[q] /\ (job[q].op = "createApp" => "row" \in DOMAIN job[q])
          BY <3>3 DEF JobInv, JobShape, Locals, AppInv
        <5>4. QED BY <3>2, <3>3, <5>2, <5>3 DEF MakerAt
      <4>3. QED BY <4>1, <4>2
    <3>4. ASSUME apps[a].due # 0 PROVE Accounted(a)'
      <4>0. q \in Requests /\ job[q].op = "import" /\ job'[q].op = "import"
        BY <3>2, <3>3, <3>4
      <4>i. ImportJob(job[q]) /\ ImportJob(job'[q])
        BY <1>1, <4>0 DEF AppInv
      <4>1. CASE apps'[a].cut
        BY <4>1 DEF Accounted
      <4>2. CASE ~apps'[a].cut
        <5>1. ~apps[a].cut /\ Of(a) \subseteq Of(a)'
          BY <2>3, <4>2, Zenon
        <5>2. job[q].at = "lost" \/ job[q].errors > 0
                \/ Cardinality(Of(a)) + Rest(job[q], a) >= apps[a].due
          BY <3>2, <3>4, <5>1 DEF Accounted
        <5> DEFINE was == Cardinality(Of(a))
                   is == Cardinality(Of(a)')
        <5>3. was \in Nat /\ is \in Nat /\ was <= is
          <6>1. DOMAIN commands' \subseteq 1..born' /\ born' \in Nat
            BY DEF RowInv, Commands
          <6>2. Of(a)' \subseteq 1..born'
            BY <6>1 DEF Of, Commands
          <6>3. IsFiniteSet(Of(a)')
            <7>1. IsFiniteSet(1..born')
              BY <6>1, FS_Interval
            <7>2. QED BY <6>2, <7>1, FS_Subset
          <6>4. QED BY <5>1, <6>3, FS_Subset, FS_CardinalityType
        <5> HIDE DEF was, is
        <5>4. CASE q = r
          <6>1. /\ job[r].at # "lost" /\ job'[r].errors >= job[r].errors
                /\ \/ job'[r].errors > 0
                   \/ is + Rest(job'[r], a) >= was + Rest(job[r], a)
            BY <2>3, <4>0, <5>4 DEF MakerGoes, Idle, was, is
          <6>2. Rest(job'[r], a) \in Nat /\ Rest(job[r], a) \in Nat
                /\ job'[r].errors \in Nat /\ job[r].errors \in Nat
            BY <4>i, <5>4, RestType DEF ImportJob
          <6>3. apps[a].due \in Nat
            BY <2>3, <3>1
          <6>4. job[r].errors > 0 \/ was + Rest(job[r], a) >= apps[a].due
            BY <5>2, <5>4, <6>1 DEF was
          <6>5. job'[r].errors > 0 \/ is + Rest(job'[r], a) >= apps[a].due
            BY <5>3, <6>1, <6>2, <6>3, <6>4
          <6>6. QED BY <2>3, <5>4, <6>5 DEF Accounted, is
        <5>5. CASE q # r
          <6>1. job'[q] = job[q] \/ job'[q] = [job[q] EXCEPT !.at = "lost"]
            BY <4>0, <5>5, OthersKept
          <6>2. CASE job'[q] = job[q]
            <7>1. Rest(job[q], a) \in Nat /\ apps[a].due \in Nat
              BY <2>3, <3>1, <4>i, RestType
            <7>2. was + Rest(job[q], a) >= apps[a].due => is + Rest(job[q], a) >= apps[a].due
              BY <5>3, <7>1
            <7>3. QED BY <2>3, <5>2, <6>2, <7>2 DEF Accounted, was, is
          <6>3. CASE job'[q] = [job[q] EXCEPT !.at = "lost"]
            <7>1. "at" \in DOMAIN job[q]
              BY <4>0 DEF JobInv, JobShape, Locals
            <7>2. QED BY <2>3, <6>3, <7>1 DEF Accounted
          <6>4. QED BY <6>1, <6>2, <6>3
        <5>6. QED BY <5>4, <5>5
      <4>3. QED BY <4>1, <4>2
    <3>5. QED BY <2>3, <3>1, <3>2, <3>3, <3>4
  <2>4. QED BY <2>1, <2>2, <2>3 DEF AppFacts
<1>3. QED BY <1>1, <1>2 DEF AppInv, Apps

-----------------------------------------------------------------------------
(* What requests have made, and the audit log.                             *)

Inodes == [dir : BOOLEAN, by : Requests \cup {"earlier"}]

\* Where the request is that has made a file or written to it: past its checks.
FileMakerAt(j) ==
  /\ j.op \in FileMakers
  /\ j.at \in {"write", "info", "log", "logNil", "ok", "failed", "panicked", "lost"}

MadeInv ==
  /\ inode \in Seq(Inodes)
  /\ \A p \in Paths : link[p].to \in 0..Len(inode)
  /\ \A i \in 1..Len(inode) :
       inode[i].by \in Requests => FileMakerAt(job[inode[i].by])

\* An entry is the last thing a request leaves, once.
TrailInv ==
  /\ trail \in [Requests -> Nat] /\ staff \in BOOLEAN
  /\ \A r \in Requests :
       /\ job[r].at \notin {"ok", "lost", "panicked"} => trail[r] = 0
       /\ job[r].op \in Makers /\ job[r].at = "ok" /\ staff => trail[r] = 1

\* What a step of r does to the files.
InodeFacts(r) ==
  /\ inode' \in Seq(Inodes)
  /\ \A p \in Paths : link'[p].to \in 0..Len(inode')
  /\ \A i \in 1..Len(inode') :
       \/ i \in 1..Len(inode) /\ inode'[i].by = inode[i].by
       \/ inode'[i].by = r /\ FileMakerAt(job'[r])
  /\ FileMakerAt(job[r]) => FileMakerAt(job'[r])

\* To write to a file is to become the one who has written it last.
LEMMA Stamped ==
  ASSUME NEW r \in Requests, inode \in Seq(Inodes), NEW f,
         NEW s, s = [inode EXCEPT ![f].by = r]
  PROVE  /\ s \in Seq(Inodes) /\ Len(s) = Len(inode)
         /\ \A i \in 1..Len(inode) : s[i].by \in {inode[i].by, r}
<1>1. /\ DOMAIN inode = 1..Len(inode) /\ Len(inode) \in Nat
      /\ \A i \in 1..Len(inode) : inode[i] \in Inodes
  BY LenProperties, ElementOfSeq
<1>2. CASE f \notin 1..Len(inode)
  <2>1. /\ inode = [i \in 1..Len(inode) |-> inode[i]]
        /\ s = [i \in 1..Len(inode) |-> inode[i]]
    BY <1>1, <1>2, LenProperties
  <2>2. s = inode
    BY <2>1
  <2>3. QED BY <2>2
<1>3. CASE f \in 1..Len(inode)
  <2> DEFINE e == [inode[f] EXCEPT !.by = r]
  <2>1. e \in Inodes /\ e.by = r
    BY <1>1, <1>3 DEF Inodes
  <2>2. s = [inode EXCEPT ![f] = e]
    OBVIOUS
  <2> HIDE DEF e
  <2>3. /\ s \in Seq(Inodes) /\ Len(s) = Len(inode)
        /\ \A i \in 1..Len(inode) : s[i] = IF i = f THEN e ELSE inode[i]
    BY <1>3, <2>1, <2>2, ExceptSeq
  <2>4. QED BY <2>1, <2>3
<1>4. QED BY <1>2, <1>3

LEMMA NewInode ==
  ASSUME NEW r \in Requests, NEW p, NEW dir \in BOOLEAN, MadeInv, LinkInv, LinkNew(r, p, dir),
         FileMakerAt(job'[r])
  PROVE  InodeFacts(r)
<1> DEFINE e == [dir |-> dir, by |-> r]
<1>1. e \in Inodes /\ e.by = r
  BY DEF Inodes
<1>2. inode' = Append(inode, e)
  BY DEF LinkNew
<1> HIDE DEF e
<1>3. /\ inode' \in Seq(Inodes) /\ Len(inode') = Len(inode) + 1 /\ Len(inode) \in Nat
      /\ \A i \in 1..Len(inode) : inode'[i] = inode[i]
      /\ inode'[Len(inode) + 1] = e
  BY <1>1, <1>2, AppendProperties, LenProperties DEF MadeInv
<1>4. ASSUME NEW x \in Paths PROVE link'[x].to \in 0..Len(inode')
  <2>1. link'[x] = link[x] \/ link'[x].to = Len(inode) + 1
    BY DEF LinkNew, LinkInv
  <2>2. link[x].to \in 0..Len(inode)
    BY DEF MadeInv
  <2>3. QED BY <1>3, <2>1, <2>2
<1>5. ASSUME NEW i \in 1..Len(inode')
      PROVE  \/ i \in 1..Len(inode) /\ inode'[i].by = inode[i].by
             \/ inode'[i].by = r /\ FileMakerAt(job'[r])
  <2>1. i \in 1..Len(inode) \/ i = Len(inode) + 1
    BY <1>3
  <2>2. QED BY <1>1, <1>3, <2>1
<1>6. QED BY <1>3, <1>4, <1>5 DEF InodeFacts

LEMMA InodeStep ==
  ASSUME NEW r \in Requests, JobInv, LinkInv, MadeInv, FileStep(r), ~FileArrives(r)
  PROVE  InodeFacts(r)
<1>0. /\ DOMAIN job = Requests /\ {"op", "at"} \subseteq DOMAIN job[r]
      /\ Len(inode) \in Nat /\ DOMAIN link = Paths
  BY LenProperties DEF JobInv, JobShape, Locals, LinkInv, MadeInv
<1>1. ASSUME UNCHANGED <<link, inode>>, FileMakerAt(job[r]) => FileMakerAt(job'[r])
      PROVE  InodeFacts(r)
  BY <1>1 DEF InodeFacts, MadeInv
<1>2. ASSUME UNCHANGED inode, FileMakerAt(job[r]) => FileMakerAt(job'[r]),
             \A p \in Paths : link'[p].to \in {0} \cup {link[q].to : q \in Paths}
      PROVE  InodeFacts(r)
  <2>1. ASSUME NEW p \in Paths PROVE link'[p].to \in 0..Len(inode')
    <3>1. \A q \in Paths : link[q].to \in 0..Len(inode)
      BY DEF MadeInv
    <3>2. 0 \in 0..Len(inode)
      BY <1>0
    <3>3. QED BY <1>2, <3>1, <3>2
  <2>2. QED BY <1>2, <2>1 DEF InodeFacts, MadeInv
<1>3. ASSUME NEW f, inode' = [inode EXCEPT ![f].by = r], UNCHANGED link, FileMakerAt(job'[r])
      PROVE  InodeFacts(r)
  <2>1. /\ inode' \in Seq(Inodes) /\ Len(inode') = Len(inode)
        /\ \A i \in 1..Len(inode) : inode'[i].by \in {inode[i].by, r}
    BY <1>3, Stamped DEF MadeInv
  <2>2. QED BY <1>3, <2>1 DEF InodeFacts, MadeInv
<1> USE DEF FileMakerAt, FileMakers, At, Goto, GotoWith
<1>4. CASE StatSource(r) \/ StatDestination(r) \/ StatTarget(r) \/ OpenSource(r)
  <2>1. UNCHANGED <<link, inode>> /\ ~FileMakerAt(job[r])
    BY <1>4 DEF StatSource, StatDestination, StatTarget, OpenSource, OnlyRead, filesystem
  <2>2. QED BY <1>1, <2>1
<1>5. CASE OpenFile(r)
  <2>1. ~FileMakerAt(job[r]) /\ job[r].op \in FileMakers
    BY <1>5 DEF OpenFile
  <2> DEFINE p == job[r].path
  <2>2. CASE ~Exists(p)
    <3>1. LinkNew(r, p, FALSE) /\ job' = [job EXCEPT ![r].at = "write", ![r]["file"] = Len(inode) + 1]
      BY <1>5, <2>2 DEF OpenFile, IsDir
    <3>2. FileMakerAt(job'[r])
      BY <1>0, <2>1, <3>1
    <3>3. QED BY <3>1, <3>2, NewInode
  <2>3. CASE Exists(p) /\ IsDir(p)
    BY <1>1, <1>5, <2>1, <2>3 DEF OpenFile, filesystem
  <2>4. CASE Exists(p) /\ ~IsDir(p)
    <3>1. /\ inode' = [inode EXCEPT ![link[p].to].by = r] /\ UNCHANGED link
          /\ job' = [job EXCEPT ![r].at = "write", ![r]["file"] = link[p].to]
      BY <1>5, <2>4 DEF OpenFile
    <3>2. FileMakerAt(job'[r])
      BY <1>0, <2>1, <3>1
    <3>3. QED BY <1>3, <3>1, <3>2
  <2>5. QED BY <2>2, <2>3, <2>4
<1>6. CASE WriteFile(r)
  <2>1. inode' = [inode EXCEPT ![job[r].file].by = r] /\ UNCHANGED link
    BY <1>6 DEF WriteFile
  <2>2. FileMakerAt(job'[r])
    BY <1>0, <1>6 DEF WriteFile
  <2>3. QED BY <1>3, <2>1, <2>2
<1>7. CASE RemovePath(r)
  <2>1. UNCHANGED inode /\ ~FileMakerAt(job[r])
    BY <1>7 DEF RemovePath
  <2>2. \A p \in Paths : link'[p].to = 0 \/ link'[p].to = link[p].to
    BY <1>0, <1>7 DEF RemovePath, None
  <2>3. QED BY <1>2, <2>1, <2>2
<1>8. CASE MakeDirectory(r)
  <2>1. ~FileMakerAt(job[r]) /\ job[r].op = "mkdir"
    BY <1>8 DEF MakeDirectory
  <2>2. CASE Exists(job[r].path)
    BY <1>1, <1>8, <2>1, <2>2 DEF MakeDirectory, filesystem
  <2>3. CASE ~Exists(job[r].path)
    <3>1. LinkNew(r, job[r].path, TRUE) /\ job' = [job EXCEPT ![r].at = "info"]
      BY <1>8, <2>3 DEF MakeDirectory
    <3>2. FileMakerAt(job'[r])
      BY <1>0, <2>1, <3>1
    <3>3. QED BY <3>1, <3>2, NewInode
  <2>4. QED BY <2>2, <2>3
<1>9. CASE RenamePath(r)
  <2>1. UNCHANGED inode /\ ~FileMakerAt(job[r])
    BY <1>9 DEF RenamePath
  <2>2. CASE UNCHANGED link
    BY <1>1, <2>1, <2>2
  <2>3. CASE ~UNCHANGED link
    <3> DEFINE p == job[r].from
               q == job[r].path
    <3>1. /\ link' = [link EXCEPT ![p] = None, ![q] = [to |-> link[p].to, since |-> moment + 1]]
          /\ Exists(p)
      BY <1>9, <2>3 DEF RenamePath
    <3>2. p \in Paths
      BY <1>9 DEF RenamePath, JobInv
    <3>3. \A x \in Paths : link'[x].to \in {0, link[x].to, link[p].to}
      BY <1>0, <3>1, <3>2 DEF None
    <3>4. QED BY <1>2, <2>1, <3>2, <3>3
  <2>4. QED BY <2>2, <2>3
<1>10. CASE StatWritten(r)
  <2>1. UNCHANGED <<link, inode>>
    BY <1>10 DEF StatWritten, OnlyRead, filesystem
  <2>2. FileMakerAt(job[r]) => FileMakerAt(job'[r])
    BY <1>0, <1>10 DEF StatWritten
  <2>3. QED BY <1>1, <2>1, <2>2
<1>11. QED
  BY <1>4, <1>5, <1>6, <1>7, <1>8, <1>9, <1>10 DEF FileStep

\* What a step of r does to the log.
TrailFacts(r) ==
  /\ Keeps(r)
  /\ \/ job[r] = Idle /\ UNCHANGED <<trail, staff>> /\ job'[r].at # "ok"
     \/ GoesOn(r) /\ Goes(r)
     \/ /\ GoesOn(r) /\ job[r].at \in {"log", "logNil"}
        /\ job'[r].at \in {"ok", "panicked"} /\ UNCHANGED staff
        /\ trail' = IF staff THEN [trail EXCEPT ![r] = @ + 1] ELSE trail

LEMMA TrailStep ==
  ASSUME NEW r \in Requests, JobInv, LinkInv, MadeInv,
         Catalogs(r) \/ FilesOf(r) \/ Containing(r) \/ Logging(r)
  PROVE  TrailFacts(r) /\ InodeFacts(r)
<1>0. DOMAIN job = Requests /\ {"op", "at"} \subseteq DOMAIN job[r] /\ JobShape(job[r])
  BY DEF JobInv, JobShape, Locals
<1>1. Keeps(r)
  BY StepFacts DEF FileFacts
<1>2. ASSUME NEW q, Receive(r, q), UNCHANGED <<filesystem, trail, staff>>, q.at # "ok"
      PROVE  TrailFacts(r) /\ InodeFacts(r)
  <2>1. job[r] = Idle /\ job'[r] = q
    BY <1>0, <1>2 DEF Receive
  <2>2. ~FileMakerAt(job[r])
    BY <2>1 DEF FileMakerAt, FileMakers, Idle
  <2>3. QED BY <1>1, <1>2, <2>1, <2>2 DEF TrailFacts, InodeFacts, MadeInv, filesystem
<1>3. ASSUME GoesOn(r), Goes(r), UNCHANGED filesystem, job[r].op \notin FileMakers
      PROVE  TrailFacts(r) /\ InodeFacts(r)
  BY <1>1, <1>3 DEF TrailFacts, InodeFacts, MadeInv, FileMakerAt, filesystem
<1>4. CASE Catalogs(r) /\ CatalogArrives(r)
  <2>1. PICK q \in CatalogRequests : Receive(r, q) /\ UNCHANGED <<trail, staff>>
    BY <1>4 DEF CatalogArrives, Quiet
  <2>2. q.at # "ok"
    BY DEF CatalogRequests
  <2>3. UNCHANGED filesystem
    BY <1>4 DEF Catalogs
  <2>4. QED BY <1>2, <2>1, <2>2, <2>3
<1>5. CASE FilesOf(r) /\ FileArrives(r)
  <2>1. PICK q \in FileRequests : Receive(r, q) /\ UNCHANGED <<filesystem, trail, staff>>
    BY <1>5 DEF FileArrives, OnlyRead
  <2>2. q.at # "ok"
    BY DEF FileRequests
  <2>3. QED BY <1>2, <2>1, <2>2
<1>6. CASE Containing(r) /\ ContainerArrives(r)
  <2>1. PICK q \in ContainerRequests : Receive(r, q) /\ UNCHANGED <<trail, staff>>
    BY <1>6 DEF ContainerArrives, Untouched
  <2>2. q.at # "ok"
    BY DEF ContainerRequests, Shell
  <2>3. UNCHANGED filesystem
    BY <1>6 DEF Containing
  <2>4. QED BY <1>2, <2>1, <2>2, <2>3
<1>7. CASE Catalogs(r) /\ ~CatalogArrives(r)
  <2>1. UNCHANGED filesystem
    BY <1>7 DEF Catalogs
  <2>2. QED BY <1>3, <1>7, <2>1, CatalogMoves DEF Catalogs
<1>8. CASE FilesOf(r) /\ ~FileArrives(r)
  <2>1. GoesOn(r) /\ Goes(r)
    BY <1>8, FileMoves DEF FilesOf
  <2>2. InodeFacts(r)
    BY <1>8, InodeStep DEF FilesOf
  <2>3. QED BY <1>1, <2>1, <2>2 DEF TrailFacts
<1>9. CASE Containing(r) /\ ~ContainerArrives(r)
  <2>1. UNCHANGED <<filesystem, catalog>>
    BY <1>9 DEF Containing
  <2>2. GoesOn(r) /\ Goes(r) /\ job[r].op \notin FileMakers
    BY <1>9, <2>1, ContainerMoves DEF Containing, Makers
  <2>3. QED BY <1>3, <2>1, <2>2
<1>10. CASE Logging(r)
  <2>1. /\ job' = [job EXCEPT ![r].at = IF job[r].at = "log" THEN "ok" ELSE "panicked"]
        /\ UNCHANGED <<filesystem, staff>> /\ job[r].at \in {"log", "logNil"}
        /\ trail' = IF staff THEN [trail EXCEPT ![r] = @ + 1] ELSE trail
    BY <1>10 DEF Logging, LogAndAnswer, Goto, Log
  <2>2. /\ DOMAIN job'[r] = DOMAIN job[r] /\ job'[r].at \in {"ok", "panicked"}
        /\ \A x \in DOMAIN job[r] : x # "at" => job'[r][x] = job[r][x]
    BY <1>0, <2>1
  <2>3. GoesOn(r)
    BY <1>0, <2>2 DEF GoesOn, JobShape, Locals
  <2>4. FileMakerAt(job[r]) => FileMakerAt(job'[r])
    BY <2>2, <2>3 DEF FileMakerAt, GoesOn
  <2>5. InodeFacts(r)
    BY <2>1, <2>4 DEF InodeFacts, MadeInv, filesystem
  <2>6. QED BY <1>1, <2>1, <2>2, <2>3, <2>5 DEF TrailFacts
<1>11. QED BY <1>4, <1>5, <1>6, <1>7, <1>8, <1>9, <1>10

LEMMA TrailKept ==
  ASSUME NEW r \in Requests, JobInv, MadeInv, TrailInv, TrailFacts(r), InodeFacts(r)
  PROVE  MadeInv' /\ TrailInv'
<1>1. ASSUME NEW q \in Requests \ {r}
      PROVE  /\ job'[q].op = job[q].op /\ job'[q].at \in {job[q].at, "lost"}
             /\ FileMakerAt(job[q]) => FileMakerAt(job'[q])
  BY DEF TrailFacts, Keeps, FileMakerAt
<1>2. MadeInv'
  <2>1. ASSUME NEW i \in 1..Len(inode'), inode'[i].by \in Requests
        PROVE  FileMakerAt(job'[inode'[i].by])
    <3>1. CASE inode'[i].by = r /\ FileMakerAt(job'[r])
      BY <3>1
    <3>2. CASE i \in 1..Len(inode) /\ inode'[i].by = inode[i].by
      <4>1. FileMakerAt(job[inode[i].by])
        BY <2>1, <3>2 DEF MadeInv
      <4>2. QED BY <1>1, <2>1, <3>2, <4>1 DEF InodeFacts
    <3>3. QED BY <3>1, <3>2 DEF InodeFacts
  <2>2. QED BY <2>1 DEF MadeInv, InodeFacts, FileMakerAt
<1>3. ASSUME NEW q \in Requests \ {r}
      PROVE  trail'[q] = trail[q]
  BY <1>3 DEF TrailFacts, Goes, TrailInv
<1>4. trail' \in [Requests -> Nat] /\ staff' = staff
  BY DEF TrailFacts, Goes, TrailInv
<1>5. ASSUME NEW q \in Requests
      PROVE  /\ job'[q].at \notin {"ok", "lost", "panicked"} => trail'[q] = 0
             /\ job'[q].op \in Makers /\ job'[q].at = "ok" /\ staff' => trail'[q] = 1
  <2>1. CASE q # r
    BY <1>1, <1>3, <1>4, <2>1 DEF TrailInv
  <2>2. CASE q = r /\ job[r] = Idle /\ UNCHANGED <<trail, staff>> /\ job'[r].at # "ok"
    BY <2>2 DEF TrailInv, Idle
  <2>3. CASE q = r /\ GoesOn(r) /\ Goes(r)
    BY <2>3 DEF TrailInv, Goes, GoesOn
  <2>4. CASE /\ q = r /\ GoesOn(r) /\ job[r].at \in {"log", "logNil"}
             /\ job'[r].at \in {"ok", "panicked"} /\ UNCHANGED staff
             /\ trail' = IF staff THEN [trail EXCEPT ![r] = @ + 1] ELSE trail
    <3>1. trail[r] = 0 /\ trail \in [Requests -> Nat]
      BY <2>4 DEF TrailInv
    <3>2. staff => trail'[r] = 1
      BY <2>4, <3>1
    <3>3. QED BY <2>4, <3>2
  <2>5. QED BY <2>1, <2>2, <2>3, <2>4 DEF TrailFacts
<1>6. TrailInv'
  <2>1. staff' \in BOOLEAN
    BY <1>4 DEF TrailInv
  <2>2. QED BY <1>4, <1>5, <2>1 DEF TrailInv
<1>7. QED BY <1>2, <1>6

-----------------------------------------------------------------------------
(* The theorems.                                                           *)

ManagementInv ==
  JobInv /\ LinkInv /\ RowInv /\ PlaceReadInv /\ PlacesClashOnlyInRaces

\* What any step is: one of a request, or one that leaves jobs, rows and files.
LEMMA Steps ==
  ASSUME ManagementInv, [Next]_vars
  PROVE  \/ UNCHANGED <<job, catalog, filesystem>>
         \/ \E r \in Requests : Catalogs(r) \/ FilesOf(r) \/ Containing(r) \/ Logging(r)
BY DEF Next, vars, handling, Deleting, UserDeleted

LEMMA RequestRows ==
  ASSUME ManagementInv, NEW r \in Requests,
         Catalogs(r) \/ FilesOf(r) \/ Containing(r) \/ Logging(r)
  PROVE  RowFacts /\ PlaceReadInv'
<1> USE DEF ManagementInv
<1>1. ASSUME UNCHANGED catalog PROVE RowFacts
  BY <1>1 DEF RowInv, RowFacts, catalog, Apps, Commands
<1>2. FileFacts(r)
  BY StepFacts
<1>3. Keeps(r)
  BY <1>2 DEF FileFacts
<1>4. CASE Catalogs(r) /\ ~CatalogArrives(r)
  <2>1. RowFacts
    BY <1>4, RowsStep DEF Catalogs
  <2>2. job'[r].op \in Inserters /\ job'[r].at = "insert" => ReadPlace(r) /\ UNCHANGED catalog
    BY <1>4, CatalogMoves DEF Catalogs, GoesOn, ReadPlace, Quiet
  <2>3. QED BY <1>3, <2>1, <2>2, ReadsKept
<1>5. CASE Catalogs(r) /\ CatalogArrives(r)
  <2>1. PICK q \in CatalogRequests : Receive(r, q) /\ UNCHANGED catalog
    BY <1>5 DEF CatalogArrives, Quiet
  <2>2. job'[r] = q
    BY <2>1 DEF Receive, JobInv
  <2>3. ~(job'[r].op \in Inserters /\ job'[r].at = "insert")
    BY <2>2, CatalogArrivals
  <2>4. QED BY <1>1, <1>3, <2>1, <2>3, ReadsKept
<1>6. CASE FilesOf(r)
  <2>1. ~(job'[r].op \in Inserters)
    <3>1. CASE FileArrives(r)
      <4>1. PICK q \in FileRequests : Receive(r, q)
        BY <3>1 DEF FileArrives
      <4>2. job'[r] = q /\ moment \in Nat
        BY <4>1 DEF Receive, JobInv, LinkInv
      <4>3. QED BY <4>2, FileArrivals
    <3>2. CASE ~FileArrives(r)
      BY <1>6, <3>2, FileMoves DEF FilesOf, GoesOn
    <3>3. QED BY <3>1, <3>2
  <2>2. UNCHANGED catalog
    BY <1>6 DEF FilesOf, catalog
  <2>3. QED BY <1>1, <1>3, <2>1, <2>2, ReadsKept
<1>7. CASE Containing(r)
  <2>1. UNCHANGED catalog /\ UNCHANGED filesystem
    BY <1>7 DEF Containing, catalog, filesystem
  <2>2. ~(job'[r].op \in Inserters)
    <3>1. CASE ContainerArrives(r)
      <4>1. PICK q \in ContainerRequests : Receive(r, q)
        BY <3>1 DEF ContainerArrives
      <4>2. job'[r] = q
        BY <4>1 DEF Receive, JobInv
      <4>3. QED BY <4>2, ContainerArrivals
    <3>2. CASE ~ContainerArrives(r)
      BY <1>7, <2>1, <3>2, ContainerMoves DEF Containing, GoesOn
    <3>3. QED BY <3>1, <3>2
  <2>3. QED BY <1>1, <1>3, <2>1, <2>2, ReadsKept
<1>8. CASE Logging(r)
  <2>1. /\ job' = [job EXCEPT ![r].at = IF job[r].at = "log" THEN "ok" ELSE "panicked"]
        /\ UNCHANGED catalog
    BY <1>8 DEF Logging, LogAndAnswer, Goto, catalog
  <2>2. DOMAIN job = Requests /\ "at" \in DOMAIN job[r]
    BY DEF JobInv, JobShape, Locals
  <2>3. job'[r].at \in {"ok", "panicked"}
    BY <2>1, <2>2
  <2>4. QED BY <1>1, <1>3, <2>1, <2>3, ReadsKept
<1>9. QED BY <1>4, <1>5, <1>6, <1>7, <1>8

LEMMA ManagementInit == Init => ManagementInv
<1> SUFFICES ASSUME Init PROVE ManagementInv
  OBVIOUS
<1>1. job = [r \in Requests |-> Idle]
  BY DEF Init, HandlingInit
<1>2. JobInv
  BY <1>1 DEF JobInv, Idle, JobShape, Locals, Changers, Inserters
<1>3. moment = 0 /\ DOMAIN link = Paths
  BY DEF Init, FilesInit
<1>4. LinkInv
  BY <1>1, <1>3 DEF LinkInv, Idle, Changers
<1>5. born = 3 /\ commands = [c \in {2, 3} |-> [app |-> 1, place |-> c - 2,
                                               seen |-> c - 1, moved |-> FALSE]]
  BY DEF Init, CatalogInit
<1>6. Apps = {1} /\ {"name", "token", "cut"} \subseteq DOMAIN apps[1]
  BY DEF Init, CatalogInit, Apps
<1>7. RowInv
  BY <1>5, <1>6 DEF RowInv, Commands
<1>8. PlaceReadInv
  BY <1>1 DEF PlaceReadInv, Idle, Inserters
<1>9. PlacesClashOnlyInRaces
  <2>1. commands[2].place = 0 /\ commands[3].place = 1 /\ Commands = {2, 3}
    BY <1>5 DEF Commands
  <2>2. QED BY <2>1 DEF PlacesClashOnlyInRaces
<1>10. QED BY <1>2, <1>4, <1>7, <1>8, <1>9 DEF ManagementInv

LEMMA ManagementInductive == Spec => []ManagementInv
<1>1. ManagementInv /\ [Next]_vars => ManagementInv'
  <2> SUFFICES ASSUME ManagementInv, [Next]_vars PROVE ManagementInv'
    OBVIOUS
  <2>1. CASE UNCHANGED <<job, catalog, filesystem>>
    BY <2>1 DEF ManagementInv, JobInv, LinkInv, RowInv, PlaceReadInv, PlaceRead, JobShape,
       PlacesClashOnlyInRaces, catalog, filesystem, Apps, Commands, Exists
  <2>2. ASSUME NEW r \in Requests, Catalogs(r) \/ FilesOf(r) \/ Containing(r) \/ Logging(r)
        PROVE  ManagementInv'
    <3>1. JobInv' /\ LinkInv'
      BY <2>2, StepFacts, FileInductive DEF ManagementInv
    <3>2. RowFacts /\ PlaceReadInv'
      BY <2>2, RequestRows
    <3>3. RowInv' /\ PlacesClashOnlyInRaces'
      BY <3>2, ClashKept DEF ManagementInv, RowFacts
    <3>4. QED BY <3>1, <3>2, <3>3 DEF ManagementInv
  <2>3. QED BY <2>1, <2>2, Steps
<1>2. QED BY <1>1, ManagementInit, PTL DEF Spec

(* However many requests create, import, delete and reorder commands, two   *)
(* share a place only when one was reordered, or the later was placed before *)
(* the earlier was inserted.                                                *)
THEOREM PlacesClashInRaces == Spec => []PlacesClashOnlyInRaces
<1>1. ManagementInv => PlacesClashOnlyInRaces
  BY DEF ManagementInv
<1>2. QED BY <1>1, ManagementInductive, PTL

(* A token that RegenerateToken replaced never opens its application again, *)
(* for any number of updates that were reading the row meanwhile.           *)
THEOREM NoTokenReturns == Spec => TokensNeverReturn
<1>1. ManagementInv /\ [Next]_vars =>
        [\A a \in Apps \cap DOMAIN apps' :
           apps'[a].token # apps[a].token => apps'[a].token > born]_catalog
  <2> SUFFICES ASSUME ManagementInv, [Next]_vars, ~UNCHANGED catalog
               PROVE  \A a \in Apps \cap DOMAIN apps' :
                        apps'[a].token # apps[a].token => apps'[a].token > born
    OBVIOUS
  <2>1. PICK r \in Requests : Catalogs(r) \/ FilesOf(r) \/ Containing(r) \/ Logging(r)
    BY Steps
  <2>2. QED BY <2>1, RequestRows DEF RowFacts
<1>2. QED BY <1>1, ManagementInductive, PTL DEF Spec, TokensNeverReturn

(* RenameFile, CopyFile and an UploadFile that may not overwrite leave      *)
(* alone what was at their path when they came, for any paths and requests. *)
THEOREM OnlyNewcomersReplaced == Spec => ReplacesOnlyNewcomers
<1> DEFINE Step ==
      \A r \in Requests :
       /\ job[r].op \in {"rename", "copy", "upload"} /\ ~job[r].over
       /\ job'[r] # job[r] /\ Exists(job[r].path)
       /\ \/ link'[job[r].path] # link[job[r].path]
          \/ inode'[link[job[r].path].to] # inode[link[job[r].path].to]
       => link[job[r].path].since > job[r].arrived
<1>1. ManagementInv /\ [Next]_vars => [Step]_<<handling, filesystem>>
  <2> SUFFICES ASSUME ManagementInv, [Next]_vars,
                      NEW q \in Requests, job[q].op \in {"rename", "copy", "upload"},
                      ~job[q].over, job'[q] # job[q], Exists(job[q].path),
                      \/ link'[job[q].path] # link[job[q].path]
                      \/ inode'[link[job[q].path].to] # inode[link[job[q].path].to]
               PROVE  link[job[q].path].since > job[q].arrived
    OBVIOUS
  <2>1. PICK r \in Requests : Catalogs(r) \/ FilesOf(r) \/ Containing(r) \/ Logging(r)
    BY Steps
  <2>2. FileFacts(r)
    BY <2>1, StepFacts DEF ManagementInv
  <2>3. ~UNCHANGED filesystem
    BY DEF filesystem
  <2>4. QED BY <2>2, <2>3, OnlyNewcomers DEF ManagementInv, Changers
<1>2. QED BY <1>1, ManagementInductive, PTL DEF Spec, ReplacesOnlyNewcomers

\* A step that is not a request's leaves the applications.
LEMMA AppInitial == Init => AppInv
<1> SUFFICES ASSUME Init PROVE AppInv
  OBVIOUS
<1>1. job = [r \in Requests |-> Idle]
  BY DEF Init, HandlingInit
<1>2. Apps = {1} /\ apps[1].by = "earlier" /\ apps[1].due = 0
      /\ {"by", "due"} \subseteq DOMAIN apps[1]
  BY DEF Init, CatalogInit, Apps
<1>3. QED BY <1>1, <1>2, RequestAssumption DEF AppInv, Idle

LEMMA AppInductive == Spec => []AppInv
<1>1. ManagementInv /\ ManagementInv' /\ AppInv /\ [Next]_vars => AppInv'
  <2> SUFFICES ASSUME ManagementInv, ManagementInv', AppInv, [Next]_vars PROVE AppInv'
    OBVIOUS
  <2>1. CASE UNCHANGED <<job, catalog, filesystem>>
    BY <2>1 DEF AppInv, ImportJob, MakerAt, Accounted, Rest, Of, Apps, Commands, catalog
  <2>2. ASSUME NEW r \in Requests, Catalogs(r) \/ FilesOf(r) \/ Containing(r) \/ Logging(r)
        PROVE  AppInv'
    <3>1. JobInv /\ LinkInv /\ RowInv /\ RowInv'
      BY DEF ManagementInv
    <3>2. Keeps(r)
      BY <2>2, <3>1, StepFacts DEF FileFacts
    <3>3. MakerGoes(r)
      BY <2>2, <3>1, MakersStep
    <3>4. AppFacts(r)
      <4>1. CASE Catalogs(r)
        BY <3>1, <4>1, AppsStep DEF Catalogs
      <4>2. CASE ~Catalogs(r)
        <5>1. UNCHANGED <<apps, commands>>
          BY <2>2, <4>2 DEF FilesOf, Containing, Logging, catalog
        <5>2. QED BY <5>1 DEF AppFacts, Apps, Of, Commands
      <4>3. QED BY <4>1, <4>2
    <3>5. QED BY <3>1, <3>2, <3>3, <3>4, AppKept
  <2>3. QED BY <2>1, <2>2, Steps
<1>2. QED BY <1>1, AppInitial, ManagementInductive, PTL DEF Spec

(* For any backup and any number of imports, creations and deletions at the *)
(* same time: an application that lacks commands of its backup, none        *)
(* deleted, comes of an import under way, lost, or answered with errors.    *)
THEOREM ShortImportsReported == Spec => []ShortAppsReported
<1>1. ManagementInv /\ AppInv => ShortAppsReported
  <2> SUFFICES ASSUME ManagementInv, AppInv, NEW a \in Apps,
                      Cardinality(Of(a)) < apps[a].due, ~apps[a].cut,
                      ~Running(apps[a].by)
               PROVE  job[apps[a].by].at = "lost" \/ job[apps[a].by].errors > 0
    BY DEF ShortAppsReported
  <2> DEFINE j == job[apps[a].by]
  <2>1. Cardinality(Of(a)) \in Nat /\ apps[a].due \in Nat
    BY OfFinite DEF ManagementInv, AppInv
  <2>2. apps[a].by \in Requests /\ j.op = "import" /\ Accounted(a)
    BY <2>1 DEF AppInv
  <2>3. CASE Cardinality(Of(a)) + Rest(j, a) >= apps[a].due
    <3>1. Rest(j, a) = 0
      BY DEF Running, Ends, Rest
    <3>2. QED BY <2>1, <2>3, <3>1
  <2>4. QED BY <2>2, <2>3, Zenon DEF Accounted
<1>2. QED BY <1>1, ManagementInductive, AppInductive, PTL
LEMMA TrailInitial == Init => MadeInv /\ TrailInv
<1> SUFFICES ASSUME Init PROVE MadeInv /\ TrailInv
  OBVIOUS
<1>1. job = [r \in Requests |-> Idle] /\ trail = [r \in Requests |-> 0] /\ staff = TRUE
  BY DEF Init, HandlingInit
<1>2. TrailInv
  BY <1>1 DEF TrailInv, Idle, Makers, FileMakers
<1>3. inode = <<[dir |-> FALSE, by |-> "earlier"], [dir |-> TRUE, by |-> "earlier"]>>
  BY DEF Init, FilesInit
<1>4. inode \in Seq(Inodes) /\ Len(inode) = 2
  BY <1>3 DEF Inodes
<1>5. \A i \in 1..2 : inode[i].by = "earlier"
  BY <1>3
<1>6. \A p \in Paths : link[p].to \in 0..2
  BY DEF Init, FilesInit, None
<1>7. MadeInv
  BY <1>4, <1>5, <1>6, RequestAssumption DEF MadeInv
<1>8. QED BY <1>2, <1>7

LEMMA TrailInductive == Spec => [](MadeInv /\ TrailInv)
<1>1. ManagementInv /\ (MadeInv /\ TrailInv) /\ [Next]_vars => (MadeInv /\ TrailInv)'
  <2> SUFFICES ASSUME ManagementInv, MadeInv, TrailInv, [Next]_vars
               PROVE  MadeInv' /\ TrailInv'
    OBVIOUS
  <2>1. CASE Deleting \/ UNCHANGED vars
    <3>1. UNCHANGED <<job, filesystem, trail>> /\ (staff' = staff \/ staff' = FALSE)
      BY <2>1 DEF Deleting, UserDeleted, vars, handling
    <3>2. MadeInv'
      BY <3>1 DEF MadeInv, filesystem, FileMakerAt
    <3>3. TrailInv'
      <4>1. trail' \in [Requests -> Nat] /\ staff' \in BOOLEAN
        BY <3>1 DEF TrailInv
      <4>2. job' = job /\ trail' = trail
        BY <3>1
      <4>s. staff' => staff
        BY <3>1, Zenon
      <4>3. ASSUME NEW q \in Requests
            PROVE  /\ job'[q].at \notin {"ok", "lost", "panicked"} => trail'[q] = 0
                   /\ job'[q].op \in Makers /\ job'[q].at = "ok" /\ staff' => trail'[q] = 1
        <5>1. /\ job[q].at \notin {"ok", "lost", "panicked"} => trail[q] = 0
              /\ job[q].op \in Makers /\ job[q].at = "ok" /\ staff => trail[q] = 1
          BY DEF TrailInv
        <5>2. QED BY <4>2, <4>s, <5>1, Zenon
      <4>4. QED BY <4>1, <4>3 DEF TrailInv
    <3>4. QED BY <3>2, <3>3
  <2>2. ASSUME NEW r \in Requests, Catalogs(r) \/ FilesOf(r) \/ Containing(r) \/ Logging(r)
        PROVE  MadeInv' /\ TrailInv'
    BY <2>2, TrailStep, TrailKept DEF ManagementInv
  <2>3. QED BY <2>1, <2>2 DEF Next
<1>2. QED BY <1>1, TrailInitial, ManagementInductive, PTL DEF Spec

(* For any number of requests at the same time: one that has answered, and  *)
(* has left an application or a file behind, is in the audit log, as long   *)
(* as its user exists; no handler answers a change without an entry.        *)
THEOREM ChangesLogged == Spec => []ChangesAreLogged
<1>1. AppInv /\ MadeInv /\ TrailInv => ChangesAreLogged
  <2> SUFFICES ASSUME AppInv, MadeInv, TrailInv, NEW r \in Requests,
                      job[r].at \in {"ok", "refused"}, staff,
                      \/ \E a \in Apps : apps[a].by = r
                      \/ \E p \in Paths : Exists(p) /\ inode[link[p].to].by = r
               PROVE  trail[r] = 1
    BY DEF ChangesAreLogged
  <2>1. CASE \E a \in Apps : apps[a].by = r
    <3>1. PICK a \in Apps : apps[a].by = r
      BY <2>1
    <3>2. MakerAt(job[r], a)
      BY <3>1 DEF AppInv
    <3>3. job[r].op \in Makers /\ job[r].at = "ok"
      BY <3>2 DEF AppInv, MakerAt, ImportJob, ImportPlaces, Makers
    <3>4. QED BY <3>3 DEF TrailInv
  <2>2. CASE \E p \in Paths : Exists(p) /\ inode[link[p].to].by = r
    <3>1. PICK p \in Paths : Exists(p) /\ inode[link[p].to].by = r
      BY <2>2
    <3>2. link[p].to \in 1..Len(inode)
      <4>1. Len(inode) \in Nat /\ link[p].to \in 0..Len(inode) /\ link[p].to # 0
        BY <3>1, LenProperties DEF MadeInv, Exists
      <4>2. QED BY <4>1
    <3>3. FileMakerAt(job[r])
      BY <3>1, <3>2 DEF MadeInv
    <3>4. job[r].op \in Makers /\ job[r].at = "ok"
      BY <3>3 DEF FileMakerAt, Makers
    <3>5. QED BY <3>4 DEF TrailInv
  <2>3. QED BY <2>1, <2>2
<1>2. QED BY <1>1, AppInductive, TrailInductive, PTL
==================================================================================
