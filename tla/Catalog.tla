------------------------------- MODULE Catalog -------------------------------
(***************************************************************************)
(* The catalog of applications and commands: AppService, the handlers of    *)
(* apps, commands and backups, and the executions their deletions erase.    *)
(*                                                                          *)
(* An id stands for a UUID and is the order of creation, a token is a       *)
(* number never given before.  The other columns of a row, its description  *)
(* or the text of its command, are not kept.                                *)
(***************************************************************************)
EXTENDS Handling, Sequences, SequencesExt, Functions

CONSTANTS Names,    \* names of applications
          Backup    \* a backup file: records of a name and a number of commands

ASSUME BackupAssumption == Backup \in Seq([name : Names, commands : Nat])

VARIABLES
  apps,       \* rows of apps; by (who inserted it), due (with how many commands)
              \* and cut (has one of them been deleted) are ghosts
  commands,   \* rows of commands; seen (what born was when its place was
              \* read) and moved (by a reordering) are ghosts
  history,    \* the commands that have rows in executions
  born        \* the last id or token given

catalog == <<apps, commands, history, born>>
Quiet == UNCHANGED <<catalog, trail, staff, faults>>   \* a step that only reads
OnlyCatalog == UNCHANGED <<trail, staff, faults>>

Apps == DOMAIN apps
Commands == DOMAIN commands
Of(a) == {c \in Commands : commands[c].app = a}
Named(n) == {a \in Apps : apps[a].name = n}
Without(f, S) == Restrict(f, DOMAIN f \ S)
With(f, x, row) == [y \in DOMAIN f \cup {x} |-> IF y = x THEN row ELSE f[y]]

(* What earlier requests left: an application with two commands, the first  *)
(* of which has been executed.                                              *)
CatalogInit ==
  /\ \E n \in Names :
       apps = [a \in {1} |-> [name |-> n, token |-> 1, by |-> "earlier", due |-> 0,
                              cut |-> FALSE]]
  /\ commands = [c \in {2, 3} |-> [app |-> 1, place |-> c - 2,
                                   seen |-> c - 1, moved |-> FALSE]]
  /\ history = {2}
  /\ born = 3

\* The requests a browser that has listed the catalog can make.
CatalogRequests ==
  [op : {"createApp"}, at : {"insert"}, name : Names, row : {0}]
  \cup [op : {"updateApp"}, at : {"read"}, row : Apps, name : Names \cup {"same"},
        token : {0}]
  \cup [op : {"regenerate", "exportApp"}, at : {"read"}, row : Apps]
  \cup [op : {"deleteApp"}, at : {"erase"}, row : Apps]
  \cup [op : {"createCommand"}, at : {"app"}, app : Apps, row : {0}, place : {0},
        seen : {0}]
  \cup [op : {"updateCommand", "deleteCommand", "execute"}, at : {"read"},
        row : Commands]
  \cup [op : {"reorder"}, at : {"app"}, app : Apps,
        list : {s \in UNION {[1..n -> Commands] : n \in {1, 2}} : IsInjective(s)}]
  \cup [op : {"deploy"}, at : {"read"}, app : Apps, row : {0} \cup Commands, token : 1..born]
  \cup [op : {"export"}, at : {"list"}, left : {{}}]
  \cup [op : {"import"}, at : {"look"}, nth : {1}, left : {0}, app : {0}, row : {0},
        place : {0}, seen : {0}, imported : {0}, skipped : {0}, errors : {0}]

CatalogArrives(r) == \E q \in CatalogRequests : Receive(r, q) /\ Quiet

----------------------------------------------------------------------------
(* Applications.                                                            *)

\* INSERT INTO apps, whose name is UNIQUE.
InsertApp(r, n, due) ==
  /\ apps' = With(apps, born + 1, [name |-> n, token |-> born + 1, by |-> r,
                                   due |-> due, cut |-> FALSE])
  /\ born' = born + 1
  /\ UNCHANGED <<commands, history>>

CreateApp(r) ==
  /\ At(r, {"createApp"}, "insert")
  /\ IF Named(job[r].name) = {}
     THEN InsertApp(r, job[r].name, 0) /\ GotoWith(r, "readBack", "row", born + 1)
     ELSE Goto(r, "refused") /\ UNCHANGED catalog
  /\ OnlyCatalog

\* Most handlers read the row first.
ReadRow(r) ==
  /\ At(r, {"regenerate", "updateCommand", "exportApp", "execute"}, "read")
  /\ Goto(r, IF job[r].row \notin Apps \cup Commands THEN "refused"
             ELSE IF job[r].op = "exportApp" THEN "log" ELSE "write")
  /\ Quiet

\* They read what they have written back, to answer it: it may be gone.
ReadBack(r) ==
  /\ At(r, {"createApp", "updateApp", "regenerate", "createCommand",
            "updateCommand"}, "readBack")
  /\ Goto(r, IF job[r].row \in Apps \cup Commands THEN "log" ELSE "refused")
  /\ Quiet

\* UpdateApp merges what the request gives into the row it has read.
ReadApp(r) ==
  /\ At(r, {"updateApp"}, "read")
  /\ LET a == job[r].row IN
     IF a \notin Apps THEN Goto(r, "refused")
     ELSE job' = [job EXCEPT ![r].at = "write", ![r].token = apps[a].token,
                             ![r].name = IF @ = "same" THEN apps[a].name ELSE @]
  /\ Quiet

\* Mutant of Written: the token is written back with the rest.
MutWrittenToken(r) == [apps[job[r].row] EXCEPT !.name = job[r].name, !.token = job[r].token]

(* All the columns are written but the token: a name the request did not    *)
(* give is written back as it was read.                                     *)
Written(r) == [apps[job[r].row] EXCEPT !.name = job[r].name]

WriteApp(r) ==
  /\ At(r, {"updateApp"}, "write")
  /\ LET a == job[r].row
         taken == Named(job[r].name) \ {a} # {} IN
     /\ Goto(r, IF a \in Apps /\ taken THEN "failed" ELSE "readBack")
     /\ apps' = IF a \in Apps /\ ~taken THEN [apps EXCEPT ![a] = Written(r)]
                ELSE apps
  /\ UNCHANGED <<commands, history, born>> /\ OnlyCatalog

RegenerateToken(r) ==
  /\ At(r, {"regenerate"}, "write")
  /\ apps' = IF job[r].row \in Apps
             THEN [apps EXCEPT ![job[r].row].token = born + 1] ELSE apps
  /\ born' = born + 1
  /\ Goto(r, "readBack")
  /\ UNCHANGED <<commands, history>> /\ OnlyCatalog

\* DeleteApp, its first statement: the executions of its commands.
EraseHistory(r) ==
  /\ At(r, {"deleteApp", "deleteCommand"}, "erase")
  /\ history' = history \ (Of(job[r].row) \cup {job[r].row})
  /\ Goto(r, "delete")
  /\ UNCHANGED <<apps, commands, born>> /\ OnlyCatalog

(* Its second: the row, which takes its commands with it, and which an      *)
(* execution inserted meanwhile keeps where it is.                          *)
DeleteApp(r) ==
  /\ At(r, {"deleteApp"}, "delete")
  /\ LET a == job[r].row IN
     IF a \in Apps /\ Of(a) \cap history = {}
     THEN /\ apps' = Without(apps, {a})
          /\ commands' = Without(commands, Of(a))
          /\ Goto(r, "log")
     ELSE /\ Goto(r, IF a \in Apps THEN "failed" ELSE "refused")
          /\ UNCHANGED <<apps, commands>>
  /\ UNCHANGED <<history, born>> /\ OnlyCatalog

----------------------------------------------------------------------------
(* Commands.                                                                *)

\* After a command: the import goes to its next one, or to its next app.
NextOfImport(r, errors) ==
  LET last == job[r].left <= 1 IN
  job' = [job EXCEPT ![r].errors = @ + errors,
                     ![r].left = IF last THEN 0 ELSE @ - 1,
                     ![r].imported = IF last THEN @ + 1 ELSE @,
                     ![r].nth = IF last THEN @ + 1 ELSE @,
                     ![r].at = IF last THEN "look" ELSE "app"]

\* Mutant of CommandRefused: the import does not count a command it could not create.
MutCommandRefusedQuiet(r, answer) ==
  IF job[r].op = "import" THEN NextOfImport(r, 0) ELSE Goto(r, answer)

CommandRefused(r, answer) ==
  IF job[r].op = "import" THEN NextOfImport(r, 1) ELSE Goto(r, answer)

\* CreateCommand and ReorderCommands look for the application first.
FindApp(r) ==
  /\ At(r, {"createCommand", "import", "reorder"}, "app")
  /\ IF job[r].app \notin Apps THEN CommandRefused(r, "refused")
     ELSE Goto(r, IF job[r].op = "reorder" THEN "write" ELSE "place")
  /\ Quiet

\* Mutant of NextPlace: the number of commands, not the place after the last.
MutNextPlaceCount(a) == Cardinality(Of(a))

\* SELECT COALESCE(MAX(sort_order), -1), and the place after it.
NextPlace(a) ==
  LET places == {commands[c].place : c \in Of(a)} IN
  IF places = {} THEN 0 ELSE 1 + CHOOSE p \in places : \A q \in places : q <= p

ReadPlace(r) ==
  /\ At(r, {"createCommand", "import"}, "place")
  /\ job' = [job EXCEPT ![r].at = "insert", ![r].seen = born,
                        ![r].place = NextPlace(job[r].app)]
  /\ Quiet

\* The INSERT: it fails when the application has been deleted.
InsertCommand(r) ==
  /\ At(r, {"createCommand", "import"}, "insert")
  /\ \/ /\ job[r].app \in Apps
        /\ commands' = With(commands, born + 1,
             [app |-> job[r].app, place |-> job[r].place, seen |-> job[r].seen,
              moved |-> FALSE])
        /\ born' = born + 1
        /\ GotoWith(r, "readBack", "row", born + 1)
        /\ NoFault
     \/ /\ CommandRefused(r, "failed")
        /\ IF job[r].app \in Apps THEN Fault ELSE NoFault
        /\ UNCHANGED <<commands, born>>
  /\ UNCHANGED <<apps, history, trail, staff>>

\* UpdateCommand: its columns are not kept here.
UpdateCommand(r) == At(r, {"updateCommand"}, "write") /\ Goto(r, "readBack") /\ Quiet

\* The handler looks for the command only to log its name.
LookForCommand(r) ==
  /\ At(r, {"deleteCommand"}, "read")
  /\ Goto(r, "erase")
  /\ Quiet

DeleteCommand(r) ==
  /\ At(r, {"deleteCommand"}, "delete")
  /\ LET c == job[r].row IN
     IF c \in Commands /\ c \notin history
     THEN /\ commands' = Without(commands, {c})
          /\ apps' = [apps EXCEPT ![commands[c].app].cut = TRUE]
          /\ Goto(r, "log")
     ELSE /\ Goto(r, IF c \in Commands THEN "failed" ELSE "refused")
          /\ UNCHANGED <<apps, commands>>
  /\ UNCHANGED <<history, born>> /\ OnlyCatalog

\* ReorderCommands, one transaction: all the commands of the list or none.
ReorderCommands(r) ==
  /\ At(r, {"reorder"}, "write")
  /\ LET list == job[r].list IN
     IF Range(list) \subseteq Of(job[r].app)
     THEN /\ commands' = [c \in Commands |->
               IF c \in Range(list)
               THEN [commands[c] EXCEPT !.place = Inverse(list, DOMAIN list, Range(list))[c] - 1, !.moved = TRUE]
               ELSE commands[c]]
          /\ Goto(r, "log")
     ELSE Goto(r, "refused") /\ UNCHANGED commands
  /\ UNCHANGED <<apps, history, born>> /\ OnlyCatalog

----------------------------------------------------------------------------
(* Executions and backups.                                                  *)

\* Deploy: the application and its token, then the command.
CheckToken(r) ==
  /\ At(r, {"deploy"}, "read")
  /\ LET a == job[r].app IN
     Goto(r, IF a \in Apps /\ apps[a].token = job[r].token THEN "command" ELSE "refused")
  /\ Quiet

(* The command the request names, or the first one of the application; of   *)
(* those that share the first place, created in the same second, any one.   *)
FindCommand(r) ==
  /\ At(r, {"deploy"}, "command")
  /\ LET of == Of(job[r].app)
         first == {c \in of : \A d \in of : commands[c].place <= commands[d].place}
         found == IF job[r].row = 0 THEN first ELSE of \cap {job[r].row}
     IN IF found = {} THEN Goto(r, "refused")
        ELSE \E c \in found : GotoWith(r, "write", "row", c)
  /\ Quiet

\* CreateExecution: the row refers to its command.  Deploy logs nothing.
InsertExecution(r) ==
  /\ At(r, {"execute", "deploy"}, "write")
  /\ IF job[r].row \in Commands
     THEN /\ history' = history \cup {job[r].row}
          /\ Goto(r, IF job[r].op = "deploy" THEN "ok" ELSE "log")
     ELSE Goto(r, "failed") /\ UNCHANGED history
  /\ UNCHANGED <<apps, commands, born>> /\ OnlyCatalog

\* Export lists the applications, then reads the commands of each.
ListApps(r) ==
  /\ At(r, {"export"}, "list")
  /\ GotoWith(r, "commands", "left", Apps)
  /\ Quiet

ExportCommands(r) ==
  /\ At(r, {"export"}, "commands")
  /\ IF job[r].left = {} THEN Goto(r, "log")
     ELSE \E a \in job[r].left : GotoWith(r, "commands", "left", job[r].left \ {a})
  /\ Quiet

\* Import, its loop: an application whose name is taken is skipped.
ImportLook(r) ==
  /\ At(r, {"import"}, "look")
  /\ LET nth == job[r].nth IN
     IF nth > Len(Backup) THEN Goto(r, "log")
     ELSE IF Named(Backup[nth].name) # {}
     THEN job' = [job EXCEPT ![r].nth = @ + 1, ![r].skipped = @ + 1]
     ELSE Goto(r, "create")
  /\ Quiet

ImportApp(r) ==
  /\ At(r, {"import"}, "create")
  /\ LET one == Backup[job[r].nth] IN
     IF Named(one.name) = {}
     THEN InsertApp(r, one.name, one.commands) /\ GotoWith(r, "created", "app", born + 1)
     ELSE /\ job' = [job EXCEPT ![r].nth = @ + 1, ![r].errors = @ + 1,
                                ![r].at = "look"]
          /\ UNCHANGED catalog
  /\ OnlyCatalog

\* CreateApp reads the row back; then come the commands, if it has any.
ImportCreated(r) ==
  /\ At(r, {"import"}, "created")
  /\ LET n == Backup[job[r].nth].commands IN
     IF job[r].app \notin Apps
     THEN job' = [job EXCEPT ![r].nth = @ + 1, ![r].errors = @ + 1, ![r].at = "look"]
     ELSE IF n = 0 THEN NextOfImport(r, 0) ELSE GotoWith(r, "app", "left", n)
  /\ Quiet

ImportCommand(r) ==
  /\ At(r, {"import"}, "readBack")
  /\ NextOfImport(r, IF job[r].row \in Commands THEN 0 ELSE 1)
  /\ Quiet

CatalogStep(r) ==
  \/ CatalogArrives(r) \/ CreateApp(r) \/ ReadRow(r) \/ ReadBack(r) \/ ReadApp(r)
  \/ WriteApp(r) \/ RegenerateToken(r) \/ EraseHistory(r) \/ DeleteApp(r)
  \/ FindApp(r) \/ ReadPlace(r) \/ InsertCommand(r) \/ UpdateCommand(r)
  \/ LookForCommand(r) \/ DeleteCommand(r) \/ ReorderCommands(r) \/ CheckToken(r)
  \/ FindCommand(r) \/ InsertExecution(r) \/ ListApps(r) \/ ExportCommands(r)
  \/ ImportLook(r) \/ ImportApp(r) \/ ImportCreated(r) \/ ImportCommand(r)

----------------------------------------------------------------------------
(* Properties.                                                              *)

(* A token that was replaced never opens its application again: UpdateApp   *)
(* writes a row read before RegenerateToken, and only some columns of it.   *)
TokensNeverReturn ==
  [][\A a \in Apps \cap DOMAIN apps' :
       apps'[a].token # apps[a].token => apps'[a].token > born]_catalog

(* Two commands share a place only when one was reordered, or the later one *)
(* was placed before the earlier one was inserted: NextPlace is read and    *)
(* used in two statements.                                                  *)
PlacesClashOnlyInRaces ==
  \A c, d \in Commands :
    (c < d /\ commands[c].app = commands[d].app
       /\ commands[c].place = commands[d].place)
    => commands[c].moved \/ commands[d].moved \/ commands[d].seen < c

(* An application with fewer commands than its backup had, none deleted     *)
(* since, comes of an import that is under way, was lost with its process,  *)
(* or reports errors; the next import skips it.                             *)
ShortAppsReported ==
  \A a \in Apps :
    LET r == apps[a].by IN
    Cardinality(Of(a)) < apps[a].due /\ ~apps[a].cut
    => Running(r) \/ job[r].at = "lost" \/ job[r].errors > 0
=============================================================================
