-------------------------------- MODULE Files --------------------------------
(***************************************************************************)
(* The file handlers.  A path leads to an inode; a handler that has opened  *)
(* a file works on its inode, wherever renames and removals have left it.   *)
(*                                                                          *)
(* securePathWithConfig has resolved the paths, and what it refuses is not  *)
(* in Paths.  The parents of Paths exist; what a directory among them holds *)
(* is not modelled, nor are the handlers that only read and log nothing.    *)
(***************************************************************************)
EXTENDS Handling, Sequences

CONSTANTS Paths    \* paths the configuration allows

VARIABLES
  link,    \* link[p]: the inode p leads to, 0 if none, and (ghost) since when
  inode,   \* inode[i]: is it a directory, and who has written it last
  moment   \* ghost: the number of links made

filesystem == <<link, inode, moment>>
OnlyRead == UNCHANGED <<filesystem, trail, staff, faults>>
OnlyFiles == UNCHANGED <<trail, staff, faults>>

None == [to |-> 0, since |-> 0]
Exists(p) == link[p].to # 0
IsDir(p) == Exists(p) /\ inode[link[p].to].dir

\* What earlier requests left: a file, a directory, and paths that lead nowhere.
FilesInit ==
  /\ LET f == CHOOSE p \in Paths : TRUE
         d == CHOOSE p \in Paths : p # f IN
     link = [p \in Paths |-> CASE p = f -> [to |-> 1, since |-> 0]
                               [] p = d -> [to |-> 2, since |-> 0]
                               [] OTHER -> None]
  /\ inode = <<[dir |-> FALSE, by |-> "earlier"], [dir |-> TRUE, by |-> "earlier"]>>
  /\ moment = 0

(* path is what a request changes, from what it copies or renames; over is  *)
(* overwrite or recursive.  arrived, the moment of its arrival, is a ghost. *)
FileRequests ==
  [op : {"upload", "delete"}, at : {"stat"}, path : Paths, over : BOOLEAN,
   file : {0}, arrived : {moment}]
  \cup [op : {"save"}, at : {"open"}, path : Paths, over : {TRUE}, file : {0},
        arrived : {moment}]
  \cup [op : {"mkdir", "download"}, at : {"stat"}, path : Paths, over : {FALSE},
        arrived : {moment}]
  \cup [op : {"rename", "copy"}, at : {"source"}, from : Paths, path : Paths,
        over : {FALSE}, file : {0}, arrived : {moment}]

FileArrives(r) == \E q \in FileRequests : Receive(r, q) /\ OnlyRead

----------------------------------------------------------------------------

\* The handler of r makes path p lead to an inode of its own.
LinkNew(r, p, dir) ==
  /\ inode' = Append(inode, [dir |-> dir, by |-> r])
  /\ link' = [link EXCEPT ![p] = [to |-> Len(inode) + 1, since |-> moment + 1]]
  /\ moment' = moment + 1

\* RenameFile and CopyFile look at the source; CopyFile copies no directory.
StatSource(r) ==
  /\ At(r, {"rename", "copy"}, "source")
  /\ LET p == job[r].from IN
     Goto(r, IF Exists(p) /\ (job[r].op = "copy" => ~IsDir(p)) THEN "stat"
             ELSE "refused")
  /\ OnlyRead

\* Mutant of Conflict: RenameFile leaves it to os.Rename.
MutConflictRename(r) == Exists(job[r].path) /\ ~job[r].over /\ job[r].op # "rename"

Conflict(r) == Exists(job[r].path) /\ ~job[r].over

\* What is there already is a conflict, unless an upload may overwrite it.
StatDestination(r) ==
  /\ At(r, {"upload", "mkdir", "rename", "copy"}, "stat")
  /\ LET op == job[r].op IN
     Goto(r, IF Conflict(r) THEN "refused"
             ELSE CASE op = "copy" -> "openSource"
                    [] op = "upload" -> "open"
                    [] OTHER -> "change")
  /\ OnlyRead

(* DeleteFile and DownloadFile want something there; recursive counts for   *)
(* what was a directory then.                                               *)
StatTarget(r) ==
  /\ At(r, {"delete", "download"}, "stat")
  /\ LET p == job[r].path IN
     IF Exists(p) /\ job[r].op = "delete"
     THEN GotoWith(r, "change", "over", job[r].over /\ IsDir(p))
     ELSE Goto(r, IF Exists(p) /\ ~IsDir(p) THEN "log" ELSE "refused")
  /\ OnlyRead

OpenSource(r) ==
  /\ At(r, {"copy"}, "openSource")
  /\ Goto(r, IF Exists(job[r].from) THEN "open" ELSE "failed")
  /\ OnlyRead

\* os.Create, and os.WriteFile's open: a file that is there is emptied.
OpenFile(r) ==
  /\ At(r, {"upload", "save", "copy"}, "open")
  /\ LET p == job[r].path
         i == link[p].to IN
     CASE ~Exists(p) -> LinkNew(r, p, FALSE) /\ GotoWith(r, "write", "file", Len(inode) + 1)
       [] IsDir(p) -> Goto(r, "failed") /\ UNCHANGED filesystem
       [] OTHER -> /\ inode' = [inode EXCEPT ![i].by = r]
                   /\ GotoWith(r, "write", "file", i)
                   /\ UNCHANGED <<link, moment>>
  /\ OnlyFiles

\* The content is written; when that fails, part of it stays.
WriteFile(r) ==
  /\ At(r, {"upload", "save", "copy"}, "write")
  /\ inode' = [inode EXCEPT ![job[r].file].by = r]
  /\ \/ Goto(r, "info") /\ NoFault
     \/ Goto(r, "failed") /\ Fault
  /\ UNCHANGED <<link, moment, trail, staff>>

\* os.Remove, os.RemoveAll: a directory may hold something os.Remove minds.
RemovePath(r) ==
  /\ At(r, {"delete"}, "change")
  /\ LET p == job[r].path IN
     \/ /\ Exists(p) \/ job[r].over
        /\ link' = [link EXCEPT ![p] = None]
        /\ Goto(r, "log")
     \/ /\ ~job[r].over /\ (Exists(p) => IsDir(p))
        /\ Goto(r, "failed")
        /\ UNCHANGED link
  /\ UNCHANGED <<inode, moment>> /\ OnlyFiles

\* Mutant of MakeDirectory: it answers without an entry in the log.
MutMakeDirectorySilent(r) ==
  /\ At(r, {"mkdir"}, "change")
  /\ IF Exists(job[r].path) THEN Goto(r, "refused") /\ UNCHANGED filesystem
     ELSE LinkNew(r, job[r].path, TRUE) /\ Goto(r, "ok")
  /\ OnlyFiles

\* os.MkdirAll is content with a directory that is there already.
MakeDirectory(r) ==
  /\ At(r, {"mkdir"}, "change")
  /\ LET p == job[r].path IN
     IF Exists(p) THEN /\ Goto(r, IF IsDir(p) THEN "info" ELSE "failed")
                       /\ UNCHANGED filesystem
     ELSE LinkNew(r, p, TRUE) /\ Goto(r, "info")
  /\ OnlyFiles

\* os.Rename replaces a file by a file, and never a directory.
RenamePath(r) ==
  /\ At(r, {"rename"}, "change")
  /\ LET p == job[r].from
         q == job[r].path IN
     IF Exists(p) /\ ~IsDir(q) /\ (Exists(q) => ~IsDir(p))
     THEN /\ link' = [link EXCEPT ![p] = None,
                                  ![q] = [to |-> link[p].to, since |-> moment + 1]]
          /\ moment' = moment + 1
          /\ Goto(r, "info")
     ELSE Goto(r, "failed") /\ UNCHANGED <<link, moment>>
  /\ UNCHANGED inode /\ OnlyFiles

(* os.Stat's error is ignored.  When what was made is gone, the handler    *)
(* panics: before it logs where the size goes into the entry, else after.   *)
StatWritten(r) ==
  /\ At(r, {"upload", "save", "copy", "mkdir", "rename"}, "info")
  /\ Goto(r, IF Exists(job[r].path) THEN "log"
             ELSE IF job[r].op \in {"mkdir", "rename"} THEN "logNil" ELSE "panicked")
  /\ OnlyRead

FileStep(r) ==
  \/ FileArrives(r) \/ StatSource(r) \/ StatDestination(r) \/ StatTarget(r)
  \/ OpenSource(r) \/ OpenFile(r) \/ WriteFile(r) \/ RemovePath(r)
  \/ MakeDirectory(r) \/ RenamePath(r) \/ StatWritten(r)

----------------------------------------------------------------------------
(* Properties.                                                              *)

(* A file that was there when a request came in that may not overwrite it   *)
(* is not replaced or emptied by it: RenameFile, CopyFile and UploadFile    *)
(* look for one first, and replace what comes to be there afterwards.       *)
ReplacesOnlyNewcomers ==
  [][\A r \in Requests :
       /\ job[r].op \in {"rename", "copy", "upload"} /\ ~job[r].over
       /\ job'[r] # job[r] /\ Exists(job[r].path)
       /\ \/ link'[job[r].path] # link[job[r].path]
          \/ inode'[link[job[r].path].to] # inode[link[job[r].path].to]
       => link[job[r].path].since > job[r].arrived]_<<handling, filesystem>>
=============================================================================
