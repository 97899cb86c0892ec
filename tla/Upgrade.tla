------------------------------- MODULE Upgrade --------------------------------
(***************************************************************************)
(* The program replaces its own binary: upgrade and rollback requests of    *)
(* the API, and the command "upgrade", all work on one directory without a  *)
(* lock.  dir gives each name its file and file the content, so that a file *)
(* that is open outlives its name, and writing to a name truncates the file *)
(* it already has.                                                          *)
(*                                                                          *)
(* A build is a number, published in that order; a backup is named after    *)
(* the version the copying process runs and the second of the clock.        *)
(***************************************************************************)
EXTENDS Integers, FiniteSets

CONSTANTS Requests,    \* upgrades and rollbacks, each made once
          Builds,      \* bound: builds ever published are 1..Builds
          MaxBackups,  \* maxBackups
          MaxTime,     \* bound: the last second of the clock
          MaxMishaps   \* bound: kinds of mishaps in one behaviour, each any number of times

ASSUME UpgradeAssumption ==
  {Builds, MaxBackups, MaxTime} \subseteq Nat \ {0} /\ MaxMishaps \in 0..4

VARIABLES
  latest,   \* the release GitHub publishes
  now,      \* the clock, in seconds
  dir,      \* dir[n]: the file of name n; the names of the directory
  file,     \* file[f]: its content
  running,  \* the build the server runs, 0 when it does not
  pc,       \* pc[r]: where the request is
  job,      \* job[r]: what it was asked and what it holds
  mishaps   \* "crash", "overlap", "fault", "clash", "blind": what has gone wrong so far

upgradeVars == <<latest, now, dir, file, running, pc, job, mishaps>>
requestVars == <<pc, job>>

(* The name of the binary, of a backup and of a download.                  *)
Exec == <<"exec">>
Backup(label, stamp) == <<"backup", label, stamp>>
Tmp(r) == <<"tmp", r>>
BackupNames == {Backup(v, t) : v \in 1..Builds, t \in 0..MaxTime}

(* Each request creates at most one file of each of these kinds.           *)
Files == {<<"first">>} \cup (Requests \X {"tmp", "backup", "place", "restore"})
NoFile == <<"none">>
Contents == [build : 0..Builds, whole : BOOLEAN, runnable : BOOLEAN]
Truncated == [build |-> 0, whole |-> FALSE, runnable |-> FALSE]
Whole(b) == [build |-> b, whole |-> TRUE, runnable |-> TRUE]
NoJob == [kind |-> "none", label |-> 0, want |-> Truncated, target |-> Exec,
          own |-> Exec, source |-> NoFile, sink |-> NoFile, written |-> FALSE]

Exists(n) == n \in DOMAIN dir
Content(n) == file[dir[n]]
ExecUsable == Exists(Exec) /\ Content(Exec).whole /\ Content(Exec).runnable
ListBackups == {n \in DOMAIN dir : n[1] = "backup"}

(* A request that a crash ends is "cut" where the name of the binary may    *)
(* be missing or its file incomplete, "killed" elsewhere.  One whose answer *)
(* is an error is "unrestored" when the error came there and was not, or    *)
(* not wholly, undone, and "failed" otherwise.                              *)
Errors == {"failed", "unrestored"}
Resting == {"idle", "ok", "killed", "cut"} \cup Errors
Window == {"place", "restore", "rename", "chmod"}
AtWork(r) == pc[r] \notin Resting

Mishap(kind) ==
  /\ kind \in mishaps \/ kind = "blind" \/ Cardinality(mishaps \ {"blind"}) < MaxMishaps
  /\ mishaps' = mishaps \cup {kind}

-----------------------------------------------------------------------------
UpgradeInit ==
  /\ latest = 1 /\ now = 0 /\ running = 0
  /\ dir = [n \in {Exec} |-> <<"first">>]
  /\ file = [f \in Files |->
              IF f = <<"first">> THEN Whole(1) ELSE Truncated]
  /\ pc = [r \in Requests |-> "idle"]
  /\ job = [r \in Requests |-> NoJob]
  /\ mishaps = {}

Publish ==
  /\ latest < Builds /\ latest' = latest + 1
  /\ UNCHANGED <<now, dir, file, running, requestVars, mishaps>>

Tick ==
  /\ now < MaxTime /\ now' = now + 1
  /\ UNCHANGED <<latest, dir, file, running, requestVars, mishaps>>

-----------------------------------------------------------------------------
(* How a request goes on from step p, and where an error takes it.         *)
NextPc(r, p) ==
  IF job[r].kind = "rollback"
  THEN CASE p = "stat" -> "backup" [] p = "backup" -> "remove" [] p = "remove" -> "place"
         [] p = "place" -> "chmod" [] p = "chmod" -> "rotate"
         [] p = "rotate" -> "ok" [] p = "restore" -> "failed"
  ELSE CASE p = "download" -> "backup" [] p = "backup" -> "rotate"
         [] p = "rotate" -> "remove" [] p = "remove" -> "rename"
         [] p = "rename" -> "chmod" [] p = "chmod" -> "ok"
         [] p = "restore" -> "failed"

\* Mutant of ErrorPc: nothing is restored.
MutErrorPcNoRestore(r, p) == "failed"

ErrorPc(r, p) ==
  IF p \in {"rename", "place"} \/ (p = "chmod" /\ job[r].kind # "rollback")
  THEN "restore" ELSE IF p \in Window THEN "unrestored" ELSE "failed"

(* A name is given a file.  A failed upgrade removes its download; a       *)
(* request that is over holds nothing.                                      *)
With(n, f, d) == [m \in DOMAIN d \cup {n} |-> IF m = n THEN f ELSE d[m]]
Without(r, d) == [n \in DOMAIN d \ {Tmp(r)} |-> d[n]]
Goto(r, p, d, j) ==
  /\ pc' = [pc EXCEPT ![r] = p]
  /\ dir' = IF p \in Errors THEN Without(r, d) ELSE d
  /\ job' = [job EXCEPT ![r] = IF p \in Resting THEN NoJob ELSE j]
Step(r, p, d) == Goto(r, p, d, job[r]) /\ UNCHANGED <<latest, now, running>>

(* The disk or the network may fail at any operation, once or for good; one *)
(* that cannot succeed fails without it.                                    *)
Fault == Mishap("fault")
Fails(r, possible) ==
  /\ IF possible THEN Fault ELSE UNCHANGED mishaps
  /\ Step(r, ErrorPc(r, pc[r]), dir) /\ UNCHANGED file

(* A request of the API names its backups after the running build, the     *)
(* command after the build that was installed when it was typed.  It is     *)
(* made blind where an earlier one has left an incomplete binary.           *)
Start(r, p, j) ==
  /\ pc[r] = "idle"
  /\ Goto(r, p, dir, j)
  /\ CASE \E q \in Requests : AtWork(q) -> Mishap("overlap")
       [] (\A q \in Requests : ~AtWork(q)) /\ Exists(Exec) /\ ~Content(Exec).whole ->
            Mishap("blind")
       [] OTHER -> UNCHANGED mishaps
  /\ UNCHANGED <<latest, now, file, running>>

RunWithProgress(r, kind, label, force) ==
  Start(r, IF force \/ latest > label THEN "download" ELSE "ok",
        [NoJob EXCEPT !.kind = kind, !.label = label, !.want = Whole(latest)])

SystemUpgrade(r) ==
  running # 0 /\ \E force \in BOOLEAN : RunWithProgress(r, "api", running, force)
CommandUpgrade(r) ==
  ExecUsable /\ \E force \in BOOLEAN :
                  RunWithProgress(r, "command", Content(Exec).build, force)

(* The handler looks the path up among the backups, and Rollback again.    *)
SystemRollback(r) ==
  /\ running # 0
  /\ \E t \in ListBackups :
       Start(r, "stat", [NoJob EXCEPT !.kind = "rollback", !.label = running,
                                      !.target = t, !.want = Content(t)])
StatTarget(r) ==
  /\ pc[r] = "stat"
  /\ Step(r, IF Exists(job[r].target) THEN "backup" ELSE "failed", dir)
  /\ UNCHANGED <<file, mishaps>>

(* The download has the mode of a temporary file.                          *)
Download(r) ==
  /\ pc[r] = "download"
  /\ \/ /\ Step(r, "backup", With(Tmp(r), <<r, "tmp">>, dir))
        /\ file' = [file EXCEPT ![<<r, "tmp">>] = [job[r].want EXCEPT !.runnable = FALSE]]
        /\ UNCHANGED mishaps
     \/ Fails(r, TRUE)

-----------------------------------------------------------------------------
(* copyFile from one name to another, in three steps: both files are       *)
(* opened and the second one truncated; the bytes are copied; the mode is   *)
(* set, by name.  Of two backups made in the same second, those of the same *)
(* version have the same name and the others the same rank.                 *)
CopySteps == {"backup", "place", "restore"}
\* Mutant of CopyFrom: a rollback puts its own backup back.
MutCopyFromOwn(r) == IF pc[r] = "backup" THEN Exec ELSE job[r].own

CopyFrom(r) == CASE pc[r] = "backup" -> Exec
                 [] pc[r] = "place" -> job[r].target
                 [] pc[r] = "restore" -> job[r].own
CopyTo(r) == IF pc[r] # "backup" THEN Exec
             ELSE IF job[r].own = Exec THEN Backup(job[r].label, now) ELSE job[r].own
Opened(r) == job[r].sink # NoFile

CopyOpen(r) ==
  LET to == CopyTo(r)
      sink == IF Exists(to) THEN dir[to] ELSE <<r, pc[r]>>
  IN
  /\ pc[r] \in CopySteps /\ ~Opened(r)
  /\ \/ /\ Exists(CopyFrom(r))
        /\ Goto(r, pc[r], With(to, sink, dir),
                [job[r] EXCEPT !.source = dir[CopyFrom(r)], !.sink = sink,
                               !.own = IF pc[r] = "backup" THEN to ELSE @])
        /\ file' = [file EXCEPT ![sink] = [Truncated EXCEPT !.runnable = file[sink].runnable]]
        /\ IF pc[r] = "backup" /\ \E n \in ListBackups : n[3] = to[3]
           THEN Mishap("clash") ELSE UNCHANGED mishaps
        /\ UNCHANGED <<latest, now, running>>
     \/ Fails(r, Exists(CopyFrom(r)))

(* The copy of an incomplete file is incomplete; so is what two requests   *)
(* write into one file, and what a full disk leaves.                        *)
CopyWrite(r) ==
  LET j == job[r]
      closed == [j EXCEPT !.source = NoFile, !.sink = NoFile]
      new == [file[j.source] EXCEPT !.runnable = file[j.sink].runnable]
      torn == [Truncated EXCEPT !.runnable = file[j.sink].runnable]
      mixed == file[j.sink].whole /\ file[j.sink].build # new.build
  IN
  /\ pc[r] \in CopySteps /\ Opened(r) /\ ~j.written
  /\ \/ /\ Goto(r, pc[r], dir, [j EXCEPT !.written = TRUE])
        /\ \E c \in {new} \cup (IF mixed THEN {torn} ELSE {}) :
             file' = [file EXCEPT ![j.sink] = c]
        /\ UNCHANGED mishaps
     \/ Fault /\ Goto(r, ErrorPc(r, pc[r]), dir, closed) /\ UNCHANGED file
  /\ UNCHANGED <<latest, now, running>>

CopyMode(r) ==
  LET from == CopyFrom(r)
      to == CopyTo(r)
      closed == [job[r] EXCEPT !.source = NoFile, !.sink = NoFile, !.written = FALSE]
  IN
  /\ pc[r] \in CopySteps /\ job[r].written
  /\ \/ /\ Exists(from) /\ Exists(to)
        /\ file' = [file EXCEPT ![dir[to]].runnable = Content(from).runnable]
        /\ Goto(r, NextPc(r, pc[r]), dir, closed)
        /\ UNCHANGED mishaps
     \/ /\ Goto(r, ErrorPc(r, pc[r]), dir, closed) /\ UNCHANGED file
        /\ IF Exists(from) /\ Exists(to) THEN Fault ELSE UNCHANGED mishaps
  /\ UNCHANGED <<latest, now, running>>

-----------------------------------------------------------------------------
\* Mutant of RotateBackups: one backup less is kept.
MutRotateOneMore(r) ==
  /\ pc[r] = "rotate"
  /\ \E old \in SUBSET ListBackups :
       /\ Cardinality(ListBackups \ old) < MaxBackups
       /\ Step(r, NextPc(r, "rotate"), [n \in DOMAIN dir \ old |-> dir[n]])
  /\ UNCHANGED <<file, mishaps>>

(* The newest of the backups are kept; sort.Slice orders those of the same *)
(* second in any way.  The path of the binary may not resolve when another  *)
(* request has just removed it: then nothing is.                            *)
RotateBackups(r) ==
  /\ pc[r] = "rotate"
  /\ \E old \in SUBSET ListBackups, removed \in SUBSET ListBackups :
       /\ \/ Cardinality(ListBackups \ old) =
               IF Cardinality(ListBackups) <= MaxBackups
               THEN Cardinality(ListBackups) ELSE MaxBackups
          \/ ~Exists(Exec) /\ old = {}
       /\ \A o \in old, k \in ListBackups \ old : o[3] <= k[3]
       /\ \/ removed = old /\ UNCHANGED mishaps
          \/ removed \subseteq old /\ removed # old /\ Fault
       /\ Step(r, NextPc(r, "rotate"), [n \in DOMAIN dir \ removed |-> dir[n]])
  /\ UNCHANGED file

RemoveExec(r) ==
  /\ pc[r] = "remove"
  /\ \/ /\ Exists(Exec)
        /\ Step(r, NextPc(r, "remove"), [n \in DOMAIN dir \ {Exec} |-> dir[n]])
        /\ UNCHANGED <<file, mishaps>>
     \/ Fails(r, Exists(Exec))

RenameTmp(r) ==
  /\ pc[r] = "rename"
  /\ \/ /\ Step(r, "chmod", With(Exec, dir[Tmp(r)], Without(r, dir)))
        /\ UNCHANGED <<file, mishaps>>
     \/ Fails(r, TRUE)

ChmodExec(r) ==
  /\ pc[r] = "chmod"
  /\ \/ /\ Exists(Exec)
        /\ file' = [file EXCEPT ![dir[Exec]].runnable = TRUE]
        /\ Step(r, NextPc(r, "chmod"), dir)
        /\ UNCHANGED mishaps
     \/ Fails(r, Exists(Exec))

RequestStep(r) ==
  \/ Download(r) \/ StatTarget(r) \/ CopyOpen(r) \/ CopyWrite(r) \/ CopyMode(r)
  \/ RotateBackups(r) \/ RemoveExec(r) \/ RenameTmp(r) \/ ChmodExec(r)

-----------------------------------------------------------------------------
(* The kernel runs the file that has the name of the binary.               *)
ExecBinary ==
  /\ running = 0 /\ ExecUsable
  /\ running' = Content(Exec).build
  /\ UNCHANGED <<latest, now, dir, file, requestVars, mishaps>>

(* The end of processes: their requests end where they are.                *)
Kill(dead) ==
  /\ pc' = [r \in Requests |->
       IF r \notin dead \/ ~AtWork(r) THEN pc[r]
       ELSE IF pc[r] \in Window THEN "cut" ELSE "killed"]
  /\ job' = [r \in Requests |-> IF r \in dead THEN NoJob ELSE job[r]]
  /\ UNCHANGED <<latest, now, dir, file>>

ServerRequests == {r \in Requests : job[r].kind \in {"api", "rollback"}}
KillServer == running # 0 /\ Kill(ServerRequests) /\ running' = 0
KillCommand(r) == job[r].kind = "command" /\ Kill({r}) /\ UNCHANGED running
=============================================================================
