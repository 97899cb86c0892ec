------------------------------- MODULE Release --------------------------------
(***************************************************************************)
(* The life of an installation: systemd starts the binary that has the     *)
(* name, the process migrates the database and serves, administrators       *)
(* upgrade it, roll it back and restart it, and it crashes anywhere.        *)
(***************************************************************************)
EXTENDS Upgrade, Migrations

CONSTANTS Known,      \* Known[b]: versioned migrations build b knows
          MaxCrashes  \* bound: crashes

ASSUME ReleaseAssumption ==
  /\ Known \in [1..Builds -> 0..Len(Plan)]
  /\ MaxCrashes \in Nat

VARIABLE crashes

vars == <<upgradeVars, migrationVars, crashes>>

Init == UpgradeInit /\ MigrationsInit /\ crashes = 0

Serving == phase = "up"
Upgrading(A) == A /\ UNCHANGED <<migrationVars, crashes>>

Request(r) ==
  \/ Serving /\ Upgrading(SystemUpgrade(r) \/ SystemRollback(r))
  \/ Upgrading(CommandUpgrade(r))

SystemdStart == ExecBinary /\ BeginMigrations /\ UNCHANGED crashes

Migrate ==
  /\ \E b \in 1..Builds : running = b /\ RunMigrations(Known[b])
  /\ IF phase' = "down" THEN running' = 0 ELSE UNCHANGED running
  /\ UNCHANGED <<latest, now, dir, file, requestVars, mishaps, crashes>>

(* systemctl restart ends the process with its requests, a crash ends any  *)
(* one of the processes.                                                    *)
SystemRestart ==
  /\ Serving /\ KillServer /\ EndProcess
  /\ IF \E r \in ServerRequests : AtWork(r) THEN Mishap("overlap") ELSE UNCHANGED mishaps
  /\ UNCHANGED crashes
Crash ==
  /\ crashes < MaxCrashes /\ crashes' = crashes + 1
  /\ \/ KillServer /\ EndProcess
     \/ \E r \in Requests : KillCommand(r) /\ UNCHANGED migrationVars
  /\ Mishap("crash")

Next ==
  \/ Upgrading(Publish) \/ Upgrading(Tick)
  \/ \E r \in Requests : Request(r) \/ Upgrading(RequestStep(r))
  \/ SystemdStart \/ Migrate \/ SystemRestart \/ Crash

Fairness ==
  /\ WF_vars(SystemdStart) /\ WF_vars(Migrate)
  /\ \A r \in Requests : WF_vars(Upgrading(RequestStep(r)))

Spec == Init /\ [][Next]_vars /\ Fairness

-----------------------------------------------------------------------------
TypeOK ==
  /\ MigrationsTypeOK
  /\ latest \in 1..Builds /\ now \in 0..MaxTime /\ running \in 0..Builds
  /\ DOMAIN dir \subseteq {Exec} \cup BackupNames \cup {Tmp(r) : r \in Requests}
  /\ \A n \in DOMAIN dir : dir[n] \in Files
  /\ file \in [Files -> Contents]
  /\ (running = 0) = (phase = "down")

Quiet == \A r \in Requests : ~AtWork(r)

(* Requests follow each other, at least a second apart, and none is made    *)
(* where an earlier one has left an incomplete binary.  Nothing in the code *)
(* sees to that; three that overlap, or two and an error of the disk, can   *)
(* leave no whole build, as each truncates, rotates away or removes what    *)
(* the others still have; so can an upgrade that backs up an incomplete     *)
(* binary and rotates the last whole backup away.                           *)
Orderly == mishaps \cap {"overlap", "clash", "blind"} = {}

(* The administrators chose a backup that a crash or an error had left      *)
(* incomplete, which ListBackups offers like any other, and it was made the *)
(* binary.                                                                  *)
Spoiled == \E q \in Requests : /\ file[<<q, "place">>].runnable
                               /\ ~file[<<q, "place">>].whole

(* Whatever the sequence of upgrades and rollbacks, wherever a crash ends   *)
(* them and however many of their file operations fail, some whole build is *)
(* left under a name: the binary, a backup or a download.  An incomplete    *)
(* backup that is chosen does not lose it, as what ran before was copied.   *)
SomeBuildSurvives == Orderly => \E n \in DOMAIN dir : Content(n).whole

(* Two requests that overlap in any way, when nothing else goes wrong, leave *)
(* some whole build: what one removes or rotates away the other has copied.  *)
PairLeavesBuild ==
  mishaps \subseteq {"overlap"} /\ Cardinality({r \in Requests : pc[r] # "idle"}) <= 2
    => \E n \in DOMAIN dir : Content(n).whole

(* A request was ended by a crash between os.Remove and the chmod of the    *)
(* new binary; or one of its errors was not undone: an error there, and     *)
(* another in the copy that restores, whose own error is ignored; or that   *)
(* of the chmod of a rollback, after which nothing is restored.             *)
Unrestored == \E r \in Requests : pc[r] \in {"cut", "unrestored"}

(* Between requests the binary can be started: however many of their file   *)
(* operations failed, the old binary or a new one is there, whole and with  *)
(* its mode, unless an error was not undone.                                *)
BinaryStays == Orderly /\ Quiet /\ ~ExecUsable => Spoiled \/ Unrestored

(* A request that is answered with success, and that no other overlapped,  *)
(* leaves the build it announced: the release it downloaded, or what the    *)
(* chosen backup held when the administrator chose it.  Not so for the      *)
(* backup that was made in the same second, which the rollback overwrites.  *)
CompletedAsAnnounced ==
  [][\A r \in Requests :
       /\ pc[r] \in {"chmod", "rotate"} /\ pc'[r] = "ok"
       /\ "overlap" \notin mishaps /\ job[r].target # job[r].own
       => /\ Exec \in DOMAIN dir'
          /\ file'[dir'[Exec]] = [job[r].want EXCEPT !.runnable = TRUE]]_vars

(* After a crash or a restart the server serves again, or stays down for one *)
(* of these reasons and no other: a migration that an end of the process    *)
(* had left halfway, or a binary that requests which overlapped, a crash,    *)
(* an error that was not undone or an incomplete backup left unusable.       *)
ComesBack ==
  (phase = "down") ~>
    \/ Serving
    \/ phase = "down" /\ failing /\ Halfway
    \/ phase = "down" /\ ~ExecUsable /\ (~Orderly \/ Spoiled \/ Unrestored)
=============================================================================
