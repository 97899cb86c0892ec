------------------------------ MODULE Handling -------------------------------
(***************************************************************************)
(* What the handlers of the management requests share: the requests being   *)
(* handled, and the audit log.                                              *)
(*                                                                          *)
(* A request is handled once.  Its job is a record of its input, of the     *)
(* locals of its handler and of where the handler is; a step ends where     *)
(* another handler can act, after one SQL statement or one file operation.  *)
(***************************************************************************)
EXTENDS Naturals, FiniteSets

CONSTANTS Requests,    \* the requests
          MaxFaults    \* bound: statements and writes that fail

VARIABLES
  job,      \* job[r]: what the handler of r does, in a record that has op and at
  trail,    \* trail[r]: the rows of audit_logs r has written
  staff,    \* is the row of the user who makes the requests there
  faults    \* statements and writes that have failed

handling == <<job, trail, staff, faults>>

Idle == [op |-> "none", at |-> "idle"]
Ends == {"ok", "refused", "failed", "panicked", "lost"}
Running(r) == job[r].at \notin Ends \cup {"idle"}

HandlingInit == /\ job = [r \in Requests |-> Idle]
                /\ trail = [r \in Requests |-> 0]
                /\ staff = TRUE
                /\ faults = 0

\* A request arrives.
Receive(r, arrived) == job[r] = Idle /\ job' = [job EXCEPT ![r] = arrived]

At(r, ops, at) == job[r].op \in ops /\ job[r].at = at

\* The handler of r goes on at a place, or answers.
Goto(r, at) == job' = [job EXCEPT ![r].at = at]

\* The same, with a local the handler has set.
GotoWith(r, at, local, value) ==
  job' = [job EXCEPT ![r].at = at, ![r][local] = value]

\* A statement, or a write, fails: SQLITE_BUSY, a full disk.
Fault == faults < MaxFaults /\ faults' = faults + 1
NoFault == UNCHANGED faults

(* AuditService.Log.  The row refers to its user, so the INSERT fails when   *)
(* the user has been deleted meanwhile; the handlers ignore it.             *)
Log(r, known) ==
  trail' = IF known THEN [trail EXCEPT ![r] = @ + 1] ELSE trail

\* Every handler but those of containers ends so: the entry, then the answer,
\* which panics at "logNil", where the handler holds a nil pointer.
LogAndAnswer(r) == /\ job[r].at \in {"log", "logNil"}
                   /\ Log(r, staff)
                   /\ Goto(r, IF job[r].at = "log" THEN "ok" ELSE "panicked")
                   /\ UNCHANGED <<staff, faults>>

(* DELETE of the user (module UserAdmin); the rows of audit_logs stay, with *)
(* no user.                                                                 *)
UserDeleted == staff /\ staff' = FALSE /\ UNCHANGED <<job, trail, faults>>

\* A panic no handler recovers, in a goroutine of its own, ends the process.
Die == job' = [r \in Requests |-> IF Running(r) THEN [job[r] EXCEPT !.at = "lost"]
                                  ELSE job[r]]
=============================================================================
