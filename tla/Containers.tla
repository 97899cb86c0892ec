------------------------------ MODULE Containers ------------------------------
(***************************************************************************)
(* The container handlers and ContainerService, on one container of Docker: *)
(* its life, the commands run in it, its logs streamed and an interactive   *)
(* shell in it.                                                             *)
(*                                                                          *)
(* Docker is external: a call to it is one step, made or refused.           *)
(***************************************************************************)
EXTENDS Handling

VARIABLES container   \* "running", "stopped", or "removed"

Untouched == UNCHANGED <<container, trail, staff, faults>>
OnlyContainer == UNCHANGED <<trail, staff, faults>>

ContainersInit == container = "running"

\* In ExecInteractive: who is in the way of the goroutines, and where they are.
Shell == [op : {"exec"}, at : {"attach"}, shell : {TRUE}, browser : {TRUE},
          cancelled : {FALSE}, ping : {"wait"}, out : {"read"}, in : {"read"}]

ContainerRequests ==
  [op : {"start", "stop", "restart", "remove", "run", "logs"}, at : {"call"},
   over : BOOLEAN] \cup Shell

ContainerArrives(r) == \E q \in ContainerRequests : Receive(r, q) /\ Untouched

----------------------------------------------------------------------------

\* Start, Stop, Restart, Remove (over: force).  Docker ends the shells that run.
CallDocker(r) ==
  /\ At(r, {"start", "stop", "restart", "remove"}, "call")
  /\ LET op == job[r].op IN
     IF container = "removed" \/ (op = "remove" /\ container = "running" /\ ~job[r].over)
     THEN Goto(r, "refused") /\ UNCHANGED container
     ELSE /\ container' = CASE op = "stop" -> "stopped"
                            [] op = "remove" -> "removed"
                            [] OTHER -> "running"
          /\ job' = [q \in Requests |->
               CASE q = r -> [job[r] EXCEPT !.at = "audit"]
                 [] job[q].op = "exec" /\ op # "start" -> [job[q] EXCEPT !.shell = FALSE]
                 [] OTHER -> job[q]]
  /\ OnlyContainer

(* Exec: create, attach, read all the output, inspect.  The command ends, or *)
(* the container does.                                                      *)
RunInContainer(r) ==
  /\ At(r, {"run"}, "call")
  /\ \/ container = "running" /\ Goto(r, "audit")
     \/ Goto(r, "failed")
  /\ Untouched

(* The user is looked for under "userID" and "username", which nobody sets, *)
(* so the entry is of user 0, whom audit_logs cannot refer to.              *)
AuditContainer(r) ==
  /\ At(r, {"start", "stop", "restart", "remove", "run"}, "audit")
  /\ Log(r, FALSE)
  /\ Goto(r, "ok")
  /\ UNCHANGED <<container, staff, faults>>

\* StreamLogs: the reader is opened, then read until it ends or the browser goes.
OpenLogs(r) ==
  /\ At(r, {"logs"}, "call")
  /\ Goto(r, IF container = "removed" THEN "refused" ELSE "streaming")
  /\ Untouched

EndLogs(r) == At(r, {"logs"}, "streaming") /\ Goto(r, "ok") /\ Untouched

----------------------------------------------------------------------------
(* ExecInteractive: three goroutines on one WebSocket and one connection to *)
(* Docker, both closed when the three are done.                             *)

Attach(r) ==
  /\ At(r, {"exec"}, "attach")
  /\ Goto(r, IF container = "running" THEN "open" ELSE "refused")
  /\ Untouched

Open(r) == At(r, {"exec"}, "open")
Set(r, who, where) == job' = [job EXCEPT ![r][who] = where]
End(r, who) == job' = [job EXCEPT ![r][who] = "done", ![r].cancelled = TRUE]

\* The shell exits; the browser goes away.
ShellExits(r) == Open(r) /\ job[r].shell /\ Set(r, "shell", FALSE) /\ Untouched
BrowserLeaves(r) == Open(r) /\ job[r].browser /\ Set(r, "browser", FALSE) /\ Untouched

\* The ping goroutine sees the context cancelled, or cannot write.
PingEnds(r) ==
  /\ Open(r) /\ job[r].ping = "wait"
  /\ job[r].cancelled \/ ~job[r].browser
  /\ End(r, "ping")
  /\ Untouched

(* Its tick comes while the other goroutine writes to the same WebSocket:   *)
(* gorilla panics, in a goroutine nothing recovers.                         *)
PingInWrite(r) ==
  /\ Open(r) /\ job[r].ping = "wait" /\ job[r].out = "write"
  /\ Die
  /\ Untouched

\* Docker -> WebSocket: Read waits for output, or for the end of the shell.
OutReads(r) ==
  /\ Open(r) /\ job[r].out = "read"
  /\ IF job[r].shell THEN Set(r, "out", "write") ELSE End(r, "out")
  /\ Untouched

\* Then it writes; before the next Read it looks at the context.
OutWrites(r) ==
  /\ Open(r) /\ job[r].out = "write"
  /\ IF job[r].cancelled \/ ~job[r].browser THEN End(r, "out")
     ELSE Set(r, "out", "read")
  /\ Untouched

\* Mutant of InEnds: ReadMessage without a deadline.
MutInEndsNoDeadline(r) ==
  /\ Open(r) /\ job[r].in = "read" /\ ~job[r].browser /\ End(r, "in") /\ Untouched

(* WebSocket -> Docker: ReadMessage fails when the browser is gone, or 60   *)
(* seconds after its last pong, when nobody pings any more.                 *)
InEnds(r) ==
  /\ Open(r) /\ job[r].in = "read"
  /\ job[r].ping = "done" \/ ~job[r].browser
  /\ End(r, "in")
  /\ Untouched

\* wg.Wait returns: both connections are closed.
Close(r) ==
  /\ Open(r) /\ <<job[r].ping, job[r].out, job[r].in>> = <<"done", "done", "done">>
  /\ Goto(r, "ok")
  /\ Untouched

Goroutines(r) == PingEnds(r) \/ OutWrites(r) \/ InEnds(r) \/ Close(r)

ContainerStep(r) ==
  \/ ContainerArrives(r) \/ CallDocker(r) \/ RunInContainer(r) \/ AuditContainer(r)
  \/ OpenLogs(r) \/ EndLogs(r) \/ Attach(r) \/ ShellExits(r) \/ BrowserLeaves(r)
  \/ PingInWrite(r) \/ OutReads(r) \/ Goroutines(r)

(* The goroutines run; a Read that has the end of the shell before it, or   *)
(* the deadline of a Read, comes.  A shell need not say anything.           *)
ContainerFairness ==
  \A r \in Requests :
    /\ WF_<<handling, container>>(Goroutines(r))
    /\ WF_<<handling, container>>(OutReads(r) /\ ~job[r].shell)

(* When the shell has exited, the three goroutines end and the handler      *)
(* returns: none of them is left in a Read of a connection that is closed   *)
(* only after all of them.                                                  *)
ExecEnds == \A r \in Requests : (Open(r) /\ ~job[r].shell) ~> ~Open(r)
=============================================================================
