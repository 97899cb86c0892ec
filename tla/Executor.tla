------------------------------- MODULE Executor -------------------------------
(***************************************************************************)
(* Executions of http-remote: the executions, commands and apps tables,    *)
(* the goroutine Execute and its two output readers, the child process,    *)
(* the live subscribers of the SSE handler, deletion of commands and of    *)
(* the app, and a crash of the server.                                     *)
(*                                                                         *)
(* One app owns all of Commands.  A step is what happens between two       *)
(* points where another goroutine can act: one SQL statement, one critical *)
(* section, one channel operation.                                         *)
(***************************************************************************)
EXTENDS OutputLimit, FiniteSets

CONSTANTS Execs,       \* identifiers of executions
          Commands,    \* identifiers of commands
          Clients,     \* SSE requests, one stream each
          Cap,         \* capacity of a subscriber's channel, 100 in Subscribe
          MaxLines,    \* bound: lines a process writes
          LineSizes,   \* sizes of lines
          TokenLimit,  \* the longest line a bufio.Scanner takes, 64 KiB
          MaxCrashes,  \* bound: crashes of the server
          DbFaults     \* may the UPDATEs of Execute fail (their error is ignored)

ExitCodes == {-1, 0, 1}   \* killed or unknown, success, failure
NoExit == 256             \* exit_code IS NULL

ASSUME ExecutorAssumption == /\ Execs # {}
                             /\ Commands # {}
                             /\ Cap \in Nat \ {0}
                             /\ MaxLines \in Nat
                             /\ LineSizes \subseteq Nat \ {0}
                             /\ TokenLimit \in Nat
                             /\ MaxCrashes \in Nat
                             /\ DbFaults \in BOOLEAN

VARIABLES
  commands,  \* rows of the commands table
  appAlive,  \* is the row of the app there
  row,       \* row[e]: the row of e, status "absent" before, "deleted" after
  cmdOf,     \* cmdOf[e]: execution.CommandID
  runPc,     \* runPc[e]: where the request and the goroutine of e are
  verdict,   \* verdict[e]: the locals status and exitCode of Execute
  buf,       \* buf[e]: the local output of Execute
  proc,      \* proc[e]: the child process
  pipe,      \* pipe[e][s]: lines written and not yet scanned
  emitted,   \* emitted[e][s]: number of lines written
  reader,    \* reader[e][s]: where the goroutine streamOutput is
  held,      \* held[e][s]: its local line
  subs,      \* subs[e]: s.streams[e], a channel is known by its client
  chan,      \* chan[c]: what is buffered in the channel of c
  cpc,       \* cpc[c]: where streamExecution is
  want,      \* want[c]: the execution c asked for
  got,       \* got[c]: lines written to c
  answer,    \* answer[c]: how the response of c ended
  delPc,     \* the admin's DELETE request in progress
  delCmd,    \* the command it deletes
  crashes

dbVars == <<commands, appAlive, row, cmdOf>>
runVars == <<runPc, verdict>>
ioVars == <<buf, proc, pipe, emitted, reader, held>>
clientVars == <<subs, chan, cpc, want, got, answer>>
adminVars == <<delPc, delCmd>>
vars == <<dbVars, runVars, ioVars, clientVars, adminVars, crashes>>

-------------------------------------------------------------------------------
(* Types *)

Unfinished == {"pending", "running"}
Finished == {"success", "failed"}
Statuses == {"absent", "deleted"} \cup Unfinished \cup Finished
Row == [status : Statuses,
        exit : ExitCodes \cup {NoExit}, output : Output]
BlankRow(st) == [status |-> st, exit |-> NoExit, output |-> EmptyOutput]

\* "inserted": the handler has inserted the row and not yet read it back;
\* "aborted": the row was gone by then, Execute is never started.
BeforeStart == {"inserted", "lookup", "lookupCommand", "lookupApp", "stat",
                "mark", "launch"}
Active == BeforeStart \cup {"wait", "join", "finish", "broadcast"}
RunPcs == {"new", "aborted", "done", "lost"} \cup Active

OutputMsg == [kind : {"output"}, line : Line]
CompleteMsg == [kind : {"complete"}, status : Finished]
Msg == OutputMsg \cup CompleteMsg

NoAnswer == [kind |-> "none", status |-> "absent", exit |-> NoExit]
Answer == [kind : {"none", "notfound", "replay", "live", "gone"},
           status : Statuses, exit : ExitCodes \cup {NoExit}]

TypeOK ==
  /\ commands \subseteq Commands
  /\ appAlive \in BOOLEAN
  /\ row \in [Execs -> Row]
  /\ cmdOf \in [Execs -> Commands]
  /\ runPc \in [Execs -> RunPcs]
  /\ verdict \in [Execs -> [status : Finished, exit : ExitCodes]]
  /\ buf \in [Execs -> Output]
  /\ proc \in [Execs -> {"none", "alive", "exited"}]
  /\ pipe \in [Execs -> [Streams -> Seq(Line)]]
  /\ emitted \in [Execs -> [Streams -> Nat]]
  /\ reader \in [Execs -> [Streams -> {"off", "scan", "send", "eof"}]]
  /\ held \in [Execs -> [Streams -> Line]]
  /\ subs \in [Execs -> SUBSET Clients]
  /\ chan \in [Clients -> Seq(Msg)]
  /\ cpc \in [Clients -> {"idle", "subscribe", "stream", "done"}]
  /\ want \in [Clients -> Execs]
  /\ got \in [Clients -> Seq(Line)]
  /\ answer \in [Clients -> Answer]
  /\ delPc \in {"idle", "command", "app"}
  /\ delCmd \in Commands
  /\ crashes \in Nat

Init ==
  /\ commands = Commands
  /\ appAlive = TRUE
  /\ row = [e \in Execs |-> BlankRow("absent")]
  /\ cmdOf = [e \in Execs |-> CHOOSE c \in Commands : TRUE]
  /\ runPc = [e \in Execs |-> "new"]
  /\ verdict = [e \in Execs |-> [status |-> "failed", exit |-> -1]]
  /\ buf = [e \in Execs |-> EmptyOutput]
  /\ proc = [e \in Execs |-> "none"]
  /\ pipe = [e \in Execs |-> [s \in Streams |-> <<>>]]
  /\ emitted = [e \in Execs |-> [s \in Streams |-> 0]]
  /\ reader = [e \in Execs |-> [s \in Streams |-> "off"]]
  /\ held = [e \in Execs |->
                [s \in Streams |-> [from |-> s, n |-> 0, size |-> 0]]]
  /\ subs = [e \in Execs |-> {}]
  /\ chan = [c \in Clients |-> <<>>]
  /\ cpc = [c \in Clients |-> "idle"]
  /\ want = [c \in Clients |-> CHOOSE e \in Execs : TRUE]
  /\ got = [c \in Clients |-> <<>>]
  /\ answer = [c \in Clients |-> NoAnswer]
  /\ delPc = "idle"
  /\ delCmd = CHOOSE c \in Commands : TRUE
  /\ crashes = 0

-------------------------------------------------------------------------------
(* The request that starts an execution: CommandHandler.Execute, Deploy *)

Present(e) == row[e].status \notin {"absent", "deleted"}

\* CreateExecution's INSERT; the foreign key on command_id refuses it when the
\* command has just been deleted, and then the request fails with no effect.
Insert(e, c) ==
  /\ runPc[e] = "new"
  /\ c \in commands
  /\ row' = [row EXCEPT ![e] = BlankRow("pending")]
  /\ cmdOf' = [cmdOf EXCEPT ![e] = c]
  /\ runPc' = [runPc EXCEPT ![e] = "inserted"]
  /\ UNCHANGED <<commands, appAlive, verdict, ioVars, clientVars, adminVars,
                 crashes>>

\* CreateExecution reads the row back; the handler then starts the goroutine.
Start(e) ==
  /\ runPc[e] = "inserted"
  /\ runPc' = [runPc EXCEPT ![e] = IF Present(e) THEN "lookup" ELSE "aborted"]
  /\ UNCHANGED <<dbVars, verdict, ioVars, clientVars, adminVars, crashes>>

-------------------------------------------------------------------------------
(* The goroutine Execute *)

\* Mutant of Fail: an early return that forgets finishExecution.
MutFailUnrecorded(e) ==
  /\ runPc' = [runPc EXCEPT ![e] = "broadcast"]
  /\ verdict' = [verdict EXCEPT ![e] = [status |-> "failed", exit |-> -1]]

\* An error of a step before the process runs: finishExecution(failed, -1).
Fail(e) ==
  /\ runPc' = [runPc EXCEPT ![e] = "finish"]
  /\ verdict' = [verdict EXCEPT ![e] = [status |-> "failed", exit |-> -1]]

Step(e, found, next) ==
  \/ /\ found
     /\ runPc' = [runPc EXCEPT ![e] = next]
     /\ UNCHANGED verdict
  \/ ~found /\ Fail(e)

LookupExecution(e) ==
  /\ runPc[e] = "lookup"
  /\ Step(e, Present(e), "lookupCommand")
  /\ UNCHANGED <<dbVars, ioVars, clientVars, adminVars, crashes>>

LookupCommand(e) ==
  /\ runPc[e] = "lookupCommand"
  /\ Step(e, cmdOf[e] \in commands, "lookupApp")
  /\ UNCHANGED <<dbVars, ioVars, clientVars, adminVars, crashes>>

LookupApp(e) ==
  /\ runPc[e] = "lookupApp"
  /\ Step(e, appAlive, "stat")
  /\ UNCHANGED <<dbVars, ioVars, clientVars, adminVars, crashes>>

\* os.Stat of the working directory
StatWorkingDir(e) ==
  /\ runPc[e] = "stat"
  /\ \E exists \in BOOLEAN : Step(e, exists, "mark")
  /\ UNCHANGED <<dbVars, ioVars, clientVars, adminVars, crashes>>

\* Mutant of UpdateRow: the row is replaced, so a deleted one comes back.
MutUpsertRow(e, r) ==
  \/ row' = [row EXCEPT ![e] = r]
  \/ DbFaults /\ UNCHANGED row

\* UPDATE executions SET ... WHERE id = ?: no effect on a deleted row
UpdateRow(e, r) ==
  \/ row' = IF Present(e) THEN [row EXCEPT ![e] = r] ELSE row
  \/ DbFaults /\ UNCHANGED row

MarkRunning(e) ==
  /\ runPc[e] = "mark"
  /\ UpdateRow(e, [row[e] EXCEPT !.status = "running"])
  /\ runPc' = [runPc EXCEPT ![e] = "launch"]
  /\ UNCHANGED <<commands, appAlive, cmdOf, verdict, ioVars, clientVars,
                 adminVars, crashes>>

\* the two pipes and cmd.Start; any of them may fail
Launch(e) ==
  /\ runPc[e] = "launch"
  /\ \/ /\ runPc' = [runPc EXCEPT ![e] = "wait"]
        /\ proc' = [proc EXCEPT ![e] = "alive"]
        /\ reader' = [reader EXCEPT ![e] = [s \in Streams |-> "scan"]]
        /\ UNCHANGED verdict
     \/ Fail(e) /\ UNCHANGED <<proc, reader>>
  /\ UNCHANGED <<dbVars, buf, pipe, emitted, held, clientVars, adminVars,
                 crashes>>

\* cmd.Wait returns and closes the read ends of the pipes: of the lines not
\* yet scanned only those already in the scanner's own buffer remain.
WaitReturns(e) ==
  /\ runPc[e] = "wait"
  /\ proc[e] = "exited"
  /\ \E kept \in [Streams -> 0..MaxLines] :
       pipe' = [pipe EXCEPT ![e] =
                    [s \in Streams |->
                        IF kept[s] < Len(pipe[e][s])
                        THEN SubSeq(pipe[e][s], 1, kept[s]) ELSE pipe[e][s]]]
  /\ runPc' = [runPc EXCEPT ![e] = "join"]
  /\ UNCHANGED <<dbVars, verdict, buf, proc, emitted, reader, held, clientVars,
                 adminVars, crashes>>

\* Mutant of Join: wg.Wait is left out.
MutJoinAtOnce(e) ==
  /\ runPc[e] = "join"
  /\ runPc' = [runPc EXCEPT ![e] = "finish"]
  /\ verdict' = [verdict EXCEPT ![e].status =
                      IF verdict[e].exit = 0 THEN "success" ELSE "failed"]
  /\ UNCHANGED <<dbVars, ioVars, clientVars, adminVars, crashes>>

\* Mutant of Join: the completion is broadcast before the verdict is recorded.
MutJoinBroadcastFirst(e) ==
  /\ runPc[e] = "join"
  /\ \A s \in Streams : reader[e][s] = "eof"
  /\ runPc' = [runPc EXCEPT ![e] = "broadcast"]
  /\ verdict' = [verdict EXCEPT ![e].status =
                      IF verdict[e].exit = 0 THEN "success" ELSE "failed"]
  /\ UNCHANGED <<dbVars, ioVars, clientVars, adminVars, crashes>>

\* Mutant of Join: a killed process counts as a success.
MutJoinKilledSucceeds(e) ==
  /\ runPc[e] = "join"
  /\ \A s \in Streams : reader[e][s] = "eof"
  /\ runPc' = [runPc EXCEPT ![e] = "finish"]
  /\ verdict' = [verdict EXCEPT ![e].status =
                      IF verdict[e].exit <= 0 THEN "success" ELSE "failed"]
  /\ UNCHANGED <<dbVars, ioVars, clientVars, adminVars, crashes>>

\* wg.Wait; the status follows from what cmd.Wait returned
Join(e) ==
  /\ runPc[e] = "join"
  /\ \A s \in Streams : reader[e][s] = "eof"
  /\ runPc' = [runPc EXCEPT ![e] = "finish"]
  /\ verdict' = [verdict EXCEPT ![e].status =
                      IF verdict[e].exit = 0 THEN "success" ELSE "failed"]
  /\ UNCHANGED <<dbVars, ioVars, clientVars, adminVars, crashes>>

\* Mutant of FinishExecution: broadcastComplete is forgotten.
MutFinishSilently(e) ==
  /\ runPc[e] = "finish"
  /\ UpdateRow(e, [status |-> verdict[e].status, exit |-> verdict[e].exit,
                   output |-> buf[e]])
  /\ runPc' = [runPc EXCEPT ![e] = "done"]
  /\ UNCHANGED <<commands, appAlive, cmdOf, verdict, ioVars, clientVars,
                 adminVars, crashes>>

FinishExecution(e) ==
  /\ runPc[e] = "finish"
  /\ UpdateRow(e, [status |-> verdict[e].status, exit |-> verdict[e].exit,
                   output |-> buf[e]])
  /\ runPc' = [runPc EXCEPT ![e] = "broadcast"]
  /\ UNCHANGED <<commands, appAlive, cmdOf, verdict, ioVars, clientVars,
                 adminVars, crashes>>

\* A send that does not block: dropped when the channel is full.
Send(e, m) ==
  chan' = [c \in Clients |-> IF c \in subs[e] /\ Len(chan[c]) < Cap
                            THEN Append(chan[c], m) ELSE chan[c]]

BroadcastComplete(e) ==
  /\ runPc[e] = "broadcast"
  /\ Send(e, [kind |-> "complete", status |-> verdict[e].status])
  /\ runPc' = [runPc EXCEPT ![e] = "done"]
  /\ UNCHANGED <<dbVars, verdict, ioVars, subs, cpc, want, got, answer,
                 adminVars, crashes>>

-------------------------------------------------------------------------------
(* The child process and the goroutines streamOutput *)

Write(e, s, z) ==
  /\ proc[e] = "alive"
  /\ emitted[e]["stdout"] + emitted[e]["stderr"] < MaxLines
  /\ emitted' = [emitted EXCEPT ![e][s] = @ + 1]
  /\ pipe' = [pipe EXCEPT ![e][s] =
                  Append(@, [from |-> s, n |-> emitted[e][s] + 1, size |-> z])]
  /\ UNCHANGED <<dbVars, runVars, buf, proc, reader, held, clientVars,
                 adminVars, crashes>>

\* It ends by itself or is killed when the timeout of the context expires.
Exit(e, x) ==
  /\ proc[e] = "alive"
  /\ proc' = [proc EXCEPT ![e] = "exited"]
  /\ verdict' = [verdict EXCEPT ![e].exit = x]
  /\ UNCHANGED <<dbVars, runPc, buf, pipe, emitted, reader, held, clientVars,
                 adminVars, crashes>>

\* scanner.Scan and the critical section on outputMu
Scan(e, s) ==
  /\ reader[e][s] = "scan"
  /\ pipe[e][s] # <<>> /\ Head(pipe[e][s]).size <= TokenLimit
  /\ pipe' = [pipe EXCEPT ![e][s] = Tail(@)]
  /\ held' = [held EXCEPT ![e][s] = Head(pipe[e][s])]
  /\ buf' = [buf EXCEPT ![e] = AddLine(@, Head(pipe[e][s]))]
  /\ reader' = [reader EXCEPT ![e][s] = "send"]
  /\ UNCHANGED <<dbVars, runVars, proc, emitted, clientVars, adminVars, crashes>>

BroadcastLine(e, s) ==
  /\ reader[e][s] = "send"
  /\ Send(e, [kind |-> "output", line |-> held[e][s]])
  /\ reader' = [reader EXCEPT ![e][s] = "scan"]
  /\ UNCHANGED <<dbVars, runVars, buf, proc, pipe, emitted, held, subs, cpc,
                 want, got, answer, adminVars, crashes>>

\* Scan returns false: end of file, or the read end closed by cmd.Wait; or a
\* line that is too long, behind which nothing is read, be the process alive.
ScanEnds(e, s) ==
  \/ pipe[e][s] = <<>> /\ proc[e] = "exited"
  \/ pipe[e][s] # <<>> /\ Head(pipe[e][s]).size > TokenLimit

\* Mutant of ReaderEnds: wg.Done is forgotten.
MutReaderNotDone(e, s) ==
  /\ reader[e][s] = "scan"
  /\ ScanEnds(e, s)
  /\ reader' = [reader EXCEPT ![e][s] = "off"]
  /\ UNCHANGED <<dbVars, runVars, buf, proc, pipe, emitted, held, clientVars,
                 adminVars, crashes>>

ReaderEnds(e, s) ==
  /\ reader[e][s] = "scan"
  /\ ScanEnds(e, s)
  /\ reader' = [reader EXCEPT ![e][s] = "eof"]
  /\ UNCHANGED <<dbVars, runVars, buf, proc, pipe, emitted, held, clientVars,
                 adminVars, crashes>>

-------------------------------------------------------------------------------
(* StreamHandler.streamExecution *)

Done(c, a) == /\ cpc' = [cpc EXCEPT ![c] = "done"]
              /\ answer' = [answer EXCEPT ![c] = a]

\* The request reads the execution: 404, a replay of what is stored, or on to
\* Subscribe.  A client knows the id of e from the response that created it or from
\* the list of executions.
Open(c, e) ==
  /\ cpc[c] = "idle"
  /\ runPc[e] # "new"
  /\ want' = [want EXCEPT ![c] = e]
  /\ \/ /\ ~Present(e)
        /\ Done(c, [NoAnswer EXCEPT !.kind = "notfound"])
        /\ UNCHANGED got
     \/ /\ row[e].status \in Finished
        /\ got' = [got EXCEPT ![c] = row[e].output.lines]
        /\ Done(c, [kind |-> "replay", status |-> row[e].status,
                    exit |-> row[e].exit])
     \/ /\ row[e].status \in Unfinished
        /\ cpc' = [cpc EXCEPT ![c] = "subscribe"]
        /\ UNCHANGED <<got, answer>>
  /\ UNCHANGED <<dbVars, runVars, ioVars, subs, chan, adminVars, crashes>>

Subscribe(c) ==
  /\ cpc[c] = "subscribe"
  /\ subs' = [subs EXCEPT ![want[c]] = @ \cup {c}]
  /\ cpc' = [cpc EXCEPT ![c] = "stream"]
  /\ UNCHANGED <<dbVars, runVars, ioVars, chan, want, got, answer, adminVars,
                 crashes>>

Unsubscribe(c) == /\ subs' = [subs EXCEPT ![want[c]] = @ \ {c}]
                  /\ chan' = [chan EXCEPT ![c] = <<>>]

ReceiveLine(c) ==
  /\ cpc[c] = "stream"
  /\ chan[c] # <<>>
  /\ Head(chan[c]).kind = "output"
  /\ chan' = [chan EXCEPT ![c] = Tail(@)]
  /\ got' = [got EXCEPT ![c] = Append(@, Head(chan[c]).line)]
  /\ UNCHANGED <<dbVars, runVars, ioVars, subs, cpc, want, answer, adminVars,
                 crashes>>

\* The event names the stored status and exit code, or, when there is no exit
\* code to read, exit code 1 and the status of the message.
ReceiveComplete(c) ==
  /\ cpc[c] = "stream"
  /\ chan[c] # <<>>
  /\ Head(chan[c]).kind = "complete"
  /\ LET r == row[want[c]]
     IN Done(c, IF r.exit # NoExit
                THEN [kind |-> "live", status |-> r.status, exit |-> r.exit]
                ELSE [kind |-> "live", status |-> Head(chan[c]).status,
                      exit |-> 1])
  /\ Unsubscribe(c)
  /\ UNCHANGED <<dbVars, runVars, ioVars, want, got, adminVars, crashes>>

\* The request context is done: the browser went away.
Disconnect(c) ==
  /\ cpc[c] = "stream"
  /\ Done(c, [NoAnswer EXCEPT !.kind = "gone"])
  /\ Unsubscribe(c)
  /\ UNCHANGED <<dbVars, runVars, ioVars, want, got, adminVars, crashes>>

-------------------------------------------------------------------------------
(* DeleteCommand and DeleteApp: two statements, no transaction *)

RunsOf(C) == {e \in Execs : Present(e) /\ cmdOf[e] \in C}

DeleteRows(D) ==
  row' = [e \in Execs |-> IF e \in D THEN BlankRow("deleted") ELSE row[e]]

DeleteCommandRuns(c) ==
  /\ delPc = "idle"
  /\ DeleteRows(RunsOf({c}))
  /\ delPc' = "command"
  /\ delCmd' = c
  /\ UNCHANGED <<commands, appAlive, cmdOf, runVars, ioVars, clientVars, crashes>>

\* A foreign key error when an execution was inserted in between.
DeleteCommandRow ==
  /\ delPc = "command"
  /\ commands' = IF RunsOf({delCmd}) = {} THEN commands \ {delCmd} ELSE commands
  /\ delPc' = "idle"
  /\ UNCHANGED <<appAlive, row, cmdOf, runVars, ioVars, clientVars, delCmd,
                 crashes>>

DeleteAppRuns ==
  /\ delPc = "idle"
  /\ DeleteRows(RunsOf(commands))
  /\ delPc' = "app"
  /\ UNCHANGED <<commands, appAlive, cmdOf, runVars, ioVars, clientVars, delCmd,
                 crashes>>

\* ON DELETE CASCADE takes the commands with it.
DeleteAppRow ==
  /\ delPc = "app"
  /\ \/ RunsOf(commands) # {} /\ UNCHANGED <<commands, appAlive>>
     \/ /\ RunsOf(commands) = {}
        /\ commands' = {}
        /\ appAlive' = FALSE
  /\ delPc' = "idle"
  /\ UNCHANGED <<row, cmdOf, runVars, ioVars, clientVars, delCmd, crashes>>

-------------------------------------------------------------------------------
(* The server dies and starts again.  The tables stay as they are: nothing *)
(* at startup looks for executions left unfinished.                        *)

Crash ==
  /\ crashes < MaxCrashes
  /\ crashes' = crashes + 1
  /\ runPc' = [e \in Execs |-> IF runPc[e] \in Active THEN "lost" ELSE runPc[e]]
  /\ proc' = [e \in Execs |-> IF proc[e] = "alive" THEN "exited" ELSE proc[e]]
  /\ reader' = [e \in Execs |-> [s \in Streams |-> "off"]]
  /\ pipe' = [e \in Execs |-> [s \in Streams |-> <<>>]]
  /\ subs' = [e \in Execs |-> {}]
  /\ chan' = [c \in Clients |-> <<>>]
  /\ cpc' = [c \in Clients |-> IF cpc[c] \in {"subscribe", "stream"}
                                THEN "done" ELSE cpc[c]]
  /\ answer' = [c \in Clients |-> IF cpc[c] \in {"subscribe", "stream"}
                                   THEN [NoAnswer EXCEPT !.kind = "gone"]
                                   ELSE answer[c]]
  /\ delPc' = "idle"
  /\ UNCHANGED <<dbVars, verdict, buf, emitted, held, want, got, delCmd>>

-------------------------------------------------------------------------------

\* What the runtime schedules by itself once a request has come in.
Execute(e) == \/ Start(e) \/ LookupExecution(e) \/ LookupCommand(e)
              \/ LookupApp(e) \/ StatWorkingDir(e) \/ MarkRunning(e)
              \/ Launch(e) \/ WaitReturns(e) \/ Join(e)
              \/ FinishExecution(e) \/ BroadcastComplete(e)
StreamOutput(e, s) == Scan(e, s) \/ BroadcastLine(e, s) \/ ReaderEnds(e, s)
Process(e) == \E x \in ExitCodes : Exit(e, x)
Serve(c) == Subscribe(c) \/ ReceiveLine(c) \/ ReceiveComplete(c)
EndDelete == DeleteCommandRow \/ DeleteAppRow

Next ==
  \/ \E e \in Execs, c \in Commands : Insert(e, c)
  \/ \E e \in Execs : Execute(e) \/ Process(e)
  \/ \E e \in Execs, s \in Streams : StreamOutput(e, s)
  \/ \E e \in Execs, s \in Streams, z \in LineSizes : Write(e, s, z)
  \/ \E c \in Clients, e \in Execs : Open(c, e)
  \/ \E c \in Clients : Serve(c) \/ Disconnect(c)
  \/ \E c \in Commands : DeleteCommandRuns(c)
  \/ DeleteAppRuns
  \/ EndDelete
  \/ Crash

Spec == Init /\ [][Next]_vars

\* The Go scheduler runs every goroutine that can run, and the context's
\* timeout ends every process.  No request is ever obliged to come, and no
\* browser to go away.
Fairness == /\ \A e \in Execs : WF_vars(Execute(e)) /\ WF_vars(Process(e))
            /\ \A e \in Execs, s \in Streams : WF_vars(StreamOutput(e, s))
            /\ \A c \in Clients : WF_vars(Serve(c))
            /\ WF_vars(EndDelete)

FairSpec == Spec /\ Fairness

-------------------------------------------------------------------------------
(* Properties *)

\* The executions table behaves as ExecutionLifecycle: a verdict is never
\* changed, a deleted execution never returns.
L == INSTANCE ExecutionLifecycle WITH
         status <- [e \in Execs |-> row[e].status],
         exit <- [e \in Execs |-> row[e].exit]
Lifecycle == L!Spec

\* A pending or running row belongs to a request or goroutine at work on it,
\* unless a crash took that goroutine: every early return of Execute records
\* its verdict.
UnfinishedRowHasRunner ==
  ~DbFaults => \A e \in Execs : row[e].status \in Unfinished =>
                   \/ runPc[e] \in Active
                   \/ runPc[e] = "lost" /\ crashes > 0

\* No statement of a deletion that overlaps an insertion leaves an execution
\* without its command, or a command without its app.
ReferencesHold == /\ \A e \in Execs : Present(e) => cmdOf[e] \in commands
                  /\ commands # {} => appAlive

\* A subscriber learns of the completion only after the table has it, so the
\* row streamExecution then reads is the final one (or deleted).
CompletionAfterRecord ==
  ~DbFaults =>
    \A c \in Clients : \A i \in DOMAIN chan[c] :
       chan[c][i].kind = "complete" =>
          row[want[c]].status \in Finished \cup {"deleted"}

\* Nothing is broadcast after the completion: streamExecution stops reading
\* there, so a later line would be lost.
CompleteIsLast ==
  \A c \in Clients : \A i \in DOMAIN chan[c] :
     chan[c][i].kind = "complete" =>
        /\ i = Len(chan[c])
        /\ \A s \in Streams : reader[want[c]][s] \in {"off", "eof"}

\* The status a client is told and the exit code it is told agree, unless the
\* execution was deleted under the stream or the database failed.
AnswerIsVerdict ==
  ~DbFaults =>
    \A c \in Clients : answer[c].kind \in {"live", "replay"} =>
       \/ answer[c].status = "success" <=> answer[c].exit = 0
       \/ answer[c].kind = "live" /\ row[want[c]].status = "deleted"

\* The channels registered for an execution are exactly those of the requests
\* now in the streaming loop: none leaks when a stream ends, none is missing.
SubscribersAreStreaming ==
  \A e \in Execs :
     subs[e] = {c \in Clients : cpc[c] = "stream" /\ want[c] = e}

\* The places of pipe s among the first i lines stored.
Places(e, s, i) == {j \in 1..i : buf[e].lines[j].from = s}
Kept(e, s) == Places(e, s, Len(buf[e].lines))

\* What is stored of each pipe is its first lines, in order, without a gap or
\* a repetition, however the two readers interleave and wherever the limit
\* falls.
StoredOutputIsPrefix ==
  \A e \in Execs, s \in Streams :
     \A i \in Kept(e, s) : buf[e].lines[i].n = Cardinality(Places(e, s, i))

BytesOf(lines) ==
  LET sum[i \in 0..Len(lines)] ==
        IF i = 0 THEN 0 ELSE sum[i - 1] + lines[i].size
  IN sum[Len(lines)]

\* The stored output is within the limit or ends in the marker, and a scanned
\* line that is not kept left the marker or found the limit exactly reached.
\* (What comes behind a line too long to scan is lost without either.)
OutputAccounted ==
  \A e \in Execs :
     /\ IF buf[e].cut
        THEN /\ buf[e].size = MaxOutput + MarkerSize
             /\ BytesOf(buf[e].lines) < MaxOutput
        ELSE /\ buf[e].size = BytesOf(buf[e].lines)
             /\ buf[e].size <= MaxOutput
     /\ \A s \in Streams : Cardinality(Kept(e, s)) < held[e][s].n =>
                              buf[e].cut \/ buf[e].size = MaxOutput

\* Every execution that is created comes to its end: verdict recorded and
\* broadcast, never started because deleted at once, or lost in a crash.
RunsEnd == \A e \in Execs :
             runPc[e] = "inserted" ~> runPc[e] \in {"done", "aborted", "lost"}

\* A stream whose subscription was in place before the completion broadcast
\* ends, provided the channel has room for everything the process writes.
BufferedStreamEnds ==
  Cap > MaxLines =>
    \A c \in Clients :
       (cpc[c] = "stream" /\ runPc[want[c]] \in Active \ {"inserted"})
       ~> cpc[c] = "done"

-------------------------------------------------------------------------------
(* What the documentation says and the code does not do *)

\* The stream of an execution that is finished comes to its end.
LiveStreamEnds ==
  \A c \in Clients :
     (cpc[c] = "stream" /\ runPc[want[c]] = "done") ~> cpc[c] = "done"
===============================================================================
