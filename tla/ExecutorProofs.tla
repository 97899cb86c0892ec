---------------------------- MODULE ExecutorProofs ----------------------------
(***************************************************************************)
(* Proofs about Executor for any number of executions, commands and        *)
(* clients, any channel capacity and any output limit.                     *)
(***************************************************************************)
EXTENDS Executor, TLAPS, FiniteSetTheorems, WellFoundedInduction

-------------------------------------------------------------------------------
(* Type correctness *)

\* Whatever the line and wherever the limit, streamOutput leaves an output.
LEMMA AddLineType ==
  ASSUME NEW o \in Output, NEW line \in Line
  PROVE  AddLine(o, line) \in Output
<1>1. o.size + line.size \in Nat /\ MaxOutput + MarkerSize \in Nat
  BY OutputAssumption DEF Output, Line
<1>2. Append(o.lines, line) \in Seq(Line)
  BY DEF Output
<1> QED BY <1>1, <1>2 DEF AddLine, Output

\* Receiving from a channel or scanning a pipe leaves a sequence of its type.
LEMMA HeadTailType ==
  ASSUME NEW T, NEW q \in Seq(T), q # <<>>
  PROVE  Head(q) \in T /\ Tail(q) \in Seq(T)
OBVIOUS

\* The server starts with every variable in its type.
LEMMA InitType == Init => TypeOK
<1> SUFFICES ASSUME Init PROVE TypeOK
  OBVIOUS
<1>1. /\ (CHOOSE c \in Commands : TRUE) \in Commands
      /\ (CHOOSE e \in Execs : TRUE) \in Execs
  <2>1. (\E c : c \in Commands) /\ (\E e : e \in Execs)
    BY ExecutorAssumption
  <2> QED BY <2>1
<1>2. EmptyOutput \in Output
  BY DEF EmptyOutput, Output
<1>3. BlankRow("absent") \in Row
  BY <1>2 DEF BlankRow, Row, Statuses
<1>4. \A s \in Streams : [from |-> s, n |-> 0, size |-> 0] \in Line
  BY DEF Line
<1>5. NoAnswer \in Answer
  BY DEF NoAnswer, Answer, Statuses
<1> QED
  BY <1>1, <1>2, <1>3, <1>4, <1>5 DEF Init, TypeOK, RunPcs, Finished, ExitCodes

\* Send leaves every channel a sequence of messages.
LEMMA SendType ==
  ASSUME TypeOK, NEW e \in Execs, NEW msg \in Msg, Send(e, msg)
  PROVE  chan' \in [Clients -> Seq(Msg)]
BY DEF TypeOK, Send

\* A row just inserted, and a deleted one, are rows.
LEMMA BlankRowType ==
  /\ BlankRow("pending") \in Row
  /\ BlankRow("deleted") \in Row
BY DEF BlankRow, Row, EmptyOutput, Output, Statuses, Unfinished

\* An UPDATE, lost or not, leaves a table of rows.
LEMMA UpdateRowType ==
  ASSUME TypeOK, NEW e \in Execs, NEW r \in Row, UpdateRow(e, r)
  PROVE  row' \in [Execs -> Row]
BY DEF TypeOK, UpdateRow

\* The places of Execute and the values its locals may take.
LEMMA PcTypes == Active \subseteq RunPcs /\ "done" \in RunPcs
                 /\ "aborted" \in RunPcs /\ "lost" \in RunPcs
BY DEF RunPcs

\* The steps of the goroutine are all places where it is at work.
LEMMA ActivePcs ==
  /\ BeforeStart \subseteq Active
  /\ {"wait", "join", "finish", "broadcast"} \subseteq Active
BY DEF Active

\* The locals status and exitCode of Execute.
Verdict == [status : Finished, exit : ExitCodes]

\* What Execute assigns to its locals is a verdict.
LEMMA VerdictType ==
  /\ [status |-> "failed", exit |-> -1] \in Verdict
  /\ \A v \in Verdict, x \in ExitCodes : [v EXCEPT !.exit = x] \in Verdict
  /\ \A v \in Verdict : [v EXCEPT !.status = IF v.exit = 0 THEN "success"
                                                         ELSE "failed"]
                       \in Verdict
BY DEF Verdict, Finished, ExitCodes

\* What a step of Execute leaves in its place and its locals, failing or not.
LEMMA StepType ==
  ASSUME runPc \in [Execs -> RunPcs], verdict \in [Execs -> Verdict],
         NEW e \in Execs, NEW found, NEW next \in RunPcs, Step(e, found, next)
  PROVE  runPc' \in [Execs -> RunPcs] /\ verdict' \in [Execs -> Verdict]
<1>1. CASE runPc' = [runPc EXCEPT ![e] = next] /\ UNCHANGED verdict
  BY <1>1
<1>2. CASE Fail(e)
  BY <1>2, VerdictType, PcTypes, ActivePcs DEF Fail
<1> QED BY <1>1, <1>2 DEF Step

USE DEF dbVars, runVars, ioVars, clientVars, adminVars

\* Every step of the goroutine Execute keeps the types.
LEMMA ExecuteType ==
  ASSUME TypeOK, NEW e \in Execs, Execute(e)
  PROVE  TypeOK'
<1> USE PcTypes, ActivePcs
<1> DEFINE Locals == /\ runPc \in [Execs -> RunPcs]
                    /\ verdict \in [Execs -> Verdict]
<1>l. Locals
  BY DEF TypeOK, Verdict
<1>b. {"lookup", "lookupCommand", "lookupApp", "stat", "mark", "launch"}
        \subseteq RunPcs
  BY DEF BeforeStart
<1>1. CASE Start(e)
  BY <1>1, <1>b DEF Start, TypeOK
<1>2. CASE LookupExecution(e)
  <2>1. Locals'
    BY <1>2, <1>l, <1>b, StepType DEF LookupExecution
  <2> QED BY <1>2, <2>1 DEF LookupExecution, TypeOK, Verdict
<1>3. CASE LookupCommand(e)
  <2>1. Locals'
    BY <1>3, <1>l, <1>b, StepType DEF LookupCommand
  <2> QED BY <1>3, <2>1 DEF LookupCommand, TypeOK, Verdict
<1>4. CASE LookupApp(e)
  <2>1. Locals'
    BY <1>4, <1>l, <1>b, StepType DEF LookupApp
  <2> QED BY <1>4, <2>1 DEF LookupApp, TypeOK, Verdict
<1>5. CASE StatWorkingDir(e)
  <2>1. Locals'
    BY <1>5, <1>l, <1>b, StepType DEF StatWorkingDir
  <2> QED BY <1>5, <2>1 DEF StatWorkingDir, TypeOK, Verdict
<1>6. CASE MarkRunning(e)
  <2>1. row[e] \in Row
    BY DEF TypeOK
  <2>2. [row[e] EXCEPT !.status = "running"] \in Row
    BY <2>1 DEF Row, Statuses, Unfinished
  <2>3. row' \in [Execs -> Row]
    BY <1>6, <2>2, UpdateRowType DEF MarkRunning
  <2> QED BY <1>6, <1>b, <2>3 DEF MarkRunning, TypeOK
<1>7. CASE Launch(e)
  <2>1. Locals'
    BY <1>7, <1>l, VerdictType DEF Launch, Fail
  <2>2. /\ proc' \in [Execs -> {"none", "alive", "exited"}]
        /\ reader' \in [Execs -> [Streams -> {"off", "scan", "send", "eof"}]]
    <3>1. /\ proc \in [Execs -> {"none", "alive", "exited"}]
          /\ reader \in [Execs -> [Streams -> {"off", "scan", "send", "eof"}]]
      BY DEF TypeOK
    <3>2. [s \in Streams |-> "scan"] \in [Streams -> {"off", "scan", "send", "eof"}]
      OBVIOUS
    <3> QED BY <1>7, <3>1, <3>2 DEF Launch
  <2> QED BY <1>7, <2>1, <2>2 DEF Launch, TypeOK, Verdict
<1>8. CASE WaitReturns(e)
  <2>1. PICK kept \in [Streams -> 0..MaxLines] :
          pipe' = [pipe EXCEPT ![e] =
                    [s \in Streams |->
                        IF kept[s] < Len(pipe[e][s])
                        THEN SubSeq(pipe[e][s], 1, kept[s]) ELSE pipe[e][s]]]
    BY <1>8 DEF WaitReturns
  <2>2. pipe \in [Execs -> [Streams -> Seq(Line)]]
    BY DEF TypeOK
  <2>3. ASSUME NEW s \in Streams, kept[s] < Len(pipe[e][s])
        PROVE  SubSeq(pipe[e][s], 1, kept[s]) \in Seq(Line)
    <3>1. pipe[e][s] \in Seq(Line) /\ kept[s] \in Nat
      BY <2>2, ExecutorAssumption
    <3> QED BY <3>1, <2>3
  <2>4. pipe' \in [Execs -> [Streams -> Seq(Line)]]
    BY <2>1, <2>2, <2>3
  <2> QED BY <1>8, <2>4 DEF WaitReturns, TypeOK
<1>9. CASE Join(e)
  <2>1. Locals'
    BY <1>9, <1>l, VerdictType DEF Join
  <2> QED BY <1>9, <2>1 DEF Join, TypeOK, Verdict
<1>10. CASE FinishExecution(e)
  <2>1. verdict[e] \in Verdict /\ buf[e] \in Output
    BY <1>l DEF TypeOK
  <2>2. [status |-> verdict[e].status, exit |-> verdict[e].exit,
         output |-> buf[e]] \in Row
    BY <2>1 DEF Row, Statuses, Verdict
  <2>3. row' \in [Execs -> Row]
    BY <1>10, <2>2, UpdateRowType DEF FinishExecution
  <2> QED BY <1>10, <2>3 DEF FinishExecution, TypeOK
<1>11. CASE BroadcastComplete(e)
  <2>1. verdict[e] \in Verdict
    BY <1>l
  <2>2. [kind |-> "complete", status |-> verdict[e].status] \in Msg
    BY <2>1 DEF Msg, CompleteMsg, Verdict
  <2>3. chan' \in [Clients -> Seq(Msg)]
    BY <1>11, <2>2, SendType DEF BroadcastComplete
  <2> QED BY <1>11, <2>3 DEF BroadcastComplete, TypeOK
<1> QED
  BY <1>1, <1>2, <1>3, <1>4, <1>5, <1>6, <1>7, <1>8, <1>9, <1>10, <1>11
     DEF Execute

-------------------------------------------------------------------------------

\* So does every step of the process and its readers, and the insertion.
LEMMA ProcessType ==
  ASSUME TypeOK, NEW e \in Execs,
         \/ Process(e)
         \/ \E c \in Commands : Insert(e, c)
         \/ \E s \in Streams, z \in LineSizes : Write(e, s, z)
         \/ \E s \in Streams : StreamOutput(e, s)
  PROVE  TypeOK'
<1> USE PcTypes, ActivePcs
<1>1. CASE Process(e)
  <2>1. PICK x \in ExitCodes : Exit(e, x)
    BY <1>1 DEF Process
  <2>2. verdict \in [Execs -> Verdict]
    BY DEF TypeOK, Verdict
  <2>3. verdict' \in [Execs -> Verdict]
    BY <2>1, <2>2, VerdictType DEF Exit
  <2> QED BY <2>1, <2>3 DEF Exit, TypeOK, Verdict
<1>2. ASSUME NEW c \in Commands, Insert(e, c)
      PROVE  TypeOK'
  BY <1>2, BlankRowType DEF Insert, TypeOK, BeforeStart
<1>3. ASSUME NEW s \in Streams, NEW z \in LineSizes, Write(e, s, z)
      PROVE  TypeOK'
  <2>1. /\ emitted \in [Execs -> [Streams -> Nat]]
        /\ pipe \in [Execs -> [Streams -> Seq(Line)]]
    BY DEF TypeOK
  <2>2. [from |-> s, n |-> emitted[e][s] + 1, size |-> z] \in Line
    BY <2>1, ExecutorAssumption DEF Line
  <2>3. /\ emitted' \in [Execs -> [Streams -> Nat]]
        /\ pipe' \in [Execs -> [Streams -> Seq(Line)]]
    BY <1>3, <2>1, <2>2 DEF Write
  <2> QED BY <1>3, <2>3 DEF Write, TypeOK
<1>4. ASSUME NEW s \in Streams, Scan(e, s)
      PROVE  TypeOK'
  <2>1. /\ pipe \in [Execs -> [Streams -> Seq(Line)]]
        /\ held \in [Execs -> [Streams -> Line]]
        /\ buf \in [Execs -> Output]
        /\ reader \in [Execs -> [Streams -> {"off", "scan", "send", "eof"}]]
    BY DEF TypeOK
  <2>2. Head(pipe[e][s]) \in Line /\ Tail(pipe[e][s]) \in Seq(Line)
    BY <1>4, <2>1, HeadTailType DEF Scan
  <2>3. AddLine(buf[e], Head(pipe[e][s])) \in Output
    BY <2>1, <2>2, AddLineType
  <2>4. /\ pipe' \in [Execs -> [Streams -> Seq(Line)]]
        /\ held' \in [Execs -> [Streams -> Line]]
        /\ buf' \in [Execs -> Output]
        /\ reader' \in [Execs -> [Streams -> {"off", "scan", "send", "eof"}]]
    BY <1>4, <2>1, <2>2, <2>3 DEF Scan
  <2> QED BY <1>4, <2>4 DEF Scan, TypeOK
<1>5. ASSUME NEW s \in Streams, BroadcastLine(e, s)
      PROVE  TypeOK'
  <2>1. held[e][s] \in Line
    BY DEF TypeOK
  <2>2. [kind |-> "output", line |-> held[e][s]] \in Msg
    BY <2>1 DEF Msg, OutputMsg
  <2>3. chan' \in [Clients -> Seq(Msg)]
    BY <1>5, <2>2, SendType DEF BroadcastLine
  <2> QED BY <1>5, <2>3 DEF BroadcastLine, TypeOK
<1>6. ASSUME NEW s \in Streams, ReaderEnds(e, s)
      PROVE  TypeOK'
  BY <1>6 DEF ReaderEnds, TypeOK
<1> QED BY <1>1, <1>2, <1>3, <1>4, <1>5, <1>6 DEF StreamOutput

\* So does every step of a streaming request.
LEMMA ClientType ==
  ASSUME TypeOK, NEW c \in Clients,
         \/ \E e \in Execs : Open(c, e)
         \/ Serve(c)
         \/ Disconnect(c)
  PROVE  TypeOK'
<1>a. \A k \in {"notfound", "gone"} : [NoAnswer EXCEPT !.kind = k] \in Answer
  BY DEF Answer, NoAnswer, Statuses
<1>b. /\ cpc \in [Clients -> {"idle", "subscribe", "stream", "done"}]
      /\ answer \in [Clients -> Answer]
      /\ subs \in [Execs -> SUBSET Clients]
      /\ chan \in [Clients -> Seq(Msg)]
      /\ got \in [Clients -> Seq(Line)]
      /\ want \in [Clients -> Execs]
      /\ row \in [Execs -> Row]
  BY DEF TypeOK
<1>c. ASSUME NEW a \in Answer, Done(c, a)
      PROVE  /\ cpc' \in [Clients -> {"idle", "subscribe", "stream", "done"}]
             /\ answer' \in [Clients -> Answer]
  BY <1>b, <1>c DEF Done
<1>d. ASSUME Unsubscribe(c)
      PROVE  /\ subs' \in [Execs -> SUBSET Clients]
             /\ chan' \in [Clients -> Seq(Msg)]
  BY <1>b, <1>d DEF Unsubscribe
<1>1. ASSUME NEW e \in Execs, Open(c, e)
      PROVE  TypeOK'
  <2>1. want' \in [Clients -> Execs]
    BY <1>1, <1>b DEF Open
  <2>2. CASE ~Present(e) /\ Done(c, [NoAnswer EXCEPT !.kind = "notfound"])
             /\ UNCHANGED got
    BY <1>1, <1>a, <1>c, <2>1, <2>2 DEF Open, TypeOK
  <2>3. CASE /\ row[e].status \in Finished
             /\ got' = [got EXCEPT ![c] = row[e].output.lines]
             /\ Done(c, [kind |-> "replay", status |-> row[e].status,
                         exit |-> row[e].exit])
    <3>1. row[e].output.lines \in Seq(Line) /\ row[e].exit \in ExitCodes \cup {NoExit}
      BY <1>b DEF Row, Output
    <3>2. [kind |-> "replay", status |-> row[e].status, exit |-> row[e].exit] \in Answer
      BY <2>3, <3>1 DEF Answer, Statuses
    <3>3. got' \in [Clients -> Seq(Line)]
      BY <1>b, <2>3, <3>1
    <3> QED BY <1>1, <1>c, <2>1, <2>3, <3>2, <3>3 DEF Open, TypeOK
  <2>4. CASE cpc' = [cpc EXCEPT ![c] = "subscribe"] /\ UNCHANGED <<got, answer>>
    BY <1>1, <2>1, <2>4 DEF Open, TypeOK
  <2> QED BY <1>1, <2>2, <2>3, <2>4 DEF Open
<1>2. CASE Subscribe(c)
  <2>1. subs' \in [Execs -> SUBSET Clients]
    BY <1>2, <1>b DEF Subscribe
  <2> QED BY <1>2, <2>1 DEF Subscribe, TypeOK
<1>3. CASE ReceiveLine(c)
  <2>1. Head(chan[c]) \in Msg /\ Tail(chan[c]) \in Seq(Msg)
    BY <1>3, <1>b, HeadTailType DEF ReceiveLine
  <2>2. Head(chan[c]).line \in Line
    BY <1>3, <2>1 DEF ReceiveLine, Msg, OutputMsg, CompleteMsg
  <2>3. got' \in [Clients -> Seq(Line)] /\ chan' \in [Clients -> Seq(Msg)]
    BY <1>3, <1>b, <2>1, <2>2 DEF ReceiveLine
  <2> QED BY <1>3, <2>3 DEF ReceiveLine, TypeOK
<1>4. CASE ReceiveComplete(c)
  <2>1. Head(chan[c]) \in Msg
    BY <1>4, <1>b, HeadTailType DEF ReceiveComplete
  <2>2. Head(chan[c]).status \in Finished
    BY <1>4, <2>1 DEF ReceiveComplete, Msg, OutputMsg, CompleteMsg
  <2> DEFINE r == row[want[c]]
  <2>3. r \in Row
    BY <1>b
  <2>4. [kind |-> "live", status |-> Head(chan[c]).status, exit |-> 1] \in Answer
    BY <2>2 DEF Answer, Statuses, ExitCodes
  <2>5. [kind |-> "live", status |-> r.status, exit |-> r.exit] \in Answer
    BY <2>3 DEF Answer, Row
  <2>6. \E a \in Answer : Done(c, a)
    BY <1>4, <2>4, <2>5 DEF ReceiveComplete
  <2>7. Unsubscribe(c)
    BY <1>4 DEF ReceiveComplete
  <2> QED BY <1>4, <1>c, <1>d, <2>6, <2>7 DEF ReceiveComplete, TypeOK
<1>5. CASE Disconnect(c)
  BY <1>5, <1>a, <1>c, <1>d DEF Disconnect, TypeOK
<1> QED BY <1>1, <1>2, <1>3, <1>4, <1>5 DEF Serve

\* So do the deletions and a crash.
LEMMA AdminType ==
  ASSUME TypeOK,
         \/ \E c \in Commands : DeleteCommandRuns(c)
         \/ DeleteAppRuns
         \/ EndDelete
         \/ Crash
  PROVE  TypeOK'
<1>a. /\ row \in [Execs -> Row]
      /\ cpc \in [Clients -> {"idle", "subscribe", "stream", "done"}]
      /\ answer \in [Clients -> Answer]
      /\ runPc \in [Execs -> RunPcs]
      /\ crashes \in Nat
  BY DEF TypeOK
<1>b. ASSUME NEW D, DeleteRows(D)
      PROVE  row' \in [Execs -> Row]
  BY <1>a, <1>b, BlankRowType DEF DeleteRows
<1>1. ASSUME NEW c \in Commands, DeleteCommandRuns(c)
      PROVE  TypeOK'
  BY <1>1, <1>b DEF DeleteCommandRuns, TypeOK
<1>2. CASE DeleteAppRuns
  BY <1>2, <1>b DEF DeleteAppRuns, TypeOK
<1>3. CASE DeleteCommandRow
  BY <1>3 DEF DeleteCommandRow, TypeOK
<1>4. CASE DeleteAppRow
  BY <1>4 DEF DeleteAppRow, TypeOK
<1>5. CASE Crash
  <2>1. [NoAnswer EXCEPT !.kind = "gone"] \in Answer
    BY DEF Answer, NoAnswer, Statuses
  <2>2. /\ runPc' \in [Execs -> RunPcs]
        /\ cpc' \in [Clients -> {"idle", "subscribe", "stream", "done"}]
        /\ answer' \in [Clients -> Answer]
        /\ crashes' \in Nat
    BY <1>5, <1>a, <2>1, PcTypes DEF Crash
  <2>3. /\ proc' \in [Execs -> {"none", "alive", "exited"}]
        /\ subs' \in [Execs -> SUBSET Clients]
    BY <1>5 DEF Crash, TypeOK
  <2>4. /\ reader' \in [Execs -> [Streams -> {"off", "scan", "send", "eof"}]]
        /\ pipe' \in [Execs -> [Streams -> Seq(Line)]]
        /\ chan' \in [Clients -> Seq(Msg)]
    BY <1>5 DEF Crash
  <2> QED BY <1>5, <2>2, <2>3, <2>4 DEF Crash, TypeOK
<1> QED BY <1>1, <1>2, <1>3, <1>4, <1>5 DEF EndDelete

\* TypeOK is inductive on its own.
LEMMA TypeStep == TypeOK /\ [Next]_vars => TypeOK'
<1> SUFFICES ASSUME TypeOK, [Next]_vars PROVE TypeOK'
  OBVIOUS
<1>1. CASE UNCHANGED vars
  BY <1>1 DEF vars, TypeOK
<1>2. CASE Next
  BY <1>2, ExecuteType, ProcessType, ClientType, AdminType DEF Next
<1> QED BY <1>1, <1>2

\* Every state of the executions table, of the goroutines and of the channels
\* is one the program declares.
THEOREM TypeCorrect == Spec => []TypeOK
BY InitType, TypeStep, PTL DEF Spec

-------------------------------------------------------------------------------
(* The inductive invariant *)

\* How far a row can be, given how far its goroutine is.
RowFollowsRun ==
  \A e \in Execs :
    /\ runPc[e] = "new" <=> row[e].status = "absent"
    /\ runPc[e] \in {"inserted", "lookup", "lookupCommand", "lookupApp", "stat",
                     "mark"} => row[e].status \in {"pending", "deleted"}
    /\ runPc[e] \in {"launch", "wait", "join", "finish"} =>
          row[e].status \in Unfinished \cup {"deleted"}
    /\ runPc[e] = "aborted" => row[e].status = "deleted"
    /\ ~DbFaults /\ runPc[e] \in {"broadcast", "done"} =>
          row[e].status \in Finished \cup {"deleted"}
    /\ runPc[e] = "lost" => crashes > 0

\* Status and exit code of a row agree, and a row without a verdict has none.
RowAgrees ==
  \A e \in Execs :
    IF row[e].status \in Finished
    THEN row[e].exit # NoExit /\ (row[e].status = "success" <=> row[e].exit = 0)
    ELSE row[e].exit = NoExit

\* The process and its readers exist only while Execute waits for them, and
\* the verdict is complete once it no longer does.
ProcessFollowsRun ==
  \A e \in Execs :
    /\ proc[e] = "alive" => runPc[e] = "wait"
    /\ \A s \in Streams : reader[e][s] \in {"scan", "send"} =>
                             runPc[e] \in {"wait", "join"}
    /\ runPc[e] \in {"finish", "broadcast", "done"} =>
          (verdict[e].status = "success" <=> verdict[e].exit = 0)

\* Only a request in its streaming loop has anything buffered or registered,
\* and a completion in its channel is the last message of an execution that
\* is done.
ChannelsFollowClients ==
  \A c \in Clients :
    /\ cpc[c] # "stream" => chan[c] = <<>>
    /\ cpc[c] # "done" => answer[c].kind = "none"
    /\ \A i \in DOMAIN chan[c] : chan[c][i].kind = "complete" =>
          runPc[want[c]] = "done" /\ i = Len(chan[c])

\* The parts are inductive only together.
IInv == /\ TypeOK
        /\ RowFollowsRun
        /\ RowAgrees
        /\ ProcessFollowsRun
        /\ ReferencesHold
        /\ SubscribersAreStreaming
        /\ ChannelsFollowClients
        /\ AnswerIsVerdict

\* The inductive invariant holds at the start.
LEMMA InitInv == Init => IInv
<1> SUFFICES ASSUME Init PROVE IInv
  OBVIOUS
<1>1. TypeOK
  BY InitType
<1>2. RowFollowsRun /\ RowAgrees /\ ProcessFollowsRun
  BY DEF Init, RowFollowsRun, RowAgrees, ProcessFollowsRun, BlankRow, Finished
<1>3. ReferencesHold
  BY DEF Init, ReferencesHold, Present, BlankRow
<1>4. SubscribersAreStreaming /\ ChannelsFollowClients
  BY DEF Init, SubscribersAreStreaming, ChannelsFollowClients, NoAnswer
<1>5. AnswerIsVerdict
  BY DEF Init, AnswerIsVerdict, NoAnswer
<1> QED BY <1>1, <1>2, <1>3, <1>4, <1>5 DEF IInv

\* The steps that touch neither the places of the goroutines nor the table.
LEMMA QuietRows ==
  ASSUME Next
  PROVE  \/ UNCHANGED <<runPc, row, crashes>>
         \/ \E e \in Execs, c \in Commands : Insert(e, c)
         \/ \E e \in Execs : Execute(e)
         \/ \E c \in Commands : DeleteCommandRuns(c)
         \/ DeleteAppRuns
         \/ Crash
<1>1. ASSUME NEW e \in Execs, Process(e) PROVE UNCHANGED <<runPc, row, crashes>>
  BY <1>1 DEF Process, Exit
<1>2. ASSUME NEW e \in Execs, NEW s \in Streams, StreamOutput(e, s)
      PROVE  UNCHANGED <<runPc, row, crashes>>
  BY <1>2 DEF StreamOutput, Scan, BroadcastLine, ReaderEnds
<1>3. ASSUME NEW c \in Clients, NEW e \in Execs, Open(c, e)
      PROVE  UNCHANGED <<runPc, row, crashes>>
  BY <1>3 DEF Open
<1>4. ASSUME NEW c \in Clients, Serve(c) \/ Disconnect(c)
      PROVE  UNCHANGED <<runPc, row, crashes>>
  BY <1>4 DEF Serve, Subscribe, ReceiveLine, ReceiveComplete, Disconnect
<1>5. ASSUME NEW e \in Execs, NEW s \in Streams, NEW z \in LineSizes, Write(e, s, z)
      PROVE  UNCHANGED <<runPc, row, crashes>>
  BY <1>5 DEF Write
<1>6. EndDelete => UNCHANGED <<runPc, row, crashes>>
  BY DEF EndDelete, DeleteCommandRow, DeleteAppRow
<1>7. QED
  BY <1>1, <1>2, <1>3, <1>4, <1>5, <1>6 DEF Next

\* The row keeps up with its goroutine: an UPDATE comes with the step it is
\* part of, a deletion only takes rows away.
LEMMA RowFollowsRunStep ==
  ASSUME IInv, Next
  PROVE  RowFollowsRun'
<1>a. row \in [Execs -> Row] /\ runPc \in [Execs -> RunPcs] /\ crashes \in Nat
  BY DEF IInv, TypeOK
<1>b. RowFollowsRun
  BY DEF IInv
<1>1. CASE UNCHANGED <<runPc, row, crashes>>
  BY <1>1, <1>b DEF RowFollowsRun
<1>2. ASSUME NEW e \in Execs, NEW c \in Commands, Insert(e, c)
      PROVE  RowFollowsRun'
  BY <1>2, <1>a, <1>b DEF Insert, BlankRow, RowFollowsRun, Unfinished
<1>3. ASSUME NEW e \in Execs, Execute(e)
      PROVE  RowFollowsRun'
  <2>1. CASE Start(e)
    BY <2>1, <1>a, <1>b DEF Start, RowFollowsRun, Present
  <2>2. CASE LookupExecution(e)
    BY <2>2, <1>a, <1>b DEF LookupExecution, Step, Fail, RowFollowsRun, Unfinished
  <2>3. CASE LookupCommand(e)
    BY <2>3, <1>a, <1>b DEF LookupCommand, Step, Fail, RowFollowsRun, Unfinished
  <2>4. CASE LookupApp(e)
    BY <2>4, <1>a, <1>b DEF LookupApp, Step, Fail, RowFollowsRun, Unfinished
  <2>5. CASE StatWorkingDir(e)
    BY <2>5, <1>a, <1>b DEF StatWorkingDir, Step, Fail, RowFollowsRun, Unfinished
  <2>6. CASE MarkRunning(e)
    BY <2>6, <1>a, <1>b DEF MarkRunning, UpdateRow, Present, RowFollowsRun,
                            Unfinished, Row
  <2>7. CASE Launch(e)
    BY <2>7, <1>a, <1>b DEF Launch, Fail, RowFollowsRun
  <2>8. CASE WaitReturns(e)
    BY <2>8, <1>a, <1>b DEF WaitReturns, RowFollowsRun
  <2>9. CASE Join(e)
    BY <2>9, <1>a, <1>b DEF Join, RowFollowsRun
  <2>10. CASE FinishExecution(e)
    <3>1. verdict[e].status \in Finished
      BY DEF IInv, TypeOK
    <3> QED BY <2>10, <3>1, <1>a, <1>b DEF FinishExecution, UpdateRow, Present,
                                          RowFollowsRun, Finished, Unfinished
  <2>11. CASE BroadcastComplete(e)
    BY <2>11, <1>a, <1>b DEF BroadcastComplete, RowFollowsRun
  <2> QED BY <1>3, <2>1, <2>2, <2>3, <2>4, <2>5, <2>6, <2>7, <2>8, <2>9, <2>10,
             <2>11 DEF Execute
<1>4. ASSUME NEW C, DeleteRows(RunsOf(C)), UNCHANGED <<runPc, crashes>>
      PROVE  RowFollowsRun'
  BY <1>4, <1>a, <1>b DEF DeleteRows, RunsOf, Present, BlankRow, RowFollowsRun
<1>5. CASE Crash
  BY <1>5, <1>a, <1>b DEF Crash, RowFollowsRun, Active, BeforeStart
<1> QED
  BY QuietRows, <1>1, <1>2, <1>3, <1>4, <1>5 DEF DeleteCommandRuns, DeleteAppRuns

\* Status and exit code are written together.
LEMMA RowAgreesStep ==
  ASSUME IInv, Next
  PROVE  RowAgrees'
<1>a. /\ row \in [Execs -> Row]
      /\ verdict \in [Execs -> Verdict]
  BY DEF IInv, TypeOK, Verdict
<1>b. RowAgrees /\ RowFollowsRun /\ ProcessFollowsRun
  BY DEF IInv
<1>1. CASE UNCHANGED row
  BY <1>1, <1>b DEF RowAgrees
<1>2. ASSUME NEW e \in Execs, NEW c \in Commands, Insert(e, c)
      PROVE  RowAgrees'
  BY <1>2, <1>a, <1>b DEF Insert, BlankRow, RowAgrees, Finished
<1>3. ASSUME NEW e \in Execs, MarkRunning(e)
      PROVE  RowAgrees'
  BY <1>3, <1>a, <1>b DEF MarkRunning, UpdateRow, RowAgrees, RowFollowsRun, Row,
                          Finished, Present
<1>4. ASSUME NEW e \in Execs, FinishExecution(e)
      PROVE  RowAgrees'
  <2>1. /\ verdict[e].status = "success" <=> verdict[e].exit = 0
        /\ verdict[e].exit # NoExit
    BY <1>4, <1>a, <1>b DEF ProcessFollowsRun, FinishExecution, Verdict,
                            ExitCodes, NoExit
  <2>2. verdict[e].status \in Finished
    BY <1>a DEF Verdict
  <2> QED BY <1>4, <2>1, <2>2, <1>a, <1>b DEF FinishExecution, UpdateRow, RowAgrees
<1>5. ASSUME NEW C, DeleteRows(RunsOf(C))
      PROVE  RowAgrees'
  BY <1>5, <1>a, <1>b DEF DeleteRows, BlankRow, RowAgrees, Finished
<1>6. ASSUME NEW e \in Execs, Execute(e)
      PROVE  UNCHANGED row \/ MarkRunning(e) \/ FinishExecution(e)
  BY <1>6 DEF Execute, Start, LookupExecution, LookupCommand, LookupApp,
              StatWorkingDir, Launch, WaitReturns, Join, BroadcastComplete
<1> QED
  BY QuietRows, <1>1, <1>2, <1>3, <1>4, <1>5, <1>6
     DEF DeleteCommandRuns, DeleteAppRuns, Crash

\* Execute goes past wg.Wait only when both readers are at end of file.
LEMMA ProcessFollowsRunStep ==
  ASSUME IInv, Next
  PROVE  ProcessFollowsRun'
<1>a. /\ runPc \in [Execs -> RunPcs]
      /\ verdict \in [Execs -> Verdict]
      /\ proc \in [Execs -> {"none", "alive", "exited"}]
      /\ reader \in [Execs -> [Streams -> {"off", "scan", "send", "eof"}]]
  BY DEF IInv, TypeOK, Verdict
<1>b. ProcessFollowsRun
  BY DEF IInv
<1>1. CASE UNCHANGED <<runPc, verdict, proc, reader>>
  BY <1>1, <1>b DEF ProcessFollowsRun
<1>2. ASSUME NEW e \in Execs, NEW c \in Commands, Insert(e, c)
      PROVE  ProcessFollowsRun'
  BY <1>2, <1>a, <1>b DEF Insert, ProcessFollowsRun
<1>3. ASSUME NEW e \in Execs, Execute(e)
      PROVE  ProcessFollowsRun'
  <2>1. CASE Start(e)
    BY <2>1, <1>a, <1>b DEF Start, ProcessFollowsRun
  <2>2. CASE LookupExecution(e)
    BY <2>2, <1>a, <1>b DEF LookupExecution, Step, Fail, ProcessFollowsRun
  <2>3. CASE LookupCommand(e)
    BY <2>3, <1>a, <1>b DEF LookupCommand, Step, Fail, ProcessFollowsRun
  <2>4. CASE LookupApp(e)
    BY <2>4, <1>a, <1>b DEF LookupApp, Step, Fail, ProcessFollowsRun
  <2>5. CASE StatWorkingDir(e)
    BY <2>5, <1>a, <1>b DEF StatWorkingDir, Step, Fail, ProcessFollowsRun
  <2>6. CASE MarkRunning(e)
    BY <2>6, <1>a, <1>b DEF MarkRunning, ProcessFollowsRun
  <2>7. CASE Launch(e)
    BY <2>7, <1>a, <1>b DEF Launch, Fail, ProcessFollowsRun
  <2>8. CASE WaitReturns(e)
    BY <2>8, <1>a, <1>b DEF WaitReturns, ProcessFollowsRun
  <2>9. CASE Join(e)
    <3>1. verdict'[e].status = "success" <=> verdict'[e].exit = 0
      BY <2>9, <1>a DEF Join, Verdict
    <3> QED BY <2>9, <3>1, <1>a, <1>b DEF Join, ProcessFollowsRun
  <2>10. CASE FinishExecution(e)
    BY <2>10, <1>a, <1>b DEF FinishExecution, ProcessFollowsRun
  <2>11. CASE BroadcastComplete(e)
    BY <2>11, <1>a, <1>b DEF BroadcastComplete, ProcessFollowsRun
  <2> QED BY <1>3, <2>1, <2>2, <2>3, <2>4, <2>5, <2>6, <2>7, <2>8, <2>9, <2>10,
             <2>11 DEF Execute
<1>4. ASSUME NEW e \in Execs, Process(e)
      PROVE  ProcessFollowsRun'
  BY <1>4, <1>a, <1>b DEF Process, Exit, ProcessFollowsRun
<1>5. ASSUME NEW e \in Execs, NEW s \in Streams, StreamOutput(e, s)
      PROVE  ProcessFollowsRun'
  <2>1. CASE Scan(e, s) BY <2>1, <1>a, <1>b DEF Scan, ProcessFollowsRun
  <2>2. CASE BroadcastLine(e, s)
    BY <2>2, <1>a, <1>b DEF BroadcastLine, ProcessFollowsRun
  <2>3. CASE ReaderEnds(e, s)
    BY <2>3, <1>a, <1>b DEF ReaderEnds, ProcessFollowsRun
  <2>4. QED BY <1>5, <2>1, <2>2, <2>3 DEF StreamOutput
<1>6. CASE Crash
  BY <1>6, <1>a, <1>b DEF Crash, ProcessFollowsRun, Active
<1>7. ASSUME NEW c \in Clients, (\E e \in Execs : Open(c, e)) \/ Serve(c) \/ Disconnect(c)
      PROVE  UNCHANGED <<runPc, verdict, proc, reader>>
  BY <1>7 DEF Open, Serve, Subscribe, ReceiveLine, ReceiveComplete, Disconnect
<1>8. ASSUME \/ \E e \in Execs, s \in Streams, z \in LineSizes : Write(e, s, z)
             \/ \E c \in Commands : DeleteCommandRuns(c)
             \/ DeleteAppRuns
             \/ EndDelete
      PROVE  UNCHANGED <<runPc, verdict, proc, reader>>
  BY <1>8 DEF Write, DeleteCommandRuns, DeleteAppRuns, EndDelete,
              DeleteCommandRow, DeleteAppRow
<1> QED BY <1>1, <1>2, <1>3, <1>4, <1>5, <1>6, <1>7, <1>8 DEF Next

\* Only insertion and deletion touch commands, and no other step makes a row
\* present.
LEMMA ReferencesHoldStep ==
  ASSUME IInv, Next
  PROVE  ReferencesHold'
<1>a. /\ row \in [Execs -> Row]
      /\ cmdOf \in [Execs -> Commands]
      /\ commands \subseteq Commands
  BY DEF IInv, TypeOK
<1>b. ReferencesHold
  BY DEF IInv
<1>1. CASE UNCHANGED dbVars
  BY <1>1, <1>b DEF ReferencesHold, Present
<1>2. ASSUME NEW e \in Execs, NEW c \in Commands, Insert(e, c)
      PROVE  ReferencesHold'
  BY <1>2, <1>a, <1>b DEF Insert, ReferencesHold, Present
<1>3. ASSUME NEW e \in Execs, MarkRunning(e) \/ FinishExecution(e)
      PROVE  ReferencesHold'
  <2>1. \A x \in Execs : Present(x)' => Present(x)
    BY <1>3, <1>a DEF MarkRunning, FinishExecution, UpdateRow, Present
  <2>2. UNCHANGED <<commands, appAlive, cmdOf>>
    BY <1>3 DEF MarkRunning, FinishExecution
  <2> QED BY <2>1, <2>2, <1>b DEF ReferencesHold
<1>4. ASSUME NEW C, DeleteRows(RunsOf(C)), UNCHANGED <<commands, appAlive, cmdOf>>
      PROVE  ReferencesHold'
  BY <1>4, <1>a, <1>b DEF DeleteRows, BlankRow, ReferencesHold, Present
<1>5. CASE DeleteCommandRow
  BY <1>5, <1>a, <1>b DEF DeleteCommandRow, RunsOf, ReferencesHold, Present
<1>6. CASE DeleteAppRow
  BY <1>6, <1>a, <1>b DEF DeleteAppRow, RunsOf, ReferencesHold, Present
<1>7. ASSUME NEW e \in Execs, Execute(e)
      PROVE  UNCHANGED dbVars \/ MarkRunning(e) \/ FinishExecution(e)
  BY <1>7 DEF Execute, Start, LookupExecution, LookupCommand, LookupApp,
              StatWorkingDir, Launch, WaitReturns, Join, BroadcastComplete
<1>8. ASSUME \/ \E e \in Execs : Process(e)
             \/ \E e \in Execs, s \in Streams : StreamOutput(e, s)
             \/ \E e \in Execs, s \in Streams, z \in LineSizes : Write(e, s, z)
             \/ \E c \in Clients, e \in Execs : Open(c, e)
             \/ \E c \in Clients : Serve(c) \/ Disconnect(c)
             \/ Crash
      PROVE  UNCHANGED dbVars
  BY <1>8 DEF Process, Exit, StreamOutput, Scan, BroadcastLine, ReaderEnds, Write,
              Open, Serve, Subscribe, ReceiveLine, ReceiveComplete, Disconnect,
              Crash
<1> QED
  BY <1>1, <1>2, <1>3, <1>4, <1>5, <1>6, <1>7, <1>8
     DEF Next, DeleteCommandRuns, DeleteAppRuns, EndDelete

\* Only streams, and a crash, change where streams are and what they answer.
LEMMA QuietClients ==
  ASSUME \/ \E e \in Execs, c \in Commands : Insert(e, c)
         \/ \E e \in Execs : Execute(e) \/ Process(e)
         \/ \E e \in Execs, s \in Streams : StreamOutput(e, s)
         \/ \E e \in Execs, s \in Streams, z \in LineSizes : Write(e, s, z)
         \/ \E c \in Commands : DeleteCommandRuns(c)
         \/ DeleteAppRuns
         \/ EndDelete
  PROVE  UNCHANGED <<subs, cpc, want, answer>>
<1>1. ASSUME NEW e \in Execs, Execute(e) PROVE UNCHANGED <<subs, cpc, want, answer>>
  BY <1>1 DEF Execute, Start, LookupExecution, LookupCommand, LookupApp,
              StatWorkingDir, MarkRunning, Launch, WaitReturns, Join,
              FinishExecution, BroadcastComplete
<1>2. ASSUME NEW e \in Execs, Process(e) PROVE UNCHANGED <<subs, cpc, want, answer>>
  BY <1>2 DEF Process, Exit
<1>3. ASSUME NEW e \in Execs, NEW s \in Streams, StreamOutput(e, s)
      PROVE  UNCHANGED <<subs, cpc, want, answer>>
  BY <1>3 DEF StreamOutput, Scan, BroadcastLine, ReaderEnds
<1>4. ASSUME NEW e \in Execs, NEW s \in Streams, NEW z \in LineSizes, Write(e, s, z)
      PROVE  UNCHANGED <<subs, cpc, want, answer>>
  BY <1>4 DEF Write
<1>5. CASE \E e \in Execs, c \in Commands : Insert(e, c)
  BY <1>5 DEF Insert
<1>6. CASE (\E c \in Commands : DeleteCommandRuns(c)) \/ DeleteAppRuns \/ EndDelete
  BY <1>6 DEF DeleteCommandRuns, DeleteAppRuns, EndDelete, DeleteCommandRow,
              DeleteAppRow
<1>7. QED BY <1>1, <1>2, <1>3, <1>4, <1>5, <1>6

\* Entering the loop registers the channel, every way out removes it.
LEMMA SubscribersAreStreamingStep ==
  ASSUME IInv, Next
  PROVE  SubscribersAreStreaming'
<1>a. /\ subs \in [Execs -> SUBSET Clients]
      /\ cpc \in [Clients -> {"idle", "subscribe", "stream", "done"}]
      /\ want \in [Clients -> Execs]
  BY DEF IInv, TypeOK
<1>b. SubscribersAreStreaming
  BY DEF IInv
<1>1. CASE UNCHANGED <<subs, cpc, want>>
  BY <1>1, <1>b DEF SubscribersAreStreaming
<1>2. ASSUME NEW c \in Clients, NEW e \in Execs, Open(c, e)
      PROVE  SubscribersAreStreaming'
  BY <1>2, <1>a, <1>b DEF Open, Done, SubscribersAreStreaming
<1>3. ASSUME NEW c \in Clients, Subscribe(c)
      PROVE  SubscribersAreStreaming'
  BY <1>3, <1>a, <1>b DEF Subscribe, SubscribersAreStreaming
<1>4. ASSUME NEW c \in Clients, NEW a, cpc[c] = "stream", Done(c, a),
             Unsubscribe(c), UNCHANGED want
      PROVE  SubscribersAreStreaming'
  BY <1>4, <1>a, <1>b DEF Done, Unsubscribe, SubscribersAreStreaming
<1>5. CASE Crash
  BY <1>5, <1>a DEF Crash, SubscribersAreStreaming
<1>6. ASSUME NEW c \in Clients, Serve(c) \/ Disconnect(c)
      PROVE  \/ UNCHANGED <<subs, cpc, want>>
             \/ Subscribe(c)
             \/ /\ cpc[c] = "stream"
                /\ \E a : Done(c, a)
                /\ Unsubscribe(c)
                /\ UNCHANGED want
  BY <1>6 DEF Serve, ReceiveLine, ReceiveComplete, Disconnect
<1>7. ASSUME \/ \E e \in Execs, c \in Commands : Insert(e, c)
             \/ \E e \in Execs : Execute(e) \/ Process(e)
             \/ \E e \in Execs, s \in Streams : StreamOutput(e, s)
             \/ \E e \in Execs, s \in Streams, z \in LineSizes : Write(e, s, z)
             \/ \E c \in Commands : DeleteCommandRuns(c)
             \/ DeleteAppRuns
             \/ EndDelete
      PROVE  UNCHANGED <<subs, cpc, want>>
  BY <1>7, QuietClients
<1> QED BY <1>1, <1>2, <1>3, <1>4, <1>5, <1>6, <1>7 DEF Next

\* What a broadcast leaves in a channel: what was there, perhaps and only for a
\* subscriber with the message behind it.
LEMMA SendAppends ==
  ASSUME TypeOK, NEW e \in Execs, NEW msg \in Msg, Send(e, msg), NEW c \in Clients
  PROVE  \/ chan'[c] = chan[c]
         \/ /\ c \in subs[e]
            /\ chan'[c] \in Seq(Msg)
            /\ Len(chan'[c]) = Len(chan[c]) + 1
            /\ \A i \in 1..Len(chan[c]) : chan'[c][i] = chan[c][i]
            /\ chan'[c][Len(chan[c]) + 1] = msg
<1>1. chan[c] \in Seq(Msg) /\ chan \in [Clients -> Seq(Msg)]
  BY DEF TypeOK
<1>2. CASE chan'[c] # chan[c]
  <2>1. c \in subs[e] /\ chan'[c] = Append(chan[c], msg)
    BY <1>2 DEF Send
  <2>2. QED BY <1>1, <2>1
<1>3. QED BY <1>2

\* A completion is sent last: by then no reader is left to send a line.
LEMMA ChannelsFollowClientsStep ==
  ASSUME IInv, Next
  PROVE  ChannelsFollowClients'
<1>a. /\ cpc \in [Clients -> {"idle", "subscribe", "stream", "done"}]
      /\ want \in [Clients -> Execs]
      /\ answer \in [Clients -> Answer]
      /\ chan \in [Clients -> Seq(Msg)]
      /\ runPc \in [Execs -> RunPcs]
  BY DEF IInv, TypeOK
<1>b. ChannelsFollowClients /\ SubscribersAreStreaming /\ TypeOK
  BY DEF IInv
<1>c. \A c \in Clients, e \in Execs : c \in subs[e] => cpc[c] = "stream" /\ want[c] = e
  BY <1>b DEF SubscribersAreStreaming
<1>d. ASSUME UNCHANGED <<cpc, want, answer, chan>>,
             \A e \in Execs : runPc[e] = "done" => runPc'[e] = "done"
      PROVE  ChannelsFollowClients'
  BY <1>a, <1>b, <1>d DEF ChannelsFollowClients
<1>1. ASSUME NEW e \in Execs, NEW s \in Streams, BroadcastLine(e, s)
      PROVE  ChannelsFollowClients'
  <2>1. runPc[e] # "done"
    BY <1>1 DEF BroadcastLine, IInv, ProcessFollowsRun
  <2>2. [kind |-> "output", line |-> held[e][s]] \in Msg
    <3>1. held[e][s] \in Line
      BY <1>b DEF TypeOK
    <3> QED BY <3>1 DEF Msg, OutputMsg
  <2> SUFFICES ASSUME NEW c \in Clients, c \in subs[e], chan'[c] # chan[c]
               PROVE  \A i \in DOMAIN chan'[c] : chan'[c][i].kind # "complete"
    BY <1>1, <1>b, <1>c, <2>2, SendAppends DEF BroadcastLine, ChannelsFollowClients
  <2>3. want[c] = e
    BY <1>c
  <2>4. \A i \in 1..Len(chan[c]) : chan[c][i].kind # "complete"
    BY <1>a, <1>b, <2>1, <2>3 DEF ChannelsFollowClients
  <2>5. Send(e, [kind |-> "output", line |-> held[e][s]])
    BY <1>1 DEF BroadcastLine
  <2>6. /\ Len(chan[c]) \in Nat
        /\ DOMAIN chan'[c] = 1..(Len(chan[c]) + 1)
        /\ \A i \in 1..Len(chan[c]) : chan'[c][i] = chan[c][i]
        /\ chan'[c][Len(chan[c]) + 1].kind = "output"
    BY <1>a, <1>b, <2>2, <2>5, SendAppends
  <2> QED BY <2>4, <2>6
<1>2. ASSUME NEW e \in Execs, BroadcastComplete(e)
      PROVE  ChannelsFollowClients'
  <2>1. runPc[e] # "done" /\ runPc' = [runPc EXCEPT ![e] = "done"]
        /\ UNCHANGED <<cpc, want, answer>>
    BY <1>2 DEF BroadcastComplete
  <2> DEFINE msg == [kind |-> "complete", status |-> verdict[e].status]
  <2>2. msg \in Msg
    <3>1. verdict[e].status \in Finished
      BY <1>b DEF TypeOK
    <3> QED BY <3>1 DEF Msg, CompleteMsg
  <2>3. Send(e, msg)
    BY <1>2 DEF BroadcastComplete
  <2> HIDE DEF msg
  <2>4. ASSUME NEW c \in Clients, c \in subs[e], chan'[c] # chan[c]
        PROVE  /\ want[c] = e /\ cpc[c] = "stream"
               /\ \A i \in DOMAIN chan'[c] :
                     chan'[c][i].kind = "complete" => i = Len(chan'[c])
    <3>1. want[c] = e /\ cpc[c] = "stream"
      BY <1>c, <2>4
    <3>2. \A i \in 1..Len(chan[c]) : chan[c][i].kind # "complete"
      BY <1>a, <1>b, <2>1, <3>1 DEF ChannelsFollowClients
    <3>3. /\ Len(chan[c]) \in Nat
          /\ DOMAIN chan'[c] = 1..(Len(chan[c]) + 1)
          /\ Len(chan'[c]) = Len(chan[c]) + 1
          /\ \A i \in 1..Len(chan[c]) : chan'[c][i] = chan[c][i]
      <4>1. TypeOK BY <1>b
      <4>2. chan[c] \in Seq(Msg) BY <4>1 DEF TypeOK
      <4>3. /\ chan'[c] \in Seq(Msg)
            /\ Len(chan'[c]) = Len(chan[c]) + 1
            /\ \A i \in 1..Len(chan[c]) : chan'[c][i] = chan[c][i]
        BY <4>1, <2>2, <2>3, <2>4, SendAppends
      <4>4. Len(chan[c]) \in Nat BY <4>2
      <4>5. DOMAIN chan'[c] = 1..(Len(chan[c]) + 1) BY <4>3
      <4> QED BY <4>3, <4>4, <4>5
    <3> QED BY <3>1, <3>2, <3>3
  <2>5. \A c \in Clients : chan'[c] = chan[c] \/ c \in subs[e]
    BY <1>b, <2>2, <2>3, SendAppends
  <2> QED BY <1>a, <1>b, <2>1, <2>4, <2>5 DEF ChannelsFollowClients
<1>3. ASSUME NEW c \in Clients, NEW e \in Execs, Open(c, e)
      PROVE  ChannelsFollowClients'
  <2>1. chan[c] = <<>>
    BY <1>3, <1>b DEF Open, ChannelsFollowClients
  <2> QED BY <1>3, <2>1, <1>a, <1>b DEF Open, Done, ChannelsFollowClients
<1>4. ASSUME NEW c \in Clients, Subscribe(c)
      PROVE  ChannelsFollowClients'
  BY <1>4, <1>a, <1>b DEF Subscribe, ChannelsFollowClients
<1>5. ASSUME NEW c \in Clients, ReceiveLine(c)
      PROVE  ChannelsFollowClients'
  <2>1. /\ Len(Tail(chan[c])) = Len(chan[c]) - 1
        /\ \A i \in 1..Len(Tail(chan[c])) : Tail(chan[c])[i] = chan[c][i + 1]
        /\ DOMAIN Tail(chan[c]) = 1..Len(Tail(chan[c]))
    BY <1>5, <1>a DEF ReceiveLine
  <2> QED BY <1>5, <2>1, <1>a, <1>b DEF ReceiveLine, ChannelsFollowClients
<1>6. ASSUME NEW c \in Clients, NEW a, Done(c, a), Unsubscribe(c),
             UNCHANGED <<want, runPc>>
      PROVE  ChannelsFollowClients'
  BY <1>6, <1>a, <1>b DEF Done, Unsubscribe, ChannelsFollowClients
<1>7. CASE Crash
  BY <1>7, <1>a, <1>b DEF Crash, ChannelsFollowClients
<1>8. ASSUME NEW c \in Clients, Serve(c) \/ Disconnect(c)
      PROVE  \/ Subscribe(c)
             \/ ReceiveLine(c)
             \/ (\E a : Done(c, a)) /\ Unsubscribe(c) /\ UNCHANGED <<want, runPc>>
  BY <1>8 DEF Serve, ReceiveComplete, Disconnect
<1>9. ASSUME NEW e \in Execs, Execute(e)
      PROVE  \/ BroadcastComplete(e)
             \/ /\ UNCHANGED <<cpc, want, answer, chan>>
                /\ \A x \in Execs : runPc[x] = "done" => runPc'[x] = "done"
  <2>1. CASE Start(e) BY <2>1, <1>a DEF Start
  <2>2. CASE LookupExecution(e) \/ LookupCommand(e) \/ LookupApp(e) \/ StatWorkingDir(e)
    BY <2>2, <1>a
    DEF LookupExecution, LookupCommand, LookupApp, StatWorkingDir, Step, Fail
  <2>3. CASE MarkRunning(e) \/ Launch(e)
    BY <2>3, <1>a DEF MarkRunning, Launch, Fail
  <2>4. CASE WaitReturns(e) \/ Join(e) \/ FinishExecution(e)
    BY <2>4, <1>a DEF WaitReturns, Join, FinishExecution
  <2>5. QED BY <1>9, <2>1, <2>2, <2>3, <2>4 DEF Execute
<1>10. ASSUME \/ \E e \in Execs, c \in Commands : Insert(e, c)
              \/ \E e \in Execs : Process(e)
              \/ \E e \in Execs, s \in Streams : Scan(e, s) \/ ReaderEnds(e, s)
              \/ \E e \in Execs, s \in Streams, z \in LineSizes : Write(e, s, z)
              \/ \E c \in Commands : DeleteCommandRuns(c)
              \/ DeleteAppRuns
              \/ EndDelete
       PROVE  /\ UNCHANGED <<cpc, want, answer, chan>>
              /\ \A x \in Execs : runPc[x] = "done" => runPc'[x] = "done"
  <2>1. CASE \E e \in Execs, c \in Commands : Insert(e, c)
    BY <2>1, <1>a DEF Insert
  <2>2. CASE \E e \in Execs : Process(e)
    BY <2>2 DEF Process, Exit
  <2>3. CASE \E e \in Execs, s \in Streams : Scan(e, s) \/ ReaderEnds(e, s)
    BY <2>3 DEF Scan, ReaderEnds
  <2>4. CASE \E e \in Execs, s \in Streams, z \in LineSizes : Write(e, s, z)
    BY <2>4 DEF Write
  <2>5. CASE (\E c \in Commands : DeleteCommandRuns(c)) \/ DeleteAppRuns \/ EndDelete
    BY <2>5 DEF DeleteCommandRuns, DeleteAppRuns, EndDelete, DeleteCommandRow,
                DeleteAppRow
  <2>6. QED BY <1>10, <2>1, <2>2, <2>3, <2>4, <2>5
<1> QED BY <1>1, <1>2, <1>3, <1>4, <1>5, <1>6, <1>7, <1>8, <1>9, <1>10, <1>d
           DEF Next, StreamOutput

\* A deleted row stays deleted: no UPDATE brings it back.
LEMMA DeletedStays ==
  ASSUME IInv, Next, NEW e \in Execs, row[e].status = "deleted"
  PROVE  row'[e].status = "deleted"
<1>a. row \in [Execs -> Row]
  BY DEF IInv, TypeOK
<1>1. ASSUME NEW x \in Execs, NEW c \in Commands, Insert(x, c)
      PROVE  row'[e].status = "deleted"
  BY <1>1, <1>a DEF Insert, IInv, RowFollowsRun
<1>2. ASSUME NEW x \in Execs, MarkRunning(x) \/ FinishExecution(x)
      PROVE  row'[e].status = "deleted"
  BY <1>2, <1>a DEF MarkRunning, FinishExecution, UpdateRow, Present
<1>3. ASSUME NEW D, DeleteRows(D)
      PROVE  row'[e].status = "deleted"
  BY <1>3, <1>a DEF DeleteRows, BlankRow
<1>4. ASSUME NEW x \in Execs, Execute(x)
      PROVE  UNCHANGED row \/ MarkRunning(x) \/ FinishExecution(x)
  BY <1>4 DEF Execute, Start, LookupExecution, LookupCommand, LookupApp,
              StatWorkingDir, Launch, WaitReturns, Join, BroadcastComplete
<1> QED BY QuietRows, <1>1, <1>2, <1>3, <1>4
           DEF DeleteCommandRuns, DeleteAppRuns, Crash

\* An answer is only given from a row that has a verdict, and an answered
\* request is over.
LEMMA AnswerIsVerdictStep ==
  ASSUME IInv, Next
  PROVE  AnswerIsVerdict'
<1> SUFFICES ASSUME ~DbFaults, NEW c \in Clients,
                    answer'[c].kind \in {"live", "replay"}
             PROVE  \/ answer'[c].status = "success" <=> answer'[c].exit = 0
                    \/ answer'[c].kind = "live" /\ row'[want'[c]].status = "deleted"
  BY DEF AnswerIsVerdict
<1>a. /\ answer \in [Clients -> Answer]
      /\ want \in [Clients -> Execs]
      /\ chan \in [Clients -> Seq(Msg)]
      /\ row \in [Execs -> Row]
  BY DEF IInv, TypeOK
<1>b. RowAgrees /\ RowFollowsRun /\ ChannelsFollowClients /\ AnswerIsVerdict
  BY DEF IInv
<1>1. CASE UNCHANGED <<answer[c], want[c]>>
  <2>1. \/ answer[c].status = "success" <=> answer[c].exit = 0
        \/ answer[c].kind = "live" /\ row[want[c]].status = "deleted"
    BY <1>1, <1>b DEF AnswerIsVerdict
  <2>2. want[c] \in Execs
    BY <1>a
  <2> QED BY <1>1, <2>1, <2>2, DeletedStays
<1>2. ASSUME NEW e \in Execs, Open(c, e)
      PROVE  \/ answer'[c].status = "success" <=> answer'[c].exit = 0
             \/ answer'[c].kind = "live" /\ row'[want'[c]].status = "deleted"
  <2>1. answer[c].kind = "none"
    BY <1>2, <1>b DEF Open, ChannelsFollowClients
  <2>2. CASE Done(c, [NoAnswer EXCEPT !.kind = "notfound"])
    BY <2>2, <1>a DEF Done, NoAnswer
  <2>3. CASE /\ row[e].status \in Finished
             /\ Done(c, [kind |-> "replay", status |-> row[e].status,
                         exit |-> row[e].exit])
    BY <2>3, <1>a, <1>b DEF Done, RowAgrees
  <2>4. CASE UNCHANGED answer
    BY <2>1, <2>4
  <2> QED BY <1>2, <2>2, <2>3, <2>4 DEF Open
<1>3. CASE ReceiveComplete(c)
  <2> DEFINE r == row[want[c]]
  <2>1. want[c] \in Execs /\ r \in Row
    BY <1>a
  <2>2. runPc[want[c]] = "done"
    BY <1>3, <1>a, <1>b DEF ReceiveComplete, ChannelsFollowClients
  <2>3. r.status \in Finished \cup {"deleted"}
    BY <2>1, <2>2, <1>b DEF RowFollowsRun
  <2>4. CASE r.exit # NoExit
    <3>1. r.status = "success" <=> r.exit = 0
      BY <2>1, <2>4, <1>b DEF RowAgrees
    <3>2. answer'[c] = [kind |-> "live", status |-> r.status, exit |-> r.exit]
      BY <1>3, <1>a, <2>4 DEF ReceiveComplete, Done
    <3> QED BY <3>1, <3>2
  <2>5. CASE r.exit = NoExit
    <3>1. r.status = "deleted"
      BY <2>1, <2>3, <2>5, <1>b DEF RowAgrees
    <3>2. answer'[c].kind = "live" /\ UNCHANGED <<want, row>>
      BY <1>3, <1>a, <2>5 DEF ReceiveComplete, Done
    <3> QED BY <3>1, <3>2
  <2> QED BY <2>4, <2>5
<1>4. CASE Disconnect(c) \/ Crash
  <2>1. answer'[c].kind = "gone" \/ UNCHANGED <<answer[c], want[c]>>
    BY <1>4, <1>a DEF Disconnect, Done, NoAnswer, Crash
  <2> QED BY <2>1, <1>1
<1>5. ASSUME NEW d \in Clients,
             (\E e \in Execs : Open(d, e)) \/ Serve(d) \/ Disconnect(d)
      PROVE  \/ UNCHANGED <<answer[c], want[c]>>
             \/ d = c /\ ((\E e \in Execs : Open(c, e)) \/ ReceiveComplete(c)
                           \/ Disconnect(c))
  BY <1>5, <1>a DEF Open, Serve, Subscribe, ReceiveLine, ReceiveComplete,
                    Disconnect, Done
<1>6. ASSUME \/ \E e \in Execs, x \in Commands : Insert(e, x)
             \/ \E e \in Execs : Execute(e) \/ Process(e)
             \/ \E e \in Execs, s \in Streams : StreamOutput(e, s)
             \/ \E e \in Execs, s \in Streams, z \in LineSizes : Write(e, s, z)
             \/ \E x \in Commands : DeleteCommandRuns(x)
             \/ DeleteAppRuns
             \/ EndDelete
      PROVE  UNCHANGED <<answer, want>>
  BY <1>6, QuietClients
<1> QED BY <1>1, <1>2, <1>3, <1>4, <1>5, <1>6 DEF Next

\* The invariant is inductive.
LEMMA InvStep == IInv /\ [Next]_vars => IInv'
<1> SUFFICES ASSUME IInv, [Next]_vars PROVE IInv'
  OBVIOUS
<1>1. CASE UNCHANGED vars
  BY <1>1 DEF vars, IInv, TypeOK, RowFollowsRun, RowAgrees, ProcessFollowsRun,
              ReferencesHold, Present, SubscribersAreStreaming,
              ChannelsFollowClients, AnswerIsVerdict
<1>2. CASE Next
  <2>1. TypeOK'
    BY <1>2, TypeStep DEF IInv
  <2> QED
    BY <1>2, <2>1, RowFollowsRunStep, RowAgreesStep, ProcessFollowsRunStep,
       ReferencesHoldStep, SubscribersAreStreamingStep,
       ChannelsFollowClientsStep, AnswerIsVerdictStep DEF IInv
<1> QED BY <1>1, <1>2

\* The conjunction of what every part keeps true of the others.
THEOREM InvariantHolds == Spec => []IInv
BY InitInv, InvStep, PTL DEF Spec

-------------------------------------------------------------------------------
(* What follows from it *)

\* No early return of Execute leaves a row unfinished.
THEOREM NoRowIsForgotten == Spec => []UnfinishedRowHasRunner
<1>1. IInv => UnfinishedRowHasRunner
  <2> SUFFICES ASSUME IInv, ~DbFaults, NEW e \in Execs,
                      row[e].status \in Unfinished
               PROVE  runPc[e] \in Active \/ (runPc[e] = "lost" /\ crashes > 0)
    BY DEF UnfinishedRowHasRunner
  <2>1. runPc[e] \in RunPcs
    BY DEF IInv, TypeOK
  <2>2. runPc[e] \notin {"new", "aborted", "done"}
    BY DEF IInv, RowFollowsRun, Unfinished, Finished
  <2> QED BY <2>1, <2>2 DEF RunPcs, IInv, RowFollowsRun
<1> QED BY <1>1, InvariantHolds, PTL

\* Deletions that overlap insertions leave no dangling reference.
THEOREM ReferencesAlwaysHold == Spec => []ReferencesHold
<1>1. IInv => ReferencesHold
  BY DEF IInv
<1> QED BY <1>1, InvariantHolds, PTL

\* No channel leaks and none is missing.
THEOREM SubscribersAlwaysStream == Spec => []SubscribersAreStreaming
<1>1. IInv => SubscribersAreStreaming
  BY DEF IInv
<1> QED BY <1>1, InvariantHolds, PTL

\* The completion reaches a subscriber only after the table has the verdict.
THEOREM CompletionIsRecorded == Spec => []CompletionAfterRecord
<1>1. IInv => CompletionAfterRecord
  <2> SUFFICES ASSUME IInv, ~DbFaults, NEW c \in Clients, NEW i \in DOMAIN chan[c],
                      chan[c][i].kind = "complete"
               PROVE  row[want[c]].status \in Finished \cup {"deleted"}
    BY DEF CompletionAfterRecord
  <2>1. runPc[want[c]] = "done"
    BY DEF IInv, ChannelsFollowClients
  <2>2. want[c] \in Execs
    BY DEF IInv, TypeOK
  <2> QED BY <2>1, <2>2 DEF IInv, RowFollowsRun
<1> QED BY <1>1, InvariantHolds, PTL

\* Nothing follows the completion in a channel, and no reader is left that
\* could broadcast.
THEOREM NothingAfterCompletion == Spec => []CompleteIsLast
<1>1. IInv => CompleteIsLast
  <2> SUFFICES ASSUME IInv, NEW c \in Clients, NEW i \in DOMAIN chan[c],
                      chan[c][i].kind = "complete"
               PROVE  /\ i = Len(chan[c])
                      /\ \A s \in Streams : reader[want[c]][s] \in {"off", "eof"}
    BY DEF CompleteIsLast
  <2>1. runPc[want[c]] = "done" /\ i = Len(chan[c])
    BY DEF IInv, ChannelsFollowClients
  <2>2. want[c] \in Execs
        /\ reader \in [Execs -> [Streams -> {"off", "scan", "send", "eof"}]]
    BY DEF IInv, TypeOK
  <2>3. \A s \in Streams : reader[want[c]][s] \notin {"scan", "send"}
    BY <2>1, <2>2 DEF IInv, ProcessFollowsRun
  <2> QED BY <2>1, <2>2, <2>3
<1> QED BY <1>1, InvariantHolds, PTL

\* A client is told the recorded verdict, or the execution was deleted.
THEOREM AnswersAreVerdicts == Spec => []AnswerIsVerdict
<1>1. IInv => AnswerIsVerdict
  BY DEF IInv
<1> QED BY <1>1, InvariantHolds, PTL
-------------------------------------------------------------------------------
(* The executions table implements ExecutionLifecycle *)

\* What the lifecycle sees of the table.
Table == <<[e \in Execs |-> row[e].status], [e \in Execs |-> row[e].exit]>>

\* A step that leaves the rows alone is a stutter of the lifecycle.
LEMMA QuietTable ==
  ASSUME UNCHANGED row
  PROVE  UNCHANGED Table
BY DEF Table

\* Deleting the rows that are present is the lifecycle's deletion.
LEMMA DeletionRefines ==
  ASSUME row \in [Execs -> Row], NEW C, DeleteRows(RunsOf(C))
  PROVE  L!Next
<1>1. PICK D \in SUBSET Execs : D = RunsOf(C)
  BY DEF RunsOf
<1>2. \A e \in D : row[e].status \in L!Unfinished \cup L!Finished
  BY <1>1 DEF RunsOf, Present, Row, Statuses, Unfinished, Finished,
              L!Unfinished, L!Finished
<1>3. /\ [e \in Execs |-> row'[e].status] =
           [e \in Execs |-> IF e \in D THEN "deleted" ELSE row[e].status]
      /\ [e \in Execs |-> row'[e].exit] =
           [e \in Execs |-> IF e \in D THEN NoExit ELSE row[e].exit]
  BY <1>1 DEF DeleteRows, BlankRow
<1>4. L!Delete(D)
  BY <1>2, <1>3 DEF L!Delete
<1> QED BY <1>4 DEF L!Next

\* One row changes to r: what the two projections of the table become.
LEMMA OneRow ==
  ASSUME row \in [Execs -> Row], NEW e \in Execs, NEW r,
         row' = [row EXCEPT ![e] = r]
  PROVE  /\ [x \in Execs |-> row'[x].status] =
              [[x \in Execs |-> row[x].status] EXCEPT ![e] = r.status]
         /\ [x \in Execs |-> row'[x].exit] =
              [[x \in Execs |-> row[x].exit] EXCEPT ![e] = r.exit]
OBVIOUS

\* Every step of the server is a step of the lifecycle, or a stutter.
LEMMA StepRefines == IInv /\ [Next]_vars => [L!Next]_Table
<1> SUFFICES ASSUME IInv, [Next]_vars PROVE L!Next \/ UNCHANGED Table
  OBVIOUS
<1>a. row \in [Execs -> Row] /\ verdict \in [Execs -> Verdict]
  BY DEF IInv, TypeOK, Verdict
<1>b. RowFollowsRun /\ RowAgrees /\ ProcessFollowsRun
  BY DEF IInv
<1>1. ASSUME NEW e \in Execs, NEW c \in Commands, Insert(e, c)
      PROVE  L!Next
  <2>1. row[e].status = "absent" /\ row[e].exit = NoExit
    BY <1>1, <1>a, <1>b DEF Insert, RowFollowsRun, RowAgrees, Finished
  <2>2. /\ [x \in Execs |-> row'[x].status] =
             [[x \in Execs |-> row[x].status] EXCEPT ![e] = "pending"]
        /\ [x \in Execs |-> row'[x].exit] =
             [[x \in Execs |-> row[x].exit] EXCEPT ![e] = NoExit]
    BY <1>1, <1>a, OneRow DEF Insert, BlankRow
  <2>3. L!Insert(e)
    BY <2>1, <2>2 DEF L!Insert
  <2> QED BY <2>3 DEF L!Next
<1>2. ASSUME NEW e \in Execs, MarkRunning(e)
      PROVE  L!Next \/ UNCHANGED Table
  <2>1. CASE UNCHANGED row
    BY <2>1, QuietTable
  <2>2. CASE Present(e) /\ row' = [row EXCEPT ![e] = [row[e] EXCEPT !.status = "running"]]
    <3>1. row[e].status = "pending"
      BY <1>2, <2>2, <1>a, <1>b DEF MarkRunning, RowFollowsRun, Present
    <3>2. /\ [x \in Execs |-> row'[x].status] =
               [[x \in Execs |-> row[x].status] EXCEPT ![e] = "running"]
          /\ [x \in Execs |-> row'[x].exit] = [x \in Execs |-> row[x].exit]
      <4>1. row[e] \in Row
        BY <1>a
      <4>2. /\ row'[e].status = "running" /\ row'[e].exit = row[e].exit
            /\ \A x \in Execs : x # e => row'[x] = row[x]
        BY <2>2, <4>1, <1>a DEF Row
      <4> QED BY <4>2
    <3>3. L!Begin(e)
      BY <3>1, <3>2 DEF L!Begin
    <3> QED BY <3>3 DEF L!Next
  <2> QED BY <1>2, <2>1, <2>2 DEF MarkRunning, UpdateRow
<1>3. ASSUME NEW e \in Execs, FinishExecution(e)
      PROVE  L!Next \/ UNCHANGED Table
  <2> DEFINE r == [status |-> verdict[e].status, exit |-> verdict[e].exit,
                   output |-> buf[e]]
  <2>1. CASE UNCHANGED row
    BY <2>1, QuietTable
  <2>2. CASE Present(e) /\ row' = [row EXCEPT ![e] = r]
    <3>1. row[e].status \in L!Unfinished
      BY <1>3, <2>2, <1>a, <1>b DEF FinishExecution, RowFollowsRun, Present,
         Row, Statuses, Unfinished, Finished, L!Unfinished
    <3>2. /\ verdict[e].exit \in ExitCodes
          /\ verdict[e].status = IF verdict[e].exit = 0 THEN "success" ELSE "failed"
      BY <1>3, <1>a, <1>b DEF ProcessFollowsRun, FinishExecution, Verdict, Finished
    <3>3. /\ [x \in Execs |-> row'[x].status] =
               [[x \in Execs |-> row[x].status] EXCEPT ![e] = verdict[e].status]
          /\ [x \in Execs |-> row'[x].exit] =
               [[x \in Execs |-> row[x].exit] EXCEPT ![e] = verdict[e].exit]
      BY <2>2, <1>a, OneRow
    <3>4. L!Finish(e)
      BY <3>1, <3>2, <3>3 DEF L!Finish
    <3> QED BY <3>4 DEF L!Next
  <2> QED BY <1>3, <2>1, <2>2 DEF FinishExecution, UpdateRow
<1>4. ASSUME NEW e \in Execs, Execute(e)
      PROVE  UNCHANGED row \/ MarkRunning(e) \/ FinishExecution(e)
  BY <1>4 DEF Execute, Start, LookupExecution, LookupCommand, LookupApp,
              StatWorkingDir, Launch, WaitReturns, Join, BroadcastComplete
<1>5. CASE Next
  BY <1>5, <1>a, <1>1, <1>2, <1>3, <1>4, QuietRows, QuietTable, DeletionRefines
     DEF DeleteCommandRuns, DeleteAppRuns, Crash
<1>6. CASE UNCHANGED vars
  BY <1>6, QuietTable DEF vars
<1> QED BY <1>5, <1>6

\* Whatever goroutines, deletions and crashes do, the executions table shows
\* its readers one lifecycle: one verdict per execution, no row back from the
\* dead.
THEOREM LifecycleImplemented == Spec => Lifecycle
<1>1. Init => L!Init
  BY DEF Init, BlankRow, L!Init
<1> QED BY <1>1, InvariantHolds, StepRefines, PTL DEF Spec, Lifecycle, L!Spec, Table

-------------------------------------------------------------------------------
(* The stored output.  Induction over the lines goes through the least      *)
(* number that a set leaves out.                                            *)

LEMMA Induct ==
  ASSUME NEW N \in Nat, NEW S, 0 \in S, \A n \in 0..(N - 1) : n \in S => n + 1 \in S
  PROVE  0..N \subseteq S
<1> DEFINE T == {n \in 0..N : n \notin S}
           R == OpToRel(<, Nat)
<1>1. SUFFICES ASSUME T # {} PROVE FALSE
  OBVIOUS
<1>2. \E x \in T : \A y \in T : ~(<<y, x>> \in R)
  <2>1. IsWellFoundedOn(R, Nat)
    BY NatLessThanWellFounded
  <2>2. T \subseteq Nat
    OBVIOUS
  <2> HIDE DEF T, R
  <2>3. QED BY <1>1, <2>1, <2>2, WFMin
<1>3. PICK x \in T : \A y \in T : ~(<<y, x>> \in R)
  BY <1>2
<1>4. \A a, b \in Nat : a < b => <<a, b>> \in R
  BY DEF OpToRel
<1>5. x \in 0..N /\ x \notin S /\ x # 0
  OBVIOUS
<1>6. x - 1 \in 0..(N - 1) /\ x - 1 \in Nat /\ x \in Nat /\ x - 1 < x /\ (x - 1) + 1 = x
  BY <1>5
<1> HIDE DEF R
<1>7. x - 1 \notin T
  BY <1>3, <1>4, <1>6
<1>8. x - 1 \in S
  BY <1>6, <1>7
<1>9. QED BY <1>5, <1>6, <1>8

\* g adds up the sizes of the first n lines.
IsSum(g, n, lines) ==
  g = [i \in 0..n |-> IF i = 0 THEN 0 ELSE g[i - 1] + lines[i].size]

LEMMA SumExists ==
  ASSUME NEW lines, NEW N \in Nat
  PROVE  \E g : IsSum(g, N, lines)
<1> DEFINE S == {n \in 0..N : \E g : IsSum(g, n, lines)}
<1>1. 0 \in S
  <2>1. IsSum([i \in 0..0 |-> 0], 0, lines)
    BY DEF IsSum
  <2>2. QED BY <2>1
<1>2. ASSUME NEW n \in 0..(N - 1), n \in S PROVE n + 1 \in S
  <2>1. PICK g : IsSum(g, n, lines)
    BY <1>2
  <2>2. PICK m \in Nat : m = n + 1
    OBVIOUS
  <2> DEFINE h == [i \in 0..m |-> IF i = m THEN g[n] + lines[m].size ELSE g[i]]
  <2>3. \A i \in 0..m : h[i] = IF i = 0 THEN 0 ELSE h[i - 1] + lines[i].size
    <3> SUFFICES ASSUME NEW i \in 0..m
                 PROVE  h[i] = IF i = 0 THEN 0 ELSE h[i - 1] + lines[i].size
      OBVIOUS
    <3>1. CASE i = m
      <4>1. i # 0 /\ i - 1 = n /\ n \in 0..m /\ n # m
        BY <2>2, <3>1
      <4>2. h[n] = g[n]
        BY <4>1
      <4>3. QED BY <3>1, <4>1, <4>2
    <3>2. CASE i # m
      <4>1. i \in 0..n
        BY <2>2, <3>2
      <4>2. g[i] = IF i = 0 THEN 0 ELSE g[i - 1] + lines[i].size
        BY <2>1, <4>1 DEF IsSum
      <4>3. i # 0 => i - 1 \in 0..m /\ i - 1 # m
        BY <2>2, <4>1
      <4>4. QED BY <3>2, <4>2, <4>3
    <3>3. QED BY <3>1, <3>2
  <2>4. IsSum(h, m, lines)
    BY <2>3 DEF IsSum
  <2>5. m \in 0..N
    BY <1>2, <2>2
  <2>6. QED BY <2>2, <2>4, <2>5
<1> HIDE DEF S
<1>3. 0..N \subseteq S
  BY <1>1, <1>2, Induct
<1>4. QED BY <1>3 DEF S

Sums(g, n, lines) == \A i \in 0..n : g[i] = IF i = 0 THEN 0 ELSE g[i - 1] + lines[i].size
Same(l, m, n) == \A i \in 1..n : l[i] = m[i] /\ l[i].size \in Nat

\* Sums of the same lines are the same numbers.
LEMMA SumsAgree ==
  ASSUME NEW N \in Nat, NEW l, NEW g, NEW m, NEW h,
         Same(l, m, N), Sums(g, N, l), Sums(h, N, m)
  PROVE  g[N] = h[N] /\ g[N] \in Nat
<1> DEFINE S == {n \in 0..N : g[n] = h[n] /\ g[n] \in Nat}
<1>1. 0 \in S
  BY DEF Sums
<1>2. ASSUME NEW n \in 0..(N - 1), n \in S PROVE n + 1 \in S
  <2>1. PICK k \in 1..N : k = n + 1
    OBVIOUS
  <2>2. k \in 0..N /\ k # 0 /\ k - 1 = n
    BY <2>1
  <2>3. g[k] = g[n] + l[k].size /\ h[k] = h[n] + m[k].size
    BY <2>2 DEF Sums
  <2>4. l[k].size = m[k].size /\ l[k].size \in Nat /\ g[n] = h[n] /\ g[n] \in Nat
    BY <1>2 DEF Same
  <2>5. g[k] = h[k] /\ g[k] \in Nat
    BY <2>3, <2>4
  <2>6. QED BY <2>1, <2>2, <2>5
<1> HIDE DEF S
<1>3. 0..N \subseteq S
  BY <1>1, <1>2, Induct
<1>4. QED BY <1>3 DEF S

\* What BytesOf is: the last sum.
LEMMA BytesAre ==
  ASSUME NEW l \in Seq(Line)
  PROVE  \E g : BytesOf(l) = g[Len(l)] /\ Sums(g, Len(l), l)
<1> DEFINE g == CHOOSE h : h = [i \in 0..Len(l) |-> IF i = 0 THEN 0 ELSE h[i - 1] + l[i].size]
<1>1. Len(l) \in Nat
  OBVIOUS
<1>2. \E h : IsSum(h, Len(l), l)
  BY <1>1, SumExists
<1>3. g = [i \in 0..Len(l) |-> IF i = 0 THEN 0 ELSE g[i - 1] + l[i].size]
  BY <1>2 DEF IsSum
<1>4. BytesOf(l) = g[Len(l)]
  BY DEF BytesOf
<1> HIDE DEF g
<1>5. Sums(g, Len(l), l)
  BY <1>3 DEF Sums
<1>6. QED BY <1>4, <1>5

LEMMA BytesOfNone == BytesOf(<<>>) = 0
<1>1. <<>> \in Seq(Line) /\ Len(<<>>) = 0
  OBVIOUS
<1>2. PICK g : BytesOf(<<>>) = g[Len(<<>>)] /\ Sums(g, Len(<<>>), <<>>)
  BY <1>1, BytesAre
<1>3. g[0] = 0
  BY <1>1, <1>2 DEF Sums
<1>4. QED BY <1>1, <1>2, <1>3

LEMMA BytesOfAppend ==
  ASSUME NEW l \in Seq(Line), NEW x \in Line
  PROVE  BytesOf(Append(l, x)) = BytesOf(l) + x.size /\ BytesOf(l) \in Nat
<1>1. PICK m \in Seq(Line) : m = Append(l, x)
  <2>1. Append(l, x) \in Seq(Line)
    OBVIOUS
  <2>2. QED BY <2>1
<1>2. PICK N \in Nat, M \in Nat : N = Len(l) /\ M = N + 1 /\ M = Len(m)
  BY <1>1
<1>3. m[M] = x /\ \A i \in 1..N : m[i] = l[i] /\ l[i] \in Line
  BY <1>1, <1>2
<1>4. Same(m, l, N)
  BY <1>3 DEF Line, Same
<1>5. PICK g : BytesOf(l) = g[N] /\ Sums(g, N, l)
  BY <1>2, BytesAre
<1>6. PICK h : BytesOf(m) = h[M] /\ Sums(h, M, m)
  BY <1>2, BytesAre
<1>7. Sums(h, N, m)
  <2>1. \A i \in 0..N : i \in 0..M
    BY <1>2
  <2>2. QED BY <1>6, <2>1 DEF Sums
<1>8. h[N] = g[N] /\ h[N] \in Nat
  BY <1>4, <1>5, <1>7, SumsAgree
<1>9. h[M] = h[N] + x.size
  <2>1. M \in 0..M /\ M # 0 /\ M - 1 = N
    BY <1>2
  <2>2. QED BY <1>3, <1>6, <2>1 DEF Sums
<1>10. QED BY <1>1, <1>5, <1>6, <1>8, <1>9

\* The places of a pipe among lines.
PlacesIn(l, s, i) == {j \in 1..i : l[j].from = s}

LEMMA PlacesFinite ==
  ASSUME NEW l, NEW s, NEW i \in Nat
  PROVE  IsFiniteSet(PlacesIn(l, s, i)) /\ Cardinality(PlacesIn(l, s, i)) \in Nat
<1>1. IsFiniteSet(1..i)
  BY FS_Interval
<1>2. PlacesIn(l, s, i) \subseteq 1..i
  BY DEF PlacesIn
<1>3. IsFiniteSet(PlacesIn(l, s, i))
  BY <1>1, <1>2, FS_Subset
<1>4. QED BY <1>3, FS_CardinalityType

LEMMA PlacesOfAppend ==
  ASSUME NEW l \in Seq(Line), NEW x \in Line, NEW s, NEW N \in Nat, N = Len(l)
  PROVE  /\ \A i \in 0..N : PlacesIn(Append(l, x), s, i) = PlacesIn(l, s, i)
         /\ x.from # s => PlacesIn(Append(l, x), s, N + 1) = PlacesIn(l, s, N)
         /\ x.from = s => Cardinality(PlacesIn(Append(l, x), s, N + 1))
                            = Cardinality(PlacesIn(l, s, N)) + 1
<1>1. PICK m : m = Append(l, x)
  OBVIOUS
<1>2. PICK M \in Nat : M = N + 1
  OBVIOUS
<1>3. m[M] = x /\ \A j \in 1..N : m[j] = l[j]
  BY <1>1, <1>2
<1>4. \A i \in 0..N : PlacesIn(m, s, i) = PlacesIn(l, s, i)
  <2>1. \A i \in 0..N : \A j \in 1..i : j \in 1..N
    OBVIOUS
  <2>2. QED BY <1>3, <2>1 DEF PlacesIn
<1>5. \A j : j \in 1..M <=> j \in 1..N \/ j = M
  BY <1>2
<1>6. x.from # s => PlacesIn(m, s, M) = PlacesIn(l, s, N)
  BY <1>3, <1>5 DEF PlacesIn
<1>7. ASSUME x.from = s
      PROVE  Cardinality(PlacesIn(m, s, M)) = Cardinality(PlacesIn(l, s, N)) + 1
  <2>1. PlacesIn(m, s, M) = PlacesIn(l, s, N) \cup {M}
    BY <1>3, <1>5, <1>7 DEF PlacesIn
  <2>2. M \notin PlacesIn(l, s, N)
    BY <1>2 DEF PlacesIn
  <2>3. IsFiniteSet(PlacesIn(l, s, N))
    BY PlacesFinite
  <2>4. QED BY <2>1, <2>2, <2>3, FS_AddElement
<1>8. QED BY <1>1, <1>2, <1>4, <1>6, <1>7

-------------------------------------------------------------------------------
(* The inductive invariant of the stored output.  The lines in a pipe carry *)
(* on from the last one scanned; while the limit has not been reached, every *)
(* scanned line is stored.                                                  *)

Early == {"new"} \cup BeforeStart
Fed(e, s) ==
  /\ \A i \in DOMAIN pipe[e][s] : pipe[e][s][i].from = s /\ pipe[e][s][i].n = held[e][s].n + i
  /\ proc[e] = "none" => pipe[e][s] = <<>>
  /\ proc[e] \in {"none", "alive"} => emitted[e][s] = held[e][s].n + Len(pipe[e][s])
AllKept(e, s) == Cardinality(Kept(e, s)) = held[e][s].n \/ buf[e].size >= MaxOutput
SizeRight(e) ==
  IF buf[e].cut
  THEN buf[e].size = MaxOutput + MarkerSize /\ BytesOf(buf[e].lines) < MaxOutput
  ELSE buf[e].size = BytesOf(buf[e].lines) /\ buf[e].size <= MaxOutput

PipeInv == \A e \in Execs :
             /\ runPc[e] \in Early => proc[e] = "none"
             /\ \A s \in Streams : Fed(e, s)
BufInv == \A e \in Execs : SizeRight(e) /\ \A s \in Streams : AllKept(e, s)
OutputInv == PipeInv /\ BufInv /\ StoredOutputIsPrefix

LEMMA OutputInitial == Init => OutputInv
<1> SUFFICES ASSUME Init PROVE OutputInv
  OBVIOUS
<1>1. \A e \in Execs : /\ buf[e] = EmptyOutput /\ proc[e] = "none" /\ runPc[e] = "new"
                       /\ \A s \in Streams : /\ pipe[e][s] = <<>> /\ emitted[e][s] = 0
                                             /\ held[e][s].n = 0
  BY DEF Init
<1>2. PipeInv
  BY <1>1 DEF PipeInv, Fed
<1>3. \A e \in Execs : SizeRight(e)
  <2>1. 0 <= MaxOutput
    BY OutputAssumption
  <2>2. QED BY <1>1, <2>1, BytesOfNone DEF SizeRight, EmptyOutput
<1>4. \A e \in Execs, s \in Streams : Kept(e, s) = {}
  BY <1>1 DEF Kept, Places, EmptyOutput
<1>5. \A e \in Execs, s \in Streams : AllKept(e, s)
  BY <1>1, <1>4, FS_EmptySet DEF AllKept
<1>6. StoredOutputIsPrefix
  BY <1>4 DEF StoredOutputIsPrefix
<1>7. QED BY <1>2, <1>3, <1>5, <1>6 DEF OutputInv, BufInv

\* What changes neither the output nor the lines scanned keeps BufInv.
LEMMA OutputSame ==
  ASSUME BufInv, StoredOutputIsPrefix, UNCHANGED <<buf, held>>
  PROVE  BufInv' /\ StoredOutputIsPrefix'
<1>1. \A e, s : Kept(e, s)' = Kept(e, s) /\ \A i : Places(e, s, i)' = Places(e, s, i)
  BY DEF Kept, Places
<1>2. StoredOutputIsPrefix'
  BY <1>1 DEF StoredOutputIsPrefix
<1>3. BufInv'
  BY <1>1 DEF BufInv, SizeRight, AllKept
<1>4. QED BY <1>2, <1>3

LEMMA OutputQuiet ==
  ASSUME OutputInv, UNCHANGED <<buf, held, pipe, emitted, proc>>,
         \A e \in Execs : runPc'[e] \in Early => runPc[e] \in Early
  PROVE  OutputInv'
<1>1. PipeInv'
  BY DEF OutputInv, PipeInv, Fed
<1>2. QED BY <1>1, OutputSame DEF OutputInv

\* What becomes of a line that is under the limit at first.
LEMMA AddLineIs ==
  ASSUME NEW o \in Output, NEW x \in Line, o.size < MaxOutput
  PROVE  /\ o.size + x.size > MaxOutput =>
              /\ AddLine(o, x).lines = o.lines /\ AddLine(o, x).cut
              /\ AddLine(o, x).size = MaxOutput + MarkerSize
         /\ o.size + x.size <= MaxOutput =>
              /\ AddLine(o, x).lines = Append(o.lines, x) /\ AddLine(o, x).cut = o.cut
              /\ AddLine(o, x).size = o.size + x.size
<1>1. o.size \in Nat /\ x.size \in Nat /\ MaxOutput \in Nat
  BY OutputAssumption DEF Output, Line
<1>2. ASSUME o.size + x.size > MaxOutput
      PROVE  /\ AddLine(o, x).lines = o.lines /\ AddLine(o, x).cut
             /\ AddLine(o, x).size = MaxOutput + MarkerSize
  <2>1. AddLine(o, x) = [o EXCEPT !.size = MaxOutput + MarkerSize, !.cut = TRUE]
    BY <1>1, <1>2 DEF AddLine
  <2>2. QED BY <2>1 DEF Output
<1>3. ASSUME o.size + x.size <= MaxOutput
      PROVE  /\ AddLine(o, x).lines = Append(o.lines, x) /\ AddLine(o, x).cut = o.cut
             /\ AddLine(o, x).size = o.size + x.size
  <2>1. AddLine(o, x) = [o EXCEPT !.lines = Append(@, x), !.size = @ + x.size]
    BY <1>1, <1>3 DEF AddLine
  <2>2. QED BY <2>1 DEF Output
<1>4. QED BY <1>2, <1>3

\* A line is scanned.
LEMMA ScanOutput ==
  ASSUME TypeOK, OutputInv, NEW e \in Execs, NEW s \in Streams, Scan(e, s)
  PROVE  OutputInv'
<1>0. /\ pipe \in [Execs -> [Streams -> Seq(Line)]] /\ held \in [Execs -> [Streams -> Line]]
      /\ buf \in [Execs -> Output]
  BY DEF TypeOK
<1>1. PICK p \in Seq(Line) : p = pipe[e][s] /\ p # <<>>
  BY <1>0 DEF Scan
<1>2. PICK x \in Line : x = Head(p) /\ x = p[1]
  BY <1>1
<1>3. /\ pipe' = [pipe EXCEPT ![e][s] = Tail(p)] /\ held' = [held EXCEPT ![e][s] = x]
      /\ buf' = [buf EXCEPT ![e] = AddLine(@, x)] /\ UNCHANGED <<proc, emitted, runPc>>
  BY <1>1, <1>2 DEF Scan
<1>4. /\ pipe'[e][s] = Tail(p) /\ held'[e][s] = x
      /\ \A f \in Execs, t \in Streams : f # e \/ t # s =>
           pipe'[f][t] = pipe[f][t] /\ held'[f][t] = held[f][t]
  BY <1>0, <1>3
<1>5. buf'[e] = AddLine(buf[e], x) /\ \A f \in Execs : f # e => buf'[f] = buf[f]
  BY <1>0, <1>3
<1>6. /\ Fed(e, s) /\ x.from = s /\ x.n = held[e][s].n + 1
  <2>1. Fed(e, s)
    BY DEF OutputInv, PipeInv
  <2>2. 1 \in DOMAIN p
    BY <1>1
  <2>3. QED BY <1>1, <1>2, <2>1, <2>2 DEF Fed
<1>7. held[e][s].n \in Nat
  BY <1>0 DEF Line
<1>8. PipeInv'
  <2>1. Fed(e, s)'
    <3>1. Len(Tail(p)) = Len(p) - 1 /\ Len(p) \in Nat
          /\ \A i \in 1..(Len(p) - 1) : Tail(p)[i] = p[i + 1] /\ i + 1 \in 1..Len(p)
      BY <1>1
    <3>2. DOMAIN Tail(p) = 1..(Len(p) - 1) /\ DOMAIN p = 1..Len(p)
      BY <1>1
    <3>3. ASSUME NEW i \in DOMAIN Tail(p)
          PROVE  Tail(p)[i].from = s /\ Tail(p)[i].n = x.n + i
      <4>1. PICK j \in DOMAIN p : j = i + 1 /\ Tail(p)[i] = p[j]
        BY <3>1, <3>2
      <4>2. p[j].from = s /\ p[j].n = held[e][s].n + j
        BY <1>1, <1>6 DEF Fed
      <4>3. i \in Int
        BY <3>1, <3>2
      <4>4. QED BY <1>6, <1>7, <4>1, <4>2, <4>3
    <3>4. proc[e] # "none"
      BY <1>1, <1>6 DEF Fed
    <3>5. proc[e] = "alive" => emitted[e][s] = x.n + Len(Tail(p))
      <4>1. proc[e] = "alive" => emitted[e][s] = held[e][s].n + Len(p)
        BY <1>1, <1>6 DEF Fed
      <4>2. held[e][s].n + Len(p) = x.n + (Len(p) - 1)
        BY <1>6, <1>7, <3>1
      <4>3. QED BY <3>1, <4>1, <4>2
    <3>6. QED BY <1>3, <1>4, <3>3, <3>4, <3>5 DEF Fed
  <2>2. \A f \in Execs, t \in Streams : Fed(f, t)'
    BY <1>3, <1>4, <2>1 DEF OutputInv, PipeInv, Fed
  <2>3. QED BY <1>3, <2>2 DEF OutputInv, PipeInv
<1> DEFINE o == buf[e]
           q == buf'[e]
<1>9. /\ o \in Output /\ o.size \in Nat /\ x.size \in Nat /\ o.lines \in Seq(Line)
      /\ o.cut \in BOOLEAN /\ Len(o.lines) \in Nat /\ MaxOutput \in Nat /\ MarkerSize \in Nat
  <2>1. o \in Output
    BY <1>0
  <2>2. /\ o.size \in Nat /\ o.lines \in Seq(Line) /\ o.cut \in BOOLEAN
    BY <2>1 DEF Output
  <2>3. x.size \in Nat
    BY DEF Line
  <2>4. MaxOutput \in Nat /\ MarkerSize \in Nat
    BY OutputAssumption
  <2>5. Len(o.lines) \in Nat
    BY <2>2
  <2>6. QED BY <2>1, <2>2, <2>3, <2>4, <2>5
<1>10. SizeRight(e) /\ \A t \in Streams : AllKept(e, t)
  BY DEF OutputInv, BufInv
<1>11. \A f \in Execs, t \in Streams : f # e =>
         /\ Kept(f, t)' = Kept(f, t) /\ (\A i : Places(f, t, i)' = Places(f, t, i))
         /\ SizeRight(f)' /\ AllKept(f, t)'
         /\ \A i \in Kept(f, t)' : buf'[f].lines[i].n = Cardinality(Places(f, t, i)')
  <2> SUFFICES ASSUME NEW f \in Execs, NEW t \in Streams, f # e
               PROVE  /\ Kept(f, t)' = Kept(f, t) /\ (\A i : Places(f, t, i)' = Places(f, t, i))
                      /\ SizeRight(f)' /\ AllKept(f, t)'
                      /\ \A i \in Kept(f, t)' : buf'[f].lines[i].n = Cardinality(Places(f, t, i)')
    OBVIOUS
  <2>1. buf'[f] = buf[f] /\ held'[f][t] = held[f][t]
    BY <1>4, <1>5
  <2>2. Kept(f, t)' = Kept(f, t) /\ (\A i : Places(f, t, i)' = Places(f, t, i))
    BY <2>1 DEF Kept, Places
  <2>3. SizeRight(f) /\ AllKept(f, t)
        /\ \A i \in Kept(f, t) : buf[f].lines[i].n = Cardinality(Places(f, t, i))
    BY DEF OutputInv, BufInv, StoredOutputIsPrefix
  <2>4. SizeRight(f)'
    BY <2>1, <2>3 DEF SizeRight
  <2>5. AllKept(f, t)'
    BY <2>1, <2>2, <2>3 DEF AllKept
  <2>6. \A i \in Kept(f, t)' : buf'[f].lines[i].n = Cardinality(Places(f, t, i)')
    BY <2>1, <2>2, <2>3
  <2>7. QED BY <2>2, <2>4, <2>5, <2>6
<1>12. SUFFICES /\ SizeRight(e)' /\ \A t \in Streams : AllKept(e, t)'
                /\ \A t \in Streams : \A i \in Kept(e, t)' :
                     buf'[e].lines[i].n = Cardinality(Places(e, t, i)')
  BY <1>8, <1>11, Zenon DEF OutputInv, BufInv, StoredOutputIsPrefix
<1>13. \A t \in Streams : /\ Kept(e, t) = PlacesIn(o.lines, t, Len(o.lines))
                          /\ Kept(e, t)' = PlacesIn(q.lines, t, Len(q.lines))
                          /\ \A i : /\ Places(e, t, i) = PlacesIn(o.lines, t, i)
                                    /\ Places(e, t, i)' = PlacesIn(q.lines, t, i)
  BY DEF Kept, Places, PlacesIn
<1>14. \A t \in Streams : \A i \in Kept(e, t) : o.lines[i].n = Cardinality(Places(e, t, i))
  BY DEF OutputInv, StoredOutputIsPrefix
<1>15. CASE q.lines = o.lines /\ q.size >= MaxOutput /\ SizeRight(e)'
  <2>1. \A t \in Streams : AllKept(e, t)'
    BY <1>15 DEF AllKept
  <2>2. \A t \in Streams : \A i \in Kept(e, t)' : q.lines[i].n = Cardinality(Places(e, t, i)')
    BY <1>13, <1>14, <1>15
  <2>3. QED BY <1>15, <2>1, <2>2
<1>16. CASE o.size >= MaxOutput
  <2>1. q = o
    BY <1>5, <1>16 DEF AddLine
  <2>2. SizeRight(e)'
    BY <1>10, <2>1 DEF SizeRight
  <2>3. QED BY <1>15, <1>16, <2>1, <2>2
<1>17. CASE o.size < MaxOutput /\ o.size + x.size > MaxOutput
  <2>1. q.lines = o.lines /\ q.size = MaxOutput + MarkerSize /\ q.cut
    BY <1>5, <1>9, <1>17, AddLineIs
  <2>2. BytesOf(o.lines) < MaxOutput
    BY <1>9, <1>10, <1>17 DEF SizeRight
  <2>3. SizeRight(e)'
    BY <2>1, <2>2 DEF SizeRight
  <2>4. q.size >= MaxOutput
    BY <1>9, <2>1
  <2>5. QED BY <1>15, <2>1, <2>3, <2>4
<1>18. CASE o.size < MaxOutput /\ o.size + x.size <= MaxOutput
  <2>1. q.lines = Append(o.lines, x) /\ q.size = o.size + x.size /\ q.cut = o.cut
    BY <1>5, <1>9, <1>18, AddLineIs
  <2>2. ~o.cut /\ o.size = BytesOf(o.lines)
    BY <1>9, <1>10, <1>18 DEF SizeRight
  <2>3. BytesOf(q.lines) = o.size + x.size
    BY <1>9, <2>1, <2>2, BytesOfAppend
  <2>4. SizeRight(e)'
    BY <1>18, <2>1, <2>2, <2>3 DEF SizeRight
  <2>5. PICK N \in Nat : N = Len(o.lines) /\ Len(q.lines) = N + 1
    <3>1. PICK l \in Seq(Line) : l = o.lines
      BY <1>9
    <3>2. Len(Append(l, x)) = Len(l) + 1 /\ Len(l) \in Nat
      OBVIOUS
    <3>3. QED BY <2>1, <3>1, <3>2
  <2>0. \A t \in Streams :
          /\ \A i \in 0..N : PlacesIn(q.lines, t, i) = PlacesIn(o.lines, t, i)
          /\ x.from # t => PlacesIn(q.lines, t, N + 1) = PlacesIn(o.lines, t, N)
          /\ x.from = t => Cardinality(PlacesIn(q.lines, t, N + 1))
                             = Cardinality(PlacesIn(o.lines, t, N)) + 1
    <3>1. PICK l \in Seq(Line) : l = o.lines
      BY <1>9
    <3>2. N = Len(l) /\ q.lines = Append(l, x)
      BY <2>1, <2>5, <3>1
    <3> HIDE DEF o, q
    <3>3. QED BY <3>1, <3>2, PlacesOfAppend
  <2>6. \A t \in Streams : Cardinality(PlacesIn(o.lines, t, N)) = held[e][t].n
    BY <1>9, <1>10, <1>13, <1>18, <2>5 DEF AllKept
  <2>7. \A t \in Streams : Cardinality(PlacesIn(q.lines, t, N + 1)) = held'[e][t].n
    <3> SUFFICES ASSUME NEW t \in Streams
                 PROVE  Cardinality(PlacesIn(q.lines, t, N + 1)) = held'[e][t].n
      OBVIOUS
    <3>1. CASE t = s
      <4>1. Cardinality(PlacesIn(q.lines, t, N + 1)) = Cardinality(PlacesIn(o.lines, t, N)) + 1
        BY <1>6, <2>0, <3>1
      <4>2. QED BY <1>4, <1>6, <1>7, <2>6, <3>1, <4>1
    <3>2. CASE t # s
      <4>1. PlacesIn(q.lines, t, N + 1) = PlacesIn(o.lines, t, N)
        BY <1>6, <2>0, <3>2
      <4>2. QED BY <1>4, <2>6, <3>2, <4>1
    <3>3. QED BY <3>1, <3>2
  <2>8. \A t \in Streams : AllKept(e, t)'
    BY <1>13, <2>5, <2>7 DEF AllKept
  <2>9. ASSUME NEW t \in Streams, NEW i \in Kept(e, t)'
        PROVE  q.lines[i].n = Cardinality(Places(e, t, i)')
    <3>1. i \in PlacesIn(q.lines, t, N + 1)
      BY <1>13, <2>5
    <3>2. CASE i = N + 1
      <4>1. q.lines[i] = x
        BY <1>9, <2>1, <2>5, <3>2
      <4>2. t = s
        BY <1>6, <3>1, <4>1 DEF PlacesIn
      <4>3. QED BY <1>4, <1>13, <2>7, <3>2, <4>1, <4>2
    <3>3. CASE i # N + 1
      <4>1. i \in 1..N
        BY <3>1, <3>3 DEF PlacesIn
      <4>2. q.lines[i] = o.lines[i]
        BY <1>9, <2>1, <2>5, <4>1
      <4>3. i \in Kept(e, t)
        BY <1>13, <2>5, <3>1, <4>1, <4>2 DEF PlacesIn
      <4>4. PlacesIn(q.lines, t, i) = PlacesIn(o.lines, t, i)
        <5>1. i \in 0..N
          BY <4>1
        <5>2. QED BY <2>0, <5>1
      <4>5. o.lines[i].n = Cardinality(Places(e, t, i))
        BY <1>14, <4>3
      <4>6. QED BY <1>13, <4>2, <4>4, <4>5
    <3>4. QED BY <3>2, <3>3
  <2>10. QED BY <2>4, <2>8, <2>9
<1>19. QED BY <1>9, <1>16, <1>17, <1>18

\* A pipe whose lines are numbered on from h, and the next line.
LEMMA FedAppend ==
  ASSUME NEW p \in Seq(Line), NEW x \in Line, NEW s, NEW h \in Nat, NEW N \in Nat,
         N = Len(p), x.from = s, x.n = h + (N + 1),
         \A i \in DOMAIN p : p[i].from = s /\ p[i].n = h + i
  PROVE  /\ Len(Append(p, x)) = N + 1
         /\ \A i \in DOMAIN Append(p, x) : /\ Append(p, x)[i].from = s
                                           /\ Append(p, x)[i].n = h + i
<1>1. PICK M \in Nat : M = N + 1
  OBVIOUS
<1>2. /\ Len(Append(p, x)) = M /\ DOMAIN Append(p, x) = 1..M /\ DOMAIN p = 1..N
      /\ Append(p, x)[M] = x /\ \A i \in 1..N : Append(p, x)[i] = p[i]
  BY <1>1
<1>3. ASSUME NEW i \in 1..M
      PROVE  Append(p, x)[i].from = s /\ Append(p, x)[i].n = h + i
  <2>1. CASE i = M
    BY <1>1, <1>2, <2>1
  <2>2. CASE i # M
    <3>1. i \in 1..N
      BY <1>1, <2>2
    <3>2. QED BY <1>2, <3>1
  <2>3. QED BY <2>1, <2>2
<1>4. QED BY <1>1, <1>2, <1>3

\* The steps that leave the lines and the output alone.
LEMMA EarlyPcs == /\ Early = {"new", "inserted", "lookup", "lookupCommand", "lookupApp",
                              "stat", "mark", "launch"}
                  /\ "lost" \notin Early
BY DEF Early, BeforeStart

LEMMA OutputStep == TypeOK /\ OutputInv /\ [Next]_vars => OutputInv'
<1> SUFFICES ASSUME TypeOK, OutputInv, [Next]_vars PROVE OutputInv'
  OBVIOUS
<1>0. /\ runPc \in [Execs -> RunPcs] /\ proc \in [Execs -> {"none", "alive", "exited"}]
      /\ pipe \in [Execs -> [Streams -> Seq(Line)]] /\ held \in [Execs -> [Streams -> Line]]
      /\ emitted \in [Execs -> [Streams -> Nat]] /\ PipeInv
  BY DEF TypeOK, OutputInv
<1> DEFINE Quiet == UNCHANGED <<buf, held, pipe, emitted, proc>>
           Order == \A e \in Execs : runPc'[e] \in Early => runPc[e] \in Early
<1>1. ASSUME Quiet, Order PROVE OutputInv'
  BY <1>1, OutputQuiet
<1>2. ASSUME NEW e \in Execs, NEW c \in Commands, Insert(e, c) PROVE OutputInv'
  <2>1. Quiet /\ Order
    BY <1>0, <1>2, EarlyPcs DEF Insert
  <2>2. QED BY <1>1, <2>1
<1>3. ASSUME NEW e \in Execs, Execute(e) PROVE OutputInv'
  <2>1. CASE Launch(e)
    <3>1. /\ UNCHANGED <<buf, held, pipe, emitted>> /\ runPc[e] = "launch"
          /\ runPc'[e] \notin Early
          /\ \A f \in Execs : f # e => runPc'[f] = runPc[f] /\ proc'[f] = proc[f]
          /\ proc'[e] \in {"alive", proc[e]}
      BY <1>0, <2>1, EarlyPcs DEF Launch, Fail
    <3>2. proc[e] = "none"
      BY <1>0, <3>1, EarlyPcs DEF PipeInv
    <3>3. \A f \in Execs, s \in Streams : Fed(f, s)'
      BY <1>0, <3>1, <3>2 DEF PipeInv, Fed
    <3>4. PipeInv'
      BY <1>0, <3>1, <3>3 DEF PipeInv
    <3>5. QED BY <3>1, <3>4, OutputSame DEF OutputInv
  <2>2. CASE WaitReturns(e)
    <3>1. /\ UNCHANGED <<buf, held, proc, emitted>> /\ proc[e] = "exited"
          /\ Order
          /\ \A f \in Execs, s \in Streams : f # e => pipe'[f][s] = pipe[f][s]
      BY <1>0, <2>2, EarlyPcs DEF WaitReturns
    <3>2. ASSUME NEW s \in Streams PROVE Fed(e, s)'
      <4>1. PICK k \in Int : pipe'[e][s] = IF k < Len(pipe[e][s])
                                           THEN SubSeq(pipe[e][s], 1, k) ELSE pipe[e][s]
        <5>1. PICK kept \in [Streams -> 0..MaxLines] :
                pipe' = [pipe EXCEPT ![e] =
                          [t \in Streams |->
                              IF kept[t] < Len(pipe[e][t])
                              THEN SubSeq(pipe[e][t], 1, kept[t]) ELSE pipe[e][t]]]
          BY <2>2 DEF WaitReturns
        <5>2. kept[s] \in Int
          BY ExecutorAssumption
        <5>3. QED BY <1>0, <5>1, <5>2
      <4>2. PICK p \in Seq(Line), q \in Seq(Line) : p = pipe[e][s] /\ q = pipe'[e][s]
        <5>1. pipe'[e][s] \in Seq(Line)
          BY <1>0, <4>1
        <5>2. QED BY <1>0, <5>1
      <4>3. \A i \in DOMAIN q : i \in DOMAIN p /\ q[i] = p[i]
        BY <4>1, <4>2
      <4>4. Fed(e, s)
        BY <1>0 DEF PipeInv
      <4>5. QED BY <3>1, <4>2, <4>3, <4>4 DEF Fed
    <3>3. \A f \in Execs, s \in Streams : f # e => Fed(f, s)'
      BY <1>0, <3>1 DEF PipeInv, Fed
    <3>4. PipeInv'
      BY <1>0, <3>1, <3>2, <3>3 DEF PipeInv
    <3>5. QED BY <3>1, <3>4, OutputSame DEF OutputInv
  <2>3. CASE Start(e) \/ Join(e) \/ FinishExecution(e) \/ BroadcastComplete(e) \/ MarkRunning(e)
    <3>1. Quiet /\ Order
      BY <1>0, <2>3, EarlyPcs DEF Start, Join, FinishExecution, BroadcastComplete, MarkRunning
    <3>2. QED BY <1>1, <3>1
  <2>4. CASE LookupExecution(e) \/ LookupCommand(e) \/ LookupApp(e) \/ StatWorkingDir(e)
    <3>1. Quiet /\ Order
      BY <1>0, <2>4, EarlyPcs DEF LookupExecution, LookupCommand, LookupApp, StatWorkingDir,
           Step, Fail
    <3>2. QED BY <1>1, <3>1
  <2>5. QED BY <1>3, <2>1, <2>2, <2>3, <2>4 DEF Execute
<1>4. ASSUME NEW e \in Execs, Process(e) PROVE OutputInv'
  <2>1. /\ UNCHANGED <<buf, held, pipe, emitted, runPc>> /\ proc[e] = "alive"
        /\ proc'[e] = "exited" /\ \A f \in Execs : f # e => proc'[f] = proc[f]
    BY <1>0, <1>4 DEF Process, Exit
  <2>2. runPc[e] \notin Early
    BY <1>0, <2>1 DEF PipeInv
  <2>3. \A f \in Execs, s \in Streams : Fed(f, s)'
    BY <1>0, <2>1 DEF PipeInv, Fed
  <2>4. PipeInv'
    BY <1>0, <2>1, <2>2, <2>3 DEF PipeInv
  <2>5. QED BY <2>1, <2>4, OutputSame DEF OutputInv
<1>5. ASSUME NEW e \in Execs, NEW s \in Streams, StreamOutput(e, s) PROVE OutputInv'
  <2>1. CASE Scan(e, s)
    BY <2>1, ScanOutput
  <2>2. CASE BroadcastLine(e, s) \/ ReaderEnds(e, s)
    BY <1>1, <2>2 DEF BroadcastLine, ReaderEnds
  <2>3. QED BY <1>5, <2>1, <2>2 DEF StreamOutput
<1>6. ASSUME NEW e \in Execs, NEW s \in Streams, NEW z \in LineSizes, Write(e, s, z)
      PROVE  OutputInv'
  <2>0. emitted[e][s] + 1 \in Nat /\ z \in Nat
    BY <1>0, ExecutorAssumption
  <2>1. PICK x \in Line : /\ x.from = s /\ x.n = emitted[e][s] + 1
                          /\ pipe' = [pipe EXCEPT ![e][s] = Append(@, x)]
    <3> DEFINE w == [from |-> s, n |-> emitted[e][s] + 1, size |-> z]
    <3>1. w \in Line /\ w.from = s /\ w.n = emitted[e][s] + 1
      BY <1>0, <2>0, ExecutorAssumption DEF Line
    <3>2. pipe' = [pipe EXCEPT ![e][s] = Append(@, w)]
      BY <1>6 DEF Write
    <3> HIDE DEF w
    <3>3. QED BY <3>1, <3>2
  <2>2. /\ UNCHANGED <<buf, held, proc, runPc>> /\ proc[e] = "alive"
        /\ emitted' = [emitted EXCEPT ![e][s] = @ + 1]
    BY <1>6 DEF Write
  <2>3. /\ pipe'[e][s] = Append(pipe[e][s], x) /\ emitted'[e][s] = emitted[e][s] + 1
        /\ \A f \in Execs, t \in Streams : f # e \/ t # s =>
             pipe'[f][t] = pipe[f][t] /\ emitted'[f][t] = emitted[f][t]
    BY <1>0, <2>1, <2>2
  <2>4. PICK p \in Seq(Line), N \in Nat, h \in Nat :
           p = pipe[e][s] /\ N = Len(p) /\ h = held[e][s].n
    <3>1. PICK p \in Seq(Line) : p = pipe[e][s]
      BY <1>0
    <3>2. Len(p) \in Nat /\ held[e][s].n \in Nat
      BY <1>0 DEF Line
    <3>3. QED BY <3>1, <3>2
  <2>5. Fed(e, s) /\ emitted[e][s] = h + N
    BY <1>0, <2>2, <2>4 DEF PipeInv, Fed
  <2>6. x.n = h + (N + 1)
    BY <2>1, <2>4, <2>5
  <2>7. Fed(e, s)'
    <3>1. \A i \in DOMAIN p : p[i].from = s /\ p[i].n = h + i
      BY <2>4, <2>5 DEF Fed
    <3>2. /\ Len(Append(p, x)) = N + 1
          /\ \A i \in DOMAIN Append(p, x) : Append(p, x)[i].from = s /\ Append(p, x)[i].n = h + i
      BY <2>1, <2>4, <2>6, <3>1, FedAppend
    <3>3. PICK q : q = Append(p, x) /\ q = pipe'[e][s]
      BY <2>3, <2>4
    <3>4. emitted'[e][s] = h + Len(q)
      <4>1. emitted'[e][s] = h + (N + 1)
        <5>1. PICK a \in Nat : a = emitted[e][s]
          BY <1>0
        <5>2. a + 1 = h + (N + 1)
          BY <2>4, <2>5, <5>1
        <5>3. emitted'[e][s] = a + 1
          BY <2>3, <5>1
        <5>4. QED BY <5>2, <5>3
      <4>2. Len(q) = N + 1
        BY <3>2, <3>3
      <4>3. QED BY <4>1, <4>2
    <3>5. QED BY <2>2, <2>4, <3>2, <3>3, <3>4 DEF Fed
  <2>8. ASSUME NEW f \in Execs, NEW t \in Streams PROVE Fed(f, t)'
    <3>1. CASE f = e /\ t = s
      BY <2>7, <3>1
    <3>2. CASE f # e \/ t # s
      <4>1. pipe'[f][t] = pipe[f][t] /\ emitted'[f][t] = emitted[f][t] /\ Fed(f, t)
        BY <1>0, <2>3, <3>2 DEF PipeInv
      <4>2. QED BY <2>2, <4>1 DEF Fed
    <3>3. QED BY <3>1, <3>2
  <2>9. PipeInv'
    BY <1>0, <2>2, <2>8 DEF PipeInv
  <2>10. QED BY <2>2, <2>9, OutputSame DEF OutputInv
<1>7. ASSUME NEW c \in Clients, (\E e \in Execs : Open(c, e)) \/ Serve(c) \/ Disconnect(c)
      PROVE  OutputInv'
  <2>1. Quiet /\ Order
    BY <1>7 DEF Open, Serve, Subscribe, ReceiveLine, ReceiveComplete, Disconnect
  <2>2. QED BY <1>1, <2>1
<1>8. ASSUME (\E c \in Commands : DeleteCommandRuns(c)) \/ DeleteAppRuns \/ EndDelete
      PROVE  OutputInv'
  <2>1. Quiet /\ Order
    BY <1>8 DEF DeleteCommandRuns, DeleteAppRuns, EndDelete, DeleteCommandRow, DeleteAppRow
  <2>2. QED BY <1>1, <2>1
<1>9. ASSUME Crash PROVE OutputInv'
  <2>1. /\ UNCHANGED <<buf, held, emitted>>
        /\ \A e \in Execs :
             /\ runPc'[e] \in {"lost", runPc[e]}
             /\ proc'[e] = IF proc[e] = "alive" THEN "exited" ELSE proc[e]
             /\ \A s \in Streams : pipe'[e][s] = <<>>
    BY <1>9 DEF Crash
  <2>2. ASSUME NEW e \in Execs, NEW s \in Streams PROVE Fed(e, s)'
    <3>1. Fed(e, s) /\ pipe'[e][s] = <<>> /\ proc'[e] # "alive"
          /\ (proc'[e] = "none" => proc[e] = "none")
      BY <1>0, <2>1 DEF PipeInv
    <3>2. QED BY <2>1, <3>1 DEF Fed
  <2>3. \A e \in Execs : runPc'[e] \in Early => proc'[e] = "none"
    BY <1>0, <2>1, EarlyPcs DEF PipeInv
  <2>4. PipeInv'
    BY <2>2, <2>3 DEF PipeInv
  <2>5. QED BY <2>1, <2>4, OutputSame DEF OutputInv
<1>10. CASE UNCHANGED vars
  BY <1>1, <1>10 DEF vars
<1>11. QED BY <1>2, <1>3, <1>4, <1>5, <1>6, <1>7, <1>8, <1>9, <1>10 DEF Next

LEMMA OutputHolds == Spec => []OutputInv
BY InitType, TypeStep, OutputInitial, OutputStep, PTL DEF Spec

\* For any number of lines of any size, any limit, and any interleaving of the
\* readers with the process, the deletions and a crash: what is stored of each
\* pipe is its first lines.
THEOREM OutputIsPrefix == Spec => []StoredOutputIsPrefix
BY OutputHolds, PTL DEF OutputInv

\* The stored output never exceeds the limit without the marker, and no line
\* that was scanned is missing before the limit is reached.
THEOREM OutputIsAccounted == Spec => []OutputAccounted
<1>1. TypeOK /\ OutputInv => OutputAccounted
  <2> SUFFICES ASSUME TypeOK, OutputInv, NEW e \in Execs
               PROVE  /\ SizeRight(e)
                      /\ \A s \in Streams : Cardinality(Kept(e, s)) < held[e][s].n =>
                                               buf[e].cut \/ buf[e].size = MaxOutput
    BY DEF OutputAccounted, SizeRight
  <2>1. SizeRight(e) /\ \A s \in Streams : AllKept(e, s)
    BY DEF OutputInv, BufInv
  <2>2. buf[e].size \in Nat /\ MaxOutput \in Nat /\ buf[e].cut \in BOOLEAN
        /\ \A s \in Streams : held[e][s].n \in Nat
    BY OutputAssumption DEF TypeOK, Output, Line
  <2>3. ASSUME NEW s \in Streams, Cardinality(Kept(e, s)) < held[e][s].n
        PROVE  buf[e].cut \/ buf[e].size = MaxOutput
    <3>1. buf[e].size >= MaxOutput
      <4>1. Cardinality(Kept(e, s)) # held[e][s].n
        BY <2>2, <2>3
      <4>2. QED BY <2>1, <4>1 DEF AllKept
    <3>2. ~buf[e].cut => buf[e].size <= MaxOutput
      BY <2>1 DEF SizeRight
    <3>3. QED BY <2>2, <3>1, <3>2
  <2>4. QED BY <2>1, <2>3
<1>2. QED BY <1>1, TypeCorrect, OutputHolds, PTL
====
