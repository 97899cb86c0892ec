------------------------------- MODULE Terminal -------------------------------
(***************************************************************************)
(* Terminal sessions of one user: the session manager under its mutex, the *)
(* shells behind their PTYs, the goroutine readLoop of each session, and   *)
(* the WebSocket handlers with their two goroutines.                       *)
(*                                                                         *)
(* A chunk of output is known by its number: produced[s] have left the     *)
(* shell, consumed[s] are in the ring buffer, which replays the last       *)
(* History of them.  clientsMu and the mutex of the buffer are only held   *)
(* over steps that cannot block, so they are the atomicity of the actions. *)
(* The mutex of a session is held over the blocking ptmx.Write, and that   *)
(* of the manager over the whole of Close.                                 *)
(***************************************************************************)
EXTENDS Integers, Sequences, FiniteSets

CONSTANTS Sessions,     \* identifiers of sessions, in the order of creation
          Clients,      \* WebSocket connections
          MaxSessions,  \* maxSessions of the manager
          History,      \* chunks the ring buffer holds
          ChanCap,      \* capacity of a client's channel
          InCap,        \* messages the PTY takes before the shell reads them
          OutCap,       \* chunks the PTY takes before readLoop reads them
          MaxChunks,    \* bound: chunks a shell writes of its own
          MaxInput      \* bound: messages a client types

ASSUME TerminalAssumption ==
  /\ Sessions # {}
  /\ {MaxSessions, History, ChanCap, InCap, OutCap} \subseteq Nat \ {0}
  /\ {MaxChunks, MaxInput} \subseteq Nat

VARIABLES
  up,          \* does the server run
  registered,  \* the sessions in the manager's maps
  todo,        \* the sessions the holder of the manager's mutex is closing
  closePc,     \* closePc[s]: where Close is, called under that mutex
  closed,      \* closed[s]
  doneOpen,    \* doneOpen[s]: is s.done not closed yet
  shell,       \* shell[s]: the process
  ptmx,        \* ptmx[s]: is the PTY open
  inq,         \* inq[s]: messages in the PTY
  produced,    \* produced[s]
  consumed,    \* consumed[s]
  unread,      \* unread[s]: chunks in the PTY
  reader,      \* reader[s]: where readLoop is
  writer,      \* writer[s]: the clients inside Write, which hold s.mu
  clients,     \* clients[s]: s.clients
  pc,          \* pc[c]: where the handler of c is
  att,         \* att[c]: its session
  ephemeral,   \* ephemeral[c]: which of the two handlers it is
  chan,        \* chan[c]: what is buffered in outputCh
  chanOpen,    \* chanOpen[c]: is it not closed yet
  out,         \* out[c]: the goroutine that writes to the WebSocket
  ended,       \* ended[c]: is the local channel done closed
  got,         \* got[c]: chunks written to the WebSocket
  dropped,     \* dropped[c]: has broadcast skipped c
  typed,       \* typed[c]: messages the browser has sent
  gone,        \* gone[c]: has the browser closed the WebSocket
  logged       \* logged[c]: entries of the audit log, "connect", "disconnect"

managerVars == <<registered, todo, closePc>>
shellVars == <<shell, inq, produced, unread>>
sessionVars == <<closed, doneOpen, ptmx, consumed, reader, writer>>
channelVars == <<clients, chan, chanOpen, dropped>>
handlerVars == <<pc, att, ephemeral, logged>>
goroutineVars == <<out, ended, got>>
browserVars == <<typed, gone>>
vars == <<up, managerVars, shellVars, sessionVars, channelVars, handlerVars,
          goroutineVars, browserVars>>

ReaderPcs == {"off", "read", "touch", "broadcast", "mark", "disconnect", "kill",
              "ended"}
HandlerPcs == {"idle", "info", "subscribe", "loop", "read", "write", "cleanup",
               "log", "unsubscribe", "close", "over"}

TypeOK ==
  /\ up \in BOOLEAN
  /\ registered \subseteq Sessions
  /\ todo \subseteq registered
  /\ closePc \in [Sessions -> {"none", "disconnect", "kill", "remove"}]
  /\ closed \in [Sessions -> BOOLEAN]
  /\ doneOpen \in [Sessions -> BOOLEAN]
  /\ shell \in [Sessions -> {"none", "alive", "dead"}]
  /\ ptmx \in [Sessions -> BOOLEAN]
  /\ inq \in [Sessions -> 0..InCap]
  /\ produced \in [Sessions -> Nat]
  /\ consumed \in [Sessions -> Nat]
  /\ unread \in [Sessions -> 0..OutCap]
  /\ reader \in [Sessions -> ReaderPcs]
  /\ writer \in [Sessions -> SUBSET Clients]
  /\ clients \in [Sessions -> SUBSET Clients]
  /\ pc \in [Clients -> HandlerPcs]
  /\ att \in [Clients -> Sessions]
  /\ ephemeral \in [Clients -> BOOLEAN]
  /\ chan \in [Clients -> Seq(Nat)]
  /\ \A c \in Clients : Len(chan[c]) <= ChanCap
  /\ chanOpen \in [Clients -> BOOLEAN]
  /\ out \in [Clients -> {"off", "select", "ended"}]
  /\ ended \in [Clients -> BOOLEAN]
  /\ got \in [Clients -> Seq(Nat)]
  /\ dropped \in [Clients -> BOOLEAN]
  /\ typed \in [Clients -> 0..MaxInput]
  /\ gone \in [Clients -> BOOLEAN]
  /\ logged \in [Clients -> SUBSET {"connect", "disconnect"}]

Init ==
  /\ up = TRUE
  /\ registered = {} /\ todo = {}
  /\ closePc = [s \in Sessions |-> "none"]
  /\ closed = [s \in Sessions |-> FALSE]
  /\ doneOpen = [s \in Sessions |-> TRUE]
  /\ shell = [s \in Sessions |-> "none"]
  /\ ptmx = [s \in Sessions |-> FALSE]
  /\ inq = [s \in Sessions |-> 0]
  /\ produced = [s \in Sessions |-> 0]
  /\ consumed = [s \in Sessions |-> 0]
  /\ unread = [s \in Sessions |-> 0]
  /\ reader = [s \in Sessions |-> "off"]
  /\ writer = [s \in Sessions |-> {}]
  /\ clients = [s \in Sessions |-> {}]
  /\ pc = [c \in Clients |-> "idle"]
  /\ att = [c \in Clients |-> CHOOSE s \in Sessions : TRUE]
  /\ ephemeral = [c \in Clients |-> FALSE]
  /\ chan = [c \in Clients |-> <<>>]
  /\ chanOpen = [c \in Clients |-> FALSE]
  /\ out = [c \in Clients |-> "off"]
  /\ ended = [c \in Clients |-> FALSE]
  /\ got = [c \in Clients |-> <<>>]
  /\ dropped = [c \in Clients |-> FALSE]
  /\ typed = [c \in Clients |-> 0]
  /\ gone = [c \in Clients |-> FALSE]
  /\ logged = [c \in Clients |-> {}]

-------------------------------------------------------------------------------
(* TerminalSessionManager *)

ManagerFree == todo = {}
Mutex(s) == writer[s] = {}  \* s.mu is free

\* Mutant of HasRoom: the comparison is off by one.
MutHasRoom == Cardinality(registered) <= MaxSessions

HasRoom == Cardinality(registered) < MaxSessions

Fresh(s) == shell[s] = "none"

\* CreateSession, once it is known that there is room
Open(s) ==
  /\ registered' = registered \cup {s}
  /\ shell' = [shell EXCEPT ![s] = "alive"]
  /\ ptmx' = [ptmx EXCEPT ![s] = TRUE]
  /\ reader' = [reader EXCEPT ![s] = "read"]

\* POST /terminal/sessions
CreateSession(s) ==
  /\ ManagerFree
  /\ Fresh(s)
  /\ HasRoom
  /\ Open(s)
  /\ UNCHANGED <<up, todo, closePc, inq, produced, unread, closed, doneOpen,
                 consumed, writer, channelVars, handlerVars, goroutineVars,
                 browserVars>>

\* CloseSession takes the mutex to close one session, cleanupExpiredSessions to
\* close those that have been idle for too long.
BeginClose(S) ==
  /\ ManagerFree
  /\ S \subseteq registered
  /\ todo' = S
  /\ UNCHANGED <<up, registered, closePc, shellVars, sessionVars, channelVars,
                 handlerVars, goroutineVars, browserVars>>

\* Close: the test and set of closed under s.mu
Mark(s) == Mutex(s) /\ closed' = [closed EXCEPT ![s] = TRUE]

\* Mutant of Disconnect: the channels are closed and not removed.
MutDisconnectKeeps(s) ==
  /\ doneOpen' = [doneOpen EXCEPT ![s] = FALSE]
  /\ chanOpen' = [c \in Clients |-> chanOpen[c] /\ c \notin clients[s]]
  /\ UNCHANGED clients

\* Close: close(done), then every channel closed and removed under clientsMu
Disconnect(s) ==
  /\ doneOpen' = [doneOpen EXCEPT ![s] = FALSE]
  /\ chanOpen' = [c \in Clients |-> chanOpen[c] /\ c \notin clients[s]]
  /\ clients' = [clients EXCEPT ![s] = {}]

\* Mutant of Kill: the process is left to run.
MutKillNothing(s) ==
  /\ ptmx' = [ptmx EXCEPT ![s] = FALSE]
  /\ UNCHANGED shell

\* Close: the process is killed and the PTY closed
Kill(s) == /\ shell' = [shell EXCEPT ![s] = "dead"]
           /\ ptmx' = [ptmx EXCEPT ![s] = FALSE]

\* Mutant of CloseMark: the early return of Close keeps the mutex.
MutCloseMarkStuck(s) ==
  /\ s \in todo
  /\ \A x \in todo : closePc[x] = "none"
  /\ Mark(s)
  /\ closePc' = [closePc EXCEPT ![s] = IF closed[s] THEN "none"
                                       ELSE "disconnect"]
  /\ UNCHANGED <<up, registered, todo, shellVars, doneOpen, ptmx, consumed,
                 reader, writer, channelVars, handlerVars, goroutineVars,
                 browserVars>>

CloseMark(s) ==
  /\ s \in todo
  /\ \A x \in todo : closePc[x] = "none"
  /\ Mark(s)
  /\ closePc' = [closePc EXCEPT ![s] = IF closed[s] THEN "remove"
                                       ELSE "disconnect"]
  /\ UNCHANGED <<up, registered, todo, shellVars, doneOpen, ptmx, consumed,
                 reader, writer, channelVars, handlerVars, goroutineVars,
                 browserVars>>

CloseDisconnect(s) ==
  /\ closePc[s] = "disconnect"
  /\ Disconnect(s)
  /\ closePc' = [closePc EXCEPT ![s] = "kill"]
  /\ UNCHANGED <<up, registered, todo, shellVars, closed, ptmx, consumed,
                 reader, writer, chan, dropped, handlerVars, goroutineVars,
                 browserVars>>

CloseKill(s) ==
  /\ closePc[s] = "kill"
  /\ Kill(s)
  /\ closePc' = [closePc EXCEPT ![s] = "remove"]
  /\ UNCHANGED <<up, registered, todo, inq, produced, unread, closed, doneOpen,
                 consumed, reader, writer, channelVars, handlerVars,
                 goroutineVars, browserVars>>

\* Close has returned: the session leaves both maps.
Remove(s) ==
  /\ closePc[s] = "remove"
  /\ registered' = registered \ {s}
  /\ todo' = todo \ {s}
  /\ closePc' = [closePc EXCEPT ![s] = "none"]
  /\ UNCHANGED <<up, shellVars, sessionVars, channelVars, handlerVars,
                 goroutineVars, browserVars>>

-------------------------------------------------------------------------------
(* The shell and its PTY *)

\* It writes a chunk of its own, or one in answer to a message, as cat does; it
\* blocks while the PTY has no room for the chunk.
Output(s) ==
  /\ shell[s] = "alive"
  /\ unread[s] < OutCap
  /\ produced' = [produced EXCEPT ![s] = @ + 1]
  /\ unread' = [unread EXCEPT ![s] = @ + 1]
  /\ \/ produced[s] < MaxChunks /\ UNCHANGED inq
     \/ inq[s] > 0 /\ inq' = [inq EXCEPT ![s] = @ - 1]
  /\ UNCHANGED <<up, shell, managerVars, sessionVars, channelVars, handlerVars,
                 goroutineVars, browserVars>>

Exit(s) ==
  /\ shell[s] = "alive"
  /\ shell' = [shell EXCEPT ![s] = "dead"]
  /\ UNCHANGED <<up, inq, produced, unread, managerVars, sessionVars,
                 channelVars, handlerVars, goroutineVars, browserVars>>

-------------------------------------------------------------------------------
(* readLoop *)

\* ptmx.Read and buffer.Write.  The loop looks at s.done before it reads, so
\* it may read once more after Close has closed it: at "read" it has looked or
\* is about to.
Read(s) ==
  /\ reader[s] = "read" /\ ptmx[s]
  /\ unread[s] > 0
  /\ unread' = [unread EXCEPT ![s] = @ - 1]
  /\ consumed' = [consumed EXCEPT ![s] = @ + 1]
  /\ reader' = [reader EXCEPT ![s] = "touch"]
  /\ UNCHANGED <<up, shell, inq, produced, managerVars, closed, doneOpen, ptmx,
                 writer, channelVars, handlerVars, goroutineVars, browserVars>>

\* LastActivity, under s.mu
Touch(s) ==
  /\ reader[s] = "touch"
  /\ Mutex(s)
  /\ reader' = [reader EXCEPT ![s] = "broadcast"]
  /\ UNCHANGED <<up, shellVars, managerVars, closed, doneOpen, ptmx, consumed,
                 writer, channelVars, handlerVars, goroutineVars, browserVars>>

Full(c) == Len(chan[c]) >= ChanCap

Broadcast(s) ==
  /\ reader[s] = "broadcast"
  /\ chan' = [c \in Clients |-> IF c \in clients[s] /\ ~Full(c)
                               THEN Append(chan[c], consumed[s]) ELSE chan[c]]
  /\ dropped' = [c \in Clients |-> dropped[c] \/ (c \in clients[s] /\ Full(c))]
  /\ reader' = [reader EXCEPT ![s] = IF doneOpen[s] THEN "read" ELSE "ended"]
  /\ UNCHANGED <<up, shellVars, managerVars, closed, doneOpen, ptmx, consumed,
                 writer, clients, chanOpen, handlerVars, goroutineVars,
                 browserVars>>

\* s.done is seen closed, or Read fails: the shell is gone and its output read, or
\* the PTY closed.
ReadEnds(s) ==
  /\ reader[s] = "read"
  /\ \/ /\ ~doneOpen[s]
        /\ reader' = [reader EXCEPT ![s] = "ended"]
     \/ /\ ~ptmx[s] \/ (shell[s] = "dead" /\ unread[s] = 0)
        /\ reader' = [reader EXCEPT ![s] = "mark"]
  /\ UNCHANGED <<up, shellVars, managerVars, closed, doneOpen, ptmx, consumed,
                 writer, channelVars, handlerVars, goroutineVars, browserVars>>

\* readLoop calls Close itself; the session stays in the manager's maps.
ReaderMark(s) ==
  /\ reader[s] = "mark"
  /\ Mark(s)
  /\ reader' = [reader EXCEPT ![s] = IF closed[s] THEN "ended" ELSE "disconnect"]
  /\ UNCHANGED <<up, shellVars, managerVars, doneOpen, ptmx, consumed, writer,
                 channelVars, handlerVars, goroutineVars, browserVars>>

ReaderDisconnect(s) ==
  /\ reader[s] = "disconnect"
  /\ Disconnect(s)
  /\ reader' = [reader EXCEPT ![s] = "kill"]
  /\ UNCHANGED <<up, shellVars, managerVars, closed, ptmx, consumed, writer,
                 chan, dropped, handlerVars, goroutineVars, browserVars>>

ReaderKill(s) ==
  /\ reader[s] = "kill"
  /\ Kill(s)
  /\ reader' = [reader EXCEPT ![s] = "ended"]
  /\ UNCHANGED <<up, inq, produced, unread, managerVars, closed, doneOpen,
                 consumed, writer, channelVars, handlerVars, goroutineVars,
                 browserVars>>

-------------------------------------------------------------------------------
(* HandleWebSocket *)

Goto(c, p) == pc' = [pc EXCEPT ![c] = p]

\* With a session_id: GetSession, under the manager's read lock
Attach(c, s) ==
  /\ pc[c] = "idle"
  /\ ManagerFree
  /\ ~Fresh(s)
  /\ att' = [att EXCEPT ![c] = s]
  /\ Goto(c, IF s \in registered THEN "info" ELSE "over")
  /\ UNCHANGED <<up, shellVars, managerVars, sessionVars, channelVars,
                 ephemeral, logged, goroutineVars, browserVars>>

\* Without one, a session is created: persistent, or closed with the WebSocket.
\* The ephemeral handler writes its audit entry first.
Connect(c, s, e) ==
  /\ pc[c] = "idle"
  /\ ManagerFree
  /\ Fresh(s)
  /\ ephemeral' = [ephemeral EXCEPT ![c] = e]
  /\ logged' = [logged EXCEPT ![c] = IF e THEN {"connect"} ELSE {}]
  /\ att' = [att EXCEPT ![c] = s]
  /\ \/ HasRoom /\ Open(s) /\ Goto(c, "info")
     \/ /\ ~HasRoom
        /\ Goto(c, "over")
        /\ UNCHANGED <<registered, shell, ptmx, reader>>
  /\ UNCHANGED <<up, todo, closePc, inq, produced, unread, closed, doneOpen,
                 consumed, writer, channelVars, goroutineVars, browserVars>>

\* session.Info takes s.mu (not in the ephemeral handler).
Info(c) ==
  /\ pc[c] = "info"
  /\ ephemeral[c] \/ Mutex(att[c])
  /\ Goto(c, "subscribe")
  /\ UNCHANGED <<up, shellVars, managerVars, sessionVars, channelVars, att,
                 ephemeral, logged, goroutineVars, browserVars>>

\* Mutant of Replay: the newest chunk is left out.
MutReplayShort(s) ==
  [i \in 1..(IF consumed[s] = 0 THEN 0 ELSE consumed[s] - 1) |-> i]

\* ReadAll
Replay(s) ==
  LET first == IF consumed[s] > History THEN consumed[s] - History ELSE 0
  IN [i \in 1..(consumed[s] - first) |-> first + i]

\* Subscribe, the replay, the audit entry; then the goroutine is started.  The
\* ephemeral handler throws the history away.
Subscribe(c) ==
  /\ pc[c] = "subscribe"
  /\ clients' = [clients EXCEPT ![att[c]] = @ \cup {c}]
  /\ chanOpen' = [chanOpen EXCEPT ![c] = TRUE]
  /\ got' = [got EXCEPT ![c] = IF ephemeral[c] THEN <<>> ELSE Replay(att[c])]
  /\ logged' = [logged EXCEPT ![c] = {"connect"}]
  /\ out' = [out EXCEPT ![c] = "select"]
  /\ Goto(c, "loop")
  /\ UNCHANGED <<up, shellVars, managerVars, sessionVars, chan, dropped, att,
                 ephemeral, ended, browserVars>>

\* The select at the top of the main loop
Loop(c) ==
  /\ pc[c] = "loop"
  /\ Goto(c, IF ended[c] THEN "cleanup" ELSE "read")
  /\ UNCHANGED <<up, shellVars, managerVars, sessionVars, channelVars, att,
                 ephemeral, logged, goroutineVars, browserVars>>

\* ws.ReadMessage returns what the browser typed
Type(c) ==
  /\ pc[c] = "read"
  /\ ~gone[c]
  /\ typed[c] < MaxInput
  /\ typed' = [typed EXCEPT ![c] = @ + 1]
  /\ Goto(c, "write")
  /\ UNCHANGED <<up, shellVars, managerVars, sessionVars, channelVars, att,
                 ephemeral, logged, goroutineVars, gone>>

Leave(c) ==
  /\ pc[c] # "idle"
  /\ ~gone[c]
  /\ gone' = [gone EXCEPT ![c] = TRUE]
  /\ UNCHANGED <<up, shellVars, managerVars, sessionVars, channelVars,
                 handlerVars, goroutineVars, typed>>

\* Mutant of ReadFails: the loop goes on after an error.
MutReadFailsAgain(c) ==
  /\ pc[c] = "read"
  /\ gone[c]
  /\ Goto(c, "loop")
  /\ UNCHANGED <<up, shellVars, managerVars, sessionVars, channelVars, att,
                 ephemeral, logged, goroutineVars, browserVars>>

\* or an error
ReadFails(c) ==
  /\ pc[c] = "read"
  /\ gone[c]
  /\ Goto(c, "cleanup")
  /\ UNCHANGED <<up, shellVars, managerVars, sessionVars, channelVars, att,
                 ephemeral, logged, goroutineVars, browserVars>>

\* Write takes s.mu, and keeps it while the PTY has no room; it fails when the
\* shell is gone.
WriteBegins(c) ==
  /\ pc[c] = "write"
  /\ Mutex(att[c])
  /\ IF closed[att[c]]
     THEN Goto(c, "cleanup") /\ UNCHANGED writer
     ELSE writer' = [writer EXCEPT ![att[c]] = {c}] /\ UNCHANGED pc
  /\ UNCHANGED <<up, shellVars, managerVars, closed, doneOpen, ptmx, consumed,
                 reader, channelVars, att, ephemeral, logged,
                 goroutineVars, browserVars>>

WriteEnds(c) ==
  LET s == att[c]
  IN /\ c \in writer[s]
     /\ writer' = [writer EXCEPT ![s] = {}]
     /\ \/ /\ shell[s] = "alive"
           /\ inq[s] < InCap
           /\ inq' = [inq EXCEPT ![s] = @ + 1]
           /\ Goto(c, "loop")
        \/ shell[s] = "dead" /\ Goto(c, "cleanup") /\ UNCHANGED inq
     /\ UNCHANGED <<up, shell, produced, unread, managerVars, closed, doneOpen,
                    ptmx, consumed, reader, channelVars, att, ephemeral, logged,
                    goroutineVars, browserVars>>

\* close(done) panics when the goroutine has closed it: gin recovers, and only
\* what is deferred still happens.
Cleanup(c) ==
  /\ pc[c] = "cleanup"
  /\ ended' = [ended EXCEPT ![c] = TRUE]
  /\ Goto(c, IF ended[c] THEN "unsubscribe" ELSE "log")
  /\ UNCHANGED <<up, shellVars, managerVars, sessionVars, channelVars, att,
                 ephemeral, logged, out, got, browserVars>>

\* The audit entry of the persistent handler calls IsClosed.
LogDisconnect(c) ==
  /\ pc[c] = "log"
  /\ ephemeral[c] \/ Mutex(att[c])
  /\ logged' = [logged EXCEPT ![c] = @ \cup {"disconnect"}]
  /\ Goto(c, "unsubscribe")
  /\ UNCHANGED <<up, shellVars, managerVars, sessionVars, channelVars, att,
                 ephemeral, goroutineVars, browserVars>>

\* The channel is closed unless Close has done so.
Unsubscribe(c) ==
  /\ pc[c] = "unsubscribe"
  /\ chanOpen' = [chanOpen EXCEPT ![c] = @ /\ c \notin clients[att[c]]]
  /\ clients' = [clients EXCEPT ![att[c]] = @ \ {c}]
  /\ Goto(c, IF ephemeral[c] THEN "close" ELSE "over")
  /\ UNCHANGED <<up, shellVars, managerVars, sessionVars, chan, dropped, att,
                 ephemeral, logged, goroutineVars, browserVars>>

\* The deferred CloseSession of the ephemeral handler
CloseEphemeral(c) ==
  /\ pc[c] = "close"
  /\ ManagerFree
  /\ todo' = {att[c]} \cap registered
  /\ Goto(c, "over")
  /\ UNCHANGED <<up, registered, closePc, shellVars, sessionVars, channelVars,
                 att, ephemeral, logged, goroutineVars, browserVars>>

-------------------------------------------------------------------------------
(* The goroutine from outputCh to the WebSocket; of several cases of its   *)
(* select that are ready, any may be taken.                                *)

Forward(c) ==
  /\ out[c] = "select"
  /\ chan[c] # <<>>
  /\ chan' = [chan EXCEPT ![c] = Tail(@)]
  /\ \/ got' = [got EXCEPT ![c] = Append(@, Head(chan[c]))] /\ UNCHANGED out
     \/ gone[c] /\ out' = [out EXCEPT ![c] = "ended"] /\ UNCHANGED got
  /\ UNCHANGED <<up, shellVars, managerVars, sessionVars, clients, chanOpen,
                 dropped, handlerVars, ended, browserVars>>

SeesDone(c) ==
  /\ out[c] = "select"
  /\ ended[c]
  /\ out' = [out EXCEPT ![c] = "ended"]
  /\ UNCHANGED <<up, shellVars, managerVars, sessionVars, channelVars,
                 handlerVars, ended, got, browserVars>>

\* The channel is closed and drained.  The persistent handler's goroutine then
\* closes done; when it is closed already the panic ends the whole server.
SeesClosed(c) ==
  /\ out[c] = "select"
  /\ ~chanOpen[c]
  /\ chan[c] = <<>>
  /\ out' = [out EXCEPT ![c] = "ended"]
  /\ ended' = [ended EXCEPT ![c] = @ \/ ~ephemeral[c]]
  /\ up' = (ephemeral[c] \/ ~ended[c])
  /\ UNCHANGED <<shellVars, managerVars, sessionVars, channelVars, handlerVars,
                 got, browserVars>>

-------------------------------------------------------------------------------

Close(s) == CloseMark(s) \/ CloseDisconnect(s) \/ CloseKill(s) \/ Remove(s)
ReadLoop(s) == \/ Read(s) \/ Touch(s) \/ Broadcast(s) \/ ReadEnds(s)
               \/ ReaderMark(s) \/ ReaderDisconnect(s) \/ ReaderKill(s)
Handler(c) == \/ Info(c) \/ Subscribe(c) \/ Loop(c) \/ ReadFails(c)
              \/ WriteBegins(c) \/ WriteEnds(c) \/ Cleanup(c)
              \/ LogDisconnect(c) \/ Unsubscribe(c) \/ CloseEphemeral(c)
Goroutine(c) == Forward(c) \/ SeesDone(c) \/ SeesClosed(c)

Next ==
  /\ up
  /\ \/ \E s \in Sessions : \/ CreateSession(s) \/ Close(s) \/ ReadLoop(s)
                            \/ Output(s) \/ Exit(s)
     \/ \E S \in SUBSET Sessions : S # {} /\ BeginClose(S)
     \/ \E c \in Clients, s \in Sessions :
          Attach(c, s) \/ \E e \in BOOLEAN : Connect(c, s, e)
     \/ \E c \in Clients : Handler(c) \/ Goroutine(c) \/ Type(c) \/ Leave(c)

Spec == Init /\ [][Next]_vars

\* The scheduler runs every goroutine that can run, and a shell goes on reading
\* and writing while it can.  Nobody has to type, leave or close anything.
Fairness == /\ \A s \in Sessions : /\ WF_vars(up /\ Close(s))
                                   /\ WF_vars(up /\ ReadLoop(s))
                                   /\ WF_vars(up /\ Output(s))
            /\ \A c \in Clients : /\ WF_vars(up /\ Handler(c))
                                  /\ WF_vars(up /\ Goroutine(c))

FairSpec == Spec /\ Fairness

-------------------------------------------------------------------------------
(* Properties *)

\* broadcast and Close only meet channels that are open: a send on, or a close
\* of, a closed channel would panic.
RegisteredChannelsOpen ==
  \A s \in Sessions : \A c \in clients[s] : chanOpen[c]

\* A user never has more shells running than the maximum, whatever is created,
\* closed and cleaned up at the same time.
AtMostMaxShells ==
  Cardinality({s \in Sessions : shell[s] = "alive"}) <= MaxSessions

\* A shell that runs can be found in the manager: no way of closing a session
\* forgets its process.
ShellsRegistered ==
  \A s \in Sessions : shell[s] = "alive" => s \in registered

\* What a persistent client has been sent or has waiting is without a gap, and
\* with one repetition at most, where the replay meets the live output; and it
\* is up to date but for the chunk being broadcast.
View(c) == got[c] \o chan[c]
ReplayMeetsLive ==
  \A c \in Clients :
    c \in clients[att[c]] /\ out[c] = "select" /\ ~ephemeral[c] /\ ~dropped[c] =>
      LET v == View(c)
          Repeats == {i \in 1..(Len(v) - 1) : v[i + 1] = v[i]}
      IN /\ \A i \in 1..(Len(v) - 1) : v[i + 1] \in {v[i], v[i] + 1}
         /\ Cardinality(Repeats) <= 1
         /\ IF v = <<>> THEN consumed[att[c]] <= 1
            ELSE v[Len(v)] >= consumed[att[c]] - 1

AmpleInput == InCap >= MaxInput * Cardinality(Clients)

\* Whoever takes the manager's mutex to close sessions gives it back, if the
\* PTY has room for all that is typed.
ClosingEnds == AmpleInput => (todo # {} ~> todo = {} \/ ~up)

\* A handler whose browser has gone ends, if the PTY has room for all that is
\* typed.
HandlersEnd == AmpleInput =>
  \A c \in Clients : gone[c] ~> pc[c] = "over" \/ ~up
===============================================================================
