# Verification of http-remote

http-remote is a server that runs configured shell commands of configured
applications, on request of a deploy token or of a user of its web interface,
streams their output, and offers terminals, containers, files, metrics and its
own upgrade to its users. This directory holds TLA+ models of its stateful
parts, model-checking runs of TLC and proofs checked by TLAPS. Paths below are
relative to `src/internal/` unless they begin with `src/` or are `README.md`
(the one of the repository).

- [Inventory](#inventory): the parts of the system, what they keep and what makes them correct
- [Modules](#modules): how states and actions correspond to the code
- [Runs](#runs): what TLC checks, the bounds and the fairness
- [Proofs](#proofs): what TLAPS proves and along which argument
- [Disagreements and observations](#disagreements-and-observations)
- [Not modelled](#not-modelled) and [Plan](#plan)

## Inventory

| Part | State | Operations | Hard about it | What makes it correct |
|---|---|---|---|---|
| Executor service, `services/executor.go` | table `executions`; per execution a goroutine, a process, two pipes, two reader goroutines, the local `output`; the map `streams` of subscriber channels | CreateExecution, Execute, streamOutput, finishExecution, Subscribe, Unsubscribe, broadcasts | a dozen early returns; two readers append to one output under a limit; channels of 100 that drop; deletion and crash in between | one verdict per execution, final and broadcast after it is recorded; output is a prefix of what was written; no execution forgotten |
| SSE handler, `handlers/stream.go` | one loop per request | replay, subscribe, forward, complete, disconnect | status read before the subscription | the answer is the verdict; the stream ends |
| Deploy handler, `handlers/deploy.go` | none | Deploy, DeployStatus, DeployStream | starts the same goroutine, behind a limiter | as above |
| App and command catalog, `services/apps.go`, `handlers/commands.go`, `handlers/backup.go` | `apps`, `commands` | CRUD, order, tokens, import and export | read-modify-write in two statements; partial import | references hold; positions distinct |
| Authentication, `services/auth.go`, `handlers/auth.go`, `middleware/auth.go` | `users`, `sessions`, `login_attempts`, `password_history` | login with lockout and second factor, session check, logout, password change | many statements without a transaction | one session, lockout, codes once, a reset ends sessions |
| Two-factor, `handlers/twofa.go` | columns of `users` | generate, enable, disable | works with the user read by the middleware | a code lets in once |
| User administration, `handlers/user.go` | `users` | create, update, delete, reset | counts administrators, then removes one | an administrator remains |
| Rate limiter, `middleware/ratelimit.go` | map of windows, one mutex, a sweep | Middleware, cleanup | mutex held across the handler | a bound per window; nobody under the limit is refused |
| CSRF store, `middleware/csrf.go` | map of tokens with expiry | Generate, Validate, sweep | read lock, then write lock | an expired token is not accepted |
| Terminal sessions, `services/terminal_session.go`, `handlers/terminal.go` | manager's maps, per session a shell, a PTY, a ring buffer, a client set; per connection two goroutines | create, list, close, attach, ephemeral session, sweep | three mutexes, blocking writes, channels closed from several sides | bounded shells, none leaked; replay joins the live output; handlers end |
| Metrics collector, `services/metrics_collector.go`, `handlers/metrics.go` | four tables, three tickers | collect, aggregate hourly and daily, retention, prune | aggregates only the previous hour; averages and totals in two queries; three time formats | an aggregate is of its own time and complete; no hour is left out |
| Upgrade, `upgrade/upgrade.go`, `handlers/system.go` | the binary and its backups | check, install, rollback, rotate | crash, failing disk or a second request between any two file operations | a build survives; the binary can be started; a success is what it says |
| Migrations, `database/migrations.go` | schema, table `migrations` | run, record | crash between two statements, or run and record | what is recorded is applied; a restart completes the rest |
| Containers, `services/container.go`, `handlers/container.go` | Docker's | list, start, stop, logs, exec | three goroutines around two connections; an audit entry for nobody | the handler ends; actions are logged |
| Files, `handlers/files.go` | the file system | upload, save, copy, rename, delete, make directory, download | look, then act; open files outlive their paths | what may not be overwritten is not; changes are logged |

The remaining parts (audit log, encryption, configuration, validation, probes,
router, static files, the React client) keep no state of their own or only
append to it; the audit log is part of every module whose handlers write it.

**How they interact.** The router puts a limiter before a handler
(`router/router.go:100-133`): `loginLimiter` before login, `twoFALimiter` before
the 2FA handlers, `apiLimiter` before the status and stream of a deploy. A
limiter holds its mutex while the handler runs. `AuthRequired` reads the session
and the user and leaves the user in the request's context. Deploy and Execute
insert a row and start the goroutine `Execute`; that goroutine, the stream
handler and the deletions of the catalog meet in the table `executions` and in
the map of subscribers. Terminal handlers share sessions through the manager.
The handlers of the catalog, of files and of containers share the audit log,
the user who makes the requests, and the process, which a panic outside a
handler ends for all. An upgrade replaces the binary that systemd starts, and
what it starts first migrates the database.
All tables are one SQLite database, where each statement is atomic and almost
none is in a transaction with the next.

`PROJECT.json` lists every component with its modules, and under "hazards" the
places where these behaviours bite, with the properties that cover them.

## Modules

| Module | Models | Used by |
|---|---|---|
| `ExecutionLifecycle` | abstract: what a reader of `executions` may rely on | refined by `Executor` |
| `OutputLimit` | how `streamOutput` adds a line to the bounded output | `Executor` |
| `Executor` | executions, processes, streams, deletions, crash | `MCExecutor`, `ExecutorProofs` |
| `RateLimiter` | one limiter and the handlers behind it | `MCRateLimiter`, `RateLimiterProofs` |
| `Accounts` | one account: logins, its owner's requests, an administrator's resets | `MCAccounts`, `AccountsProofs` |
| `UserAdmin` | the rows of `users` under concurrent administrators and restarts | `MCUserAdmin`, `UserAdminProofs` |
| `Terminal` | manager, sessions, shells, WebSocket handlers | `MCTerminal`, `TerminalProofs`, `TerminalHistory` |
| `BoundedHistory` | abstract: the last bytes of a session | refined by `RingBuffer` |
| `RingBuffer` | the circular buffer | `TerminalHistory` |
| `TerminalHistory` | a session of `Terminal` with its ring buffer | `MCTerminalHistory`, `TerminalProofs` |
| `Handling` | what handlers of one kind have in common: their job, the audit log, their user, failures | `Catalog`, `Files`, `Containers` |
| `Catalog` | apps, commands, tokens, order, executions, backups | `Management` |
| `Files` | the file handlers on paths and inodes | `Management` |
| `Containers` | the container handlers and the interactive exec | `Management` |
| `Management` | those three at once | `MCManagement`, `ManagementProofs` |
| `Upgrade` | the binary, its backups, and the requests that replace it | `Release` |
| `Migrations` | the statements of the migrations and their records | `Release` |
| `Release` | an installation: systemd, binary, migrations, upgrades, crashes | `MCRelease`, `ReleaseProofs` |
| `Metrics` | samples, aggregates and the three loops | `MCMetrics`, `MetricsProofs` |

A definition named `Mut...` is a plausible bug in the definition that follows it.
No specification uses one; put in place of the original it makes the property
that `PROJECT.json` names fail, so the run would notice the bug.

### Executor

A step is one SQL statement, one critical section of `streamsMu` or of the
output's mutex, or one channel operation: what another goroutine can see. The
program counter `runPc[e]` follows `Execute`: `Start` inserts the row,
`LookupExecution`, `LookupCommand`, `LookupApp`, `StatWorkingDir` may each fail and
go to the common failure path, `MarkRunning` writes the status, `Launch` starts
the process and the readers, `WaitReturns` and `Join` compute the verdict from the
exit code and the timeout, `FinishExecution` records it, `BroadcastComplete`
ends it. `Scan` and `BroadcastLine` are `streamOutput`: the line is appended under
the mutex and sent later, so the two readers interleave in between. A channel
is known by the client that owns it. `Send` drops when the channel is full.
Lines are numbers with a size; what they say is left out. A line longer than a
`bufio.Scanner` takes (`TokenLimit`, 64 KiB) ends the scan, and what the process
writes after it is neither stored nor sent (`ScanEnds`). Deletion of a
command and of the app is a request of its own, with the cascades of the schema
(`database/migrations.go`) in the step that deletes. A crash loses every
goroutine, process and stream and keeps the tables; nothing in the code repairs
an unfinished row afterwards, so the model has no such step. `DbFaults` lets the
UPDATEs fail whose errors `Execute` ignores.

### RateLimiter

`Arrive`, then one of `OpenWindow`, `Count` and `Refuse` under the mutex, then
`Return` for the admitted ones, which hold the mutex until then; `Cleanup` is the
goroutine that forgets old windows. A handler is short or a stream. `log` and
`refusal` record what the properties are about and guard nothing.

### Accounts and UserAdmin

`Accounts` is one row of `users` with its rows in the three other tables. `pc[l]`
follows `Login`: `CheckLock`, `Verify`, `RecordFailure`, the second factor (`GiveTOTP`, or
`ReadCodes` and `WriteCodes` of ValidateBackupCode), `Clear`, `Invalidate`, `Create`. The
conjunct `Serial` is the mutex of the limiter, whose model is `RateLimiter`
(HandlersSerialised). `req[q]` follows a request of the owner through AuthRequired
and one of four handlers, with the copy of the user that the middleware left in
the context: `EnableTOTP` compares the code with that copy and updates the row
whatever it holds by then. `Reset` and `ResetSessions` are the two statements of an
administrator's UpdatePassword. Time is a counter of ticks. `Zone` is the
difference between the server's clock and UTC: `created_at` is written by SQLite
in UTC and the bound of the lockout window is written by the driver in local
time, and both are compared as text. A wrong password and a wrong code are
choices of the environment. Passwords in the history are ordered by insertion;
the code orders them by a time stamp of a second's resolution.

`UserAdmin` is the table as administrators see it: ids are never used twice,
names are unique, Update and Delete are the sequence Read, Count, write, each
one statement; a request that would be refused before its first statement is
not started. `Restart` loses the requests and runs EnsureAdminUser.

### Terminal, RingBuffer and TerminalHistory

`Terminal` has the three mutexes of the code in different forms: that of the
manager is held by whoever closes sessions, from `BeginClose` until `todo` is empty;
that of a session is held by the clients in `writer`, over the blocking write to
the PTY; that of the client set is only held over steps that cannot block and is
the atomicity of actions. `ReadLoop(s)` is the goroutine of a session, `Handler(c)`
and `Goroutine(c)` the two of a connection; `Output`, `Exit`, `Type` and `Leave` are the
shell and the browser. `readLoop` looks at `done` before the blocking read, so `Read` may
take a chunk after the session was closed. `up = FALSE` is a panic outside a handler, which ends the
process. `RingBuffer` is the buffer byte by byte; `TerminalHistory` puts it behind
`readLoop`, which `Terminal` alone counts the chunks of.

### Management: Catalog, Files, Containers

A request is a record `job[r]` of its input, of the locals of its handler and of
the place `at` where the handler is; `Receive` makes one out of what a browser may
send. A step ends after one SQL statement, one file operation or one call of
Docker, since another handler can act there. `LogAndAnswer` is AuditService.Log,
whose INSERT fails when the user is gone (`UserDeleted`) and whose error the handlers
ignore. `Fault` lets a statement or a write fail.

`Catalog`: ids and tokens are numbers in the order of creation. UpdateApp is `ReadApp`
and `WriteApp`, which merges the request into the row it has read; CreateCommand is
`FindApp`, `ReadPlace` (SELECT MAX), `InsertCommand` and a read back; the deletions are
`EraseHistory` and the DELETE that the foreign key may refuse. `ReorderCommands` is the
one transaction. An import walks a backup with the same steps and counts what it
skips and what fails. Deploy checks its token, then finds its command.

`Files`: `link` gives a path its inode, so a handler that has opened a file keeps
writing to it wherever a rename or a removal leaves it. `StatSource` and
`StatDestination` are the looks, `OpenFile`, `WriteFile`, `RenamePath`, `RemovePath` and
`MakeDirectory` the acts, `StatWritten` the look at the result. Where that has gone, a
handler that puts the size into its audit entry panics before the entry, and one that
only answers with it (make directory, rename) after it ("logNil").

`Containers`: one container of an external Docker. `CallDocker` and `RunInContainer` are
followed by `AuditContainer`. ExecInteractive is the three goroutines `ping`, `out` and `in`
of the job on the shell's and the browser's connection; `Close` comes after all
three. `PingInWrite` is the panic of two goroutines writing to one WebSocket.

### Release: Upgrade and Migrations

`Upgrade` has `dir`, from names to files, and `file`, their contents, so that opening a
name truncates what another request is copying. `pc[r]` walks the file operations of
RunWithProgress or Rollback, in the order `NextPc` gives; `ErrorPc` is the clean-up of
each. Any operation may fail, and any number of them, as on a full disk (`Fault`): the
copy that restores like the one that made it necessary. A request whose error was not
undone, or not wholly, ends as "unrestored". `copyFile` is `CopyOpen`, `CopyWrite`,
`CopyMode`. A backup's name is the running version and a second of the clock.
`RotateBackups` keeps the newest; a backup whose removal fails stays. `mishaps` records
what has gone wrong, for the properties: "blind" is a request made where an earlier one
has left an incomplete binary.

`Migrations` has the list of the first release and the ten versioned migrations as
sequences of statements with their guards. The schema is the set of its tables
and columns. `Execute` is one statement, or one transaction where the code opens
one; `RecordMigration` the row in `migrations`. A bare ALTER that finds its column fails
the start.

`Release` composes them: `SystemdStart` runs the binary that has the name, `Migrate` runs
the migrations that build knows, `SystemRestart` and `Crash` end the process with its
requests where they are; the command `upgrade` is a process of its own.

### Metrics

Time is counted in intervals of collection. `raw` is a set of times; an aggregate
is the set of samples it was computed from, twice for an hour, since the
averages (`AggregateHourly`) and the network totals (`StoreHourly`) are read by two
queries between which samples come and go. `aggregateDue` and the others are the
tickers; the work of a tick may end up to `MaxDelay` late. The bounds of the queries
differ: a raw row has the form SQLite gives it and sorts before a bound of the
same second, an aggregate has the form of the driver. `Stop`, a failed collection and
`PruneMetrics` are what `MaxUpsets` bounds; the bound of a prune comes in the zone of the
client who asks for it (`ClientZones`). `erased` and `edgy` are ghosts.

## Runs

Every property of a passing run has a mutant that breaks it.

| Run | Instance | Shows |
|---|---|---|
| `executor_lifecycle` | 2 executions, 1 command, 1 stream, channel of 1, 1 crash | no unfinished row without its goroutine (UnfinishedRowHasRunner); completion after the record; the answer of a stream is the verdict; every step is one of ExecutionLifecycle (Lifecycle) |
| `executor_live` | 1 execution, 1 stream, channel of 3, 2 lines of size 1, 3 or 4 on either pipe, limit 2, lines of 3 at most scanned, 1 crash, failing UPDATEs, fair | stored output is a prefix of each pipe, and limit, marker and dropped lines agree; nothing follows the completion; every execution ends; a stream subscribed in time with room in its channel ends |
| `stream_never_ends` | channel of 2, 2 lines, fair | violation, see below |
| `limiter` | 5 requests of 1 address, limit 2, window 2, 7 ticks | twice the limit per window at most; nobody is refused under the limit |
| `limiter_stream_blocks` | 2 addresses, a stream and a short request, fair | violation, see below |
| `accounts` | 3 logins, 1 request at a time, 2 passwords, history 1, 2 attempts, lockout 2, 3 ticks, 1 set of 2 codes | one session; failures spaced by the lockout; each backup code once; a reset ends what was there |
| `user_admin` | 3 ids, 3 names, 2 requests | an administrator remains |
| `terminal_manager` | 2 sessions, maximum 1, 1 connection, 1 message | never more shells than the maximum; every running shell is registered |
| `terminal_clients` | 1 session, 1 connection, 3 byte values, history 2, channel 2, 3 chunks, 1 message, fair | the buffer is BoundedHistory and replays what was written last; replay meets live output; channels met are open; the manager's mutex is given back and handlers end |
| `release` | 2 requests, 2 builds that know 8 and 10 migrations, 1 backup kept, 2 seconds, 1 crash, any number of disk errors, 1 kind of mishap, fair | requests that do not overlap leave a whole build, and a binary that can be started unless one of them was cut off or its error not undone; two that overlap leave a whole build; a success leaves what it announced; recorded migrations are complete; a migration fails only where two ALTERs were torn apart; the server comes back, or is down for a migration left halfway or a binary lost in one of the ways named |
| `management` | 2 requests of any kind, 2 names, a backup of 2 apps, 3 paths, 1 failure, fair | places clash only in the race of NextPlace; a short import reports errors; changes are logged; replaced tokens stay replaced; files that were there stay; an exec whose shell is gone ends |
| `metrics` | days of 2 hours of 2 collections, 12 moments, delays of 1, 2 upsets, clients in 2 zones | an hour's aggregate is of all its samples, a day's of all its hours; nothing is left out while the server runs |

**Why the bounds are enough.** Two executions are what a deletion and the map of
subscribers can mix up; the processes of different executions share nothing
else. Two lines, on one pipe or on both, overflow a channel of one and of two, and with
the completion fill one of three exactly; of sizes one and three they meet a
limit of two from below, exactly and beyond, in both orders of the readers; one of four
is too long to be scanned.
Five requests against a limit of two pass through three windows. Three logins
are one that fails, one that fails again and one that finds the lock, or two
that race with a third; one set of two codes leaves a code to write back. Three
users are the protected administrator and two who remove each other. In
`terminal_clients` three chunks against a history and a channel of two wrap the
one and overflow the other.

Every race of the management handlers is one request's look, another's act, and the
first one's act, so two requests suffice, and every pair of operations meets in
`management`. A reordering of at most two commands is a bound of `CatalogRequests`.
Three paths are a source, a destination and a bystander. In `release` one kind of mishap
(a crash, a failing disk, an overlap, two backups in one second) happens in a behaviour,
and every kind in some; errors and overlaps come any number of times, and the
consequence "blind" of an error is not counted. That crashes and errors together break
nothing more, the theorems say. One backup kept instead of three makes rotation happen
with two requests; two builds are an upgrade to a newer schema and a rollback to an
older binary over it. In `metrics` the clock runs over two days, from 4 to 12, at the
end of which every retention period has passed; a stop may last across the end of an
hour. The bounds themselves (MaxLines, MaxCrashes, MaxTime, MaxSecrets, MaxChunks,
MaxInput, MaxFaults, MaxMishaps, MaxUpsets, Builds, and the finite sets) are constants
that only appear in guards. Deadlock checking is off where requests or time run out,
which is the bound and not the system.

**Fairness.** In `Executor`, weak fairness of every step of a goroutine that is
runnable, by the Go scheduler, and of the end of the process, by the context
with a timeout that kills it (`services/executor.go:196`); nobody is obliged to
start, delete, open a stream or leave it. In `RateLimiter`, waiting requests get the
free mutex and short handlers return; streams need not. In `Terminal`, goroutines
run and a shell writes what it has and reads what it is given while it can;
nobody is obliged to type, to leave or to close. In `Release`, systemd starts a
server that is down (`Restart=always`, `service/systemd.go`), the migrations and
the requests go on; nobody is obliged to upgrade, and nothing to fail. In
`Management`, the goroutines of an exec run, a Read that has the end of the shell
before it returns, and one with a deadline times out; a shell need not say
anything. `Accounts`, `UserAdmin`, `Metrics` and the rest of `Management` are checked for
safety only: every statement is short and nothing waits.

## Proofs

For every value of the constants that satisfies the named assumptions:

- **Executor** (`ExecutorProofs`). `IInv` is the inductive invariant: TypeOK;
  RowFollowsRun and RowAgrees (which status a row may have at each point of
  Execute, and that its exit code matches); ProcessFollowsRun (which process and
  readers there are); ChannelsFollowClients (a channel holds a completion only
  as its last message and only after the broadcast); ReferencesHold,
  SubscribersAreStreaming and AnswerIsVerdict. The properties alone are not
  inductive: that a completion comes after the record needs to know where the
  goroutine is when it sends, and that needs the row. From it: TypeCorrect,
  NoRowIsForgotten, ReferencesAlwaysHold (which no run states), SubscribersAlwaysStream,
  CompletionIsRecorded, NothingAfterCompletion, AnswersAreVerdicts, and
  LifecycleImplemented: under the mapping of `row` to status and exit code every
  step is a step of ExecutionLifecycle or leaves the table alone.
- **The output of an execution** (`ExecutorProofs`). OutputInv has three parts.
  PipeInv: the lines between a process and its reader carry the numbers that
  follow the last one scanned. BufInv: `size` is the sum over the stored lines, with
  the marker when something was cut, and below the limit every line scanned is
  stored. With StoredOutputIsPrefix they are inductive; they give OutputIsPrefix
  and OutputIsAccounted for every limit and any number of lines. What the sum is
  after a line is added is by induction over the lines (BytesAppended), as the
  least number of lines for which it fails.
- **RateLimiter** (`RateLimiterProofs`). LockInv (who serves holds the mutex, which
  one request holds at most) gives OneHandlerAtATime. WindowInv relates an entry
  to the log: the last `count` admissions lie in the current window and those
  before it in earlier ones, swept or not; it gives TwiceTheLimit. RefusalInv adds
  that the admissions an entry counts came within its own window, and that whoever
  was refused came after a window with the limit in it: RefusalsAreDue.
- **RingBuffer** (`TerminalProofs`). IndexInv says that a buffer not yet full
  starts at 0; PutAppends, that a Put appends to what ReadAll returns and drops
  its head when full, by the cases of the wrap. LastBytesKept is the refinement
  of BoundedHistory.
- **TerminalHistory** (`TerminalProofs`). HistoryInv: ReadAll holds the last chunks that
  `consumed` counts, each once (BufferIsReplay), for every size, so that Terminal may
  replay without bytes. SessionKeepsLastBytes is the refinement: the composition
  implements BoundedHistory.
- **Accounts** (`AccountsProofs`). TypeInv adds to TypeOK that a password change
  past its first check holds a real password. Every other argument begins with
  LoginsSerial: a login that makes a step is the only one running. SessionInv:
  before Create there is no session, and a session's login is over, so a login
  in progress owns none; it gives AtMostOneSession and ResetEndsThem. CodeInv: a
  code that let someone in is neither in the row, but for the login about to
  write it back, nor among the codes held, and later sets are numbered higher;
  it gives CodesSpentOnce. FailureInv: a login that passed CheckLock finds its
  MaxAttempts-th last failure a lockout ago until it records its own; it gives
  FailuresAreSpaced, for a clock not ahead of UTC.
- **UserAdmin** (`UserAdminProofs`). AdminInv says that the configured
  administrator is there, is an administrator, and that no request past its
  checks would delete, rename or demote that row. It gives AnAdminRemains; the
  counts of administrators play no part in the argument.
- **Terminal** (`TerminalProofs`). ShellInv: a running shell is registered, has its
  PTY, and its session is closed at most up to the step that kills it; the
  registered sessions are finite and at most the maximum. ShellsRegistered alone
  is not inductive: whoever removes a session must be known to have killed its
  shell. ChannelInv: a channel is in the set of the session of its client only,
  open, from Subscribe to Unsubscribe. They give TypeCorrect, NoShellIsForgotten,
  ShellsAreBounded and NoSendOnClosed. ViewInv is about what a client that has
  missed nothing sees, the replay, then its channel: it goes from chunk to chunk up
  to the last one read, but for the one that is about to be broadcast, and repeats at
  most the chunk that was being broadcast when the client came. It gives
  ReplayAndLiveMeet.
- **Migrations** (`ReleaseProofs`, over all of Release). PlaceInv: where a start is in
  the list, and that the statements of the current migration up to there are
  done; with the guards, a migration that is skipped or at its end is applied,
  which is RecordedStaysApplied. OrderInv: the ALTERs of the two unguarded
  migrations come in order, so a failing one has found its column by a torn run
  (Half5, Half10), which is FailsOnlyThere.
- **Upgrade** (`ReleaseProofs`, over all of Release). SeqInv is for behaviours without
  an overlap: one request is at work, no file has two names, no name has a file that
  its request has yet to make, and what the request holds at each step (Copying,
  Saving, Target, Binary: its copy, its backup, its download or choice, and what has
  the name of the binary). It is inductive and gives AnnouncedIsInstalled. OrdInv adds,
  for behaviours without a clash of backups and without a request made blind, what is
  left at each step (Order). Sound says what can undo the request where it is: before
  anything was removed, the binary that is there (whole, if it exists) or a spare whole file
  that outlives the request; later, its own backup, which is whole and the newest (Newest),
  so that rotateBackups keeps it. Between requests a whole build is left (Left): the binary,
  or a spare one. As long as no crash or error has left its damage behind (NoLoss) and no
  incomplete backup was installed (Spoiled), the binary can then be started, and what a
  request replaces it with fits (Fit). It gives WholeBuildIsLeft and BinaryIsLeft, for any
  number of crashes and of errors, those of the copies that restore included. One step
  lemma per action says that both are kept (Kept). Neither property is inductive alone:
  after os.Remove only the backup is left, and that it is whole goes back to what the
  binary was when the request came.
- **Upgrades that overlap** (`ReleaseProofs`, too). GenInv is for every behaviour,
  whatever overlaps and goes wrong: what a request at work holds fits its step
  (Holds), and its download is a file of its own, whole while it has its name
  (Downloads). One lemma per action says that a step of r is an Acts(r): it moves r
  alone; it names only its download, a new backup or the binary; it removes only the
  binary, its download or backups no newer than one it leaves; it writes only to the
  file it has open. What follows is proved of Acts. Pair says that at most two requests
  have been made and that nothing but an overlap has gone wrong; then a backup is the
  file of the request that made it (Backups), and PairInv has two cases. Unsaved: only
  backups have been written to, so the binary is whole, or an upgrade that removed it
  still has its download. Saved: both requests have made their backups, and a whole
  one is the newest or will meet no rotation any more (Firm), which lasts. A rollback
  that has its backup, and a restore, take the first case to the second. A third
  request would find no such backup safe, and an error of the disk no such download:
  PairLeavesAWholeBuild has both conditions. Requests need not be finitely many: that those
  made so far are (Busy) is part of the invariant, to count them.
- **Management** (`ManagementProofs`). JobInv: a request keeps its input and its locals,
  whatever the others do. RowInv: ids are at most `born`. PlaceReadInv: a place a
  request has read is after every place that was there and has not been moved;
  with the greatest element of a finite set of numbers it gives
  PlacesClashInRaces. LinkInv: what leads to the destination of a request that
  has looked there came after it, which is OnlyNewcomersReplaced. NoTokenReturns
  needs only that tokens are at most `born`. AppInv accounts for each application
  an import has made: the commands it has, with those the import will still insert,
  are as many as the backup lists, or the import has counted an error or a command
  was deleted since (`cut`); with nothing left to insert that is
  ShortImportsReported. MadeInv and TrailInv say that what a request has made or
  written to, it made past its checks, and that its entry in the audit log is the
  last thing it leaves, once: ChangesLogged.
- **Metrics** (`MetricsProofs`). TimeInv has the phases of the loops: while the server
  is up the hourly tick is at most MaxDelay late and the aggregate in the making is
  of the hour before. RowsInv: the rows a query of an hour finds are those of that
  hour, and no sample comes to an hour that is over; it gives HourlyAggregates.
  DayRowsInv: a day is summed up when all of its hours have had their turn, so no hour
  comes to it later, which is DailyAggregates, for any Zone. TurnInv and DaySumInv say
  which hours and days have had their turn, and give HistoryComplete. Hours and
  days are quotients of any lengths: the lemmas on `\div` come first. HourlyAggregates
  and HistoryComplete have `Zone = 0` as a hypothesis, without which they are
  false (see below).

Assumptions: those named in the modules (capacities, limits and durations are
positive; sets that must not be empty are not; `Ids` is finite; a backup is a sequence
of names with numbers of commands; the name of files that were there before,
"earlier", is not a request; the bytes of TerminalHistory are numbers from 0).
They are evaluated by TLC in every run.

Induction over numbers, which the sums and the places need, is by the least number for
which a claim fails (NatLessThanWellFounded and WFMin of the library), since its
induction theorems take an operator.

**Only model-checked.** The liveness properties (RunsEnd, BufferedStreamEnds,
ClosingEnds, HandlersEnd, ComesBack, ExecEnds), which need fairness, beyond the prover's
reach. Everything else that a passing run checks is proved.

## Disagreements and observations

Found violated, as `PROJECT.json` records with quotations:

- `stream_never_ends`: an execution that finishes between the stream handler's
  look at its status and its Subscribe, or whose completion meets a full
  channel, leaves the stream open for ever.
- `limiter_stream_blocks`: the limiter's mutex is held while a stream is open, so
  every other request behind the same limiter waits, whatever its address.

Met while modelling, without a run of their own:

- The completion event carries exit code 1 with status success when the row is
  deleted before it is read again (`handlers/stream.go:86-95`), and never the
  "remaining output" its comment mentions. AnswerIsVerdict leaves this case out.
- A line of 64 KiB or more ends the scan of its pipe (`services/executor.go:278`), whose
  error nobody reads: the rest of the output is lost without the truncation marker, and
  the process may block on the full pipe until its timeout.
- The limiter counts in fixed windows, where `middleware/ratelimit.go:12` speaks of
  a sliding window; twice the limit is possible within one window's length, and
  TwoWindowBound shows that no more is. Retry-After is rounded down.
- Input that a PTY has no room for keeps the session's mutex locked, and closing
  that session then keeps the manager's (`services/terminal_session.go:238`, `:357`).
  ClosingEnds and HandlersEnd hold only with room for all input (AmpleInput).
- A shell that has exited counts against the maximum until the sweep
  (`services/terminal_session.go:167`); closed shells are killed and never waited
  for (`:384`), and stay zombies. The sweep reads LastActivity without the
  session's mutex (`:142`), a data race whose outcomes differ by one sweep.
- The channel `done` of a terminal handler is closed by the handler and by its
  goroutine (`handlers/terminal.go:373`): when the session closes under the
  connection both do, and the panic skips the audit entry of the disconnect or,
  in the goroutine, ends the process. The steps Cleanup and SeesClosed have both
  outcomes.
- The lockout ends when the oldest of the counted failures leaves the window,
  not a lockout after the last one (README.md:176). FailuresSpaced is what
  remains true. A server whose clock is ahead of UTC never locks; one behind it
  counts older failures as well, and unlocks a lockout after the last.
- A login that has compared the old password creates its session after a reset,
  and a password change in progress overwrites the reset. ResetEndsSessions is
  about the sessions that were there. ChangePassword ends no session.
- GenerateSecret replaces the secret of an account whose second factor is
  enabled, though its comment says "but don't enable yet" (`handlers/twofa.go:72`);
  EnableTOTP with a copy read before DisableTOTP enables without a secret.
- Codes set by EnableTOTP while ValidateBackupCode holds the earlier ones are
  lost to its write; none is ever accepted twice (CodeSpentOnce).
- A wrong second factor is not a failed attempt. Expired sessions and old
  attempts have cleaners that nothing calls.
- EnsureAdminUser does nothing when the configured name belongs to a user who is
  no administrator; AdminRemains begins after a first start that created it.
- Requests that overlap use the same names without a lock, and two backups of one
  version in one second are one file, so a rollback to it restores what it has just
  overwritten. Three requests that overlap can leave no whole build under any name,
  and two can when an error of the disk meets them; two alone cannot
  (PairLeavesBuild). The errors of the copies that restore are ignored
  (`upgrade/upgrade.go:261`, `:269`, `:427`), and nothing follows a failed chmod of a
  rollback (`:433`): on a full disk both copies of a rollback fail, and a truncated binary is
  left without a crash. BinaryStays and ComesBack name these outcomes (Unrestored, Spoiled).
  A whole build is still left then, the backup; the next requests may lose it, as
  each backs the incomplete binary up and rotates ("blind"). SomeBuildSurvives has these
  conditions for that reason; a run of two requests may not need all of them. A backup whose copy
  failed is kept, listed and offered for rollback like any other. Its name
  says the version of the running process, not of the file. A crash between
  Remove and Rename leaves no binary, one before Chmod a binary of mode 0600,
  and systemd cannot start either. The unit it installs has ProtectSystem=strict
  and only the working directory writable; the model is of a binary in a
  directory the server may write to.
- A crash inside the session-binding or the swap migration, whose ALTERs are
  neither guarded one by one nor in a transaction, makes every later start fail
  (`database/migrations.go:788`).
- With a server clock not in UTC (`Zone` # 0) HourlyFromItsHour fails: raw rows are
  stamped in UTC by SQLite and compared, as text, with local times. The run has
  `Zone = 0`. After a start in the last moments of an hour the tick reads the clock
  of the next hour, and that hour may be skipped (`edgy`).
- In the interactive exec, the ping goroutine and the one that copies output
  write to one WebSocket without a lock (`handlers/container.go:408`): gorilla panics,
  and the process ends. When the browser leaves, a silent shell keeps its
  goroutine and both connections; when the shell exits, the reader of the
  WebSocket ends only by its deadline of 60 seconds.
- SaveFile, UploadFile and CopyFile take the size of what they wrote from a
  FileInfo whose error they ignore: a concurrent removal makes them panic after
  the change and before the audit entry. CreateDirectory and RenameFile do the same
  after their entry (`handlers/files.go:608`, `:736`). A copy whose source is renamed to its
  destination meanwhile empties the file it reads.
- Starting, stopping, restarting and removing a container and running a command
  in it leave no entry in the audit log, though README.md:83 says "Track all user
  actions and executions": the handlers look the user up under keys nobody sets
  (`handlers/container.go:87`), the entry of user 0 violates the foreign key, and the
  error is dropped. ChangesAreLogged is about the catalog and the files.
- DeleteApp and DeleteCommand that fail in their second statement have erased
  the history. UpdateApp writes back the name and the other columns it has read,
  so of two updates one is lost; only the token is safe (TokensNeverReturn).
  The import leaves an app short of commands and the next import skips it. Deploy
  writes no audit entry.

## Not modelled

The CSRF store: a token is random and never issued twice, and both places that
delete one read its own expiry, so no order of lookups, deletions and the sweep
changes an answer. Encryption, validation, the probes of `/proc` and of Docker,
headers, web handlers and static files keep no state that a property could
relate; the configuration is the constants; the React client is an input.
Of the systemd unit only `Restart=always` is modelled, of the router the order of
limiters and AuthRequired in front of the handlers. Of the authentication and
two-factor parts, what no route reaches is left out: AuthService.Login, the two
cleaners, RegenerateBackupCodes. Of the modelled parts, wording, JSON, cookies
and the content of lines, files and messages are left out, and handlers that only
read where no property needs their answer. Two logins to different accounts
share nothing but the limiter. SQL errors are left out, except the ones `DbFaults`
and `Fault` stand for. The upgrade on Windows is left out.

## Plan

The modules follow the order in which a failure would cost most: executions,
accounts, terminals, then the binary and the database, then what management
requests do to each other, then the metrics. What remains, in this order:

1. A proof that a request whose error is undone leaves the binary it found, not only one
   that can be started (from Own and Sound of `ReleaseProofs`).
2. `Accounts` with `RateLimiter` in place of the conjunct Serial, and a proof that
   the limiter implements it.
3. `Executor` under `Catalog`'s deletions in place of its own, so that the import
   and the deploys of one meet the executions of the other.
