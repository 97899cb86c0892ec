------------------------------ MODULE Migrations ------------------------------
(***************************************************************************)
(* The migrations of the database that a start of the server runs before   *)
(* it serves: the CREATE ... IF NOT EXISTS of the first release, and then   *)
(* the versioned migrations, each run once and recorded in the table        *)
(* "migrations".  The schema is the set of its pieces, tables and columns;   *)
(* indexes and triggers go with the table or the column they are made for.  *)
(*                                                                          *)
(* A statement outside a transaction is committed at once, so the process   *)
(* may end between any two of them; a migration in a transaction is a       *)
(* single statement here.  Builds of the program differ in how many of the  *)
(* versioned migrations they know.                                          *)
(***************************************************************************)
EXTENDS Integers, Sequences, FiniteSets

VARIABLES
  schema,     \* the pieces the database has
  recorded,   \* the rows of the table "migrations"
  phase,      \* "down", "migrating", "up": the process of the server
  at,         \* the migration it is at; 0 stands for the list "migrations"
  line,       \* statements of that migration it has executed
  failing     \* did the last start end in an error of a migration

migrationVars == <<schema, recorded, phase, at, line, failing>>

-----------------------------------------------------------------------------
(* A statement creates a piece, and others along with it.  A bare one, an  *)
(* ALTER TABLE ... ADD COLUMN, fails when the piece is there.              *)
Create(piece, others) == [piece |-> piece, others |-> others, bare |-> FALSE]
Alter(piece) == [piece |-> piece, others |-> {}, bare |-> TRUE]

(* A migration does nothing when the schema has "enough" of the pieces it  *)
(* looks for.                                                              *)
Guarded(looksFor, enough, does) ==
  [looksFor |-> looksFor, enough |-> enough, does |-> does]
Unguarded(does) == Guarded({}, 1, does)

BaseTables ==
  Unguarded(<< Create("users", {}), Create("sessions", {}),
               Create("apps", {"apps.updated_at"}), Create("commands", {}),
               Create("executions", {"executions.no_user_fk"}),
               Create("audit_logs", {}) >>)

MigrateExecutionsTable ==
  Guarded({"executions.no_user_fk"}, 1, <<Create("executions.no_user_fk", {})>>)

AddAppsUpdatedAtColumn ==
  Guarded({"apps.updated_at"}, 1,
          <<Create("apps.updated_at", {})>>)

Add2FAToUsers ==
  Guarded({"users.totp_secret", "users.totp_enabled"}, 2,
          <<Create("users.totp_secret", {"users.totp_enabled", "users.backup_codes"})>>)

AddLoginAttemptsTable == Unguarded(<<Create("login_attempts", {})>>)

\* Mutant of AddSessionBindingColumns: the columns are not looked for.
MutSessionBindingUnguarded ==
  Unguarded(<<Alter("sessions.ip_address"), Alter("sessions.user_agent_hash")>>)

AddSessionBindingColumns ==
  Guarded({"sessions.ip_address", "sessions.user_agent_hash"}, 2,
          <<Alter("sessions.ip_address"), Alter("sessions.user_agent_hash")>>)

AddPasswordHistoryTable == Unguarded(<<Create("password_history", {})>>)

AddRoleToUsers == Guarded({"users.role"}, 1, <<Create("users.role", {})>>)

AddSortOrderToCommands ==
  Guarded({"commands.sort_order"}, 1, <<Create("commands.sort_order", {})>>)

\* Mutant of AddSystemMetricsTables: the tables are created without IF NOT EXISTS.
MutMetricsTablesBare ==
  Unguarded(<<Alter("system_metrics"), Alter("docker_metrics"),
              Alter("system_metrics_hourly"), Alter("system_metrics_daily")>>)

AddSystemMetricsTables ==
  Unguarded(<< Create("system_metrics", {}), Create("docker_metrics", {}),
               Create("system_metrics_hourly", {}),
               Create("system_metrics_daily", {}) >>)

AddSwapToMetricsTables ==
  Unguarded(<< Alter("system_metrics.swap_percent"),
               Alter("system_metrics.swap_used"),
               Alter("system_metrics.swap_total"),
               Alter("system_metrics_hourly.swap_avg"),
               Alter("system_metrics_hourly.swap_max"),
               Alter("system_metrics_daily.swap_avg"),
               Alter("system_metrics_daily.swap_max") >>)

Plan ==
  << MigrateExecutionsTable, AddAppsUpdatedAtColumn, Add2FAToUsers,
     AddLoginAttemptsTable, AddSessionBindingColumns, AddPasswordHistoryTable,
     AddRoleToUsers, AddSortOrderToCommands, AddSystemMetricsTables,
     AddSwapToMetricsTables >>

Migration(m) == IF m = 0 THEN BaseTables ELSE Plan[m]
Pieces(m) == {Migration(m).does[i].piece : i \in 1..Len(Migration(m).does)}
HasMigrationRun(m) == m \in recorded
Skipped(m) ==
  LET g == Migration(m) IN Cardinality(g.looksFor \cap schema) >= g.enough

-----------------------------------------------------------------------------
(* A new database, or one of the release before the first versioned        *)
(* migration: its executions refer to a user and its apps have no           *)
(* updated_at.                                                              *)
LegacyTables ==
  {"users", "sessions", "apps", "commands", "executions", "audit_logs"}

MigrationsInit ==
  /\ schema \in {{}, LegacyTables}
  /\ recorded = {}
  /\ phase = "down" /\ at = 0 /\ line = 0 /\ failing = FALSE

BeginMigrations ==
  /\ phase = "down"
  /\ phase' = "migrating" /\ at' = 0 /\ line' = 0
  /\ UNCHANGED <<schema, recorded, failing>>

(* runVersionedMigrations returns: the server serves.                      *)
EndMigrations(known) ==
  /\ phase = "migrating" /\ at > known
  /\ phase' = "up" /\ failing' = FALSE /\ at' = 0 /\ line' = 0
  /\ UNCHANGED <<schema, recorded>>

(* A versioned migration that ran before is passed over.                   *)
PassOver(known) ==
  /\ phase = "migrating" /\ at \in 1..known /\ line = 0
  /\ HasMigrationRun(at)
  /\ at' = at + 1
  /\ UNCHANGED <<schema, recorded, phase, line, failing>>

(* The next statement of a migration.  The guard is looked at once, before *)
(* the first statement.                                                     *)
Execute(known) ==
  LET does == Migration(at).does IN
  /\ phase = "migrating" /\ at <= known /\ line < Len(does)
  /\ ~HasMigrationRun(at)
  /\ line = 0 => ~Skipped(at)
  /\ LET s == does[line + 1] IN
     IF s.bare /\ s.piece \in schema
     THEN /\ phase' = "down" /\ failing' = TRUE /\ at' = 0 /\ line' = 0
          /\ UNCHANGED schema
     ELSE /\ schema' = schema \cup
               (IF s.piece \in schema THEN {} ELSE {s.piece} \cup s.others)
          /\ line' = line + 1
          /\ UNCHANGED <<phase, at, failing>>
  /\ UNCHANGED recorded

\* Mutant of RecordMigration: the record is made after the first statement.
MutRecordEarly(known) ==
  /\ phase = "migrating" /\ at <= known /\ ~HasMigrationRun(at)
  /\ line >= 1 \/ Skipped(at)
  /\ recorded' = (recorded \cup {at}) \ {0} /\ at' = at + 1 /\ line' = 0
  /\ UNCHANGED <<schema, phase, failing>>

(* recordMigration, after the last statement or when there is nothing to   *)
(* do; the list of the first release is not recorded.                      *)
RecordMigration(known) ==
  /\ phase = "migrating" /\ at <= known
  /\ ~HasMigrationRun(at)
  /\ line = Len(Migration(at).does) \/ (line = 0 /\ Skipped(at))
  /\ recorded' = IF at = 0 THEN recorded ELSE recorded \cup {at}
  /\ at' = at + 1 /\ line' = 0
  /\ UNCHANGED <<schema, phase, failing>>

RunMigrations(known) ==
  \/ EndMigrations(known) \/ PassOver(known)
  \/ Execute(known) \/ RecordMigration(known)

(* The process ends, between two statements or while it serves.            *)
EndProcess ==
  /\ phase' = "down" /\ at' = 0 /\ line' = 0
  /\ UNCHANGED <<schema, recorded, failing>>

-----------------------------------------------------------------------------
(* The types of the variables.                                             *)
MigrationsTypeOK ==
  /\ schema \subseteq LegacyTables \cup {"executions.no_user_fk",
       "apps.updated_at", "users.totp_enabled", "users.backup_codes"} \cup UNION {Pieces(m) : m \in 1..Len(Plan)}
  /\ recorded \subseteq 1..Len(Plan)
  /\ phase \in {"down", "migrating", "up"}
  /\ at \in 0..Len(Plan) + 1
  /\ line \in 0..7
  /\ failing \in BOOLEAN

(* A recorded migration has all its tables and columns in the database,    *)
(* whatever crashed when: runVersionedMigrations never runs it again, so a  *)
(* piece missing then would be missing for good.                            *)
RecordedIsApplied == \A m \in recorded : Pieces(m) \subseteq schema

(* The process ended between two ALTERs that no transaction holds together, *)
(* or between the last of them and its record: the session binding (two     *)
(* columns, guarded by both) or the swap columns (no guard).                *)
Halfway ==
  \/ 5 \notin recorded /\ Cardinality(Pieces(5) \cap schema) = 1
  \/ 10 \notin recorded /\ Pieces(10) \cap schema # {}

(* A start refuses a database only there: every other migration may be     *)
(* interrupted anywhere and is done again.                                  *)
FailsOnlyHalfway == failing => Halfway
=============================================================================
