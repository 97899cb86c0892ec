------------------------------ MODULE ReleaseProofs ------------------------------
(***************************************************************************)
(* What a database is left with by starts that are interrupted anywhere, of *)
(* builds that know any number of the migrations; and what upgrades and     *)
(* rollbacks leave in the directory of the binary when a crash ends one of  *)
(* them anywhere, any of their file operations fail, or two of them overlap: *)
(* for every number of requests, builds, backups kept and crashes.          *)
(***************************************************************************)
EXTENDS Release, FiniteSetTheorems, TLAPS

Last == 10      \* the number of versioned migrations

Ip == "sessions.ip_address"
Hash == "sessions.user_agent_hash"
FirstSwap == "system_metrics.swap_percent"

\* The statements before line have made their pieces.
DoneTo(m, n) == \A i \in 1..n : Migration(m).does[i].piece \in schema

PlaceInv ==
  /\ recorded \subseteq 1..Last
  /\ at \in 0..(Last + 1)
  /\ line \in Nat
  /\ line > 0 => at \notin recorded
  /\ at = Last + 1 => line = 0
  /\ at <= Last => line <= Len(Migration(at).does) /\ DoneTo(at, line)

\* The ALTERs of one migration are executed in order, from none of them.
OrderInv ==
  /\ Hash \in schema => Ip \in schema
  /\ Pieces(10) \cap schema # {} => FirstSwap \in schema
  /\ at = 5 /\ line = 1 => Hash \notin schema

\* A start that comes after a failed one meets the failing ALTER first.
Half5 == /\ 5 \notin recorded /\ Ip \in schema /\ Hash \notin schema
         /\ at <= 5 /\ (at = 5 => line = 0)
Half10 == /\ 10 \notin recorded /\ Pieces(10) \cap schema # {}
          /\ at <= 10 /\ (at = 10 => line = 0)

MigrationInv ==
  PlaceInv /\ RecordedIsApplied /\ OrderInv /\ (failing => Half5 \/ Half10)

LEMMA PlanLength == Len(Plan) = Last
BY DEF Plan, Last

LEMMA Cardinalities ==
  /\ Cardinality({}) = 0
  /\ \A p : Cardinality({p} \cap schema) >= 1 => p \in schema
  /\ \A p, q : Cardinality({p, q} \cap schema) >= 2 => p \in schema /\ q \in schema
  /\ \A p, q : p # q /\ p \in schema /\ q \in schema => Cardinality({p, q} \cap schema) >= 2
  /\ \A p, q : p \in schema /\ q \notin schema => Cardinality({p, q} \cap schema) = 1
<1>0. Cardinality({}) = 0
  BY FS_EmptySet
<1>1. ASSUME NEW p, Cardinality({p} \cap schema) >= 1
      PROVE  p \in schema
  <2>1. CASE p \notin schema
    <3>1. {p} \cap schema = {} BY <2>1
    <3>2. QED BY <3>1, <1>1, <1>0
  <2>2. QED BY <2>1
<1>2. ASSUME NEW p, NEW q, Cardinality({p, q} \cap schema) >= 2
      PROVE  p \in schema /\ q \in schema
  <2>1. ASSUME NEW x, {p, q} \cap schema \subseteq {x} PROVE FALSE
    <3>1. IsFiniteSet({x}) /\ Cardinality({x}) = 1
      BY FS_Singleton
    <3>2. Cardinality({p, q} \cap schema) <= 1
      BY <2>1, <3>1, FS_Subset
    <3>3. IsFiniteSet({p, q} \cap schema)
      BY <2>1, <3>1, FS_Subset
    <3>4. QED BY <3>2, <3>3, <1>2, FS_CardinalityType
  <2>2. QED BY <2>1
<1>3. ASSUME NEW p, NEW q, p # q, p \in schema, q \in schema
      PROVE  Cardinality({p, q} \cap schema) >= 2
  <2>1. {p, q} \cap schema = {p} \cup {q}
    BY <1>3
  <2>2. IsFiniteSet({p}) /\ Cardinality({p}) = 1
    BY FS_Singleton
  <2>3. Cardinality({p} \cup {q}) = 2
    BY <2>2, <1>3, FS_AddElement
  <2>4. QED BY <2>1, <2>3
<1>4. ASSUME NEW p, NEW q, p \in schema, q \notin schema
      PROVE  Cardinality({p, q} \cap schema) = 1
  <2>1. {p, q} \cap schema = {p}
    BY <1>4
  <2>2. QED BY <2>1, FS_Singleton
<1>5. QED BY <1>0, <1>1, <1>2, <1>3, <1>4

\* The guard of a migration passes over it only when its pieces are there.
LEMMA SkippedIsApplied ==
  ASSUME NEW m \in 0..Last, Skipped(m)
  PROVE  Pieces(m) \subseteq schema
<1>1. m \in 0..10
  BY DEF Last
<1>2. m \notin {0, 4, 6, 9, 10}
  <2>1. Cardinality({}) = 0 BY Cardinalities
  <2>2. ASSUME m \in {0, 4, 6, 9, 10} PROVE Migration(m).looksFor = {} /\ Migration(m).enough = 1
    BY <2>2 DEF Migration, Plan, Guarded, Unguarded, BaseTables,
       AddLoginAttemptsTable, AddPasswordHistoryTable, AddSystemMetricsTables,
       AddSwapToMetricsTables
  <2>3. {} \cap schema = {}
    OBVIOUS
  <2>4. ASSUME m \in {0, 4, 6, 9, 10} PROVE FALSE
    <3>1. Cardinality({} \cap schema) >= 1
      BY <2>2, <2>4 DEF Skipped
    <3>2. QED BY <3>1, <2>1, <2>3
  <2>5. QED BY <2>4
<1>3. ASSUME NEW p, m \in {1, 2, 7, 8}, Migration(m).looksFor = {p},
             Migration(m).enough = 1, Pieces(m) = {p}
      PROVE  Pieces(m) \subseteq schema
  BY <1>3, Cardinalities DEF Skipped
<1>4. CASE m = 1
  <2>1. Pieces(1) = {"executions.no_user_fk"} /\ Migration(1).looksFor = {"executions.no_user_fk"}
        /\ Migration(1).enough = 1
    BY DEF Pieces, Migration, Plan, Guarded, MigrateExecutionsTable, Create
  <2>2. QED BY <1>3, <1>4, <2>1
<1>5. CASE m = 2
  <2>1. Pieces(2) = {"apps.updated_at"} /\ Migration(2).looksFor = {"apps.updated_at"}
        /\ Migration(2).enough = 1
    BY DEF Pieces, Migration, Plan, Guarded, AddAppsUpdatedAtColumn, Create
  <2>2. QED BY <1>3, <1>5, <2>1
<1>6. CASE m = 7
  <2>1. Pieces(7) = {"users.role"} /\ Migration(7).looksFor = {"users.role"}
        /\ Migration(7).enough = 1
    BY DEF Pieces, Migration, Plan, Guarded, AddRoleToUsers, Create
  <2>2. QED BY <1>3, <1>6, <2>1
<1>7. CASE m = 8
  <2>1. Pieces(8) = {"commands.sort_order"} /\ Migration(8).looksFor = {"commands.sort_order"}
        /\ Migration(8).enough = 1
    BY DEF Pieces, Migration, Plan, Guarded, AddSortOrderToCommands, Create
  <2>2. QED BY <1>3, <1>7, <2>1
<1>8. CASE m = 3
  <2>1. Pieces(3) = {"users.totp_secret"} /\ Migration(3).enough = 2
        /\ Migration(3).looksFor = {"users.totp_secret", "users.totp_enabled"}
    BY DEF Pieces, Migration, Plan, Guarded, Add2FAToUsers, Create
  <2>2. "users.totp_secret" \in schema
    BY <1>8, <2>1, Cardinalities DEF Skipped
  <2>3. QED BY <1>8, <2>1, <2>2
<1>9. CASE m = 5
  <2>1. Pieces(5) = {Ip, Hash} /\ Migration(5).enough = 2 /\ Migration(5).looksFor = {Ip, Hash}
    BY DEF Pieces, Migration, Plan, Guarded, AddSessionBindingColumns, Alter, Ip, Hash
  <2>2. Ip \in schema /\ Hash \in schema
    BY <1>9, <2>1, Cardinalities DEF Skipped
  <2>3. QED BY <1>9, <2>1, <2>2
<1>10. QED
  BY <1>1, <1>2, <1>4, <1>5, <1>6, <1>7, <1>8, <1>9

Adds(s) == {s.piece} \cup s.others

\* The statements of a migration create only its own pieces, and only those
\* of the fifth and the tenth are bare.
Confined(m) ==
  \A i \in 1..Len(Migration(m).does) :
     LET s == Migration(m).does[i] IN
     /\ m # 5 => Ip \notin Adds(s) /\ Hash \notin Adds(s)
     /\ m # 10 => Pieces(10) \cap Adds(s) = {}
     /\ s.bare => m \in {5, 10}

LEMMA SwapPieces ==
  Pieces(10) = {FirstSwap, "system_metrics.swap_used", "system_metrics.swap_total",
                "system_metrics_hourly.swap_avg", "system_metrics_hourly.swap_max",
                "system_metrics_daily.swap_avg", "system_metrics_daily.swap_max"}
<1>1. Migration(10) = AddSwapToMetricsTables
  BY DEF Migration, Plan
<1> DEFINE d == Migration(10).does
<1>2. Len(d) = 7 /\ d[1].piece = FirstSwap
      /\ d[2].piece = "system_metrics.swap_used" /\ d[3].piece = "system_metrics.swap_total"
      /\ d[4].piece = "system_metrics_hourly.swap_avg"
      /\ d[5].piece = "system_metrics_hourly.swap_max"
      /\ d[6].piece = "system_metrics_daily.swap_avg"
      /\ d[7].piece = "system_metrics_daily.swap_max"
  BY <1>1 DEF AddSwapToMetricsTables, Unguarded, Guarded, Alter, FirstSwap
<1>3. Pieces(10) = {d[i].piece : i \in 1..7}
  BY <1>2 DEF Pieces
<1>4. 1..7 = {1, 2, 3, 4, 5, 6, 7}
  OBVIOUS
<1> HIDE DEF d
<1>5. QED BY <1>2, <1>3, <1>4

LEMMA Statements ==
  ASSUME NEW m \in 0..Last
  PROVE  /\ Len(Migration(m).does) \in Nat \ {0}
         /\ Confined(m)
<1> DEFINE d == Migration(m).does
\* A creates-if-missing statement of another table or column.
<1> DEFINE Plain(s) == /\ s.bare = FALSE
                       /\ Ip \notin Adds(s) /\ Hash \notin Adds(s)
                       /\ Pieces(10) \cap Adds(s) = {}
<1>a. ASSUME NEW n \in Nat \ {0}, Len(d) = n, \A i \in 1..n : Plain(d[i])
      PROVE  Len(Migration(m).does) \in Nat \ {0} /\ Confined(m)
  BY <1>a DEF Confined
<1> USE SwapPieces DEF Adds, Migration, Plan, Guarded, Unguarded, Create, Ip, Hash, FirstSwap
<1>0. CASE m = 0
  <2>1. Len(d) = 6 /\ 1..6 = {1, 2, 3, 4, 5, 6} BY <1>0 DEF BaseTables
  <2>2. Plain(d[1]) /\ Plain(d[2]) /\ Plain(d[3]) BY <1>0 DEF BaseTables
  <2>3. Plain(d[4]) /\ Plain(d[5]) /\ Plain(d[6]) BY <1>0 DEF BaseTables
  <2> HIDE DEF d, Plain, Migration
  <2>4. QED BY <1>a, <2>1, <2>2, <2>3
<1>1. CASE m = 1
  <2>1. Len(d) = 1 /\ 1..1 = {1} /\ Plain(d[1]) BY <1>1 DEF MigrateExecutionsTable
  <2> HIDE DEF d, Plain, Migration
  <2>2. QED BY <1>a, <2>1
<1>2. CASE m = 2
  <2>1. Len(d) = 1 /\ 1..1 = {1} /\ Plain(d[1]) BY <1>2 DEF AddAppsUpdatedAtColumn
  <2> HIDE DEF d, Plain, Migration
  <2>2. QED BY <1>a, <2>1
<1>3. CASE m = 3
  <2>1. Len(d) = 1 /\ 1..1 = {1} /\ Plain(d[1]) BY <1>3 DEF Add2FAToUsers
  <2> HIDE DEF d, Plain, Migration
  <2>2. QED BY <1>a, <2>1
<1>4. CASE m = 4
  <2>1. Len(d) = 1 /\ 1..1 = {1} /\ Plain(d[1]) BY <1>4 DEF AddLoginAttemptsTable
  <2> HIDE DEF d, Plain, Migration
  <2>2. QED BY <1>a, <2>1
<1>5. CASE m = 5
  <2>1. Len(d) = 2 /\ 1..2 = {1, 2} BY <1>5 DEF AddSessionBindingColumns
  <2>2. Pieces(10) \cap Adds(d[1]) = {} /\ Pieces(10) \cap Adds(d[2]) = {}
    BY <1>5 DEF AddSessionBindingColumns, Alter
  <2> HIDE DEF d, Adds, Migration
  <2>3. QED BY <1>5, <2>1, <2>2 DEF Confined, d
<1>6. CASE m = 6
  <2>1. Len(d) = 1 /\ 1..1 = {1} /\ Plain(d[1]) BY <1>6 DEF AddPasswordHistoryTable
  <2> HIDE DEF d, Plain, Migration
  <2>2. QED BY <1>a, <2>1
<1>7. CASE m = 7
  <2>1. Len(d) = 1 /\ 1..1 = {1} /\ Plain(d[1]) BY <1>7 DEF AddRoleToUsers
  <2> HIDE DEF d, Plain, Migration
  <2>2. QED BY <1>a, <2>1
<1>8. CASE m = 8
  <2>1. Len(d) = 1 /\ 1..1 = {1} /\ Plain(d[1]) BY <1>8 DEF AddSortOrderToCommands
  <2> HIDE DEF d, Plain, Migration
  <2>2. QED BY <1>a, <2>1
<1>9. CASE m = 9
  <2>1. Len(d) = 4 /\ 1..4 = {1, 2, 3, 4} BY <1>9 DEF AddSystemMetricsTables
  <2>2. Plain(d[1]) /\ Plain(d[2]) BY <1>9 DEF AddSystemMetricsTables
  <2>3. Plain(d[3]) /\ Plain(d[4]) BY <1>9 DEF AddSystemMetricsTables
  <2> HIDE DEF d, Plain, Migration
  <2>4. QED BY <1>a, <2>1, <2>2, <2>3
<1>10. CASE m = 10
  <2> DEFINE Other(s) == Ip \notin Adds(s) /\ Hash \notin Adds(s)
  <2>1. Len(d) = 7 /\ 1..7 = {1, 2, 3, 4, 5, 6, 7}
    BY <1>10 DEF AddSwapToMetricsTables
  <2>2. Other(d[1]) /\ Other(d[2]) /\ Other(d[3])
    BY <1>10 DEF AddSwapToMetricsTables, Alter
  <2>3. Other(d[4]) /\ Other(d[5]) /\ Other(d[6]) /\ Other(d[7])
    BY <1>10 DEF AddSwapToMetricsTables, Alter
  <2> HIDE DEF d, Adds, Migration
  <2>4. QED BY <1>10, <2>1, <2>2, <2>3 DEF Confined, d
<1> HIDE DEF d, Plain, Adds, Migration, Plan
<1>11. QED
  BY <1>0, <1>1, <1>2, <1>3, <1>4, <1>5, <1>6, <1>7, <1>8, <1>9, <1>10 DEF Last, d

LEMMA TwoAlters ==
  /\ Len(Migration(5).does) = 2
  /\ Migration(5).does[1].piece = Ip /\ Migration(5).does[1].others = {}
  /\ Migration(5).does[2].piece = Hash /\ Migration(5).does[2].others = {}
  /\ Pieces(5) = {Ip, Hash}
  /\ Skipped(5) <=> Cardinality({Ip, Hash} \cap schema) >= 2
<1>1. Migration(5) = AddSessionBindingColumns
  BY DEF Migration, Plan
<1> DEFINE d == Migration(5).does
<1>2. /\ Len(d) = 2
      /\ d[1].piece = Ip /\ d[1].others = {} /\ d[2].piece = Hash /\ d[2].others = {}
  BY <1>1 DEF AddSessionBindingColumns, Guarded, Alter, Ip, Hash
<1>3. Migration(5).looksFor = {Ip, Hash} /\ Migration(5).enough = 2
  BY <1>1 DEF AddSessionBindingColumns, Guarded, Ip, Hash
<1>4. 1..2 = {1, 2}
  OBVIOUS
<1>5. Pieces(5) = {d[i].piece : i \in 1..2}
  BY <1>2 DEF Pieces
<1> HIDE DEF d
<1>6. Pieces(5) = {Ip, Hash}
  BY <1>2, <1>4, <1>5
<1>7. QED BY <1>2, <1>3, <1>6 DEF d, Skipped

LEMMA SevenAlters ==
  /\ Len(Migration(10).does) = 7
  /\ Migration(10).does[1].piece = FirstSwap
  /\ ~Skipped(10)
<1>1. Migration(10) = AddSwapToMetricsTables
  BY DEF Migration, Plan
<1>2. {} \cap schema = {} /\ Cardinality({}) = 0
  BY Cardinalities
<1>3. ~(Cardinality({} \cap schema) >= 1)
  BY <1>2
<1>4. Migration(10).looksFor = {} /\ Migration(10).enough = 1
  BY <1>1 DEF AddSwapToMetricsTables, Unguarded, Guarded
<1>5. ~Skipped(10)
  BY <1>3, <1>4 DEF Skipped
<1>6. QED
  BY <1>1, <1>5 DEF AddSwapToMetricsTables, Unguarded, Guarded, Alter, FirstSwap
-----------------------------------------------------------------------------
\* What a process leaves and a new one begins with: no migration is at work.
LEMMA FromTheStart ==
  ASSUME MigrationInv, UNCHANGED <<schema, recorded>>, at' = 0, line' = 0,
         failing' = failing
  PROVE  MigrationInv'
<1> USE DEF MigrationInv
<1>1. Len(Migration(0).does) \in Nat \ {0}
  BY Statements DEF Last
<1>2. PlaceInv'
  BY <1>1 DEF PlaceInv, DoneTo, Last
<1>3. RecordedIsApplied' /\ OrderInv'
  BY DEF RecordedIsApplied, OrderInv
<1>4. (failing => Half5 \/ Half10)'
  BY DEF Half5, Half10
<1>5. QED BY <1>2, <1>3, <1>4

LEMMA EndKeeps ==
  ASSUME NEW known \in 0..Last, MigrationInv, EndMigrations(known)
  PROVE  MigrationInv'
<1> USE DEF MigrationInv, EndMigrations
<1>1. Len(Migration(0).does) \in Nat \ {0}
  BY Statements DEF Last
<1>2. PlaceInv'
  BY <1>1 DEF PlaceInv, DoneTo, Last
<1>3. RecordedIsApplied' /\ OrderInv'
  BY DEF RecordedIsApplied, OrderInv
<1>4. QED BY <1>2, <1>3

LEMMA PassOverKeeps ==
  ASSUME NEW known \in 0..Last, MigrationInv, PassOver(known)
  PROVE  MigrationInv'
<1> USE DEF MigrationInv, PassOver, HasMigrationRun
<1>1. at \in 1..Last /\ at' = at + 1 /\ line' = 0
  BY DEF Last
<1>2. PlaceInv'
  <2>1. CASE at' = Last + 1
    BY <1>1, <2>1 DEF PlaceInv, Last
  <2>2. CASE at' \in 0..Last
    <3>1. Len(Migration(at').does) \in Nat \ {0}
      BY <2>2, Statements
    <3>2. QED BY <1>1, <2>2, <3>1 DEF PlaceInv, DoneTo, Last
  <2>3. QED BY <1>1, <2>1, <2>2 DEF Last
<1>3. RecordedIsApplied' /\ OrderInv'
  BY DEF RecordedIsApplied, OrderInv
<1>4. (failing => Half5 \/ Half10)'
  BY <1>1 DEF Half5, Half10
<1>5. QED BY <1>2, <1>3, <1>4

LEMMA RecordKeeps ==
  ASSUME NEW known \in 0..Last, MigrationInv, RecordMigration(known)
  PROVE  MigrationInv'
<1> USE DEF MigrationInv, RecordMigration, HasMigrationRun
<1>1. at \in 0..Last /\ at' = at + 1 /\ line' = 0 /\ at \notin recorded
  BY DEF Last, PlaceInv
<1>2. Pieces(at) \subseteq schema
  <2>1. CASE Skipped(at)
    BY <1>1, <2>1, SkippedIsApplied
  <2>2. CASE line = Len(Migration(at).does)
    BY <1>1, <2>2 DEF PlaceInv, DoneTo, Pieces
  <2>3. QED BY <2>1, <2>2
<1>3. PlaceInv'
  <2>1. CASE at' = Last + 1
    BY <1>1, <2>1 DEF PlaceInv, Last
  <2>2. CASE at' \in 0..Last
    <3>1. Len(Migration(at').does) \in Nat \ {0}
      BY <2>2, Statements
    <3>2. QED BY <1>1, <2>2, <3>1 DEF PlaceInv, DoneTo, Last
  <2>3. QED BY <1>1, <2>1, <2>2 DEF Last
<1>4. RecordedIsApplied'
  <2>1. \A m \in recorded' : Pieces(m) \subseteq schema
    BY <1>2 DEF RecordedIsApplied
  <2>2. QED BY <2>1 DEF RecordedIsApplied
<1>5. OrderInv'
  BY <1>1 DEF OrderInv
<1>6. ~(Half5 /\ at = 5)
  BY <1>2, TwoAlters DEF Half5
<1>7. ~(Half10 /\ at = 10)
  BY SevenAlters DEF Half10
<1>8. (failing => Half5 \/ Half10)'
  BY <1>1, <1>6, <1>7 DEF Half5, Half10
<1>9. QED BY <1>3, <1>4, <1>5, <1>8

LEMMA ExecuteKeeps ==
  ASSUME NEW known \in 0..Last, MigrationInv, Execute(known)
  PROVE  MigrationInv'
<1> DEFINE does == Migration(at).does
           s == does[line + 1]
<1>1. /\ at \in 0..Last /\ at \notin recorded /\ line \in Nat /\ line + 1 \in 1..Len(does)
      /\ line = 0 => ~Skipped(at)
  <2>1. at \in 0..Last
    BY DEF MigrationInv, PlaceInv, Execute, Last
  <2>2. Len(does) \in Nat
    BY <2>1, Statements
  <2>3. QED BY <2>1, <2>2 DEF MigrationInv, PlaceInv, Execute, HasMigrationRun
<1>2. /\ at # 5 => Ip \notin Adds(s) /\ Hash \notin Adds(s)
      /\ at # 10 => Pieces(10) \cap Adds(s) = {}
      /\ s.bare => at \in {5, 10}
  BY <1>1, Statements DEF Confined
<1>3. at = 5 => line \in {0, 1} /\ does = Migration(5).does
  <2>1. SUFFICES ASSUME at = 5 PROVE line \in {0, 1} /\ does = Migration(5).does
    OBVIOUS
  <2>2. does = Migration(5).does
    BY <2>1
  <2>3. line \in Nat /\ line + 1 \in 1..Len(Migration(5).does)
    BY <1>1, <2>1
  <2>4. Len(Migration(5).does) = 2
    BY TwoAlters
  <2>5. line + 1 \in 1..2
    BY <2>3, <2>4
  <2>6. QED BY <2>2, <2>3, <2>5
<1>4. CASE s.bare /\ s.piece \in schema
  <2>1. schema' = schema /\ recorded' = recorded /\ at' = 0 /\ line' = 0 /\ failing'
    BY <1>4 DEF Execute
  <2>2. PlaceInv'
    <3>1. Len(Migration(0).does) \in Nat \ {0}
      BY Statements DEF Last
    <3>2. QED BY <2>1, <3>1 DEF MigrationInv, PlaceInv, DoneTo, Last
  <2>3. RecordedIsApplied' /\ OrderInv'
    BY <2>1 DEF MigrationInv, RecordedIsApplied, OrderInv
  <2>4. CASE at = 5
    <3>1. line = 0
      BY <1>3, <1>4, <2>4, TwoAlters DEF MigrationInv, OrderInv
    <3>2. Ip \in schema
      BY <1>3, <1>4, <2>4, <3>1, TwoAlters
    <3>3. Ip # Hash /\ ~(Cardinality({Ip, Hash} \cap schema) >= 2)
      BY <1>1, <2>4, <3>1, TwoAlters DEF Ip, Hash
    <3>4. Hash \notin schema
      BY <3>2, <3>3, Cardinalities
    <3>5. Half5'
      BY <1>1, <2>1, <2>4, <3>2, <3>4 DEF Half5
    <3>6. QED BY <2>2, <2>3, <3>5 DEF MigrationInv
  <2>5. CASE at = 10
    <3>1. s.piece \in Pieces(10)
      BY <1>1, <2>5 DEF Pieces
    <3>2. Half10'
      BY <1>1, <1>4, <2>1, <2>5, <3>1 DEF Half10
    <3>3. QED BY <2>2, <2>3, <3>2 DEF MigrationInv
  <2>6. QED BY <1>2, <1>4, <2>4, <2>5
<1>5. CASE ~(s.bare /\ s.piece \in schema)
  <2>1. /\ recorded' = recorded /\ at' = at /\ line' = line + 1 /\ failing' = failing
        /\ schema \subseteq schema' /\ s.piece \in schema'
        /\ schema' \subseteq schema \cup Adds(s)
    BY <1>5 DEF Execute, Adds
  <2>2. PlaceInv'
    <3>1. DoneTo(at, line)'
      <4>1. \A i \in 1..line : Migration(at).does[i].piece \in schema
        BY <1>1 DEF MigrationInv, PlaceInv, DoneTo, Last
      <4>2. \A i \in 1..(line + 1) : Migration(at).does[i].piece \in schema'
        <5>1. TAKE i \in 1..(line + 1)
        <5>2. i \in 1..line \/ i = line + 1
          BY <1>1
        <5>3. QED BY <2>1, <4>1, <5>2
      <4>3. QED BY <2>1, <4>2 DEF DoneTo
    <3>2. QED BY <1>1, <2>1, <3>1 DEF MigrationInv, PlaceInv, DoneTo, Last
  <2>3. RecordedIsApplied'
    BY <2>1 DEF MigrationInv, RecordedIsApplied
  <2>4. (Hash \in schema => Ip \in schema)'
    <3>1. CASE at = 5 /\ line = 0
      BY <1>3, <2>1, <3>1, TwoAlters
    <3>2. CASE at = 5 /\ line = 1
      <4>1. Ip \in schema
        BY <1>1, <1>3, <3>2, TwoAlters DEF MigrationInv, PlaceInv, DoneTo
      <4>2. QED BY <2>1, <4>1
    <3>3. CASE at # 5
      BY <1>2, <2>1, <3>3 DEF MigrationInv, OrderInv
    <3>4. QED BY <1>3, <3>1, <3>2, <3>3
  <2>5. (Pieces(10) \cap schema # {} => FirstSwap \in schema)'
    <3>1. CASE at = 10 /\ line = 0
      BY <2>1, <3>1, SevenAlters
    <3>2. CASE at = 10 /\ line # 0
      <4>1. FirstSwap \in schema
        BY <1>1, <3>2, SevenAlters DEF MigrationInv, PlaceInv, DoneTo
      <4>2. QED BY <2>1, <4>1
    <3>3. CASE at # 10
      BY <1>2, <2>1, <3>3 DEF MigrationInv, OrderInv
    <3>4. QED BY <3>1, <3>2, <3>3
  <2>6. (at = 5 /\ line = 1 => Hash \notin schema)'
    <3>1. SUFFICES ASSUME at = 5, line = 0 PROVE Hash \notin schema'
      BY <1>1, <2>1
    <3>2. s.piece = Ip /\ s.others = {} /\ s.bare /\ Ip # Hash
      <4>1. Migration(5).does[1].bare
        BY DEF Migration, Plan, AddSessionBindingColumns, Guarded, Alter
      <4>2. QED BY <1>3, <3>1, <4>1, TwoAlters DEF Ip, Hash
    <3>3. Ip \notin schema
      BY <1>5, <3>2
    <3>4. QED BY <2>1, <3>2, <3>3 DEF MigrationInv, OrderInv, Adds
  <2>7. (failing => Half5 \/ Half10)'
    <3>1. ~(Half5 /\ at = 5)
      <4>1. SUFFICES ASSUME Half5, at = 5 PROVE FALSE
        OBVIOUS
      <4>2. line = 0 /\ s.piece = Ip /\ s.bare
        <5>1. Migration(5).does[1].bare
          BY DEF Migration, Plan, AddSessionBindingColumns, Guarded, Alter
        <5>2. QED BY <1>3, <4>1, <5>1, TwoAlters DEF Half5
      <4>3. QED BY <1>5, <4>1, <4>2 DEF Half5
    <3>2. ~(Half10 /\ at = 10)
      <4>1. SUFFICES ASSUME Half10, at = 10 PROVE FALSE
        OBVIOUS
      <4>2. line = 0 /\ s.piece = FirstSwap /\ s.bare
        <5>1. Migration(10).does[1].bare
          BY DEF Migration, Plan, AddSwapToMetricsTables, Unguarded, Guarded, Alter
        <5>2. QED BY <4>1, <5>1, SevenAlters DEF Half10
      <4>3. QED BY <1>5, <4>1, <4>2 DEF MigrationInv, OrderInv, Half10
    <3>3. Half5 => Half5'
      BY <1>1, <1>2, <2>1, <3>1 DEF Half5
    <3>4. Half10 => Half10'
      BY <1>1, <2>1, <3>2 DEF Half10
    <3>5. QED BY <2>1, <3>3, <3>4 DEF MigrationInv
  <2>8. QED BY <2>2, <2>3, <2>4, <2>5, <2>6, <2>7 DEF MigrationInv, OrderInv
<1>6. QED BY <1>4, <1>5

-----------------------------------------------------------------------------
LEMMA MigrationInductive == Spec => []MigrationInv
<1>1. Init => MigrationInv
  <2>1. Init => PlaceInv /\ RecordedIsApplied
    <3>1. Len(Migration(0).does) \in Nat \ {0}
      BY Statements DEF Last
    <3>2. QED BY <3>1 DEF Init, MigrationsInit, PlaceInv, DoneTo, RecordedIsApplied, Last
  <2>2. Init => OrderInv
    BY SwapPieces DEF Init, MigrationsInit, OrderInv, LegacyTables, Hash, Ip, FirstSwap
  <2>3. Init => ~failing
    BY DEF Init, MigrationsInit
  <2>4. QED BY <2>1, <2>2, <2>3 DEF MigrationInv
<1>2. MigrationInv /\ [Next]_vars => MigrationInv'
  <2> SUFFICES ASSUME MigrationInv, [Next]_vars PROVE MigrationInv'
    OBVIOUS
  <2>1. ASSUME UNCHANGED migrationVars PROVE MigrationInv'
    BY <2>1 DEF migrationVars, MigrationInv, PlaceInv, DoneTo, RecordedIsApplied,
       OrderInv, Half5, Half10
  <2>2. ASSUME NEW A, Upgrading(A) PROVE MigrationInv'
    BY <2>1, <2>2 DEF Upgrading
  <2>3. CASE SystemdStart
    BY <2>3, FromTheStart DEF SystemdStart, BeginMigrations
  <2>4. CASE Migrate
    <3>1. PICK b \in 1..Builds : RunMigrations(Known[b])
      BY <2>4 DEF Migrate
    <3>2. Known[b] \in 0..Last
      BY ReleaseAssumption, PlanLength
    <3>3. QED
      BY <3>1, <3>2, EndKeeps, PassOverKeeps, ExecuteKeeps, RecordKeeps DEF RunMigrations
  <2>5. CASE SystemRestart
    BY <2>5, FromTheStart DEF SystemRestart, EndProcess
  <2>6. CASE Crash
    BY <2>1, <2>6, FromTheStart DEF Crash, EndProcess
  <2>7. CASE UNCHANGED vars
    BY <2>1, <2>7 DEF vars
  <2>8. ASSUME NEW r \in Requests, Request(r) PROVE MigrationInv'
    BY <2>1, <2>8 DEF Request, Upgrading
  <2>9. ASSUME NEW r \in Requests, Upgrading(RequestStep(r)) PROVE MigrationInv'
    BY <2>1, <2>9 DEF Upgrading
  <2>10. CASE Upgrading(Publish) \/ Upgrading(Tick)
    BY <2>1, <2>10 DEF Upgrading
  <2>11. QED
    BY <2>3, <2>4, <2>5, <2>6, <2>7, <2>8, <2>9, <2>10 DEF Next
<1>3. QED BY <1>1, <1>2, PTL DEF Spec

(* For every number of builds, of migrations each of them knows, of         *)
(* requests and of crashes: what runVersionedMigrations has recorded is in   *)
(* the database whole, wherever a process was ended.                        *)
THEOREM RecordedStaysApplied == Spec => []RecordedIsApplied
<1>1. MigrationInv => RecordedIsApplied
  BY DEF MigrationInv
<1>2. QED BY <1>1, MigrationInductive, PTL

(* For all of them, too: only the session binding and the swap columns,     *)
(* which are added by several ALTERs outside a transaction, can keep a      *)
(* server from starting, and only when a process ended in their middle.     *)
THEOREM FailsOnlyThere == Spec => []FailsOnlyHalfway
<1>1. MigrationInv => FailsOnlyHalfway
  <2> SUFFICES ASSUME MigrationInv, failing PROVE FailsOnlyHalfway
    BY DEF FailsOnlyHalfway
  <2>1. CASE Half5
    BY <2>1, TwoAlters, Cardinalities DEF FailsOnlyHalfway, Halfway, Half5
  <2>2. CASE Half10
    BY <2>2 DEF FailsOnlyHalfway, Halfway, Half10
  <2>3. QED BY <2>1, <2>2 DEF MigrationInv
<1>2. QED BY <1>1, MigrationInductive, PTL

-------------------------------------------------------------------------------
(* The files of the upgrades.  What follows is about behaviours in which no *)
(* two requests overlap: one request at most is at work.                    *)

NoOverlap == "overlap" \notin mishaps
Good == Exists(Exec) /\ Content(Exec).whole
Upg(r) == job[r].kind # "rollback"
Pcs == Resting \cup Window \cup {"stat", "download", "backup", "rotate", "remove"}
IsBackup(n) == \E l \in 0..Builds, t \in 0..now : n = Backup(l, t)
Names == {Exec} \cup {Backup(l, t) : l \in 0..Builds, t \in Nat}
Held == Files \cup {NoFile}
Jobs == [kind : {"none", "api", "command", "rollback"}, label : 0..Builds, want : Contents,
         target : Names, own : Names, source : Held, sink : Held, written : BOOLEAN]

Types ==
  /\ now \in Nat /\ running \in 0..Builds /\ latest \in 0..Builds
  /\ file \in [Files -> Contents]
  /\ \A n \in DOMAIN dir : dir[n] \in Files
  /\ \A n \in DOMAIN dir : \/ n = Exec \/ IsBackup(n)
                          \/ \E r \in Requests : n = Tmp(r) /\ dir[n] = <<r, "tmp">>
  /\ pc \in [Requests -> Pcs]
  /\ job \in [Requests -> Jobs]

\* r has not made its file k yet.
Unmade(r, k) ==
  \/ k = "tmp" /\ pc[r] \in {"idle", "download"}
  \/ k = "backup" /\ (pc[r] \in {"idle", "stat", "download"} \/ (pc[r] = "backup" /\ ~Opened(r)))
  \/ k = "place" /\ \/ pc[r] \in {"idle", "stat", "download", "backup"}
                    \/ pc[r] = "remove" /\ ~Upg(r)
                    \/ pc[r] = "place" /\ ~Opened(r)
  \/ k = "restore" /\ \/ pc[r] \in {"idle", "stat", "download", "backup", "remove", "rename", "place",
                                      "chmod"}
                      \/ pc[r] = "rotate" /\ Upg(r)
                      \/ pc[r] = "restore" /\ ~Opened(r)
MadeFiles == {"tmp", "backup", "place", "restore"}

\* One request at a time; no two names of one file.
One == \A r, q \in Requests : AtWork(r) /\ AtWork(q) => r = q
Injective == \A n, m \in DOMAIN dir : dir[n] = dir[m] => n = m
Fresh == \A r \in Requests : \A k \in MadeFiles : Unmade(r, k) =>
           file[<<r, k>>] = Truncated /\ \A n \in DOMAIN dir : dir[n] # <<r, k>>

\* What the request r that is at work holds: a copy in progress, ...
Kinds(r) ==
  /\ job[r].kind \in {"api", "command", "rollback"}
  /\ pc[r] \in {"stat", "place"} => ~Upg(r)
  /\ pc[r] \in {"download", "rename"} => Upg(r)
  /\ job[r].written => Opened(r)
  /\ Opened(r) => pc[r] \in CopySteps
Copying(r) ==
  Opened(r) =>
    /\ CopyFrom(r) \in DOMAIN dir /\ CopyTo(r) \in DOMAIN dir
    /\ job[r].source = dir[CopyFrom(r)] /\ job[r].sink = dir[CopyTo(r)]
    /\ Content(CopyTo(r)).whole = (job[r].written /\ Content(CopyFrom(r)).whole)
    /\ job[r].written => Content(CopyTo(r)).build = Content(CopyFrom(r)).build
\* ... its own backup, ...
Saving(r) ==
  IF pc[r] \in {"stat", "download"} \/ (pc[r] = "backup" /\ ~Opened(r))
  THEN job[r].own = Exec
  ELSE /\ job[r].own # Exec
       /\ pc[r] \in {"backup", "rotate", "place"} \/ ~Upg(r) => job[r].own \in DOMAIN dir
\* ... the download or the backup chosen, ...
Target(r) ==
  IF Upg(r)
  THEN /\ job[r].want.whole
       /\ pc[r] \in {"backup", "rotate", "remove", "rename"} =>
            /\ Tmp(r) \in DOMAIN dir /\ dir[Tmp(r)] = <<r, "tmp">>
            /\ Content(Tmp(r)).whole /\ Content(Tmp(r)).build = job[r].want.build
  ELSE pc[r] \in {"stat", "backup", "remove", "place"} =>
            /\ job[r].target \in DOMAIN dir /\ job[r].target # Exec
            /\ job[r].target # job[r].own => Content(job[r].target) = job[r].want
\* ... and the binary.
AsWanted(r) == Content(Exec).whole = job[r].want.whole /\ Content(Exec).build = job[r].want.build
Binary(r) ==
  /\ pc[r] \in {"rotate", "remove", "chmod"} => Exists(Exec)
  /\ pc[r] = "rename" \/ (pc[r] = "place" /\ ~Opened(r)) => ~Exists(Exec)
  /\ pc[r] \in {"place", "restore"} /\ Exists(Exec) => dir[Exec] \in {<<r, "place">>, <<r, "restore">>, <<r, "tmp">>}
  /\ pc[r] = "place" /\ Exists(Exec) => dir[Exec] = <<r, "place">>
  /\ pc[r] = "chmod" => dir[Exec] = <<r, IF Upg(r) THEN "tmp" ELSE "place">>
  /\ Upg(r) \/ job[r].target # job[r].own =>
       /\ pc[r] = "chmod" => AsWanted(r)
       /\ pc[r] = "rotate" /\ ~Upg(r) => AsWanted(r) /\ Content(Exec).runnable

Local(r) == IF AtWork(r) THEN Kinds(r) /\ Copying(r) /\ Saving(r) /\ Target(r) /\ Binary(r)
            ELSE job[r] = NoJob
Sequential == One /\ Injective /\ Fresh /\ \A r \in Requests : Local(r)
SeqInv == NoOverlap => Types /\ Sequential

-------------------------------------------------------------------------------
(* Between two requests at least a second apart, too: whether a whole build *)
(* is there, and whether the binary can be started.                         *)
NoLoss == ~Unrestored
Spares == {n \in DOMAIN dir : n # Exec /\ \A q \in Requests : AtWork(q) => n # Tmp(q)}
Spare == \E n \in Spares : Content(n).whole
Left == Good \/ Spare
Own(r) == Content(job[r].own)

\* The backup a request makes is a file of its own and the newest one; it
\* gives the file of a backup that it puts back its mode in the end.
Newest(r) ==
  job[r].own # Exec => /\ job[r].own \in DOMAIN dir
                       /\ \A n \in ListBackups : n # job[r].own => n[3] < job[r].own[3]
Work(r) == /\ Newest(r)
           /\ pc[r] = "backup" /\ Opened(r) => job[r].sink = <<r, "backup">>
           /\ ~Upg(r) => job[r].target # job[r].own
           /\ Upg(r) \/ pc[r] \notin {"chmod", "rotate"} => ~file[<<r, "place">>].runnable

\* Until r has its backup it touches nothing else; then the backup is whole,
\* and can be started when nothing was lost before.
Early == {"stat", "download", "backup"}
Sound(r) == IF pc[r] \in Early THEN Left /\ (Exists(Exec) => Good) ELSE Own(r).whole
Fit(r) == /\ pc[r] \in Early \cup {"rotate", "remove"} => ExecUsable
          /\ pc[r] \notin Early => Own(r).runnable

Order ==
  /\ \A r \in Requests : AtWork(r) => Work(r) /\ Sound(r)
  /\ Quiet => Left
  /\ NoLoss => Spoiled \/ ((Quiet => ExecUsable) /\ \A r \in Requests : AtWork(r) => Fit(r))
OrdInv == Orderly => Order

Kept == Types' /\ Sequential' /\ (Orderly /\ Orderly' /\ Order => Order')

-------------------------------------------------------------------------------
LEMMA NamesDiffer ==
  /\ \A r : Tmp(r) # Exec /\ Tmp(r)[1] = "tmp"
  /\ \A l, t : /\ Backup(l, t) # Exec /\ Backup(l, t)[1] = "backup" /\ Backup(l, t)[3] = t
  /\ \A r, l, t : Backup(l, t) # Tmp(r)
  /\ \A r, q : Tmp(r) = Tmp(q) => r = q
  /\ Exec[1] = "exec"
BY DEF Tmp, Exec, Backup

LEMMA FilesDiffer ==
  /\ \A r, k, q, j : <<r, k>> = <<q, j>> => r = q /\ k = j
  /\ \A r, k : <<"first">> # <<r, k>> /\ NoFile # <<r, k>>
  /\ NoFile \notin Files
  /\ \A r \in Requests, k \in MadeFiles : <<r, k>> \in Files
BY DEF NoFile, Files, MadeFiles

LEMMA Constants ==
  /\ Builds \in Nat /\ Truncated \in Contents /\ NoJob \in Jobs
  /\ NoJob.sink = NoFile /\ NoJob.kind = "none" /\ NoJob.own = Exec /\ ~NoJob.written
  /\ \A b \in 0..Builds : /\ Whole(b) \in Contents /\ Whole(b).whole
<1>1. Builds \in Nat /\ 0 \in 0..Builds
  BY UpgradeAssumption
<1>2. QED BY <1>1 DEF Truncated, Contents, NoJob, Jobs, Whole, Names, Held

LEMMA ModeSet ==
  ASSUME NEW c \in Contents, NEW v \in BOOLEAN
  PROVE  /\ [c EXCEPT !.runnable = v] \in Contents
         /\ [c EXCEPT !.runnable = v].whole = c.whole
         /\ [c EXCEPT !.runnable = v].build = c.build
         /\ [c EXCEPT !.runnable = v].runnable = v
BY DEF Contents

\* The records of a copy that begins, goes on and ends.
LEMMA CopyJobs ==
  ASSUME NEW j \in Jobs, NEW s \in Held, NEW g \in Held, NEW o \in Names
  PROVE  /\ [j EXCEPT !.source = s, !.sink = g, !.own = o] \in Jobs
         /\ [j EXCEPT !.source = s, !.sink = g] \in Jobs
         /\ [j EXCEPT !.source = s, !.sink = g, !.written = FALSE] \in Jobs
         /\ [j EXCEPT !.written = TRUE] \in Jobs
<1>1. PICK K, L, W : K = {"none", "api", "command", "rollback"} /\ L = 0..Builds /\ W = Contents
  OBVIOUS
<1>2. PICK X : X = BOOLEAN
  OBVIOUS
<1>3. TRUE \in X /\ FALSE \in X
  BY <1>2
<1>4. Jobs = [kind : K, label : L, want : W, target : Names, own : Names,
              source : Held, sink : Held, written : X]
  BY <1>1, <1>2 DEF Jobs
<1>5. QED BY <1>3, <1>4

LEMMA NoneHeld == NoFile \in Held /\ Exec \in Names
BY DEF Held, Names

LEMMA PcSteps ==
  /\ {"stat", "download", "backup", "rotate", "remove", "rename", "place", "chmod", "restore",
      "idle", "ok", "failed", "unrestored", "killed", "cut"} = Pcs
  /\ Resting = {"idle", "ok", "failed", "unrestored", "killed", "cut"}
  /\ Errors = {"failed", "unrestored"}
  /\ CopySteps = {"backup", "place", "restore"}
BY DEF Pcs, Resting, Errors, Window, CopySteps

\* The request goes on.
LEMMA GoesOn ==
  ASSUME Types, NEW r \in Requests, NEW d, NEW j,
         NEW p \in {"stat", "download", "backup", "rotate", "remove", "rename", "place", "chmod",
                    "restore"},
         Goto(r, p, d, j)
  PROVE  /\ pc'[r] = p /\ job'[r] = j /\ dir' = d /\ AtWork(r)' /\ p \in Pcs
         /\ \A q \in Requests : q # r => pc'[q] = pc[q] /\ job'[q] = job[q]
<1>1. p \in Pcs /\ p \notin Resting /\ p \notin Errors
  BY PcSteps
<1>2. QED BY <1>1 DEF AtWork, Goto, Types

LEMMA OneStep ==
  ASSUME Sequential, NEW r \in Requests, AtWork(r),
         \A q \in Requests : q # r => pc'[q] = pc[q] /\ job'[q] = job[q],
         Injective', Fresh', Local(r)'
  PROVE  Sequential'
<1>1. \A q \in Requests : q # r => ~AtWork(q) /\ ~AtWork(q)'
  BY DEF Sequential, One, AtWork
<1>2. One'
  BY <1>1 DEF One
<1>3. \A q \in Requests : q # r => Local(q)'
  BY <1>1 DEF Sequential, Local
<1>4. QED BY <1>2, <1>3 DEF Sequential

\* A step of r writes to g, and gives a name no other new file.
LEMMA FreshAfter ==
  ASSUME Fresh, NEW r \in Requests, NEW g,
         \A q \in Requests : q # r => pc'[q] = pc[q] /\ job'[q] = job[q],
         \A k \in MadeFiles : Unmade(r, k)' => Unmade(r, k) /\ g # <<r, k>>,
         \A q \in Requests, k \in MadeFiles : q # r /\ Unmade(q, k) => g # <<q, k>>,
         \A f \in Files : f # g => file'[f] = file[f],
         \A n \in DOMAIN dir' : dir'[n] = g \/ \E m \in DOMAIN dir : dir'[n] = dir[m]
  PROVE  Fresh'
<1>1. \A q \in Requests, k \in MadeFiles : Unmade(q, k)' => Unmade(q, k) /\ g # <<q, k>>
  BY DEF Unmade, Opened, Upg
<1>2. \A q \in Requests, k \in MadeFiles : <<q, k>> \in Files
  BY FilesDiffer
<1>3. QED BY <1>1, <1>2 DEF Fresh

LEMMA JobTypes ==
  ASSUME Types, NEW r \in Requests, NEW p \in Pcs, NEW d, NEW j \in Jobs, Goto(r, p, d, j)
  PROVE  pc' \in [Requests -> Pcs] /\ job' \in [Requests -> Jobs]
BY Constants DEF Goto, Types

\* What a step of r has to keep; it writes to g.
LEMMA StepKeeps ==
  ASSUME Types, Sequential, NEW r \in Requests, AtWork(r), NEW g,
         pc' \in [Requests -> Pcs], job' \in [Requests -> Jobs],
         \A q \in Requests : q # r => pc'[q] = pc[q] /\ job'[q] = job[q],
         file' \in [Files -> Contents], \A f \in Files : f # g => file'[f] = file[f],
         UNCHANGED <<latest, now, running>>,
         \A n \in DOMAIN dir' : /\ dir'[n] \in Files
                                /\ \/ n \in DOMAIN dir /\ dir'[n] = dir[n]
                                   \/ n = Exec \/ IsBackup(n)
                                   \/ n = Tmp(r) /\ dir'[n] = <<r, "tmp">>
                                /\ dir'[n] = g \/ \E m \in DOMAIN dir : dir'[n] = dir[m],
         Injective',
         \A k \in MadeFiles : Unmade(r, k)' => Unmade(r, k) /\ g # <<r, k>>,
         \A q \in Requests, k \in MadeFiles : q # r /\ Unmade(q, k) => g # <<q, k>>,
         Local(r)'
  PROVE  Types' /\ Sequential'
<1>1. \A n : IsBackup(n)' = IsBackup(n)
  BY DEF IsBackup
<1>2. \A n \in DOMAIN dir' : \/ n = Exec \/ IsBackup(n)'
                            \/ \E q \in Requests : n = Tmp(q) /\ dir'[n] = <<q, "tmp">>
  BY <1>1 DEF Types
<1>3. Types'
  BY <1>2 DEF Types
<1>4. Fresh'
  BY FreshAfter DEF Sequential
<1>5. Sequential'
  BY <1>4, OneStep
<1>6. QED BY <1>3, <1>5

\* A step that ends r, leaving no name it did not find, and no file but g.
LEMMA EndKeepsFiles ==
  ASSUME Types, Sequential, NEW r \in Requests, AtWork(r), NEW d, NEW j \in Jobs,
         NEW p \in {"ok"} \cup Errors, Goto(r, p, d, j), NEW g,
         \A n \in DOMAIN d : n \in DOMAIN dir /\ d[n] = dir[n],
         file' \in [Files -> Contents], \A f \in Files : f # g => file'[f] = file[f],
         UNCHANGED <<latest, now, running>>,
         g = NoFile \/ \E m \in DOMAIN dir : g = dir[m]
  PROVE  Types' /\ Sequential'
<1>0. p \in Pcs /\ p \in Resting
  BY PcSteps
<1>1. /\ pc'[r] = p /\ job'[r] = NoJob /\ Local(r)'
      /\ \A q \in Requests : q # r => pc'[q] = pc[q] /\ job'[q] = job[q]
  <2>1. /\ pc'[r] = p /\ job'[r] = NoJob
        /\ \A q \in Requests : q # r => pc'[q] = pc[q] /\ job'[q] = job[q]
    BY <1>0 DEF Goto, Types
  <2>2. QED BY <1>0, <2>1 DEF AtWork, Local
<1>2. pc' \in [Requests -> Pcs] /\ job' \in [Requests -> Jobs]
  BY <1>0, JobTypes
<1>3. \A n \in DOMAIN dir' : n \in DOMAIN dir /\ dir'[n] = dir[n]
  <2>1. CASE p \in Errors
    BY <2>1 DEF Goto, Without
  <2>2. CASE p \notin Errors
    BY <2>2 DEF Goto
  <2>3. QED BY <2>1, <2>2
<1>4. Injective'
  BY <1>3 DEF Injective, Sequential
<1>5. \A k \in MadeFiles : ~Unmade(r, k)'
  <2>1. pc'[r] \in {"ok", "failed", "unrestored"}
    BY <1>1, PcSteps
  <2>2. QED BY <2>1 DEF Unmade
<1>6. \A q \in Requests, k \in MadeFiles : Unmade(q, k) => g # <<q, k>>
  BY FilesDiffer DEF Sequential, Fresh
<1>7. \A n \in DOMAIN dir' : dir'[n] \in Files /\ \E m \in DOMAIN dir : dir'[n] = dir[m]
  BY <1>3 DEF Types
<1>8. QED BY <1>1, <1>2, <1>3, <1>4, <1>5, <1>6, <1>7, StepKeeps

\* r is the only one at work, and no other is after its step.
LEMMA Alone ==
  ASSUME Sequential, NEW r \in Requests, AtWork(r),
         \A q \in Requests : q # r => pc'[q] = pc[q] /\ job'[q] = job[q]
  PROVE  /\ \A q \in Requests : AtWork(q)' => q = r
         /\ NoLoss' => NoLoss
         /\ Spare => \E n \in DOMAIN dir : n # Exec /\ n # Tmp(r) /\ Content(n).whole
<1>1. \A q \in Requests : AtWork(q)' => q = r
  BY DEF Sequential, One, AtWork
<1>2. pc[r] \notin {"cut", "unrestored"}
  BY PcSteps DEF AtWork
<1>3. NoLoss' => NoLoss
  BY <1>2 DEF NoLoss, Unrestored
<1>4. QED BY <1>1, <1>3 DEF Spare, Spares

LEMMA SpareNext ==
  ASSUME NEW r \in Requests, \A q \in Requests : AtWork(q)' => q = r,
         NEW n \in DOMAIN dir', n # Exec, n # Tmp(r) \/ Quiet', Content(n)'.whole
  PROVE  Spare' /\ Left'
BY DEF Spare, Spares, Quiet, Left

LEMMA OrderGoesOn ==
  ASSUME Sequential, Order, NEW r \in Requests, AtWork(r), AtWork(r)',
         \A q \in Requests : q # r => pc'[q] = pc[q] /\ job'[q] = job[q],
         Spoiled => Spoiled', Work(r)', Sound(r)', Fit(r) => Fit(r)' \/ Spoiled'
  PROVE  Order'
<1>1. \A q \in Requests : AtWork(q)' => q = r
  BY Alone
<1>2. \A q \in Requests : AtWork(q)' => Work(q)' /\ Sound(q)'
  BY <1>1
<1>3. ~Quiet'
  BY DEF Quiet
<1>4. NoLoss' => NoLoss
  BY Alone
<1>5. NoLoss' => Spoiled' \/ Fit(r)'
  BY <1>4 DEF Order
<1>6. NoLoss' => Spoiled' \/ \A q \in Requests : AtWork(q)' => Fit(q)'
  BY <1>1, <1>5
<1>7. QED BY <1>2, <1>3, <1>6 DEF Order

LEMMA OrderEnds ==
  ASSUME Sequential, Order, NEW r \in Requests, AtWork(r), ~AtWork(r)',
         \A q \in Requests : q # r => pc'[q] = pc[q] /\ job'[q] = job[q],
         Spoiled => Spoiled', Left', NoLoss' /\ Fit(r) => ExecUsable' \/ Spoiled'
  PROVE  Order'
<1>1. \A q \in Requests : ~AtWork(q)'
  BY Alone
<1>2. NoLoss' => NoLoss
  BY Alone
<1>3. NoLoss' => Spoiled' \/ ExecUsable'
  BY <1>2 DEF Order
<1>4. QED BY <1>1, <1>3 DEF Order

LEMMA SpoiledStays ==
  ASSUME NEW r \in Requests, NEW g, \A f \in Files : f # g => file'[f] = file[f],
         \/ g = NoFile
         \/ /\ \E k \in MadeFiles : g = <<r, k>>
            /\ Work(r) /\ pc[r] \notin {"chmod", "rotate"}
  PROVE  Spoiled => Spoiled'
<1>1. SUFFICES ASSUME NEW q \in Requests, file[<<q, "place">>].runnable, ~file[<<q, "place">>].whole
               PROVE  Spoiled'
  BY DEF Spoiled
<1>2. <<q, "place">> \in Files /\ <<q, "place">> # NoFile
  BY FilesDiffer DEF MadeFiles
<1>3. <<q, "place">> # g
  BY <1>1, <1>2, FilesDiffer DEF Work
<1>4. QED BY <1>1, <1>2, <1>3 DEF Spoiled

LEMMA NewestStays ==
  ASSUME NEW r \in Requests, Newest(r), job'[r].own = job[r].own,
         \A n \in DOMAIN dir' : n \in DOMAIN dir \/ n[1] # "backup",
         job[r].own \in DOMAIN dir => job[r].own \in DOMAIN dir'
  PROVE  Newest(r)'
BY DEF Newest, ListBackups

\* A step that leaves the binary and the spare files as they are.
LEMMA UntouchedStays ==
  ASSUME Sequential, NEW r \in Requests, AtWork(r),
         \A q \in Requests : q # r => pc'[q] = pc[q] /\ job'[q] = job[q],
         \A n \in DOMAIN dir : n # Tmp(r) => n \in DOMAIN dir' /\ (Content(n).whole => Content(n)'.whole),
         Exec \in DOMAIN dir => Content(Exec)' = Content(Exec),
         Exec \in DOMAIN dir' => Exec \in DOMAIN dir
  PROVE  /\ Left => Left'
         /\ ExecUsable => ExecUsable'
         /\ (Exists(Exec) => Good) => (Exists(Exec)' => Good')
<1>1. Exec # Tmp(r)
  BY NamesDiffer
<1>2. Exec \in DOMAIN dir => Exec \in DOMAIN dir' /\ Content(Exec)' = Content(Exec)
  BY <1>1
<1>3. Good => Good'
  BY <1>2 DEF Good, Exists
<1>4. ExecUsable => ExecUsable'
  BY <1>2 DEF ExecUsable, Exists
<1>5. Spare => Left'
  <2>1. SUFFICES ASSUME NEW n \in DOMAIN dir, n # Exec, n # Tmp(r), Content(n).whole PROVE Left'
    BY Alone
  <2>2. n \in DOMAIN dir' /\ Content(n)'.whole
    BY <2>1
  <2>3. \A q \in Requests : AtWork(q)' => q = r
    BY Alone
  <2>4. QED BY <2>1, <2>2, <2>3, SpareNext
<1>6. QED BY <1>3, <1>4, <1>5 DEF Left, Exists

\* The backup of r is a file of its own, and whole once it is made.
LEMMA OwnIsThere ==
  ASSUME Types, Sequential, NEW r \in Requests, AtWork(r), Work(r), Sound(r), pc[r] \notin Early
  PROVE  /\ job[r].own # Exec /\ job[r].own \in DOMAIN dir /\ Own(r).whole
         /\ \A q \in Requests : job[r].own # Tmp(q)
<1>1. Saving(r) /\ job[r].own \in Names
  BY DEF Sequential, Local, Types, Jobs
<1>2. job[r].own # Exec
  BY <1>1 DEF Saving, Early
<1>3. QED BY <1>1, <1>2, NamesDiffer DEF Work, Newest, Sound, Names

LEMMA Ends ==
  ASSUME Types, NEW r \in Requests, NEW d, NEW j, NEW p \in {"ok"} \cup Errors, Goto(r, p, d, j)
  PROVE  /\ pc'[r] = p /\ job'[r] = NoJob /\ ~AtWork(r)'
         /\ \A q \in Requests : q # r => pc'[q] = pc[q] /\ job'[q] = job[q]
         /\ \A n \in DOMAIN dir' : n \in DOMAIN d /\ dir'[n] = d[n]
         /\ \A n \in DOMAIN d : n # Tmp(r) => n \in DOMAIN dir' /\ dir'[n] = d[n]
<1>1. p \in Resting
  BY PcSteps
<1>2. /\ pc'[r] = p /\ job'[r] = NoJob /\ ~AtWork(r)'
      /\ \A q \in Requests : q # r => pc'[q] = pc[q] /\ job'[q] = job[q]
  BY <1>1 DEF Goto, Types, AtWork
<1>3. CASE p \in Errors
  BY <1>2, <1>3 DEF Goto, Without
<1>4. CASE p \notin Errors
  BY <1>2, <1>4 DEF Goto
<1>5. QED BY <1>3, <1>4

-------------------------------------------------------------------------------
\* An error, at any step: j is what r holds once its copy is closed.
LEMMA FailsKeeps ==
  ASSUME Types, Sequential, NEW r \in Requests, AtWork(r), NEW j \in Jobs,
         j.kind = job[r].kind, j.want = job[r].want, j.target = job[r].target,
         j.own = job[r].own, j.sink = NoFile, ~j.written,
         Goto(r, ErrorPc(r, pc[r]), dir, j), UNCHANGED <<latest, now, running, file>>
  PROVE  Kept
<1>1. Kinds(r) /\ Saving(r) /\ Target(r) /\ Binary(r)
  BY DEF Sequential, Local
<1>2. file' \in [Files -> Contents] /\ \A f \in Files : file'[f] = file[f]
  BY DEF Types
<1>3. Order => Work(r) /\ Sound(r) /\ (Spoiled => Spoiled')
  BY <1>2, SpoiledStays DEF Order
<1>4. pc[r] \in {"stat", "download", "backup", "rotate", "remove", "rename", "place", "chmod",
                 "restore"}
  BY PcSteps DEF Types, AtWork
<1>5. ASSUME NEW p \in Errors, p = ErrorPc(r, pc[r])
      PROVE  Kept
  <2>1. Types' /\ Sequential'
    BY <1>2, <1>5, EndKeepsFiles
  <2>2. /\ pc'[r] = p /\ ~AtWork(r)'
        /\ \A q \in Requests : q # r => pc'[q] = pc[q] /\ job'[q] = job[q]
        /\ \A n \in DOMAIN dir' : n \in DOMAIN dir /\ dir'[n] = dir[n]
        /\ \A n \in DOMAIN dir : n # Tmp(r) => n \in DOMAIN dir' /\ dir'[n] = dir[n]
    <3>1. Goto(r, p, dir, j)
      BY <1>5
    <3>2. QED BY <1>5, <3>1, PcSteps DEF Goto, Without, AtWork, Types
  <2>3. ASSUME Order PROVE Order'
    <3>1. \A n \in DOMAIN dir' : Content(n)' = Content(n)
      BY <2>2 DEF Content
    <3>2. Exec # Tmp(r)
      BY NamesDiffer
    <3>3. (Left => Left') /\ (ExecUsable => ExecUsable')
      BY <2>2, <3>1, <3>2, UntouchedStays
    <3>4. Left'
      <4>1. CASE pc[r] \in Early
        BY <1>3, <2>3, <3>3, <4>1 DEF Sound
      <4>2. CASE pc[r] \notin Early
        <5>1. /\ job[r].own # Exec /\ job[r].own \in DOMAIN dir /\ Own(r).whole
              /\ job[r].own # Tmp(r)
          BY <1>3, <2>3, <4>2, OwnIsThere
        <5>2. PICK o : o = job[r].own
          OBVIOUS
        <5>3. o \in DOMAIN dir' /\ Content(o)'.whole /\ o # Exec /\ o # Tmp(r)
          BY <2>2, <5>1, <5>2 DEF Own, Content
        <5>4. \A q \in Requests : AtWork(q)' => q = r
          BY <2>2, Alone
        <5>5. QED BY <5>3, <5>4, SpareNext
      <4>3. QED BY <4>1, <4>2
    <3>5. NoLoss' => pc[r] \in Early \cup {"rotate", "remove"}
      <4>1. SUFFICES ASSUME NoLoss' PROVE pc[r] \in Early \cup {"rotate", "remove"}
        OBVIOUS
      <4>2. p # "unrestored"
        BY <2>2, <4>1 DEF NoLoss, Unrestored
      <4>3. QED BY <1>4, <1>5, <4>2, PcSteps DEF ErrorPc, Window, Early
    <3>6. QED BY <1>3, <2>2, <2>3, <3>3, <3>4, <3>5, OrderEnds DEF Fit
  <2>4. QED BY <2>1, <2>3 DEF Kept
<1>6. ASSUME "restore" = ErrorPc(r, pc[r])
      PROVE  Kept
  <2>1. pc[r] \in {"rename", "place"} \/ (pc[r] = "chmod" /\ Upg(r))
    BY <1>6, PcSteps DEF ErrorPc, Upg
  <2>2. /\ pc'[r] = "restore" /\ job'[r] = j /\ dir' = dir /\ AtWork(r)' /\ "restore" \in Pcs
        /\ \A q \in Requests : q # r => pc'[q] = pc[q] /\ job'[q] = job[q]
    BY <1>6, GoesOn
  <2>3. pc' \in [Requests -> Pcs] /\ job' \in [Requests -> Jobs]
    BY <1>6, <2>2, JobTypes
  <2>4. Injective'
    BY <2>2 DEF Sequential, Injective
  <2>5. \A k \in MadeFiles : Unmade(r, k)' => Unmade(r, k)
    BY <2>1, <2>2 DEF Unmade, Upg
  <2>6. \A q \in Requests, k \in MadeFiles : NoFile # <<q, k>>
    BY FilesDiffer
  <2>7. ~Opened(r)' /\ Upg(r)' = Upg(r)
    BY <2>2 DEF Opened, Upg
  <2>8. Kinds(r)' /\ Copying(r)'
    BY <1>1, <2>2, <2>7 DEF Kinds, Copying
  <2>9. Saving(r)' /\ Target(r)'
    BY <1>1, <2>1, <2>2, <2>7 DEF Saving, Target
  <2>10. Binary(r)'
    BY <1>1, <2>1, <2>2 DEF Binary, Exists
  <2>11. Local(r)'
    BY <2>2, <2>8, <2>9, <2>10 DEF Local
  <2>12. \A n \in DOMAIN dir' : dir'[n] \in Files /\ n \in DOMAIN dir /\ dir'[n] = dir[n]
    BY <2>2 DEF Types
  <2>13. Types' /\ Sequential'
    BY <1>2, <2>2, <2>3, <2>4, <2>5, <2>6, <2>11, <2>12, StepKeeps
  <2>14. ASSUME Order PROVE Order'
    <3>1. Newest(r)'
      BY <1>3, <2>2, <2>14, NewestStays DEF Work
    <3>2. Work(r)'
      BY <1>2, <1>3, <2>1, <2>2, <2>7, <2>14, <3>1, FilesDiffer DEF Work, Kinds, MadeFiles
    <3>3. Own(r)' = Own(r) /\ pc[r] \notin Early /\ pc'[r] \notin Early \cup {"rotate", "remove"}
      BY <2>1, <2>2 DEF Own, Content, Early
    <3>4. Sound(r)' /\ (Fit(r) => Fit(r)')
      BY <1>3, <2>14, <3>3 DEF Sound, Fit
    <3>5. QED BY <1>3, <2>2, <2>14, <3>2, <3>4, OrderGoesOn
  <2>15. QED BY <2>13, <2>14 DEF Kept
<1>7. QED BY <1>4, <1>5, <1>6, PcSteps DEF ErrorPc

LEMMA FailsAtOnce ==
  ASSUME Types, Sequential, NEW r \in Requests, AtWork(r), ~Opened(r), NEW possible,
         Fails(r, possible)
  PROVE  Kept
<1>1. job[r] \in Jobs /\ job[r].sink = NoFile /\ ~job[r].written
  BY DEF Types, Opened, Sequential, Local, Kinds
<1>2. Goto(r, ErrorPc(r, pc[r]), dir, job[r]) /\ UNCHANGED <<latest, now, running, file>>
  BY DEF Fails, Step
<1>3. QED BY <1>1, <1>2, FailsKeeps

LEMMA StatTargetKeeps ==
  ASSUME Types, Sequential, NEW r \in Requests, StatTarget(r)
  PROVE  Kept
<1>1. pc[r] = "stat" /\ AtWork(r) /\ Local(r)
  BY PcSteps DEF StatTarget, AtWork, Sequential
<1>2. Target(r) /\ ~Upg(r) /\ ~Opened(r) /\ Saving(r) /\ Kinds(r)
  BY <1>1, PcSteps DEF Local, Kinds
<1>3. Exists(job[r].target)
  BY <1>1, <1>2 DEF Target, Exists
<1>4. Goto(r, "backup", dir, job[r]) /\ UNCHANGED <<latest, now, running, file>>
  BY <1>3 DEF StatTarget, Step
<1>5. /\ pc'[r] = "backup" /\ job'[r] = job[r] /\ dir' = dir /\ AtWork(r)' /\ "backup" \in Pcs
      /\ \A q \in Requests : q # r => pc'[q] = pc[q] /\ job'[q] = job[q]
  BY <1>4, GoesOn
<1>6. pc' \in [Requests -> Pcs] /\ job' \in [Requests -> Jobs]
  BY <1>4, <1>5, JobTypes DEF Types
<1>7. Injective'
  BY <1>5 DEF Sequential, Injective
<1>8. \A k \in MadeFiles : Unmade(r, k)' => Unmade(r, k)
  BY <1>1, <1>5 DEF Unmade, Opened, Upg
<1>9. \A q \in Requests, k \in MadeFiles : NoFile # <<q, k>>
  BY FilesDiffer
<1>10. Local(r)'
  <2>1. Kinds(r)' /\ Saving(r)'
    BY <1>1, <1>2, <1>5, PcSteps DEF Kinds, Opened, Saving, Upg
  <2>2. Copying(r)'
    BY <1>2, <1>5 DEF Copying, Opened
  <2>3. Target(r)'
    BY <1>1, <1>2, <1>4, <1>5 DEF Target, Upg, Content
  <2>4. Binary(r)'
    BY <1>2, <1>5 DEF Binary, Upg
  <2>5. QED BY <1>5, <2>1, <2>2, <2>3, <2>4 DEF Local
<1>11. \A n \in DOMAIN dir' : dir'[n] \in Files /\ n \in DOMAIN dir /\ dir'[n] = dir[n]
  BY <1>5 DEF Types
<1>12. file' \in [Files -> Contents] /\ \A f \in Files : file'[f] = file[f]
  BY <1>4 DEF Types
<1>13. Types' /\ Sequential'
  BY <1>1, <1>4, <1>5, <1>6, <1>7, <1>8, <1>9, <1>10, <1>11, <1>12, StepKeeps
<1>14. ASSUME Order PROVE Order'
  <2>1. Work(r) /\ Sound(r) /\ (Spoiled => Spoiled')
    BY <1>1, <1>12, <1>14, SpoiledStays DEF Order
  <2>2. Newest(r)'
    BY <1>5, <2>1, NewestStays DEF Work
  <2>3. Work(r)'
    BY <1>1, <1>2, <1>4, <1>5, <2>1, <2>2 DEF Work, Opened, Upg
  <2>4. \A n \in DOMAIN dir : Content(n)' = Content(n)
    BY <1>4, <1>5 DEF Content
  <2>5. /\ Left => Left'
        /\ ExecUsable => ExecUsable'
        /\ (Exists(Exec) => Good) => (Exists(Exec)' => Good')
    BY <1>1, <1>5, <2>4, UntouchedStays
  <2>6. Sound(r)' /\ (Fit(r) => Fit(r)')
    BY <1>1, <1>5, <2>1, <2>5 DEF Sound, Fit, Early
  <2>7. QED BY <1>1, <1>5, <1>14, <2>1, <2>3, <2>6, OrderGoesOn
<1>15. QED BY <1>13, <1>14 DEF Kept

LEMMA DownloadKeeps ==
  ASSUME Types, Sequential, NEW r \in Requests, Download(r)
  PROVE  Kept
<1>1. pc[r] = "download" /\ AtWork(r) /\ Local(r) /\ job[r] \in Jobs
  BY PcSteps DEF Download, AtWork, Sequential, Types
<1>2. Target(r) /\ Upg(r) /\ ~Opened(r) /\ Saving(r) /\ Kinds(r) /\ job[r].want \in Contents
  BY <1>1, PcSteps DEF Local, Kinds, Jobs
<1>3. CASE Fails(r, TRUE)
  BY <1>1, <1>2, <1>3, FailsAtOnce
<1>4. ASSUME Step(r, "backup", With(Tmp(r), <<r, "tmp">>, dir)),
             file' = [file EXCEPT ![<<r, "tmp">>] = [job[r].want EXCEPT !.runnable = FALSE]]
      PROVE  Kept
  <2>1. PICK g : g = <<r, "tmp">>
    OBVIOUS
  <2>2. PICK d : d = With(Tmp(r), g, dir)
    OBVIOUS
  <2>3. Goto(r, "backup", d, job[r]) /\ UNCHANGED <<latest, now, running>>
    BY <1>4, <2>1, <2>2 DEF Step
  <2>4. /\ pc'[r] = "backup" /\ job'[r] = job[r] /\ dir' = d /\ AtWork(r)' /\ "backup" \in Pcs
        /\ \A q \in Requests : q # r => pc'[q] = pc[q] /\ job'[q] = job[q]
    BY <2>3, GoesOn
  <2>5. pc' \in [Requests -> Pcs] /\ job' \in [Requests -> Jobs]
    BY <1>1, <2>3, <2>4, JobTypes
  <2>6. /\ DOMAIN dir' = DOMAIN dir \cup {Tmp(r)} /\ dir'[Tmp(r)] = g
        /\ \A n \in DOMAIN dir : n # Tmp(r) => dir'[n] = dir[n]
    BY <2>2, <2>4 DEF With
  <2>7. g \in Files /\ \A n \in DOMAIN dir : dir[n] # g
    <3>1. Unmade(r, "tmp") /\ "tmp" \in MadeFiles
      BY <1>1 DEF Unmade, MadeFiles
    <3>2. QED BY <2>1, <3>1, FilesDiffer DEF Sequential, Fresh
  <2>8. /\ file' \in [Files -> Contents] /\ \A f \in Files : f # g => file'[f] = file[f]
        /\ file'[g].whole = job[r].want.whole /\ file'[g].build = job[r].want.build
    BY <1>2, <1>4, <2>1, <2>7 DEF Types, Contents
  <2>9. Injective'
    BY <2>6, <2>7 DEF Sequential, Injective
  <2>10. \A k \in MadeFiles : Unmade(r, k)' => Unmade(r, k) /\ g # <<r, k>>
    BY <1>1, <2>1, <2>4, FilesDiffer DEF Unmade, Opened, Upg
  <2>11. \A q \in Requests, k \in MadeFiles : q # r /\ Unmade(q, k) => g # <<q, k>>
    BY <2>1, FilesDiffer
  <2>12. Local(r)'
    <3>1. Kinds(r)' /\ Saving(r)'
      BY <1>1, <1>2, <2>4, PcSteps DEF Kinds, Opened, Saving, Upg
    <3>2. Copying(r)'
      BY <1>2, <2>4 DEF Copying, Opened
    <3>3. Target(r)'
      BY <1>2, <2>1, <2>4, <2>6, <2>8 DEF Target, Upg, Content
    <3>4. Binary(r)'
      BY <1>2, <2>4 DEF Binary, Upg
    <3>5. QED BY <2>4, <3>1, <3>2, <3>3, <3>4 DEF Local
  <2>13. \A n \in DOMAIN dir' : /\ dir'[n] \in Files
                                /\ \/ n \in DOMAIN dir /\ dir'[n] = dir[n]
                                   \/ n = Tmp(r) /\ dir'[n] = <<r, "tmp">>
                                /\ dir'[n] = g \/ \E m \in DOMAIN dir : dir'[n] = dir[m]
    BY <2>1, <2>6, <2>7 DEF Types
  <2>14. Types' /\ Sequential'
    BY <1>1, <2>3, <2>4, <2>5, <2>8, <2>9, <2>10, <2>11, <2>12, <2>13, StepKeeps
  <2>15. ASSUME Order PROVE Order'
    <3>1. Work(r) /\ Sound(r) /\ (Spoiled => Spoiled')
      <4>1. Work(r) /\ Sound(r)
        BY <1>1, <2>15 DEF Order
      <4>2. QED BY <1>1, <2>1, <2>8, <4>1, SpoiledStays DEF MadeFiles
    <3>2. Newest(r)'
      BY <2>4, <2>6, <3>1, NewestStays, NamesDiffer DEF Work
    <3>3. file'[<<r, "place">>] = file[<<r, "place">>]
      BY <2>1, <2>8, FilesDiffer DEF MadeFiles
    <3>4. Work(r)'
      BY <1>1, <1>2, <2>4, <3>1, <3>2, <3>3 DEF Work, Opened, Upg
    <3>5. \A n \in DOMAIN dir : n # Tmp(r) => n \in DOMAIN dir' /\ Content(n)' = Content(n)
      BY <2>6, <2>7, <2>8 DEF Content, Types
    <3>6. Exec # Tmp(r)
      BY NamesDiffer
    <3>7. /\ Left => Left'
          /\ ExecUsable => ExecUsable'
          /\ (Exists(Exec) => Good) => (Exists(Exec)' => Good')
      BY <1>1, <2>4, <2>6, <3>5, <3>6, UntouchedStays
    <3>8. Sound(r)' /\ (Fit(r) => Fit(r)')
      BY <1>1, <2>4, <3>1, <3>7 DEF Sound, Fit, Early
    <3>9. QED BY <1>1, <2>4, <2>15, <3>1, <3>4, <3>8, OrderGoesOn
  <2>16. QED BY <2>14, <2>15 DEF Kept
<1>5. QED BY <1>3, <1>4 DEF Download

LEMMA CopyNames ==
  ASSUME NEW r
  PROVE  /\ pc[r] = "backup" => /\ CopyFrom(r) = Exec
                                /\ CopyTo(r) = (IF job[r].own = Exec THEN Backup(job[r].label, now)
                                                ELSE job[r].own)
         /\ pc[r] = "place" => CopyFrom(r) = job[r].target /\ CopyTo(r) = Exec
         /\ pc[r] = "restore" => CopyFrom(r) = job[r].own /\ CopyTo(r) = Exec
BY DEF CopyFrom, CopyTo

LEMMA CopyNamesNext ==
  ASSUME NEW r
  PROVE  /\ pc'[r] = "backup" => /\ CopyFrom(r)' = Exec
                                 /\ CopyTo(r)' = (IF job'[r].own = Exec THEN Backup(job'[r].label, now')
                                                  ELSE job'[r].own)
         /\ pc'[r] = "place" => CopyFrom(r)' = job'[r].target /\ CopyTo(r)' = Exec
         /\ pc'[r] = "restore" => CopyFrom(r)' = job'[r].own /\ CopyTo(r)' = Exec
BY DEF CopyFrom, CopyTo

\* Both files of a copy are opened.
LEMMA CopyOpenDoes ==
  ASSUME Types, Sequential, NEW r \in Requests, CopyOpen(r), ~Fails(r, Exists(CopyFrom(r)))
  PROVE  \E from, to, g, j :
           /\ from = CopyFrom(r) /\ to = CopyTo(r)
           /\ g = IF Exists(to) THEN dir[to] ELSE <<r, pc[r]>>
           /\ from \in DOMAIN dir /\ from # to
           /\ IF pc[r] = "backup" THEN IsBackup(to) /\ to # Exec /\ to = Backup(job[r].label, now)
                                  ELSE to = Exec
           /\ \A q : to # Tmp(q)
           /\ g \in Files /\ \A n \in DOMAIN dir : n # to => dir[n] # g
           /\ j.source = dir[from] /\ j.sink = g /\ j.kind = job[r].kind /\ j.want = job[r].want
           /\ j.target = job[r].target /\ j.written = job[r].written
           /\ j.own = IF pc[r] = "backup" THEN to ELSE job[r].own
           /\ pc'[r] = pc[r] /\ job'[r] = j /\ AtWork(r)'
           /\ \A q \in Requests : q # r => pc'[q] = pc[q] /\ job'[q] = job[q]
           /\ pc' \in [Requests -> Pcs] /\ job' \in [Requests -> Jobs]
           /\ DOMAIN dir' = DOMAIN dir \cup {to} /\ dir'[to] = g
           /\ \A n \in DOMAIN dir : n # to => dir'[n] = dir[n]
           /\ file' \in [Files -> Contents] /\ \A f \in Files : f # g => file'[f] = file[f]
           /\ ~file'[g].whole /\ file'[g].runnable = file[g].runnable
<1>a. /\ pc[r] \in {"backup", "place", "restore"} /\ ~Opened(r) /\ AtWork(r) /\ Local(r)
      /\ job[r] \in Jobs /\ UNCHANGED <<latest, now, running>> /\ Exists(CopyFrom(r))
  BY PcSteps DEF CopyOpen, AtWork, Sequential, Types
<1>b. Target(r) /\ Saving(r) /\ Kinds(r) /\ Binary(r)
  BY <1>a DEF Local
<1>1. PICK from, to : from = CopyFrom(r) /\ to = CopyTo(r)
  OBVIOUS
<1>2. PICK g : g = IF Exists(to) THEN dir[to] ELSE <<r, pc[r]>>
  OBVIOUS
<1>3. PICK j : j = [job[r] EXCEPT !.source = dir[from], !.sink = g,
                                  !.own = IF pc[r] = "backup" THEN to ELSE @]
  OBVIOUS
<1>4. PICK d : d = With(to, g, dir)
  OBVIOUS
<1>5. /\ Goto(r, pc[r], d, j)
      /\ file' = [file EXCEPT ![g] = [Truncated EXCEPT !.runnable = file[g].runnable]]
  BY <1>1, <1>2, <1>3, <1>4 DEF CopyOpen
<1>6. /\ from \in DOMAIN dir /\ from # to
      /\ IF pc[r] = "backup" THEN IsBackup(to) /\ to # Exec /\ to = Backup(job[r].label, now)
                             ELSE to = Exec
      /\ \A q : to # Tmp(q)
  <2>1. CASE pc[r] = "backup"
    <3>1. from = Exec /\ to = Backup(job[r].label, now)
      BY <1>a, <1>b, <1>1, <2>1, CopyNames DEF Saving
    <3>2. IsBackup(to)
      BY <1>a, <3>1 DEF IsBackup, Jobs, Types
    <3>3. QED BY <1>a, <1>1, <2>1, <3>1, <3>2, NamesDiffer DEF Exists
  <2>2. CASE pc[r] = "place"
    <3>1. from = job[r].target /\ to = Exec /\ job[r].target # Exec
      BY <1>b, <1>1, <2>2, CopyNames DEF Target, Kinds
    <3>2. QED BY <1>a, <1>1, <2>2, <3>1, NamesDiffer DEF Exists
  <2>3. CASE pc[r] = "restore"
    <3>1. from = job[r].own /\ to = Exec /\ job[r].own # Exec
      BY <1>b, <1>1, <2>3, CopyNames DEF Saving
    <3>2. QED BY <1>a, <1>1, <2>3, <3>1, NamesDiffer DEF Exists
  <2>4. QED BY <1>a, <2>1, <2>2, <2>3
<1>7. g \in Files /\ \A n \in DOMAIN dir : n # to => dir[n] # g
  <2>1. CASE Exists(to)
    BY <1>2, <2>1 DEF Exists, Sequential, Injective, Types
  <2>2. CASE ~Exists(to)
    <3>1. pc[r] \in MadeFiles /\ Unmade(r, pc[r])
      BY <1>a DEF Unmade, MadeFiles
    <3>2. QED BY <1>2, <2>2, <3>1, FilesDiffer DEF Sequential, Fresh
  <2>3. QED BY <2>1, <2>2
<1>8. /\ j.source = dir[from] /\ j.sink = g /\ j.kind = job[r].kind /\ j.want = job[r].want
      /\ j.target = job[r].target /\ j.written = job[r].written
      /\ j.own = IF pc[r] = "backup" THEN to ELSE job[r].own
      /\ j \in Jobs
  <2>1. dir[from] \in Files
    BY <1>6 DEF Types
  <2>2. now \in Nat /\ job[r].label \in 0..Builds /\ job[r].own \in Names
    BY <1>a DEF Types, Jobs
  <2>3. PICK o : o = IF pc[r] = "backup" THEN to ELSE job[r].own
    OBVIOUS
  <2>4. o \in Names /\ dir[from] \in Held /\ g \in Held
    BY <1>6, <1>7, <2>1, <2>2, <2>3 DEF Names, Held
  <2>5. j = [job[r] EXCEPT !.source = dir[from], !.sink = g, !.own = o]
    BY <1>a, <1>3, <2>3 DEF Jobs
  <2>6. j \in Jobs
    BY <1>a, <2>4, <2>5, CopyJobs
  <2>7. /\ j.source = dir[from] /\ j.sink = g /\ j.kind = job[r].kind /\ j.want = job[r].want
        /\ j.target = job[r].target /\ j.written = job[r].written /\ j.own = o
    BY <1>a, <2>5 DEF Jobs
  <2>8. QED BY <2>3, <2>6, <2>7
<1>9. /\ pc'[r] = pc[r] /\ job'[r] = j /\ dir' = d /\ AtWork(r)'
      /\ \A q \in Requests : q # r => pc'[q] = pc[q] /\ job'[q] = job[q]
  BY <1>a, <1>5, GoesOn
<1>10. pc' \in [Requests -> Pcs] /\ job' \in [Requests -> Jobs]
  BY <1>5, <1>8, JobTypes DEF Types
<1>11. /\ DOMAIN dir' = DOMAIN dir \cup {to} /\ dir'[to] = g
       /\ \A n \in DOMAIN dir : n # to => dir'[n] = dir[n]
  BY <1>4, <1>9 DEF With
<1>12. /\ file' \in [Files -> Contents] /\ \A f \in Files : f # g => file'[f] = file[f]
       /\ ~file'[g].whole /\ file'[g].runnable = file[g].runnable
  <2>1. PICK c : c = [Truncated EXCEPT !.runnable = file[g].runnable]
    OBVIOUS
  <2>2. file[g].runnable \in BOOLEAN /\ file \in [Files -> Contents]
    BY <1>7 DEF Types, Contents
  <2>3. c \in Contents /\ c.whole = Truncated.whole /\ c.runnable = file[g].runnable
    BY <2>1, <2>2, Constants, ModeSet
  <2>4. ~Truncated.whole
    BY DEF Truncated
  <2>5. QED BY <1>5, <1>7, <2>1, <2>2, <2>3, <2>4
<1>13. WITNESS from, to, g, j
<1>14. QED BY <1>1, <1>2, <1>6, <1>7, <1>8, <1>9, <1>10, <1>11, <1>12

LEMMA CopyOpenKeeps ==
  ASSUME Types, Sequential, NEW r \in Requests, CopyOpen(r)
  PROVE  Kept
<1>1. /\ pc[r] \in {"backup", "place", "restore"} /\ ~Opened(r) /\ AtWork(r) /\ Local(r)
      /\ job[r] \in Jobs /\ UNCHANGED <<latest, now, running>>
  BY PcSteps DEF CopyOpen, Fails, Step, AtWork, Sequential, Types
<1>2. Target(r) /\ Saving(r) /\ Kinds(r) /\ Binary(r)
  BY <1>1 DEF Local
<1>3. CASE Fails(r, Exists(CopyFrom(r)))
  BY <1>1, <1>3, FailsAtOnce
<1>4. CASE ~Fails(r, Exists(CopyFrom(r)))
  <2>1. PICK from, to, g, j :
       /\ from = CopyFrom(r) /\ to = CopyTo(r)
       /\ g = IF Exists(to) THEN dir[to] ELSE <<r, pc[r]>>
       /\ from \in DOMAIN dir /\ from # to
       /\ IF pc[r] = "backup" THEN IsBackup(to) /\ to # Exec /\ to = Backup(job[r].label, now)
                              ELSE to = Exec
       /\ \A q : to # Tmp(q)
       /\ g \in Files /\ \A n \in DOMAIN dir : n # to => dir[n] # g
       /\ j.source = dir[from] /\ j.sink = g /\ j.kind = job[r].kind /\ j.want = job[r].want
       /\ j.target = job[r].target /\ j.written = job[r].written
       /\ j.own = IF pc[r] = "backup" THEN to ELSE job[r].own
       /\ pc'[r] = pc[r] /\ job'[r] = j /\ AtWork(r)'
       /\ \A q \in Requests : q # r => pc'[q] = pc[q] /\ job'[q] = job[q]
       /\ pc' \in [Requests -> Pcs] /\ job' \in [Requests -> Jobs]
       /\ DOMAIN dir' = DOMAIN dir \cup {to} /\ dir'[to] = g
       /\ \A n \in DOMAIN dir : n # to => dir'[n] = dir[n]
       /\ file' \in [Files -> Contents] /\ \A f \in Files : f # g => file'[f] = file[f]
       /\ ~file'[g].whole /\ file'[g].runnable = file[g].runnable
    BY <1>4, CopyOpenDoes
  <2>2. Injective'
    BY <2>1 DEF Sequential, Injective
  <2>3. Opened(r)'
    BY <2>1, FilesDiffer DEF Opened
  <2>4. \A q \in Requests, k \in MadeFiles : Unmade(q, k) /\ g = <<q, k>> => q = r /\ k = pc[r]
    <3>1. CASE Exists(to)
      BY <2>1, <3>1 DEF Exists, Sequential, Fresh
    <3>2. CASE ~Exists(to)
      BY <2>1, <3>2, FilesDiffer
    <3>3. QED BY <3>1, <3>2
  <2>5. \A k \in MadeFiles : Unmade(r, k)' => Unmade(r, k) /\ g # <<r, k>>
    <3>1. \A k \in MadeFiles : Unmade(r, k)' => Unmade(r, k) /\ k # pc[r]
      BY <1>1, <2>1, <2>3 DEF Unmade, Upg
    <3>2. QED BY <2>4, <3>1
  <2>6. Local(r)'
    <3>1. Kinds(r)' /\ Saving(r)'
      BY <1>1, <1>2, <2>1, <2>3, PcSteps DEF Kinds, Saving, Upg
    <3>2. Copying(r)'
      <4>1. CopyFrom(r)' = from /\ CopyTo(r)' = to
        BY <1>1, <2>1, CopyNames, CopyNamesNext
      <4>2. ~job'[r].written
        BY <1>1, <1>2, <2>1 DEF Kinds
      <4>3. /\ CopyFrom(r)' \in DOMAIN dir' /\ CopyTo(r)' \in DOMAIN dir'
            /\ job'[r].source = dir'[CopyFrom(r)'] /\ job'[r].sink = dir'[CopyTo(r)']
        BY <2>1, <4>1
      <4>4. Content(CopyTo(r))'.whole = FALSE
        BY <2>1, <4>1 DEF Content
      <4>5. QED BY <4>2, <4>3, <4>4 DEF Copying
    <3>3. Target(r)'
      <4>1. \A n \in DOMAIN dir : n # to => Content(n)' = Content(n)
        BY <2>1 DEF Content, Types
      <4>2. CASE Upg(r)
        BY <1>2, <2>1, <4>1, <4>2 DEF Target, Upg
      <4>3. CASE ~Upg(r)
        BY <1>1, <1>2, <2>1, <4>1, <4>3 DEF Target, Upg, Saving
      <4>4. QED BY <4>2, <4>3
    <3>4. Binary(r)'
      <4>1. pc[r] # "backup" => g \in {<<r, "place">>, <<r, "restore">>, <<r, "tmp">>}
        BY <1>1, <1>2, <2>1 DEF Binary
      <4>2. pc[r] = "place" => g = <<r, "place">>
        BY <1>1, <1>2, <2>1 DEF Binary
      <4>3. QED BY <1>1, <2>1, <2>3, <4>1, <4>2 DEF Binary, Exists
    <3>5. QED BY <2>1, <3>1, <3>2, <3>3, <3>4 DEF Local
  <2>7. \A n \in DOMAIN dir' : /\ dir'[n] \in Files
                               /\ (n \in DOMAIN dir /\ dir'[n] = dir[n]) \/ n = Exec \/ IsBackup(n)
                               /\ dir'[n] = g \/ \E m \in DOMAIN dir : dir'[n] = dir[m]
    BY <2>1 DEF Types
  <2>8. \A q \in Requests, k \in MadeFiles : q # r /\ Unmade(q, k) => g # <<q, k>>
    BY <2>4
  <2>9. /\ \A q \in Requests : q # r => pc'[q] = pc[q] /\ job'[q] = job[q]
        /\ pc' \in [Requests -> Pcs] /\ job' \in [Requests -> Jobs]
    BY <2>1
  <2>10. file' \in [Files -> Contents] /\ \A f \in Files : f # g => file'[f] = file[f]
    BY <2>1
  <2>11. Types' /\ Sequential'
    BY <1>1, <2>2, <2>5, <2>6, <2>7, <2>8, <2>9, <2>10, StepKeeps
  <2>13. ASSUME Orderly', Order, pc[r] = "backup" PROVE Order'
    <3>1. to = Backup(job[r].label, now) /\ to[1] = "backup" /\ to[3] = now /\ to # Exec
      BY <2>1, <2>13, NamesDiffer
    <3>2. \A n \in ListBackups : n[3] < now
      <4>1. SUFFICES ASSUME NEW n \in ListBackups PROVE n[3] < now
        OBVIOUS
      <4>2. n[3] # now
        <5>1. ~(\E m \in ListBackups : m[3] = to[3])
          BY <1>4, <2>1, <2>13 DEF CopyOpen, Mishap, Orderly
        <5>2. QED BY <3>1, <5>1
      <4>3. n \in DOMAIN dir /\ n[1] = "backup"
        BY DEF ListBackups
      <4>4. IsBackup(n)
        BY <4>3, NamesDiffer DEF Types
      <4>5. PICK l \in 0..Builds, t \in 0..now : n = Backup(l, t)
        BY <4>4 DEF IsBackup
      <4>6. n[3] = t
        BY <4>5, NamesDiffer
      <4>7. now \in Nat
        BY DEF Types
      <4>8. QED BY <4>2, <4>5, <4>6, <4>7
    <3>3. to \notin DOMAIN dir
      <4>1. now \in Nat
        BY DEF Types
      <4>2. to \in DOMAIN dir => to \in ListBackups
        BY <3>1 DEF ListBackups
      <4>3. QED BY <3>1, <3>2, <4>1, <4>2
    <3>4. g = <<r, "backup">>
      BY <2>1, <2>13, <3>3 DEF Exists
    <3>5. Work(r) /\ Sound(r) /\ (Spoiled => Spoiled')
      <4>1. Work(r) /\ Sound(r)
        BY <1>1, <2>13 DEF Order
      <4>2. QED BY <2>10, <2>13, <3>4, <4>1, SpoiledStays DEF MadeFiles
    <3>6. job'[r].own = to /\ job'[r].target = job[r].target /\ job'[r].sink = g /\ Upg(r)' = Upg(r)
          /\ pc'[r] = "backup"
      BY <2>1, <2>13 DEF Upg
    <3>7. Newest(r)'
      <4>1. \A n \in ListBackups' : n # to => n \in ListBackups
        BY <2>1 DEF ListBackups
      <4>2. QED BY <2>1, <3>1, <3>2, <3>6, <4>1 DEF Newest
    <3>8. ~Upg(r) => job[r].target # to
      BY <1>2, <2>13, <3>3 DEF Target
    <3>9. file'[<<r, "place">>] = file[<<r, "place">>]
      BY <2>10, <3>4, FilesDiffer DEF MadeFiles
    <3>10. Work(r)'
      BY <2>13, <3>4, <3>5, <3>6, <3>7, <3>8, <3>9 DEF Work
    <3>11. \A n \in DOMAIN dir : n \in DOMAIN dir' /\ Content(n)' = Content(n)
      BY <2>1, <3>3 DEF Content, Types
    <3>12. Exec \in DOMAIN dir' => Exec \in DOMAIN dir
      BY <2>1, <3>1
    <3>13. /\ Left => Left'
           /\ ExecUsable => ExecUsable'
           /\ (Exists(Exec) => Good) => (Exists(Exec)' => Good')
      BY <1>1, <2>9, <3>11, <3>12, UntouchedStays
    <3>14. Sound(r)' /\ (Fit(r) => Fit(r)')
      BY <2>13, <3>5, <3>6, <3>13 DEF Sound, Fit, Early
    <3>15. QED BY <1>1, <2>1, <2>13, <3>5, <3>10, <3>14, OrderGoesOn
  <2>14. ASSUME Order, pc[r] # "backup" PROVE Order'
    <3>1. to = Exec /\ job'[r].own = job[r].own /\ job'[r].target = job[r].target /\ Upg(r)' = Upg(r)
          /\ pc'[r] = pc[r]
      BY <2>1, <2>14 DEF Upg
    <3>2. \E k \in MadeFiles : g = <<r, k>>
      BY <1>1, <1>2, <2>1, <2>14 DEF Binary, MadeFiles
    <3>3. Work(r) /\ Sound(r) /\ (Spoiled => Spoiled')
      <4>1. Work(r) /\ Sound(r)
        BY <1>1, <2>14 DEF Order
      <4>2. QED BY <1>1, <2>10, <3>2, <4>1, SpoiledStays
    <3>4. Newest(r)'
      BY <2>1, <3>1, <3>3, NewestStays, NamesDiffer DEF Work
    <3>5. file'[<<r, "place">>].runnable = file[<<r, "place">>].runnable
      BY <2>1, FilesDiffer DEF MadeFiles
    <3>6. Work(r)'
      BY <1>1, <2>14, <3>1, <3>3, <3>4, <3>5 DEF Work
    <3>7. job[r].own # Exec /\ Own(r)' = Own(r)
      <4>1. job[r].own # Exec
        BY <1>1, <1>2, <2>14 DEF Saving
      <4>2. job[r].own \in DOMAIN dir
        BY <3>3, <4>1 DEF Work, Newest
      <4>3. QED BY <2>1, <3>1, <4>1, <4>2 DEF Own, Content, Types
    <3>8. pc'[r] = pc[r] /\ pc[r] \notin Early \cup {"rotate", "remove"}
      BY <1>1, <2>14, <3>1 DEF Early
    <3>9. Sound(r)' /\ (Fit(r) => Fit(r)')
      BY <3>3, <3>7, <3>8 DEF Sound, Fit
    <3>10. QED BY <1>1, <2>1, <2>14, <3>3, <3>6, <3>9, OrderGoesOn
  <2>15. QED BY <2>11, <2>13, <2>14 DEF Kept
<1>5. QED BY <1>3, <1>4

LEMMA CopyApart ==
  ASSUME Types, Sequential, NEW r \in Requests, pc[r] \in CopySteps, Opened(r)
  PROVE  /\ AtWork(r) /\ Local(r) /\ job[r] \in Jobs
         /\ pc[r] = "backup" => CopyFrom(r) = Exec /\ CopyTo(r) = job[r].own
         /\ pc[r] = "place" => CopyFrom(r) = job[r].target /\ CopyTo(r) = Exec
         /\ pc[r] = "restore" => CopyFrom(r) = job[r].own /\ CopyTo(r) = Exec
         /\ CopyFrom(r) # CopyTo(r) /\ \A q \in Requests : CopyTo(r) # Tmp(q)
         /\ CopyFrom(r) \in DOMAIN dir /\ CopyTo(r) \in DOMAIN dir
         /\ job[r].source = dir[CopyFrom(r)] /\ job[r].sink = dir[CopyTo(r)]
         /\ job[r].source # job[r].sink
         /\ job[r].source \in Files /\ job[r].sink \in Files
         /\ \A n \in DOMAIN dir : dir[n] = job[r].sink => n = CopyTo(r)
<1>1. AtWork(r) /\ Local(r) /\ job[r] \in Jobs /\ pc[r] \in {"backup", "place", "restore"}
  BY PcSteps DEF AtWork, Sequential, Types
<1>2. Saving(r) /\ Target(r) /\ Kinds(r) /\ Copying(r)
  BY <1>1 DEF Local
<1>3. job[r].own # Exec
  BY <1>1, <1>2 DEF Saving
<1>4. job[r].own \in Names /\ \A q \in Requests : Exec # Tmp(q) /\ job[r].own # Tmp(q)
  BY <1>1, <1>3, NamesDiffer DEF Jobs, Names
<1>5. /\ pc[r] = "backup" => CopyFrom(r) = Exec /\ CopyTo(r) = job[r].own
      /\ pc[r] = "place" => CopyFrom(r) = job[r].target /\ CopyTo(r) = Exec
      /\ pc[r] = "restore" => CopyFrom(r) = job[r].own /\ CopyTo(r) = Exec
  BY <1>3, CopyNames
<1>6. pc[r] = "place" => job[r].target # Exec
  BY <1>2 DEF Kinds, Target
<1>7. CopyFrom(r) # CopyTo(r) /\ \A q \in Requests : CopyTo(r) # Tmp(q)
  BY <1>1, <1>3, <1>4, <1>5, <1>6
<1>8. /\ CopyFrom(r) \in DOMAIN dir /\ CopyTo(r) \in DOMAIN dir
      /\ job[r].source = dir[CopyFrom(r)] /\ job[r].sink = dir[CopyTo(r)]
  BY <1>2 DEF Copying
<1>9. \A n \in DOMAIN dir : dir[n] = job[r].sink => n = CopyTo(r)
  BY <1>8 DEF Sequential, Injective
<1>10. QED BY <1>1, <1>5, <1>7, <1>8, <1>9 DEF Types

LEMMA CopyWriteKeeps ==
  ASSUME Types, Sequential, NEW r \in Requests, CopyWrite(r)
  PROVE  Kept
<1>1. /\ pc[r] \in {"backup", "place", "restore"} /\ Opened(r) /\ ~job[r].written
      /\ UNCHANGED <<latest, now, running>>
  BY PcSteps DEF CopyWrite
<1>2. /\ AtWork(r) /\ Local(r) /\ job[r] \in Jobs
      /\ pc[r] = "backup" => CopyFrom(r) = Exec /\ CopyTo(r) = job[r].own
      /\ pc[r] = "place" => CopyFrom(r) = job[r].target /\ CopyTo(r) = Exec
      /\ pc[r] = "restore" => CopyFrom(r) = job[r].own /\ CopyTo(r) = Exec
      /\ CopyFrom(r) # CopyTo(r) /\ \A q \in Requests : CopyTo(r) # Tmp(q)
      /\ CopyFrom(r) \in DOMAIN dir /\ CopyTo(r) \in DOMAIN dir
      /\ job[r].source = dir[CopyFrom(r)] /\ job[r].sink = dir[CopyTo(r)]
      /\ job[r].source # job[r].sink
      /\ job[r].source \in Files /\ job[r].sink \in Files
      /\ \A n \in DOMAIN dir : dir[n] = job[r].sink => n = CopyTo(r)
  BY <1>1, CopyApart, PcSteps
<1>3. Target(r) /\ Saving(r) /\ Kinds(r) /\ Binary(r) /\ Copying(r)
  BY <1>2 DEF Local
<1>4. PICK g : g = job[r].sink
  OBVIOUS
<1>5. ~file[g].whole
  BY <1>1, <1>2, <1>3, <1>4 DEF Copying, Content
<1>6. ASSUME Goto(r, pc[r], dir, [job[r] EXCEPT !.written = TRUE]),
             NEW c, c = [file[job[r].source] EXCEPT !.runnable = file[g].runnable],
             file' = [file EXCEPT ![g] = c], UNCHANGED mishaps
      PROVE  Kept
  <2>1. PICK j : j = [job[r] EXCEPT !.written = TRUE]
    OBVIOUS
  <2>2. /\ j \in Jobs /\ j.kind = job[r].kind /\ j.want = job[r].want /\ j.target = job[r].target
        /\ j.own = job[r].own /\ j.source = job[r].source /\ j.sink = job[r].sink /\ j.written = TRUE
    <3>1. j \in Jobs
      BY <1>2, <2>1, CopyJobs, NoneHeld
    <3>2. QED BY <1>2, <2>1, <3>1 DEF Jobs
  <2>3. /\ pc'[r] = pc[r] /\ job'[r] = j /\ dir' = dir /\ AtWork(r)'
        /\ \A q \in Requests : q # r => pc'[q] = pc[q] /\ job'[q] = job[q]
    BY <1>1, <1>6, <2>1, GoesOn
  <2>4. pc' \in [Requests -> Pcs] /\ job' \in [Requests -> Jobs]
    BY <1>6, <2>1, <2>2, JobTypes DEF Types
  <2>5. /\ file' \in [Files -> Contents] /\ \A f \in Files : f # g => file'[f] = file[f]
        /\ file'[g].whole = file[job[r].source].whole /\ file'[g].build = file[job[r].source].build
        /\ file'[g].runnable = file[g].runnable
    <3>1. file \in [Files -> Contents] /\ g \in Files /\ file[g].runnable \in BOOLEAN
          /\ file[job[r].source] \in Contents
      BY <1>2, <1>4 DEF Types, Contents
    <3>2. /\ c \in Contents /\ c.whole = file[job[r].source].whole
          /\ c.build = file[job[r].source].build /\ c.runnable = file[g].runnable
      BY <1>6, <3>1, ModeSet
    <3>3. QED BY <1>6, <3>1, <3>2
  <2>6. Injective'
    BY <2>3 DEF Sequential, Injective
  <2>7. Opened(r)'
    BY <1>1, <2>2, <2>3 DEF Opened
  <2>8. \A q \in Requests, k \in MadeFiles : Unmade(q, k) => g # <<q, k>>
    BY <1>2, <1>4 DEF Sequential, Fresh
  <2>9. \A k \in MadeFiles : Unmade(r, k)' => Unmade(r, k) /\ g # <<r, k>>
    <3>1. \A k \in MadeFiles : Unmade(r, k)' => Unmade(r, k)
      BY <1>1, <2>2, <2>3, <2>7 DEF Unmade, Upg
    <3>2. QED BY <2>8, <3>1
  <2>10. Local(r)'
    <3>1. Kinds(r)' /\ Saving(r)'
      BY <1>1, <1>3, <2>2, <2>3, <2>7, PcSteps DEF Kinds, Saving, Upg
    <3>2. Copying(r)'
      <4>1. CopyFrom(r)' = CopyFrom(r) /\ CopyTo(r)' = CopyTo(r)
        BY <1>1, <1>2, <2>2, <2>3, CopyNamesNext, <1>3 DEF Saving
      <4>2. /\ CopyFrom(r)' \in DOMAIN dir' /\ CopyTo(r)' \in DOMAIN dir'
            /\ job'[r].source = dir'[CopyFrom(r)'] /\ job'[r].sink = dir'[CopyTo(r)']
        BY <1>2, <2>2, <2>3, <4>1
      <4>3. Content(CopyTo(r))' = file'[g] /\ Content(CopyFrom(r))' = file'[job[r].source]
        BY <1>2, <1>4, <2>3, <4>1 DEF Content
      <4>4. file'[job[r].source] = file[job[r].source]
        BY <1>2, <1>4, <2>5
      <4>5. /\ Content(CopyTo(r))'.whole = Content(CopyFrom(r))'.whole
            /\ Content(CopyTo(r))'.build = Content(CopyFrom(r))'.build
        BY <2>5, <4>3, <4>4
      <4>6. job'[r].written = TRUE
        BY <2>2, <2>3
      <4>7. Content(CopyFrom(r))'.whole \in BOOLEAN
        BY <1>2, <2>5, <4>3 DEF Contents
      <4>8. Content(CopyTo(r))'.whole = (job'[r].written /\ Content(CopyFrom(r))'.whole)
        BY <4>5, <4>6, <4>7
      <4>9. QED BY <4>2, <4>5, <4>8, Zenon DEF Copying
    <3>3. Target(r)'
      <4>1. \A n \in DOMAIN dir : n # CopyTo(r) => Content(n)' = Content(n)
        BY <1>2, <1>4, <2>3, <2>5 DEF Content, Types
      <4>2. CASE Upg(r)
        BY <1>2, <1>3, <2>2, <2>3, <4>1, <4>2 DEF Target, Upg
      <4>3. CASE ~Upg(r)
        BY <1>1, <1>2, <1>3, <2>2, <2>3, <4>1, <4>3 DEF Target, Upg
      <4>4. QED BY <4>2, <4>3
    <3>4. Binary(r)'
      BY <1>1, <1>3, <2>3, <2>7 DEF Binary, Exists
    <3>5. QED BY <2>3, <3>1, <3>2, <3>3, <3>4 DEF Local
  <2>11. \A n \in DOMAIN dir' : dir'[n] \in Files /\ n \in DOMAIN dir /\ dir'[n] = dir[n]
    BY <2>3 DEF Types
  <2>12. Types' /\ Sequential'
    BY <1>1, <1>2, <2>3, <2>4, <2>5, <2>6, <2>8, <2>9, <2>10, <2>11, StepKeeps
  <2>13. ASSUME Order PROVE Order'
    <3>1. Work(r) /\ Sound(r)
      BY <1>2, <2>13 DEF Order
    <3>2. \E k \in MadeFiles : g = <<r, k>>
      <4>1. pc[r] = "backup" => g = <<r, "backup">>
        BY <1>1, <1>4, <3>1 DEF Work
      <4>2. pc[r] # "backup" => g \in {<<r, "place">>, <<r, "restore">>, <<r, "tmp">>}
        BY <1>1, <1>2, <1>3, <1>4 DEF Binary, Exists
      <4>3. QED BY <4>1, <4>2 DEF MadeFiles
    <3>3. Spoiled => Spoiled'
      BY <1>1, <2>5, <3>1, <3>2, SpoiledStays
    <3>4. Newest(r)'
      BY <2>2, <2>3, <3>1, NewestStays DEF Work
    <3>5. file'[<<r, "place">>].runnable = file[<<r, "place">>].runnable
      BY <2>5, FilesDiffer DEF MadeFiles
    <3>6. Work(r)'
      BY <1>1, <2>2, <2>3, <3>1, <3>4, <3>5 DEF Work, Upg
    <3>7. \A n \in DOMAIN dir : n # CopyTo(r) => Content(n)' = Content(n)
      BY <1>2, <1>4, <2>3, <2>5 DEF Content, Types
    <3>8. CASE pc[r] = "backup"
      <4>1. ~Content(CopyTo(r)).whole
        BY <1>2, <1>4, <1>5 DEF Content
      <4>2. Exec # CopyTo(r)
        BY <1>2, <3>8
      <4>3. /\ Left => Left'
            /\ ExecUsable => ExecUsable'
            /\ (Exists(Exec) => Good) => (Exists(Exec)' => Good')
        BY <1>2, <2>3, <3>7, <4>1, <4>2, UntouchedStays
      <4>4. Sound(r)' /\ (Fit(r) => Fit(r)')
        BY <2>3, <3>1, <3>8, <4>3 DEF Sound, Fit, Early
      <4>5. QED BY <1>2, <2>3, <2>13, <3>3, <3>6, <4>4, OrderGoesOn
    <3>9. CASE pc[r] # "backup"
      <4>1. CopyTo(r) = Exec /\ job[r].own # Exec
        BY <1>1, <1>2, <1>3, <3>9 DEF Saving
      <4>2. Own(r)' = Own(r)
        BY <2>2, <2>3, <3>1, <3>7, <4>1 DEF Own, Work, Newest, Content
      <4>3. pc'[r] = pc[r] /\ pc[r] \notin Early \cup {"rotate", "remove"}
        BY <1>1, <2>3, <3>9 DEF Early
      <4>4. Sound(r)' /\ (Fit(r) => Fit(r)')
        BY <3>1, <4>2, <4>3 DEF Sound, Fit
      <4>5. QED BY <1>2, <2>3, <2>13, <3>3, <3>6, <4>4, OrderGoesOn
    <3>10. QED BY <3>8, <3>9
  <2>14. QED BY <2>12, <2>13 DEF Kept
<1>7. ASSUME UNCHANGED file,
             Goto(r, ErrorPc(r, pc[r]), dir, [job[r] EXCEPT !.source = NoFile, !.sink = NoFile])
      PROVE  Kept
  <2>1. PICK j : j = [job[r] EXCEPT !.source = NoFile, !.sink = NoFile]
    OBVIOUS
  <2>2. j \in Jobs
    BY <1>2, <2>1, CopyJobs, NoneHeld
  <2>3. /\ j.kind = job[r].kind /\ j.want = job[r].want /\ j.target = job[r].target
        /\ j.own = job[r].own /\ j.sink = NoFile /\ ~j.written
    BY <1>1, <1>2, <2>1, <2>2 DEF Jobs
  <2>4. QED BY <1>1, <1>2, <1>7, <2>1, <2>2, <2>3, FailsKeeps
<1>8. QED BY <1>4, <1>5, <1>6, <1>7 DEF CopyWrite

LEMMA CopyModeKeeps ==
  ASSUME Types, Sequential, NEW r \in Requests, CopyMode(r)
  PROVE  Kept
<1>0. /\ pc[r] \in {"backup", "place", "restore"} /\ job[r].written /\ AtWork(r) /\ Local(r)
      /\ UNCHANGED <<latest, now, running>>
  BY PcSteps DEF CopyMode, AtWork, Sequential
<1>1. Target(r) /\ Saving(r) /\ Kinds(r) /\ Binary(r) /\ Copying(r) /\ Opened(r)
  BY <1>0 DEF Local, Kinds
<1>2. /\ job[r] \in Jobs
      /\ pc[r] = "backup" => CopyFrom(r) = Exec /\ CopyTo(r) = job[r].own
      /\ pc[r] = "place" => CopyFrom(r) = job[r].target /\ CopyTo(r) = Exec
      /\ pc[r] = "restore" => CopyFrom(r) = job[r].own /\ CopyTo(r) = Exec
      /\ CopyFrom(r) # CopyTo(r) /\ \A q \in Requests : CopyTo(r) # Tmp(q)
      /\ CopyFrom(r) \in DOMAIN dir /\ CopyTo(r) \in DOMAIN dir
      /\ job[r].source = dir[CopyFrom(r)] /\ job[r].sink = dir[CopyTo(r)]
      /\ job[r].source # job[r].sink
      /\ job[r].source \in Files /\ job[r].sink \in Files
      /\ \A n \in DOMAIN dir : dir[n] = job[r].sink => n = CopyTo(r)
  BY <1>0, <1>1, CopyApart, PcSteps
<1>3. PICK g, v : g = job[r].sink /\ v = Content(CopyFrom(r)).runnable
  OBVIOUS
<1>4. PICK j : j = [job[r] EXCEPT !.source = NoFile, !.sink = NoFile, !.written = FALSE]
  OBVIOUS
<1>5. /\ j \in Jobs /\ j.kind = job[r].kind /\ j.want = job[r].want /\ j.target = job[r].target
      /\ j.own = job[r].own /\ j.sink = NoFile /\ ~j.written
  <2>1. j \in Jobs
    BY <1>2, <1>4, CopyJobs, NoneHeld
  <2>2. QED BY <1>2, <1>4, <2>1 DEF Jobs
<1>6. SUFFICES ASSUME Goto(r, NextPc(r, pc[r]), dir, j),
                      file' = [file EXCEPT ![g].runnable = v]
               PROVE  Kept
  <2>1. \/ Goto(r, NextPc(r, pc[r]), dir, j) /\ file' = [file EXCEPT ![g].runnable = v]
        \/ Goto(r, ErrorPc(r, pc[r]), dir, j) /\ UNCHANGED file
    BY <1>2, <1>3, <1>4 DEF CopyMode, Exists
  <2>2. QED BY <1>0, <1>5, <2>1, FailsKeeps
<1>7. /\ file' \in [Files -> Contents] /\ \A f \in Files : f # g => file'[f] = file[f]
      /\ \A f \in Files : file'[f].whole = file[f].whole /\ file'[f].build = file[f].build
      /\ file'[g].runnable = v
  <2>1. /\ file \in [Files -> Contents] /\ g \in Files /\ file[g] \in Contents
        /\ v \in BOOLEAN
    BY <1>2, <1>3 DEF Types, Contents, Content
  <2>2. PICK c : c = [file[g] EXCEPT !.runnable = v]
    OBVIOUS
  <2>3. c \in Contents /\ c.whole = file[g].whole /\ c.build = file[g].build /\ c.runnable = v
    BY <2>1, <2>2, ModeSet
  <2>4. file' = [file EXCEPT ![g] = c]
    BY <1>6, <2>1, <2>2
  <2>5. QED BY <2>1, <2>3, <2>4
<1>9. ASSUME Order
      PROVE  /\ Work(r) /\ Sound(r) /\ (Spoiled => Spoiled')
             /\ pc[r] = "backup" => g = <<r, "backup">>
  <2>1. Work(r) /\ Sound(r)
    BY <1>0, <1>9 DEF Order
  <2>2. pc[r] = "backup" => g = <<r, "backup">>
    BY <1>1, <1>3, <2>1 DEF Work
  <2>3. pc[r] # "backup" => g \in {<<r, "place">>, <<r, "restore">>, <<r, "tmp">>}
    BY <1>0, <1>1, <1>2, <1>3 DEF Binary, Exists
  <2>4. \E k \in MadeFiles : g = <<r, k>>
    BY <2>2, <2>3 DEF MadeFiles
  <2>5. QED BY <1>0, <1>7, <2>1, <2>2, <2>4, SpoiledStays
<1>10. /\ Content(CopyTo(r)).whole = Content(CopyFrom(r)).whole
       /\ Content(CopyTo(r)).build = Content(CopyFrom(r)).build
  <2>1. Content(CopyFrom(r)).whole \in BOOLEAN
    BY <1>2 DEF Types, Contents, Content
  <2>2. QED BY <1>0, <1>1, <2>1, Zenon DEF Copying
<1>11. CASE pc[r] = "restore"
  <2>1. Goto(r, "failed", dir, j)
    BY <1>6, <1>11 DEF NextPc
  <2>2. \E m \in DOMAIN dir : g = dir[m]
    BY <1>2, <1>3
  <2>3. Types' /\ Sequential'
    BY <1>0, <1>5, <1>7, <2>1, <2>2, PcSteps, EndKeepsFiles
  <2>4. /\ pc'[r] = "failed" /\ ~AtWork(r)'
        /\ \A q \in Requests : q # r => pc'[q] = pc[q] /\ job'[q] = job[q]
        /\ \A n \in DOMAIN dir : n # Tmp(r) => n \in DOMAIN dir' /\ dir'[n] = dir[n]
    <3>1. "failed" \in Errors /\ "failed" \in Resting
      BY PcSteps
    <3>2. QED BY <2>1, <3>1 DEF Goto, Without, AtWork, Types
  <2>5. ASSUME Order PROVE Order'
    <3>1. CopyTo(r) = Exec /\ CopyFrom(r) = job[r].own /\ Exec # Tmp(r)
      BY <1>2, <1>11, NamesDiffer
    <3>2. Exec \in DOMAIN dir' /\ Content(Exec)' = file'[g]
      BY <1>2, <1>3, <2>4, <3>1 DEF Content
    <3>3. Own(r).whole /\ (Fit(r) => Own(r).runnable)
      BY <1>9, <1>11, <2>5 DEF Sound, Fit, Early
    <3>4. Content(Exec)'.whole /\ (Fit(r) => Content(Exec)'.runnable)
      BY <1>2, <1>3, <1>7, <1>10, <3>1, <3>2, <3>3 DEF Own, Content
    <3>5. Left' /\ (Fit(r) => ExecUsable')
      BY <3>2, <3>4 DEF Left, Good, ExecUsable, Exists
    <3>6. QED BY <1>0, <1>9, <2>4, <2>5, <3>5, OrderEnds
  <2>6. QED BY <2>3, <2>5 DEF Kept
<1>12. ASSUME NEW p \in {"rotate", "remove", "chmod"}, p = NextPc(r, pc[r]),
             pc[r] # "restore"
      PROVE  Kept
  <2>1. /\ pc'[r] = p /\ job'[r] = j /\ dir' = dir /\ AtWork(r)' /\ p \in Pcs
        /\ \A q \in Requests : q # r => pc'[q] = pc[q] /\ job'[q] = job[q]
    BY <1>6, <1>12, GoesOn
  <2>2. pc' \in [Requests -> Pcs] /\ job' \in [Requests -> Jobs]
    BY <1>5, <1>6, <1>12, <2>1, JobTypes
  <2>3. Injective'
    BY <2>1 DEF Sequential, Injective
  <2>4. \/ p = "rotate" /\ pc[r] = "backup" /\ Upg(r)
        \/ p = "remove" /\ pc[r] = "backup" /\ ~Upg(r)
        \/ p = "chmod" /\ pc[r] = "place" /\ ~Upg(r)
    BY <1>0, <1>1, <1>12 DEF NextPc, Upg, Kinds
  <2>5. \A q \in Requests, k \in MadeFiles : Unmade(q, k) => g # <<q, k>>
    BY <1>2, <1>3 DEF Sequential, Fresh
  <2>6. \A k \in MadeFiles : Unmade(r, k)' => Unmade(r, k) /\ g # <<r, k>>
    <3>1. \A k \in MadeFiles : Unmade(r, k)' => Unmade(r, k)
      BY <1>5, <2>1, <2>4 DEF Unmade, Upg
    <3>2. QED BY <2>5, <3>1
  <2>7. ~Opened(r)'
    BY <1>5, <2>1 DEF Opened
  <2>8. \A n \in DOMAIN dir : /\ Content(n)'.whole = Content(n).whole
                              /\ Content(n)'.build = Content(n).build
                              /\ n # CopyTo(r) => Content(n)' = Content(n)
    BY <1>2, <1>3, <1>7, <2>1 DEF Content, Types
  <2>9. Kinds(r)' /\ Copying(r)'
    BY <1>1, <1>5, <2>1, <2>4, <2>7 DEF Kinds, Copying, Upg
  <2>10. Saving(r)'
    BY <1>1, <1>2, <1>5, <2>1, <2>4 DEF Saving, Upg
  <2>11. Target(r)'
    <3>1. CASE Upg(r)
      BY <1>1, <1>5, <2>1, <2>4, <2>8, <3>1 DEF Target, Upg
    <3>2. CASE ~Upg(r)
      BY <1>1, <1>2, <1>5, <2>1, <2>4, <2>8, <3>2 DEF Target, Upg
    <3>3. QED BY <3>1, <3>2
  <2>12. Binary(r)'
    <3>1. CASE pc[r] = "backup"
      BY <1>2, <1>5, <2>1, <2>4, <3>1 DEF Binary, Exists, Upg
    <3>2. CASE pc[r] = "place"
      <4>1. dir[Exec] = <<r, "place">> /\ p = "chmod" /\ ~Upg(r) /\ ~Upg(r)'
        BY <1>1, <1>2, <1>5, <2>1, <2>4, <3>2 DEF Binary, Upg, Exists
      <4>2. job[r].target # job[r].own => AsWanted(r)
        <5>1. Content(CopyFrom(r)).whole \in BOOLEAN
          BY <1>2 DEF Types, Contents, Content
        <5>2. Content(CopyTo(r)).whole = Content(CopyFrom(r)).whole
          BY <1>0, <1>1, <5>1, Zenon DEF Copying
        <5>3. Content(CopyTo(r)).build = Content(CopyFrom(r)).build
          BY <1>0, <1>1 DEF Copying
        <5>4. job[r].target # job[r].own => Content(job[r].target) = job[r].want
          BY <1>1, <2>4, <3>2 DEF Target
        <5>5. QED BY <1>2, <3>2, <5>2, <5>3, <5>4 DEF AsWanted
      <4>3. job[r].target # job[r].own => AsWanted(r)'
        BY <1>2, <1>5, <2>1, <2>8, <3>2, <4>2 DEF AsWanted
      <4>4. QED BY <1>2, <1>5, <2>1, <2>7, <3>2, <4>1, <4>3 DEF Binary, Exists
    <3>3. QED BY <2>4, <3>1, <3>2
  <2>13. Local(r)'
    BY <2>1, <2>9, <2>10, <2>11, <2>12 DEF Local
  <2>14. \A n \in DOMAIN dir' : dir'[n] \in Files /\ n \in DOMAIN dir /\ dir'[n] = dir[n]
    BY <2>1 DEF Types
  <2>15. Types' /\ Sequential'
    BY <1>0, <1>7, <2>1, <2>2, <2>3, <2>5, <2>6, <2>13, <2>14, StepKeeps
  <2>16. ASSUME Order PROVE Order'
    <3>1. Work(r)' /\ Work(r)
      <4>1. Newest(r)'
        BY <1>5, <1>9, <2>1, <2>16, NewestStays DEF Work
      <4>2. pc[r] = "backup" => file'[<<r, "place">>] = file[<<r, "place">>]
        <5>1. SUFFICES ASSUME pc[r] = "backup" PROVE file'[<<r, "place">>] = file[<<r, "place">>]
          OBVIOUS
        <5>2. g = <<r, "backup">>
          BY <1>9, <2>16, <5>1
        <5>3. <<r, "place">> \in Files /\ <<r, "place">> # g
          BY <5>2, FilesDiffer DEF MadeFiles
        <5>4. QED BY <1>7, <5>3
      <4>3. QED BY <1>5, <1>9, <2>1, <2>4, <2>16, <4>1, <4>2 DEF Work, Upg
    <3>2. CASE pc[r] = "place"
      <4>1. CopyTo(r) = Exec /\ job[r].own # Exec /\ job[r].own \in DOMAIN dir
        BY <1>1, <1>2, <1>9, <2>16, <3>2 DEF Saving, Work, Newest
      <4>2. Own(r)' = Own(r)
        BY <1>5, <2>1, <2>8, <4>1 DEF Own, Content
      <4>3. Sound(r)' /\ (Fit(r) => Fit(r)')
        BY <1>9, <2>1, <2>4, <2>16, <3>2, <4>2 DEF Sound, Fit, Early
      <4>4. QED BY <1>0, <1>9, <2>1, <2>16, <3>1, <4>3, OrderGoesOn
    <3>3. CASE pc[r] = "backup"
      <4>1. CopyTo(r) = job[r].own /\ CopyFrom(r) = Exec /\ CopyTo(r) # Exec
        BY <1>2, <3>3
      <4>2. Content(Exec)' = Content(Exec) /\ Content(Exec).whole
        <5>1. Sound(r) /\ Exists(Exec)
          BY <1>2, <1>9, <2>16, <4>1 DEF Exists
        <5>2. QED BY <1>2, <2>8, <3>3, <4>1, <5>1 DEF Sound, Good, Early
      <4>3. ExecUsable => ExecUsable'
        BY <1>0, <2>1, <2>8, <4>2, UntouchedStays
      <4>4. Own(r)' = file'[g] /\ Own(r)'.whole
        <5>1. job'[r].own = job[r].own /\ dir' = dir /\ dir[job[r].own] = g
          BY <1>2, <1>3, <1>5, <2>1, <4>1
        <5>2. Own(r)' = file'[g]
          BY <5>1 DEF Own, Content
        <5>3. file[g].whole
          BY <1>10, <4>1, <4>2, <5>1 DEF Content
        <5>4. g \in Files
          BY <1>2, <1>3, <4>1, <5>1 DEF Types
        <5>5. QED BY <1>7, <5>2, <5>3, <5>4
      <4>5. ExecUsable => Own(r)'.runnable
        BY <1>3, <1>7, <4>1, <4>4 DEF ExecUsable
      <4>6. Sound(r)'
        BY <2>1, <2>4, <3>3, <4>4 DEF Sound, Early
      <4>7. Fit(r) => Fit(r)'
        BY <2>1, <2>4, <3>3, <4>3, <4>5 DEF Fit, Early
      <4>8. QED BY <1>0, <1>9, <2>1, <2>16, <3>1, <4>6, <4>7, OrderGoesOn
    <3>4. QED BY <2>4, <3>2, <3>3
  <2>17. QED BY <2>15, <2>16 DEF Kept
<1>13. pc[r] # "restore" => NextPc(r, pc[r]) \in {"rotate", "remove", "chmod"}
  BY <1>0, <1>1 DEF NextPc, Kinds, Upg
<1>14. QED BY <1>11, <1>12, <1>13

LEMMA RemoveExecKeeps ==
  ASSUME Types, Sequential, NEW r \in Requests, RemoveExec(r)
  PROVE  Kept
<1>1. /\ pc[r] = "remove" /\ AtWork(r) /\ Local(r) /\ job[r] \in Jobs
      /\ UNCHANGED <<latest, now, running, file>>
  BY PcSteps DEF RemoveExec, AtWork, Sequential, Types, Step, Fails
<1>2. Target(r) /\ Saving(r) /\ Kinds(r) /\ Binary(r) /\ ~Opened(r)
  BY <1>1, PcSteps DEF Local, Kinds
<1>f. SUFFICES ASSUME Step(r, NextPc(r, "remove"), [n \in DOMAIN dir \ {Exec} |-> dir[n]])
               PROVE  Kept
  BY <1>1, <1>2, FailsAtOnce DEF RemoveExec
<1>3. PICK d : d = [n \in DOMAIN dir \ {Exec} |-> dir[n]]
  OBVIOUS
<1>4. PICK p \in {"rename", "place"} : p = NextPc(r, "remove")
  BY DEF NextPc
<1>5. Goto(r, p, d, job[r])
  BY <1>f, <1>3, <1>4 DEF Step
<1>6. /\ pc'[r] = p /\ job'[r] = job[r] /\ dir' = d /\ AtWork(r)' /\ p \in Pcs
      /\ \A q \in Requests : q # r => pc'[q] = pc[q] /\ job'[q] = job[q]
  BY <1>5, GoesOn
<1>7. pc' \in [Requests -> Pcs] /\ job' \in [Requests -> Jobs]
  BY <1>1, <1>5, <1>6, JobTypes
<1>8. DOMAIN dir' = DOMAIN dir \ {Exec} /\ \A n \in DOMAIN dir' : dir'[n] = dir[n]
  BY <1>3, <1>6
<1>9. Injective'
  BY <1>8 DEF Sequential, Injective
<1>10. p = IF Upg(r) THEN "rename" ELSE "place"
  BY <1>4 DEF NextPc, Upg
<1>11. \A k \in MadeFiles : Unmade(r, k)' => Unmade(r, k)
  BY <1>1, <1>6, <1>10 DEF Unmade, Upg, Opened
<1>12. \A q \in Requests, k \in MadeFiles : NoFile # <<q, k>>
  BY FilesDiffer
<1>13. ~Opened(r)'
  BY <1>2, <1>6 DEF Opened
<1>14. Kinds(r)' /\ Copying(r)'
  BY <1>1, <1>2, <1>6, <1>10, <1>13 DEF Kinds, Copying, Upg
<1>15. Saving(r)'
  BY <1>1, <1>2, <1>6, <1>8, <1>10 DEF Saving, Upg
<1>16. Target(r)'
  <2>1. \A n \in DOMAIN dir' : Content(n)' = Content(n)
    BY <1>1, <1>8 DEF Content
  <2>2. CASE Upg(r)
    BY <1>1, <1>2, <1>6, <1>8, <1>10, <2>1, <2>2, NamesDiffer DEF Target, Upg
  <2>3. CASE ~Upg(r)
    BY <1>1, <1>2, <1>6, <1>8, <1>10, <2>1, <2>3 DEF Target, Upg
  <2>4. QED BY <2>2, <2>3
<1>17. Binary(r)'
  BY <1>6, <1>8, <1>10 DEF Binary, Exists
<1>18. Local(r)'
  BY <1>6, <1>14, <1>15, <1>16, <1>17 DEF Local
<1>19. \A n \in DOMAIN dir' : dir'[n] \in Files /\ n \in DOMAIN dir /\ dir'[n] = dir[n]
  BY <1>8 DEF Types
<1>20. file' \in [Files -> Contents] /\ \A f \in Files : file'[f] = file[f]
  BY <1>1 DEF Types
<1>21. Types' /\ Sequential'
  BY <1>1, <1>6, <1>7, <1>9, <1>11, <1>12, <1>18, <1>19, <1>20, StepKeeps
<1>22. ASSUME Order PROVE Order'
  <2>1. Work(r) /\ Sound(r) /\ (Spoiled => Spoiled')
    BY <1>1, <1>20, <1>22, SpoiledStays DEF Order
  <2>2. job[r].own # Exec /\ job[r].own \in DOMAIN dir
    BY <1>1, <1>2, <2>1 DEF Saving, Work, Newest
  <2>3. Newest(r)'
    BY <1>6, <1>8, <2>1, <2>2, NewestStays DEF Work
  <2>4. Work(r)'
    BY <1>1, <1>6, <1>10, <2>1, <2>3 DEF Work, Upg
  <2>5. \A n \in DOMAIN dir : n # Exec => n \in DOMAIN dir' /\ Content(n)' = Content(n)
    BY <1>1, <1>8 DEF Content
  <2>6. Own(r)' = Own(r)
    BY <1>6, <2>2, <2>5 DEF Own
  <2>7. Sound(r)' /\ (Fit(r) => Fit(r)')
    BY <1>1, <1>4, <1>6, <2>1, <2>6 DEF Sound, Fit, Early
  <2>8. QED BY <1>1, <1>6, <1>22, <2>1, <2>4, <2>7, OrderGoesOn
<1>23. QED BY <1>21, <1>22 DEF Kept

\* There are finitely many backups.
LEMMA BackupsAreFinite ==
  ASSUME Types
  PROVE  IsFiniteSet(ListBackups) /\ \A n \in ListBackups : IsBackup(n) /\ n[3] \in 0..now
<1>1. \A n \in ListBackups : IsBackup(n)
  BY NamesDiffer DEF Types, ListBackups
<1>2. now \in Nat /\ Builds \in Nat
  BY Constants DEF Types
<1>3. \A n \in ListBackups : n[3] \in 0..now
  BY <1>1, <1>2, NamesDiffer DEF IsBackup
<1>4. IsFiniteSet(ListBackups)
  <2>1. PICK S, T : S = 0..Builds /\ T = 0..now
    OBVIOUS
  <2>2. IsFiniteSet(S) /\ IsFiniteSet(T)
    BY <1>2, <2>1, FS_Interval
  <2>3. IsFiniteSet(S \X T)
    BY <2>2, FS_Product
  <2>4. PICK f : f = [p \in S \X T |-> Backup(p[1], p[2])]
    OBVIOUS
  <2>5. PICK R : R = {f[p] : p \in S \X T}
    OBVIOUS
  <2>6. f \in [S \X T -> R] /\ \A n \in R : \E p \in S \X T : f[p] = n
    BY <2>4, <2>5
  <2>7. IsFiniteSet(R)
    BY <2>3, <2>6, FS_Surjection DEF Surjection
  <2>8. ASSUME NEW n \in ListBackups PROVE n \in R
    <3>1. PICK l \in S, t \in T : n = Backup(l, t)
      BY <1>1, <2>1 DEF IsBackup
    <3>2. <<l, t>> \in S \X T /\ f[<<l, t>>] = n
      BY <2>4, <3>1
    <3>3. QED BY <2>5, <3>2
  <2>9. QED BY <2>7, <2>8, FS_Subset
<1>5. QED BY <1>1, <1>3, <1>4

\* A rotation that removes a backup keeps one.
LEMMA RotationLeavesOne ==
  ASSUME Types, NEW old \in SUBSET ListBackups, old # {},
         Cardinality(ListBackups \ old) =
           IF Cardinality(ListBackups) <= MaxBackups THEN Cardinality(ListBackups) ELSE MaxBackups
  PROVE  ListBackups \ old # {}
<1>1. Cardinality(ListBackups) # 0 /\ MaxBackups # 0
  BY BackupsAreFinite, FS_EmptySet, UpgradeAssumption
<1>2. Cardinality({}) = 0
  BY FS_EmptySet
<1>3. QED BY <1>1, <1>2

\* The rotation keeps the newest backup, whatever the order of the others.
LEMMA NewestIsKept ==
  ASSUME Types, NEW r \in Requests, Newest(r), job[r].own # Exec, NEW old \in SUBSET ListBackups,
         \/ Cardinality(ListBackups \ old) =
              IF Cardinality(ListBackups) <= MaxBackups THEN Cardinality(ListBackups) ELSE MaxBackups
         \/ old = {},
         \A o \in old, k \in ListBackups \ old : o[3] <= k[3]
  PROVE  job[r].own \notin old
<1>1. SUFFICES ASSUME job[r].own \in old PROVE FALSE
  OBVIOUS
<1>2. PICK k \in ListBackups \ old : TRUE
  BY <1>1, RotationLeavesOne
<1>3. k[3] < job[r].own[3] /\ job[r].own[3] <= k[3] /\ k \in ListBackups /\ job[r].own \in ListBackups
  BY <1>1 DEF Newest
<1>4. \A n \in ListBackups : n[3] \in Nat
  BY BackupsAreFinite DEF Types
<1>5. QED BY <1>3, <1>4

LEMMA RotateBackupsKeeps ==
  ASSUME Types, Sequential, NEW r \in Requests, RotateBackups(r)
  PROVE  Kept
<1>1. /\ pc[r] = "rotate" /\ AtWork(r) /\ Local(r) /\ job[r] \in Jobs
      /\ UNCHANGED <<latest, now, running, file>>
  BY PcSteps DEF RotateBackups, AtWork, Sequential, Types, Step
<1>2. Target(r) /\ Saving(r) /\ Kinds(r) /\ Binary(r) /\ ~Opened(r)
  BY <1>1, PcSteps DEF Local, Kinds
<1>3. PICK old \in SUBSET ListBackups, removed \in SUBSET ListBackups :
        /\ \/ Cardinality(ListBackups \ old) =
                IF Cardinality(ListBackups) <= MaxBackups
                THEN Cardinality(ListBackups) ELSE MaxBackups
           \/ old = {}
        /\ \A o \in old, k \in ListBackups \ old : o[3] <= k[3]
        /\ removed \subseteq old
        /\ Step(r, NextPc(r, "rotate"), [n \in DOMAIN dir \ removed |-> dir[n]])
  BY DEF RotateBackups
<1>4. PICK d : d = [n \in DOMAIN dir \ removed |-> dir[n]]
  OBVIOUS
<1>5. Goto(r, NextPc(r, "rotate"), d, job[r])
  BY <1>3, <1>4 DEF Step
<1>6. \A n \in DOMAIN d : n \in DOMAIN dir /\ d[n] = dir[n]
  BY <1>4
<1>7. file' \in [Files -> Contents] /\ \A f \in Files : file'[f] = file[f]
  BY <1>1 DEF Types
<1>8. CASE ~Upg(r)
  <2>1. Goto(r, "ok", d, job[r])
    BY <1>5, <1>8 DEF NextPc, Upg
  <2>2. Types' /\ Sequential'
    BY <1>1, <1>6, <1>7, <2>1, EndKeepsFiles
  <2>3. /\ pc'[r] = "ok" /\ ~AtWork(r)'
        /\ \A q \in Requests : q # r => pc'[q] = pc[q] /\ job'[q] = job[q]
        /\ \A n \in DOMAIN d : n # Tmp(r) => n \in DOMAIN dir' /\ dir'[n] = d[n]
    BY <2>1, Ends
  <2>4. ASSUME Order PROVE Order'
    <3>1. Work(r) /\ Sound(r) /\ (Spoiled => Spoiled')
      BY <1>1, <1>7, <2>4, SpoiledStays DEF Order
    <3>2. /\ job[r].own # Exec /\ job[r].own \in DOMAIN dir /\ Own(r).whole
          /\ job[r].own # Tmp(r)
      BY <1>1, <3>1, OwnIsThere DEF Early
    <3>3. job[r].own \notin removed
      BY <1>3, <3>1, <3>2, NewestIsKept DEF Work
    <3>4. Left'
      <4>1. job[r].own \in DOMAIN d /\ d[job[r].own] = dir[job[r].own]
        BY <1>4, <3>2, <3>3
      <4>2. PICK o : o = job[r].own
        OBVIOUS
      <4>3. o \in DOMAIN dir' /\ Content(o)'.whole /\ o # Exec /\ o # Tmp(r)
        BY <1>1, <2>3, <3>2, <4>1, <4>2 DEF Own, Content
      <4>4. \A q \in Requests : AtWork(q)' => q = r
        BY <1>1, <2>3, Alone
      <4>5. QED BY <4>3, <4>4, SpareNext
    <3>5. Fit(r) => ExecUsable'
      <4>1. SUFFICES ASSUME ExecUsable PROVE ExecUsable'
        BY <1>1 DEF Fit
      <4>2. Exec \in DOMAIN d /\ d[Exec] = dir[Exec]
        BY <1>4, <4>1, NamesDiffer DEF ListBackups, ExecUsable, Exists
      <4>3. Exec \in DOMAIN dir' /\ Content(Exec)' = Content(Exec)
        BY <1>1, <2>3, <4>2, NamesDiffer DEF Content
      <4>4. QED BY <4>1, <4>3 DEF ExecUsable, Exists
    <3>6. QED BY <1>1, <2>3, <2>4, <3>1, <3>4, <3>5, OrderEnds
  <2>5. QED BY <2>2, <2>4 DEF Kept
<1>9. CASE Upg(r)
  <2>1. Goto(r, "remove", d, job[r])
    BY <1>5, <1>9 DEF NextPc, Upg
  <2>2. /\ pc'[r] = "remove" /\ job'[r] = job[r] /\ dir' = d /\ AtWork(r)' /\ "remove" \in Pcs
        /\ \A q \in Requests : q # r => pc'[q] = pc[q] /\ job'[q] = job[q]
    BY <2>1, GoesOn
  <2>3. pc' \in [Requests -> Pcs] /\ job' \in [Requests -> Jobs]
    BY <1>1, <2>1, <2>2, JobTypes
  <2>4. Injective'
    BY <1>6, <2>2 DEF Sequential, Injective
  <2>5. \A k \in MadeFiles : Unmade(r, k)' => Unmade(r, k)
    BY <1>1, <1>9, <2>2 DEF Unmade, Upg, Opened
  <2>6. \A q \in Requests, k \in MadeFiles : NoFile # <<q, k>>
    BY FilesDiffer
  <2>7. \A n \in DOMAIN dir' : dir'[n] \in Files /\ n \in DOMAIN dir /\ dir'[n] = dir[n]
    BY <1>6, <2>2 DEF Types
  <2>8. \A n : n \in DOMAIN dir /\ n[1] # "backup" => n \in DOMAIN dir'
    BY <1>4, <2>2 DEF ListBackups
  <2>9. Exec \in DOMAIN dir' /\ (Tmp(r) \in DOMAIN dir => Tmp(r) \in DOMAIN dir')
    BY <1>1, <1>2, <2>8, NamesDiffer DEF Binary, Exists
  <2>10. Kinds(r)' /\ Copying(r)'
    BY <1>1, <1>2, <1>9, <2>2 DEF Kinds, Copying, Upg, Opened
  <2>11. Saving(r)'
    BY <1>1, <1>2, <1>9, <2>2 DEF Saving, Upg, Opened
  <2>12. Target(r)'
    BY <1>1, <1>2, <1>9, <2>2, <2>7, <2>9 DEF Target, Upg, Content
  <2>13. Binary(r)'
    BY <1>9, <2>2, <2>9 DEF Binary, Upg, Exists
  <2>14. Local(r)'
    BY <2>2, <2>10, <2>11, <2>12, <2>13 DEF Local
  <2>15. Types' /\ Sequential'
    BY <1>1, <1>7, <2>2, <2>3, <2>4, <2>5, <2>6, <2>7, <2>14, StepKeeps
  <2>16. ASSUME Order PROVE Order'
    <3>1. Work(r) /\ Sound(r) /\ (Spoiled => Spoiled')
      BY <1>1, <1>7, <2>16, SpoiledStays DEF Order
    <3>2. job[r].own \in DOMAIN dir' /\ job[r].own # Exec
      <4>1. job[r].own # Exec
        BY <1>1, <1>2 DEF Saving
      <4>2. job[r].own \notin removed
        BY <1>3, <3>1, <4>1, NewestIsKept DEF Work
      <4>3. QED BY <1>4, <2>2, <3>1, <4>1, <4>2 DEF Work, Newest
    <3>3. Newest(r)'
      BY <2>2, <2>7, <3>1, <3>2, NewestStays DEF Work
    <3>4. Work(r)'
      BY <1>1, <1>9, <2>2, <3>1, <3>3 DEF Work, Upg
    <3>5. \A n \in DOMAIN dir' : Content(n)' = Content(n)
      BY <1>1, <2>7 DEF Content
    <3>6. (ExecUsable => ExecUsable') /\ Own(r)' = Own(r)
      BY <2>2, <2>9, <3>2, <3>5 DEF ExecUsable, Exists, Own
    <3>7. Sound(r)' /\ (Fit(r) => Fit(r)')
      BY <1>1, <2>2, <3>1, <3>6 DEF Sound, Fit, Early
    <3>8. QED BY <1>1, <2>2, <2>16, <3>1, <3>4, <3>7, OrderGoesOn
  <2>17. QED BY <2>15, <2>16 DEF Kept
<1>10. QED BY <1>8, <1>9

LEMMA RenameTmpKeeps ==
  ASSUME Types, Sequential, NEW r \in Requests, RenameTmp(r)
  PROVE  Kept
<1>1. /\ pc[r] = "rename" /\ AtWork(r) /\ Local(r) /\ job[r] \in Jobs /\ UNCHANGED file
  BY PcSteps DEF RenameTmp, Fails, AtWork, Sequential, Types
<1>2. Target(r) /\ Saving(r) /\ Kinds(r) /\ Binary(r) /\ ~Opened(r) /\ Upg(r)
  BY <1>1, PcSteps DEF Local, Kinds
<1>3. /\ Tmp(r) \in DOMAIN dir /\ dir[Tmp(r)] = <<r, "tmp">>
      /\ Content(Tmp(r)).whole /\ Content(Tmp(r)).build = job[r].want.build /\ job[r].want.whole
  BY <1>1, <1>2 DEF Target
<1>4. ~Exists(Exec)
  BY <1>1, <1>2 DEF Binary
<1>5. \A q \in Requests, k \in MadeFiles : NoFile # <<q, k>>
  BY FilesDiffer
<1>6. file' \in [Files -> Contents] /\ \A f \in Files : file'[f] = file[f]
  BY <1>1 DEF Types
<1>7. ASSUME Step(r, "chmod", With(Exec, dir[Tmp(r)], Without(r, dir)))
      PROVE  Kept
  <2>1. PICK d : d = With(Exec, dir[Tmp(r)], Without(r, dir))
    OBVIOUS
  <2>2. Goto(r, "chmod", d, job[r]) /\ UNCHANGED <<latest, now, running>>
    BY <1>7, <2>1 DEF Step
  <2>3. /\ pc'[r] = "chmod" /\ job'[r] = job[r] /\ dir' = d /\ AtWork(r)' /\ "chmod" \in Pcs
        /\ \A q \in Requests : q # r => pc'[q] = pc[q] /\ job'[q] = job[q]
    BY <2>2, GoesOn
  <2>4. pc' \in [Requests -> Pcs] /\ job' \in [Requests -> Jobs]
    BY <1>1, <2>2, <2>3, JobTypes
  <2>5. /\ DOMAIN dir' = (DOMAIN dir \ {Tmp(r)}) \cup {Exec} /\ dir'[Exec] = <<r, "tmp">>
        /\ \A n \in DOMAIN dir \ {Tmp(r)} : dir'[n] = dir[n]
    BY <1>3, <1>4, <2>1, <2>3 DEF With, Without, Exists
  <2>6. Injective'
    BY <1>3, <2>5 DEF Sequential, Injective
  <2>7. \A k \in MadeFiles : Unmade(r, k)' => Unmade(r, k)
    BY <1>1, <1>2, <2>3 DEF Unmade, Upg
  <2>8. \A n \in DOMAIN dir' : /\ dir'[n] \in Files
                               /\ (n \in DOMAIN dir /\ dir'[n] = dir[n]) \/ n = Exec
                               /\ \E m \in DOMAIN dir : dir'[n] = dir[m]
    BY <1>3, <2>5 DEF Types
  <2>9. Local(r)'
    <3>1. Kinds(r)' /\ Copying(r)' /\ Saving(r)' /\ Target(r)'
      BY <1>1, <1>2, <1>3, <2>3 DEF Kinds, Copying, Saving, Target, Upg, Opened
    <3>2. AsWanted(r)'
      <4>1. Content(Exec)' = Content(Tmp(r))
        BY <1>1, <1>3, <2>5 DEF Content
      <4>2. Content(Tmp(r)).whole \in BOOLEAN /\ job[r].want.whole \in BOOLEAN
        BY <1>1, <1>3 DEF Content, Jobs, Contents, Types
      <4>3. Content(Tmp(r)).whole = job[r].want.whole
        BY <1>3, <4>2
      <4>4. QED BY <1>3, <2>3, <4>1, <4>3 DEF AsWanted
    <3>3. Binary(r)'
      BY <1>2, <2>3, <2>5, <3>2 DEF Binary, Upg, Exists
    <3>4. QED BY <2>3, <3>1, <3>3 DEF Local
  <2>10. Types' /\ Sequential'
    BY <1>1, <1>5, <1>6, <2>2, <2>3, <2>4, <2>6, <2>7, <2>8, <2>9, StepKeeps
  <2>11. ASSUME Order PROVE Order'
    <3>1. Work(r) /\ Sound(r) /\ (Spoiled => Spoiled')
      BY <1>1, <1>6, <2>11, SpoiledStays DEF Order
    <3>2. job[r].own # Tmp(r) /\ job[r].own # Exec /\ job[r].own \in DOMAIN dir
      BY <1>1, <3>1, OwnIsThere DEF Early
    <3>3. Newest(r)'
      BY <2>3, <2>5, <3>1, <3>2, NewestStays, NamesDiffer DEF Work
    <3>4. Work(r)'
      BY <1>1, <1>2, <2>3, <3>1, <3>3 DEF Work, Upg
    <3>5. Own(r)' = Own(r)
      BY <1>1, <2>3, <2>5, <3>2 DEF Own, Content
    <3>6. Sound(r)' /\ (Fit(r) => Fit(r)')
      BY <1>1, <2>3, <3>1, <3>5 DEF Sound, Fit, Early
    <3>7. QED BY <1>1, <2>3, <2>11, <3>1, <3>4, <3>6, OrderGoesOn
  <2>12. QED BY <2>10, <2>11 DEF Kept
<1>8. QED BY <1>1, <1>2, <1>7, FailsAtOnce DEF RenameTmp

LEMMA ChmodExecKeeps ==
  ASSUME Types, Sequential, NEW r \in Requests, ChmodExec(r)
  PROVE  Kept
<1>1. /\ pc[r] = "chmod" /\ AtWork(r) /\ Local(r) /\ job[r] \in Jobs
      /\ UNCHANGED <<latest, now, running>>
  BY PcSteps DEF ChmodExec, Fails, AtWork, Sequential, Types, Step
<1>2. Target(r) /\ Saving(r) /\ Kinds(r) /\ Binary(r) /\ ~Opened(r)
  BY <1>1, PcSteps DEF Local, Kinds
<1>3. Exec \in DOMAIN dir
  BY <1>1, <1>2 DEF Binary, Exists
<1>4. PICK g : g = dir[Exec]
  OBVIOUS
<1>5. SUFFICES ASSUME file' = [file EXCEPT ![g].runnable = TRUE],
                      Goto(r, NextPc(r, "chmod"), dir, job[r])
               PROVE  Kept
  BY <1>1, <1>2, <1>4, FailsAtOnce DEF ChmodExec, Step
<1>6. /\ file' \in [Files -> Contents] /\ \A f \in Files : f # g => file'[f] = file[f]
      /\ file'[g].whole = file[g].whole /\ file'[g].build = file[g].build
      /\ file'[g].runnable = TRUE
      /\ \A f \in Files : file'[f].whole = file[f].whole
  <2>1. file \in [Files -> Contents] /\ g \in Files /\ file[g] \in Contents
    BY <1>3, <1>4 DEF Types
  <2>2. PICK c : c = [file[g] EXCEPT !.runnable = TRUE]
    OBVIOUS
  <2>3. c \in Contents /\ c.whole = file[g].whole /\ c.build = file[g].build /\ c.runnable = TRUE
    BY <2>1, <2>2, ModeSet
  <2>4. file' = [file EXCEPT ![g] = c]
    BY <1>5, <2>1, <2>2
  <2>5. QED BY <2>1, <2>3, <2>4
<1>7. Spoiled => Spoiled'
  <2>1. SUFFICES ASSUME NEW q \in Requests, file[<<q, "place">>].runnable, ~file[<<q, "place">>].whole
                 PROVE  Spoiled'
    BY DEF Spoiled
  <2>2. <<q, "place">> \in Files
    BY FilesDiffer DEF MadeFiles
  <2>3. file'[<<q, "place">>].runnable /\ ~file'[<<q, "place">>].whole
    BY <1>6, <2>1, <2>2
  <2>4. QED BY <2>3 DEF Spoiled
<1>8. CASE Upg(r)
  <2>1. Goto(r, "ok", dir, job[r])
    BY <1>5, <1>8 DEF NextPc, Upg
  <2>2. \E m \in DOMAIN dir : g = dir[m]
    BY <1>3, <1>4
  <2>3. Types' /\ Sequential'
    BY <1>1, <1>6, <2>1, <2>2, EndKeepsFiles
  <2>4. /\ pc'[r] = "ok" /\ ~AtWork(r)'
        /\ \A q \in Requests : q # r => pc'[q] = pc[q] /\ job'[q] = job[q]
        /\ \A n \in DOMAIN dir : n # Tmp(r) => n \in DOMAIN dir' /\ dir'[n] = dir[n]
    BY <2>1, Ends
  <2>5. ExecUsable'
    <3>1. Exec \in DOMAIN dir' /\ Content(Exec)' = file'[g]
      BY <1>3, <1>4, <2>4, NamesDiffer DEF Content
    <3>2. file[g].whole
      BY <1>1, <1>2, <1>4, <1>8 DEF Binary, Target, AsWanted, Content
    <3>3. QED BY <1>6, <3>1, <3>2 DEF ExecUsable, Exists
  <2>6. Left'
    BY <2>5 DEF Left, Good, ExecUsable
  <2>7. ASSUME Order PROVE Order'
    BY <1>1, <1>7, <2>4, <2>5, <2>6, <2>7, OrderEnds
  <2>8. QED BY <2>3, <2>7 DEF Kept
<1>9. CASE ~Upg(r)
  <2>1. Goto(r, "rotate", dir, job[r])
    BY <1>5, <1>9 DEF NextPc, Upg
  <2>2. /\ pc'[r] = "rotate" /\ job'[r] = job[r] /\ dir' = dir /\ AtWork(r)' /\ "rotate" \in Pcs
        /\ \A q \in Requests : q # r => pc'[q] = pc[q] /\ job'[q] = job[q]
    BY <2>1, GoesOn
  <2>3. pc' \in [Requests -> Pcs] /\ job' \in [Requests -> Jobs]
    BY <1>1, <2>1, <2>2, JobTypes
  <2>4. Injective'
    BY <2>2 DEF Sequential, Injective
  <2>5. \A q \in Requests, k \in MadeFiles : Unmade(q, k) => g # <<q, k>>
    BY <1>3, <1>4 DEF Sequential, Fresh
  <2>6. \A k \in MadeFiles : Unmade(r, k)' => Unmade(r, k) /\ g # <<r, k>>
    <3>1. \A k \in MadeFiles : ~Unmade(r, k)'
      BY <1>9, <2>2 DEF Unmade, Upg
    <3>2. QED BY <3>1
  <2>7. Kinds(r)' /\ Copying(r)' /\ Saving(r)' /\ Target(r)'
    BY <1>1, <1>2, <1>9, <2>2 DEF Kinds, Copying, Saving, Target, Upg, Opened
  <2>8. job[r].target # job[r].own => AsWanted(r)' /\ Content(Exec)'.runnable
    <3>1. Content(Exec)' = file'[g] /\ Content(Exec) = file[g]
      BY <1>4, <2>2 DEF Content
    <3>2. job[r].target # job[r].own => AsWanted(r)
      BY <1>1, <1>2 DEF Binary
    <3>3. QED BY <1>6, <2>2, <3>1, <3>2 DEF AsWanted
  <2>9. Binary(r)'
    BY <1>3, <1>9, <2>2, <2>8 DEF Binary, Exists, Upg
  <2>10. Local(r)'
    BY <2>2, <2>7, <2>9 DEF Local
  <2>11. \A n \in DOMAIN dir' : dir'[n] \in Files /\ n \in DOMAIN dir /\ dir'[n] = dir[n]
    BY <2>2 DEF Types
  <2>12. Types' /\ Sequential'
    BY <1>1, <1>6, <2>2, <2>3, <2>4, <2>5, <2>6, <2>10, <2>11, StepKeeps
  <2>13. ASSUME Order PROVE Order'
    <3>1. Work(r) /\ Sound(r)
      BY <1>1, <2>13 DEF Order
    <3>2. Newest(r)'
      BY <2>2, <3>1, NewestStays DEF Work
    <3>3. Work(r)'
      BY <1>9, <2>2, <3>1, <3>2 DEF Work, Upg
    <3>4. job[r].own # Exec /\ job[r].own \in DOMAIN dir
      BY <1>1, <3>1, OwnIsThere DEF Early
    <3>5. Own(r)' = Own(r)
      <4>1. dir[job[r].own] # g /\ dir[job[r].own] \in Files
        BY <1>3, <1>4, <3>4 DEF Sequential, Injective, Types
      <4>2. QED BY <1>6, <2>2, <4>1 DEF Own, Content
    <3>6. Sound(r)'
      BY <1>1, <2>2, <3>1, <3>5 DEF Sound, Early
    <3>7. Fit(r) => Fit(r)' \/ Spoiled'
      <4>1. g = <<r, "place">>
        BY <1>1, <1>2, <1>4, <1>9 DEF Binary
      <4>2. Content(Exec)' = file'[g] /\ Exec \in DOMAIN dir'
        BY <1>3, <1>4, <2>2 DEF Content
      <4>3. file'[g].whole => ExecUsable'
        BY <1>6, <4>2 DEF ExecUsable, Exists
      <4>4. ~file'[g].whole => Spoiled'
        BY <1>6, <4>1 DEF Spoiled
      <4>5. ExecUsable' /\ Fit(r) => Fit(r)'
        BY <1>1, <2>2, <3>5 DEF Fit, Early
      <4>6. QED BY <4>3, <4>4, <4>5
    <3>8. QED BY <1>1, <1>7, <2>2, <2>13, <3>3, <3>6, <3>7, OrderGoesOn
  <2>14. QED BY <2>12, <2>13 DEF Kept
<1>10. QED BY <1>8, <1>9

\* A request begins while no other is at work.
LEMMA StartKeeps ==
  ASSUME Types, Sequential, NEW r \in Requests, pc[r] = "idle", Quiet,
         NEW j \in Jobs, NEW p, Goto(r, p, dir, j), UNCHANGED <<latest, now, file, running>>,
         "blind" \notin mishaps' => (Exists(Exec) => Good), j.own = Exec, j.sink = NoFile, ~j.written, j.kind # "none",
         \/ p \in {"download", "ok"} /\ j.kind # "rollback" /\ j.want.whole
         \/ p = "stat" /\ j.kind = "rollback"
                       /\ j.target \in DOMAIN dir /\ j.target # Exec /\ Content(j.target) = j.want
  PROVE  Kept
<1>1. p \in Pcs /\ p \notin Errors /\ p # "chmod" /\ p # "rotate" /\ p # "restore"
  BY PcSteps
<1>2. /\ pc'[r] = p /\ dir' = dir /\ job'[r] = (IF p \in Resting THEN NoJob ELSE j)
      /\ \A q \in Requests : q # r => pc'[q] = pc[q] /\ job'[q] = job[q]
  BY <1>1 DEF Goto, Types
<1>3. pc' \in [Requests -> Pcs] /\ job' \in [Requests -> Jobs]
  BY <1>1, JobTypes
<1>4. Types'
  BY <1>2, <1>3 DEF Types, IsBackup
<1>5. Injective'
  BY <1>2 DEF Sequential, Injective
<1>6. One' /\ \A q \in Requests : q # r => Local(q)'
  BY <1>2 DEF Quiet, Sequential, Local, One, AtWork
<1>7. Fresh'
  <2>1. \A k \in MadeFiles : Unmade(r, k)
    BY DEF Unmade, MadeFiles
  <2>2. \A q \in Requests, k \in MadeFiles : Unmade(q, k)' => Unmade(q, k)
    BY <1>2, <2>1 DEF Unmade, Opened, Upg
  <2>3. QED BY <1>2, <2>2 DEF Sequential, Fresh
<1>8. Local(r)'
  <2>1. CASE p = "ok"
    BY <1>2, <2>1, PcSteps DEF Local, AtWork
  <2>2. CASE p # "ok"
    <3>1. p \in {"download", "stat"} /\ job'[r] = j /\ AtWork(r)' /\ ~Opened(r)'
      BY <1>2, <2>2, PcSteps DEF AtWork, Opened
    <3>2. j.kind \in {"api", "command", "rollback"}
      BY DEF Jobs
    <3>3. Kinds(r)' /\ Copying(r)' /\ Saving(r)'
      BY <1>2, <3>1, <3>2 DEF Kinds, Copying, Saving, Upg
    <3>4. Target(r)'
      BY <1>2, <3>1 DEF Target, Upg, Content
    <3>5. Binary(r)'
      BY <1>2, <3>1 DEF Binary
    <3>6. QED BY <3>1, <3>3, <3>4, <3>5 DEF Local
  <2>3. QED BY <2>1, <2>2
<1>9. ASSUME Order, Orderly' PROVE Order'
  <2>1. \A q \in Requests : AtWork(q)' => q = r
    BY <1>2 DEF Quiet, AtWork
  <2>2. Spoiled => Spoiled'
    BY DEF Spoiled
  <2>3. NoLoss' => NoLoss
    BY <1>2 DEF NoLoss, Unrestored
  <2>4. Tmp(r) \notin DOMAIN dir
    <3>1. Unmade(r, "tmp") /\ "tmp" \in MadeFiles
      BY DEF Unmade, MadeFiles
    <3>2. \A n \in DOMAIN dir : dir[n] # <<r, "tmp">>
      BY <3>1 DEF Sequential, Fresh
    <3>3. QED BY <3>2, NamesDiffer DEF Types, IsBackup
  <2>5. (Left => Left') /\ (ExecUsable => ExecUsable') /\ (Good => Good')
        /\ (Exists(Exec)' => Exists(Exec))
    <3>1. \A n \in DOMAIN dir : n \in DOMAIN dir' /\ Content(n)' = Content(n)
      BY <1>2 DEF Content
    <3>2. Spare => Left'
      <4>1. SUFFICES ASSUME NEW n \in DOMAIN dir, n # Exec, Content(n).whole PROVE Left'
        BY DEF Spare, Spares
      <4>2. QED BY <2>1, <2>4, <3>1, <4>1, SpareNext
    <3>3. (Good => Good') /\ (ExecUsable => ExecUsable') /\ (Exists(Exec)' => Exists(Exec))
      BY <1>2, <3>1 DEF Good, ExecUsable, Exists
    <3>4. QED BY <3>2, <3>3 DEF Left
  <2>6. Left /\ (NoLoss => Spoiled \/ ExecUsable) /\ (Exists(Exec) => Good)
    BY <1>9 DEF Order, Orderly
  <2>7. CASE p = "ok"
    <3>1. \A q \in Requests : ~AtWork(q)'
      BY <1>2, <2>1, <2>7, PcSteps DEF AtWork
    <3>2. QED BY <2>2, <2>3, <2>5, <2>6, <3>1 DEF Order
  <2>8. CASE p # "ok"
    <3>1. /\ p \in {"download", "stat"} /\ pc'[r] = p /\ job'[r] = j /\ AtWork(r)' /\ ~Opened(r)'
          /\ p = "download" => Upg(r)'
      BY <1>2, <2>8, PcSteps DEF AtWork, Opened, Upg
    <3>2. ~file'[<<r, "place">>].runnable
      <4>1. Unmade(r, "place") /\ "place" \in MadeFiles
        BY DEF Unmade, MadeFiles
      <4>2. file[<<r, "place">>] = Truncated /\ ~Truncated.runnable
        BY <4>1 DEF Sequential, Fresh, Truncated
      <4>3. QED BY <4>2
    <3>3. Work(r)'
      BY <3>1, <3>2 DEF Work, Newest, Upg
    <3>4. Sound(r)' /\ (ExecUsable => Fit(r)')
      BY <2>5, <2>6, <3>1 DEF Sound, Fit, Early
    <3>5. ~Quiet'
      BY <3>1 DEF Quiet
    <3>6. \A q \in Requests : AtWork(q)' => Work(q)' /\ Sound(q)'
      BY <2>1, <3>3, <3>4
    <3>7. NoLoss' => Spoiled' \/ \A q \in Requests : AtWork(q)' => Fit(q)'
      BY <2>1, <2>2, <2>3, <2>6, <3>4
    <3>8. QED BY <3>5, <3>6, <3>7 DEF Order
  <2>9. QED BY <2>7, <2>8
<1>10. QED BY <1>4, <1>5, <1>6, <1>7, <1>8, <1>9 DEF Sequential, Kept

\* It is blind, or finds no incomplete binary.
LEMMA SeesTheBinary ==
  ASSUME NEW r \in Requests, NEW p, NEW j, Start(r, p, j), NoOverlap'
  PROVE  Quiet /\ ("blind" \notin mishaps' => (Exists(Exec) => Good))
<1>1. Quiet
  BY DEF Start, Mishap, NoOverlap, Quiet
<1>2. ASSUME Exists(Exec), ~Content(Exec).whole PROVE "blind" \in mishaps'
  BY <1>1, <1>2 DEF Start, Mishap, Quiet
<1>3. QED BY <1>1, <1>2 DEF Good

LEMMA RunKeeps ==
  ASSUME Types, Sequential, NEW r \in Requests, NoOverlap',
         NEW kind \in {"api", "command"}, NEW label \in 0..Builds, NEW force \in BOOLEAN,
         RunWithProgress(r, kind, label, force)
  PROVE  Kept
<1>1. PICK j : j = [NoJob EXCEPT !.kind = kind, !.label = label, !.want = Whole(latest)]
  OBVIOUS
<1>2. PICK p \in {"download", "ok"} : p = IF force \/ latest > label THEN "download" ELSE "ok"
  OBVIOUS
<1>3. Start(r, p, j)
  BY <1>1, <1>2 DEF RunWithProgress
<1>4. pc[r] = "idle" /\ Goto(r, p, dir, j) /\ UNCHANGED <<latest, now, file, running>>
  BY <1>3 DEF Start
<1>5. Whole(latest) \in Contents /\ Whole(latest).whole
  BY Constants DEF Types
<1>6. /\ j \in Jobs /\ j.own = Exec /\ j.sink = NoFile /\ ~j.written /\ j.kind = kind
      /\ j.want = Whole(latest)
  BY <1>1, <1>5, Constants DEF Jobs
<1>7. Quiet /\ ("blind" \notin mishaps' => (Exists(Exec) => Good))
  BY <1>3, SeesTheBinary
<1>8. QED BY <1>2, <1>4, <1>5, <1>6, <1>7, StartKeeps

LEMMA RequestKeeps ==
  ASSUME Types, Sequential, NEW r \in Requests, Request(r), NoOverlap'
  PROVE  Kept
<1>1. CASE SystemUpgrade(r)
  <2>1. PICK force \in BOOLEAN : RunWithProgress(r, "api", running, force)
    BY <1>1 DEF SystemUpgrade
  <2>2. running \in 0..Builds
    BY DEF Types
  <2>3. QED BY <2>1, <2>2, RunKeeps
<1>2. CASE CommandUpgrade(r)
  <2>1. PICK force \in BOOLEAN : RunWithProgress(r, "command", Content(Exec).build, force)
    BY <1>2 DEF CommandUpgrade
  <2>2. Content(Exec).build \in 0..Builds
    BY <1>2 DEF CommandUpgrade, ExecUsable, Exists, Content, Types, Contents
  <2>3. QED BY <2>1, <2>2, RunKeeps
<1>3. CASE SystemRollback(r)
  <2>1. PICK t \in ListBackups :
          Start(r, "stat", [NoJob EXCEPT !.kind = "rollback", !.label = running,
                                         !.target = t, !.want = Content(t)])
    BY <1>3 DEF SystemRollback
  <2>2. PICK j : j = [NoJob EXCEPT !.kind = "rollback", !.label = running,
                                   !.target = t, !.want = Content(t)]
    OBVIOUS
  <2>3. /\ pc[r] = "idle" /\ Goto(r, "stat", dir, j)
        /\ UNCHANGED <<latest, now, file, running>>
    BY <2>1, <2>2 DEF Start
  <2>4. t \in DOMAIN dir /\ t # Exec /\ Content(t) \in Contents
    BY NamesDiffer DEF ListBackups, Content, Types
  <2>5. t \in Names
    <3>1. now \in Nat /\ t[1] = "backup"
      BY DEF Types, ListBackups
    <3>2. \A q \in Requests : t # Tmp(q)
      BY <3>1, NamesDiffer
    <3>3. IsBackup(t)
      BY <2>4, <3>2 DEF Types
    <3>4. QED BY <3>1, <3>3 DEF IsBackup, Names
  <2>6. running \in 0..Builds
    BY DEF Types
  <2>7. /\ j \in Jobs /\ j.own = Exec /\ j.sink = NoFile /\ ~j.written /\ j.kind = "rollback"
        /\ j.want = Content(t) /\ j.target = t
    BY <2>2, <2>4, <2>5, <2>6, Constants DEF Jobs
  <2>8. Quiet /\ ("blind" \notin mishaps' => (Exists(Exec) => Good))
    BY <2>1, SeesTheBinary
  <2>9. QED BY <2>3, <2>4, <2>7, <2>8, StartKeeps
<1>4. QED BY <1>1, <1>2, <1>3 DEF Request, Upgrading

\* Steps that leave the directory and the requests alone.
LEMMA FrameKeeps ==
  ASSUME Types, Sequential, UNCHANGED <<dir, file, pc, job>>,
         running' \in 0..Builds, latest' \in 0..Builds, now' \in Nat, now <= now'
  PROVE  Kept
<1>1. Types'
  <2>1. \A n : IsBackup(n) => IsBackup(n)'
    BY DEF IsBackup, Types
  <2>2. QED BY <2>1 DEF Types
<1>2. ASSUME NEW r \in Requests PROVE Local(r)'
  <2>1. CASE AtWork(r)'
    <3>1. Local(r) /\ AtWork(r)
      BY <2>1 DEF Sequential, AtWork
    <3>2. Opened(r) => CopyFrom(r)' = CopyFrom(r) /\ CopyTo(r)' = CopyTo(r)
      BY <3>1 DEF CopyFrom, CopyTo, Local, Saving
    <3>3. Kinds(r)' /\ Copying(r)'
      BY <3>1, <3>2 DEF Local, Kinds, Copying, Opened, Upg, Content
    <3>4. Saving(r)' /\ Target(r)' /\ Binary(r)'
      BY <3>1 DEF Local, Saving, Target, Binary, Opened, Upg, Content, Exists, AsWanted
    <3>5. QED BY <2>1, <3>3, <3>4 DEF Local
  <2>2. CASE ~AtWork(r)'
    BY <2>2 DEF Sequential, Local, AtWork
  <2>3. QED BY <2>1, <2>2
<1>3. One' /\ Injective' /\ Fresh'
  BY DEF Sequential, One, Injective, Fresh, AtWork, Unmade, Opened, Upg
<1>4. ASSUME Order PROVE Order'
  <2>1. \A r \in Requests : AtWork(r)' = AtWork(r) /\ Upg(r)' = Upg(r)
    BY DEF AtWork, Upg
  <2>2. Spoiled' = Spoiled /\ NoLoss' = NoLoss /\ Quiet' = Quiet
    BY <2>1 DEF Spoiled, NoLoss, Unrestored, Quiet
  <2>3. \A r \in Requests : AtWork(r)' => Work(r)'
    BY <1>4, <2>1 DEF Order, Work, Newest, ListBackups, Opened
  <2>4. Exists(Exec)' = Exists(Exec) /\ Good' = Good /\ ExecUsable' = ExecUsable
    BY DEF Exists, Good, ExecUsable, Content
  <2>5. Left => Left'
    BY <2>4 DEF Left, Spare, Spares, AtWork, Content
  <2>6. ASSUME NEW r \in Requests PROVE (Sound(r) => Sound(r)') /\ (Fit(r) => Fit(r)')
    <3>1. Own(r)' = Own(r)
      BY DEF Own, Content
    <3>2. QED BY <2>4, <2>5, <3>1 DEF Sound, Fit
  <2>7. QED BY <1>4, <2>1, <2>2, <2>3, <2>4, <2>5, <2>6 DEF Order
<1>5. QED BY <1>1, <1>2, <1>3, <1>4 DEF Sequential, Kept

\* The end of processes, which leaves the directory as it is.
LEMMA KillKeeps ==
  ASSUME Types, Sequential, NEW dead, Kill(dead), running' \in 0..Builds
  PROVE  Kept
<1>1. \A r \in Requests :
        \/ pc'[r] = pc[r] /\ job'[r] = job[r] /\ (AtWork(r) => r \notin dead)
        \/ r \in dead /\ AtWork(r) /\ pc'[r] \in {"cut", "killed"} /\ job'[r] = NoJob
  BY DEF Kill, Sequential, Local
<1>2. pc' \in [Requests -> Pcs] /\ job' \in [Requests -> Jobs]
  <2>1. {"cut", "killed"} \subseteq Pcs /\ NoJob \in Jobs
    BY Constants, PcSteps
  <2>2. \A r \in Requests : pc'[r] \in Pcs /\ job'[r] \in Jobs
    BY <1>1, <2>1 DEF Types
  <2>3. QED BY <2>2 DEF Kill
<1>3. UNCHANGED <<dir, file, now, latest>>
  BY DEF Kill
<1>4. Types'
  BY <1>2, <1>3 DEF Types, IsBackup
<1>5. \A r \in Requests : AtWork(r)' => pc'[r] = pc[r] /\ job'[r] = job[r] /\ AtWork(r)
  BY <1>1, PcSteps DEF AtWork
<1>6. One'
  BY <1>5 DEF Sequential, One
<1>7. Fresh'
  <2>1. \A q \in Requests, k \in MadeFiles : Unmade(q, k)' => Unmade(q, k)
    BY <1>1 DEF Unmade, Opened, Upg
  <2>2. QED BY <1>3, <2>1 DEF Sequential, Fresh
<1>8. Injective'
  BY <1>3 DEF Sequential, Injective
<1>9. ASSUME NEW r \in Requests PROVE Local(r)'
  <2>1. CASE AtWork(r)'
    <3>1. Local(r) /\ pc'[r] = pc[r] /\ job'[r] = job[r] /\ AtWork(r)
      BY <1>5, <2>1 DEF Sequential
    <3>2. CopyFrom(r)' = CopyFrom(r) /\ CopyTo(r)' = CopyTo(r)
      BY <1>3, <3>1 DEF CopyFrom, CopyTo
    <3>3. Kinds(r)' /\ Copying(r)'
      BY <1>3, <3>1, <3>2 DEF Local, Kinds, Copying, Opened, Upg, Content
    <3>4. Saving(r)' /\ Target(r)' /\ Binary(r)'
      BY <1>3, <3>1 DEF Local, Saving, Target, Binary, Opened, Upg, Content, Exists, AsWanted
    <3>5. QED BY <2>1, <3>3, <3>4 DEF Local
  <2>2. CASE ~AtWork(r)'
    BY <1>1, <2>2 DEF Sequential, Local, AtWork
  <2>3. QED BY <2>1, <2>2
<1>10. Types' /\ Sequential'
  BY <1>4, <1>6, <1>7, <1>8, <1>9 DEF Sequential
<1>11. CASE \A r \in Requests : ~(r \in dead /\ AtWork(r))
  <2>1. UNCHANGED <<pc, job>>
    BY <1>1, <1>2, <1>11 DEF Types
  <2>2. now \in Nat /\ latest \in 0..Builds
    BY DEF Types
  <2>3. QED BY <1>3, <2>1, <2>2, FrameKeeps
<1>12. ASSUME NEW r \in Requests, r \in dead, AtWork(r) PROVE Kept
  <2>1. /\ pc'[r] = IF pc[r] \in Window THEN "cut" ELSE "killed"
        /\ ~AtWork(r)'
    BY <1>12, PcSteps DEF Kill, AtWork
  <2>2. \A q \in Requests : q # r => pc'[q] = pc[q] /\ job'[q] = job[q]
    BY <1>1, <1>12 DEF Sequential, One
  <2>3. ASSUME Order PROVE Order'
    <3>1. Work(r) /\ Sound(r)
      BY <1>12, <2>3 DEF Order
    <3>2. Spoiled => Spoiled'
      BY <1>3 DEF Spoiled
    <3>3. \A q \in Requests : AtWork(q)' => q = r
      BY <1>12, <2>2, Alone
    <3>4. \A n \in DOMAIN dir : n \in DOMAIN dir' /\ Content(n)' = Content(n)
      BY <1>3 DEF Content
    <3>5. (Left => Left') /\ (ExecUsable => ExecUsable')
      BY <1>3, <1>12, <2>2, <3>4, UntouchedStays
    <3>6. Left'
      <4>1. CASE pc[r] \in Early
        BY <3>1, <3>5, <4>1 DEF Sound
      <4>2. CASE pc[r] \notin Early
        <5>1. /\ job[r].own # Exec /\ job[r].own \in DOMAIN dir /\ Own(r).whole
              /\ job[r].own # Tmp(r)
          BY <1>12, <3>1, <4>2, OwnIsThere
        <5>2. QED BY <3>3, <3>4, <5>1, SpareNext DEF Own
      <4>3. QED BY <4>1, <4>2
    <3>7. NoLoss' => pc[r] \in Early \cup {"rotate", "remove"}
      <4>1. SUFFICES ASSUME NoLoss' PROVE pc[r] \notin Window
        BY <1>12, PcSteps DEF Types, AtWork, Window, Early
      <4>2. QED BY <2>1, <4>1 DEF NoLoss, Unrestored
    <3>8. QED BY <1>12, <2>1, <2>2, <2>3, <3>2, <3>5, <3>6, <3>7, OrderEnds DEF Fit
  <2>4. QED BY <1>10, <2>3 DEF Kept
<1>13. QED BY <1>11, <1>12

LEMMA RequestStepKeeps ==
  ASSUME Types, Sequential, NEW r \in Requests, RequestStep(r)
  PROVE  Kept
BY DownloadKeeps, StatTargetKeeps, CopyOpenKeeps, CopyWriteKeeps, CopyModeKeeps,
   RotateBackupsKeeps, RemoveExecKeeps, RenameTmpKeeps, ChmodExecKeeps DEF RequestStep

\* What has gone wrong stays so.
LEMMA MishapsGrow ==
  ASSUME Next
  PROVE  mishaps \subseteq mishaps'
<1>1. \A r : Request(r) => mishaps \subseteq mishaps'
  BY DEF Request, Upgrading, SystemUpgrade, SystemRollback, CommandUpgrade, RunWithProgress, Start,
         Mishap
<1>2. \A r : RequestStep(r) => mishaps \subseteq mishaps'
  BY DEF RequestStep, Download, StatTarget, CopyOpen, CopyWrite, CopyMode, RotateBackups,
         RemoveExec, RenameTmp, ChmodExec, Fails, Fault, Mishap
<1>3. Publish \/ Tick \/ SystemdStart \/ Migrate \/ SystemRestart \/ Crash
      => mishaps \subseteq mishaps'
  BY DEF Publish, Tick, SystemdStart, ExecBinary, Migrate, SystemRestart, Crash, Mishap
<1>4. QED BY <1>1, <1>2, <1>3 DEF Next, Upgrading

LEMMA StepIsKept ==
  ASSUME Types, Sequential, NoOverlap', [Next]_vars
  PROVE  Kept
<1>1. /\ Builds \in Nat /\ now \in Nat
      /\ latest \in 0..Builds /\ running \in 0..Builds /\ 0 \in 0..Builds
  BY Constants DEF Types
<1>2. CASE UNCHANGED vars
  <2>1. UNCHANGED <<latest, now, dir, file, running, pc, job, mishaps>>
    BY <1>2 DEF vars, upgradeVars, requestVars
  <2>2. QED BY <1>1, <2>1, FrameKeeps
<1>3. CASE Next
  <2>1. CASE Upgrading(Publish) \/ Upgrading(Tick)
    BY <1>1, <2>1, FrameKeeps DEF Upgrading, Publish, Tick, requestVars
  <2>2. CASE \E r \in Requests : Request(r) \/ Upgrading(RequestStep(r))
    BY <2>2, RequestKeeps, RequestStepKeeps DEF Upgrading
  <2>3. CASE SystemdStart
    <3>1. running' \in 0..Builds
      BY <2>3 DEF SystemdStart, ExecBinary, ExecUsable, Exists, Content, Types, Contents
    <3>2. QED BY <1>1, <2>3, <3>1, FrameKeeps DEF SystemdStart, ExecBinary, requestVars
  <2>4. CASE Migrate
    <3>1. running' = running \/ running' = 0
      BY <2>4 DEF Migrate
    <3>2. QED BY <1>1, <2>4, <3>1, FrameKeeps DEF Migrate, requestVars
  <2>5. ASSUME KillServer PROVE Kept
    BY <1>1, <2>5, KillKeeps DEF KillServer
  <2>6. ASSUME NEW r \in Requests, KillCommand(r) PROVE Kept
    BY <1>1, <2>6, KillKeeps DEF KillCommand
  <2>7. QED BY <1>3, <2>1, <2>2, <2>3, <2>4, <2>5, <2>6 DEF Next, SystemRestart, Crash
<1>4. QED BY <1>2, <1>3

LEMMA MishapsStay == [Next]_vars => mishaps \subseteq mishaps'
BY MishapsGrow DEF vars, upgradeVars

LEMMA InvStep ==
  ASSUME SeqInv, OrdInv, [Next]_vars
  PROVE  SeqInv' /\ OrdInv'
<1>1. SUFFICES ASSUME NoOverlap' PROVE Types' /\ Sequential' /\ OrdInv'
  BY DEF SeqInv, OrdInv, Orderly, NoOverlap
<1>2. Types /\ Sequential
  BY <1>1, MishapsStay DEF SeqInv, NoOverlap
<1>3. Kept
  BY <1>1, <1>2, StepIsKept
<1>4. Orderly' => Orderly
  BY MishapsStay DEF Orderly
<1>5. QED BY <1>3, <1>4 DEF Kept, OrdInv

LEMMA InvInit ==
  ASSUME Init
  PROVE  SeqInv /\ OrdInv
<1>1. Types
  <2>1. 1 \in 0..Builds /\ 0 \in 0..Builds
    BY UpgradeAssumption
  <2>2. "idle" \in Pcs
    BY PcSteps
  <2>3. <<"first">> \in Files
    BY DEF Files
  <2>4. Whole(1) \in Contents
    BY <2>1, Constants
  <2>5. QED BY <2>1, <2>2, <2>3, <2>4, Constants DEF Init, UpgradeInit, Types
<1>2. One /\ Injective
  BY PcSteps DEF Init, UpgradeInit, One, Injective, AtWork
<1>3. Fresh
  BY FilesDiffer DEF Init, UpgradeInit, Fresh
<1>4. \A r \in Requests : Local(r)
  BY PcSteps DEF Init, UpgradeInit, Local, AtWork
<1>5. Quiet
  BY PcSteps DEF Init, UpgradeInit, Quiet, AtWork
<1>6. Left /\ ExecUsable
  <2>1. Exec \in DOMAIN dir /\ Content(Exec) = Whole(1)
    BY DEF Init, UpgradeInit, Content, Files
  <2>2. QED BY <2>1 DEF Left, Good, ExecUsable, Exists, Whole
<1>7. OrdInv
  BY <1>5, <1>6 DEF OrdInv, Order, Quiet
<1>8. QED BY <1>1, <1>2, <1>3, <1>4, <1>7 DEF SeqInv, Sequential

(* Both parts are inductive: the second rests on the first, and the first   *)
(* alone gives what a success has installed.                                *)
THEOREM Invariants == Spec => [](SeqInv /\ OrdInv)
<1>1. Init => SeqInv /\ OrdInv
  BY InvInit
<1>2. SeqInv /\ OrdInv /\ [Next]_vars => SeqInv' /\ OrdInv'
  BY InvStep
<1>3. QED BY <1>1, <1>2, PTL DEF Spec

(* For every number of requests, builds and backups kept: an upgrade that   *)
(* answers with success has installed the release it downloaded, and a       *)
(* rollback the backup that was chosen, unless another request overlapped    *)
(* or the backup was overwritten in the second it was made.                 *)
THEOREM AnnouncedIsInstalled == Spec => CompletedAsAnnounced
<1>1. ASSUME SeqInv, [Next]_vars, NEW r \in Requests,
             pc[r] \in {"chmod", "rotate"}, pc'[r] = "ok", NoOverlap, job[r].target # job[r].own
      PROVE  /\ Exec \in DOMAIN dir'
             /\ file'[dir'[Exec]] = [job[r].want EXCEPT !.runnable = TRUE]
  <2>1. Types /\ Sequential /\ AtWork(r) /\ Local(r) /\ job[r] \in Jobs
    BY <1>1, PcSteps DEF SeqInv, Sequential, AtWork, Types
  <2>2. Kinds(r) /\ Binary(r)
    BY <2>1 DEF Local
  <2>3. RotateBackups(r) \/ ChmodExec(r)
    <3>1. Next
      BY <1>1 DEF vars, upgradeVars, requestVars
    <3>2. ASSUME NEW q \in Requests, RequestStep(q) PROVE RotateBackups(r) \/ ChmodExec(r)
      <4>1. AtWork(q)
        BY <3>2, PcSteps DEF RequestStep, Download, StatTarget, CopyOpen, CopyWrite, CopyMode, RotateBackups, RemoveExec,
            RenameTmp, ChmodExec, AtWork
      <4>2. q = r
        BY <2>1, <4>1 DEF Sequential, One
      <4>3. QED BY <1>1, <3>2, <4>2, PcSteps DEF RequestStep, Download, StatTarget, CopyOpen, CopyWrite, CopyMode,
            RemoveExec, RenameTmp
    <3>3. ASSUME NEW q \in Requests, Request(q) PROVE FALSE
      <4>1. PICK p, j : Start(q, p, j)
        BY <3>3 DEF Request, Upgrading, SystemUpgrade, SystemRollback, CommandUpgrade, RunWithProgress
      <4>2. pc[q] = "idle" /\ pc' = [pc EXCEPT ![q] = p]
        BY <4>1 DEF Start, Goto
      <4>3. QED BY <1>1, <4>2
    <3>4. ASSUME NEW dead, Kill(dead) PROVE FALSE
      BY <1>1, <3>4 DEF Kill
    <3>5. QED BY <1>1, <3>1, <3>2, <3>3, <3>4 DEF Next, Upgrading, Publish, Tick, SystemdStart, ExecBinary,
          Migrate, SystemRestart, Crash, KillServer, KillCommand, requestVars
  <2>4. Exec \in DOMAIN dir /\ dir[Exec] \in Files /\ job[r].want \in Contents
    BY <1>1, <2>1, <2>2 DEF Binary, Exists, Types, Jobs
  <2>5. PICK g : g = dir[Exec]
    OBVIOUS
  <2>6. AsWanted(r) /\ (pc[r] = "rotate" => Content(Exec).runnable)
    <3>1. pc[r] = "rotate" => ~Upg(r)
      <4>1. SUFFICES ASSUME pc[r] = "rotate", Upg(r) PROVE FALSE
        OBVIOUS
      <4>2. RotateBackups(r)
        BY <2>3, <4>1 DEF ChmodExec
      <4>3. PICK d : Goto(r, "remove", d, job[r])
        BY <4>1, <4>2 DEF RotateBackups, Step, NextPc, Upg
      <4>4. pc'[r] = "remove"
        BY <2>1, <4>3, GoesOn
      <4>5. QED BY <1>1, <4>4
    <3>2. QED BY <1>1, <2>2, <3>1 DEF Binary
  <2>7. CASE RotateBackups(r)
    <3>1. PICK removed \in SUBSET ListBackups : dir' = [n \in DOMAIN dir \ removed |-> dir[n]]
      <4>1. PICK removed \in SUBSET ListBackups :
               Step(r, NextPc(r, "rotate"), [n \in DOMAIN dir \ removed |-> dir[n]])
        BY <2>7 DEF RotateBackups
      <4>2. NextPc(r, "rotate") \notin Errors
        BY DEF NextPc, Errors
      <4>3. QED BY <4>1, <4>2 DEF Step, Goto
    <3>2. Exec \notin removed
      BY NamesDiffer DEF ListBackups
    <3>3. Exec \in DOMAIN dir' /\ dir'[Exec] = g /\ file'[g] = file[g] /\ pc[r] = "rotate"
      BY <2>4, <2>5, <2>7, <3>1, <3>2 DEF RotateBackups
    <3>4. file[g].whole = job[r].want.whole /\ file[g].build = job[r].want.build /\ file[g].runnable
      BY <2>5, <2>6, <3>3 DEF AsWanted, Content
    <3>5. file[g] \in Contents
      BY <2>1, <2>4, <2>5 DEF Types
    <3>6. file[g] = [job[r].want EXCEPT !.runnable = TRUE]
      BY <2>4, <3>4, <3>5 DEF Contents
    <3>7. QED BY <3>3, <3>6
  <2>8. CASE ChmodExec(r)
    <3>1. /\ file' = [file EXCEPT ![g].runnable = TRUE] /\ dir' = dir
      <4>1. ~Fails(r, Exists(Exec))
        <5>1. ErrorPc(r, pc[r]) \in {"failed", "unrestored", "restore"}
          BY DEF ErrorPc
        <5>2. ErrorPc(r, pc[r]) # "ok"
          BY <5>1
        <5>3. QED BY <1>1, <2>1, <5>2 DEF Fails, Step, Goto, Types
      <4>2. Goto(r, NextPc(r, "chmod"), dir, job[r]) /\ file' = [file EXCEPT ![g].runnable = TRUE]
        BY <2>5, <2>8, <4>1 DEF ChmodExec, Step
      <4>3. NextPc(r, "chmod") \notin Errors
        BY DEF NextPc, Errors
      <4>4. QED BY <4>2, <4>3 DEF Goto
    <3>2. file[g].whole = job[r].want.whole /\ file[g].build = job[r].want.build
      BY <2>5, <2>6 DEF AsWanted, Content
    <3>3. file[g] \in Contents /\ file \in [Files -> Contents]
      BY <2>1, <2>4, <2>5 DEF Types
    <3>4. [file[g] EXCEPT !.runnable = TRUE] = [job[r].want EXCEPT !.runnable = TRUE]
      BY <2>4, <3>2, <3>3 DEF Contents
    <3>5. QED BY <2>4, <2>5, <3>1, <3>3, <3>4
  <2>9. QED BY <2>3, <2>7, <2>8
<1>2. SeqInv /\ [Next]_vars =>
        [\A r \in Requests :
           /\ pc[r] \in {"chmod", "rotate"} /\ pc'[r] = "ok"
           /\ "overlap" \notin mishaps /\ job[r].target # job[r].own
           => /\ Exec \in DOMAIN dir'
              /\ file'[dir'[Exec]] = [job[r].want EXCEPT !.runnable = TRUE]]_vars
  BY <1>1 DEF NoOverlap
<1>3. QED BY <1>2, Invariants, PTL DEF Spec, CompletedAsAnnounced

(* For every sequence of requests that do not overlap, ended anywhere by    *)
(* crashes and by any number of errors, incomplete backups that were chosen *)
(* included: one whole build is under a name.  Installing removes the binary *)
(* before it has the next one, and rotateBackups removes backups: the        *)
(* request's own backup is whole by then, and the newest, which is kept.     *)
(* Only a request made on an incomplete binary is excluded.                 *)
THEOREM WholeBuildIsLeft == Spec => []SomeBuildSurvives
<1>1. ASSUME SeqInv, OrdInv, Orderly
      PROVE  \E n \in DOMAIN dir : Content(n).whole
  <2>1. Types /\ Sequential /\ Order
    BY <1>1 DEF SeqInv, OrdInv, Orderly, NoOverlap
  <2>2. Left => \E n \in DOMAIN dir : Content(n).whole
    BY DEF Left, Good, Spare, Spares, Exists
  <2>3. CASE Quiet
    BY <2>1, <2>2, <2>3 DEF Order
  <2>4. ASSUME NEW r \in Requests, AtWork(r) PROVE \E n \in DOMAIN dir : Content(n).whole
    <3>1. Work(r) /\ Sound(r)
      BY <2>1, <2>4 DEF Order
    <3>2. CASE pc[r] \in Early
      BY <2>2, <3>1, <3>2 DEF Sound
    <3>3. CASE pc[r] \notin Early
      BY <2>1, <2>4, <3>1, <3>3, OwnIsThere DEF Own
    <3>4. QED BY <3>2, <3>3
  <2>5. QED BY <2>3, <2>4 DEF Quiet
<1>2. SeqInv /\ OrdInv => SomeBuildSurvives
  BY <1>1 DEF SomeBuildSurvives
<1>3. QED BY <1>2, Invariants, PTL

(* For every such sequence, with any number of errors of any operations:    *)
(* between requests the binary can be started, unless a crash came after     *)
(* os.Remove and before the new one had its mode, or an error there was not  *)
(* undone, because the copy that restores failed as well or because nothing  *)
(* restores after that chmod; or the build that was put back was incomplete. *)
THEOREM BinaryIsLeft == Spec => []BinaryStays
<1>1. SeqInv /\ OrdInv => BinaryStays
  BY DEF OrdInv, Order, NoLoss, BinaryStays
<1>2. QED BY <1>1, Invariants, PTL

-------------------------------------------------------------------------------
(* Requests in any number, overlapping in any way.                          *)

\* What r, at work, holds; and its download, which is its own.
Holds(r) ==
  IF AtWork(r)
  THEN /\ Kinds(r)
       /\ Opened(r) => job[r].source # NoFile
       /\ job[r].own = Exec <=> Unmade(r, "backup")
       /\ Upg(r) => job[r].want.whole
       /\ Upg(r) /\ pc[r] \in {"backup", "rotate", "remove", "rename"} => Tmp(r) \in DOMAIN dir
  ELSE job[r] = NoJob
Private(r) ==
  /\ \A n \in DOMAIN dir : dir[n] = <<r, "tmp">> => n = Tmp(r)
  /\ \A q \in Requests : job[q].sink # <<r, "tmp">>
Downloads ==
  \A r \in Requests :
    /\ Unmade(r, "tmp") => Tmp(r) \notin DOMAIN dir /\ Private(r)
    /\ Tmp(r) \in DOMAIN dir => Private(r) /\ Content(Tmp(r)).whole
GenInv == Types /\ (\A r \in Requests : Holds(r)) /\ Downloads

\* What every step of r has in common: where it goes, ...
Made(r) == pc[r] # "idle" /\ ~Unmade(r, "backup")
Late == {"remove", "rename", "chmod", "restore"}
Opens(r) == ~Opened(r) /\ Opened(r)' /\ pc[r] \in CopySteps
Goes(r) ==
  /\ AtWork(r) /\ pc' \in [Requests -> Pcs] /\ job' \in [Requests -> Jobs]
  /\ \A q \in Requests : q # r => pc'[q] = pc[q] /\ job'[q] = job[q]
  /\ pc'[r] \notin {"idle", "stat", "download"}
  /\ pc'[r] = "backup" => pc[r] \in {"stat", "download"} \/ (pc[r] = "backup" /\ Opened(r)')
  /\ Opened(r)' => /\ pc'[r] = pc[r]
                   /\ IF Opens(r)
                      THEN job'[r].sink = (IF Exists(CopyTo(r)) THEN dir[CopyTo(r)] ELSE <<r, pc[r]>>)
                      ELSE Opened(r) /\ job'[r].sink = job[r].sink
  /\ AtWork(r)' => /\ job'[r].kind = job[r].kind
                   /\ Upg(r) /\ pc[r] \in Late => pc'[r] \in Late \ {"remove"}
                   /\ job'[r].own = IF Opens(r) /\ pc[r] = "backup" THEN CopyTo(r) ELSE job[r].own
\* ... what it names, removes and writes to.
Does(r) ==
  /\ UNCHANGED <<latest, now, running>>
  /\ \A n \in DOMAIN dir' :
       \/ n \in DOMAIN dir /\ dir'[n] = dir[n]
       \/ n = Tmp(r) /\ dir'[n] = <<r, "tmp">> /\ Content(n)'.whole /\ pc[r] = "download"
       \/ n = Exec /\ dir'[n] = <<r, "tmp">> /\ pc[r] = "rename" /\ Tmp(r) \notin DOMAIN dir'
       \/ n = CopyTo(r) /\ n \notin DOMAIN dir /\ dir'[n] = <<r, pc[r]>> /\ Opens(r)
  /\ \A n \in DOMAIN dir :
       \/ n \in DOMAIN dir'
       \/ n = Exec /\ pc[r] = "remove"
       \/ n = Tmp(r) /\ pc'[r] \in {"chmod"} \cup Errors
       \/ pc[r] = "rotate" /\ n \in ListBackups
         /\ \E k \in ListBackups : k \in DOMAIN dir' /\ n[3] <= k[3]
  /\ Opens(r) => CopyTo(r) \in DOMAIN dir'
  /\ file' \in [Files -> Contents]
  /\ \A f \in Files :
       \/ (file[f].whole => file'[f].whole) /\ (file'[f].whole => file[f].whole)
       \/ f = <<r, "tmp">> /\ pc[r] = "download" /\ file'[f].whole
       \/ Opened(r) /\ f = job[r].sink
       \/ Opens(r) /\ f = job'[r].sink
Acts(r) == Goes(r) /\ Does(r)

\* The request goes on, its copy goes on or is closed.
LEMMA GoesFurther ==
  ASSUME Types, NEW r \in Requests, AtWork(r), NEW d, NEW j \in Jobs,
         NEW p \in {"backup", "rotate", "remove", "rename", "place", "chmod", "restore"},
         Goto(r, p, d, j), j.kind = job[r].kind, j.own = job[r].own,
         j.sink = NoFile \/ (j.sink = job[r].sink /\ p = pc[r]),
         p = "backup" => pc[r] \in {"stat", "download"} \/ (pc[r] = "backup" /\ j.sink # NoFile),
         Upg(r) /\ pc[r] \in Late => p \in Late \ {"remove"}
  PROVE  /\ Goes(r) /\ ~Opens(r) /\ dir' = d /\ AtWork(r)' /\ pc'[r] = p /\ job'[r] = j
         /\ \A q \in Requests : q # r => pc'[q] = pc[q] /\ job'[q] = job[q]
<1>1. /\ pc'[r] = p /\ job'[r] = j /\ dir' = d /\ AtWork(r)' /\ p \in Pcs
      /\ \A q \in Requests : q # r => pc'[q] = pc[q] /\ job'[q] = job[q]
  BY GoesOn
<1>2. pc' \in [Requests -> Pcs] /\ job' \in [Requests -> Jobs]
  BY <1>1, JobTypes
<1>3. ~Opens(r)
  BY <1>1 DEF Opens, Opened
<1>4. QED BY <1>1, <1>2, <1>3 DEF Goes, Opened

\* The request is over: it loses its download when it fails.
LEMMA GoesToItsEnd ==
  ASSUME Types, NEW r \in Requests, AtWork(r), NEW d, NEW j \in Jobs, NEW p \in {"ok"} \cup Errors,
         Goto(r, p, d, j), UNCHANGED <<latest, now, running>>,
         \A n \in DOMAIN d : n \in DOMAIN dir /\ d[n] = dir[n],
         \A n \in DOMAIN dir :
            \/ n \in DOMAIN d
            \/ pc[r] = "rotate" /\ n \in ListBackups
              /\ \E k \in ListBackups : k \in DOMAIN d /\ n[3] <= k[3],
         file' \in [Files -> Contents],
         \A f \in Files : (file[f].whole => file'[f].whole) /\ (file'[f].whole => file[f].whole)
  PROVE  Acts(r) /\ Holds(r)' /\ pc'[r] = p
<1>1. /\ pc'[r] = p /\ job'[r] = NoJob /\ ~AtWork(r)'
      /\ \A q \in Requests : q # r => pc'[q] = pc[q] /\ job'[q] = job[q]
      /\ \A n \in DOMAIN dir' : n \in DOMAIN d /\ dir'[n] = d[n]
      /\ \A n \in DOMAIN d : n # Tmp(r) => n \in DOMAIN dir' /\ dir'[n] = d[n]
  BY Ends DEF AtWork
<1>2. p \in Pcs
  BY PcSteps
<1>3. pc' \in [Requests -> Pcs] /\ job' \in [Requests -> Jobs]
  BY <1>2, JobTypes
<1>4. ~Opened(r)'
  BY <1>1, Constants DEF Opened
<1>5. Goes(r)
  <2>1. p \notin {"idle", "stat", "download", "backup"}
    BY PcSteps
  <2>2. QED BY <1>1, <1>3, <1>4, <2>1 DEF Goes
<1>6. p \notin Errors => dir' = d
  BY DEF Goto
<1>7. \A k \in ListBackups : k # Tmp(r)
  BY NamesDiffer DEF ListBackups
<1>8. \A n \in DOMAIN dir :
        \/ n \in DOMAIN dir'
        \/ n = Tmp(r) /\ pc'[r] \in Errors
        \/ pc[r] = "rotate" /\ n \in ListBackups
          /\ \E k \in ListBackups : k \in DOMAIN dir' /\ n[3] <= k[3]
  BY <1>1, <1>6, <1>7
<1>9. Does(r)
  BY <1>1, <1>4, <1>8 DEF Does, Opens
<1>10. QED BY <1>1, <1>5, <1>9 DEF Acts, Holds

\* An error, at any step: j is what r holds once its copy is closed.
LEMMA FailsActs ==
  ASSUME GenInv, NEW r \in Requests, AtWork(r), NEW j \in Jobs,
         j.kind = job[r].kind, j.own = job[r].own, j.want = job[r].want, j.sink = NoFile, ~j.written,
         Goto(r, ErrorPc(r, pc[r]), dir, j), UNCHANGED <<latest, now, running, file>>
  PROVE  /\ Acts(r) /\ Holds(r)'
         /\ pc[r] \in {"stat", "download", "backup", "rotate", "remove", "restore"} => ~AtWork(r)'
<1>1. Holds(r) /\ Types /\ file' \in [Files -> Contents]
  BY DEF GenInv, Types
<1>2. ASSUME "restore" = ErrorPc(r, pc[r]) PROVE Acts(r) /\ Holds(r)'
  <2>1. pc[r] \in {"rename", "place"} \/ (pc[r] = "chmod" /\ Upg(r))
    BY <1>2, PcSteps DEF ErrorPc, Upg
  <2>2. Goto(r, "restore", dir, j)
    BY <1>2
  <2>3. job[r].own # Exec /\ job[r].kind \in {"api", "command", "rollback"}
        /\ (Upg(r) => job[r].want.whole)
    BY <1>1, <2>1 DEF Holds, Kinds, Unmade
  <2>4. Goes(r) /\ ~Opens(r) /\ dir' = dir /\ AtWork(r)' /\ pc'[r] = "restore" /\ job'[r] = j
    BY <1>1, <2>1, <2>2, <2>3, GoesFurther DEF Late
  <2>5. Does(r)
    BY <1>1, <2>4 DEF Does
  <2>6. Holds(r)'
    BY <2>3, <2>4 DEF Holds, Kinds, Upg, Opened, Unmade
  <2>7. QED BY <2>4, <2>5, <2>6 DEF Acts
<1>3. ASSUME NEW p \in Errors, p = ErrorPc(r, pc[r]) PROVE Acts(r) /\ Holds(r)' /\ ~AtWork(r)'
  <2>1. Goto(r, p, dir, j)
    BY <1>3
  <2>2. Acts(r) /\ Holds(r)' /\ pc'[r] = p
    BY <1>1, <2>1, GoesToItsEnd
  <2>3. QED BY <2>2, PcSteps DEF AtWork
<1>4. pc[r] \in {"stat", "download", "backup", "rotate", "remove", "restore"} => ErrorPc(r, pc[r]) # "restore"
  BY DEF ErrorPc
<1>5. QED BY <1>2, <1>3, <1>4, PcSteps DEF ErrorPc

LEMMA FailsAtOnceActs ==
  ASSUME GenInv, NEW r \in Requests, AtWork(r), ~Opened(r), NEW possible, Fails(r, possible)
  PROVE  /\ Acts(r) /\ Holds(r)'
         /\ pc[r] \in {"stat", "download", "backup", "rotate", "remove", "restore"} => ~AtWork(r)'
<1>1. job[r] \in Jobs /\ job[r].sink = NoFile /\ ~job[r].written
  BY DEF GenInv, Types, Opened, Holds, Kinds
<1>2. Goto(r, ErrorPc(r, pc[r]), dir, job[r]) /\ UNCHANGED <<latest, now, running, file>>
  BY DEF Fails, Step
<1>3. QED BY <1>1, <1>2, FailsActs

LEMMA StatTargetActs ==
  ASSUME GenInv, NEW r \in Requests, StatTarget(r)
  PROVE  Acts(r) /\ Holds(r)'
<1>1. /\ pc[r] = "stat" /\ AtWork(r) /\ Holds(r) /\ job[r] \in Jobs /\ Types
      /\ UNCHANGED <<latest, now, running, file>>
  BY PcSteps DEF StatTarget, AtWork, GenInv, Types, Step
<1>2. ~Upg(r) /\ ~Opened(r) /\ Kinds(r) /\ job[r].own = Exec
  BY <1>1, PcSteps DEF Holds, Kinds, Unmade
<1>3. file' \in [Files -> Contents]
  BY <1>1 DEF Types
<1>4. CASE Exists(job[r].target)
  <2>1. Goto(r, "backup", dir, job[r])
    BY <1>4 DEF StatTarget, Step
  <2>2. /\ Goes(r) /\ ~Opens(r) /\ dir' = dir /\ AtWork(r)' /\ pc'[r] = "backup" /\ job'[r] = job[r]
    BY <1>1, <1>2, <2>1, GoesFurther DEF Opened
  <2>3. Does(r)
    BY <1>1, <1>3, <2>2 DEF Does
  <2>4. Holds(r)'
    BY <1>1, <1>2, <2>2, PcSteps DEF Holds, Kinds, Upg, Opened, Unmade
  <2>5. QED BY <2>2, <2>3, <2>4 DEF Acts
<1>5. CASE ~Exists(job[r].target)
  <2>1. Goto(r, "failed", dir, job[r])
    BY <1>5 DEF StatTarget, Step
  <2>2. QED BY <1>1, <1>3, <2>1, PcSteps, GoesToItsEnd
<1>6. QED BY <1>4, <1>5

LEMMA DownloadActs ==
  ASSUME GenInv, NEW r \in Requests, Download(r)
  PROVE  Acts(r) /\ Holds(r)'
<1>1. /\ pc[r] = "download" /\ AtWork(r) /\ Holds(r) /\ job[r] \in Jobs /\ Types
      /\ UNCHANGED <<latest, now, running>>
  <2>1. GenInv => Types /\ Holds(r)
    BY DEF GenInv
  <2>2. Types => job[r] \in Jobs
    BY DEF Types
  <2>3. QED BY <2>1, <2>2, PcSteps DEF Download, Fails, AtWork, Step
<1>2. /\ Upg(r) /\ ~Opened(r) /\ Kinds(r) /\ job[r].own = Exec /\ job[r].want.whole
      /\ job[r].want \in Contents
  BY <1>1, PcSteps DEF Holds, Kinds, Unmade, Jobs
<1>3. CASE Fails(r, TRUE)
  BY <1>1, <1>2, <1>3, FailsAtOnceActs
<1>4. CASE /\ Step(r, "backup", With(Tmp(r), <<r, "tmp">>, dir))
           /\ file' = [file EXCEPT ![<<r, "tmp">>] = [job[r].want EXCEPT !.runnable = FALSE]]
  <2>1. PICK d : d = With(Tmp(r), <<r, "tmp">>, dir)
    OBVIOUS
  <2>2. Goto(r, "backup", d, job[r])
    BY <1>4, <2>1 DEF Step
  <2>3. /\ Goes(r) /\ ~Opens(r) /\ dir' = d /\ AtWork(r)' /\ pc'[r] = "backup" /\ job'[r] = job[r]
    BY <1>1, <1>2, <2>2, GoesFurther DEF Opened, Late
  <2>4. /\ DOMAIN dir' = DOMAIN dir \cup {Tmp(r)} /\ dir'[Tmp(r)] = <<r, "tmp">>
        /\ \A n \in DOMAIN dir : n # Tmp(r) => dir'[n] = dir[n]
    BY <2>1, <2>3 DEF With
  <2>5. PICK c : c = [job[r].want EXCEPT !.runnable = FALSE]
    OBVIOUS
  <2>6. c \in Contents /\ c.whole
    BY <1>2, <2>5, ModeSet
  <2>7. /\ file' \in [Files -> Contents] /\ file'[<<r, "tmp">>] = c
        /\ \A f \in Files : f # <<r, "tmp">> => file'[f] = file[f]
    BY <1>1, <1>4, <2>5, <2>6, FilesDiffer DEF Types, MadeFiles
  <2>8. Does(r)
    BY <1>1, <2>3, <2>4, <2>6, <2>7 DEF Does, Content
  <2>9. Holds(r)'
    BY <1>1, <1>2, <2>3, <2>4, PcSteps DEF Holds, Kinds, Upg, Opened, Unmade
  <2>10. QED BY <2>3, <2>8, <2>9 DEF Acts
<1>5. QED BY <1>3, <1>4 DEF Download

-------------------------------------------------------------------------------
\* What a copy writes to is the binary, or the name of a backup that r makes.
LEMMA CopiesTo ==
  ASSUME GenInv, NEW r \in Requests, AtWork(r), pc[r] \in CopySteps
  PROVE  /\ pc[r] # "backup" => CopyTo(r) = Exec
         /\ pc[r] = "backup" /\ ~Opened(r) => CopyTo(r) = Backup(job[r].label, now) /\ IsBackup(CopyTo(r))
         /\ pc[r] = "backup" => CopyTo(r) # Exec
         /\ \A q : CopyTo(r) # Tmp(q)
         /\ CopyTo(r) \in Names
<1>1. /\ Holds(r) /\ now \in Nat /\ job[r].label \in 0..Builds /\ job[r].own \in Names
  BY DEF GenInv, Types, Jobs
<1>2. CASE pc[r] # "backup"
  <2>1. CopyTo(r) = Exec
    BY <1>2 DEF CopyTo
  <2>2. QED BY <1>2, <2>1, NamesDiffer, NoneHeld
<1>3. CASE pc[r] = "backup" /\ job[r].own = Exec
  <2>1. CopyTo(r) = Backup(job[r].label, now)
    BY <1>3 DEF CopyTo
  <2>2. IsBackup(CopyTo(r)) /\ CopyTo(r) \in Names
    BY <1>1, <2>1 DEF IsBackup, Names
  <2>3. QED BY <1>3, <2>1, <2>2, NamesDiffer
<1>4. CASE pc[r] = "backup" /\ job[r].own # Exec
  <2>1. CopyTo(r) = job[r].own
    BY <1>4 DEF CopyTo
  <2>2. Opened(r)
    BY <1>1, <1>4 DEF Holds, Unmade
  <2>3. \A q : job[r].own # Tmp(q)
    BY <1>1, NamesDiffer DEF Names
  <2>4. QED BY <1>1, <1>4, <2>1, <2>2, <2>3
<1>5. QED BY <1>2, <1>3, <1>4

LEMMA CopyOpenActs ==
  ASSUME GenInv, NEW r \in Requests, CopyOpen(r)
  PROVE  /\ Acts(r) /\ Holds(r)'
         /\ Exists(CopyFrom(r)) /\ "fault" \notin mishaps' =>
              /\ Opens(r) /\ ~job'[r].written /\ job'[r].source = dir[CopyFrom(r)]
              /\ ~file'[job'[r].sink].whole
         /\ ~Exists(CopyFrom(r)) /\ pc[r] # "place" => ~AtWork(r)'
<1>1. /\ pc[r] \in {"backup", "place", "restore"} /\ ~Opened(r) /\ AtWork(r) /\ Holds(r)
      /\ job[r] \in Jobs /\ Types /\ UNCHANGED <<latest, now, running>>
  <2>1. GenInv => Types /\ Holds(r)
    BY DEF GenInv
  <2>2. Types => job[r] \in Jobs
    BY DEF Types
  <2>3. QED BY <2>1, <2>2, PcSteps DEF CopyOpen, Fails, AtWork, Step
<1>2. Kinds(r) /\ ~job[r].written /\ (job[r].own = Exec <=> pc[r] = "backup")
  BY <1>1 DEF Holds, Kinds, Unmade
<1>3. CASE Fails(r, Exists(CopyFrom(r)))
  <2>1. Acts(r) /\ Holds(r)' /\ (pc[r] # "place" => ~AtWork(r)')
    BY <1>1, <1>3, FailsAtOnceActs
  <2>2. Exists(CopyFrom(r)) => "fault" \in mishaps'
    BY <1>3 DEF Fails, Fault, Mishap
  <2>3. QED BY <2>1, <2>2
<1>4. CASE ~Fails(r, Exists(CopyFrom(r)))
  <2>0. Exists(CopyFrom(r))
    BY <1>4 DEF CopyOpen
  <2>1. PICK from, to : from = CopyFrom(r) /\ to = CopyTo(r)
    OBVIOUS
  <2>2. PICK g : g = IF Exists(to) THEN dir[to] ELSE <<r, pc[r]>>
    OBVIOUS
  <2>3. PICK j : j = [job[r] EXCEPT !.source = dir[from], !.sink = g,
                                    !.own = IF pc[r] = "backup" THEN to ELSE @]
    OBVIOUS
  <2>4. PICK d : d = With(to, g, dir)
    OBVIOUS
  <2>5. /\ Goto(r, pc[r], d, j)
        /\ file' = [file EXCEPT ![g] = [Truncated EXCEPT !.runnable = file[g].runnable]]
    BY <1>4, <2>1, <2>2, <2>3, <2>4 DEF CopyOpen
  <2>6. g \in Files /\ g # NoFile /\ dir[from] \in Files /\ dir[from] # NoFile
    <3>1. <<r, pc[r]>> \in Files
      BY <1>1, FilesDiffer DEF MadeFiles
    <3>2. QED BY <1>1, <2>0, <2>1, <2>2, <3>1, FilesDiffer DEF Types, Exists
  <2>7. PICK o : o = IF pc[r] = "backup" THEN to ELSE job[r].own
    OBVIOUS
  <2>8. /\ j \in Jobs /\ j.source = dir[from] /\ j.sink = g /\ j.own = o
        /\ j.kind = job[r].kind /\ j.want = job[r].want /\ j.written = job[r].written
    <3>1. o \in Names /\ dir[from] \in Held /\ g \in Held
      BY <1>1, <2>1, <2>6, <2>7, CopiesTo, PcSteps DEF Jobs, Held
    <3>2. j = [job[r] EXCEPT !.source = dir[from], !.sink = g, !.own = o]
      BY <1>1, <2>3, <2>7 DEF Jobs
    <3>3. QED BY <1>1, <3>1, <3>2, CopyJobs DEF Jobs
  <2>9. /\ pc'[r] = pc[r] /\ job'[r] = j /\ dir' = d /\ AtWork(r)' /\ pc[r] \in Pcs
        /\ \A q \in Requests : q # r => pc'[q] = pc[q] /\ job'[q] = job[q]
    BY <1>1, <2>5, GoesOn
  <2>10. pc' \in [Requests -> Pcs] /\ job' \in [Requests -> Jobs]
    BY <1>1, <2>5, <2>8, <2>9, JobTypes
  <2>11. Opens(r) /\ Opened(r)'
    BY <1>1, <2>6, <2>8, <2>9, PcSteps DEF Opens, Opened
  <2>12. Goes(r)
    <3>1. job'[r].sink = (IF Exists(CopyTo(r)) THEN dir[CopyTo(r)] ELSE <<r, pc[r]>>)
      BY <2>1, <2>2, <2>8, <2>9
    <3>2. Upg(r) /\ pc[r] \in Late => pc'[r] \in Late \ {"remove"}
      BY <1>1, <2>9 DEF Late
    <3>3. job'[r].own = IF Opens(r) /\ pc[r] = "backup" THEN CopyTo(r) ELSE job[r].own
      BY <2>1, <2>7, <2>8, <2>9, <2>11
    <3>4. QED BY <1>1, <2>8, <2>9, <2>10, <2>11, <3>1, <3>2, <3>3 DEF Goes
  <2>13. /\ DOMAIN dir' = DOMAIN dir \cup {to} /\ dir'[to] = g
         /\ \A n \in DOMAIN dir : n # to => dir'[n] = dir[n]
    BY <2>4, <2>9 DEF With
  <2>14. /\ file' \in [Files -> Contents] /\ \A f \in Files : f # g => file'[f] = file[f]
         /\ ~file'[g].whole
    <3>1. file[g].runnable \in BOOLEAN /\ file \in [Files -> Contents]
      BY <1>1, <2>6 DEF Types, Contents
    <3>2. PICK c : c = [Truncated EXCEPT !.runnable = file[g].runnable]
      OBVIOUS
    <3>3. c \in Contents /\ ~c.whole
      BY <3>1, <3>2, Constants, ModeSet DEF Truncated
    <3>4. QED BY <2>5, <2>6, <3>1, <3>2, <3>3
  <2>15. Does(r)
    <3>1. ASSUME NEW n \in DOMAIN dir'
          PROVE  \/ n \in DOMAIN dir /\ dir'[n] = dir[n]
                 \/ n = CopyTo(r) /\ n \notin DOMAIN dir /\ dir'[n] = <<r, pc[r]>> /\ Opens(r)
      BY <2>1, <2>2, <2>11, <2>13 DEF Exists
    <3>2. CopyTo(r) \in DOMAIN dir' /\ \A n \in DOMAIN dir : n \in DOMAIN dir'
      BY <2>1, <2>13
    <3>3. \A f \in Files : f = job'[r].sink \/ file'[f] = file[f]
      BY <2>8, <2>9, <2>14
    <3>4. QED BY <1>1, <2>11, <2>14, <3>1, <3>2, <3>3 DEF Does
  <2>16. Holds(r)'
    <3>1. (Upg(r)' <=> Upg(r)) /\ Kinds(r)'
      BY <1>1, <1>2, <2>8, <2>9, <2>11, PcSteps DEF Upg, Kinds
    <3>2. job'[r].own # Exec
      BY <1>1, <1>2, <2>1, <2>7, <2>8, <2>9, CopiesTo, PcSteps
    <3>3. ~Unmade(r, "backup")'
      BY <1>1, <2>9, <2>11 DEF Unmade
    <3>4. Tmp(r) \in DOMAIN dir => Tmp(r) \in DOMAIN dir'
      BY <2>13
    <3>5. QED BY <1>1, <2>6, <2>8, <2>9, <3>1, <3>2, <3>3, <3>4 DEF Holds
  <2>17. ~job'[r].written /\ job'[r].source = dir[CopyFrom(r)] /\ ~file'[job'[r].sink].whole
    BY <1>2, <2>1, <2>8, <2>9, <2>14
  <2>18. QED BY <2>0, <2>11, <2>12, <2>15, <2>16, <2>17 DEF Acts
<1>5. QED BY <1>3, <1>4

LEMMA CopyWriteActs ==
  ASSUME GenInv, NEW r \in Requests, CopyWrite(r)
  PROVE  /\ Acts(r) /\ Holds(r)'
         /\ "fault" \notin mishaps' =>
              /\ job'[r].written /\ job'[r].source = job[r].source
              /\ file[job[r].source].whole /\ ~file[job[r].sink].whole => file'[job[r].sink].whole
<1>1. /\ pc[r] \in CopySteps /\ Opened(r) /\ ~job[r].written /\ AtWork(r) /\ Holds(r)
      /\ job[r] \in Jobs /\ Types /\ UNCHANGED <<latest, now, running>>
  BY PcSteps DEF CopyWrite, AtWork, GenInv, Types
<1>2. PICK k : k = [job[r] EXCEPT !.source = NoFile, !.sink = NoFile]
  OBVIOUS
<1>3. PICK j : j = [job[r] EXCEPT !.written = TRUE]
  OBVIOUS
<1>4. CASE Goto(r, ErrorPc(r, pc[r]), dir, k) /\ UNCHANGED file /\ "fault" \in mishaps'
  <2>1. k \in Jobs /\ k.kind = job[r].kind /\ k.own = job[r].own /\ k.want = job[r].want
        /\ k.sink = NoFile /\ ~k.written
    BY <1>1, <1>2, CopyJobs, NoneHeld DEF Jobs
  <2>2. QED BY <1>1, <1>4, <2>1, FailsActs
<1>5. ASSUME NEW c, Goto(r, pc[r], dir, j), file' = [file EXCEPT ![job[r].sink] = c],
             \/ c = [file[job[r].source] EXCEPT !.runnable = file[job[r].sink].runnable]
             \/ /\ c = [Truncated EXCEPT !.runnable = file[job[r].sink].runnable]
                /\ file[job[r].sink].whole
      PROVE  /\ Acts(r) /\ Holds(r)' /\ job'[r].written /\ job'[r].source = job[r].source
             /\ file[job[r].source].whole /\ ~file[job[r].sink].whole => file'[job[r].sink].whole
  <2>1. /\ j \in Jobs /\ j.kind = job[r].kind /\ j.own = job[r].own /\ j.want = job[r].want
        /\ j.sink = job[r].sink /\ j.source = job[r].source /\ j.written
    BY <1>1, <1>3, CopyJobs, NoneHeld DEF Jobs
  <2>2. pc[r] \in {"backup", "place", "restore"} /\ job[r].sink # NoFile
    BY <1>1, PcSteps DEF Opened
  <2>3. /\ Goes(r) /\ ~Opens(r) /\ dir' = dir /\ AtWork(r)' /\ pc'[r] = pc[r] /\ job'[r] = j
    BY <1>1, <1>5, <2>1, <2>2, GoesFurther DEF Late
  <2>4. job[r].sink \in Files /\ job[r].source \in Files
    BY <1>1 DEF Holds, Opened, Jobs, Held
  <2>5. /\ file' \in [Files -> Contents] /\ \A f \in Files : f # job[r].sink => file'[f] = file[f]
        /\ file[job[r].source].whole /\ ~file[job[r].sink].whole => file'[job[r].sink].whole
    <3>1. file[job[r].sink].runnable \in BOOLEAN /\ file \in [Files -> Contents]
          /\ file[job[r].source] \in Contents
      BY <1>1, <2>4 DEF Types, Contents
    <3>2. PICK x, y, v : x = file[job[r].source] /\ y = file[job[r].sink] /\ v = y.runnable
      OBVIOUS
    <3>3. c \in Contents /\ (x.whole /\ ~y.whole => c.whole)
      <4>1. CASE c = [x EXCEPT !.runnable = v]
        BY <3>1, <3>2, <4>1, ModeSet
      <4>2. CASE c = [Truncated EXCEPT !.runnable = v] /\ y.whole
        BY <3>1, <3>2, <4>2, ModeSet, Constants
      <4>3. QED BY <1>5, <3>2, <4>1, <4>2
    <3>4. QED BY <1>5, <2>4, <3>1, <3>2, <3>3
  <2>6. Does(r)
    BY <1>1, <2>3, <2>5 DEF Does
  <2>7. Holds(r)'
    <3>1. (Upg(r)' <=> Upg(r)) /\ Opened(r)' /\ (Unmade(r, "backup")' <=> Unmade(r, "backup"))
      BY <1>1, <2>1, <2>2, <2>3 DEF Upg, Opened, Unmade
    <3>2. Kinds(r)'
      BY <1>1, <2>1, <2>3, <3>1 DEF Holds, Kinds
    <3>3. QED BY <1>1, <2>1, <2>3, <3>1, <3>2 DEF Holds
  <2>8. QED BY <2>1, <2>3, <2>5, <2>6, <2>7 DEF Acts
<1>6. QED
  <2>1. \/ Goto(r, ErrorPc(r, pc[r]), dir, k) /\ UNCHANGED file /\ "fault" \in mishaps'
        \/ /\ Goto(r, pc[r], dir, j)
           /\ \E c : /\ file' = [file EXCEPT ![job[r].sink] = c]
                     /\ \/ c = [file[job[r].source] EXCEPT !.runnable = file[job[r].sink].runnable]
                        \/ /\ c = [Truncated EXCEPT !.runnable = file[job[r].sink].runnable]
                           /\ file[job[r].sink].whole
    BY <1>2, <1>3, Zenon DEF CopyWrite, Fault, Mishap
  <2>2. QED BY <1>4, <1>5, <2>1

LEMMA CopyModeActs ==
  ASSUME GenInv, NEW r \in Requests, CopyMode(r)
  PROVE  /\ Acts(r) /\ Holds(r)'
         /\ \A f \in Files : (file[f].whole => file'[f].whole) /\ (file'[f].whole => file[f].whole)
         /\ pc[r] = "backup" /\ AtWork(r)' =>
              Exists(CopyTo(r)) /\ pc'[r] = IF Upg(r) THEN "rotate" ELSE "remove"
<1>1. /\ pc[r] \in CopySteps /\ job[r].written /\ AtWork(r) /\ Holds(r) /\ Kinds(r) /\ Opened(r)
      /\ job[r] \in Jobs /\ Types /\ UNCHANGED <<latest, now, running>>
  BY PcSteps DEF CopyMode, AtWork, GenInv, Types, Holds, Kinds
<1>2. PICK j : j = [job[r] EXCEPT !.source = NoFile, !.sink = NoFile, !.written = FALSE]
  OBVIOUS
<1>3. j \in Jobs /\ j.kind = job[r].kind /\ j.own = job[r].own /\ j.want = job[r].want
      /\ j.sink = NoFile /\ ~j.written
  BY <1>1, <1>2, CopyJobs, NoneHeld DEF Jobs
<1>4. CASE Goto(r, ErrorPc(r, pc[r]), dir, j) /\ UNCHANGED file
  <2>1. Acts(r) /\ Holds(r)' /\ (pc[r] # "place" => ~AtWork(r)')
    BY <1>1, <1>3, <1>4, PcSteps, FailsActs
  <2>2. QED BY <1>4, <2>1
<1>5. CASE /\ Exists(CopyFrom(r)) /\ Exists(CopyTo(r))
           /\ file' = [file EXCEPT ![dir[CopyTo(r)]].runnable = Content(CopyFrom(r)).runnable]
           /\ Goto(r, NextPc(r, pc[r]), dir, j)
  <2>1. PICK v, g : v = Content(CopyFrom(r)).runnable /\ g = dir[CopyTo(r)]
    OBVIOUS
  <2>2. v \in BOOLEAN /\ g \in Files /\ file[g] \in Contents
    BY <1>1, <1>5, <2>1 DEF Exists, Content, Types, Contents
  <2>3. /\ file' \in [Files -> Contents] /\ \A f \in Files : f # g => file'[f] = file[f]
        /\ (file'[g].whole => file[g].whole) /\ (file[g].whole => file'[g].whole)
    <3>1. PICK c : c = [file[g] EXCEPT !.runnable = v]
      OBVIOUS
    <3>2. c \in Contents /\ c.whole = file[g].whole
      BY <2>2, <3>1, ModeSet
    <3>3. file' = [file EXCEPT ![g] = c]
      BY <1>5, <2>1, <3>1
    <3>4. QED BY <1>1, <2>2, <3>2, <3>3 DEF Types
  <2>4. /\ pc[r] = "backup" /\ Upg(r) => NextPc(r, pc[r]) = "rotate"
        /\ pc[r] = "backup" /\ ~Upg(r) => NextPc(r, pc[r]) = "remove"
        /\ pc[r] = "place" => NextPc(r, pc[r]) = "chmod" /\ ~Upg(r)
        /\ pc[r] = "restore" => NextPc(r, pc[r]) = "failed"
    BY <1>1 DEF NextPc, Upg, Kinds
  <2>5. CASE pc[r] = "restore"
    <3>1. Goto(r, "failed", dir, j)
      BY <1>5, <2>4, <2>5
    <3>2. \A f \in Files : (file[f].whole => file'[f].whole) /\ (file'[f].whole => file[f].whole)
      BY <2>3
    <3>3. Acts(r) /\ Holds(r)'
      BY <1>1, <1>3, <2>3, <3>1, <3>2, PcSteps, GoesToItsEnd
    <3>4. QED BY <2>5, <3>2, <3>3
  <2>6. CASE pc[r] \in {"backup", "place"}
    <3>1. PICK p : p = NextPc(r, pc[r])
      OBVIOUS
    <3>2. /\ p \in {"rotate", "remove", "chmod"} /\ (pc[r] = "backup" => p \in {"rotate", "remove"})
          /\ p = "chmod" => ~Upg(r)
          /\ Upg(r) => p = "rotate" /\ pc[r] = "backup"
          /\ Goto(r, p, dir, j)
      BY <1>5, <2>4, <2>6, <3>1
    <3>3. /\ Goes(r) /\ ~Opens(r) /\ dir' = dir /\ AtWork(r)' /\ pc'[r] = p /\ job'[r] = j
      BY <1>1, <1>3, <2>6, <3>2, GoesFurther DEF Late
    <3>4. Does(r)
      BY <1>1, <2>3, <3>3 DEF Does
    <3>5. /\ (Upg(r)' <=> Upg(r)) /\ ~Opened(r)' /\ ~Unmade(r, "backup") /\ ~Unmade(r, "backup")'
      BY <1>1, <1>3, <2>6, <3>2, <3>3 DEF Upg, Opened, Unmade
    <3>6. Kinds(r)'
      BY <1>1, <1>3, <3>2, <3>3, <3>5 DEF Kinds
    <3>7. Holds(r)'
      BY <1>1, <1>3, <3>2, <3>3, <3>5, <3>6 DEF Holds
    <3>8. \A f \in Files : (file[f].whole => file'[f].whole) /\ (file'[f].whole => file[f].whole)
      BY <2>3
    <3>9. pc[r] = "backup" => pc'[r] = IF Upg(r) THEN "rotate" ELSE "remove"
      BY <2>4, <3>1, <3>3
    <3>10. QED BY <1>5, <3>3, <3>4, <3>7, <3>8, <3>9 DEF Acts
  <2>7. QED BY <1>1, <2>5, <2>6, PcSteps
<1>6. QED
  BY <1>2, <1>4, <1>5, Zenon DEF CopyMode

-------------------------------------------------------------------------------
LEMMA RotateBackupsActs ==
  ASSUME GenInv, NEW r \in Requests, RotateBackups(r)
  PROVE  Acts(r) /\ Holds(r)'
<1>1. /\ pc[r] = "rotate" /\ AtWork(r) /\ Holds(r) /\ Kinds(r) /\ ~Opened(r) /\ job[r].own # Exec
      /\ job[r] \in Jobs /\ Types /\ UNCHANGED <<latest, now, running, file>>
  BY PcSteps DEF RotateBackups, AtWork, GenInv, Types, Step, Holds, Kinds, Unmade
<1>2. PICK old \in SUBSET ListBackups, removed \in SUBSET ListBackups :
        /\ \/ Cardinality(ListBackups \ old) =
                IF Cardinality(ListBackups) <= MaxBackups
                THEN Cardinality(ListBackups) ELSE MaxBackups
           \/ old = {}
        /\ \A o \in old, k \in ListBackups \ old : o[3] <= k[3]
        /\ removed \subseteq old
        /\ Step(r, NextPc(r, "rotate"), [n \in DOMAIN dir \ removed |-> dir[n]])
  BY DEF RotateBackups
<1>3. PICK d : d = [n \in DOMAIN dir \ removed |-> dir[n]]
  OBVIOUS
<1>4. Goto(r, NextPc(r, "rotate"), d, job[r])
  BY <1>2, <1>3 DEF Step
<1>5. /\ \A n \in DOMAIN d : n \in DOMAIN dir /\ d[n] = dir[n]
      /\ \A n \in DOMAIN dir :
           \/ n \in DOMAIN d
           \/ n \in ListBackups /\ \E k \in ListBackups : k \in DOMAIN d /\ n[3] <= k[3]
  <2>1. \A n \in DOMAIN d : n \in DOMAIN dir /\ d[n] = dir[n]
    BY <1>3
  <2>2. ASSUME NEW n \in DOMAIN dir, n \notin DOMAIN d
        PROVE  n \in ListBackups /\ \E k \in ListBackups : k \in DOMAIN d /\ n[3] <= k[3]
    <3>1. n \in old /\ n \in ListBackups
      BY <1>2, <1>3, <2>2
    <3>2. PICK k \in ListBackups \ old : TRUE
      BY <1>1, <1>2, <3>1, RotationLeavesOne
    <3>3. k \in DOMAIN d /\ n[3] <= k[3]
      BY <1>2, <1>3, <3>1 DEF ListBackups
    <3>4. QED BY <3>1, <3>3
  <2>3. QED BY <2>1, <2>2
<1>6. file' \in [Files -> Contents]
  BY <1>1 DEF Types
<1>7. CASE ~Upg(r)
  <2>1. Goto(r, "ok", d, job[r])
    BY <1>4, <1>7 DEF NextPc, Upg
  <2>2. QED BY <1>1, <1>5, <1>6, <2>1, GoesToItsEnd
<1>8. CASE Upg(r)
  <2>1. Goto(r, "remove", d, job[r])
    BY <1>4, <1>8 DEF NextPc, Upg
  <2>2. Goes(r) /\ ~Opens(r) /\ dir' = d /\ AtWork(r)' /\ pc'[r] = "remove" /\ job'[r] = job[r]
    BY <1>1, <2>1, GoesFurther DEF Late, Opened
  <2>3. Does(r)
    BY <1>1, <1>5, <1>6, <2>2 DEF Does
  <2>4. Tmp(r) \in DOMAIN dir'
    BY <1>1, <1>5, <1>8, <2>2, NamesDiffer DEF Holds, ListBackups
  <2>5. Holds(r)'
    BY <1>1, <1>8, <2>2, <2>4 DEF Holds, Kinds, Upg, Opened, Unmade
  <2>6. QED BY <2>2, <2>3, <2>5 DEF Acts
<1>9. QED BY <1>7, <1>8

LEMMA RemoveExecActs ==
  ASSUME GenInv, NEW r \in Requests, RemoveExec(r)
  PROVE  Acts(r) /\ Holds(r)'
<1>1. /\ pc[r] = "remove" /\ AtWork(r) /\ Holds(r) /\ Kinds(r) /\ ~Opened(r) /\ job[r].own # Exec
      /\ job[r] \in Jobs /\ Types /\ UNCHANGED <<latest, now, running, file>>
  BY PcSteps DEF RemoveExec, Fails, AtWork, GenInv, Types, Step, Holds, Kinds, Unmade
<1>2. file' \in [Files -> Contents]
  BY <1>1 DEF Types
<1>3. CASE Fails(r, Exists(Exec))
  BY <1>1, <1>3, FailsAtOnceActs
<1>4. CASE ~Fails(r, Exists(Exec))
  <2>1. PICK p, d : p = NextPc(r, "remove") /\ d = [n \in DOMAIN dir \ {Exec} |-> dir[n]]
    OBVIOUS
  <2>2. Goto(r, p, d, job[r])
    BY <1>4, <2>1 DEF RemoveExec, Step
  <2>3. p = IF Upg(r) THEN "rename" ELSE "place"
    BY <2>1 DEF NextPc, Upg
  <2>4. Goes(r) /\ ~Opens(r) /\ dir' = d /\ AtWork(r)' /\ pc'[r] = p /\ job'[r] = job[r]
    BY <1>1, <2>2, <2>3, GoesFurther DEF Late, Opened
  <2>5. /\ \A n \in DOMAIN dir' : n \in DOMAIN dir /\ dir'[n] = dir[n]
        /\ \A n \in DOMAIN dir : n \in DOMAIN dir' \/ n = Exec
    BY <2>1, <2>4
  <2>6. Does(r)
    BY <1>1, <1>2, <2>4, <2>5 DEF Does
  <2>7. Upg(r) => Tmp(r) \in DOMAIN dir'
    BY <1>1, <2>5, NamesDiffer DEF Holds
  <2>8. Holds(r)'
    BY <1>1, <2>3, <2>4, <2>7 DEF Holds, Kinds, Upg, Opened, Unmade
  <2>9. QED BY <2>4, <2>6, <2>8 DEF Acts
<1>5. QED BY <1>3, <1>4

LEMMA RenameTmpActs ==
  ASSUME GenInv, NEW r \in Requests, RenameTmp(r)
  PROVE  Acts(r) /\ Holds(r)'
<1>1. /\ pc[r] = "rename" /\ AtWork(r) /\ Holds(r) /\ Kinds(r) /\ ~Opened(r) /\ job[r].own # Exec
      /\ job[r] \in Jobs /\ Types /\ UNCHANGED <<latest, now, running, file>>
  BY PcSteps DEF RenameTmp, Fails, AtWork, GenInv, Types, Step, Holds, Kinds, Unmade
<1>2. Upg(r) /\ Tmp(r) \in DOMAIN dir /\ dir[Tmp(r)] = <<r, "tmp">>
  BY <1>1, NamesDiffer DEF Holds, Kinds, Types, IsBackup
<1>3. file' \in [Files -> Contents]
  BY <1>1 DEF Types
<1>5. CASE Fails(r, TRUE)
  BY <1>1, <1>5, FailsAtOnceActs
<1>6. CASE Step(r, "chmod", With(Exec, dir[Tmp(r)], Without(r, dir)))
  <2>1. PICK d : d = With(Exec, dir[Tmp(r)], Without(r, dir))
    OBVIOUS
  <2>2. Goto(r, "chmod", d, job[r])
    BY <1>6, <2>1 DEF Step
  <2>3. /\ Goes(r) /\ ~Opens(r) /\ dir' = d /\ AtWork(r)' /\ pc'[r] = "chmod" /\ job'[r] = job[r]
        /\ Holds(r)'
    <3>1. Goes(r) /\ ~Opens(r) /\ dir' = d /\ AtWork(r)' /\ pc'[r] = "chmod" /\ job'[r] = job[r]
      BY <1>1, <2>2, GoesFurther DEF Late, Opened
    <3>2. QED BY <1>1, <1>2, <3>1 DEF Holds, Kinds, Upg, Opened, Unmade
  <2>4. /\ DOMAIN dir' = (DOMAIN dir \ {Tmp(r)}) \cup {Exec} /\ dir'[Exec] = <<r, "tmp">>
        /\ \A n \in DOMAIN dir : n # Tmp(r) /\ n # Exec => dir'[n] = dir[n]
    BY <1>2, <2>1, <2>3, NamesDiffer DEF With, Without
  <2>5. Does(r)
    BY <1>1, <1>3, <2>3, <2>4, NamesDiffer DEF Does
  <2>6. QED BY <2>3, <2>5 DEF Acts
<1>7. QED BY <1>5, <1>6 DEF RenameTmp

LEMMA ChmodExecActs ==
  ASSUME GenInv, NEW r \in Requests, ChmodExec(r)
  PROVE  Acts(r) /\ Holds(r)'
<1>1. /\ pc[r] = "chmod" /\ AtWork(r) /\ Holds(r) /\ Kinds(r) /\ ~Opened(r) /\ job[r].own # Exec
      /\ job[r] \in Jobs /\ Types /\ UNCHANGED <<latest, now, running>>
  BY PcSteps DEF ChmodExec, Fails, AtWork, GenInv, Types, Step, Holds, Kinds, Unmade
<1>2. CASE Fails(r, Exists(Exec))
  BY <1>1, <1>2, FailsAtOnceActs
<1>3. CASE ~Fails(r, Exists(Exec))
  <2>1. PICK p : Goto(r, p, dir, job[r]) /\ p = IF Upg(r) THEN "ok" ELSE "rotate"
    BY <1>3 DEF ChmodExec, Step, NextPc, Upg
  <2>2. /\ file' \in [Files -> Contents]
        /\ \A f \in Files : (file[f].whole => file'[f].whole) /\ (file'[f].whole => file[f].whole)
    <3>1. PICK g : g = dir[Exec]
      OBVIOUS
    <3>2. g \in Files /\ file[g] \in Contents
      BY <1>1, <1>3, <3>1 DEF ChmodExec, Exists, Types
    <3>3. PICK c : c = [file[g] EXCEPT !.runnable = TRUE]
      OBVIOUS
    <3>4. c \in Contents /\ c.whole = file[g].whole
      BY <3>2, <3>3, ModeSet
    <3>5. file' = [file EXCEPT ![g] = c]
      BY <1>3, <3>1, <3>3 DEF ChmodExec
    <3>6. QED BY <1>1, <3>2, <3>4, <3>5 DEF Types
  <2>3. CASE Upg(r)
    BY <1>1, <2>1, <2>2, <2>3, GoesToItsEnd
  <2>4. CASE ~Upg(r)
    <3>1. Goes(r) /\ ~Opens(r) /\ dir' = dir /\ AtWork(r)' /\ pc'[r] = "rotate" /\ job'[r] = job[r]
      BY <1>1, <2>1, <2>4, GoesFurther DEF Late, Opened
    <3>2. Does(r)
      BY <1>1, <2>2, <3>1 DEF Does
    <3>3. Holds(r)'
      BY <1>1, <2>4, <3>1 DEF Holds, Kinds, Upg, Opened, Unmade
    <3>4. QED BY <3>1, <3>2, <3>3 DEF Acts
  <2>5. QED BY <2>3, <2>4
<1>4. QED BY <1>2, <1>3

LEMMA RequestActs ==
  ASSUME GenInv, NEW r \in Requests, RequestStep(r)
  PROVE  Acts(r) /\ Holds(r)'
BY DownloadActs, StatTargetActs, CopyOpenActs, CopyWriteActs, CopyModeActs, RotateBackupsActs,
   RemoveExecActs, RenameTmpActs, ChmodExecActs DEF RequestStep

-------------------------------------------------------------------------------
\* A step of r leaves the downloads of the others alone.
LEMMA DownloadsAfter ==
  ASSUME GenInv, NEW r \in Requests, Acts(r), Holds(r)'
  PROVE  Downloads'
<1>1. AtWork(r) /\ Goes(r) /\ Does(r) /\ Types /\ Holds(r) /\ Downloads
  BY DEF Acts, Goes, GenInv
<1>2. \A q \in Requests : Unmade(q, "tmp")' => Unmade(q, "tmp") /\ q # r
  BY <1>1 DEF Goes, Unmade
<1>3. ASSUME NEW q \in Requests, Private(q), ~(q = r /\ pc[r] = "rename" /\ Tmp(r) \notin DOMAIN dir')
      PROVE  Private(q)'
  <2>1. \A n \in DOMAIN dir' : dir'[n] = <<q, "tmp">> => n = Tmp(q)
    <3>1. \A k : k \in CopySteps => <<r, k>> # <<q, "tmp">>
      BY FilesDiffer, PcSteps
    <3>2. r # q => <<r, "tmp">> # <<q, "tmp">>
      BY FilesDiffer
    <3>3. QED BY <1>1, <1>3, <3>1, <3>2 DEF Does, Opens, Private
  <2>2. \A p \in Requests : job'[p].sink # <<q, "tmp">>
    <3>1. ASSUME Opens(r) PROVE job'[r].sink # <<q, "tmp">>
      <4>1. CopyTo(r) # Tmp(q)
        BY <1>1, <3>1, CopiesTo DEF Opens
      <4>2. <<r, pc[r]>> # <<q, "tmp">>
        BY <3>1, FilesDiffer, PcSteps DEF Opens
      <4>3. QED BY <1>1, <1>3, <3>1, <4>1, <4>2 DEF Opens, Goes, Private, Exists
    <3>2. job'[r].sink # <<q, "tmp">>
      <4>1. CASE Opened(r)'
        BY <1>1, <1>3, <3>1, <4>1 DEF Goes, Private
      <4>2. CASE ~Opened(r)'
        BY <4>2, FilesDiffer DEF Opened
      <4>3. QED BY <4>1, <4>2
    <3>3. QED BY <1>1, <1>3, <3>2 DEF Goes, Private
  <2>3. QED BY <2>1, <2>2 DEF Private
<1>4. ASSUME NEW q \in Requests, Unmade(q, "tmp")' PROVE Tmp(q) \notin DOMAIN dir' /\ Private(q)'
  <2>1. Unmade(q, "tmp") /\ q # r /\ Tmp(q) \notin DOMAIN dir /\ Private(q)
    BY <1>1, <1>2, <1>4 DEF Downloads
  <2>2. Tmp(q) # Tmp(r) /\ Tmp(q) # Exec /\ (Opens(r) => Tmp(q) # CopyTo(r))
    BY <1>1, <2>1, NamesDiffer, CopiesTo DEF Opens
  <2>3. QED BY <1>1, <1>3, <2>1, <2>2 DEF Does
<1>5. ASSUME NEW q \in Requests, Tmp(q) \in DOMAIN dir' PROVE Private(q)' /\ Content(Tmp(q))'.whole
  <2>1. Tmp(q) # Exec /\ (Opens(r) => Tmp(q) # CopyTo(r)) /\ (q # r => Tmp(q) # Tmp(r))
    BY <1>1, NamesDiffer, CopiesTo DEF Opens
  <2>2. Tmp(q) \in DOMAIN dir \/ (q = r /\ pc[r] = "download")
    BY <1>1, <1>5, <2>1 DEF Does
  <2>3. Private(q)
    BY <1>1, <2>2 DEF Downloads, Unmade
  <2>4. Private(q)'
    BY <1>3, <1>5, <2>3
  <2>5. dir'[Tmp(q)] = <<q, "tmp">> /\ (Tmp(q) \in DOMAIN dir => dir[Tmp(q)] = <<q, "tmp">>)
    BY <1>1, <1>5, <2>1, <2>2, NamesDiffer DEF Does, Types, IsBackup
  <2>6. file'[<<q, "tmp">>].whole
    <3>1. <<q, "tmp">> \in Files
      BY FilesDiffer DEF MadeFiles
    <3>2. <<q, "tmp">> # job[r].sink /\ <<q, "tmp">> # job'[r].sink
      BY <2>3, <2>4 DEF Private
    <3>3. \/ file[<<q, "tmp">>].whole => file'[<<q, "tmp">>].whole
          \/ file'[<<q, "tmp">>].whole
      BY <1>1, <3>1, <3>2 DEF Does
    <3>4. CASE Tmp(q) \in DOMAIN dir
      BY <1>1, <2>5, <3>3, <3>4 DEF Downloads, Content
    <3>5. CASE Tmp(q) \notin DOMAIN dir
      <4>1. Content(Tmp(q))'.whole
        BY <1>1, <1>5, <2>1, <2>2, <3>5 DEF Does
      <4>2. QED BY <2>5, <4>1 DEF Content
    <3>6. QED BY <3>4, <3>5
  <2>7. QED BY <2>4, <2>5, <2>6 DEF Content
<1>6. QED BY <1>4, <1>5 DEF Downloads

LEMMA GenAfter ==
  ASSUME GenInv, NEW r \in Requests, Acts(r), Holds(r)'
  PROVE  GenInv'
<1>1. AtWork(r) /\ Goes(r) /\ Does(r) /\ Types /\ \A q \in Requests : Holds(q)
  BY DEF Acts, Goes, GenInv
<1>2. \A n : IsBackup(n)' <=> IsBackup(n)
  BY <1>1 DEF IsBackup, Does
<1>3. ASSUME NEW n \in DOMAIN dir'
      PROVE  /\ dir'[n] \in Files
             /\ \/ n = Exec \/ IsBackup(n)'
                \/ \E q \in Requests : n = Tmp(q) /\ dir'[n] = <<q, "tmp">>
  <2>1. CASE n \in DOMAIN dir /\ dir'[n] = dir[n]
    BY <1>1, <1>2, <2>1 DEF Types
  <2>2. CASE n \in {Tmp(r), Exec} /\ dir'[n] = <<r, "tmp">>
    <3>1. <<r, "tmp">> \in Files
      BY FilesDiffer DEF MadeFiles
    <3>2. QED BY <2>2, <3>1
  <2>3. CASE n = CopyTo(r) /\ dir'[n] = <<r, pc[r]>> /\ Opens(r)
    <3>1. n = Exec \/ IsBackup(n)
      BY <1>1, <2>3, CopiesTo DEF Opens
    <3>2. <<r, pc[r]>> \in Files
      BY <2>3, FilesDiffer, PcSteps DEF Opens, MadeFiles
    <3>3. QED BY <1>2, <2>3, <3>1, <3>2
  <2>4. QED BY <1>1, <2>1, <2>2, <2>3 DEF Does
<1>4. Types'
  BY <1>1, <1>3 DEF Types, Goes, Does
<1>5. ASSUME NEW q \in Requests, q # r PROVE Holds(q)'
  <2>1. pc'[q] = pc[q] /\ job'[q] = job[q] /\ Holds(q)
    BY <1>1, <1>5 DEF Goes
  <2>2. Tmp(q) \in DOMAIN dir => Tmp(q) \in DOMAIN dir'
    BY <1>1, <1>5, NamesDiffer DEF Does, ListBackups
  <2>3. QED BY <2>1, <2>2 DEF Holds, AtWork, Kinds, Upg, Opened, Unmade
<1>6. \A q \in Requests : Holds(q)'
  BY <1>5
<1>7. QED BY <1>4, <1>6, DownloadsAfter DEF GenInv

\* The beginning of a request.
LEMMA Begins ==
  ASSUME GenInv, NEW r \in Requests, Request(r)
  PROVE  /\ GenInv'
         /\ pc[r] = "idle" /\ pc'[r] \in {"download", "ok", "stat"} /\ job'[r] \in Jobs
         /\ \A q \in Requests : q # r => pc'[q] = pc[q] /\ job'[q] = job[q]
         /\ UNCHANGED <<dir, file, now>>
         /\ ~Opened(r)' /\ (pc'[r] = "stat" => ~Upg(r)' /\ ListBackups # {})
         /\ pc'[r] = "download" => Upg(r)'
<1>1. Types /\ Downloads /\ \A q \in Requests : Holds(q)
  BY DEF GenInv
<1>2. \E j \in Jobs, p \in Pcs :
        /\ Start(r, p, j) /\ j.own = Exec /\ j.sink = NoFile /\ ~j.written
        /\ \/ p \in {"download", "ok"} /\ j.kind \in {"api", "command"} /\ j.want.whole
           \/ p = "stat" /\ j.kind = "rollback" /\ ListBackups # {}
  <2>1. ASSUME NEW kind \in {"api", "command"}, NEW label \in 0..Builds, NEW force,
               RunWithProgress(r, kind, label, force)
        PROVE  \E j \in Jobs, p \in Pcs :
                 /\ Start(r, p, j) /\ j.own = Exec /\ j.sink = NoFile /\ ~j.written
                 /\ p \in {"download", "ok"} /\ j.kind \in {"api", "command"} /\ j.want.whole
    <3>1. PICK j : j = [NoJob EXCEPT !.kind = kind, !.label = label, !.want = Whole(latest)]
      OBVIOUS
    <3>2. PICK p \in {"download", "ok"} : p = IF force \/ latest > label THEN "download" ELSE "ok"
      OBVIOUS
    <3>3. Start(r, p, j)
      BY <2>1, <3>1, <3>2 DEF RunWithProgress
    <3>4. Whole(latest) \in Contents /\ Whole(latest).whole
      BY <1>1, Constants DEF Types
    <3>5. j \in Jobs /\ j.own = Exec /\ j.sink = NoFile /\ ~j.written /\ j.kind = kind
          /\ j.want = Whole(latest)
      BY <3>1, <3>4, Constants DEF Jobs
    <3>6. QED BY <3>2, <3>3, <3>4, <3>5, PcSteps
  <2>2. CASE SystemUpgrade(r)
    BY <1>1, <2>1, <2>2 DEF SystemUpgrade, Types
  <2>3. CASE CommandUpgrade(r)
    <3>1. Content(Exec).build \in 0..Builds
      BY <1>1, <2>3 DEF CommandUpgrade, ExecUsable, Exists, Content, Types, Contents
    <3>2. QED BY <2>1, <2>3, <3>1 DEF CommandUpgrade
  <2>4. CASE SystemRollback(r)
    <3>1. PICK t \in ListBackups :
            Start(r, "stat", [NoJob EXCEPT !.kind = "rollback", !.label = running,
                                           !.target = t, !.want = Content(t)])
      BY <2>4 DEF SystemRollback
    <3>2. PICK j : j = [NoJob EXCEPT !.kind = "rollback", !.label = running,
                                     !.target = t, !.want = Content(t)]
      OBVIOUS
    <3>3. t \in DOMAIN dir /\ Content(t) \in Contents
      BY <1>1 DEF ListBackups, Content, Types
    <3>4. t \in Names
      <4>1. now \in Nat /\ t[1] = "backup" /\ \A q \in Requests : t # Tmp(q)
        BY <1>1, NamesDiffer DEF Types, ListBackups
      <4>2. IsBackup(t)
        BY <1>1, <3>3, <4>1, NamesDiffer DEF Types
      <4>3. QED BY <4>1, <4>2 DEF IsBackup, Names
    <3>5. running \in 0..Builds
      BY <1>1 DEF Types
    <3>6. /\ j \in Jobs /\ j.own = Exec /\ j.sink = NoFile /\ ~j.written /\ j.kind = "rollback"
      BY <3>2, <3>3, <3>4, <3>5, Constants DEF Jobs
    <3>7. QED BY <3>1, <3>2, <3>6, PcSteps
  <2>5. QED BY <2>2, <2>3, <2>4 DEF Request, Upgrading
<1>3. PICK j \in Jobs, p \in Pcs :
        /\ Start(r, p, j) /\ j.own = Exec /\ j.sink = NoFile /\ ~j.written
        /\ \/ p \in {"download", "ok"} /\ j.kind \in {"api", "command"} /\ j.want.whole
           \/ p = "stat" /\ j.kind = "rollback" /\ ListBackups # {}
  BY <1>2
<1>4. pc[r] = "idle" /\ Goto(r, p, dir, j) /\ UNCHANGED <<latest, now, file, running>>
  BY <1>3 DEF Start
<1>5. p \in Pcs /\ p \notin Errors /\ (p \in Resting <=> p = "ok")
  BY <1>3, PcSteps
<1>6. /\ pc'[r] = p /\ dir' = dir /\ job'[r] = (IF p = "ok" THEN NoJob ELSE j)
      /\ \A q \in Requests : q # r => pc'[q] = pc[q] /\ job'[q] = job[q]
  BY <1>1, <1>4, <1>5 DEF Goto, Types
<1>7. pc' \in [Requests -> Pcs] /\ job' \in [Requests -> Jobs]
  BY <1>1, <1>4, <1>5, JobTypes
<1>8. Types'
  BY <1>1, <1>4, <1>6, <1>7 DEF Types, IsBackup
<1>9. /\ ~Opened(r)' /\ (p = "stat" => ~Upg(r)') /\ (p = "download" => Upg(r)')
  BY <1>3, <1>6, Constants DEF Opened, Upg
<1>10. Holds(r)'
  <2>1. CASE p = "ok"
    BY <1>6, <2>1, PcSteps DEF Holds, AtWork
  <2>2. CASE p # "ok"
    <3>1. AtWork(r)' /\ job'[r] = j /\ pc'[r] \in {"download", "stat"}
      BY <1>3, <1>5, <1>6, <2>2 DEF AtWork
    <3>2. Kinds(r)'
      BY <1>3, <1>6, <1>9, <3>1 DEF Kinds, Upg
    <3>3. QED BY <1>3, <1>9, <3>1, <3>2 DEF Holds, Unmade, Upg
  <2>3. QED BY <2>1, <2>2
<1>11. \A q \in Requests : Holds(q)'
  <2>1. ASSUME NEW q \in Requests, q # r PROVE Holds(q)'
    BY <1>1, <1>6, <2>1 DEF Holds, AtWork, Kinds, Upg, Opened, Unmade
  <2>2. QED BY <1>10, <2>1
<1>12. Downloads'
  <2>1. \A q \in Requests : job'[q].sink = job[q].sink \/ job'[q].sink = NoFile
    BY <1>3, <1>6, Constants
  <2>2. \A q \in Requests : NoFile # <<q, "tmp">>
    BY FilesDiffer
  <2>3. \A q \in Requests : Private(q) => Private(q)'
    BY <1>6, <2>1, <2>2 DEF Private
  <2>4. \A q \in Requests : Unmade(q, "tmp")' => Unmade(q, "tmp")
    BY <1>4, <1>6 DEF Unmade
  <2>5. QED BY <1>1, <1>4, <1>6, <2>3, <2>4 DEF Downloads, Content
<1>13. QED BY <1>3, <1>4, <1>6, <1>7, <1>8, <1>9, <1>11, <1>12 DEF GenInv

\* Steps that leave the directory and the requests alone.
LEMMA GenFrame ==
  ASSUME GenInv, UNCHANGED <<dir, file, pc, job>>,
         running' \in 0..Builds, latest' \in 0..Builds, now' \in Nat, now <= now'
  PROVE  GenInv'
<1>1. Types'
  <2>1. \A n : IsBackup(n) => IsBackup(n)'
    BY DEF IsBackup, GenInv, Types
  <2>2. QED BY <2>1 DEF GenInv, Types
<1>2. \A r \in Requests : Holds(r)'
  BY DEF GenInv, Holds, AtWork, Kinds, Upg, Opened, Unmade
<1>3. Downloads'
  BY DEF GenInv, Downloads, Private, Unmade, Content
<1>4. QED BY <1>1, <1>2, <1>3 DEF GenInv

\* The end of processes.
LEMMA GenKill ==
  ASSUME GenInv, NEW dead, Kill(dead), running' \in 0..Builds
  PROVE  /\ GenInv' /\ UNCHANGED <<dir, file, now>>
         /\ \A r \in Requests :
              \/ pc'[r] = pc[r] /\ job'[r] = job[r]
              \/ /\ AtWork(r) /\ ~AtWork(r)' /\ job'[r] = NoJob
                 /\ pc'[r] = IF pc[r] \in Window THEN "cut" ELSE "killed"
<1>1. /\ UNCHANGED <<dir, file, now, latest>>
      /\ \A r \in Requests :
           \/ pc'[r] = pc[r] /\ job'[r] = job[r]
           \/ /\ AtWork(r) /\ ~AtWork(r)' /\ job'[r] = NoJob
              /\ pc'[r] = IF pc[r] \in Window THEN "cut" ELSE "killed"
  BY PcSteps DEF Kill, GenInv, Holds, AtWork
<1>2. pc' \in [Requests -> Pcs] /\ job' \in [Requests -> Jobs]
  <2>1. {"cut", "killed"} \subseteq Pcs /\ NoJob \in Jobs
    BY Constants, PcSteps
  <2>2. \A r \in Requests : pc'[r] \in Pcs /\ job'[r] \in Jobs
    BY <1>1, <2>1 DEF GenInv, Types
  <2>3. QED BY <2>2 DEF Kill
<1>3. Types'
  BY <1>1, <1>2 DEF GenInv, Types, IsBackup
<1>4. ASSUME NEW r \in Requests PROVE Holds(r)'
  BY <1>1 DEF GenInv, Holds, AtWork, Kinds, Upg, Opened, Unmade
<1>5. Downloads'
  <2>1. \A r \in Requests : job'[r].sink = job[r].sink \/ job'[r].sink = NoFile
    BY <1>1, Constants
  <2>2. \A r \in Requests : NoFile # <<r, "tmp">>
    BY FilesDiffer
  <2>3. \A r \in Requests : Private(r) => Private(r)'
    BY <1>1, <2>1, <2>2 DEF Private
  <2>4. \A r \in Requests : Unmade(r, "tmp")' => Unmade(r, "tmp")
    BY <1>1 DEF Unmade
  <2>5. QED BY <1>1, <2>3, <2>4 DEF GenInv, Downloads, Content
<1>6. QED BY <1>1, <1>3, <1>4, <1>5 DEF GenInv

\* What a step of the specification is to the directory and the requests.
Idles == /\ UNCHANGED <<dir, file, pc, job>> /\ latest' \in 0..Builds
         /\ now' \in Nat /\ now <= now'
LEMMA KindsOfSteps ==
  ASSUME GenInv, [Next]_vars
  PROVE  /\ running' \in 0..Builds \/ \E r \in Requests : Request(r) \/ RequestStep(r)
         /\ \/ Idles
            \/ \E r \in Requests : Request(r)
            \/ \E r \in Requests : RequestStep(r)
            \/ \E dead : Kill(dead)
<1>1. /\ Builds \in Nat /\ now \in Nat
      /\ latest \in 0..Builds /\ running \in 0..Builds /\ 0 \in 0..Builds /\ Types
  BY Constants DEF GenInv, Types
<1>2. CASE UNCHANGED vars
  <2>1. UNCHANGED <<latest, now, dir, file, running, pc, job>>
    BY <1>2 DEF vars, upgradeVars, requestVars
  <2>2. QED BY <1>1, <2>1 DEF Idles
<1>3. CASE Upgrading(Publish) \/ Upgrading(Tick)
  BY <1>1, <1>3 DEF Upgrading, Publish, Tick, requestVars, Idles
<1>4. CASE \E r \in Requests : Request(r) \/ Upgrading(RequestStep(r))
  BY <1>4 DEF Upgrading
<1>5. CASE SystemdStart
  <2>1. running' \in 0..Builds
    BY <1>1, <1>5 DEF SystemdStart, ExecBinary, ExecUsable, Exists, Content, Types, Contents
  <2>2. QED BY <1>1, <1>5, <2>1 DEF SystemdStart, ExecBinary, requestVars, Idles
<1>6. CASE Migrate
  <2>1. running' = running \/ running' = 0
    BY <1>6 DEF Migrate
  <2>2. QED BY <1>1, <1>6, <2>1 DEF Migrate, requestVars, Idles
<1>7. CASE SystemRestart \/ Crash
  <2>1. CASE KillServer
    BY <1>1, <2>1 DEF KillServer
  <2>2. CASE \E r \in Requests : KillCommand(r)
    BY <1>1, <2>2 DEF KillCommand
  <2>3. QED BY <1>7, <2>1, <2>2 DEF SystemRestart, Crash
<1>8. QED BY <1>2, <1>3, <1>4, <1>5, <1>6, <1>7 DEF Next

LEMMA GenKept ==
  ASSUME GenInv, [Next]_vars
  PROVE  GenInv'
<1>1. CASE \E r \in Requests : Request(r)
  BY <1>1, Begins
<1>2. CASE \E r \in Requests : RequestStep(r)
  BY <1>2, RequestActs, GenAfter
<1>3. CASE running' \in 0..Builds /\ (Idles \/ \E dead : Kill(dead))
  BY <1>3, GenFrame, GenKill DEF Idles
<1>4. QED BY <1>1, <1>2, <1>3, KindsOfSteps

LEMMA GenInit ==
  ASSUME Init
  PROVE  GenInv
<1>1. Types /\ \A r \in Requests : Local(r)
  <2>1. NoOverlap
    BY DEF Init, UpgradeInit, NoOverlap
  <2>2. QED BY <2>1, InvInit DEF SeqInv, Sequential
<1>2. \A r \in Requests : Holds(r)
  BY PcSteps DEF Init, UpgradeInit, Holds, AtWork
<1>3. Downloads
  <2>1. DOMAIN dir = {Exec} /\ dir[Exec] = <<"first">> /\ \A q \in Requests : job[q] = NoJob
    BY DEF Init, UpgradeInit
  <2>2. ASSUME NEW q \in Requests PROVE Tmp(q) \notin DOMAIN dir /\ Private(q)
    <3>1. Tmp(q) # Exec /\ <<"first">> # <<q, "tmp">> /\ NoFile # <<q, "tmp">>
      BY NamesDiffer, FilesDiffer
    <3>2. \A p \in Requests : job[p].sink = NoFile
      BY <2>1, Constants
    <3>3. QED BY <2>1, <3>1, <3>2 DEF Private
  <2>3. QED BY <2>2 DEF Downloads
<1>4. QED BY <1>1, <1>2, <1>3 DEF GenInv

-------------------------------------------------------------------------------
(* Two requests that overlap, when nothing else goes wrong.                 *)
Pair ==
  /\ mishaps \subseteq {"overlap"}
  /\ \A p, q, r \in Requests :
       pc[p] # "idle" /\ pc[q] # "idle" /\ pc[r] # "idle" => p = q \/ q = r \/ p = r
IsOwn(f) == \E q \in Requests : f = <<q, "backup">>
AnotherMade(r) == \E q \in Requests : q # r /\ Made(q)

\* A backup is the file of the request that made it, and a request only
\* loses its own to the rotation that keeps another.
Owner(q) ==
  /\ Opened(q) => IF pc[q] = "backup" THEN job[q].sink = <<q, "backup">>
                  ELSE ~IsOwn(job[q].sink)
  /\ job[q].own # Exec => IF job[q].own \in DOMAIN dir THEN dir[job[q].own] = <<q, "backup">>
                         ELSE AnotherMade(q)
  /\ ~Upg(q) => AnotherMade(q)
Backups ==
  /\ \A n \in ListBackups : \E q \in Requests : dir[n] = <<q, "backup">> /\ Made(q)
  /\ \A n, m \in ListBackups : dir[n] = dir[m] => n = m
  /\ Exists(Exec) => ~IsOwn(dir[Exec])
  /\ \A q \in Requests : AtWork(q) => Owner(q)

\* A whole backup that no request will remove any more.
NewestBackup(n) == \A m \in ListBackups : m # n => m[3] < n[3]
Rotated == \A q \in Requests : AtWork(q) => Upg(q) /\ pc[q] \in Late
Firm(r, n) ==
  /\ n \in ListBackups /\ dir[n] = <<r, "backup">> /\ Content(n).whole /\ pc[r] # "backup"
  /\ \E p, q \in Requests : p # q /\ Made(p) /\ Made(q)
  /\ NewestBackup(n) \/ Rotated
Saved == \E r \in Requests, n \in DOMAIN dir : Firm(r, n)

LEMMA MadeStays ==
  ASSUME NEW r \in Requests, Goes(r)
  PROVE  /\ \A q \in Requests : Made(q) => Made(q)'
         /\ \A q \in Requests : AnotherMade(q) => AnotherMade(q)'
<1>1. \A q \in Requests : Made(q) => Made(q)'
  <2>1. ASSUME NEW q \in Requests, q # r, Made(q) PROVE Made(q)'
    BY <2>1 DEF Goes, Made, Unmade, Opened
  <2>2. Made(r) => Made(r)'
    BY DEF Goes, Made, Unmade
  <2>3. QED BY <2>1, <2>2
<1>2. QED BY <1>1 DEF AnotherMade

\* Without a clash, a backup is made under a new name, of the latest second.
LEMMA OpensNewBackup ==
  ASSUME GenInv, NEW r \in Requests, RequestStep(r), Opens(r), pc[r] = "backup",
         "clash" \notin mishaps'
  PROVE  /\ CopyTo(r) \notin DOMAIN dir /\ CopyTo(r)[3] = now
         /\ \A n \in ListBackups : n[3] < now
<1>1. Holds(r) /\ AtWork(r) /\ ~Opened(r) /\ Types
  BY PcSteps DEF GenInv, Opens, AtWork
<1>2. CopyOpen(r)
  <2>1. ~job[r].written
    BY <1>1 DEF Holds, Kinds
  <2>2. ~CopyWrite(r) /\ ~CopyMode(r)
    BY <1>1, <2>1 DEF CopyWrite, CopyMode
  <2>3. QED BY <2>2 DEF RequestStep, Download, StatTarget, RotateBackups, RemoveExec, RenameTmp, ChmodExec
<1>3. CopyTo(r)[3] = now /\ CopyTo(r)[1] = "backup"
  BY <1>1, CopiesTo, NamesDiffer, PcSteps
<1>4. \A n \in ListBackups : n[3] # now
  <2>1. ~Fails(r, Exists(CopyFrom(r)))
    <3>1. SUFFICES ASSUME Fails(r, Exists(CopyFrom(r))) PROVE FALSE
      OBVIOUS
    <3>2. job'[r] \in {NoJob, job[r]}
      BY <1>1, <3>1 DEF Fails, Step, Goto, Types
    <3>3. job'[r].sink = NoFile
      BY <1>1, <3>2, Constants DEF Opened
    <3>4. QED BY <3>3 DEF Opens, Opened
  <2>2. QED BY <1>2, <1>3, <2>1 DEF CopyOpen, Mishap
<1>5. \A n \in ListBackups : n[3] < now
  BY <1>1, <1>4, BackupsAreFinite DEF Types
<1>6. QED BY <1>3, <1>4, <1>5 DEF ListBackups

LEMMA BackupsAfter ==
  ASSUME GenInv, GenInv', Backups, Pair, Pair', NEW r \in Requests, RequestStep(r), Acts(r)
  PROVE  Backups'
<1>1. AtWork(r) /\ Goes(r) /\ Does(r) /\ Types /\ Holds(r) /\ Owner(r) /\ pc[r] # "idle"
  BY PcSteps DEF Acts, Goes, GenInv, Backups, AtWork
<1>2. /\ \A q \in Requests : Made(q) => Made(q)'
      /\ \A q \in Requests : AnotherMade(q) => AnotherMade(q)'
  BY <1>1, MadeStays
<1>3. ASSUME Opens(r), pc[r] = "backup"
      PROVE  /\ CopyTo(r) \notin DOMAIN dir /\ ~Made(r) /\ Made(r)'
             /\ \A q \in Requests : AtWork(q) /\ q # r => ~AnotherMade(q)
  <2>1. "clash" \notin mishaps'
    BY DEF Pair
  <2>2. CopyTo(r) \notin DOMAIN dir
    BY <1>3, <2>1, OpensNewBackup
  <2>3. ~Made(r) /\ Made(r)'
    BY <1>1, <1>3 DEF Made, Unmade, Opens, Goes
  <2>4. \A q \in Requests : AtWork(q) => pc[q] # "idle"
    BY PcSteps DEF AtWork
  <2>5. \A p, q \in Requests : AtWork(q) /\ q # r /\ p # q /\ Made(p) => FALSE
    BY <1>1, <2>3, <2>4 DEF Pair, Made
  <2>6. QED BY <2>2, <2>3, <2>5 DEF AnotherMade
<1>4. \A k : IsOwn(<<r, k>>) => k = "backup"
  BY FilesDiffer DEF IsOwn
\* A backup was there before, or is the one that r makes.
<1>5. ASSUME NEW n \in ListBackups'
      PROVE  \/ n \in ListBackups /\ dir'[n] = dir[n]
             \/ n = CopyTo(r) /\ dir'[n] = <<r, "backup">> /\ Opens(r) /\ pc[r] = "backup"
  <2>1. n \in DOMAIN dir' /\ n[1] = "backup" /\ n # Exec /\ n # Tmp(r)
    BY NamesDiffer DEF ListBackups
  <2>2. n = CopyTo(r) /\ Opens(r) => pc[r] = "backup"
    BY <1>1, <2>1, CopiesTo DEF Opens
  <2>3. QED BY <1>1, <2>1, <2>2 DEF Does, ListBackups
<1>6. \A n \in ListBackups' : \E q \in Requests : dir'[n] = <<q, "backup">> /\ Made(q)'
  BY <1>2, <1>3, <1>5 DEF Backups
<1>7. \A n, m \in ListBackups' : dir'[n] = dir'[m] => n = m
  <2>1. ASSUME NEW n \in ListBackups, Opens(r), pc[r] = "backup" PROVE dir[n] # <<r, "backup">>
    <3>1. PICK q \in Requests : dir[n] = <<q, "backup">> /\ Made(q)
      BY DEF Backups
    <3>2. QED BY <1>3, <2>1, <3>1, FilesDiffer
  <2>2. QED BY <1>5, <2>1 DEF Backups
<1>8. Exists(Exec)' => ~IsOwn(dir'[Exec])
  <2>1. SUFFICES ASSUME Exec \in DOMAIN dir' PROVE ~IsOwn(dir'[Exec])
    BY DEF Exists
  <2>2. \/ Exec \in DOMAIN dir /\ dir'[Exec] = dir[Exec]
        \/ dir'[Exec] = <<r, "tmp">>
        \/ Exec = CopyTo(r) /\ dir'[Exec] = <<r, pc[r]>> /\ Opens(r)
    BY <1>1, <2>1, NamesDiffer DEF Does
  <2>3. Exec = CopyTo(r) /\ Opens(r) => pc[r] # "backup"
    BY <1>1, CopiesTo DEF Opens
  <2>4. QED BY <1>4, <2>2, <2>3 DEF Backups, Exists
<1>9. \A f : IsOwn(f)' <=> IsOwn(f)
  BY DEF IsOwn
<1>10. ASSUME NEW q \in Requests, AtWork(q)' PROVE Owner(q)'
  <2>1. AtWork(q) /\ Owner(q) /\ job'[q].kind = job[q].kind
    BY <1>1, <1>10 DEF Goes, AtWork, Backups
  <2>2. Opened(q)' => IF pc'[q] = "backup" THEN job'[q].sink = <<q, "backup">>
                      ELSE ~IsOwn(job'[q].sink)
    <3>1. CASE q # r
      BY <1>1, <2>1, <3>1 DEF Goes, Owner, Opened
    <3>2. CASE q = r /\ Opened(r)' /\ ~Opens(r)
      BY <1>1, <3>2 DEF Goes, Owner
    <3>3. CASE q = r /\ Opened(r)' /\ Opens(r)
      <4>1. /\ pc'[r] = pc[r]
            /\ job'[r].sink = IF Exists(CopyTo(r)) THEN dir[CopyTo(r)] ELSE <<r, pc[r]>>
        BY <1>1, <3>3 DEF Goes
      <4>2. CASE pc[r] = "backup"
        BY <1>3, <3>3, <4>1, <4>2 DEF Exists
      <4>3. CASE pc[r] # "backup"
        <5>1. CopyTo(r) = Exec
          BY <1>1, <3>3, <4>3, CopiesTo DEF Opens
        <5>2. ~IsOwn(job'[r].sink)
          BY <1>4, <4>1, <4>3, <5>1 DEF Backups
        <5>3. QED BY <3>3, <4>1, <4>3, <5>2
      <4>4. QED BY <4>2, <4>3
    <3>4. QED BY <3>1, <3>2, <3>3
  <2>3. job'[q].own # Exec => IF job'[q].own \in DOMAIN dir' THEN dir'[job'[q].own] = <<q, "backup">>
                              ELSE AnotherMade(q)'
    <3>1. SUFFICES ASSUME job'[q].own # Exec
                   PROVE  IF job'[q].own \in DOMAIN dir' THEN dir'[job'[q].own] = <<q, "backup">>
                          ELSE AnotherMade(q)'
      OBVIOUS
    <3>2. CASE q = r /\ Opens(r) /\ pc[r] = "backup"
      <4>1. job'[r].own = CopyTo(r) /\ CopyTo(r) \notin DOMAIN dir
        BY <1>1, <1>3, <1>10, <3>2 DEF Goes
      <4>2. CopyTo(r) \in DOMAIN dir'
        BY <1>1, <3>2 DEF Does
      <4>3. CopyTo(r) # Exec /\ CopyTo(r) # Tmp(r)
        BY <1>1, <3>2, CopiesTo DEF Opens
      <4>4. QED BY <1>1, <3>2, <4>1, <4>2, <4>3 DEF Does
    <3>3. CASE ~(q = r /\ Opens(r) /\ pc[r] = "backup")
      <4>1. job'[q].own = job[q].own
        BY <1>1, <1>10, <3>3 DEF Goes
      <4>2. PICK o : o = job[q].own
        OBVIOUS
      <4>3. o[1] = "backup" /\ o # Exec /\ \A p : o # Tmp(p)
        <5>1. o \in Names /\ o # Exec
          BY <3>1, <4>1, <4>2 DEF GenInv, Types, Jobs
        <5>2. QED BY <5>1, NamesDiffer DEF Names
      <4>4. CASE o \in DOMAIN dir /\ o \in DOMAIN dir'
        BY <1>1, <2>1, <3>1, <4>1, <4>2, <4>3, <4>4 DEF Does, Owner
      <4>5. CASE o \in DOMAIN dir /\ o \notin DOMAIN dir'
        <5>1. PICK k \in ListBackups : k \in DOMAIN dir'
          BY <1>1, <4>3, <4>5 DEF Does
        <5>2. PICK p \in Requests : dir[k] = <<p, "backup">> /\ Made(p)
          BY DEF Backups
        <5>3. dir[o] = <<q, "backup">> /\ o \in ListBackups
          BY <2>1, <3>1, <4>1, <4>2, <4>3, <4>5 DEF Owner, ListBackups
        <5>4. p # q
          BY <4>5, <5>1, <5>2, <5>3 DEF Backups
        <5>5. AnotherMade(q)
          BY <5>2, <5>4 DEF AnotherMade
        <5>6. QED BY <1>2, <4>1, <4>2, <4>5, <5>5
      <4>6. CASE o \notin DOMAIN dir
        <5>1. AnotherMade(q)
          BY <2>1, <3>1, <4>1, <4>2, <4>6 DEF Owner
        <5>2. o \in DOMAIN dir' => q # r /\ Opens(r) /\ pc[r] = "backup"
          <6>1. SUFFICES ASSUME o \in DOMAIN dir' PROVE q # r /\ Opens(r) /\ pc[r] = "backup"
            OBVIOUS
          <6>2. o \in ListBackups'
            BY <4>3, <6>1 DEF ListBackups
          <6>3. QED BY <1>5, <3>3, <4>6, <6>2 DEF ListBackups
        <5>3. o \notin DOMAIN dir'
          BY <1>3, <2>1, <5>1, <5>2
        <5>4. QED BY <1>2, <4>1, <4>2, <5>1, <5>3
      <4>7. QED BY <4>4, <4>5, <4>6
    <3>4. QED BY <3>2, <3>3
  <2>4. ~Upg(q)' => AnotherMade(q)'
    BY <1>2, <2>1 DEF Owner, Upg
  <2>5. QED BY <1>9, <2>2, <2>3, <2>4 DEF Owner
<1>11. QED BY <1>6, <1>7, <1>8, <1>9, <1>10 DEF Backups

\* With two requests, no other backup is made when both have made theirs.
LEMMA NoOtherBackup ==
  ASSUME Pair, NEW r \in Requests, AtWork(r), ~Made(r),
         NEW p \in Requests, NEW q \in Requests, p # q, Made(p), Made(q)
  PROVE  FALSE
BY PcSteps DEF Pair, Made, AtWork

\* A step of r writes to no backup but its own, while it makes it.
LEMMA OthersBackups ==
  ASSUME GenInv, Backups, Backups', NEW r \in Requests, Acts(r), NEW q \in Requests,
         ~(q = r /\ pc[r] = "backup")
  PROVE  /\ file[<<q, "backup">>].whole => file'[<<q, "backup">>].whole
         /\ file'[<<q, "backup">>].whole => file[<<q, "backup">>].whole
<1>1. AtWork(r) /\ Goes(r) /\ Does(r) /\ Owner(r)
  BY DEF Acts, Goes, Backups
<1>2. <<q, "backup">> \in Files /\ <<q, "backup">> # <<r, "tmp">> /\ IsOwn(<<q, "backup">>)
  BY FilesDiffer DEF MadeFiles, IsOwn
<1>3. <<q, "backup">> = <<r, "backup">> => q = r
  BY FilesDiffer
<1>4. Opened(r) => <<q, "backup">> # job[r].sink
  BY <1>1, <1>2, <1>3 DEF Owner
<1>5. Opens(r) => <<q, "backup">> # job'[r].sink
  <2>1. SUFFICES ASSUME Opens(r) PROVE <<q, "backup">> # job'[r].sink
    OBVIOUS
  <2>2. AtWork(r)' /\ pc'[r] = pc[r] /\ Opened(r)'
    BY <1>1, <2>1, PcSteps DEF Opens, Goes, AtWork
  <2>3. Owner(r)'
    BY <2>2 DEF Backups
  <2>4. IsOwn(<<q, "backup">>)'
    BY <1>2 DEF IsOwn
  <2>5. QED BY <1>3, <2>2, <2>3, <2>4 DEF Owner
<1>6. QED BY <1>1, <1>2, <1>4, <1>5 DEF Does

LEMMA NoNewBackup ==
  ASSUME GenInv, NEW r \in Requests, Acts(r), ~(Opens(r) /\ pc[r] = "backup")
  PROVE  ListBackups' \subseteq ListBackups
<1>1. AtWork(r) /\ Does(r)
  BY DEF Acts, Goes
<1>2. SUFFICES ASSUME NEW m \in DOMAIN dir', m[1] = "backup" PROVE m \in DOMAIN dir
  BY DEF ListBackups
<1>3. m # Exec /\ m # Tmp(r)
  BY <1>2, NamesDiffer
<1>4. Opens(r) => m # CopyTo(r)
  BY <1>1, <1>3, CopiesTo DEF Opens
<1>5. QED BY <1>1, <1>3, <1>4 DEF Does

LEMMA FirmAfter ==
  ASSUME GenInv, Backups, Backups', Pair, NEW r \in Requests, Acts(r),
         NEW q \in Requests, NEW n \in DOMAIN dir, Firm(q, n)
  PROVE  n \in DOMAIN dir' /\ Firm(q, n)'
<1>1. AtWork(r) /\ Goes(r) /\ Does(r) /\ Types /\ Holds(r)
  BY DEF Acts, Goes, GenInv
<1>2. /\ n \in ListBackups /\ dir[n] = <<q, "backup">> /\ file[<<q, "backup">>].whole
      /\ pc[q] # "backup" /\ (NewestBackup(n) \/ Rotated)
  BY DEF Firm, Content
<1>3. \A p \in Requests : Made(p) => Made(p)'
  BY <1>1, MadeStays
<1>4. Made(r) /\ ~(Opens(r) /\ pc[r] = "backup")
  <2>1. Made(r)
    BY <1>1, NoOtherBackup DEF Firm
  <2>2. QED BY <2>1 DEF Made, Unmade, Opens
<1>5. n # Exec /\ n # Tmp(r) /\ n[1] = "backup" /\ (Opens(r) => n # CopyTo(r))
  <2>1. n # Exec /\ n # Tmp(r) /\ n[1] = "backup"
    BY <1>2, NamesDiffer DEF ListBackups
  <2>2. QED BY <1>1, <1>4, <2>1, CopiesTo DEF Opens
<1>6. n \in DOMAIN dir' /\ dir'[n] = dir[n]
  <2>1. ASSUME n \notin DOMAIN dir' PROVE FALSE
    <3>1. PICK k \in ListBackups : k \in DOMAIN dir' /\ n[3] <= k[3] /\ pc[r] = "rotate"
      BY <1>1, <1>5, <2>1 DEF Does
    <3>2. ~Rotated
      BY <1>1, <3>1 DEF Rotated, Late
    <3>3. k[3] < n[3]
      BY <1>2, <2>1, <3>1, <3>2 DEF NewestBackup
    <3>4. n[3] \in Nat /\ k[3] \in Nat
      BY <1>1, <1>2, BackupsAreFinite DEF Types
    <3>5. QED BY <3>1, <3>3, <3>4
  <2>2. QED BY <1>1, <1>5, <2>1 DEF Does
<1>7. file'[<<q, "backup">>].whole
  BY <1>2, OthersBackups
<1>8. pc'[q] # "backup"
  BY <1>1, <1>2, <1>4 DEF Goes, Made, Unmade
<1>9. ListBackups' \subseteq ListBackups
  BY <1>4, NoNewBackup
<1>10. NewestBackup(n) => NewestBackup(n)'
  BY <1>9 DEF NewestBackup
<1>11. Rotated => Rotated'
  <2>1. ASSUME Rotated, NEW p \in Requests, AtWork(p)' PROVE Upg(p)' /\ pc'[p] \in Late
    <3>1. CASE p = r
      BY <1>1, <2>1, <3>1 DEF Rotated, Goes, Upg
    <3>2. CASE p # r
      BY <1>1, <2>1, <3>2 DEF Rotated, Goes, Upg, AtWork
    <3>3. QED BY <3>1, <3>2
  <2>2. QED BY <2>1 DEF Rotated
<1>12. (\E p, s \in Requests : p # s /\ Made(p) /\ Made(s))'
  BY <1>3 DEF Firm
<1>13. QED BY <1>2, <1>5, <1>6, <1>7, <1>8, <1>10, <1>11, <1>12 DEF Firm, ListBackups, Content

-------------------------------------------------------------------------------
\* Until there is such a backup, nothing but backups has been written to and
\* no rollback is past its own: the binary is whole, or an upgrade that
\* removed it still has its download.
Past == {"rename", "chmod", "restore", "ok", "failed", "unrestored", "killed", "cut"}
Safe(p) ==
  /\ ~Upg(p) => pc[p] \in {"stat", "backup"}
  /\ pc[p] = "backup" /\ Opened(p) =>
       /\ ~IsOwn(job[p].source) /\ file[job[p].source].whole
       /\ job[p].written => file[<<p, "backup">>].whole
       /\ ~job[p].written => ~file[<<p, "backup">>].whole
       /\ ~Upg(p) => NewestBackup(job[p].own)
  /\ pc[p] \notin {"stat", "download", "backup"} => file[<<p, "backup">>].whole
  /\ pc[p] = "restore" => ~Opened(p) /\ \E q \in Requests : q # p /\ pc[q] \in Past
Unsaved ==
  /\ Exists(Exec) => Good
  /\ ~Exists(Exec) => \E q \in Requests : Tmp(q) \in DOMAIN dir /\ pc[q] \in {"rename", "cut"}
  /\ \A p \in Requests : AtWork(p) => Safe(p)
PairInv == Pair => Backups /\ (Saved \/ Unsaved)

\* Which step of r is taken, by its pc.
LEMMA StepOf ==
  ASSUME GenInv, NEW r \in Requests, RequestStep(r)
  PROVE  /\ pc[r] \in CopySteps => /\ ~Opened(r) => CopyOpen(r)
                                   /\ Opened(r) /\ ~job[r].written => CopyWrite(r)
                                   /\ job[r].written => CopyMode(r)
         /\ pc[r] = "remove" => RemoveExec(r)
         /\ pc[r] = "rename" => RenameTmp(r)
         /\ pc[r] = "chmod" => ChmodExec(r)
         /\ pc[r] = "stat" => StatTarget(r)
         /\ pc[r] = "download" => Download(r)
         /\ pc[r] = "rotate" => RotateBackups(r)
         /\ job[r].written => Opened(r)
<1>1. job[r].written => Opened(r)
  BY Constants DEF GenInv, Holds, Kinds
<1>2. QED
  BY <1>1, PcSteps DEF RequestStep, Download, StatTarget, CopyOpen, CopyWrite, CopyMode,
     RotateBackups, RemoveExec, RenameTmp, ChmodExec

\* The files that are no backup stay whole, until a binary is restored.
LEMMA NoOtherWrites ==
  ASSUME GenInv, Backups, Backups', Unsaved, NEW r \in Requests, Acts(r),
         ~(pc[r] = "restore" /\ Opens(r)), NEW f \in Files, ~IsOwn(f), file[f].whole
  PROVE  file'[f].whole
<1>1. AtWork(r) /\ Goes(r) /\ Does(r) /\ Holds(r) /\ Owner(r) /\ Safe(r)
  BY DEF Acts, Goes, Backups, GenInv, Unsaved
<1>2. pc[r] # "place"
  BY <1>1 DEF Holds, Kinds, Safe
<1>3. Opened(r) => f # job[r].sink
  <2>1. Opened(r) => pc[r] = "backup"
    BY <1>1, <1>2, PcSteps DEF Holds, Kinds, Safe
  <2>2. QED BY <1>1, <2>1 DEF Owner, IsOwn
<1>4. Opens(r) => f # job'[r].sink
  <2>1. SUFFICES ASSUME Opens(r) PROVE f # job'[r].sink
    OBVIOUS
  <2>2. pc[r] = "backup" /\ pc'[r] = "backup" /\ AtWork(r)' /\ Opened(r)'
    BY <1>1, <1>2, <2>1, PcSteps DEF Opens, Goes, AtWork
  <2>3. Owner(r)'
    BY <2>2 DEF Backups
  <2>4. QED BY <2>2, <2>3 DEF Owner, IsOwn
<1>5. QED BY <1>1, <1>3, <1>4 DEF Does

LEMMA ExecAfter ==
  ASSUME GenInv, GenInv', Backups, Backups', Unsaved, Pair', NEW r \in Requests, RequestStep(r), Acts(r),
         ~(pc[r] = "restore" /\ Opens(r))
  PROVE  /\ Exists(Exec)' => Good'
         /\ ~Exists(Exec)' =>
              \E q \in Requests : Tmp(q) \in DOMAIN dir' /\ pc'[q] \in {"rename", "cut"}
<1>1. AtWork(r) /\ Goes(r) /\ Does(r) /\ Holds(r) /\ Safe(r) /\ Types /\ Downloads
  BY DEF Acts, Goes, GenInv, Unsaved
<1>2. Exec \in DOMAIN dir' => file'[dir'[Exec]].whole
  <2>1. SUFFICES ASSUME Exec \in DOMAIN dir' PROVE file'[dir'[Exec]].whole
    OBVIOUS
  <2>2. CASE Exec \in DOMAIN dir /\ dir'[Exec] = dir[Exec]
    <3>1. dir[Exec] \in Files /\ ~IsOwn(dir[Exec]) /\ file[dir[Exec]].whole
      BY <1>1, <2>2 DEF Types, Backups, Unsaved, Good, Exists, Content
    <3>2. QED BY <2>2, <3>1, NoOtherWrites
  <2>3. CASE dir'[Exec] = <<r, "tmp">> /\ pc[r] = "rename"
    <3>1. Tmp(r) \in DOMAIN dir /\ dir[Tmp(r)] = <<r, "tmp">>
      BY <1>1, <2>3, NamesDiffer DEF Holds, Kinds, Types, IsBackup
    <3>2. file[<<r, "tmp">>].whole
      BY <1>1, <3>1 DEF Downloads, Content
    <3>3. <<r, "tmp">> \in Files /\ ~IsOwn(<<r, "tmp">>)
      BY FilesDiffer DEF MadeFiles, IsOwn
    <3>4. QED BY <2>3, <3>2, <3>3, NoOtherWrites
  <2>4. CASE Exec = CopyTo(r) /\ Opens(r)
    <3>1. pc[r] \in {"place", "restore"}
      BY <1>1, <2>4, CopiesTo, PcSteps DEF Opens
    <3>2. QED BY <1>1, <2>4, <3>1 DEF Holds, Kinds, Safe
  <2>5. QED BY <1>1, <2>1, <2>2, <2>3, <2>4, NamesDiffer DEF Does
<1>3. ASSUME Exec \notin DOMAIN dir'
      PROVE  \E q \in Requests : Tmp(q) \in DOMAIN dir' /\ pc'[q] \in {"rename", "cut"}
  <2>1. CASE Exec \in DOMAIN dir
    <3>1. pc[r] = "remove"
      BY <1>1, <1>3, <2>1, NamesDiffer DEF Does, ListBackups
    <3>2. Upg(r) /\ RemoveExec(r)
      BY <1>1, <3>1, StepOf DEF Safe
    <3>3. Step(r, "rename", [n \in DOMAIN dir \ {Exec} |-> dir[n]])
      <4>1. "fault" \notin mishaps'
        BY DEF Pair
      <4>2. QED BY <2>1, <3>2, <4>1 DEF RemoveExec, Fails, Fault, Mishap, NextPc, Upg, Exists
    <3>4. pc'[r] = "rename" /\ dir' = [n \in DOMAIN dir \ {Exec} |-> dir[n]]
      BY <1>1, <3>3, GoesOn DEF Step
    <3>5. Tmp(r) \in DOMAIN dir'
      BY <1>1, <3>1, <3>2, <3>4, NamesDiffer DEF Holds
    <3>6. QED BY <3>4, <3>5
  <2>2. CASE Exec \notin DOMAIN dir
    <3>1. PICK q \in Requests : Tmp(q) \in DOMAIN dir /\ pc[q] \in {"rename", "cut"}
      BY <2>2 DEF Unsaved, Exists
    <3>2. CASE q = r
      <4>1. RenameTmp(r)
        BY <1>1, <3>1, <3>2, StepOf, PcSteps DEF AtWork
      <4>2. "fault" \notin mishaps'
        BY DEF Pair
      <4>3. Goto(r, "chmod", With(Exec, dir[Tmp(r)], Without(r, dir)), job[r])
        BY <4>1, <4>2 DEF RenameTmp, Fails, Fault, Mishap, Step
      <4>4. dir' = With(Exec, dir[Tmp(r)], Without(r, dir))
        BY <1>1, <4>3, GoesOn
      <4>5. QED BY <1>3, <4>4 DEF With
    <3>3. CASE q # r
      <4>1. Tmp(q) \in DOMAIN dir' /\ pc'[q] = pc[q]
        BY <1>1, <3>1, <3>3, NamesDiffer DEF Goes, Does, ListBackups
      <4>2. QED BY <3>1, <4>1
    <3>4. QED BY <3>2, <3>3
  <2>3. QED BY <2>1, <2>2
<1>4. QED BY <1>2, <1>3 DEF Good, Exists, Content

LEMMA OthersSafe ==
  ASSUME GenInv, Backups, Backups', Unsaved, Pair, NEW r \in Requests, Acts(r),
         ~(pc[r] = "restore" /\ Opens(r)), NEW p \in Requests, p # r, AtWork(p)'
  PROVE  Safe(p)'
<1>1. AtWork(r) /\ Goes(r) /\ Does(r) /\ Safe(r)
  BY DEF Acts, Goes, Unsaved
<1>2. AtWork(p) /\ Safe(p) /\ Owner(p) /\ Holds(p) /\ pc'[p] = pc[p] /\ job'[p] = job[p]
  BY <1>1 DEF Goes, AtWork, Backups, GenInv, Unsaved
<1>3. /\ file[<<p, "backup">>].whole => file'[<<p, "backup">>].whole
      /\ file'[<<p, "backup">>].whole => file[<<p, "backup">>].whole
  BY OthersBackups
<1>4. (Upg(p)' <=> Upg(p)) /\ (Opened(p)' <=> Opened(p)) /\ \A f : IsOwn(f)' <=> IsOwn(f)
  BY <1>2 DEF Upg, Opened, IsOwn
<1>5. ASSUME pc[p] = "backup", Opened(p)
      PROVE  /\ ~IsOwn(job[p].source) /\ file'[job[p].source].whole
             /\ ~Upg(p) => NewestBackup(job[p].own)'
  <2>1. job[p].source \in Files
    BY <1>2, <1>5 DEF Holds, GenInv, Types, Jobs, Held
  <2>2. ~IsOwn(job[p].source) /\ file'[job[p].source].whole
    BY <1>2, <1>5, <2>1, NoOtherWrites DEF Safe
  <2>3. ASSUME ~Upg(p) PROVE NewestBackup(job[p].own)'
    <3>1. PICK q \in Requests : q # p /\ Made(q)
      BY <1>2, <2>3 DEF Owner, AnotherMade
    <3>2. Made(p)
      BY <1>5 DEF Made, Unmade
    <3>3. Made(r)
      BY <1>1, <3>1, <3>2, NoOtherBackup
    <3>4. ListBackups' \subseteq ListBackups
      BY <3>3, NoNewBackup DEF Made, Unmade, Opens
    <3>5. QED BY <1>2, <1>5, <2>3, <3>4 DEF Safe, NewestBackup
  <2>4. QED BY <2>2, <2>3
<1>6. ASSUME NEW q \in Requests, q # p, pc[q] \in Past PROVE pc'[q] \in Past
  <2>1. CASE q # r
    BY <1>1, <1>6, <2>1 DEF Goes
  <2>2. CASE q = r
    <3>1. Upg(r) /\ pc[r] \in Late
      BY <1>1, <1>6, <2>2, PcSteps DEF Past, Late, AtWork, Safe
    <3>2. CASE AtWork(r)'
      BY <1>1, <2>2, <3>1, <3>2 DEF Goes, Past, Late
    <3>3. CASE ~AtWork(r)'
      BY <1>1, <2>2, <3>3, PcSteps DEF Goes, Past, AtWork
    <3>4. QED BY <3>2, <3>3
  <2>3. QED BY <2>1, <2>2
<1>7. pc[p] = "restore" => ~Opened(p) /\ \E q \in Requests : q # p /\ pc'[q] \in Past
  BY <1>2, <1>6 DEF Safe
<1>8. QED BY <1>2, <1>3, <1>4, <1>5, <1>7 DEF Safe

\* A binary is restored only when the other request is past its backup.
LEMMA RestoreSaves ==
  ASSUME GenInv, GenInv', Backups, Backups', Unsaved, Pair, NEW r \in Requests, RequestStep(r), Acts(r),
         pc[r] = "restore", AtWork(r)'
  PROVE  Saved'
<1>1. AtWork(r) /\ Goes(r) /\ Does(r) /\ Safe(r) /\ Holds(r) /\ Owner(r)
  BY DEF Acts, Goes, Unsaved, Backups, GenInv
<1>2. PICK q \in Requests : q # r /\ pc[q] \in Past
  BY <1>1 DEF Safe
<1>3. ~Opened(r) /\ Upg(r) /\ pc'[r] # "backup" /\ pc'[r] \in Late /\ Upg(r)'
  BY <1>1, PcSteps DEF Safe, Late, Goes, Upg
<1>4. PICK n : n = job[r].own
  OBVIOUS
<1>5. n \in DOMAIN dir
  <2>1. CopyOpen(r) /\ CopyFrom(r) = n
    BY <1>3, <1>4, StepOf, PcSteps, CopyNames
  <2>2. QED BY <2>1, CopyOpenActs DEF Exists
<1>6. n # Exec /\ n \in ListBackups /\ dir[n] = <<r, "backup">>
  <2>1. n # Exec /\ n \in Names
    BY <1>1, <1>4 DEF Holds, Unmade, GenInv, Types, Jobs
  <2>2. n[1] = "backup"
    BY <2>1, NamesDiffer DEF Names
  <2>3. QED BY <1>1, <1>4, <1>5, <2>1, <2>2 DEF Owner, ListBackups
<1>7. n \in ListBackups' /\ dir'[n] = <<r, "backup">>
  <2>1. n # Tmp(r) /\ n[1] = "backup"
    BY <1>6, NamesDiffer DEF ListBackups
  <2>2. Opens(r) => CopyTo(r) # n
    BY <1>1, <1>6, CopiesTo DEF Opens
  <2>3. QED BY <1>1, <1>5, <1>6, <2>1, <2>2 DEF Does, ListBackups
<1>8. file'[<<r, "backup">>].whole
  BY <1>1, OthersBackups DEF Safe
<1>9. Made(r)' /\ Made(q)'
  <2>1. Made(r) /\ Made(q)
    BY <1>2 DEF Made, Unmade, Past
  <2>2. QED BY <1>1, <2>1, MadeStays
<1>10. Rotated'
  <2>1. ASSUME NEW p \in Requests, AtWork(p)', p # r PROVE Upg(p)' /\ pc'[p] \in Late
    <3>1. AtWork(p) /\ pc'[p] = pc[p] /\ job'[p] = job[p] /\ Safe(p)
      BY <1>1, <2>1 DEF Goes, AtWork, Unsaved
    <3>2. pc[p] # "idle" /\ pc[q] # "idle" /\ pc[r] # "idle"
      BY <1>1, <1>2, <3>1, PcSteps DEF AtWork, Past
    <3>3. p = q
      BY <1>2, <2>1, <3>2 DEF Pair
    <3>4. pc[p] \in Late /\ Upg(p)
      BY <1>2, <3>1, <3>3, PcSteps DEF Past, Late, AtWork, Safe
    <3>5. QED BY <3>1, <3>4 DEF Upg
  <2>2. QED BY <1>3, <2>1 DEF Rotated
<1>11. Firm(r, n)'
  BY <1>2, <1>3, <1>7, <1>8, <1>9, <1>10 DEF Firm, Content
<1>12. QED BY <1>7, <1>11 DEF Saved, ListBackups

\* The next step of a backup.
LEMMA BackupStep ==
  ASSUME GenInv, GenInv', Backups, Backups', Unsaved, Pair, Pair', NEW r \in Requests,
         RequestStep(r), Acts(r), pc[r] = "backup", AtWork(r)'
  PROVE  Safe(r)' \/ Saved'
<1>1. /\ AtWork(r) /\ Goes(r) /\ Does(r) /\ Safe(r) /\ Holds(r) /\ Owner(r) /\ Owner(r)' /\ Holds(r)'
      /\ pc[r] \in CopySteps /\ Types
  BY PcSteps DEF Acts, Goes, Unsaved, Backups, GenInv
<1>2. <<r, "backup">> \in Files /\ (Upg(r)' <=> Upg(r)) /\ (\A f : IsOwn(f)' <=> IsOwn(f))
      /\ ~(pc[r] = "restore" /\ Opens(r))
  BY <1>1, FilesDiffer DEF MadeFiles, Goes, Upg, IsOwn
<1>3. CASE ~Opened(r)
  <2>1. CopyOpen(r) /\ CopyFrom(r) = Exec
    BY <1>1, <1>3, StepOf, CopyNames
  <2>2. /\ Exists(Exec) /\ Opens(r) /\ ~job'[r].written /\ job'[r].source = dir[Exec]
        /\ ~file'[job'[r].sink].whole
    <3>1. "fault" \notin mishaps' /\ pc[r] # "place"
      BY DEF Pair
    <3>2. Exists(CopyFrom(r))
      BY <2>1, <3>1, CopyOpenActs
    <3>3. QED BY <2>1, <3>1, <3>2, CopyOpenActs
  <2>3. pc'[r] = "backup" /\ Opened(r)' /\ job'[r].sink = <<r, "backup">> /\ job'[r].own = CopyTo(r)
    BY <1>1, <2>2 DEF Opens, Goes, Owner
  <2>4. ~IsOwn(dir[Exec]) /\ file'[dir[Exec]].whole
    <3>1. dir[Exec] \in Files /\ ~IsOwn(dir[Exec]) /\ file[dir[Exec]].whole
      BY <1>1, <2>2 DEF Types, Backups, Unsaved, Good, Exists, Content
    <3>2. QED BY <1>2, <3>1, NoOtherWrites
  <2>5. \A m \in ListBackups' : m # job'[r].own => m[3] < job'[r].own[3]
    <3>1. CopyTo(r)[3] = now /\ \A n \in ListBackups : n[3] < now
      BY <2>2, OpensNewBackup DEF Pair
    <3>2. ASSUME NEW m \in ListBackups', m # CopyTo(r) PROVE m \in ListBackups
      <4>1. m # Exec /\ m # Tmp(r) /\ m[1] = "backup" /\ m \in DOMAIN dir'
        BY NamesDiffer DEF ListBackups
      <4>2. QED BY <1>1, <3>2, <4>1 DEF Does, ListBackups
    <3>3. QED BY <2>3, <3>1, <3>2
  <2>6. QED BY <1>2, <2>2, <2>3, <2>4, <2>5 DEF Safe, NewestBackup
<1>4. CASE Opened(r) /\ ~job[r].written
  <2>1. CopyWrite(r)
    BY <1>1, <1>4, StepOf
  <2>2. /\ job'[r].written /\ job'[r].source = job[r].source
        /\ file[job[r].source].whole /\ ~file[job[r].sink].whole => file'[job[r].sink].whole
    BY <2>1, CopyWriteActs DEF Pair
  <2>3. Opened(r)' /\ pc'[r] = "backup" /\ ~Opens(r) /\ job'[r].own = job[r].own
    BY <1>1, <1>4, <2>2 DEF Holds, Kinds, Goes, Opens
  <2>4. ~IsOwn(job[r].source) /\ file'[job[r].source].whole
    <3>1. job[r].source \in Files /\ ~IsOwn(job[r].source) /\ file[job[r].source].whole
      BY <1>1, <1>4 DEF Safe, Holds, Types, Jobs, Held
    <3>2. QED BY <1>2, <3>1, NoOtherWrites
  <2>5. file'[<<r, "backup">>].whole
    BY <1>1, <1>4, <2>2 DEF Safe, Owner
  <2>6. ~Upg(r) => \A m \in ListBackups' : m # job'[r].own => m[3] < job'[r].own[3]
    <3>1. ListBackups' \subseteq ListBackups
      BY <2>3, NoNewBackup
    <3>2. QED BY <1>1, <1>4, <2>3, <3>1 DEF Safe, NewestBackup
  <2>7. QED BY <1>2, <2>2, <2>3, <2>4, <2>5, <2>6 DEF Safe, NewestBackup
<1>5. CASE job[r].written
  <2>1. CopyMode(r) /\ Opened(r) /\ ~Opens(r)
    BY <1>1, <1>5, StepOf DEF Opens
  <2>2. Exists(CopyTo(r)) /\ pc'[r] = IF Upg(r) THEN "rotate" ELSE "remove"
    BY <2>1, CopyModeActs
  <2>3. file'[<<r, "backup">>].whole
    BY <1>1, <1>2, <1>5, <2>1, CopyModeActs DEF Safe
  <2>4. CASE Upg(r)
    BY <1>2, <2>2, <2>3, <2>4 DEF Safe
  <2>5. CASE ~Upg(r)
    <3>1. PICK n : n = job[r].own
      OBVIOUS
    <3>2. n # Exec /\ n = CopyTo(r) /\ n \in DOMAIN dir /\ dir[n] = <<r, "backup">>
      BY <1>1, <2>1, <2>2, <3>1 DEF Holds, Unmade, CopyTo, Exists, Owner
    <3>3. n[1] = "backup" /\ n # Tmp(r)
      <4>1. n \in Names /\ \A q : n # Tmp(q)
        BY <1>1, <2>1, <3>1, <3>2, CopiesTo DEF Types, Jobs
      <4>2. QED BY <3>2, <4>1, NamesDiffer DEF Names
    <3>4. n \in DOMAIN dir' /\ dir'[n] = <<r, "backup">>
      BY <1>1, <2>1, <3>2, <3>3 DEF Does
    <3>5. NewestBackup(n)'
      <4>1. ListBackups' \subseteq ListBackups
        BY <2>1, NoNewBackup
      <4>2. QED BY <1>1, <2>1, <2>5, <3>1, <4>1 DEF Safe, NewestBackup
    <3>6. Made(r)' /\ AnotherMade(r)'
      <4>1. Made(r) /\ AnotherMade(r)
        BY <1>1, <2>1, <2>5 DEF Made, Unmade, Owner
      <4>2. QED BY <1>1, <4>1, MadeStays
    <3>7. Firm(r, n)'
      BY <2>2, <2>3, <2>5, <3>3, <3>4, <3>5, <3>6 DEF Firm, ListBackups, Content, AnotherMade
    <3>8. QED BY <3>4, <3>7 DEF Saved
  <2>6. QED BY <2>4, <2>5
<1>6. QED BY <1>3, <1>4, <1>5

\* The other steps.
LEMMA StaysSafe ==
  ASSUME GenInv, GenInv', Backups, Backups', Unsaved, Pair, Pair', NEW r \in Requests,
         RequestStep(r), Acts(r), pc[r] \notin {"backup", "restore"}, AtWork(r)'
  PROVE  Safe(r)'
<1>1. /\ AtWork(r) /\ Goes(r) /\ Does(r) /\ Safe(r) /\ Holds(r) /\ Types
  BY DEF Acts, Goes, Unsaved, GenInv
<1>2. (Upg(r)' <=> Upg(r)) /\ pc[r] \notin CopySteps /\ ~Opened(r)'
  BY <1>1, PcSteps DEF Goes, Upg, Safe, Holds, Kinds, Opens
<1>3. CASE pc[r] \in {"stat", "download"}
  <2>1. pc'[r] = "backup"
    <3>1. \A p, d : Step(r, p, d) => pc'[r] = p
      BY <1>1 DEF Step, Goto, Types
    <3>2. pc'[r] # "failed"
      BY PcSteps DEF AtWork
    <3>3. StatTarget(r) \/ Download(r)
      BY <1>3, StepOf
    <3>4. "fault" \notin mishaps'
      BY DEF Pair
    <3>5. QED BY <3>1, <3>2, <3>3, <3>4 DEF StatTarget, Download, Fails, Fault, Mishap
  <2>2. QED BY <1>2, <2>1 DEF Safe
<1>4. CASE pc[r] \notin {"stat", "download"}
  <2>1. Upg(r) /\ pc'[r] # "backup" /\ pc'[r] \notin {"stat", "download"}
    BY <1>1, <1>3, <1>4 DEF Safe, Goes
  <2>2. file'[<<r, "backup">>].whole
    BY <1>1, <1>4, OthersBackups DEF Safe
  <2>3. pc'[r] = "restore" => \E q \in Requests : q # r /\ pc'[q] \in Past
    <3>1. SUFFICES ASSUME pc'[r] = "restore" PROVE \E q \in Requests : q # r /\ pc'[q] \in Past
      OBVIOUS
    <3>2. \A p, d : Step(r, p, d) => p = "restore"
      BY <1>1, <3>1 DEF Step, Goto, Types
    <3>3. "fault" \notin mishaps'
      BY DEF Pair
    <3>4. pc[r] = "rotate" => FALSE
      BY <2>1, <3>2, StepOf DEF RotateBackups, NextPc, Upg
    <3>5. pc[r] = "remove" => FALSE
      BY <2>1, <3>2, <3>3, StepOf DEF RemoveExec, Fails, Fault, Mishap, NextPc, ErrorPc, Window, Upg
    <3>6. pc[r] = "rename" => FALSE
      BY <3>2, <3>3, StepOf DEF RenameTmp, Fails, Fault, Mishap
    <3>7. pc[r] = "chmod" /\ ~Exists(Exec)
      <4>1. pc[r] = "chmod"
        BY <1>1, <1>2, <1>4, <3>4, <3>5, <3>6, PcSteps DEF Types, AtWork
      <4>2. QED BY <2>1, <3>2, <3>3, <4>1, StepOf DEF ChmodExec, Fails, Fault, Mishap, NextPc, Upg
    <3>8. PICK q \in Requests : pc[q] \in {"rename", "cut"}
      BY <3>7 DEF Unsaved
    <3>9. QED BY <1>1, <3>7, <3>8 DEF Goes, Past
  <2>4. QED BY <1>2, <2>1, <2>2, <2>3 DEF Safe
<1>5. QED BY <1>3, <1>4

-------------------------------------------------------------------------------
LEMMA PairWorks ==
  ASSUME GenInv, GenInv', PairInv, mishaps \subseteq mishaps', NEW r \in Requests,
         RequestStep(r), Acts(r)
  PROVE  PairInv'
<1>1. SUFFICES ASSUME Pair' PROVE Backups' /\ (Saved' \/ Unsaved')
  BY DEF PairInv
<1>2. Goes(r) /\ AtWork(r)
  BY DEF Acts, Goes
<1>3. Pair
  BY <1>1, <1>2 DEF Pair, Goes
<1>4. Backups /\ (Saved \/ Unsaved)
  BY <1>3 DEF PairInv
<1>5. Backups'
  BY <1>1, <1>3, <1>4, BackupsAfter
<1>6. ASSUME Saved PROVE Saved'
  <2>1. PICK q \in Requests, n \in DOMAIN dir : Firm(q, n)
    BY <1>6 DEF Saved
  <2>2. n \in DOMAIN dir' /\ Firm(q, n)'
    BY <1>3, <1>4, <1>5, <2>1, FirmAfter
  <2>3. QED BY <2>2 DEF Saved
<1>7. ASSUME Unsaved PROVE Saved' \/ Unsaved'
  <2>1. CASE pc[r] = "restore" /\ AtWork(r)'
    BY <1>3, <1>4, <1>5, <1>7, <2>1, RestoreSaves
  <2>2. CASE ~(pc[r] = "restore" /\ AtWork(r)')
    <3>1. ~(pc[r] = "restore" /\ Opens(r))
      BY <1>2, <2>2, PcSteps DEF Goes, Opens, AtWork
    <3>2. /\ Exists(Exec)' => Good'
          /\ ~Exists(Exec)' =>
               \E q \in Requests : Tmp(q) \in DOMAIN dir' /\ pc'[q] \in {"rename", "cut"}
      BY <1>1, <1>4, <1>5, <1>7, <3>1, ExecAfter
    <3>3. \A p \in Requests : p # r /\ AtWork(p)' => Safe(p)'
      BY <1>3, <1>4, <1>5, <1>7, <3>1, OthersSafe
    <3>4. AtWork(r)' => Safe(r)' \/ Saved'
      BY <1>1, <1>3, <1>4, <1>5, <1>7, <2>2, BackupStep, StaysSafe
    <3>5. QED BY <3>2, <3>3, <3>4 DEF Unsaved
  <2>3. QED BY <2>1, <2>2
<1>8. QED BY <1>4, <1>5, <1>6, <1>7

\* A third request would not be one of two.
LEMMA PairBegins ==
  ASSUME GenInv, PairInv, mishaps \subseteq mishaps', NEW r \in Requests, Request(r)
  PROVE  PairInv'
<1>1. SUFFICES ASSUME Pair' PROVE Backups' /\ Unsaved'
  BY DEF PairInv
<1>2. /\ GenInv' /\ pc[r] = "idle" /\ pc'[r] \in {"download", "ok", "stat"}
      /\ \A q \in Requests : q # r => pc'[q] = pc[q] /\ job'[q] = job[q]
      /\ UNCHANGED <<dir, file>>
      /\ ~Opened(r)' /\ (pc'[r] = "stat" => ~Upg(r)' /\ ListBackups # {})
      /\ pc'[r] = "download" => Upg(r)'
  BY Begins
<1>3. Pair
  BY <1>1, <1>2 DEF Pair
<1>4. Backups /\ (Saved \/ Unsaved)
  BY <1>3 DEF PairInv
<1>5. /\ \A q \in Requests : Made(q) => q # r /\ Made(q)'
      /\ \A q \in Requests : AnotherMade(q) => AnotherMade(q)'
  <2>1. \A q \in Requests : Made(q) => q # r /\ Made(q)'
    BY <1>2 DEF Made, Unmade, Opened
  <2>2. QED BY <2>1 DEF AnotherMade
<1>6. Unsaved
  <2>1. ASSUME NEW p \in Requests, NEW q \in Requests, p # q, Made(p), Made(q) PROVE FALSE
    BY <1>1, <1>2, <1>5, <2>1 DEF Pair, Made
  <2>2. QED BY <1>4, <2>1 DEF Saved, Firm
<1>7. \A f : IsOwn(f)' <=> IsOwn(f)
  BY DEF IsOwn
<1>8. ASSUME NEW q \in Requests, AtWork(q)' PROVE Owner(q)' /\ Safe(q)'
  <2>1. CASE q # r
    <3>1. pc'[q] = pc[q] /\ job'[q] = job[q] /\ AtWork(q) /\ Owner(q) /\ Safe(q)
      BY <1>2, <1>4, <1>6, <1>8, <2>1 DEF AtWork, Backups, Unsaved
    <3>2. Owner(q)'
      BY <1>2, <1>5, <1>7, <3>1 DEF Owner, Upg, Opened
    <3>3. \A p \in Requests : pc[p] \in Past => pc'[p] \in Past
      BY <1>2 DEF Past
    <3>4. Safe(q)'
      BY <1>2, <1>7, <3>1, <3>3 DEF Safe, Upg, Opened, NewestBackup, ListBackups
    <3>5. QED BY <3>2, <3>4
  <2>2. CASE q = r
    <3>1. pc'[r] \in {"stat", "download"}
      BY <1>2, <1>8, <2>2, PcSteps DEF AtWork
    <3>2. job'[r].own = Exec
      BY <1>2, <1>8, <2>2, <3>1 DEF GenInv, Holds, Unmade
    <3>3. ~Upg(r)' => AnotherMade(r)'
      <4>1. SUFFICES ASSUME ListBackups # {} PROVE AnotherMade(r)'
        BY <1>2, <3>1
      <4>2. PICK p \in Requests : Made(p)
        BY <1>4, <4>1 DEF Backups
      <4>3. QED BY <1>5, <4>2 DEF AnotherMade
    <3>4. Owner(r)'
      BY <1>2, <3>2, <3>3 DEF Owner
    <3>5. Safe(r)'
      BY <1>2, <3>1 DEF Safe
    <3>6. QED BY <2>2, <3>4, <3>5
  <2>3. QED BY <2>1, <2>2
<1>9. Backups'
  BY <1>2, <1>4, <1>5, <1>7, <1>8 DEF Backups, ListBackups, Exists
<1>10. Unsaved'
  BY <1>2, <1>6, <1>8 DEF Unsaved, Exists, Good, Content
<1>11. QED BY <1>9, <1>10

\* Steps of no request: each stays where it is, or its process ends.
LEMMA PairStays ==
  ASSUME PairInv, mishaps \subseteq mishaps', UNCHANGED <<dir, file>>,
         \A r \in Requests :
           \/ pc'[r] = pc[r] /\ job'[r] = job[r]
           \/ /\ AtWork(r) /\ ~AtWork(r)'
              /\ pc'[r] = IF pc[r] \in Window THEN "cut" ELSE "killed"
  PROVE  PairInv'
<1>1. SUFFICES ASSUME Pair' PROVE Backups' /\ (Saved' \/ Unsaved')
  BY DEF PairInv
<1>2. Pair
  BY <1>1, PcSteps DEF Pair, AtWork
<1>3. Backups /\ (Saved \/ Unsaved)
  BY <1>2 DEF PairInv
<1>4. /\ \A q \in Requests : Made(q) => Made(q)'
      /\ \A q \in Requests : AnotherMade(q) => AnotherMade(q)'
      /\ \A q \in Requests : AtWork(q)' => AtWork(q) /\ pc'[q] = pc[q] /\ job'[q] = job[q]
      /\ \A q \in Requests : pc[q] \in Past => pc'[q] \in Past
  <2>1. \A q \in Requests : Made(q) => Made(q)'
    BY DEF Made, Unmade, Opened
  <2>2. QED BY <2>1 DEF AnotherMade, AtWork, Past
<1>5. (\A f : IsOwn(f)' <=> IsOwn(f)) /\ ListBackups' = ListBackups
  BY DEF IsOwn, ListBackups
<1>6. Backups'
  <2>1. \A q \in Requests : AtWork(q)' => Owner(q)'
    BY <1>3, <1>4, <1>5 DEF Backups, Owner, Upg, Opened
  <2>2. QED BY <1>3, <1>4, <1>5, <2>1 DEF Backups, Exists
<1>7. Saved => Saved'
  <2>1. Rotated => Rotated'
    BY <1>4 DEF Rotated, Upg
  <2>2. ASSUME NEW q \in Requests, NEW n \in DOMAIN dir, Firm(q, n) PROVE Firm(q, n)'
    <3>1. pc'[q] # "backup"
      BY <2>2 DEF Firm
    <3>2. (\E p, s \in Requests : p # s /\ Made(p) /\ Made(s))'
      BY <1>4, <2>2 DEF Firm
    <3>3. QED BY <1>5, <2>1, <2>2, <3>1, <3>2 DEF Firm, NewestBackup, Content
  <2>3. QED BY <2>2 DEF Saved
<1>8. Unsaved => Unsaved'
  <2>1. SUFFICES ASSUME Unsaved PROVE Unsaved'
    OBVIOUS
  <2>2. \A q \in Requests : AtWork(q)' => Safe(q)'
    BY <1>4, <1>5, <2>1 DEF Unsaved, Safe, Upg, Opened, NewestBackup
  <2>3. \A q \in Requests : pc[q] \in {"rename", "cut"} => pc'[q] \in {"rename", "cut"}
    BY PcSteps DEF Window, AtWork
  <2>4. QED BY <2>1, <2>2, <2>3 DEF Unsaved, Exists, Good, Content
<1>9. QED BY <1>3, <1>6, <1>7, <1>8

\* Requests are made one by one.
Busy == {r \in Requests : pc[r] # "idle"}
BuildInv == GenInv /\ PairInv /\ IsFiniteSet(Busy)

LEMMA BusyGrows ==
  ASSUME IsFiniteSet(Busy), NEW r, Busy' \subseteq Busy \cup {r}
  PROVE  IsFiniteSet(Busy')
<1>1. IsFiniteSet(Busy \cup {r})
  BY FS_AddElement
<1>2. QED BY <1>1, FS_Subset

LEMMA BuildInvStep ==
  ASSUME BuildInv, [Next]_vars
  PROVE  BuildInv'
<1>1. GenInv /\ GenInv' /\ PairInv /\ mishaps \subseteq mishaps' /\ IsFiniteSet(Busy)
  BY GenKept, MishapsStay DEF BuildInv
<1>2. CASE \E r \in Requests : Request(r)
  <2>1. PICK r \in Requests : Request(r)
    BY <1>2
  <2>2. Busy' \subseteq Busy \cup {r}
    BY <1>1, <2>1, Begins DEF Busy
  <2>3. QED BY <1>1, <2>1, <2>2, PairBegins, BusyGrows DEF BuildInv
<1>3. CASE \E r \in Requests : RequestStep(r)
  <2>1. PICK r \in Requests : RequestStep(r)
    BY <1>3
  <2>2. Acts(r)
    BY <1>1, <2>1, RequestActs
  <2>3. Busy' \subseteq Busy \cup {r}
    BY <2>2 DEF Acts, Goes, Busy
  <2>4. QED BY <1>1, <2>1, <2>2, <2>3, PairWorks, BusyGrows DEF BuildInv
<1>4. CASE Idles
  <2>1. Busy' \subseteq Busy
    BY <1>4 DEF Idles, Busy
  <2>2. PairInv'
    BY <1>1, <1>4, PairStays DEF Idles
  <2>3. QED BY <1>1, <2>1, <2>2, FS_Subset DEF BuildInv
<1>5. CASE (\E dead : Kill(dead)) /\ running' \in 0..Builds
  <2>1. /\ UNCHANGED <<dir, file>>
        /\ \A r \in Requests :
             \/ pc'[r] = pc[r] /\ job'[r] = job[r]
             \/ /\ AtWork(r) /\ ~AtWork(r)'
                /\ pc'[r] = IF pc[r] \in Window THEN "cut" ELSE "killed"
    BY <1>1, <1>5, GenKill
  <2>2. Busy' \subseteq Busy
    BY <2>1, PcSteps DEF Busy, AtWork
  <2>3. PairInv'
    BY <1>1, <2>1, PairStays
  <2>4. QED BY <1>1, <2>2, <2>3, FS_Subset DEF BuildInv
<1>6. QED BY <1>1, <1>2, <1>3, <1>4, <1>5, KindsOfSteps

LEMMA BuildInvInit ==
  ASSUME Init
  PROVE  PairInv /\ IsFiniteSet(Busy)
<1>1. /\ DOMAIN dir = {Exec} /\ dir[Exec] = <<"first">> /\ Content(Exec).whole
      /\ \A r \in Requests : pc[r] = "idle"
  BY DEF Init, UpgradeInit, Content, Files, Whole
<1>2. \A r \in Requests : ~AtWork(r)
  BY <1>1, PcSteps DEF AtWork
<1>3. ListBackups = {} /\ ~IsOwn(<<"first">>)
  BY <1>1, NamesDiffer, FilesDiffer DEF ListBackups, IsOwn
<1>4. Backups /\ Unsaved
  BY <1>1, <1>2, <1>3 DEF Backups, Unsaved, Good, Exists
<1>5. Busy = {}
  BY <1>1 DEF Busy
<1>6. QED BY <1>4, <1>5, FS_EmptySet DEF PairInv

LEMMA AtMostTwo ==
  ASSUME IsFiniteSet(Busy), Cardinality(Busy) <= 2,
         NEW p \in Busy, NEW q \in Busy, NEW r \in Busy
  PROVE  p = q \/ q = r \/ p = r
<1>1. SUFFICES ASSUME p # q, q # r, p # r PROVE FALSE
  OBVIOUS
<1>2. IsFiniteSet({p}) /\ Cardinality({p}) = 1
  BY FS_Singleton
<1>3. \A S, x : IsFiniteSet(S) /\ x \notin S
               => IsFiniteSet(S \cup {x}) /\ Cardinality(S \cup {x}) = Cardinality(S) + 1
  BY FS_AddElement
<1>4. IsFiniteSet({p} \cup {q}) /\ Cardinality({p} \cup {q}) = 1 + 1
  BY <1>1, <1>2, <1>3
<1>5. PICK S : S = {p} \cup {q}
  OBVIOUS
<1>6. Cardinality(S \cup {r}) = 1 + 1 + 1
  BY <1>1, <1>3, <1>4, <1>5
<1>7. S \cup {r} \subseteq Busy
  BY <1>5
<1>8. Cardinality(S \cup {r}) <= Cardinality(Busy)
  BY <1>7, FS_Subset
<1>9. QED BY <1>6, <1>8, FS_CardinalityType

(* For every number of requests, builds and backups kept, and every         *)
(* interleaving: while no more than two requests have ever been made and    *)
(* nothing but their overlap goes wrong, some whole build is left.          *)
THEOREM PairLeavesAWholeBuild == Spec => []PairLeavesBuild
<1>1. Init => BuildInv
  BY GenInit, BuildInvInit DEF BuildInv
<1>2. BuildInv /\ [Next]_vars => BuildInv'
  BY BuildInvStep
<1>3. BuildInv => PairLeavesBuild
  <2>1. SUFFICES ASSUME BuildInv, mishaps \subseteq {"overlap"}, Cardinality(Busy) <= 2
                 PROVE  \E n \in DOMAIN dir : Content(n).whole
    BY DEF PairLeavesBuild, Busy
  <2>2. Pair
    BY <2>1, AtMostTwo DEF BuildInv, Pair, Busy
  <2>3. CASE Saved
    BY <2>3 DEF Saved, Firm
  <2>4. CASE Unsaved
    BY <2>1, <2>4 DEF Unsaved, Good, Exists, BuildInv, GenInv, Downloads
  <2>5. QED BY <2>1, <2>2, <2>3, <2>4 DEF BuildInv, PairInv
<1>4. QED BY <1>1, <1>2, <1>3, PTL DEF Spec
==================================================================================
