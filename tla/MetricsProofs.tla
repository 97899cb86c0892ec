----------------------------- MODULE MetricsProofs -----------------------------
(***************************************************************************)
(* What the history of module Metrics keeps, for any length of the hours    *)
(* and days, any retention, any number of restarts, failures and prunings.  *)
(***************************************************************************)
EXTENDS Metrics, TLAPS

(* Hours and days are quotients; their starts are multiples.               *)

LEMMA DivMod ==
  ASSUME NEW a \in Int, NEW n \in Nat \ {0}
  PROVE  /\ a \div n \in Int /\ a % n \in 0..(n - 1)
         /\ a = n * (a \div n) + (a % n)
OBVIOUS

\* Multiples keep the order.
LEMMA Multiples ==
  ASSUME NEW p \in Int, NEW q \in Int, NEW n \in Nat \ {0}
  PROVE  /\ p * n \in Int /\ p * n = n * p
         /\ (p + 1) * n = p * n + n /\ (p - 1) * n = p * n - n
         /\ p <= q => p * n <= q * n
         /\ p < q => p * n + n <= q * n
<1>1. /\ p * n \in Int /\ p * n = n * p /\ q * n \in Int
      /\ (p + 1) * n = p * n + n /\ (p - 1) * n = p * n - n
  OBVIOUS
<1>2. ASSUME NEW d \in Nat, q = p + d PROVE p * n <= q * n
  <2>1. q * n = p * n + d * n
    BY <1>2
  <2>2. d * n \in Nat
    OBVIOUS
  <2>3. QED BY <1>1, <2>1, <2>2
<1>3. p <= q => p * n <= q * n
  <2>1. p <= q => q - p \in Nat /\ q = p + (q - p)
    OBVIOUS
  <2>2. QED BY <1>2, <2>1
<1>4. ASSUME p < q PROVE p * n + n <= q * n
  <2>1. q - (p + 1) \in Nat
    BY <1>4
  <2> DEFINE d == q - (p + 1)
  <2>2. q * n = (p + 1) * n + d * n
    <3>1. q = (p + 1) + d
      OBVIOUS
    <3>2. d \in Int
      OBVIOUS
    <3> HIDE DEF d
    <3>3. QED BY <3>1, <3>2
  <2>3. d * n \in Nat
    <3>1. d \in Nat
      BY <2>1
    <3> HIDE DEF d
    <3>2. QED BY <3>1
  <2> HIDE DEF d
  <2>4. QED BY <1>1, <2>2, <2>3
<1>5. QED BY <1>1, <1>3, <1>4

\* An hour is where its start and its end put it.
LEMMA DivIs ==
  ASSUME NEW a \in Int, NEW q \in Int, NEW n \in Nat \ {0}, q * n <= a, a < q * n + n
  PROVE  a \div n = q /\ a % n = a - q * n
<1> DEFINE p == a \div n
           m == a % n
<1>1. /\ p \in Int /\ m \in Int /\ 0 <= m /\ m < n /\ a = n * p + m
  BY DivMod
<1> HIDE DEF p, m
<1>2. /\ p * n = n * p /\ p * n \in Int /\ q * n \in Int
      /\ p < q => p * n + n <= q * n
      /\ q < p => q * n + n <= p * n
  BY <1>1, Multiples
<1>3. p = q
  BY <1>1, <1>2
<1>4. m = a - q * n
  BY <1>1, <1>2, <1>3
<1>5. QED BY <1>3, <1>4 DEF p, m

\* The start of the hour of a is not after a, and the hour has its length.
LEMMA DivBounds ==
  ASSUME NEW a \in Int, NEW n \in Nat \ {0}
  PROVE  /\ a \div n \in Int /\ (a \div n) * n \in Int /\ (a \div n) * n <= a
         /\ a < (a \div n) * n + n
         /\ a % n = a - (a \div n) * n /\ a % n \in 0..(n - 1)
<1> DEFINE p == a \div n
           m == a % n
<1>1. /\ p \in Int /\ m \in Int /\ 0 <= m /\ m < n /\ a = n * p + m
  BY DivMod
<1> HIDE DEF p, m
<1>2. p * n = n * p /\ p * n \in Int
  BY <1>1, Multiples
<1>3. p * n <= a /\ a < p * n + n /\ m = a - p * n /\ m \in 0..(n - 1)
  BY <1>1, <1>2
<1>4. QED BY <1>1, <1>2, <1>3 DEF p, m

-----------------------------------------------------------------------------
(* Hours and days of the clock.                                             *)

LEMMA Lengths == /\ Hour \in Nat \ {0} /\ Hour \in Nat /\ 0 < Hour
                 /\ Day \in Nat \ {0} /\ Day % Hour = 0
                 /\ Zone \in Int /\ ClientZones \subseteq Int
                 /\ MaxDelay \in Nat /\ MaxDelay <= Hour
                 /\ RawDays \in Nat /\ HourlyDays \in Nat /\ DailyDays \in Nat
<1>1. Hour \in Nat \ {0} /\ Day \in Nat \ {0}
  BY MetricsAssumption
<1>2. RawDays \in Nat /\ HourlyDays \in Nat /\ DailyDays \in Nat
  BY MetricsAssumption
<1>3. /\ Day % Hour = 0 /\ MaxDelay \in 0..Hour
      /\ Zone \in Int /\ ClientZones \subseteq Int
  BY MetricsAssumption
<1>4. QED BY <1>1, <1>2, <1>3

LEMMA HourFacts ==
  ASSUME NEW a \in Int
  PROVE  /\ Local(a) \in Int /\ Local(a) = a + Zone /\ HourOf(a) \in Int /\ HourOf(a) * Hour \in Int
         /\ HourOf(a) * Hour <= Local(a) /\ Local(a) < HourOf(a) * Hour + Hour
         /\ Local(a) % Hour = Local(a) - HourOf(a) * Hour
<1>1. Hour \in Nat \ {0} /\ Local(a) \in Int /\ Local(a) = a + Zone
  BY Lengths DEF Local
<1>2. QED BY <1>1, DivBounds DEF HourOf

LEMMA DayFacts ==
  ASSUME NEW a \in Int
  PROVE  /\ DayOf(a) \in Int /\ DayOf(a) * Day \in Int
         /\ DayOf(a) * Day <= Local(a) /\ Local(a) < DayOf(a) * Day + Day
         /\ Local(a) % Day = Local(a) - DayOf(a) * Day
<1>1. Day \in Nat \ {0} /\ Local(a) \in Int
  BY Lengths DEF Local
<1>2. QED BY <1>1, DivBounds DEF DayOf

LEMMA IsHour ==
  ASSUME NEW a \in Int, NEW q \in Int, q * Hour <= Local(a), Local(a) < q * Hour + Hour
  PROVE  HourOf(a) = q /\ Local(a) % Hour = Local(a) - q * Hour
<1>1. Hour \in Nat \ {0} /\ Local(a) \in Int
  BY Lengths DEF Local
<1>2. QED BY <1>1, DivIs DEF HourOf

LEMMA IsDay ==
  ASSUME NEW a \in Int, NEW q \in Int, q * Day <= Local(a), Local(a) < q * Day + Day
  PROVE  DayOf(a) = q /\ Local(a) % Day = Local(a) - q * Day
<1>1. Day \in Nat \ {0} /\ Local(a) \in Int
  BY Lengths DEF Local
<1>2. QED BY <1>1, DivIs DEF DayOf

\* The starts of two hours.
LEMMA HourStarts ==
  ASSUME NEW p \in Int, NEW q \in Int
  PROVE  /\ p * Hour \in Int /\ (p + 1) * Hour = p * Hour + Hour /\ (p - 1) * Hour = p * Hour - Hour
         /\ p <= q => p * Hour <= q * Hour
         /\ p < q => p * Hour + Hour <= q * Hour
<1>1. Hour \in Nat \ {0}
  BY Lengths
<1>2. QED BY <1>1, Multiples

LEMMA DayStarts ==
  ASSUME NEW p \in Int, NEW q \in Int
  PROVE  /\ p * Day \in Int /\ (p + 1) * Day = p * Day + Day
         /\ p <= q => p * Day <= q * Day
         /\ p < q => p * Day + Day <= q * Day
<1>1. Day \in Nat \ {0}
  BY Lengths
<1>2. QED BY <1>1, Multiples

\* A day begins with an hour.
LEMMA DayAtHour ==
  ASSUME NEW p \in Int
  PROVE  \E q \in Int : p * Day = q * Hour
<1>1. Hour \in Nat \ {0} /\ Day \in Nat \ {0} /\ Day % Hour = 0
  BY MetricsAssumption
<1> DEFINE k == Day \div Hour
<1>2. k \in Int /\ Day = Hour * k
  BY <1>1, DivMod
<1> HIDE DEF k
<1>3. p * k \in Int
  BY <1>2
<1>4. p * (Hour * k) = (p * k) * Hour
  BY <1>1, <1>2
<1>5. QED BY <1>2, <1>3, <1>4

LEMMA HourFitsDay == Hour \in Nat /\ Day \in Nat /\ 0 < Hour /\ Hour <= Day
<1>1. Hour \in Nat \ {0} /\ Day \in Nat \ {0}
  BY Lengths
<1>2. PICK q \in Int : 1 * Day = q * Hour
  BY DayAtHour
<1>3. 1 <= q => 1 * Hour <= q * Hour
  BY <1>2, HourStarts
<1>4. q <= 0 => q * Hour <= 0 * Hour
  BY <1>2, HourStarts
<1>5. 0 * Hour = 0 /\ 1 * Hour = Hour /\ 1 * Day = Day /\ q * Hour \in Int
  BY <1>1, <1>2
<1>6. QED BY <1>1, <1>2, <1>3, <1>4, <1>5

\* What ends with an hour after p * Day has begun ends with the day's hours.
LEMMA DayInHours ==
  ASSUME NEW p \in Int, NEW q \in Int
  PROVE  /\ p * Day < q * Hour + Hour => p * Day <= q * Hour
         /\ q * Hour < p * Day => q * Hour + Hour <= p * Day
<1>1. PICK r \in Int : p * Day = r * Hour
  BY DayAtHour
<1>2. Hour \in Nat /\ r * Hour \in Int /\ q * Hour \in Int
  BY <1>1, HourStarts, Lengths
<1>3. (r <= q => r * Hour <= q * Hour) /\ (q < r => q * Hour + Hour <= r * Hour)
  BY <1>1, HourStarts
<1>4. (r * Hour < q * Hour + Hour => r * Hour <= q * Hour)
  BY <1>1, <1>2, <1>3
<1>5. (q * Hour < r * Hour => q * Hour + Hour <= r * Hour)
  BY <1>1, <1>2, <1>3
<1>6. QED BY <1>1, <1>4, <1>5

\* An hour later.
LEMMA HourLater ==
  ASSUME NEW a \in Int, NEW b \in Int, b = a + Hour
  PROVE  HourOf(b) = HourOf(a) + 1 /\ Local(b) % Hour = Local(a) % Hour
<1>1. PICK q \in Int : q = HourOf(a)
  BY HourFacts
<1>2. PICK u \in Int : u = q + 1
  OBVIOUS
<1>3. /\ Local(a) \in Int /\ q * Hour \in Int /\ q * Hour <= Local(a) /\ Local(a) < q * Hour + Hour
      /\ Local(a) % Hour = Local(a) - q * Hour
  BY <1>1, HourFacts
<1>4. u * Hour = q * Hour + Hour
  BY <1>2, HourStarts
<1>5. Local(b) = Local(a) + Hour /\ Hour \in Nat
  BY Lengths DEF Local
<1>6. u * Hour <= Local(b) /\ Local(b) < u * Hour + Hour
  BY <1>3, <1>4, <1>5
<1>7. HourOf(b) = u /\ Local(b) % Hour = Local(b) - u * Hour
  BY <1>6, IsHour
<1>8. Local(b) % Hour = Local(a) % Hour
  BY <1>3, <1>4, <1>5, <1>7
<1>9. QED BY <1>1, <1>2, <1>7, <1>8

\* What begins early enough in an hour ends in it.
LEMMA SameHour ==
  ASSUME NEW a \in Int, NEW b \in Int, a <= b, b <= a + MaxDelay,
         (Local(a) % Hour) + MaxDelay < Hour
  PROVE  HourOf(b) = HourOf(a)
<1>1. PICK q \in Int : q = HourOf(a)
  BY HourFacts
<1>2. /\ q * Hour \in Int /\ q * Hour <= Local(a)
      /\ Local(a) % Hour = Local(a) - q * Hour
  BY <1>1, HourFacts
<1>3. /\ Local(a) \in Int /\ Local(b) \in Int
      /\ Local(a) <= Local(b) /\ Local(b) <= Local(a) + MaxDelay
  BY Lengths DEF Local
<1>4. q * Hour <= Local(b) /\ Local(b) < q * Hour + Hour
  BY <1>2, <1>3, Lengths
<1>5. QED BY <1>1, <1>4, IsHour

\* The hours of the clock do not go back.
LEMMA HoursGrow ==
  ASSUME NEW a \in Int, NEW b \in Int, a <= b
  PROVE  HourOf(a) <= HourOf(b)
<1>1. PICK p \in Int, q \in Int : p = HourOf(a) /\ q = HourOf(b)
  BY HourFacts
<1>2. /\ p * Hour \in Int /\ q * Hour \in Int
      /\ p * Hour <= Local(a) /\ Local(b) < q * Hour + Hour
  BY <1>1, HourFacts
<1>3. Local(a) \in Int /\ Local(b) \in Int /\ Local(a) <= Local(b)
  BY Lengths DEF Local
<1>4. q < p => q * Hour + Hour <= p * Hour
  BY HourStarts
<1>5. p <= q
  BY <1>2, <1>3, <1>4, Lengths
<1>6. QED BY <1>1, <1>5

-----------------------------------------------------------------------------
(* The tables of aggregates.                                                *)

LEMMA Added ==
  ASSUME NEW f, NEW k, NEW v
  PROVE  /\ DOMAIN AddRow(f, k, v) = DOMAIN f \cup {k}
         /\ AddRow(f, k, v)[k] = v
         /\ \A x \in DOMAIN f : x # k => AddRow(f, k, v)[x] = f[x]
BY DEF AddRow

LEMMA Swept ==
  ASSUME NEW f, NEW length, NEW before
  PROVE  /\ \A k : k \in DOMAIN KeptAggregates(f, length, before)
                     <=> k \in DOMAIN f /\ k * length >= before
         /\ \A k \in DOMAIN KeptAggregates(f, length, before) :
              KeptAggregates(f, length, before)[k] = f[k]
BY DEF KeptAggregates

LEMMA LaterIs ==
  ASSUME NEW s \in Int, NEW t \in Int
  PROVE  Later(s, t) \in Int /\ s <= Later(s, t) /\ t <= Later(s, t)
BY DEF Later

-----------------------------------------------------------------------------
(* The clock, the loops and the requests.  The hourly tick stays within    *)
(* MaxDelay of its hour; the aggregate in the making is of the hour before; *)
(* a request has put its bound down as erased before it deletes rows.       *)

Types ==
  /\ now \in Nat /\ upSince \in 0..now /\ aggregateDue \in Int
  /\ raw \subseteq 0..now
  /\ job.pc \in {"select", "network", "midnight"} /\ job.hour \in Int
  /\ DOMAIN hourly \subseteq Int /\ DOMAIN daily \subseteq Int
  /\ prune \in [at : {"none", "hourly", "daily"}, before : Int]
  /\ erased.samples \in Int /\ erased.aggregates \in Int

Ticks ==
  /\ prune.at # "none" => prune.before <= Local(erased.aggregates) + 1
  /\ ~up => job.pc = "select" /\ prune.at = "none"
  /\ up => /\ upSince + Hour <= aggregateDue /\ aggregateDue <= now + Hour
           /\ job.pc = "select" => now <= aggregateDue + MaxDelay
           /\ job.pc # "select" => now <= aggregateDue - Hour + MaxDelay
           /\ ~edgy => (Local(aggregateDue) % Hour) + MaxDelay < Hour
           /\ ~edgy /\ job.pc = "network" => job.hour = HourOf(aggregateDue) - 2

TimeInv == Types /\ Ticks

\* While it works, the hourly tick is in the hour it was due; at the tick too.
LEMMA TickHour ==
  ASSUME TimeInv, up, ~edgy
  PROVE  /\ job.pc # "select" => HourOf(now) = HourOf(aggregateDue) - 1
         /\ job.pc = "select" /\ aggregateDue <= now => HourOf(now) = HourOf(aggregateDue)
<1>1. /\ now \in Int /\ aggregateDue \in Int /\ aggregateDue <= now + Hour
      /\ job.pc = "select" => now <= aggregateDue + MaxDelay
      /\ job.pc # "select" => now <= aggregateDue - Hour + MaxDelay
      /\ (Local(aggregateDue) % Hour) + MaxDelay < Hour
  BY DEF TimeInv, Types, Ticks
<1>2. ASSUME job.pc # "select" PROVE HourOf(now) = HourOf(aggregateDue) - 1
  <2>1. PICK a \in Int : a = aggregateDue - Hour
    BY <1>1, Lengths
  <2>2. aggregateDue = a + Hour
    BY <1>1, <2>1, Lengths
  <2>3. /\ HourOf(aggregateDue) = HourOf(a) + 1
        /\ Local(aggregateDue) % Hour = Local(a) % Hour
    BY <1>1, <2>2, HourLater
  <2>4. a <= now /\ now <= a + MaxDelay /\ (Local(a) % Hour) + MaxDelay < Hour
    BY <1>1, <1>2, <2>1, <2>3, Lengths
  <2>5. HourOf(now) = HourOf(a)
    BY <1>1, <2>4, SameHour
  <2>6. HourOf(a) \in Int
    BY HourFacts
  <2>7. QED BY <2>3, <2>5, <2>6
<1>3. ASSUME job.pc = "select", aggregateDue <= now PROVE HourOf(now) = HourOf(aggregateDue)
  BY <1>1, <1>3, SameHour
<1>4. QED BY <1>2, <1>3

LEMMA TypesInitial == Init => TimeInv
<1> SUFFICES ASSUME Init PROVE TimeInv
  OBVIOUS
<1>1. Types
  BY Lengths DEF Init, Types, Idle, NoPrune
<1>2. Ticks
  BY DEF Init, Ticks, Idle, NoPrune
<1>3. QED BY <1>1, <1>2 DEF TimeInv

\* What a request to prune begins with, in the zone of its client.
LEMMA PruneBegins ==
  ASSUME PruneMetrics, now \in Nat
  PROVE  \E b \in Int, s \in Int :
           /\ raw' = Kept(raw, b) /\ Erase(s, b - Zone) /\ b - Zone \in Int
           /\ \/ prune' = [at |-> "hourly", before |-> b]
              \/ prune' = [at |-> "hourly", before |-> b + 1]
<1>1. PICK before \in 0..now, zone \in ClientZones :
        LET b == before + zone IN
        /\ raw' = Kept(raw, b)
        /\ \E edge \in IF zone = Zone THEN {b} ELSE {b, b + 1} :
             prune' = [at |-> "hourly", before |-> edge]
        /\ Erase(IF b < now THEN b ELSE now, b - Zone)
  BY DEF PruneMetrics
<1>2. PICK b \in Int : b = before + zone
  BY <1>1, Lengths
<1>3. PICK s \in Int : s = (IF b < now THEN b ELSE now)
  BY <1>2
<1>4. raw' = Kept(raw, b) /\ Erase(s, b - Zone)
  BY <1>1, <1>2, <1>3
<1>5. \E edge \in {b, b + 1} : prune' = [at |-> "hourly", before |-> edge]
  BY <1>1, <1>2
<1>6. b - Zone \in Int
  BY Lengths
<1>7. \/ prune' = [at |-> "hourly", before |-> b]
      \/ prune' = [at |-> "hourly", before |-> b + 1]
  BY <1>5
<1>8. QED BY <1>4, <1>6, <1>7

LEMMA TypesStep ==
  ASSUME TimeInv, [Next]_vars PROVE Types'
<1>0. /\ now \in Nat /\ raw \subseteq 0..now
      /\ erased.samples \in Int /\ erased.aggregates \in Int
  BY DEF TimeInv, Types
<1>1. CASE Start
  BY <1>1, Lengths DEF Start, TimeInv, Types, tables
<1>2. CASE Stop
  BY <1>2 DEF Stop, Upset, Idle, NoPrune, TimeInv, Types, tables, timers, ghosts
<1>3. CASE Tick
  BY <1>3 DEF Tick, TimeInv, Types, tables, timers, ghosts
<1>4. CASE Collect
  <2>1. raw' \subseteq raw \cup {now}
    BY <1>4 DEF Collect
  <2>2. raw' \subseteq 0..now
    BY <1>0, <2>1
  <2>3. QED BY <1>4, <2>2 DEF Collect, TimeInv, Types, ghosts
<1>5. CASE Cleanup
  <2>1. raw' \subseteq raw
    BY <1>5 DEF Cleanup, Kept
  <2>2. DOMAIN hourly' \subseteq DOMAIN hourly /\ DOMAIN daily' \subseteq DOMAIN daily
    BY <1>5, Swept DEF Cleanup
  <2>3. erased'.samples \in Int /\ erased'.aggregates \in Int
    <3>1. PICK s \in Int, a \in Int, b \in Int :
            /\ s = now - RawDays * Day /\ a = now - HourlyDays * Day /\ b = now - DailyDays * Day
      BY <1>0, Lengths
    <3>2. /\ erased'.samples = Later(s, erased.samples)
          /\ erased'.aggregates = Later(Later(a, b), erased.aggregates)
      BY <1>5, <3>1 DEF Cleanup, Erase
    <3>3. Later(s, erased.samples) \in Int /\ Later(a, b) \in Int
      BY <1>0, LaterIs
    <3>4. Later(Later(a, b), erased.aggregates) \in Int
      BY <1>0, <3>3, LaterIs
    <3>5. QED BY <3>2, <3>3, <3>4
  <2>4. QED BY <1>5, <2>1, <2>2, <2>3 DEF Cleanup, TimeInv, Types
<1>6. CASE AggregateHourly
  <2>1. HourOf(now) \in Int
    BY <1>0, HourFacts
  <2>2. job'.pc \in {"select", "network", "midnight"} /\ job'.hour \in Int
    BY <1>6, <2>1 DEF AggregateHourly, Idle
  <2>3. aggregateDue' \in Int
    BY <1>6, Lengths DEF AggregateHourly, TimeInv, Types
  <2>4. QED BY <1>6, <2>2, <2>3 DEF AggregateHourly, TimeInv, Types, tables, ghosts
<1>7. CASE StoreHourly
  <2>1. DOMAIN hourly' = DOMAIN hourly \cup {job.hour}
    <3>1. PICK v : hourly' = AddRow(hourly, job.hour, v)
      BY <1>7 DEF StoreHourly
    <3>2. QED BY <3>1 DEF AddRow
  <2>2. job'.pc \in {"select", "network", "midnight"} /\ job'.hour \in Int
    BY <1>7 DEF StoreHourly, Idle
  <2>3. QED BY <1>7, <2>1, <2>2 DEF StoreHourly, TimeInv, Types, timers, ghosts
<1>8. CASE AggregateDaily
  <2>1. DayOf(now) - 1 \in Int
    BY <1>0, DayFacts
  <2>2. DOMAIN daily' \subseteq DOMAIN daily \cup {DayOf(now) - 1}
    BY <1>8, Added DEF AggregateDaily, SumUp
  <2>3. job'.pc \in {"select", "network", "midnight"} /\ job'.hour \in Int
    BY <1>8 DEF AggregateDaily, SumUp, Idle
  <2>4. DOMAIN daily' \subseteq Int
    BY <2>1, <2>2 DEF TimeInv, Types
  <2>5. QED BY <1>8, <2>3, <2>4 DEF AggregateDaily, SumUp, TimeInv, Types, timers, ghosts
<1>9. CASE PruneMetrics
  <2>1. PICK b \in Int, x \in Int :
          /\ raw' = Kept(raw, b) /\ Erase(x, b - Zone)
          /\ \/ prune' = [at |-> "hourly", before |-> b]
             \/ prune' = [at |-> "hourly", before |-> b + 1]
    BY <1>0, <1>9, PruneBegins
  <2>2. PICK y \in Int : y = b - Zone
    BY Lengths
  <2>3. /\ erased'.samples = Later(x, erased.samples)
        /\ erased'.aggregates = Later(y, erased.aggregates)
    BY <2>1, <2>2 DEF Erase
  <2>4. erased'.samples \in Int /\ erased'.aggregates \in Int
    <3>1. Later(x, erased.samples) \in Int /\ Later(y, erased.aggregates) \in Int
      BY <1>0, LaterIs
    <3>2. QED BY <2>3, <3>1
  <2>5. raw' \subseteq raw /\ prune' \in [at : {"none", "hourly", "daily"}, before : Int]
    BY <2>1 DEF Kept
  <2>6. QED BY <1>9, <2>4, <2>5 DEF PruneMetrics, TimeInv, Types, timers
<1>10. CASE PruneAggregates
  <2>1. DOMAIN hourly' \subseteq DOMAIN hourly /\ DOMAIN daily' \subseteq DOMAIN daily
    BY <1>10, Swept DEF PruneAggregates
  <2>2. prune' \in [at : {"none", "hourly", "daily"}, before : Int]
    <3>1. prune' = NoPrune \/ prune' = [prune EXCEPT !.at = "daily"]
      BY <1>10 DEF PruneAggregates
    <3>2. QED BY <3>1 DEF NoPrune, TimeInv, Types
  <2>3. QED BY <1>10, <2>1, <2>2 DEF PruneAggregates, TimeInv, Types, timers, ghosts
<1>11. CASE UNCHANGED vars
  BY <1>11 DEF vars, TimeInv, Types, timers, tables, ghosts
<1>12. QED BY <1>1, <1>2, <1>3, <1>4, <1>5, <1>6, <1>7, <1>8, <1>9, <1>10, <1>11 DEF Next

\* What a step leaves alone of the ticks: the rest of them is kept.
LEMMA TicksKept ==
  ASSUME TimeInv, UNCHANGED <<now, up, upSince, aggregateDue, job, prune, edgy>>,
         erased.aggregates <= erased'.aggregates, erased'.aggregates \in Int
  PROVE  Ticks'
<1>1. /\ prune.before \in Int /\ erased.aggregates \in Int
      /\ Local(aggregateDue)' = Local(aggregateDue) /\ HourOf(aggregateDue)' = HourOf(aggregateDue)
  BY DEF TimeInv, Types, Local, HourOf
<1>2. prune'.at # "none" => prune'.before <= Local(erased.aggregates)' + 1
  BY <1>1, Lengths DEF TimeInv, Ticks, Local
<1>3. QED BY <1>1, <1>2 DEF TimeInv, Ticks

LEMMA ErasedGrows ==
  ASSUME TimeInv, Next
  PROVE  /\ erased.samples <= erased'.samples /\ erased.aggregates <= erased'.aggregates
         /\ erased.samples \in Int /\ erased.aggregates \in Int
         /\ erased'.samples \in Int /\ erased'.aggregates \in Int
<1>1. /\ now \in Int /\ erased.samples \in Int /\ erased.aggregates \in Int
      /\ erased'.samples \in Int /\ erased'.aggregates \in Int
  <2>1. Types'
    BY TypesStep
  <2>2. QED BY <2>1 DEF TimeInv, Types
<1>2. ASSUME NEW s \in Int, NEW a \in Int, Erase(s, a)
      PROVE  erased.samples <= erased'.samples /\ erased.aggregates <= erased'.aggregates
  <2>1. erased'.samples = Later(s, erased.samples) /\ erased'.aggregates = Later(a, erased.aggregates)
    BY <1>2 DEF Erase
  <2>2. QED BY <1>1, <2>1, LaterIs
<1>3. CASE Cleanup
  <2>1. PICK s \in Int, a \in Int, b \in Int :
          /\ s = now - RawDays * Day /\ a = now - HourlyDays * Day /\ b = now - DailyDays * Day
    BY <1>1, Lengths
  <2>2. Erase(s, Later(a, b))
    BY <1>3, <2>1 DEF Cleanup
  <2>3. QED BY <1>1, <1>2, <2>2, LaterIs
<1>4. CASE PruneMetrics
  <2>1. PICK b \in Int, x \in Int : Erase(x, b - Zone) /\ b - Zone \in Int
    <3>1. now \in Nat
      BY DEF TimeInv, Types
    <3>2. PICK b \in Int, x \in Int : Erase(x, b - Zone) /\ b - Zone \in Int
      BY <1>4, <3>1, PruneBegins
    <3>3. QED BY <3>2
  <2>2. PICK y \in Int : Erase(x, y)
    BY <2>1
  <2>3. QED BY <1>1, <1>2, <2>2
<1>5. CASE erased' = erased
  BY <1>1, <1>5
<1>6. Cleanup \/ PruneMetrics \/ erased' = erased
  BY DEF Next, Start, Stop, Tick, Collect, AggregateHourly, StoreHourly, AggregateDaily,
         SumUp, PruneAggregates, ghosts
<1>7. QED BY <1>1, <1>3, <1>4, <1>5, <1>6

LEMMA TicksStep ==
  ASSUME TimeInv, [Next]_vars PROVE Ticks'
<1>0. /\ now \in Nat /\ upSince \in Nat /\ aggregateDue \in Int /\ prune.before \in Int
      /\ upSince <= now /\ erased.aggregates \in Int /\ now \in Int
  BY DEF TimeInv, Types
<1>1. CASE Start
  <2>1. PICK a \in Int : a = now + Hour
    BY <1>0, Lengths
  <2>2. Local(a) % Hour = Local(now) % Hour
    BY <1>0, <2>1, HourLater
  <2>3. aggregateDue' = a /\ now' = now /\ upSince' = now /\ job' = job /\ prune' = prune
        /\ up' = TRUE /\ job.pc = "select" /\ prune.at = "none"
    BY <1>1, <2>1 DEF Start, TimeInv, Ticks
  <2>4. ~edgy' => (Local(a) % Hour) + MaxDelay < Hour
    <3>1. (Local(now) % Hour) \in Int
      BY <1>0, HourFacts, Lengths
    <3>2. ~edgy' => ~((Local(now) % Hour) + MaxDelay >= Hour)
      BY <1>1 DEF Start
    <3>3. QED BY <2>2, <3>1, <3>2, Lengths
  <2>5. Local(aggregateDue)' = Local(a)
    BY <2>3 DEF Local
  <2>6. now <= a + MaxDelay
    BY <1>0, <2>1, Lengths
  <2>7. QED BY <1>0, <2>1, <2>3, <2>4, <2>5, <2>6 DEF Ticks
<1>2. CASE Stop
  BY <1>2 DEF Stop, Idle, NoPrune, Ticks
<1>3. CASE Tick
  <2>1. UNCHANGED <<up, upSince, aggregateDue, job, prune, edgy, erased>> /\ now' = now + 1
    BY <1>3 DEF Tick, timers, ghosts
  <2>2. up => /\ ~(job.pc = "select" /\ aggregateDue + MaxDelay <= now)
              /\ ~(job.pc # "select" /\ aggregateDue - Hour + MaxDelay <= now)
    BY <1>3 DEF Tick, Pending
  <2>3. up => /\ job.pc = "select" => now' <= aggregateDue + MaxDelay
              /\ job.pc # "select" => now' <= aggregateDue - Hour + MaxDelay
              /\ aggregateDue <= now' + Hour
    BY <1>0, <2>1, <2>2, Lengths DEF TimeInv, Ticks
  <2>4. Local(aggregateDue)' = Local(aggregateDue) /\ HourOf(aggregateDue)' = HourOf(aggregateDue)
    BY <2>1 DEF Local, HourOf
  <2>5. QED BY <2>1, <2>3, <2>4 DEF TimeInv, Ticks
<1>4. CASE Collect
  <2>1. UNCHANGED <<now, up, upSince, aggregateDue, job, prune, edgy, erased>>
    BY <1>4 DEF Collect, ghosts
  <2>2. QED BY <1>0, <2>1, TicksKept
<1>5. CASE Cleanup
  <2>1. UNCHANGED <<now, up, upSince, aggregateDue, job, prune, edgy>>
    BY <1>5 DEF Cleanup
  <2>2. QED BY <1>5, <2>1, ErasedGrows, TicksKept DEF Next
<1>6. CASE AggregateHourly
  <2>1. /\ UNCHANGED <<now, up, upSince, prune, edgy, erased>> /\ up /\ job.pc = "select"
        /\ aggregateDue <= now /\ aggregateDue' = aggregateDue + Hour
        /\ job'.pc # "select"
        /\ job'.pc = "network" => job'.hour = HourOf(now) - 1
    BY <1>6 DEF AggregateHourly, ghosts, Idle
  <2>2. PICK a \in Int : a = aggregateDue + Hour
    BY <1>0, Lengths
  <2>3. /\ HourOf(a) = HourOf(aggregateDue) + 1
        /\ Local(a) % Hour = Local(aggregateDue) % Hour
        /\ HourOf(aggregateDue) \in Int
    BY <1>0, <2>2, HourLater, HourFacts
  <2>4. ~edgy => HourOf(now) = HourOf(aggregateDue)
    BY <2>1, TickHour
  <2>5. Local(aggregateDue)' = Local(a) /\ HourOf(aggregateDue)' = HourOf(a)
    BY <2>1, <2>2 DEF Local, HourOf
  <2>6. ~edgy => (Local(aggregateDue) % Hour) + MaxDelay < Hour
    BY <2>1 DEF TimeInv, Ticks
  <2>7. /\ upSince + Hour <= a /\ a <= now + Hour /\ now <= a - Hour + MaxDelay
    BY <1>0, <2>1, <2>2, Lengths DEF TimeInv, Ticks
  <2>8. ~edgy /\ job'.pc = "network" => job'.hour = HourOf(a) - 2
    BY <2>1, <2>3, <2>4
  <2>9. (prune.at # "none" => prune.before <= Local(erased.aggregates) + 1)
    BY DEF TimeInv, Ticks
  <2>10. aggregateDue' = a
    BY <2>1, <2>2
  <2>11. QED BY <2>1, <2>3, <2>5, <2>6, <2>7, <2>8, <2>9, <2>10 DEF Ticks
<1>7. CASE StoreHourly \/ AggregateDaily
  <2>1. /\ UNCHANGED <<now, up, upSince, aggregateDue, prune, edgy, erased>>
        /\ up /\ job.pc # "select" /\ job'.pc \in {"select", "midnight"}
    BY <1>7 DEF StoreHourly, AggregateDaily, SumUp, timers, ghosts, Idle
  <2>2. /\ now <= aggregateDue - Hour + MaxDelay /\ now <= aggregateDue + MaxDelay
    BY <1>0, <2>1, Lengths DEF TimeInv, Ticks
  <2>3. Local(aggregateDue)' = Local(aggregateDue)
    BY <2>1 DEF Local
  <2>4. QED BY <2>1, <2>2, <2>3 DEF TimeInv, Ticks
<1>8. CASE PruneMetrics
  <2>1. UNCHANGED <<now, up, upSince, aggregateDue, job, edgy>> /\ up
    BY <1>8 DEF PruneMetrics, timers
  <2>2. PICK b \in Int, x \in Int :
          /\ Erase(x, b - Zone)
          /\ prune'.before = b \/ prune'.before = b + 1
    BY <1>0, <1>8, PruneBegins
  <2>3. PICK y \in Int : y = b - Zone
    BY Lengths
  <2>4. PICK z \in Int : erased'.aggregates = z /\ y <= z
    <3>1. erased'.aggregates = Later(y, erased.aggregates)
      BY <2>2, <2>3 DEF Erase
    <3>2. y <= Later(y, erased.aggregates) /\ Later(y, erased.aggregates) \in Int
      BY <1>0, LaterIs
    <3>3. QED BY <3>1, <3>2
  <2>5. prune'.before <= Local(erased.aggregates)' + 1
    <3>1. Local(erased.aggregates)' = z + Zone
      BY <2>4 DEF Local
    <3>2. QED BY <2>2, <2>3, <2>4, <3>1, Lengths
  <2>6. Local(aggregateDue)' = Local(aggregateDue) /\ HourOf(aggregateDue)' = HourOf(aggregateDue)
    BY <2>1 DEF Local, HourOf
  <2>7. QED BY <2>1, <2>5, <2>6 DEF TimeInv, Ticks
<1>9. CASE PruneAggregates
  <2>1. /\ UNCHANGED <<now, up, upSince, aggregateDue, job, edgy, erased>> /\ up
        /\ prune' = NoPrune \/ (prune' = [prune EXCEPT !.at = "daily"] /\ prune.at # "none")
    BY <1>9 DEF PruneAggregates, timers, ghosts
  <2>2. prune'.at # "none" => prune'.before <= Local(erased.aggregates)' + 1
    BY <2>1 DEF NoPrune, TimeInv, Types, Ticks, Local
  <2>3. Local(aggregateDue)' = Local(aggregateDue) /\ HourOf(aggregateDue)' = HourOf(aggregateDue)
    BY <2>1 DEF Local, HourOf
  <2>4. QED BY <2>1, <2>2, <2>3 DEF TimeInv, Ticks
<1>10. CASE UNCHANGED vars
  <2>1. UNCHANGED <<now, up, upSince, aggregateDue, job, prune, edgy, erased>>
    BY <1>10 DEF vars, timers, ghosts
  <2>2. QED BY <1>0, <2>1, TicksKept
<1>11. QED BY <1>1, <1>2, <1>3, <1>4, <1>5, <1>6, <1>7, <1>8, <1>9, <1>10 DEF Next

LEMMA TimeInductive ==
  ASSUME TimeInv, [Next]_vars PROVE TimeInv'
BY TypesStep, TicksStep DEF TimeInv

-----------------------------------------------------------------------------
(* What the steps do to the rows.                                           *)

\* The clock and the samples.
LEMMA RawStep ==
  ASSUME TimeInv, Next
  PROVE  /\ raw' \subseteq raw \cup {now} /\ now <= now' /\ now \in Int /\ now' \in Int
         /\ Local(now) <= Local(now)' /\ (edgy => edgy')
<1>1. now \in Int /\ now' \in Int
  BY TypesStep DEF TimeInv, Types
<1>2. now <= now'
  BY <1>1 DEF Next, Start, Stop, Tick, Collect, Cleanup, AggregateHourly, StoreHourly,
         AggregateDaily, SumUp, PruneMetrics, PruneAggregates
<1>3. raw' \subseteq raw \cup {now}
  <2>1. CASE Cleanup \/ PruneMetrics
    BY <2>1 DEF Cleanup, PruneMetrics, Kept
  <2>2. CASE raw' = raw \/ raw' = raw \cup {now}
    BY <2>2
  <2>3. QED BY <2>1, <2>2 DEF Next, Start, Stop, Tick, Collect, AggregateHourly,
              StoreHourly, AggregateDaily, SumUp, PruneAggregates, tables
<1>4. edgy => edgy'
  BY DEF Next, Start, Stop, Tick, Collect, Cleanup, AggregateHourly, StoreHourly,
         AggregateDaily, SumUp, PruneMetrics, PruneAggregates, ghosts
<1>5. Local(now) <= Local(now)'
  <2>1. PICK m \in Int : m = now'
    BY <1>1
  <2>2. now <= m
    BY <1>2, <2>1
  <2>3. Local(now) <= Local(m)
    BY <1>1, <2>2, Lengths DEF Local
  <2>4. QED BY <2>1, <2>3 DEF Local
<1>6. QED BY <1>1, <1>2, <1>3, <1>4, <1>5

\* No sample is added to an hour that is over.
LEMMA SamplesSettled ==
  ASSUME TimeInv, Next, NEW h \in Int, (h + 1) * Hour <= Local(now)
  PROVE  SamplesOf(h)' \subseteq SamplesOf(h)
<1> SUFFICES ASSUME NEW t \in SamplesOf(h)' PROVE t \in SamplesOf(h)
  OBVIOUS
<1>1. /\ t \in raw' /\ HourOf(t) = h /\ Local(t) % Hour # 0 /\ t > erased'.samples
  BY DEF SamplesOf, HourOf, Local
<1>2. /\ now \in Int /\ raw \subseteq Int /\ raw' \subseteq raw \cup {now}
  BY RawStep DEF TimeInv, Types
<1>3. t \in Int
  BY <1>1, <1>2
<1>4. t > erased.samples
  BY <1>1, <1>3, ErasedGrows
<1>5. Local(t) < (h + 1) * Hour
  <2>1. (h + 1) * Hour = h * Hour + Hour
    BY HourStarts
  <2>2. QED BY <1>1, <1>3, <2>1, HourFacts
<1>6. t # now
  <2>1. (h + 1) * Hour \in Int /\ Local(now) \in Int
    BY <1>2, HourStarts, HourFacts
  <2>2. QED BY <1>5, <2>1
<1>7. QED BY <1>1, <1>2, <1>4, <1>6 DEF SamplesOf

\* Only what is erased leaves a table; only the hourly tick adds to it.
LEMMA HourlySteps ==
  ASSUME TimeInv, Next
  PROVE  \/ StoreHourly
         \/ /\ \A k \in DOMAIN hourly' : k \in DOMAIN hourly /\ hourly'[k] = hourly[k]
            /\ \A k \in DOMAIN hourly :
                 k * Hour > Local(erased.aggregates)' => k \in DOMAIN hourly'
<1>0. /\ DOMAIN hourly \subseteq Int /\ now \in Int /\ prune.before \in Int
  BY DEF TimeInv, Types
<1>1. ASSUME NEW b \in Int, hourly' = KeptAggregates(hourly, Hour, b),
             b <= Local(erased.aggregates)' + 1
      PROVE  /\ \A k \in DOMAIN hourly' : k \in DOMAIN hourly /\ hourly'[k] = hourly[k]
             /\ \A k \in DOMAIN hourly :
                  k * Hour > Local(erased.aggregates)' => k \in DOMAIN hourly'
  <2>1. \A k \in DOMAIN hourly' : k \in DOMAIN hourly /\ hourly'[k] = hourly[k]
    BY <1>1, Swept
  <2>2. ASSUME NEW k \in DOMAIN hourly, k * Hour > Local(erased.aggregates)'
        PROVE  k \in DOMAIN hourly'
    <3>1. Local(erased.aggregates)' \in Int
      BY ErasedGrows, Lengths DEF Local
    <3>2. k * Hour \in Int
      BY <1>0, HourStarts
    <3>3. k * Hour >= b
      BY <1>1, <2>2, <3>1, <3>2
    <3>4. QED BY <1>1, <3>3, Swept
  <2>3. QED BY <2>1, <2>2
<1>2. CASE Cleanup
  <2>1. PICK a \in Int, e \in Int : a = now - HourlyDays * Day /\ e = now - DailyDays * Day
    BY <1>0, Lengths
  <2>2. PICK b \in Int : b = Local(now) - HourlyDays * Day + 1
    BY <1>0, Lengths, HourFacts
  <2>3. hourly' = KeptAggregates(hourly, Hour, b)
    BY <1>2, <2>2 DEF Cleanup
  <2>4. erased'.aggregates = Later(Later(a, e), erased.aggregates)
    BY <1>2, <2>1 DEF Cleanup, Erase
  <2>5. a <= erased'.aggregates
    <3>1. Later(a, e) \in Int /\ a <= Later(a, e)
      BY LaterIs
    <3>2. Later(a, e) <= Later(Later(a, e), erased.aggregates)
      BY <3>1, LaterIs, ErasedGrows
    <3>3. QED BY <2>4, <3>1, <3>2, ErasedGrows
  <2>6. b <= Local(erased.aggregates)' + 1
    <3>1. b = a + Zone + 1
      BY <1>0, <2>1, <2>2, Lengths DEF Local
    <3>2. Local(erased.aggregates)' = erased'.aggregates + Zone
      BY DEF Local
    <3>3. QED BY <2>5, <3>1, <3>2, ErasedGrows, Lengths
  <2>7. QED BY <1>1, <2>3, <2>6
<1>3. CASE PruneAggregates
  <2>1. CASE hourly' = hourly
    BY <2>1
  <2>2. CASE prune.at = "hourly" /\ hourly' = KeptAggregates(hourly, Hour, prune.before)
    <3>1. prune.before <= Local(erased.aggregates) + 1
      BY <2>2 DEF TimeInv, Ticks
    <3>2. prune.before <= Local(erased.aggregates)' + 1
      BY <1>0, <3>1, ErasedGrows, Lengths DEF Local
    <3>3. QED BY <1>0, <1>1, <2>2, <3>2
  <2>3. QED BY <1>3, <2>1, <2>2 DEF PruneAggregates
<1>4. CASE hourly' = hourly
  BY <1>4
<1>5. QED BY <1>2, <1>3, <1>4 DEF Next, Start, Stop, Tick, Collect, AggregateHourly,
            AggregateDaily, SumUp, PruneMetrics, tables

LEMMA DailySteps ==
  ASSUME TimeInv, Next
  PROVE  \/ AggregateDaily
         \/ /\ \A k \in DOMAIN daily' : k \in DOMAIN daily /\ daily'[k] = daily[k]
            /\ \A k \in DOMAIN daily :
                 k * Day > Local(erased.aggregates)' => k \in DOMAIN daily'
<1>0. /\ DOMAIN daily \subseteq Int /\ now \in Int /\ prune.before \in Int
  BY DEF TimeInv, Types
<1>1. ASSUME NEW b \in Int, daily' = KeptAggregates(daily, Day, b),
             b <= Local(erased.aggregates)' + 1
      PROVE  /\ \A k \in DOMAIN daily' : k \in DOMAIN daily /\ daily'[k] = daily[k]
             /\ \A k \in DOMAIN daily :
                  k * Day > Local(erased.aggregates)' => k \in DOMAIN daily'
  <2>1. \A k \in DOMAIN daily' : k \in DOMAIN daily /\ daily'[k] = daily[k]
    BY <1>1, Swept
  <2>2. ASSUME NEW k \in DOMAIN daily, k * Day > Local(erased.aggregates)'
        PROVE  k \in DOMAIN daily'
    <3>1. Local(erased.aggregates)' \in Int
      BY ErasedGrows, Lengths DEF Local
    <3>2. k * Day \in Int
      BY <1>0, DayStarts
    <3>3. k * Day >= b
      BY <1>1, <2>2, <3>1, <3>2
    <3>4. QED BY <1>1, <3>3, Swept
  <2>3. QED BY <2>1, <2>2
<1>2. CASE Cleanup
  <2>1. PICK a \in Int, e \in Int : a = now - HourlyDays * Day /\ e = now - DailyDays * Day
    BY <1>0, Lengths
  <2>2. PICK b \in Int : b = Local(now) - DailyDays * Day + 1
    BY <1>0, Lengths, HourFacts
  <2>3. daily' = KeptAggregates(daily, Day, b)
    BY <1>2, <2>2 DEF Cleanup
  <2>4. erased'.aggregates = Later(Later(a, e), erased.aggregates)
    BY <1>2, <2>1 DEF Cleanup, Erase
  <2>5. e <= erased'.aggregates
    <3>1. Later(a, e) \in Int /\ e <= Later(a, e)
      BY LaterIs
    <3>2. Later(a, e) <= Later(Later(a, e), erased.aggregates)
      BY <3>1, LaterIs, ErasedGrows
    <3>3. QED BY <2>4, <3>1, <3>2, ErasedGrows
  <2>6. b <= Local(erased.aggregates)' + 1
    <3>1. b = e + Zone + 1
      BY <1>0, <2>1, <2>2, Lengths DEF Local
    <3>2. Local(erased.aggregates)' = erased'.aggregates + Zone
      BY DEF Local
    <3>3. QED BY <2>5, <3>1, <3>2, ErasedGrows, Lengths
  <2>7. QED BY <1>1, <2>3, <2>6
<1>3. CASE PruneAggregates
  <2>1. CASE daily' = daily
    BY <2>1
  <2>2. CASE prune.at = "daily" /\ daily' = KeptAggregates(daily, Day, prune.before)
    <3>1. prune.before <= Local(erased.aggregates) + 1
      BY <2>2 DEF TimeInv, Ticks
    <3>2. prune.before <= Local(erased.aggregates)' + 1
      BY <1>0, <3>1, ErasedGrows, Lengths DEF Local
    <3>3. QED BY <1>0, <1>1, <2>2, <3>2
  <2>3. QED BY <1>3, <2>1, <2>2 DEF PruneAggregates
<1>4. CASE daily' = daily
  BY <1>4
<1>5. QED BY <1>2, <1>3, <1>4 DEF Next, Start, Stop, Tick, Collect, AggregateHourly,
            StoreHourly, PruneMetrics, tables

-----------------------------------------------------------------------------
(* The aggregates of the hours.  Where local time is UTC the rows that the  *)
(* query of an hour finds are those of the hour, and no step adds a sample  *)
(* to an hour that is over.                                                 *)

Within(h, S) == \A t \in S : t \in Int /\ h * Hour < t /\ t <= (h + 1) * Hour
Whole(h, S) == SamplesOf(h) \subseteq S /\ Within(h, S)
IsOver(h) == (h + 1) * Hour <= Local(now)
RowsInv ==
  /\ \A h \in DOMAIN hourly :
       IsOver(h) /\ Whole(h, hourly[h].stats) /\ Whole(h, hourly[h].network)
  /\ job.pc = "network" => IsOver(job.hour) /\ Whole(job.hour, job.stats)

LEMMA UtcIs ==
  ASSUME Zone = 0, NEW t \in Int
  PROVE  Local(t) = t
BY DEF Local

LEMMA RowsAreWhole ==
  ASSUME Zone = 0, TimeInv, NEW h \in Int
  PROVE  Whole(h, RowsOf(h))
<1>1. h * Hour \in Int /\ (h + 1) * Hour = h * Hour + Hour /\ Hour \in Nat
  BY HourStarts, Lengths
<1>2. raw \subseteq Int
  BY DEF TimeInv, Types
<1>3. Within(h, RowsOf(h))
  BY <1>2 DEF RowsOf, Within
<1>4. ASSUME NEW t \in SamplesOf(h) PROVE t \in RowsOf(h)
  <2>1. t \in raw /\ t \in Int /\ HourOf(t) = h /\ Local(t) % Hour # 0
    BY <1>2 DEF SamplesOf
  <2>2. h * Hour <= t /\ t < h * Hour + Hour /\ t - h * Hour # 0
    BY <2>1, HourFacts, UtcIs
  <2>3. h * Hour < t /\ t <= (h + 1) * Hour
    BY <1>1, <2>1, <2>2
  <2>4. QED BY <2>1, <2>3 DEF RowsOf
<1>5. QED BY <1>3, <1>4 DEF Whole

\* An aggregate of an hour that is over stays whole.
LEMMA WholeKept ==
  ASSUME TimeInv, Next, NEW h \in Int, IsOver(h), NEW S, Whole(h, S)
  PROVE  IsOver(h)' /\ SamplesOf(h)' \subseteq S /\ Within(h, S)
<1>1. SamplesOf(h)' \subseteq SamplesOf(h)
  BY SamplesSettled DEF IsOver
<1>2. (h + 1) * Hour \in Int /\ Local(now) \in Int /\ Local(now)' \in Int
  <2>1. now \in Int /\ now' \in Int /\ Zone \in Int
    BY RawStep, Lengths
  <2>2. QED BY <2>1, HourStarts DEF Local
<1>3. (h + 1) * Hour <= Local(now)'
  BY <1>2, RawStep DEF IsOver
<1>4. QED BY <1>1, <1>3 DEF Whole, IsOver

LEMMA RowsInitial == Init => RowsInv
<1> SUFFICES ASSUME Init PROVE RowsInv
  OBVIOUS
<1>1. DOMAIN hourly = {} /\ job.pc = "select"
  BY DEF Init, Idle
<1>2. QED BY <1>1 DEF RowsInv

\* The hour before the one of the clock is over.
LEMMA HourBefore ==
  ASSUME TimeInv
  PROVE  HourOf(now) - 1 \in Int /\ IsOver(HourOf(now) - 1)
<1>1. now \in Int
  BY DEF TimeInv, Types
<1>2. PICK q \in Int : q = HourOf(now)
  BY <1>1, HourFacts
<1>3. q * Hour <= Local(now)
  BY <1>1, <1>2, HourFacts
<1>4. PICK h \in Int : h = q - 1
  OBVIOUS
<1>5. h + 1 = q
  BY <1>4
<1>6. (h + 1) * Hour <= Local(now)
  BY <1>3, <1>5
<1>7. QED BY <1>2, <1>4, <1>6 DEF IsOver

LEMMA RowsStep ==
  ASSUME Zone = 0, TimeInv, RowsInv, Next PROVE RowsInv'
<1>0. DOMAIN hourly \subseteq Int /\ job.hour \in Int
  BY DEF TimeInv, Types
<1>1. ASSUME NEW h \in DOMAIN hourly'
      PROVE  IsOver(h)' /\ Whole(h, hourly[h].stats)' /\ Whole(h, hourly[h].network)'
  <2>1. ASSUME NEW S, NEW T, hourly'[h].stats = S, hourly'[h].network = T,
               h \in Int, IsOver(h), Whole(h, S), Whole(h, T)
        PROVE  IsOver(h)' /\ Whole(h, hourly[h].stats)' /\ Whole(h, hourly[h].network)'
    <3>1. IsOver(h)' /\ SamplesOf(h)' \subseteq S /\ Within(h, S)
      BY <2>1, WholeKept
    <3>2. SamplesOf(h)' \subseteq T /\ Within(h, T)
      BY <2>1, WholeKept
    <3>3. QED BY <2>1, <3>1, <3>2 DEF Whole, Within
  <2>2. CASE h \in DOMAIN hourly /\ hourly'[h] = hourly[h]
    BY <1>0, <2>1, <2>2 DEF RowsInv
  <2>3. CASE StoreHourly
    <3>1. job.pc = "network"
      BY <2>3 DEF StoreHourly
    <3>2. PICK v : /\ v.stats = job.stats /\ v.network = RowsOf(job.hour)
                   /\ hourly' = AddRow(hourly, job.hour, v)
      BY <2>3 DEF StoreHourly
    <3>3. CASE h = job.hour
      <4>1. hourly'[h] = v
        BY <3>2, <3>3 DEF AddRow
      <4>2. IsOver(h) /\ Whole(h, job.stats) /\ Whole(h, RowsOf(h))
        BY <1>0, <3>1, <3>3, RowsAreWhole DEF RowsInv
      <4>3. QED BY <1>0, <2>1, <3>2, <3>3, <4>1, <4>2
    <3>4. CASE h # job.hour
      <4>1. h \in DOMAIN hourly /\ hourly'[h] = hourly[h]
        BY <3>2, <3>4 DEF AddRow
      <4>2. QED BY <2>2, <4>1
    <3>5. QED BY <3>3, <3>4
  <2>4. QED BY <2>2, <2>3, HourlySteps
<1>2. ASSUME job'.pc = "network" PROVE IsOver(job.hour)' /\ Whole(job.hour, job.stats)'
  <2>1. ASSUME NEW h \in Int, NEW S, h = job'.hour, S = job'.stats, IsOver(h), Whole(h, S)
        PROVE  IsOver(job.hour)' /\ Whole(job.hour, job.stats)'
    <3>1. IsOver(h)' /\ SamplesOf(h)' \subseteq S /\ Within(h, S)
      BY <2>1, WholeKept
    <3>2. QED BY <2>1, <3>1 DEF Whole, Within, IsOver, SamplesOf
  <2>2. CASE job' = job
    BY <1>0, <1>2, <2>1, <2>2 DEF RowsInv
  <2>3. CASE AggregateHourly
    <3>1. PICK h \in Int : h = HourOf(now) - 1
      BY HourBefore
    <3>2. job'.hour = h /\ job'.stats = RowsOf(h)
      BY <1>2, <2>3, <3>1 DEF AggregateHourly, Idle
    <3>3. IsOver(h) /\ Whole(h, RowsOf(h))
      BY <3>1, HourBefore, RowsAreWhole
    <3>4. QED BY <2>1, <3>2, <3>3
  <2>4. job' = job \/ AggregateHourly
    BY <1>2 DEF Next, Start, Stop, Tick, Collect, Cleanup, StoreHourly, AggregateDaily,
         SumUp, PruneMetrics, PruneAggregates, Idle
  <2>5. QED BY <2>2, <2>3, <2>4
<1>3. QED BY <1>1, <1>2 DEF RowsInv

\* HourlyFromItsHour, for every length of an hour, retention and history of
\* restarts, failures and prunings, where local time is UTC.
THEOREM HourlyAggregates ==
  ASSUME Zone = 0 PROVE Spec => []HourlyFromItsHour
<1> DEFINE Inv == TimeInv /\ RowsInv
<1>1. Init => Inv
  BY TypesInitial, RowsInitial
<1>2. Inv /\ [Next]_vars => Inv'
  <2> SUFFICES ASSUME Inv, [Next]_vars PROVE Inv'
    OBVIOUS
  <2>1. TimeInv'
    BY TimeInductive
  <2>2. CASE Next
    BY <2>1, <2>2, RowsStep
  <2>3. CASE UNCHANGED vars
    <3>1. RowsInv'
      BY <2>3 DEF RowsInv, Whole, IsOver, SamplesOf, Within, Local, HourOf, vars, tables, ghosts
    <3>2. QED BY <2>1, <3>1
  <2>4. QED BY <2>2, <2>3
<1>3. Inv => HourlyFromItsHour
  <2> SUFFICES ASSUME Inv, NEW h \in DOMAIN hourly
               PROVE  /\ SamplesOf(h) \subseteq hourly[h].stats \cap hourly[h].network
                      /\ \A t \in hourly[h].stats \cup hourly[h].network :
                           HourOf(t) = h \/ Local(t) = (h + 1) * Hour
    BY DEF HourlyFromItsHour
  <2>1. h \in Int
    BY DEF TimeInv, Types
  <2>2. Whole(h, hourly[h].stats) /\ Whole(h, hourly[h].network)
    BY DEF RowsInv
  <2>3. SamplesOf(h) \subseteq hourly[h].stats \cap hourly[h].network
    BY <2>2 DEF Whole
  <2>4. ASSUME NEW t \in hourly[h].stats \cup hourly[h].network
        PROVE  HourOf(t) = h \/ Local(t) = (h + 1) * Hour
    <3>1. t \in Int /\ h * Hour < t /\ t <= (h + 1) * Hour
      BY <2>2 DEF Whole, Within
    <3>2. h * Hour \in Int /\ (h + 1) * Hour = h * Hour + Hour /\ Hour \in Nat
      BY <2>1, HourStarts, Lengths
    <3>3. Local(t) = t
      BY <3>1, UtcIs
    <3>4. t # (h + 1) * Hour => h * Hour <= Local(t) /\ Local(t) < h * Hour + Hour
      BY <3>1, <3>2, <3>3
    <3>5. QED BY <2>1, <3>1, <3>3, <3>4, IsHour
  <2>5. QED BY <2>3, <2>4
<1>4. QED BY <1>1, <1>2, <1>3, PTL DEF Spec

-----------------------------------------------------------------------------
(* The hours in their turn.  NextHour is the next hour to be aggregated, or *)
(* the one in the making; every hour before it that the server ran through  *)
(* has had its turn.                                                        *)

NextHour == IF ~up THEN HourOf(now)
            ELSE IF job.pc = "network" THEN job.hour ELSE HourOf(aggregateDue) - 1

LEMMA NextHourFacts ==
  ASSUME TimeInv, ~edgy
  PROVE  /\ NextHour \in Int /\ NextHour <= HourOf(now) /\ HourOf(now) \in Int
         /\ NextHour * Hour <= Local(now)
<1>1. now \in Int /\ aggregateDue \in Int /\ job.hour \in Int
  BY DEF TimeInv, Types
<1>2. PICK q \in Int, p \in Int : q = HourOf(now) /\ p = HourOf(aggregateDue)
  BY <1>1, HourFacts
<1>3. up => p - 1 <= q
  <2>1. PICK b \in Int : b = now + Hour
    BY <1>1, Lengths
  <2>2. HourOf(b) = q + 1
    BY <1>1, <1>2, <2>1, HourLater
  <2>3. up => aggregateDue <= b
    BY <2>1 DEF TimeInv, Ticks
  <2>4. up => p <= q + 1
    BY <1>1, <1>2, <2>1, <2>2, <2>3, HoursGrow
  <2>5. QED BY <1>2, <2>4
<1>4. NextHour \in Int /\ NextHour <= q
  BY <1>1, <1>2, <1>3 DEF NextHour, TimeInv, Ticks
<1>5. PICK n \in Int : n = NextHour
  BY <1>4
<1>6. n * Hour \in Int /\ q * Hour \in Int /\ n * Hour <= q * Hour
  BY <1>2, <1>4, <1>5, HourStarts
<1>7. q * Hour <= Local(now) /\ Local(now) \in Int
  BY <1>1, <1>2, HourFacts
<1>8. n * Hour <= Local(now)
  BY <1>6, <1>7
<1>9. QED BY <1>2, <1>4, <1>5, <1>8

\* How a step moves it, between starts.
LEMMA NextHourSteps ==
  ASSUME TimeInv, Next, ~edgy'
  PROVE  /\ NextHour <= NextHour' /\ NextHour' \in Int
         /\ up /\ up' =>
              \/ NextHour' = NextHour
              \/ /\ StoreHourly /\ NextHour = job.hour /\ NextHour' = NextHour + 1
                 /\ HourOf(now) = NextHour + 1
              \/ /\ AggregateHourly /\ job'.pc = "midnight" /\ NextHour = HourOf(now) - 1
                 /\ NextHour' = NextHour + 1
<1>0. /\ now \in Int /\ aggregateDue \in Int /\ job.hour \in Int /\ ~edgy
      /\ HourOf(now) \in Int /\ HourOf(aggregateDue) \in Int
      /\ NextHour \in Int /\ NextHour <= HourOf(now)
  <2>1. now \in Int /\ aggregateDue \in Int /\ job.hour \in Int /\ ~edgy
    BY RawStep DEF TimeInv, Types
  <2>2. QED BY <2>1, HourFacts, NextHourFacts
<1>1. TimeInv' /\ now' \in Int /\ now <= now'
  BY TimeInductive, RawStep
<1>2. CASE Start
  <2>1. aggregateDue' = now + Hour /\ up' /\ ~up /\ job.pc = "select" /\ job' = job
    BY <1>2 DEF Start, TimeInv, Ticks
  <2>2. PICK a \in Int : a = now + Hour
    BY <1>0, Lengths
  <2>3. HourOf(a) = HourOf(now) + 1
    BY <1>0, <2>2, HourLater
  <2>4. HourOf(aggregateDue)' = HourOf(a)
    BY <2>1, <2>2 DEF HourOf, Local
  <2>5. NextHour = HourOf(now) /\ NextHour' = HourOf(now)
    BY <1>0, <2>1, <2>3, <2>4 DEF NextHour
  <2>6. QED BY <1>0, <2>1, <2>5
<1>3. CASE ~up'
  <2>1. NextHour' = HourOf(now)'
    BY <1>3 DEF NextHour
  <2>2. PICK m \in Int : m = now'
    BY <1>1
  <2>3. HourOf(now) <= HourOf(m) /\ HourOf(m) \in Int
    BY <1>0, <1>1, <2>2, HoursGrow, HourFacts
  <2>4. HourOf(now)' = HourOf(m)
    BY <2>2 DEF HourOf, Local
  <2>5. QED BY <1>0, <1>3, <2>1, <2>3, <2>4
<1>4. CASE AggregateHourly
  <2>1. /\ up /\ up' /\ job.pc = "select" /\ aggregateDue <= now
        /\ aggregateDue' = aggregateDue + Hour
        /\ \/ job'.pc = "midnight"
           \/ job'.pc = "network" /\ job'.hour = HourOf(now) - 1
    BY <1>4 DEF AggregateHourly, Idle
  <2>2. PICK a \in Int : a = aggregateDue + Hour
    BY <1>0, Lengths
  <2>3. HourOf(a) = HourOf(aggregateDue) + 1
    BY <1>0, <2>2, HourLater
  <2>4. HourOf(aggregateDue)' = HourOf(a)
    BY <2>1, <2>2 DEF HourOf, Local
  <2>5. HourOf(now) = HourOf(aggregateDue)
    BY <1>0, <2>1, TickHour
  <2>6. NextHour = HourOf(now) - 1
    BY <1>0, <2>1, <2>5 DEF NextHour
  <2>7. NextHour' = IF job'.pc = "network" THEN HourOf(now) - 1 ELSE HourOf(now)
    BY <1>0, <2>1, <2>3, <2>4, <2>5 DEF NextHour
  <2>8. QED BY <1>0, <1>4, <2>1, <2>6, <2>7
<1>5. CASE StoreHourly
  <2>1. /\ up /\ up' /\ job.pc = "network" /\ aggregateDue' = aggregateDue
        /\ job'.pc = "midnight"
    BY <1>5 DEF StoreHourly, timers, Idle
  <2>2. job.hour = HourOf(aggregateDue) - 2 /\ HourOf(now) = HourOf(aggregateDue) - 1
    BY <1>0, <2>1, TickHour DEF TimeInv, Ticks
  <2>3. HourOf(aggregateDue)' = HourOf(aggregateDue)
    BY <2>1 DEF HourOf, Local
  <2>4. NextHour = job.hour /\ NextHour' = HourOf(aggregateDue) - 1
    BY <2>1, <2>3 DEF NextHour
  <2>5. QED BY <1>0, <1>5, <2>1, <2>2, <2>4
<1>6. CASE up /\ UNCHANGED <<up, aggregateDue>> /\ (job' = job \/ AggregateDaily)
  <2>1. job'.pc = "network" <=> job.pc = "network"
    BY <1>6 DEF AggregateDaily, SumUp, Idle
  <2>2. job.pc = "network" => job' = job
    BY <1>6 DEF AggregateDaily, SumUp
  <2>3. HourOf(aggregateDue)' = HourOf(aggregateDue)
    BY <1>6 DEF HourOf, Local
  <2>4. NextHour' = NextHour
    BY <1>6, <2>1, <2>2, <2>3 DEF NextHour
  <2>5. QED BY <1>0, <2>4
<1>7. CASE Tick
  BY <1>3, <1>6, <1>7 DEF Tick, timers
<1>8. QED BY <1>2, <1>3, <1>4, <1>5, <1>6, <1>7 DEF Next, Stop, Collect, Cleanup,
            AggregateDaily, SumUp, PruneMetrics, PruneAggregates, timers

HadItsTurn(h) ==
  /\ HourOf(upSince) <= h /\ SamplesOf(h) # {} /\ h * Hour > Local(erased.aggregates)
  => h \in DOMAIN hourly
TurnInv == up /\ ~edgy => \A h \in Int : h < NextHour => HadItsTurn(h)

LEMMA TurnStep ==
  ASSUME Zone = 0, TimeInv, TurnInv, Next PROVE TurnInv'
<1> SUFFICES ASSUME up', ~edgy', NEW h \in Int, h < NextHour',
                    HourOf(upSince)' <= h, SamplesOf(h)' # {},
                    h * Hour > Local(erased.aggregates)'
             PROVE  h \in DOMAIN hourly'
  BY DEF TurnInv, HadItsTurn
<1>0. /\ ~edgy /\ now \in Int /\ HourOf(now) \in Int /\ NextHour \in Int
      /\ NextHour <= HourOf(now) /\ NextHour' \in Int
  BY RawStep, NextHourFacts, NextHourSteps
<1>1. CASE ~up
  <2>1. Start
    BY <1>1 DEF Next, Stop, Tick, Collect, Cleanup, AggregateHourly, StoreHourly,
         AggregateDaily, SumUp, PruneMetrics, PruneAggregates
  <2>2. aggregateDue' = now + Hour /\ upSince' = now /\ job'.pc = "select"
    BY <2>1 DEF Start, TimeInv, Ticks
  <2>3. PICK a \in Int : a = now + Hour
    BY <1>0, Lengths
  <2>4. HourOf(a) = HourOf(now) + 1
    BY <1>0, <2>3, HourLater
  <2>5. HourOf(aggregateDue)' = HourOf(a) /\ HourOf(upSince)' = HourOf(now)
    BY <2>2, <2>3 DEF HourOf, Local
  <2>6. NextHour' = HourOf(now)
    BY <1>0, <2>2, <2>4, <2>5 DEF NextHour
  <2>7. QED BY <1>0, <2>5, <2>6
<1>2. CASE up
  <2>1. HourOf(upSince)' = HourOf(upSince)
    BY <1>2 DEF Next, Start, Stop, Tick, Collect, Cleanup, AggregateHourly, StoreHourly,
         AggregateDaily, SumUp, PruneMetrics, PruneAggregates, HourOf, Local
  <2>2. h + 1 <= HourOf(now)
    BY <1>0, <1>2, NextHourSteps
  <2>3. IsOver(h)
    <3>1. PICK p \in Int, q \in Int : p = h + 1 /\ q = HourOf(now)
      BY <1>0
    <3>2. p * Hour <= q * Hour /\ p * Hour \in Int /\ q * Hour \in Int
      BY <2>2, <3>1, HourStarts
    <3>3. q * Hour <= Local(now) /\ Local(now) \in Int
      BY <1>0, <3>1, HourFacts
    <3>4. p * Hour <= Local(now)
      BY <3>2, <3>3
    <3>5. QED BY <3>1, <3>4 DEF IsOver
  <2>4. SamplesOf(h) # {}
    BY <2>3, SamplesSettled DEF IsOver
  <2>5. h * Hour > Local(erased.aggregates)
    <3>1. PICK x \in Int, e \in Int, f \in Int :
            x = h * Hour /\ e = erased.aggregates /\ f = erased'.aggregates
      BY HourStarts, ErasedGrows
    <3>2. x > f + Zone
      BY <3>1 DEF Local
    <3>3. e <= f /\ Zone \in Int
      BY <3>1, ErasedGrows, Lengths
    <3>4. x > e + Zone
      BY <3>2, <3>3
    <3>5. QED BY <3>1, <3>4 DEF Local
  <2>6. h < NextHour => h \in DOMAIN hourly
    BY <1>0, <1>2, <2>1, <2>4, <2>5 DEF TurnInv, HadItsTurn
  <2>7. ASSUME h \in DOMAIN hourly PROVE h \in DOMAIN hourly'
    <3>1. CASE StoreHourly
      BY <2>7, <3>1 DEF StoreHourly, AddRow
    <3>2. QED BY <2>7, <3>1, HourlySteps
  <2>8. CASE StoreHourly /\ h = job.hour
    BY <2>8 DEF StoreHourly, AddRow
  <2>9. CASE AggregateHourly /\ job'.pc = "midnight" /\ h = HourOf(now) - 1
    <3>1. h \in DOMAIN hourly \/ RowsOf(h) = {}
      BY <2>9 DEF AggregateHourly, Idle
    <3>2. SamplesOf(h) \subseteq RowsOf(h)
      BY RowsAreWhole DEF Whole
    <3>3. QED BY <2>4, <2>7, <3>1, <3>2
  <2>10. h < NextHour \/ (StoreHourly /\ h = job.hour)
         \/ (AggregateHourly /\ job'.pc = "midnight" /\ h = HourOf(now) - 1)
    BY <1>0, <1>2, NextHourSteps
  <2>11. QED BY <2>6, <2>7, <2>8, <2>9, <2>10
<1>3. QED BY <1>1, <1>2

-----------------------------------------------------------------------------
(* The aggregates of the days.  A day is summed up when all of its hours    *)
(* have had their turn, so that no step adds an hour to it later; and every *)
(* day that ends by Summed, which the hourly tick has gone through, was     *)
(* summed up if it had an hour.                                             *)

DayRowsInv ==
  ~edgy => \A d \in DOMAIN daily :
             /\ (d + 1) * Day <= NextHour * Hour
             /\ \A h \in HoursOf(d) : hourly[h].stats \subseteq daily[d]

Summed == IF job.pc = "select" THEN HourOf(aggregateDue) - 1 ELSE HourOf(aggregateDue) - 2
HadItsSum(d) ==
  /\ Local(upSince) < (d + 1) * Day /\ HoursOf(d) # {} /\ d * Day > Local(erased.aggregates)
  => d \in DOMAIN daily
DaySumInv ==
  up /\ ~edgy => \A d \in Int : (d + 1) * Day <= Summed * Hour => HadItsSum(d)

\* An hour from a day's end on is not of that day.
LEMMA NotOfTheDay ==
  ASSUME NEW d \in Int, NEW h \in Int, (d + 1) * Day <= h * Hour
  PROVE  (h * Hour) \div Day # d
<1>1. PICK x \in Int : x = h * Hour
  BY HourStarts
<1>2. PICK e \in Int : e = x \div Day
  BY Lengths, DivBounds
<1>3. x < e * Day + Day
  BY <1>2, Lengths, DivBounds
<1>4. d * Day \in Int /\ (d + 1) * Day = d * Day + Day
  BY DayStarts
<1>5. e # d
  BY <1>1, <1>3, <1>4, Lengths
<1>6. QED BY <1>1, <1>2, <1>5

\* While the day is summed up the hour of the clock is the next one.
LEMMA AtMidnight ==
  ASSUME TimeInv, up, ~edgy, job.pc = "midnight"
  PROVE  /\ NextHour = HourOf(now) /\ Summed = HourOf(now) - 1 /\ HourOf(now) \in Int
         /\ HourOf(aggregateDue) - 1 = HourOf(now)
<1>1. now \in Int /\ aggregateDue \in Int
  BY DEF TimeInv, Types
<1>2. HourOf(now) = HourOf(aggregateDue) - 1
  BY TickHour
<1>3. HourOf(now) \in Int /\ HourOf(aggregateDue) \in Int
  BY <1>1, HourFacts
<1>4. NextHour = HourOf(now)
  BY <1>2 DEF NextHour
<1>5. Summed = HourOf(now) - 1
  BY <1>2, <1>3 DEF Summed
<1>6. QED BY <1>2, <1>3, <1>4, <1>5

\* The hours of a day, when the day is over: none is added.
LEMMA HoursSettled ==
  ASSUME TimeInv, Next, ~edgy, NEW d \in Int, NEW n \in Int,
         (d + 1) * Day <= n * Hour, StoreHourly => n <= job.hour
  PROVE  \A h \in HoursOf(d)' : h \in HoursOf(d) /\ hourly'[h] = hourly[h]
<1> SUFFICES ASSUME NEW h \in HoursOf(d)' PROVE h \in HoursOf(d) /\ hourly'[h] = hourly[h]
  OBVIOUS
<1>1. h \in DOMAIN hourly' /\ (h * Hour) \div Day = d
  BY DEF HoursOf
<1>2. CASE h \in DOMAIN hourly /\ hourly'[h] = hourly[h]
  BY <1>1, <1>2 DEF HoursOf
<1>3. CASE StoreHourly
  <2>1. PICK j \in Int : j = job.hour
    BY DEF TimeInv, Types
  <2>2. /\ n * Hour <= j * Hour /\ n * Hour \in Int /\ j * Hour \in Int /\ (d + 1) * Day \in Int
    <3>1. n <= j
      BY <1>3, <2>1
    <3>2. d + 1 \in Int
      OBVIOUS
    <3>3. QED BY <3>1, <3>2, HourStarts, DayStarts
  <2>3. (d + 1) * Day <= j * Hour
    BY <2>2
  <2>4. h # j
    BY <1>1, <2>3, NotOfTheDay
  <2>5. PICK v : hourly' = AddRow(hourly, j, v)
    BY <1>3, <2>1 DEF StoreHourly
  <2>6. h \in DOMAIN hourly /\ hourly'[h] = hourly[h]
    BY <1>1, <2>4, <2>5 DEF AddRow
  <2>7. QED BY <1>2, <2>6
<1>4. QED BY <1>1, <1>2, <1>3, HourlySteps

LEMMA DayRowsStep ==
  ASSUME TimeInv, DayRowsInv, Next PROVE DayRowsInv'
<1> SUFFICES ASSUME ~edgy', NEW d \in DOMAIN daily'
             PROVE  /\ (d + 1) * Day <= NextHour' * Hour
                    /\ \A h \in HoursOf(d)' : hourly'[h].stats \subseteq daily'[d]
  BY DEF DayRowsInv
<1>0. /\ ~edgy /\ now \in Int /\ NextHour \in Int /\ NextHour' \in Int /\ NextHour <= NextHour'
      /\ DOMAIN daily \subseteq Int
  BY RawStep, NextHourFacts, NextHourSteps DEF TimeInv, Types
<1>1. CASE d \in DOMAIN daily /\ daily'[d] = daily[d]
  <2>1. d \in Int /\ d + 1 \in Int /\ (d + 1) * Day <= NextHour * Hour
    BY <1>0, <1>1 DEF DayRowsInv
  <2>2. PICK n \in Int, m \in Int : n = NextHour /\ m = NextHour'
    BY <1>0
  <2>3. (d + 1) * Day <= m * Hour
    <3>1. n * Hour <= m * Hour /\ n * Hour \in Int /\ m * Hour \in Int
      BY <1>0, <2>2, HourStarts
    <3>2. (d + 1) * Day \in Int
      BY <2>1, DayStarts
    <3>3. QED BY <2>1, <2>2, <3>1, <3>2
  <2>4. StoreHourly => n <= job.hour
    BY <1>0, <2>2 DEF StoreHourly, NextHour
  <2>5. \A h \in HoursOf(d)' : h \in HoursOf(d) /\ hourly'[h] = hourly[h]
    BY <1>0, <2>1, <2>2, <2>4, HoursSettled
  <2>6. \A h \in HoursOf(d) : hourly[h].stats \subseteq daily[d]
    BY <1>0, <1>1 DEF DayRowsInv
  <2>7. QED BY <1>1, <2>2, <2>3, <2>5, <2>6
<1>2. CASE AggregateDaily
  <2>1. /\ up /\ job.pc = "midnight" /\ up' = up /\ aggregateDue' = aggregateDue
        /\ hourly' = hourly /\ now' = now /\ job'.pc = "select"
    BY <1>2 DEF AggregateDaily, SumUp, timers, Idle
  <2>2. PICK e \in Int, D \in Int : e = DayOf(now) - 1 /\ D = DayOf(now) /\ D = e + 1
    BY <1>0, DayFacts
  <2>3. PICK v : /\ v = UNION {hourly[h].stats : h \in HoursOf(e)}
                 /\ daily' = daily \/ daily' = AddRow(daily, e, v)
    BY <1>2, <2>2 DEF AggregateDaily, SumUp
  <2>4. CASE d \in DOMAIN daily /\ d # e
    <3>1. daily'[d] = daily[d]
      BY <2>3, <2>4 DEF AddRow
    <3>2. QED BY <1>1, <2>4, <3>1
  <2>5. CASE daily' = daily
    BY <1>1, <2>5
  <2>6. CASE d = e /\ daily' = AddRow(daily, e, v)
    <3>1. daily'[d] = v
      BY <2>6 DEF AddRow
    <3>2. \A h \in HoursOf(d) : hourly[h].stats \subseteq v
      BY <2>3, <2>6
    <3>3. HoursOf(d)' = HoursOf(d)
      BY <2>1 DEF HoursOf
    <3>4. PICK q \in Int : q = HourOf(now)
      BY <1>0, HourFacts
    <3>5. NextHour' = q
      <4>1. HourOf(aggregateDue)' = HourOf(aggregateDue)
        BY <2>1 DEF HourOf, Local
      <4>2. HourOf(aggregateDue) - 1 = q
        BY <1>0, <2>1, <3>4, AtMidnight
      <4>3. QED BY <2>1, <4>1, <4>2 DEF NextHour
    <3>6. D * Day < q * Hour + Hour
      <4>1. D * Day <= Local(now) /\ D * Day \in Int
        BY <1>0, <2>2, DayFacts
      <4>2. Local(now) < q * Hour + Hour /\ q * Hour \in Int /\ Local(now) \in Int
        BY <1>0, <3>4, HourFacts
      <4>3. Hour \in Int
        BY Lengths
      <4>4. QED BY <4>1, <4>2, <4>3
    <3>7. D * Day <= q * Hour
      BY <3>6, DayInHours
    <3>8. (d + 1) * Day <= NextHour' * Hour
      BY <2>2, <2>6, <3>5, <3>7
    <3>9. QED BY <2>1, <3>1, <3>2, <3>3, <3>8
  <2>7. d \in DOMAIN daily \/ d = e
    BY <2>3 DEF AddRow
  <2>8. QED BY <2>3, <2>4, <2>5, <2>6, <2>7
<1>3. QED BY <1>1, <1>2, DailySteps

\* What the hourly tick has gone through grows when the day is summed up.
LEMMA SummedSteps ==
  ASSUME TimeInv, Next, ~edgy, up, up'
  PROVE  /\ Summed \in Int /\ Summed' \in Int
         /\ \/ Summed' = Summed
            \/ AggregateDaily /\ Summed' = Summed + 1 /\ Summed' = HourOf(now)
<1>0. /\ now \in Int /\ aggregateDue \in Int /\ HourOf(aggregateDue) \in Int
  BY HourFacts DEF TimeInv, Types
<1>1. Summed \in Int
  BY <1>0 DEF Summed
<1>2. CASE AggregateHourly
  <2>1. /\ job.pc = "select" /\ job'.pc # "select" /\ aggregateDue' = aggregateDue + Hour
    BY <1>2 DEF AggregateHourly, Idle
  <2>2. PICK a \in Int : a = aggregateDue + Hour
    BY <1>0, Lengths
  <2>3. HourOf(a) = HourOf(aggregateDue) + 1
    BY <1>0, <2>2, HourLater
  <2>4. HourOf(aggregateDue)' = HourOf(a)
    BY <2>1, <2>2 DEF HourOf, Local
  <2>5. Summed' = Summed
    BY <1>0, <2>1, <2>3, <2>4 DEF Summed
  <2>6. QED BY <1>1, <2>5
<1>3. CASE AggregateDaily
  <2>1. job.pc = "midnight" /\ job'.pc = "select" /\ aggregateDue' = aggregateDue
    BY <1>3 DEF AggregateDaily, SumUp, Idle, timers
  <2>2. /\ Summed = HourOf(now) - 1 /\ HourOf(now) \in Int
        /\ HourOf(aggregateDue) - 1 = HourOf(now)
    BY <2>1, AtMidnight
  <2>3. HourOf(aggregateDue)' = HourOf(aggregateDue)
    BY <2>1 DEF HourOf, Local
  <2>4. Summed' = HourOf(now)
    BY <2>1, <2>2, <2>3 DEF Summed
  <2>5. QED BY <1>3, <2>2, <2>4
<1>4. CASE aggregateDue' = aggregateDue /\ (job'.pc = "select" <=> job.pc = "select")
  <2>1. HourOf(aggregateDue)' = HourOf(aggregateDue)
    BY <1>4 DEF HourOf, Local
  <2>2. Summed' = Summed
    BY <1>4, <2>1 DEF Summed
  <2>3. QED BY <1>1, <2>2
<1>5. CASE StoreHourly
  BY <1>4, <1>5 DEF StoreHourly, timers, Idle
<1>6. QED BY <1>2, <1>3, <1>4, <1>5 DEF Next, Start, Stop, Tick, Collect, Cleanup,
            PruneMetrics, PruneAggregates, timers

LEMMA DaySumStep ==
  ASSUME TimeInv, DaySumInv, Next PROVE DaySumInv'
<1> SUFFICES ASSUME up', ~edgy', NEW d \in Int, (d + 1) * Day <= Summed' * Hour,
                    Local(upSince)' < (d + 1) * Day, HoursOf(d)' # {},
                    d * Day > Local(erased.aggregates)'
             PROVE  d \in DOMAIN daily'
  BY DEF DaySumInv, HadItsSum
<1>0. ~edgy /\ now \in Int
  BY RawStep
<1>00. d + 1 \in Int /\ (d + 1) * Day \in Int /\ (d + 1) * Day = d * Day + Day /\ d * Day \in Int
  <2>1. d + 1 \in Int
    OBVIOUS
  <2>2. QED BY <2>1, DayStarts
<1>1. CASE ~up
  <2>1. Start
    BY <1>1 DEF Next, Stop, Tick, Collect, Cleanup, AggregateHourly, StoreHourly,
         AggregateDaily, SumUp, PruneMetrics, PruneAggregates
  <2>2. aggregateDue' = now + Hour /\ upSince' = now /\ job'.pc = "select"
    BY <2>1 DEF Start, TimeInv, Ticks
  <2>3. PICK a \in Int : a = now + Hour
    BY <1>0, Lengths
  <2>4. PICK q \in Int : q = HourOf(now)
    BY <1>0, HourFacts
  <2>5. HourOf(a) = q + 1
    BY <1>0, <2>3, <2>4, HourLater
  <2>6. HourOf(aggregateDue)' = HourOf(a) /\ Local(upSince)' = Local(now)
    BY <2>2, <2>3 DEF HourOf, Local
  <2>7. Summed' = q
    BY <2>2, <2>4, <2>5, <2>6 DEF Summed
  <2>8. q * Hour <= Local(now) /\ q * Hour \in Int /\ Local(now) \in Int
    BY <1>0, <2>4, HourFacts
  <2>9. (d + 1) * Day <= q * Hour /\ Local(now) < (d + 1) * Day
    BY <2>6, <2>7
  <2>10. QED BY <1>00, <2>8, <2>9
<1>2. CASE up
  <2>1. Local(upSince) < (d + 1) * Day
    BY <1>2 DEF Next, Start, Stop, Tick, Collect, Cleanup, AggregateHourly, StoreHourly,
         AggregateDaily, SumUp, PruneMetrics, PruneAggregates, Local
  <2>2. d * Day > Local(erased.aggregates)
    <3>1. PICK x \in Int, e \in Int, f \in Int :
            x = d * Day /\ e = erased.aggregates /\ f = erased'.aggregates
      BY <1>00, ErasedGrows
    <3>2. x > f + Zone
      BY <3>1 DEF Local
    <3>3. e <= f /\ Zone \in Int
      BY <3>1, ErasedGrows, Lengths
    <3>4. x > e + Zone
      BY <3>2, <3>3
    <3>5. QED BY <3>1, <3>4 DEF Local
  <2>3. PICK n \in Int, m \in Int : n = Summed /\ m = Summed'
    BY <1>0, <1>2, SummedSteps
  <2>4. ASSUME d \in DOMAIN daily PROVE d \in DOMAIN daily'
    <3>1. CASE AggregateDaily
      BY <2>4, <3>1 DEF AggregateDaily, SumUp, AddRow
    <3>2. QED BY <2>4, <3>1, DailySteps
  <2>5. CASE (d + 1) * Day <= n * Hour
    <3>1. StoreHourly => n <= job.hour
      <4>1. StoreHourly => Summed = job.hour
        <5>1. StoreHourly => job.pc = "network"
          BY DEF StoreHourly
        <5>2. QED BY <1>0, <1>2, <5>1 DEF Summed, TimeInv, Ticks
      <4>2. QED BY <2>3, <4>1
    <3>2. HoursOf(d) # {}
      BY <1>0, <2>3, <2>5, <3>1, HoursSettled
    <3>3. d \in DOMAIN daily
      BY <1>0, <1>2, <2>1, <2>2, <2>3, <2>5, <3>2 DEF DaySumInv, HadItsSum
    <3>4. QED BY <2>4, <3>3
  <2>6. CASE n * Hour < (d + 1) * Day
    <3>1. PICK D \in Int : D = d + 1
      BY <1>00
    <3>2. n * Hour \in Int /\ n * Hour + Hour <= D * Day /\ D * Day \in Int
      BY <1>00, <2>6, <3>1, HourStarts, DayInHours
    <3>3. D * Day <= m * Hour
      BY <2>3, <3>1
    <3>4. AggregateDaily /\ m = n + 1 /\ m = HourOf(now)
      <4>1. m # n
        BY <2>6, <3>1, <3>2, <3>3
      <4>2. QED BY <1>0, <1>2, <2>3, <4>1, SummedSteps
    <3>5. m * Hour = n * Hour + Hour /\ m * Hour \in Int
      BY <3>4, HourStarts
    <3>6. D * Day = m * Hour
      BY <3>2, <3>3, <3>5
    <3>7. /\ m * Hour <= Local(now) /\ Local(now) < m * Hour + Hour /\ Local(now) \in Int
      BY <1>0, <3>4, HourFacts
    <3>8. /\ D * Day <= Local(now) /\ Local(now) < D * Day + Day
          /\ Local(now) - D * Day < Hour
      BY <3>2, <3>6, <3>7, HourFitsDay
    <3>9. DayOf(now) = D /\ Local(now) % Day < Hour
      BY <1>0, <3>8, IsDay
    <3>10. DayOf(now) - 1 = d
      BY <3>1, <3>9
    <3>11. hourly' = hourly
      BY <3>4 DEF AggregateDaily, SumUp
    <3>12. HoursOf(d) # {}
      BY <3>11 DEF HoursOf
    <3>13. SumUp(d, TRUE)
      BY <3>4, <3>9, <3>10 DEF AggregateDaily, SumUp
    <3>14. CASE d \notin DOMAIN daily
      <4>1. PICK v : daily' = AddRow(daily, d, v)
        BY <3>12, <3>13, <3>14 DEF SumUp
      <4>2. QED BY <4>1 DEF AddRow
    <3>15. QED BY <2>4, <3>14
  <2>7. n * Hour \in Int
    BY HourStarts
  <2>8. QED BY <1>00, <2>5, <2>6, <2>7
<1>3. QED BY <1>1, <1>2

-----------------------------------------------------------------------------
(* The theorems.                                                            *)

LEMMA DaysInitial == Init => TurnInv /\ DayRowsInv /\ DaySumInv
<1> SUFFICES ASSUME Init PROVE TurnInv /\ DayRowsInv /\ DaySumInv
  OBVIOUS
<1>1. DOMAIN daily = {} /\ ~up
  BY DEF Init
<1>2. QED BY <1>1 DEF TurnInv, DayRowsInv, DaySumInv

\* A step that changes nothing.
LEMMA Stutters ==
  ASSUME UNCHANGED vars
  PROVE  /\ RowsInv => RowsInv'
         /\ TurnInv => TurnInv'
         /\ DayRowsInv => DayRowsInv'
         /\ DaySumInv => DaySumInv'
<1> USE DEF vars, tables, timers, ghosts
<1>1. RowsInv => RowsInv'
  BY DEF RowsInv, Whole, IsOver, SamplesOf, Within, Local, HourOf
<1>2. NextHour' = NextHour /\ Summed' = Summed
  BY DEF NextHour, Summed, Local, HourOf
<1>3. TurnInv => TurnInv'
  BY <1>2 DEF TurnInv, HadItsTurn, SamplesOf, Local, HourOf
<1>4. DayRowsInv => DayRowsInv'
  BY <1>2 DEF DayRowsInv, HoursOf
<1>5. DaySumInv => DaySumInv'
  BY <1>2 DEF DaySumInv, HadItsSum, HoursOf, Local
<1>6. QED BY <1>1, <1>3, <1>4, <1>5

DaysInv == TimeInv /\ DayRowsInv /\ DaySumInv

LEMMA DaysInductive ==
  ASSUME DaysInv, [Next]_vars PROVE DaysInv'
<1>1. TimeInv'
  BY TimeInductive DEF DaysInv
<1>2. CASE Next
  BY <1>1, <1>2, DayRowsStep, DaySumStep DEF DaysInv
<1>3. CASE UNCHANGED vars
  BY <1>1, <1>3, Stutters DEF DaysInv
<1>4. QED BY <1>2, <1>3

\* DailyFromItsHours, wherever local time is: a day is summed up when none of
\* its hours is still to come, whatever restarts, failures and prunings do.
THEOREM DailyAggregates == Spec => []DailyFromItsHours
<1>1. Init => DaysInv
  BY TypesInitial, DaysInitial DEF DaysInv
<1>2. DaysInv /\ [Next]_vars => DaysInv'
  BY DaysInductive
<1>3. DaysInv => DailyFromItsHours
  BY DEF DaysInv, DayRowsInv, DailyFromItsHours
<1>4. QED BY <1>1, <1>2, <1>3, PTL DEF Spec

\* What the clock is past, the hourly tick has gone through.
LEMMA PastHour ==
  ASSUME TimeInv, up, ~edgy, NEW q \in Int, Local(now) > (q + 2) * Hour + MaxDelay
  PROVE  q < NextHour /\ q + 1 <= Summed
<1>0. now \in Int /\ aggregateDue \in Int /\ job.hour \in Int
  BY DEF TimeInv, Types
<1>1. PICK p \in Int : p = HourOf(aggregateDue)
  BY <1>0, HourFacts
<1>2. PICK u \in Int : u = q + 2
  OBVIOUS
<1>3. PICK w \in Int : w = q + 3
  OBVIOUS
<1>4. u * Hour \in Int /\ w * Hour = u * Hour + Hour /\ p * Hour \in Int
  <2>1. w = u + 1
    BY <1>2, <1>3
  <2>2. QED BY <2>1, HourStarts
<1>5. Local(now) > u * Hour + MaxDelay
  BY <1>2
<1>6. Local(aggregateDue) < p * Hour + Hour
  BY <1>0, <1>1, HourFacts
<1>7. PICK x \in Int, y \in Int : x = Local(now) /\ y = Local(aggregateDue)
                                  /\ x - now = y - aggregateDue
  BY <1>0, Lengths DEF Local
<1>8. CASE job.pc = "select"
  <2>1. now <= aggregateDue + MaxDelay
    BY <1>8 DEF TimeInv, Ticks
  <2>2. u * Hour < p * Hour + Hour
    BY <1>0, <1>4, <1>5, <1>6, <1>7, <2>1, Lengths
  <2>3. p < u => p * Hour + Hour <= u * Hour
    BY HourStarts
  <2>4. u <= p
    BY <1>4, <2>2, <2>3, Lengths
  <2>5. NextHour = p - 1 /\ Summed = p - 1
    BY <1>1, <1>8 DEF NextHour, Summed
  <2>6. QED BY <1>2, <2>4, <2>5
<1>9. CASE job.pc # "select"
  <2>1. now <= aggregateDue - Hour + MaxDelay
    BY <1>9 DEF TimeInv, Ticks
  <2>2. w * Hour < p * Hour + Hour
    BY <1>0, <1>4, <1>5, <1>6, <1>7, <2>1, Lengths
  <2>3. p < w => p * Hour + Hour <= w * Hour
    BY HourStarts
  <2>4. w * Hour \in Int
    BY HourStarts
  <2>5. w <= p
    BY <1>4, <2>2, <2>3, <2>4, Lengths
  <2>6. NextHour \in {p - 1, p - 2} /\ Summed = p - 2
    BY <1>1, <1>9 DEF NextHour, Summed, TimeInv, Types, Ticks
  <2>7. QED BY <1>3, <2>5, <2>6
<1>10. QED BY <1>8, <1>9

\* NothingForgotten, where local time is UTC: no hour and no day that the
\* server ran through is left out of the history before it is erased.
THEOREM HistoryComplete ==
  ASSUME Zone = 0 PROVE Spec => []NothingForgotten
<1> DEFINE Inv == DaysInv /\ TurnInv
<1>1. Init => Inv
  BY TypesInitial, DaysInitial DEF DaysInv
<1>2. Inv /\ [Next]_vars => Inv'
  <2> SUFFICES ASSUME Inv, [Next]_vars PROVE Inv'
    OBVIOUS
  <2>1. DaysInv'
    BY DaysInductive
  <2>2. CASE Next
    BY <2>1, <2>2, TurnStep DEF DaysInv
  <2>3. CASE UNCHANGED vars
    BY <2>1, <2>3, Stutters
  <2>4. QED BY <2>2, <2>3
<1>3. Inv => NothingForgotten
  <2> SUFFICES ASSUME Inv, up, ~edgy PROVE NothingForgotten
    BY DEF NothingForgotten
  <2>0. /\ now \in Int /\ upSince \in Int /\ HourOf(0) \in Int /\ DayOf(0) \in Int
        /\ HourOf(now) \in Int /\ DayOf(now) \in Int
    <3>1. now \in Int /\ upSince \in Int
      BY DEF DaysInv, TimeInv, Types
    <3>2. QED BY <3>1, HourFacts, DayFacts
  <2>1. ASSUME NEW h \in Int, Local(upSince) < (h + 1) * Hour,
               Local(now) > (h + 2) * Hour + MaxDelay,
               SamplesOf(h) # {}, h * Hour > Local(erased.aggregates)
        PROVE  h \in GetHistoricalMetrics(h * Hour, h * Hour, "hourly")
    <3>1. HourOf(upSince) <= h
      <4>1. PICK q \in Int, k \in Int : q = HourOf(upSince) /\ k = h + 1
        BY <2>0, HourFacts
      <4>2. q * Hour <= Local(upSince) /\ q * Hour \in Int /\ k * Hour \in Int /\ Local(upSince) \in Int
        BY <2>0, <4>1, HourFacts, HourStarts
      <4>3. k <= q => k * Hour <= q * Hour
        BY HourStarts
      <4>4. q < k
        BY <2>1, <4>1, <4>2, <4>3
      <4>5. QED BY <4>1, <4>4
    <3>2. h < NextHour
      BY <2>1, PastHour DEF DaysInv
    <3>3. h \in DOMAIN hourly
      BY <2>1, <3>1, <3>2 DEF TurnInv, HadItsTurn
    <3>4. h * Hour <= h * Hour
      BY HourStarts
    <3>5. QED BY <3>3, <3>4 DEF GetHistoricalMetrics
  <2>2. ASSUME NEW d \in Int, Local(upSince) < (d + 1) * Day,
               Local(now) > (d + 1) * Day + Hour + MaxDelay,
               HoursOf(d) # {}, d * Day > Local(erased.aggregates)
        PROVE  d \in GetHistoricalMetrics(d * Day, d * Day, "daily")
    <3>1. PICK D \in Int : D = d + 1
      BY <2>2
    <3>2. PICK r \in Int : D * Day = r * Hour
      BY DayAtHour
    <3>3. PICK q \in Int, s \in Int : q = r - 1 /\ s = q + 2
      BY <3>2
    <3>4. s * Hour = r * Hour + Hour
      <4>1. s = r + 1
        BY <3>3
      <4>2. QED BY <4>1, HourStarts
    <3>5. Local(now) > (q + 2) * Hour + MaxDelay
      BY <2>2, <3>1, <3>2, <3>3, <3>4
    <3>6. r <= Summed /\ Summed \in Int
      <4>1. q + 1 <= Summed
        BY <3>5, PastHour DEF DaysInv
      <4>2. aggregateDue \in Int
        BY DEF DaysInv, TimeInv, Types
      <4>3. Summed \in Int
        BY <4>2, HourFacts DEF Summed
      <4>4. QED BY <3>3, <4>1, <4>3
    <3>7. D * Day <= Summed * Hour
      BY <3>2, <3>6, HourStarts
    <3>8. d \in DOMAIN daily
      BY <2>2, <3>1, <3>7 DEF DaysInv, DaySumInv, HadItsSum
    <3>9. d * Day <= d * Day
      BY DayStarts
    <3>10. QED BY <3>8, <3>9 DEF GetHistoricalMetrics
  <2>3. QED BY <2>0, <2>1, <2>2 DEF NothingForgotten
<1>4. QED BY <1>1, <1>2, <1>3, PTL DEF Spec
=============================================================================
