------------------------------- MODULE Metrics --------------------------------
(***************************************************************************)
(* The history of the metrics: the three loops of the collector, the       *)
(* requests that prune it, and restarts of the server.                      *)
(*                                                                          *)
(* Time is counted in intervals of the collection.  A raw row carries the   *)
(* UTC time SQLite gives it; every time the program passes to a query is a  *)
(* local one, or one in a client's zone, and SQLite compares them as texts. *)
(* An aggregate is the set of samples it was computed from, twice: the row  *)
(* that averages and counts them is read before the rows of the network     *)
(* totals.  The rows of docker_metrics, stored and deleted like raw ones    *)
(* and never aggregated, are left out.                                      *)
(***************************************************************************)
EXTENDS Integers, FiniteSets, Functions

CONSTANTS Hour,       \* intervals of collection in an hour
          Day,        \* intervals in a day
          Zone,       \* local time less UTC
          ClientZones,\* that of the clients who prune
          RawDays,    \* GetRetentionDays
          HourlyDays, \* GetHourlyRetentionDays
          DailyDays,  \* GetDailyRetentionDays
          MaxDelay,   \* bound: how late the work of an hourly tick may end
          MaxTime,    \* bound: the last moment
          MaxUpsets   \* bound: ends of the server, failed collections and prunings

ASSUME MetricsAssumption ==
  /\ {Hour, Day, RawDays, HourlyDays, DailyDays} \subseteq Nat \ {0}
  /\ Day % Hour = 0 /\ {Zone} \cup ClientZones \subseteq Int /\ MaxDelay \in 0..Hour
  /\ {MaxTime, MaxUpsets} \subseteq Nat

VARIABLES
  now,         \* the clock, UTC
  up, upSince, \* does the server run, and since when
  raw,         \* system_metrics: the times of its rows
  hourly,      \* system_metrics_hourly: hourly[h] of the hour h
  daily,       \* system_metrics_daily: daily[d] of the day d
  collectDue, cleanupDue, aggregateDue,  \* the next tick of each loop
  job,         \* where aggregateLoop is, and the row it is making
  prune,       \* the request that prunes: the table it is at, and its bound as it reads
  upsets,      \* what MaxUpsets bounds
  erased,      \* ghost: samples and aggregates have been kept since then
  edgy         \* ghost: has a start put the hourly tick at the end of an hour

tables == <<raw, hourly, daily>>
timers == <<collectDue, cleanupDue, aggregateDue>>
ghosts == <<erased, edgy>>
vars == <<now, up, upSince, tables, timers, job, prune, upsets, ghosts>>

Local(t) == t + Zone
HourOf(t) == Local(t) \div Hour
DayOf(t) == Local(t) \div Day
Idle == [pc |-> "select", hour |-> 0, stats |-> {}]
NoPrune == [at |-> "none", before |-> 0]

\* Mutant of RowsOf: the query has no upper bound.
MutRowsOfOpen(h) == {t \in raw : h * Hour < t}

(* The rows of raw with hourStart <= timestamp < hourEnd: a local text with *)
(* its zone is longer than the UTC text of the same reading, so a row of    *)
(* the first moment of an hour falls into the hour before.                  *)
RowsOf(h) == {t \in raw : h * Hour < t /\ t <= (h + 1) * Hour}
HoursOf(d) == {h \in DOMAIN hourly : (h * Hour) \div Day = d}
AddRow(f, k, v) == [x \in DOMAIN f \cup {k} |-> IF x = k THEN v ELSE f[x]]

(* What a request for the history is answered: the times of the rows.      *)
GetHistoricalMetrics(from, to, resolution) ==
  CASE resolution = "hourly" -> {h \in DOMAIN hourly : from <= h * Hour /\ h * Hour <= to}
    [] resolution = "daily" -> {d \in DOMAIN daily : from <= d * Day /\ d * Day <= to}
    [] OTHER -> {t \in raw : from < t /\ t <= to}

Init ==
  /\ now = Day /\ up = FALSE /\ upSince = 0
  /\ raw = {} /\ hourly = <<>> /\ daily = <<>>
  /\ collectDue = 0 /\ cleanupDue = 0 /\ aggregateDue = 0
  /\ job = Idle /\ prune = NoPrune
  /\ upsets = 0
  /\ erased = [samples |-> 0, aggregates |-> 0] /\ edgy = FALSE

-----------------------------------------------------------------------------
Upset == upsets < MaxUpsets /\ upsets' = upsets + 1

Start ==
  /\ ~up
  /\ up' = TRUE /\ upSince' = now
  /\ collectDue' = now /\ cleanupDue' = now /\ aggregateDue' = now + Hour
  /\ edgy' = (edgy \/ (Local(now) % Hour) + MaxDelay >= Hour)
  /\ UNCHANGED <<now, tables, job, prune, upsets, erased>>

(* A start takes the program past the moment of its end.                   *)
Stop ==
  /\ up /\ now < MaxTime /\ Upset
  /\ up' = FALSE /\ now' = now + 1
  /\ job' = Idle /\ prune' = NoPrune
  /\ UNCHANGED <<upSince, tables, timers, ghosts>>

(* The clock waits for what is due.                                        *)
Pending ==
  \/ collectDue <= now \/ cleanupDue <= now
  \/ job.pc = "select" /\ aggregateDue + MaxDelay <= now
  \/ job.pc # "select" /\ aggregateDue - Hour + MaxDelay <= now
Tick ==
  /\ now < MaxTime /\ ~(up /\ Pending)
  /\ now' = now + 1
  /\ UNCHANGED <<up, upSince, tables, timers, job, prune, upsets, ghosts>>

(* A sample that cannot be read or stored is skipped.                      *)
Collect ==
  /\ up /\ collectDue <= now
  /\ collectDue' = now + 1
  /\ \/ raw' = raw \cup {now} /\ UNCHANGED upsets
     \/ Upset /\ UNCHANGED raw
  /\ UNCHANGED <<now, up, upSince, hourly, daily, cleanupDue, aggregateDue, job,
                 prune, ghosts>>

Kept(rows, before) == {t \in rows : t > before}
KeptAggregates(f, length, before) ==
  LET kept == {k \in DOMAIN f : k * length >= before} IN [k \in kept |-> f[k]]
Later(s, t) == IF s > t THEN s ELSE t
Erase(samples, aggregates) ==
  erased' = [samples |-> Later(samples, erased.samples),
             aggregates |-> Later(aggregates, erased.aggregates)]

(* The bounds of a sweep have a fraction of a second, those of a request    *)
(* do not.                                                                  *)
Cleanup ==
  /\ up /\ cleanupDue <= now
  /\ cleanupDue' = now + Day
  /\ raw' = Kept(raw, Local(now) - RawDays * Day)
  /\ hourly' = KeptAggregates(hourly, Hour, Local(now) - HourlyDays * Day + 1)
  /\ daily' = KeptAggregates(daily, Day, Local(now) - DailyDays * Day + 1)
  /\ Erase(now - RawDays * Day,
           Later(now - HourlyDays * Day, now - DailyDays * Day))
  /\ UNCHANGED <<now, up, upSince, collectDue, aggregateDue, job, prune, upsets, edgy>>

-----------------------------------------------------------------------------
(* aggregateHourly on its tick: the clock is read, the row is looked for,  *)
(* the samples of the hour before are averaged and counted.                 *)
AggregateHourly ==
  LET h == HourOf(now) - 1 IN
  /\ up /\ job.pc = "select" /\ aggregateDue <= now
  /\ aggregateDue' = aggregateDue + Hour
  /\ job' = IF h \in DOMAIN hourly \/ RowsOf(h) = {}
            THEN [Idle EXCEPT !.pc = "midnight"]
            ELSE [pc |-> "network", hour |-> h, stats |-> RowsOf(h)]
  /\ UNCHANGED <<now, up, upSince, tables, collectDue, cleanupDue, prune, upsets, ghosts>>

(* The network totals are summed from the rows there are now, and the row  *)
(* of the hour is stored.                                                   *)
StoreHourly ==
  /\ up /\ job.pc = "network"
  /\ hourly' = AddRow(hourly, job.hour, [stats |-> job.stats, network |-> RowsOf(job.hour)])
  /\ job' = [Idle EXCEPT !.pc = "midnight"]
  /\ UNCHANGED <<now, up, upSince, raw, daily, timers, prune, upsets, ghosts>>

(* The row of a day, made once from those of its hours.                    *)
SumUp(d, when) ==
  /\ up /\ job.pc = "midnight"
  /\ job' = Idle
  /\ daily' = IF when /\ d \notin DOMAIN daily /\ HoursOf(d) # {}
              THEN AddRow(daily, d, UNION {hourly[h].stats : h \in HoursOf(d)})
              ELSE daily
  /\ UNCHANGED <<now, up, upSince, raw, hourly, timers, prune, upsets, ghosts>>
\* Mutants of AggregateDaily: it sums up the day that is not over, or only at
\* the very start of a day.
MutDailyToday == SumUp(DayOf(now), TRUE)
MutDailyAtMidnight == SumUp(DayOf(now) - 1, Local(now) % Day = 0)

(* The clock is read again: in the first hour of a day, the day before is  *)
(* summed up.                                                               *)
AggregateDaily == SumUp(DayOf(now) - 1, Local(now) % Day < Hour)

-----------------------------------------------------------------------------
(* A request to prune deletes from one table after the other; what it has  *)
(* deleted stays deleted when it fails or the server stops.  Its bound is a *)
(* time in the zone of the client, which the texts of the tables are        *)
(* compared with as it reads; an aggregate of that very reading goes or     *)
(* stays by the zone that ends the text.                                    *)
PruneMetrics ==
  /\ up /\ prune.at = "none" /\ Upset
  /\ \E before \in 0..now, zone \in ClientZones :
       LET b == before + zone IN
       /\ raw' = Kept(raw, b)
       /\ \E edge \in IF zone = Zone THEN {b} ELSE {b, b + 1} :
            prune' = [at |-> "hourly", before |-> edge]
       /\ Erase(IF b < now THEN b ELSE now, b - Zone)
  /\ UNCHANGED <<now, up, upSince, hourly, daily, timers, job, edgy>>

PruneAggregates ==
  /\ up
  /\ \/ /\ prune.at = "hourly" /\ prune' = [prune EXCEPT !.at = "daily"]
        /\ hourly' = KeptAggregates(hourly, Hour, prune.before) /\ UNCHANGED daily
     \/ /\ prune.at = "daily" /\ prune' = NoPrune
        /\ daily' = KeptAggregates(daily, Day, prune.before) /\ UNCHANGED hourly
     \/ /\ prune.at # "none" /\ prune' = NoPrune /\ UNCHANGED <<hourly, daily>>
  /\ UNCHANGED <<now, up, upSince, raw, timers, job, upsets, ghosts>>

Next ==
  \/ Start \/ Stop \/ Tick \/ Collect \/ Cleanup
  \/ AggregateHourly \/ StoreHourly \/ AggregateDaily
  \/ PruneMetrics \/ PruneAggregates

Spec == Init /\ [][Next]_vars

-----------------------------------------------------------------------------
(* The samples taken strictly within an hour and kept since.               *)
SamplesOf(h) == {t \in raw : HourOf(t) = h /\ Local(t) % Hour # 0 /\ t > erased.samples}

(* The aggregate of an hour is made of samples of that hour, all that were *)
(* kept: not of a part of an hour that was not over, nor of averages and    *)
(* network totals of different samples.                                     *)
HourlyFromItsHour ==
  \A h \in DOMAIN hourly :
    /\ SamplesOf(h) \subseteq hourly[h].stats \cap hourly[h].network
    /\ \A t \in hourly[h].stats \cup hourly[h].network :
         HourOf(t) = h \/ Local(t) = (h + 1) * Hour

(* The aggregate of a day leaves out no hour that has an aggregate.        *)
DailyFromItsHours ==
  ~edgy => \A d \in DOMAIN daily : \A h \in HoursOf(d) :
             h * Hour > Local(erased.aggregates) => hourly[h].stats \subseteq daily[d]

(* While the server runs through the end of an hour and the hour after it, *)
(* the history has that hour; while it runs through midnight and the first  *)
(* hour, the history has the day.  After a start in the last moments of an  *)
(* hour (edgy) neither is so: the tick that comes late reads the clock of   *)
(* the next hour.                                                           *)
NothingForgotten ==
  LET running(t) == up /\ ~edgy /\ Local(upSince) < t IN
  /\ \A h \in HourOf(0)..HourOf(now) :
       /\ running((h + 1) * Hour) /\ Local(now) > (h + 2) * Hour + MaxDelay
       /\ SamplesOf(h) # {} /\ h * Hour > Local(erased.aggregates)
       => h \in GetHistoricalMetrics(h * Hour, h * Hour, "hourly")
  /\ \A d \in DayOf(0)..DayOf(now) :
       /\ running((d + 1) * Day) /\ Local(now) > (d + 1) * Day + Hour + MaxDelay
       /\ HoursOf(d) # {} /\ d * Day > Local(erased.aggregates)
       => d \in GetHistoricalMetrics(d * Day, d * Day, "daily")
=============================================================================
