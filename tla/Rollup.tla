------------------------------- MODULE Rollup -------------------------------
(***************************************************************************)
(* What readers are told of the uptime table: query_history,               *)
(* query_capability_sli and query_vantage (src/history.rs), as functions   *)
(* of the rows.  Percentages are whole tenths, as round1 leaves them.      *)
(***************************************************************************)
EXTENDS History, FiniteSetsExt

CONSTANTS
  Capabilities  \* the capabilities: [members, min]

\* CapabilitySpec: some names, and how many of them are needed.
ASSUME CapabilityAssumption ==
  \A spec \in Capabilities : IsFiniteSet(spec.members) /\ spec.min \in Nat

Day(ts) == ts \div PerDay
\* round1 of a quotient of naturals, the halves upwards
Rounded(a, b) == (2 * a + b) \div (2 * b)

\* The rows a query over some days reads, at the moment.
Window(days) == {r \in checks : r.ts + days * PerDay >= now}
OnDay(R, d) == {r \in R : Day(r.ts) = d}
Observations(R) == {r \in R : r.service = "observation"}
Samples(R) == R \ Observations(R)
Series(r) == <<r.region, r.service, r.provider>>
\* A poll has one sample of each: a service reports about a provider once, a shared
\* provider is merged (cross_region), and our own network is nobody else's series.
ASSUME SeriesAssumption ==
  \A seen \in Outcomes : \A x, y \in seen \union {Network("operational")} :
    Series(x) = Series(y) => x = y
SeriesOf(R) == {Series(r) : r \in Samples(R)}
Of(R, s) == {r \in Samples(R) : Series(r) = s}
Up(R) == {r \in R : r.status = "operational"}

-----------------------------------------------------------------------------
(* The figures of a day, from the rows of the window that fall on it.      *)

Uptime(R) == Rounded(1000 * Cardinality(Up(R)), Cardinality(R))
\* mean_uptime of some of the series
Mean(R, S) ==
  IF S = {} THEN 1000 ELSE Rounded(MapThenSumSet(LAMBDA s : Uptime(Of(R, s)), S), Cardinality(S))

\* query_capability_sli: of the instants with a row of a member, those with enough
\* members operational, each counted once.
Polled(R, spec) == {r.ts : r \in {q \in Samples(R) : q.provider \in spec.members}}
Serving(R, spec, t) ==
  {r.provider : r \in {q \in Up(Samples(R)) : q.provider \in spec.members /\ q.ts = t}}
Enough(spec) == IF spec.min = 0 THEN 1 ELSE spec.min
\* Fault for testing SliIsEarned: the rows are counted, not the members.
AvailableRows(R, spec) ==
  {t \in Polled(R, spec) :
     Cardinality({r \in Up(Samples(R)) : r.provider \in spec.members /\ r.ts = t}) >= Enough(spec)}
Available(R, spec) == {t \in Polled(R, spec) : Cardinality(Serving(R, spec, t)) >= Enough(spec)}
Sli(R, spec) == Rounded(1000 * Cardinality(Available(R, spec)), Cardinality(Polled(R, spec)))
Measured(R) == {spec \in Capabilities : Polled(R, spec) # {}}

\* singleton_worst: what no pool stands for, save our own network.
Pooled == UNION {spec.members : spec \in Capabilities}
Singles(R) == {s \in SeriesOf(R) : s[3] \notin Pooled /\ s[3] # "network"}
\* Fault for testing FullUptimeIsEarned: only the pools count.
WorstPool(R) == {Sli(R, spec) : spec \in Measured(R)}
Worst(R) == {Sli(R, spec) : spec \in Measured(R)} \union {Uptime(Of(R, s)) : s \in Singles(R)}
ServiceUptime(R) ==
  IF Worst(R) = {} THEN Mean(R, SeriesOf(R)) ELSE CHOOSE n \in Worst(R) : \A m \in Worst(R) : n <= m
\* day_status
DayStatus(pct) ==
  CASE pct >= 999 -> "operational"
    [] pct \in 950 .. 998 -> "degraded"
    [] OTHER -> "outage"
\* query_history, a day of it: HistoryDay
Figures(R) ==
  LET overall == Mean(R, SeriesOf(R))
  IN [services |-> [s \in SeriesOf(R) |-> Uptime(Of(R, s))],
      regions |-> [g \in {s[1] : s \in SeriesOf(R)} |-> Mean(R, {s \in SeriesOf(R) : s[1] = g})],
      overall |-> overall,
      capabilities |-> [spec \in Measured(R) |-> Sli(R, spec)],
      service |-> ServiceUptime(R),
      status |-> DayStatus(overall)]
\* The rows the figures of day d are computed from.
RowsOf(d, days) == OnDay(Window(days), d)

-----------------------------------------------------------------------------
(* Incidents: an outage whose previous sample in the window, whenever that *)
(* was, is not one (LAG over the series).                                  *)

Earlier(q, r) == q.ts < r.ts \/ (q.ts = r.ts /\ q.poll < r.poll)
\* Fault for testing OneFailureOneIncident: the samples of a day are looked at apart.
NewToday(R, r) ==
  LET before == {q \in Of(R, Series(r)) : Earlier(q, r) /\ Day(q.ts) = Day(r.ts)}
  IN \A p \in before : (\A q \in before : ~Earlier(p, q)) => p.status # "outage"
New(R, r) ==
  LET before == {q \in Of(R, Series(r)) : Earlier(q, r)}
  IN \A p \in before : (\A q \in before : ~Earlier(p, q)) => p.status # "outage"
Incidents(R, s) == {r \in Of(R, s) : r.status = "outage" /\ New(R, r)}

-----------------------------------------------------------------------------
(* query_vantage: the views of the regions, which count for nothing else.  *)

Views(R, p, t) == {r \in Observations(R) : r.provider = p /\ r.ts = t}
Split(R, p, t) == Cardinality({r.status : r \in Views(R, p, t)}) > 1
Disagreements(R, p) == {t \in {r.ts : r \in Observations(R)} : Split(R, p, t)}
\* Fault for testing DissentIsReal: every failing view dissents.
DissentAll(R, p, g) ==
  {r \in Observations(R) : r.provider = p /\ r.region = g /\ r.status # "operational"}
Dissent(R, p, g) ==
  {r \in Observations(R) :
     r.provider = p /\ r.region = g /\ r.status # "operational" /\ Split(R, p, r.ts)}

-----------------------------------------------------------------------------
(* Properties.                                                             *)

Days == 0 .. Day(MaxNow)
\* A day this version recorded from its beginning, over, wholly in the window, and
\* not waiting for the rows of a poll that began before midnight.
Finished(d, days) ==
  /\ Deployed <= d * PerDay /\ d < Day(now)
  /\ d * PerDay + days * PerDay >= now
  /\ pc = "polling" => Day(stamp) # d

(* The rows behind the published figures of a finished day do not change   *)
(* any more while the day is in the window a reader asks for: not by later *)
(* polls, nor by restarts with their repairs and pruning.                  *)
FinishedDaysStand ==
  [][\A days \in 1 .. MaxWindow : \A d \in Days :
       (Finished(d, days) /\ Finished(d, days)') => RowsOf(d, days)' = RowsOf(d, days)]_vars

Tells(t, s) == \E x \in t.seen : Series(x) = s
Out(t, s) == \E x \in t.seen : Series(x) = s /\ x.status = "outage"
\* The polls that found s out when the last word about s was another.
Onsets(s) ==
  {t \in took : /\ Out(t, s)
                /\ ~\E u \in took : /\ u.poll < t.poll /\ Out(u, s)
                                    /\ ~\E v \in took : v.poll \in u.poll + 1 .. t.poll - 1 /\ Tells(v, s)}

(* One failure is one incident, however many polls, blind laps, midnights, *)
(* restarts and lost rows fall into it, though it may have begun before    *)
(* the window did ("counts INCIDENTS, not polls", query_history).          *)
OneFailureOneIncident ==
  \A days \in 1 .. MaxWindow : \A s \in SeriesOf({r \in checks : r.poll > 0}) :
    LET W == Window(days)
        ofOurs == {r \in Incidents(W, s) : r.poll > 0}
        inside == {t \in Onsets(s) : t.ts + days * PerDay >= now}
    IN /\ Cardinality(ofOurs) <= Cardinality(inside) + 1
       /\ Cardinality(ofOurs) <= Cardinality(Onsets(s))
       /\ (\E r \in Of(W, s) : r.status = "outage") => Incidents(W, s) # {}

\* Did enough members of spec serve in the second t?
ServedAt(spec, t) ==
  Cardinality({x.provider : x \in {y \in UNION {u.seen : u \in {v \in took : v.ts = t}} :
                 y.service # "observation" /\ y.provider \in spec.members /\ y.status = "operational"}})
    >= Enough(spec)
Complete(d) == \A t \in took : Day(t.ts) = d => Cardinality(t.stored) = Cardinality(t.seen)

(* An instant counts as available only if enough different members served, *)
(* and counts against the capability only if they did not or a row of it   *)
(* was lost ("Counting rows let available exceed the member count",        *)
(* query_capability_sli).                                                  *)
SliIsEarned ==
  \A spec \in Capabilities : \A d \in {e \in Days : Deployed <= e * PerDay} :
    LET R == RowsOf(d, MaxWindow)
    IN \A t \in Polled(R, spec) :
         /\ t \in Available(R, spec) => ServedAt(spec, t)
         /\ Complete(d) /\ ServedAt(spec, t) => t \in Available(R, spec)

(* A vantage is held to dissent on a provider only for instants at which   *)
(* another vantage, or another lap of the same second, really saw it       *)
(* otherwise, and every disagreement names at least one dissenter ("a      *)
(* universally-agreed outage reported one dissent per observer per         *)
(* sample", query_vantage).                                                *)
DissentIsReal ==
  LET R == Observations(Window(MaxWindow))
      regions == {r.region : r \in R}
      \* another view of what x is about: another vantage's, or another lap's
      other(x, u, y) ==
        /\ y.service = "observation" /\ y.provider = x.provider
        /\ u.poll # x.poll \/ y.region # x.region
  IN \A p \in {r.provider : r \in {q \in R : q.poll > 0}} :
       /\ \A g \in regions : \A x \in Dissent(R, p, g) :
            x.poll > 0 => \E u \in {v \in took : v.ts = x.ts} : \E y \in u.seen :
                            other(x, u, y) /\ y.status # x.status
       /\ Cardinality(Disagreements(R, p)) <= Cardinality(UNION {Dissent(R, p, g) : g \in regions})

(* A day is published with full service uptime only if each pool had       *)
(* enough members at every instant, and nothing outside the pools was ever *)
(* found wrong, or so rarely, once in two thousand samples, that rounding  *)
(* hides it ("a day with a regional outage could report 100% service       *)
(* uptime while its own status said otherwise", query_history).            *)
FullUptimeIsEarned ==
  \A d \in {e \in Days : Deployed <= e * PerDay} :
    LET R == RowsOf(d, MaxWindow)
    IN (R # {} /\ ServiceUptime(R) = 1000) =>
         /\ \A spec \in Capabilities :
              2000 * Cardinality(Polled(R, spec) \ Available(R, spec)) <= Cardinality(Polled(R, spec))
         /\ \A r \in Samples(R) : r.provider \notin Pooled \union {"network"} =>
              2000 * Cardinality({q \in Of(R, Series(r)) : q.status # "operational"})
                <= Cardinality(Of(R, Series(r)))
=============================================================================
