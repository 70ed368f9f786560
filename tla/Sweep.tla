------------------------------- MODULE Sweep -------------------------------
(***************************************************************************)
(* One lap of the probe sweep: Cycle in src/probe.rs asks every target     *)
(* once, a few at a time, into a memo that lives for the lap; poll_once in *)
(* src/history.rs reads the memo to write uptime rows; aggregated_status   *)
(* in src/aggregate.rs reads it to build the snapshot that is served.  The *)
(* world changes while this goes on.  What a snapshot holds is kept in the *)
(* form aggregate::flatten gives it: a map from component to status.       *)
(***************************************************************************)
EXTENDS Naturals, Sequences, FiniteSets

CONSTANTS
  Jobs,          \* the configured targets, in the order prefetch starts them
  Region,        \* the baked regions, probed or not
  Id,            \* what a service can report about
  Kind,          \* the type it declares for each, or "none"
  KnownLlm, KnownSearch, \* the ids sorted by name when no type is declared
  Reports,       \* for each memo key, what the service behind it reports about
  Identity,      \* the identity providers among them
  Member,        \* the declared pool
  Primary,       \* its primary member
  MinAvailable,  \* how many members the pool needs
  MinForVerdict, \* probe::MIN_FOR_VERDICT
  Concurrency,   \* probe::PREFETCH_CONCURRENCY
  Vocabulary,    \* bound: for each memo key, the statuses its reports may give
  MaxChanges,    \* bound: changes of the world
  MaxLaps        \* bound: laps

Class == {"billing", "proxy", "infra", "auth", "external", "local"}
Target == {Jobs[i] : i \in DOMAIN Jobs}
Key == {t.key : t \in Target}

ASSUME TargetAssumption ==
  /\ Jobs \in Seq(Target)
  /\ \A i, j \in DOMAIN Jobs : Jobs[i] = Jobs[j] => i = j
  /\ \A t \in Target : t.class \in Class
  /\ IsFiniteSet(Region) /\ Region \intersect {"global", "lens"} = {}
  /\ \A t \in Target : t.class \in {"billing", "proxy"} => t.at \in Region
  \* REGION_SPECS: a region has one billing and one proxy, a host one region.
  /\ \A t, u \in Target :
       t.class \in {"billing", "proxy", "infra"} /\ u.class = t.class /\ u.at = t.at => t = u
  /\ Kind \in [Id -> {"llm", "search", "internal", "none"}]
  /\ KnownLlm \subseteq Id /\ KnownSearch \subseteq Id \ KnownLlm
  /\ Reports \in [Key -> SUBSET Id]
  /\ "postgresql" \in Id /\ Identity \subseteq Id /\ Member \subseteq Id /\ Primary \in Member
  /\ IsFiniteSet(Member)
ASSUME BoundAssumption ==
  /\ MinAvailable \in Nat \ {0} /\ MinForVerdict \in Nat /\ Concurrency \in Nat \ {0}
  /\ MaxChanges \in Nat /\ MaxLaps \in Nat

VARIABLES
  world,    \* what each key would answer now
  pc,       \* "idle", "prefetching", "warm" or "recorded"
  next,     \* the next job prefetch starts
  inflight, \* the keys being asked by started jobs
  memo,     \* the answers of this lap
  dbOpen,   \* is there a store to record into?
  rows,     \* the uptime rows this lap wrote
  snapshot, \* the last snapshot built
  heard,    \* the answers each sweep of the lap rested on (history variable)
  during,   \* all that each key would have answered this lap (history variable)
  changes, laps \* the bounded counters

vars == <<world, pc, next, inflight, memo, dbOpen, rows, snapshot, heard, during,
          changes, laps>>

Absent == "absent"
Mute == [p \in Id |-> Absent]
NoAnswer == [net |-> "unasked", says |-> Mute]
Sayings(k) ==
  {[p \in Id |-> IF p \in Reports[k] THEN s[p] ELSE Absent] : s \in [Reports[k] -> Vocabulary[k]]}
\* All that may be said.  Any word is passed on, ranked by the code or not.
Said == UNION {Vocabulary[k] : k \in Key}

\* Nothing, an answer the probe's own rule refuses, or a body, late or in time.
Answers(k) ==
  [net : {"silent", "error"}, says : {Mute}] \union [net : {"slow", "fast"}, says : Sayings(k)]
Well(k) == [net |-> "fast", says |-> [p \in Id |-> IF p \in Reports[k] THEN "operational" ELSE Absent]]
Gone == [net |-> "silent", says |-> Mute]

-----------------------------------------------------------------------------
(* Maps: what f tells, and what only g tells (TLC's own operators for this *)
(* have no definition the proofs can use).                                 *)
f \oplus g == [c \in DOMAIN f \union DOMAIN g |-> IF c \in DOMAIN f THEN f[c] ELSE g[c]]
Entry(c, s) == [x \in {c} |-> s]

-----------------------------------------------------------------------------
(* Statuses.                                                               *)

Severity(s) ==
  CASE s \in {"degraded", "degraded_performance"} -> 1
    [] s \in {"outage", "partial_outage", "major_outage"} -> 2
    [] OTHER -> 0

Ranked == <<"operational", "degraded", "outage">>
MaxOf(S) == CHOOSE n \in S : \A m \in S : m <= n
Worst(S) == IF S = {} THEN "unknown" ELSE Ranked[1 + MaxOf({Severity(s) : s \in S})]

\* aggregate::leak_status keeps `unknown'; history::leak does not.
Leak(s) == IF s = "unknown" THEN s ELSE Ranked[1 + Severity(s)]
LeakRow(s) == Ranked[1 + Severity(s)]

\* The transport verdict on one answer.
Verdict(a) ==
  CASE a.net = "silent" -> "outage"
    [] a.net = "fast" -> "operational"
    [] OTHER -> "degraded"

\* probe::is_vantage_failure
Blind(h) ==
  /\ Cardinality(DOMAIN h) >= MinForVerdict
  /\ \A t \in DOMAIN h : h[t].net = "silent"

-----------------------------------------------------------------------------
(* What the services report.                                               *)

\* is_shared_llm, is_shared_search
Bucket(p) ==
  CASE Kind[p] # "none" -> Kind[p]
    [] Kind[p] = "none" /\ p \in KnownLlm -> "llm"
    [] Kind[p] = "none" /\ p \in KnownSearch -> "search"
    [] OTHER -> "internal"

\* Fault for testing HeadlineIsEarned: what no pool declares is indispensable.
RelationTwoWay(p) == IF p \in Member THEN "pooled" ELSE "indispensable"

\* capability::relation
Relation(p) ==
  CASE p \in Member -> "pooled"
    [] Kind[p] \in {"llm", "search"} -> "informational"
    [] OTHER -> "indispensable"

\* The jobs of a class that report on p, in the order they are folded.
Tellers(h, class, p) ==
  {i \in DOMAIN Jobs : Jobs[i].class = class /\ h[Jobs[i]].says[p] # Absent}

\* Fault for testing EveryReportShows: a plain insert, the last region wins.
MergeLast(h, class, p) ==
  LET T == Tellers(h, class, p)
  IN h[Jobs[CHOOSE i \in T : \A j \in T : j <= i]].says[p]

\* merge_worst: the first of the most severe.
MergeWorst(h, class, p) ==
  LET said(i) == h[Jobs[i]].says[p]
      T == Tellers(h, class, p)
  IN said(CHOOSE i \in T : \A j \in T :
            \/ Severity(said(j)) < Severity(said(i))
            \/ Severity(said(j)) = Severity(said(i)) /\ i <= j)

\* service_status_excluding_pools
ServiceVerdict(a) ==
  LET own == Verdict(a)
      deps == {a.says[p] : p \in {q \in Id : a.says[q] # Absent /\ Relation(q) = "indispensable"}}
      worse == {s \in deps : Severity(s) > Severity(own)}
  IN IF worse = {} THEN own
     ELSE Leak(CHOOSE s \in worse : \A u \in worse : Severity(u) <= Severity(s))

\* What some proxy reports of the given buckets.
Told(h, buckets) ==
  {p \in Id : Bucket(p) \in buckets /\ Tellers(h, "proxy", p) # {}}

-----------------------------------------------------------------------------
(* The snapshot: aggregated_status, then flatten.                          *)

OfClass(class) == {t \in Target : t.class = class}
Answered(h, t, p) == h[t].says[p] # Absent

Services(h) ==
  [c \in {<<"service", t.at, t.class>> : t \in OfClass("billing") \union OfClass("proxy")} |->
     ServiceVerdict(h[CHOOSE t \in Target : t.class = c[3] /\ t.at = c[2]])]
Infra(h) ==
  [c \in {<<"infra", t.at>> : t \in OfClass("infra")} |->
     Verdict(h[CHOOSE t \in OfClass("infra") : t.at = c[2]])]
Llm(h) == [c \in {<<"llm", p>> : p \in Told(h, {"llm"})} |-> MergeWorst(h, "proxy", c[2])]
Database(h) ==
  LET own == {t \in OfClass("local") : t.at = "postgresql"}
      told == {t \in OfClass("billing") : Answered(h, t, "postgresql")}
  IN [c \in {<<"db", "lens">> : t \in own} |-> Verdict(h[CHOOSE t \in own : TRUE])]
       \oplus [c \in {<<"db", t.at>> : t \in told} |->
             h[CHOOSE t \in told : t.at = c[2]].says["postgresql"]]

\* Our own probe of an identity provider, or else what billing says of it.
DirectAuth == {t.at : t \in OfClass("auth")}
Auth(h) ==
  LET direct == [c \in {<<"auth", t.at>> : t \in OfClass("auth")} |->
                   Verdict(h[CHOOSE t \in OfClass("auth") : t.at = c[2]])]
      told == [c \in {<<"auth", p>> : p \in {q \in Identity \ DirectAuth : Tellers(h, "billing", q) # {}}} |->
                 MergeWorst(h, "billing", c[2])]
  IN direct \oplus told

\* What we probe ourselves beside the services, the hosts and the identity providers.
Probed == OfClass("external") \union {t \in OfClass("local") : t.at # "postgresql"}

\* Search providers, the services' regional dependencies, and direct probes.
\* A dependency billing and proxy both report has the proxy's word.
Internal(h) ==
  LET search == [c \in {<<"internal", p>> : p \in Told(h, {"search"})} |->
                   MergeWorst(h, "proxy", c[2])]
      ofProxy == {x \in OfClass("proxy") \X Id :
                    Answered(h, x[1], x[2]) /\ Bucket(x[2]) = "internal"}
      ofBilling == {x \in OfClass("billing") \X Id :
                      Answered(h, x[1], x[2]) /\ x[2] \notin Identity \union {"postgresql"}}
      dep(S) == [c \in {<<"internal", x[1].at, x[2]>> : x \in S} |->
                   LET x == CHOOSE y \in S : y[1].at = c[2] /\ y[2] = c[3]
                   IN h[x[1]].says[x[2]]]
      direct == [c \in {<<"internal", t.at>> : t \in Probed} |->
                   Verdict(h[CHOOSE t \in Probed : t.at = c[2]])]
  IN direct \oplus dep(ofProxy) \oplus dep(ofBilling) \oplus search

\* capability::roll_up
Observed(h, p) ==
  LET llm == Llm(h)
  IN IF <<"llm", p>> \in DOMAIN llm THEN llm[<<"llm", p>>] ELSE "unknown"
Available(h) == Cardinality({p \in Member : Observed(h, p) = "operational"})

\* Fault for testing PoolIsHonest: a member nobody measured counts as down.
RollUpUnmeasured(h) ==
  CASE Available(h) >= MinAvailable -> "operational"
    [] Available(h) > 0 -> "degraded"
    [] OTHER -> "major_outage"
RollUp(h) ==
  CASE Available(h) >= MinAvailable -> "operational"
    [] Available(h) > 0 /\ Available(h) < MinAvailable -> "degraded"
    [] Available(h) = 0 /\ \E p \in Member : Observed(h, p) = "unknown" -> "unknown"
    [] OTHER -> "major_outage"

RegionStatus(h, r) ==
  LET services == Services(h)
  IN Worst({services[c] : c \in {d \in DOMAIN services : d[2] = r}})

\* The capabilities that count, and those that are only shown.
Counted(h) ==
  LET infra == Infra(h)
  IN Entry(<<"capability", "pool">>, RollUp(h))
       \oplus [c \in {<<"capability", "region", r>> : r \in Region} |-> RegionStatus(h, c[3])]
       \oplus [c \in {<<"capability", "infra", d[2]>> : d \in DOMAIN infra} |-> infra[<<"infra", c[3]>>]]
Shown(h) ==
  LET llm == Llm(h)
      internal == Internal(h)
      bucket(p) == IF <<"llm", p>> \in DOMAIN llm THEN llm[<<"llm", p>>] ELSE internal[<<"internal", p>>]
  IN [c \in {<<"capability", "provider", p>> :
               p \in {q \in Told(h, {"llm", "search"}) : Relation(q) = "informational"}} |->
        bucket(c[3])]

\* Only the pool has a primary apart from itself.
PrimaryEntry(h) ==
  LET s == Observed(h, Primary)
  IN IF Cardinality(Member) = 1 THEN << >>
     ELSE Entry(<<"capability", "pool", "primary">>,
                IF RollUp(h) = "operational" /\ s \notin {"operational", "unknown"}
                THEN "serving_on_fallback" ELSE s)

\* capability::overall
Overall(h) ==
  LET counted == Counted(h)
      down == {c \in DOMAIN counted : Severity(counted[c]) = 2}
  IN CASE Blind(h) -> "unknown"
       [] ~Blind(h) /\ Cardinality(down) >= 3 -> "major_outage"
       [] ~Blind(h) /\ Cardinality(down) \in 1 .. 2 -> "partial_outage"
       [] ~Blind(h) /\ down = {} /\ \E c \in DOMAIN counted : counted[c] = "degraded" -> "degraded"
       [] OTHER -> "operational"

Network(h) == IF Blind(h) THEN "outage" ELSE "operational"

\* aggregate::flatten
Flatten(h) ==
  Entry(<<"overall">>, Overall(h)) \oplus Entry(<<"monitor.network">>, Network(h))
    \oplus Services(h) \oplus Infra(h) \oplus Counted(h) \oplus Shown(h) \oplus PrimaryEntry(h)
    \oplus Llm(h) \oplus Auth(h) \oplus Database(h) \oplus Internal(h)

-----------------------------------------------------------------------------
(* The uptime rows: poll_once.                                             *)

RecordedTarget == {t \in Target : t.class \in {"local", "billing", "proxy", "auth"}}

Service == OfClass("billing") \union OfClass("proxy")

\* Whether a service answers, what it depends on and how, and the providers
\* all the regions share, once per lap.
ServiceRows(h) ==
  [c \in {<<t.class, "service", t.at>> : t \in Service} |->
     Verdict(h[CHOOSE t \in Service : t.class = c[1] /\ t.at = c[3]])]
DependencyRows(h) ==
  LET told == {x \in Service \X Id :
                 /\ Answered(h, x[1], x[2])
                 /\ ~(x[1].class = "proxy" /\ Bucket(x[2]) = "llm")}
  IN [c \in {<<x[1].class, x[2], x[1].at>> : x \in told} |->
        LET x == CHOOSE y \in told : y[1].class = c[1] /\ y[2] = c[2] /\ y[1].at = c[3]
        IN LeakRow(h[x[1]].says[x[2]])]
LlmRows(h) ==
  [c \in {<<"proxy", p, "global">> : p \in Told(h, {"llm"})} |->
     LeakRow(MergeWorst(h, "proxy", c[2]))]

\* The views of one provider kept apart: each region's, each billing's, our own.
ViewRows(h) ==
  LET views == {x \in Service \X Id :
                  /\ Answered(h, x[1], x[2])
                  /\ IF x[1].class = "proxy" THEN Bucket(x[2]) = "llm" ELSE x[2] \in Identity}
  IN [c \in {<<"observation", x[2], x[1].class, x[1].at>> : x \in views} |->
        LET x == CHOOSE y \in views : y[2] = c[2] /\ y[1].class = c[3] /\ y[1].at = c[4]
        IN LeakRow(h[x[1]].says[x[2]])]
DirectRows(h) ==
  [c \in {<<"observation", t.at, "direct">> : t \in OfClass("auth")} |->
     Verdict(h[CHOOSE t \in OfClass("auth") : t.at = c[2]])]

LocalRows(h) ==
  [c \in {<<"cirislens", t.at, "global">> : t \in OfClass("local")} |->
     Verdict(h[CHOOSE t \in OfClass("local") : t.at = c[2]])]
NetworkRow(h) == Entry(<<"monitor", "network", "global">>, Network(h))

\* A blind lap accuses nobody but our own network.
Rows(h) ==
  IF Blind(h) THEN NetworkRow(h)
  ELSE ServiceRows(h) \oplus DependencyRows(h) \oplus LlmRows(h) \oplus ViewRows(h)
         \oplus DirectRows(h) \oplus LocalRows(h) \oplus NetworkRow(h)

-----------------------------------------------------------------------------
(* The lap.                                                                *)

Unasked == [k \in Key |-> NoAnswer]
Unheard == [recorder |-> [t \in RecordedTarget |-> NoAnswer],
            server |-> [t \in Target |-> NoAnswer]]

Init ==
  /\ world = [k \in Key |-> Well(k)]
  /\ pc = "idle"
  /\ next = 1
  /\ inflight = {}
  /\ memo = Unasked
  /\ dbOpen \in BOOLEAN
  /\ rows = << >>
  /\ snapshot = << >>
  /\ heard = Unheard
  /\ during = [k \in Key |-> {}]
  /\ changes = 0
  /\ laps = 0

(* Fault for testing AnswersAreFresh: the memo outlives the lap.            *)
KeepMemo ==
  /\ pc = "idle"
  /\ laps < MaxLaps
  /\ laps' = laps + 1
  /\ pc' = "prefetching"
  /\ next' = 1
  /\ rows' = << >>
  /\ heard' = Unheard
  /\ during' = [k \in Key |-> {world[k]}]
  /\ UNCHANGED <<world, inflight, memo, dbOpen, snapshot, changes>>

(* Cycle::new: a memo for this lap and no other.                           *)
BeginLap ==
  /\ pc = "idle"
  /\ laps < MaxLaps
  /\ laps' = laps + 1
  /\ pc' = "prefetching"
  /\ next' = 1
  /\ memo' = Unasked
  /\ rows' = << >>
  /\ heard' = Unheard
  /\ during' = [k \in Key |-> {world[k]}]
  /\ UNCHANGED <<world, inflight, dbOpen, snapshot, changes>>

(* buffer_unordered starts the next job when a slot is free; the job asks  *)
(* unless the memo has an answer by then.                                  *)
StartProbe ==
  /\ pc = "prefetching"
  /\ next \in DOMAIN Jobs
  /\ Cardinality(inflight) < Concurrency
  /\ next' = next + 1
  /\ inflight' = IF memo[Jobs[next].key] = NoAnswer THEN inflight \union {Jobs[next]} ELSE inflight
  /\ UNCHANGED <<world, pc, memo, dbOpen, rows, snapshot, heard, during, changes, laps>>

(* Fault for testing PrefetchEnds: a probe has no timeout.                  *)
FinishAnswered ==
  /\ \E t \in inflight :
       /\ world[t.key].net # "silent"
       /\ inflight' = inflight \ {t}
       /\ memo' = [memo EXCEPT ![t.key] = world[t.key]]
  /\ UNCHANGED <<world, pc, next, dbOpen, rows, snapshot, heard, during, changes, laps>>

(* A probe is answered or times out, in any order; of two jobs that asked  *)
(* the same key, the later answer stands.                                  *)
FinishProbe ==
  /\ \E t \in inflight :
       /\ inflight' = inflight \ {t}
       /\ memo' = [memo EXCEPT ![t.key] = world[t.key]]
  /\ UNCHANGED <<world, pc, next, dbOpen, rows, snapshot, heard, during, changes, laps>>

PrefetchDone ==
  /\ pc = "prefetching"
  /\ next \notin DOMAIN Jobs
  /\ inflight = {}
  /\ pc' = "warm"
  /\ UNCHANGED <<world, next, inflight, memo, dbOpen, rows, snapshot, heard, during, changes, laps>>

\* Fault for testing RowsTellTheSnapshot: each sweep probes for itself.
AskAgain(k) == world[k]
\* A sweep asks the memo, and the target only when the memo has no answer.
Ask(k) == IF memo[k] # NoAnswer THEN memo[k] ELSE world[k]
Remember(targets) ==
  memo' = [k \in Key |-> IF \E t \in targets : t.key = k THEN Ask(k) ELSE memo[k]]

(* poll_once; what becomes of rows on their way into the store is History. *)
Record ==
  /\ pc = "warm"
  /\ dbOpen
  /\ pc' = "recorded"
  /\ Remember(RecordedTarget)
  /\ LET h == [t \in RecordedTarget |-> Ask(t.key)]
     IN /\ heard' = [heard EXCEPT !.recorder = h]
        /\ rows' = Rows(h)
  /\ UNCHANGED <<world, next, inflight, dbOpen, snapshot, during, changes, laps>>

(* Without a store nothing is recorded.                                    *)
SkipRecord ==
  /\ pc = "warm"
  /\ ~dbOpen
  /\ pc' = "recorded"
  /\ UNCHANGED <<world, next, inflight, memo, dbOpen, rows, snapshot, heard, during, changes, laps>>

(* aggregated_status.                                                      *)
Serve ==
  /\ pc = "recorded"
  /\ pc' = "idle"
  /\ Remember(Target)
  /\ LET h == [t \in Target |-> Ask(t.key)]
     IN /\ heard' = [heard EXCEPT !.server = h]
        /\ snapshot' = Flatten(h)
  /\ UNCHANGED <<world, next, inflight, dbOpen, rows, during, changes, laps>>

(* A target changes its answer, or our own uplink goes or returns.         *)
WorldChanges ==
  /\ changes < MaxChanges
  /\ changes' = changes + 1
  /\ \/ \E k \in Key : \E a \in Answers(k) \ {world[k]} : world' = [world EXCEPT ![k] = a]
     \/ world' = [k \in Key |-> Gone]
     \/ world' = [k \in Key |-> Well(k)]
  /\ during' = IF pc = "idle" THEN during ELSE [k \in Key |-> during[k] \union {world'[k]}]
  /\ UNCHANGED <<pc, next, inflight, memo, dbOpen, rows, snapshot, heard, laps>>

Prefetch == StartProbe \/ FinishProbe \/ PrefetchDone
Next == BeginLap \/ Prefetch \/ Record \/ SkipRecord \/ Serve \/ WorldChanges

(* A free slot is filled and every probe carries a timeout.                *)
Fairness == WF_vars(Prefetch)

Spec == Init /\ [][Next]_vars
FairSpec == Spec /\ Fairness

-----------------------------------------------------------------------------
(* Properties.                                                             *)

Answer == [net : {"silent", "error", "slow", "fast", "unasked"}, says : [Id -> Said \union {Absent, "operational"}]]
Status == {"operational", "degraded", "outage", "unknown"}

TypeOK ==
  /\ world \in [Key -> Answer]
  /\ pc \in {"idle", "prefetching", "warm", "recorded"}
  /\ next \in 1 .. Len(Jobs) + 1
  /\ inflight \subseteq Target /\ Cardinality(inflight) <= Concurrency
  /\ memo \in [Key -> Answer]
  /\ dbOpen \in BOOLEAN
  /\ \A c \in DOMAIN rows : rows[c] \in Status
  /\ \A c \in DOMAIN snapshot :
       snapshot[c] \in Status \union Said \union {"partial_outage", "major_outage", "serving_on_fallback"}
  /\ heard \in [recorder : [RecordedTarget -> Answer], server : [Target -> Answer]]
  /\ \A k \in Key : during[k] \subseteq Answer
  /\ changes \in 0 .. MaxChanges
  /\ laps \in 0 .. MaxLaps

Done == pc = "idle" /\ laps > 0
Sighted == Done /\ ~Blind(heard.server)

(* However the world moves while a lap runs, and whichever probes were     *)
(* doubled, the rows the lap recorded and the snapshot it served tell of   *)
(* the same answers ("what we serve is what we recorded", probe::Cycle): a *)
(* provider ranks the same in both, an identity provider has the same      *)
(* verdict, and no service fares better served than recorded.              *)
RowsTellTheSnapshot ==
  Sighted =>
    /\ \A p \in Id : <<"proxy", p, "global">> \in DOMAIN rows =>
         /\ <<"llm", p>> \in DOMAIN snapshot
         /\ Severity(rows[<<"proxy", p, "global">>]) = Severity(snapshot[<<"llm", p>>])
    /\ \A t \in OfClass("auth") : <<"observation", t.at, "direct">> \in DOMAIN rows =>
         rows[<<"observation", t.at, "direct">>] = snapshot[<<"auth", t.at>>]
    /\ \A t \in OfClass("billing") \union OfClass("proxy") :
         <<t.class, "service", t.at>> \in DOMAIN rows =>
           Severity(rows[<<t.class, "service", t.at>>]) <= Severity(snapshot[<<"service", t.at, t.class>>])

(* What a lap records or serves was so during the lap ("a cached probe     *)
(* served to a later caller is a stale claim with a fresh timestamp",      *)
(* probe::Cycle).                                                          *)
AnswersAreFresh ==
  Done =>
    /\ \A t \in Target : heard.server[t] \in during[t.key]
    /\ dbOpen => \A t \in RecordedTarget : heard.recorder[t] \in during[t.key]

Routable(p) == p \in Member \/ Kind[p] \in {"llm", "search"}
ServiceAtLeast(h, t, n) ==
  \/ Severity(Verdict(h[t])) >= n
  \/ \E p \in Id : ~Routable(p) /\ Severity(h[t].says[p]) >= n
SomethingAtLeast(h, n) ==
  \/ \E t \in OfClass("billing") \union OfClass("proxy") : ServiceAtLeast(h, t, n)
  \/ \E t \in OfClass("infra") : Severity(Verdict(h[t])) >= n
\* Some proxy complains of p; or the first to speak of it, while none complains,
\* uses a word that ranks as operational and yet is not that word.
Faulted(h, p) ==
  /\ Bucket(p) = "llm"
  /\ \E i \in Tellers(h, "proxy", p) :
       LET word == h[Jobs[i]].says[p]
       IN \/ Severity(word) > 0
          \/ /\ word \notin {"operational", "unknown"}
             /\ \A j \in Tellers(h, "proxy", p) : i <= j
PoolDown(h) == \A p \in Member : Faulted(h, p)

(* The headline tells of an outage exactly when a service, something only  *)
(* it can provide, or a host is out, or every member of the pool is        *)
(* faulted; a provider a router can do without never moves it, and no      *)
(* impairment of what nothing else serves leaves it green (capability.rs,  *)
(* FSD D1).                                                                *)
HeadlineIsEarned ==
  Sighted =>
    LET h == heard.server
        overall == snapshot[<<"overall">>]
    IN /\ overall \in {"partial_outage", "major_outage"} <=> SomethingAtLeast(h, 2) \/ PoolDown(h)
       /\ overall = "operational" => ~SomethingAtLeast(h, 1)

(* The pool is called out exactly when something other than `operational'  *)
(* and `unknown' stands against every member, never for members nobody     *)
(* measured, and up only when enough members have no complaint against     *)
(* them ("we do not get to call a capability healthy on the strength of    *)
(* members we never looked at", capability::roll_up).                      *)
PoolIsHonest ==
  Sighted =>
    LET pool == snapshot[<<"capability", "pool">>]
        h == heard.server
        unblemished(p) ==
          /\ \E t \in OfClass("proxy") : h[t].says[p] = "operational"
          /\ \A t \in OfClass("proxy") : Severity(h[t].says[p]) = 0
    IN /\ pool = "major_outage" <=> PoolDown(h)
       /\ pool = "operational" => Cardinality({p \in Member : unblemished(p)}) >= MinAvailable


\* The component under which a report of t about p is shown.
ShownAs(t, p) ==
  CASE t.class = "proxy" /\ Bucket(p) = "llm" -> <<"llm", p>>
    [] t.class = "proxy" /\ Bucket(p) = "search" -> <<"internal", p>>
    [] t.class = "billing" /\ p = "postgresql" -> <<"db", t.at>>
    [] t.class = "billing" /\ p \in Identity \ {"postgresql"} -> <<"auth", p>>
    [] OTHER -> <<"internal", t.at, p>>

\* Where our own probe has the word: "override upstream guesses", "billing's word
\* beats nothing" (aggregated_status).
WeAskOurselves(t, p) ==
  \/ t.class = "billing" /\ p \in DirectAuth
  \/ t.class = "proxy" /\ Bucket(p) = "search" /\ \E own \in Probed : own.at = p

(* Whatever a service reports shows under a component at least as bad, so  *)
(* no region's trouble hides behind another's health ("neither path may    *)
(* DROP an entry", aggregate::is_shared_llm), save what we probe ourselves. *)
EveryReportShows ==
  Sighted =>
    \A t \in OfClass("billing") \union OfClass("proxy"), p \in Id :
      (Answered(heard.server, t, p) /\ ~WeAskOurselves(t, p)) =>
        Severity(snapshot[ShownAs(t, p)]) >= Severity(heard.server[t].says[p])

(* Once a lap begins, its two sweeps get to run with an answer, or its     *)
(* absence, for every target, whoever stays silent (Cycle::prefetch).      *)
PrefetchEnds ==
  pc = "prefetching" ~> (pc = "warm" /\ \A k \in Key : memo[k] # NoAnswer)

(* The network's own component says the same in the history and in the     *)
(* snapshot of a lap.                                                      *)
NetworkVerdictsAgree ==
  (Done /\ dbOpen /\ <<"monitor", "network", "global">> \in DOMAIN rows) =>
    rows[<<"monitor", "network", "global">>] = snapshot[<<"monitor.network">>]
=============================================================================
