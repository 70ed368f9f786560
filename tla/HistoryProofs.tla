---------------------------- MODULE HistoryProofs ----------------------------
(***************************************************************************)
(* The repairs of the uptime table do their work at a quiet start and      *)
(* never touch what this version wrote, for every legacy, every sequence   *)
(* of starts with failing statements, and every clock.  On that rest the   *)
(* figures its readers get: finished days stand, a failure is one          *)
(* incident, and the SLI, the dissents and a full uptime are earned.       *)
(***************************************************************************)
EXTENDS Rollup, FiniteSetTheorems, WellFoundedInduction, TLAPS

Horizon == Retention * PerDay
\* A row none of the repairs looks for, and written since the deployment.
Ours(r) == ~Misnamed(r) /\ ~Misfiled(r) /\ r.ts >= Deployed

(* What the two properties rest on: the clock never runs behind the start  *)
(* or the poll, and stored rows are ours and outlive everything but the    *)
(* retention.                                                              *)
ClockOrdered ==
  /\ Deployed <= began /\ began <= now
  /\ pc = "polling" => began <= stamp /\ stamp <= now
StoredStand ==
  \A t \in took : \A r \in t.stored :
    Ours(r) /\ (r.ts + Horizon >= began => r \in checks)
IInv == TypeOK /\ ClockOrdered /\ StoredStand /\ QuietStartRepairs

-----------------------------------------------------------------------------
(* The statements.                                                         *)

(* The retention is a length of time (RETENTION_DAYS).                     *)
LEMMA HorizonType == Horizon \in Nat
  BY TimeAssumption DEF Horizon

(* A stable id is none of the display names that once were keys (RENAMES). *)
LEMMA IdsAreNames == \A name \in Display : IdOf[name] \in Name \ Display
<1>1. \A name \in Display : IdOf[name] \notin Display
  BY DEF IdOf, Display
<1> QED
  BY <1>1, NameAssumption

(* The dated repairs are over before this version writes                   *)
(* (LEGACY_REPAIR_BEFORE, BRAVE_PURGE_BEFORE).                             *)
LEMMA LateIsSpared ==
  \A r \in Row : r.ts >= Deployed => ~Disabled(r) /\ ~FailureOnly(r)
<1> SUFFICES ASSUME NEW r \in Row, r.ts >= Deployed PROVE ~Disabled(r) /\ ~FailureOnly(r)
  OBVIOUS
<1>1. r.ts \in Nat
  BY DEF Row
<1>2. ~(r.ts < BraveBefore) /\ ~(r.ts < RepairBefore)
  BY <1>1, TimeAssumption
<1> QED
  BY <1>2 DEF Disabled, FailureOnly

(* The row of our own network is a sample like the others (poll_once).     *)
LEMMA NetworkIsSample ==
  \A status \in Status : /\ Network(status) \in Sample
                         /\ ~Misnamed(Network(status)) /\ ~Misfiled(Network(status))
<1>1. {"monitor", "network", "global"} \subseteq Name
  BY NameAssumption
<1> QED
  BY <1>1 DEF Network, Sample, Misnamed, Misfiled

(* Every statement leaves a table of rows.                                 *)
LEMMA RepairedType ==
  ASSUME NEW R \in SUBSET Row, NEW failing
  PROVE  Repaired(R, failing) \subseteq Row
<1> DEFINE renamed == Rename(R, failing)
           refiled == Refile(PurgeBrave(renamed, failing), failing)
<1>1. \A r \in Row : Misnamed(r) => [r EXCEPT !.provider = IdOf[r.provider]] \in Row
  <2> SUFFICES ASSUME NEW r \in Row, Misnamed(r)
               PROVE  [r EXCEPT !.provider = IdOf[r.provider]] \in Row
    OBVIOUS
  <2>1. IdOf[r.provider] \in Name
    BY IdsAreNames DEF Misnamed
  <2> QED
    BY <2>1 DEF Row
<1>2. \A r \in Row : [r EXCEPT !.region = "global"] \in Row
  <2>1. "global" \in Name
    BY NameAssumption
  <2> QED
    BY <2>1 DEF Row
<1>3. renamed \subseteq Row
  BY <1>1 DEF Rename
<1>4. PurgeBrave(renamed, failing) \subseteq Row
  BY <1>3 DEF PurgeBrave
<1>5. refiled \subseteq Row
  BY <1>2, <1>4 DEF Refile
<1> QED
  BY <1>5 DEF Repaired, PurgeService, Prune

(* A row of ours within the retention goes through every statement as it   *)
(* is (init).                                                              *)
LEMMA OursIsSpared ==
  ASSUME NEW R \in SUBSET Row, NEW failing, NEW r \in R, Ours(r),
         r.ts + Horizon >= now
  PROVE  r \in Repaired(R, failing)
<1> DEFINE renamed == Rename(R, failing)
           purged == PurgeBrave(renamed, failing)
           refiled == Refile(purged, failing)
           cleaned == PurgeService(refiled, failing)
<1>2. ~Disabled(r) /\ ~FailureOnly(r)
  BY LateIsSpared DEF Ours
<1>3. r \in renamed
  BY DEF Rename, Ours
<1>4. r \in purged
  BY <1>2, <1>3 DEF PurgeBrave
<1>5. r \in refiled
  BY <1>4 DEF Refile, Ours
<1>6. r \in cleaned
  BY <1>2, <1>5 DEF PurgeService
<1> QED
  BY <1>6 DEF Repaired, Prune, Horizon

(* With no statement failing, each leaves nothing of its kind, and none    *)
(* brings back what an earlier one removed (init).                         *)
LEMMA RepairsAreOrdered ==
  ASSUME NEW R \in SUBSET Row
  PROVE  \A r \in Repaired(R, {}) :
           /\ ~Misnamed(r) /\ ~Misfiled(r) /\ ~Disabled(r) /\ ~FailureOnly(r)
           /\ r.ts + Horizon >= now
<1> DEFINE renamed == Rename(R, {})
           purged == PurgeBrave(renamed, {})
           refiled == Refile(purged, {})
           cleaned == PurgeService(refiled, {})
<1>1. renamed \subseteq Row /\ \A r \in renamed : ~Misnamed(r)
  <2>1. ASSUME NEW r \in R, Misnamed(r)
        PROVE  /\ [r EXCEPT !.provider = IdOf[r.provider]] \in Row
               /\ ~Misnamed([r EXCEPT !.provider = IdOf[r.provider]])
    <3>1. IdOf[r.provider] \in Name \ Display
      BY <2>1, IdsAreNames DEF Misnamed
    <3> QED
      BY <3>1 DEF Row, Misnamed
  <2> QED
    BY <2>1 DEF Rename
<1>2. purged \subseteq Row /\ \A r \in purged : ~Misnamed(r) /\ ~Disabled(r)
  BY <1>1 DEF PurgeBrave
<1>3. refiled \subseteq Row /\ \A r \in refiled : ~Misnamed(r) /\ ~Disabled(r) /\ ~Misfiled(r)
  <2>1. ASSUME NEW r \in purged, Misfiled(r)
        PROVE  LET q == [r EXCEPT !.region = "global"]
               IN q \in Row /\ ~Misnamed(q) /\ ~Disabled(q) /\ ~Misfiled(q)
    <3>1. "global" \in Name
      BY NameAssumption
    <3> QED
      BY <1>2, <3>1 DEF Row, Misnamed, Disabled, Misfiled
  <2> QED
    BY <1>2, <2>1 DEF Refile
<1>4. \A r \in cleaned : ~Misnamed(r) /\ ~Disabled(r) /\ ~Misfiled(r) /\ ~FailureOnly(r)
  BY <1>3 DEF PurgeService
<1> QED
  BY <1>4 DEF Repaired, Prune, Horizon

-----------------------------------------------------------------------------
(* The steps.                                                              *)

(* Whatever lies in the table of an earlier version, nothing is promised   *)
(* yet.                                                                    *)
LEMMA InitIInv == Init => IInv
<1> SUFFICES ASSUME Init PROVE IInv
  OBVIOUS
<1>1. checks \subseteq Row /\ quiet \in BOOLEAN
  BY LegacyAssumption DEF Init
<1>2. TypeOK
  BY <1>1, TimeAssumption DEF Init, TypeOK
<1>3. ClockOrdered
  BY TimeAssumption DEF Init, ClockOrdered
<1> QED
  BY <1>2, <1>3 DEF Init, IInv, StoredStand, QuietStartRepairs

(* A step that leaves the table, what is remembered of it and the last     *)
(* start alone, and lets nothing start up, disturbs neither.               *)
LEMMA TableKept ==
  ASSUME StoredStand, QuietStartRepairs, UNCHANGED <<checks, took, began, quiet>>,
         pc' # "down" => pc # "down"
  PROVE  StoredStand' /\ QuietStartRepairs'
<1>1. StoredStand'
  BY DEF StoredStand, Ours, Misnamed, Misfiled
<1>2. QuietStartRepairs'
  BY DEF QuietStartRepairs, Misnamed, Misfiled, Disabled, FailureOnly
<1> QED
  BY <1>1, <1>2

(* init keeps the invariant, whichever statements fail.                    *)
LEMMA StartKeeps == IInv /\ Start => IInv'
<1> SUFFICES ASSUME IInv, Start PROVE IInv'
  OBVIOUS
<1> USE DEF IInv
<1>1. PICK failing \in SUBSET Statement :
        /\ quiet' = (failing = {})
        /\ checks' = Repaired(checks, failing)
  BY DEF Start
<1>2. checks \in SUBSET Row /\ now \in Nat
  BY DEF TypeOK
<1>3. TypeOK'
  <2>1. checks' \subseteq Row
    BY <1>1, <1>2, RepairedType
  <2>2. starts' \in 0 .. MaxStarts
    BY TimeAssumption DEF TypeOK, Start
  <2>3. quiet' \in BOOLEAN
    BY <1>1
  <2> QED
    BY <2>1, <2>2, <2>3 DEF TypeOK, Start
<1>4. ClockOrdered'
  BY <1>2, TimeAssumption DEF ClockOrdered, Start, TypeOK
<1>5. StoredStand'
  <2>1. ASSUME NEW t \in took, NEW r \in t.stored
        PROVE  Ours(r) /\ (r.ts + Horizon >= now => r \in Repaired(checks, failing))
    <3>1. r \in Row /\ Ours(r) /\ (r.ts + Horizon >= began => r \in checks)
      BY DEF StoredStand, TypeOK, Poll
    <3>2. r.ts + Horizon \in Nat /\ began \in Nat /\ began <= now
      BY <3>1, HorizonType DEF Row, TypeOK, ClockOrdered
    <3>3. r.ts + Horizon >= now => r \in checks
      BY <3>1, <3>2, <1>2
    <3> QED
      BY <3>1, <3>3, <1>2, OursIsSpared
  <2> QED
    BY <2>1, <1>1 DEF StoredStand, Start, Ours, Misnamed, Misfiled
<1>6. QuietStartRepairs'
  <2> SUFFICES ASSUME quiet' PROVE QuietStartRepairs'
    BY DEF QuietStartRepairs
  <2>1. checks' = Repaired(checks, {})
    BY <1>1
  <2> QED
    BY <2>1, <1>2, RepairsAreOrdered
       DEF QuietStartRepairs, Start, Horizon, Misnamed, Misfiled, Disabled, FailureOnly
<1> QED
  BY <1>3, <1>4, <1>5, <1>6

(* What a poll stores is ours: its keys are those of this version and its  *)
(* stamp is not older than the start (poll_once).                          *)
LEMMA InsertStoresOurs ==
  ASSUME IInv, pc = "polling", NEW seen \in SUBSET Sample,
         \A s \in seen : ~Misnamed(s) /\ ~Misfiled(s),
         NEW network \in Status, Insert(seen, network), pc' = "up", stamp' = 0,
         UNCHANGED <<now, began, quiet, polls, starts>>
  PROVE  IInv'
<1> USE DEF IInv
<1> DEFINE told == seen \union {Network(network)}
           due == {AsRow(s) : s \in told}
<1>1. told \subseteq Sample /\ \A s \in told : ~Misnamed(s) /\ ~Misfiled(s)
  BY NetworkIsSample
<1>2. polls \in Nat /\ stamp \in Nat /\ began \in Nat /\ stamp >= began /\ began >= Deployed
  BY DEF TypeOK, ClockOrdered
<1>3. \A r \in due : /\ r \in Row /\ Ours(r)
                     /\ ~Misnamed(r) /\ ~Misfiled(r) /\ ~Disabled(r) /\ ~FailureOnly(r)
                     /\ r.ts = stamp
  <2> SUFFICES ASSUME NEW s \in told
               PROVE  LET r == AsRow(s) IN
                        /\ r \in Row /\ Ours(r)
                        /\ ~Misnamed(r) /\ ~Misfiled(r) /\ ~Disabled(r) /\ ~FailureOnly(r)
                        /\ r.ts = stamp
    OBVIOUS
  <2>1. s \in Sample /\ ~Misnamed(s) /\ ~Misfiled(s)
    BY <1>1
  <2>2. AsRow(s) \in Row /\ AsRow(s).ts = stamp
    BY <1>2, <2>1 DEF AsRow, Row, Sample
  <2>3. ~Misnamed(AsRow(s)) /\ ~Misfiled(AsRow(s))
    BY <2>1 DEF AsRow, Misnamed, Misfiled, Sample
  <2>4. ~Disabled(AsRow(s)) /\ ~FailureOnly(AsRow(s))
    BY <1>2, <2>2, TimeAssumption, LateIsSpared
  <2> QED
    BY <1>2, <2>2, <2>3, <2>4, TimeAssumption DEF Ours
<1>4. PICK gone \in SUBSET due :
        /\ lost + Cardinality(gone) <= MaxLost
        /\ lost' = lost + Cardinality(gone)
        /\ checks' = checks \union (due \ gone)
        /\ took' = took \union {[poll |-> polls, ts |-> stamp, seen |-> told, stored |-> due \ gone]}
  BY DEF Insert
<1>5. TypeOK'
  <2>1. checks' \subseteq Row
    BY <1>3, <1>4 DEF TypeOK
  <2>2. [poll |-> polls, ts |-> stamp, seen |-> told, stored |-> due \ gone] \in Poll
    BY <1>1, <1>2, <1>3 DEF Poll
  <2>3. took' \subseteq Poll
    BY <1>4, <2>2 DEF TypeOK
  <2> QED
    BY <2>1, <2>3, <1>4 DEF TypeOK
<1>6. ClockOrdered'
  BY DEF ClockOrdered
<1>7. StoredStand'
  BY <1>3, <1>4 DEF StoredStand, Ours, Misnamed, Misfiled
<1>8. QuietStartRepairs'
  <2>1. stamp + Horizon >= began
    BY <1>2, HorizonType
  <2> QED
    BY <1>3, <1>4, <2>1 DEF QuietStartRepairs, Horizon, Misnamed, Misfiled, Disabled, FailureOnly
<1> QED
  BY <1>5, <1>6, <1>7, <1>8

(* A poll, sighted or blind, keeps the invariant.                          *)
LEMMA EndPollKeeps == IInv /\ EndPoll => IInv'
<1> SUFFICES ASSUME IInv, EndPoll PROVE IInv'
  OBVIOUS
<1>1. CASE \E seen \in Outcomes : Insert(seen, "operational")
  <2>1. PICK seen \in Outcomes : Insert(seen, "operational")
    BY <1>1
  <2>2. seen \in SUBSET Sample /\ \A s \in seen : ~Misnamed(s) /\ ~Misfiled(s)
    BY OutcomeAssumption
  <2> QED
    BY <2>1, <2>2, InsertStoresOurs DEF EndPoll, Status
<1>2. CASE Insert({}, "outage")
  BY <1>2, InsertStoresOurs DEF EndPoll, Status
<1> QED
  BY <1>1, <1>2 DEF EndPoll

(* Every step keeps the invariant.                                         *)
LEMMA NextKeeps == IInv /\ [Next]_vars => IInv'
<1> SUFFICES ASSUME IInv, [Next]_vars PROVE IInv'
  OBVIOUS
<1>1. CASE Start
  BY <1>1, StartKeeps
<1>2. CASE BeginPoll
  <2>1. TypeOK' /\ ClockOrdered'
    BY <1>2, TimeAssumption DEF IInv, BeginPoll, TypeOK, ClockOrdered
  <2> QED
    BY <1>2, <2>1, TableKept DEF IInv, BeginPoll
<1>3. CASE EndPoll
  BY <1>3, EndPollKeeps
<1>4. CASE Crash
  <2>1. TypeOK' /\ ClockOrdered'
    BY <1>4 DEF IInv, Crash, table, TypeOK, ClockOrdered
  <2> QED
    BY <1>4, <2>1, TableKept DEF IInv, Crash, table
<1>5. CASE Tick
  <2>1. TypeOK' /\ ClockOrdered'
    BY <1>5, TimeAssumption DEF IInv, Tick, table, TypeOK, ClockOrdered
  <2> QED
    BY <1>5, <2>1, TableKept DEF IInv, Tick, table
<1>6. CASE UNCHANGED vars
  <2>1. TypeOK' /\ ClockOrdered'
    BY <1>6 DEF IInv, vars, table, TypeOK, ClockOrdered
  <2> QED
    BY <1>6, <2>1, TableKept DEF IInv, vars, table
<1> QED
  BY <1>1, <1>2, <1>3, <1>4, <1>5, <1>6 DEF Next

(* The inductive invariant.                                                *)
LEMMA IInvAlways == Spec => []IInv
<1> QED
  BY InitIInv, NextKeeps, PTL DEF Spec

(* Types of the uptime table and of what is remembered about it (init,     *)
(* record).                                                                *)
THEOREM HistoryTypeCorrect == Spec => []TypeOK
<1>1. IInv => TypeOK
  BY DEF IInv
<1> QED
  BY <1>1, IInvAlways, PTL

(* However often the process starts, whatever the repairs find and         *)
(* whichever of them fail, a row this version stored stays until it is     *)
(* past the retention (init).                                              *)
THEOREM NewRowsAreSpared == Spec => []MigrationsSpareTheNew
<1>1. IInv => MigrationsSpareTheNew
  BY DEF IInv, StoredStand, MigrationsSpareTheNew, Horizon
<1> QED
  BY <1>1, IInvAlways, PTL

(* A start at which every statement succeeds leaves nothing of the old     *)
(* kinds, and nothing of the kind comes back while the process runs        *)
(* (init).                                                                 *)
THEOREM QuietStartsRepair == Spec => []QuietStartRepairs
<1>1. IInv => QuietStartRepairs
  BY DEF IInv
<1> QED
  BY <1>1, IInvAlways, PTL

-----------------------------------------------------------------------------
(* The history of the table: every row of this version is a sample of a    *)
(* poll, and every poll keeps the order of the clock.                      *)

\* The row a poll stores for a sample.
RowOf(t, s) ==
  [poll |-> t.poll, as |-> <<s.service, s.provider, s.region>>, ts |-> t.ts,
   service |-> s.service, provider |-> s.provider, region |-> s.region, status |-> s.status]

RecordsTrue ==
  \A t \in took :
    /\ t.poll \in 1 .. polls /\ (pc = "polling" => t.poll < polls)
    /\ Deployed <= t.ts /\ t.ts <= now /\ (pc = "polling" => t.ts <= stamp)
    /\ IsFiniteSet(t.seen) /\ \A x, y \in t.seen : Series(x) = Series(y) => x = y
    /\ t.stored \subseteq {RowOf(t, s) : s \in t.seen}
PollsOrdered ==
  /\ IsFiniteSet(took)
  /\ \A t, u \in took : (t.poll = u.poll => t = u) /\ (t.poll < u.poll => t.ts <= u.ts)
  /\ pc = "polling" => polls > 0
TableTells ==
  /\ IsFiniteSet(checks)
  /\ \A r \in checks : /\ r.poll = 0 => r.ts < Deployed
                       /\ r.poll # 0 => \E t \in took : r \in t.stored
HInv == IInv /\ RecordsTrue /\ PollsOrdered /\ TableTells

(* The image of a finite set under a function is finite.                   *)
LEMMA ImageIsFinite ==
  ASSUME NEW S, IsFiniteSet(S), NEW f, DOMAIN f = S
  PROVE  IsFiniteSet({f[x] : x \in S}) /\ Cardinality({f[x] : x \in S}) <= Cardinality(S)
<1> DEFINE T == {f[x] : x \in S}
<1>1. [x \in S |-> f[x]] \in Surjection(S, T)
  BY DEF Surjection
<1> QED
  BY <1>1, FS_Surjection

(* A repair changes the name or the region of a row and nothing else, and  *)
(* only of a row it looks for; a repaired table is still finite (init).    *)
LEMMA RepairedFrom ==
  ASSUME NEW R, IsFiniteSet(R), R \subseteq Row, NEW failing
  PROVE  /\ IsFiniteSet(Repaired(R, failing))
         /\ \A r \in Repaired(R, failing) : \E q \in R :
              /\ r.poll = q.poll /\ r.ts = q.ts
              /\ ~Misnamed(q) /\ ~Misfiled(q) => r = q
<1> DEFINE renamed == Rename(R, failing)
           purged == PurgeBrave(renamed, failing)
           refiled == Refile(purged, failing)
           name == [r \in R |-> IF Misnamed(r) /\ r.provider \notin failing
                                THEN [r EXCEPT !.provider = IdOf[@]] ELSE r]
           file == [r \in purged |-> IF Misfiled(r) /\ "refile" \notin failing
                                     THEN [r EXCEPT !.region = "global"] ELSE r]
<1>1. renamed = {name[r] : r \in R} /\ DOMAIN name = R
  BY DEF Rename
<1>2. refiled = {file[r] : r \in purged} /\ DOMAIN file = purged
  BY DEF Refile
<1>3. purged \subseteq renamed /\ Repaired(R, failing) \subseteq refiled
  BY DEF PurgeBrave, Repaired, PurgeService, Prune
<1>4. IsFiniteSet(Repaired(R, failing))
  <2> HIDE DEF renamed, purged, refiled, name, file
  <2>1. IsFiniteSet(renamed)
    BY <1>1, ImageIsFinite
  <2>2. IsFiniteSet(purged)
    BY <2>1, <1>3, FS_Subset
  <2>3. IsFiniteSet(refiled)
    BY <2>2, <1>2, ImageIsFinite
  <2> QED
    BY <2>3, <1>3, FS_Subset
<1>5. \A q \in R : name[q].poll = q.poll /\ name[q].ts = q.ts /\ (~Misnamed(q) => name[q] = q)
  <2> SUFFICES ASSUME NEW q \in R
               PROVE  name[q].poll = q.poll /\ name[q].ts = q.ts /\ (~Misnamed(q) => name[q] = q)
    OBVIOUS
  <2> QED
    BY DEF Row
<1>6. \A q \in purged : file[q].poll = q.poll /\ file[q].ts = q.ts /\ (~Misfiled(q) => file[q] = q)
  <2>1. purged \subseteq Row
    <3>1. \A r \in Row : Misnamed(r) => [r EXCEPT !.provider = IdOf[r.provider]] \in Row
      <4> SUFFICES ASSUME NEW r \in Row, Misnamed(r)
                   PROVE  [r EXCEPT !.provider = IdOf[r.provider]] \in Row
        OBVIOUS
      <4>1. IdOf[r.provider] \in Name
        BY IdsAreNames DEF Misnamed
      <4> QED
        BY <4>1 DEF Row
    <3> QED
      BY <3>1 DEF PurgeBrave, Rename
  <2> SUFFICES ASSUME NEW q \in purged, q \in Row
               PROVE  file[q].poll = q.poll /\ file[q].ts = q.ts /\ (~Misfiled(q) => file[q] = q)
    BY <2>1
  <2> QED
    BY DEF Row
<1> SUFFICES ASSUME NEW r \in Repaired(R, failing)
             PROVE  \E q \in R : /\ r.poll = q.poll /\ r.ts = q.ts
                                 /\ ~Misnamed(q) /\ ~Misfiled(q) => r = q
  BY <1>4
<1> HIDE DEF renamed, purged, refiled, name, file
<1>7. PICK p \in purged : r = file[p]
  BY <1>2, <1>3
<1>8. PICK q \in R : p = name[q]
  BY <1>7, <1>1, <1>3
<1> QED
  BY <1>5, <1>6, <1>7, <1>8

(* Nothing is stored yet, and an older version wrote before this one.      *)
LEMMA InitHInv == Init => HInv
<1> SUFFICES ASSUME Init PROVE HInv
  OBVIOUS
<1>1. IsFiniteSet(checks) /\ \A r \in checks : r.poll = 0 /\ r.ts < Deployed
  BY LegacyAssumption, FS_Subset DEF Init
<1>2. TableTells
  BY <1>1 DEF TableTells
<1>3. RecordsTrue /\ PollsOrdered
  BY FS_EmptySet DEF Init, RecordsTrue, PollsOrdered
<1> QED
  BY <1>2, <1>3, InitIInv DEF HInv

(* A start keeps the rows that polls stored as they are, or loses them; it *)
(* tells nothing new (init).                                               *)
LEMMA StartKeepsHistory == HInv /\ Start => HInv'
<1> SUFFICES ASSUME HInv, Start PROVE HInv'
  OBVIOUS
<1>1. IInv'
  BY StartKeeps DEF HInv
<1>2. PICK failing \in SUBSET Statement : checks' = Repaired(checks, failing)
  BY DEF Start
<1>3. UNCHANGED <<now, stamp, took, polls>> /\ pc = "down" /\ pc' = "up"
  BY DEF Start
<1>4. RecordsTrue'
  BY <1>3 DEF HInv, RecordsTrue, RowOf, Series
<1>5. PollsOrdered'
  BY <1>3 DEF HInv, PollsOrdered
<1>6. IsFiniteSet(checks) /\ checks \subseteq Row
  BY DEF HInv, IInv, TypeOK, TableTells
<1>7. IsFiniteSet(checks')
  BY <1>2, <1>6, RepairedFrom
<1>8. ASSUME NEW r \in checks'
      PROVE  (r.poll = 0 => r.ts < Deployed) /\ (r.poll # 0 => \E t \in took : r \in t.stored)
  <2>1. PICK q \in checks : /\ r.poll = q.poll /\ r.ts = q.ts
                            /\ ~Misnamed(q) /\ ~Misfiled(q) => r = q
    BY <1>2, <1>6, RepairedFrom
  <2>2. (q.poll = 0 => q.ts < Deployed) /\ (q.poll # 0 => \E t \in took : q \in t.stored)
    BY DEF HInv, TableTells
  <2>3. \A t \in took : q \in t.stored => ~Misnamed(q) /\ ~Misfiled(q)
    BY DEF HInv, IInv, StoredStand, Ours
  <2> QED
    BY <2>1, <2>2, <2>3
<1>9. TableTells'
  BY <1>3, <1>7, <1>8 DEF TableTells
<1> QED
  BY <1>1, <1>4, <1>5, <1>9 DEF HInv

(* A poll adds one record, its rows and nothing else (poll_once).          *)
LEMMA InsertKeepsHistory ==
  ASSUME HInv, pc = "polling", pc' = "up", UNCHANGED <<now, polls>>,
         NEW seen \in SUBSET Sample, IsFiniteSet(seen), NEW network \in Status,
         \A x, y \in seen \union {Network(network)} : Series(x) = Series(y) => x = y,
         Insert(seen, network)
  PROVE  RecordsTrue' /\ PollsOrdered' /\ TableTells'
<1> DEFINE told == seen \union {Network(network)}
           due == {AsRow(s) : s \in told}
<1>1. PICK gone \in SUBSET due :
        /\ checks' = checks \union (due \ gone)
        /\ took' = took \union {[poll |-> polls, ts |-> stamp, seen |-> told, stored |-> due \ gone]}
  BY DEF Insert
<1> DEFINE new == [poll |-> polls, ts |-> stamp, seen |-> told, stored |-> due \ gone]
<1>2. IsFiniteSet(told) /\ IsFiniteSet(due)
  <2>1. IsFiniteSet(told)
    BY FS_AddElement
  <2> DEFINE row == [s \in told |-> AsRow(s)]
  <2>2. due = {row[s] : s \in told} /\ DOMAIN row = told
    OBVIOUS
  <2> HIDE DEF row
  <2> QED
    BY <2>1, <2>2, ImageIsFinite
<1>3. polls \in Nat /\ polls > 0 /\ now \in Nat /\ Deployed \in Nat /\ stamp \in Nat /\ Deployed <= stamp /\ stamp <= now
  BY TimeAssumption DEF HInv, IInv, TypeOK, ClockOrdered, PollsOrdered
<1>4. due = {RowOf(new, s) : s \in told}
  BY DEF AsRow, RowOf
<1>5. \A t \in took : t.poll \in Nat /\ t.ts \in Nat /\ t.poll < polls /\ t.ts <= stamp
  BY DEF HInv, IInv, TypeOK, Poll, RecordsTrue
<1>6. new.poll = polls /\ new.ts = stamp /\ new.seen = told /\ new.stored = due \ gone /\ took' = took \union {new}
  BY <1>1
<1>7. \A r \in due : r.poll = polls
  BY DEF AsRow
<1> HIDE DEF told, due, new
<1>8. RecordsTrue'
  <2> SUFFICES ASSUME NEW t \in took \union {new}
               PROVE  /\ t.poll \in 1 .. polls
                      /\ Deployed <= t.ts /\ t.ts <= now
                      /\ IsFiniteSet(t.seen) /\ \A x, y \in t.seen : Series(x) = Series(y) => x = y
                      /\ t.stored \subseteq {RowOf(t, s) : s \in t.seen}
    BY <1>6 DEF RecordsTrue, Series, RowOf
  <2>1. CASE t \in took
    BY <2>1 DEF HInv, RecordsTrue
  <2>2. CASE t = new
    BY <2>2, <1>2, <1>3, <1>4, <1>6 DEF told
  <2> QED
    BY <2>1, <2>2
<1>9. PollsOrdered'
  <2>1. IsFiniteSet(took')
    BY <1>6, FS_AddElement DEF HInv, PollsOrdered
  <2>2. \A t, u \in took : (t.poll = u.poll => t = u) /\ (t.poll < u.poll => t.ts <= u.ts)
    BY DEF HInv, PollsOrdered
  <2>3. \A t, u \in took' : (t.poll = u.poll => t = u) /\ (t.poll < u.poll => t.ts <= u.ts)
    BY <1>3, <1>5, <1>6, <2>2
  <2> QED
    BY <2>1, <2>3 DEF PollsOrdered
<1>10. TableTells'
  <2>1. IsFiniteSet(checks) /\ IsFiniteSet(due \ gone)
    BY <1>2, FS_Subset DEF HInv, TableTells
  <2>2. IsFiniteSet(checks')
    BY <1>1, <2>1, FS_Union
  <2>3. \A r \in checks : (r.poll = 0 => r.ts < Deployed) /\ (r.poll # 0 => \E t \in took : r \in t.stored)
    BY DEF HInv, TableTells
  <2>4. \A r \in due \ gone : r.poll # 0 /\ r \in new.stored
    BY <1>3, <1>6, <1>7
  <2> QED
    BY <1>1, <1>6, <2>2, <2>3, <2>4 DEF TableTells
<1> QED
  BY <1>8, <1>9, <1>10

(* What a poll stores is what it remembers having seen (poll_once).        *)
LEMMA EndPollKeepsHistory == HInv /\ EndPoll => HInv'
<1> SUFFICES ASSUME HInv, EndPoll PROVE HInv'
  OBVIOUS
<1>1. IInv'
  BY EndPollKeeps DEF HInv
<1>2. pc = "polling" /\ pc' = "up" /\ UNCHANGED <<now, polls>>
  BY DEF EndPoll
<1>3. CASE \E seen \in Outcomes : Insert(seen, "operational")
  <2>1. PICK seen \in Outcomes : Insert(seen, "operational")
    BY <1>3
  <2>2. seen \in SUBSET Sample /\ IsFiniteSet(seen)
    BY OutcomeAssumption
  <2>3. \A x, y \in seen \union {Network("operational")} : Series(x) = Series(y) => x = y
    BY SeriesAssumption
  <2> QED
    BY <2>1, <2>2, <2>3, <1>1, <1>2, InsertKeepsHistory DEF HInv, Status
<1>4. CASE Insert({}, "outage")
  BY <1>4, <1>1, <1>2, InsertKeepsHistory, FS_EmptySet DEF HInv, Status
<1> QED
  BY <1>3, <1>4 DEF EndPoll

(* The clock and a new poll put nothing before what was recorded, and a    *)
(* crash forgets the poll that was running (poll_loop).                    *)
LEMMA RestKeepsHistory ==
  ASSUME HInv, UNCHANGED table,
         BeginPoll \/ Crash \/ Tick \/ UNCHANGED vars
  PROVE  RecordsTrue' /\ PollsOrdered' /\ TableTells'
<1> USE DEF HInv, table
<1>1. polls \in Nat /\ now \in Nat /\ stamp \in Nat /\ \A t \in took : t.poll \in Nat /\ t.ts \in Nat
  BY DEF IInv, TypeOK, Poll
<1>2. TableTells'
  BY DEF TableTells
<1>3. PollsOrdered'
  BY <1>1 DEF PollsOrdered, BeginPoll, Crash, Tick, vars
<1>4. RecordsTrue'
  <2> SUFFICES ASSUME NEW t \in took
               PROVE  /\ t.poll \in 1 .. polls' /\ (pc' = "polling" => t.poll < polls')
                      /\ t.ts <= now' /\ (pc' = "polling" => t.ts <= stamp')
    BY DEF RecordsTrue, Series, RowOf
  <2>1. /\ t.poll \in 1 .. polls /\ (pc = "polling" => t.poll < polls)
        /\ t.ts <= now /\ (pc = "polling" => t.ts <= stamp)
    BY DEF RecordsTrue
  <2>2. CASE BeginPoll
    BY <1>1, <2>1, <2>2 DEF BeginPoll
  <2>3. CASE Crash
    BY <1>1, <2>1, <2>3 DEF Crash
  <2>4. CASE Tick
    BY <1>1, <2>1, <2>4 DEF Tick
  <2>5. CASE UNCHANGED vars
    BY <1>1, <2>1, <2>5 DEF vars
  <2> QED
    BY <2>2, <2>3, <2>4, <2>5
<1> QED
  BY <1>2, <1>3, <1>4

(* What the figures rest on.                                               *)
LEMMA HInvAlways == Spec => []HInv
<1>1. HInv /\ [Next]_vars => HInv'
  <2> SUFFICES ASSUME HInv, [Next]_vars PROVE HInv'
    OBVIOUS
  <2>1. CASE Start
    BY <2>1, StartKeepsHistory
  <2>2. CASE EndPoll
    BY <2>2, EndPollKeepsHistory
  <2>3. CASE BeginPoll \/ Crash \/ Tick \/ UNCHANGED vars
    <3>1. IInv'
      BY NextKeeps DEF HInv
    <3>2. UNCHANGED table
      BY <2>3 DEF BeginPoll, Crash, Tick, vars, table
    <3> QED
      BY <2>3, <3>1, <3>2, RestKeepsHistory DEF HInv
  <2> QED
    BY <2>1, <2>2, <2>3 DEF Next
<1> QED
  BY <1>1, InitHInv, PTL DEF Spec

-----------------------------------------------------------------------------
(* What readers are told.                                                  *)

(* Days are numbered by the instants that fall on them (query_history).    *)
LEMMA DayBounds ==
  ASSUME NEW n \in Nat
  PROVE  Day(n) \in Nat /\ Day(n) * PerDay <= n /\ n < Day(n) * PerDay + PerDay
<1>1. PerDay \in Nat \ {0}
  BY TimeAssumption
<1> QED
  BY <1>1 DEF Day

(* Days are counted from the first.                                        *)
LEMMA DaysAreNat == Days \subseteq Nat
<1>1. Day(MaxNow) \in Nat
  BY TimeAssumption, DayBounds
<1> QED
  BY <1>1 DEF Days

(* The retention outlasts every window (RETENTION_DAYS).                   *)
LEMMA WindowsAreKept ==
  ASSUME NEW days \in 0 .. MaxWindow
  PROVE  days * PerDay \in Nat /\ days * PerDay <= Horizon
<1>1. days \in Nat /\ Retention \in Nat /\ days <= Retention /\ PerDay \in Nat
  BY TimeAssumption, WindowAssumption
<1>2. \A a, b, p \in Nat : a <= b => a * p <= b * p
  OBVIOUS
<1> QED
  BY <1>1, <1>2 DEF Horizon

(* A row this version wrote comes from a sample of a poll.                 *)
LEMMA RowsAreSampled ==
  ASSUME HInv, NEW r \in checks, r.poll # 0 \/ r.ts >= Deployed
  PROVE  \E t \in took : \E s \in t.seen :
           r \in t.stored /\ r = RowOf(t, s) /\ s \in Sample /\ r.ts = t.ts /\ r.poll = t.poll
<1>1. r.poll # 0
  BY TimeAssumption DEF HInv, TableTells, IInv, TypeOK, Row
<1>2. PICK t \in took : r \in t.stored
  BY <1>1 DEF HInv, TableTells
<1>3. PICK s \in t.seen : r = RowOf(t, s)
  BY <1>2 DEF HInv, RecordsTrue
<1>4. s \in Sample
  BY DEF HInv, IInv, TypeOK, Poll
<1>5. r.ts = t.ts /\ r.poll = t.poll
  BY <1>3 DEF RowOf
<1> QED
  BY <1>2, <1>3, <1>4, <1>5

(* A stored row is in the table as long as it is in anybody's window.      *)
LEMMA WindowIsKept ==
  ASSUME HInv, NEW t \in took, NEW r \in t.stored, NEW days \in 0 .. MaxWindow,
         r.ts + days * PerDay >= now
  PROVE  r \in checks
<1>1. r.ts \in Nat /\ now \in Nat /\ began \in Nat /\ began <= now
  BY DEF HInv, IInv, TypeOK, Poll, Row, ClockOrdered
<1>2. days * PerDay \in Nat /\ days * PerDay <= Horizon /\ Horizon \in Nat
  BY WindowsAreKept, HorizonType
<1>3. r.ts + Horizon >= began
  BY <1>1, <1>2
<1> QED
  BY <1>3 DEF HInv, IInv, StoredStand

(* What a window holds of a finished day is what the polls of the day      *)
(* stored, no more and no less.                                            *)
StoredOn(d) == {r \in UNION {t.stored : t \in took} : Day(r.ts) = d}
DaysAreStored ==
  \A days \in 1 .. MaxWindow : \A d \in Days :
    Finished(d, days) => RowsOf(d, days) = StoredOn(d)
(* A finished day in the window has the rows its polls stored, and no      *)
(* other (query_history, prune_beyond_retention).                          *)
LEMMA FinishedDaysAreStored == HInv => DaysAreStored
<1> SUFFICES ASSUME HInv, NEW days \in 1 .. MaxWindow, NEW d \in Days, Finished(d, days)
             PROVE  RowsOf(d, days) = StoredOn(d)
  BY DEF DaysAreStored
<1>1. days \in 0 .. MaxWindow /\ d \in Nat /\ d * PerDay \in Nat /\ days * PerDay \in Nat /\ now \in Nat
      /\ Deployed \in Nat
  BY WindowsAreKept, DaysAreNat, TimeAssumption DEF HInv, IInv, TypeOK
<1>2. Deployed <= d * PerDay /\ d * PerDay + days * PerDay >= now
  BY DEF Finished
<1>3. \A r \in Row : Day(r.ts) = d => r.ts >= Deployed /\ r.ts + days * PerDay >= now
  <2> SUFFICES ASSUME NEW r \in Row, Day(r.ts) = d
               PROVE  r.ts >= Deployed /\ r.ts + days * PerDay >= now
    OBVIOUS
  <2>1. r.ts \in Nat
    BY DEF Row
  <2>2. d * PerDay <= r.ts
    BY <2>1, DayBounds
  <2> QED
    BY <1>1, <1>2, <2>1, <2>2
<1>4. checks \subseteq Row /\ \A t \in took : t.stored \subseteq Row
  BY DEF HInv, IInv, TypeOK, Poll
<1>5. ASSUME NEW r \in RowsOf(d, days)
      PROVE  r \in UNION {t.stored : t \in took} /\ Day(r.ts) = d
  <2>1. r \in checks /\ Day(r.ts) = d
    BY DEF RowsOf, OnDay, Window
  <2>2. PICK t \in took : r \in t.stored
    BY <1>3, <1>4, <2>1, RowsAreSampled
  <2> QED
    BY <2>1, <2>2
<1>6. ASSUME NEW t \in took, NEW r \in t.stored, Day(r.ts) = d
      PROVE  r \in RowsOf(d, days)
  <2>1. r.ts + days * PerDay >= now
    BY <1>3, <1>4, <1>6
  <2>2. r \in checks
    BY <1>1, <2>1, WindowIsKept
  <2> QED
    BY <1>6, <2>1, <2>2 DEF RowsOf, OnDay, Window
<1> QED
  BY <1>5, <1>6 DEF StoredOn

(* The rows behind the figures of a finished day stay as they are while    *)
(* the day is in the window, through polls, restarts, repairs that fail    *)
(* and the pruning (query_history, init).                                  *)
THEOREM FinishedDaysAreFixed == Spec => FinishedDaysStand
<1> DEFINE Stays == \A days \in 1 .. MaxWindow : \A d \in Days :
                      (Finished(d, days) /\ Finished(d, days)') => RowsOf(d, days)' = RowsOf(d, days)
<1>1. HInv /\ HInv' /\ [Next]_vars => Stays
  <2> SUFFICES ASSUME HInv, HInv', [Next]_vars,
                      NEW days \in 1 .. MaxWindow, NEW d \in Days,
                      Finished(d, days), Finished(d, days)'
               PROVE  RowsOf(d, days)' = RowsOf(d, days)
    OBVIOUS
  <2>1. RowsOf(d, days) = StoredOn(d)
    BY FinishedDaysAreStored DEF DaysAreStored
  <2>2. DaysAreStored'
    BY FinishedDaysAreStored, PTL
  <2>3. RowsOf(d, days)' = StoredOn(d)'
    BY <2>2 DEF DaysAreStored
  <2>4. CASE EndPoll
    <3>1. PICK t : took' = took \union {t} /\ t.ts = stamp
      <4>1. ASSUME NEW seen, NEW network, Insert(seen, network)
            PROVE  \E t : took' = took \union {t} /\ t.ts = stamp
        <5>1. PICK stored : took' = took \union {[poll |-> polls, ts |-> stamp,
                                                 seen |-> seen \union {Network(network)}, stored |-> stored]}
          BY <4>1 DEF Insert
        <5> DEFINE new == [poll |-> polls, ts |-> stamp,
                           seen |-> seen \union {Network(network)}, stored |-> stored]
        <5>2. took' = took \union {new} /\ new.ts = stamp
          BY <5>1
        <5> HIDE DEF new
        <5> QED
          BY <5>2
      <4> QED
        BY <4>1, <2>4 DEF EndPoll
    <3>2. t \in took' /\ \A r \in t.stored : r.ts = stamp
      BY <3>1 DEF HInv, RecordsTrue, RowOf
    <3>3. Day(stamp) # d
      BY <2>4 DEF Finished, EndPoll
    <3> QED
      BY <2>1, <2>3, <3>1, <3>2, <3>3 DEF StoredOn, Day
  <2>5. CASE UNCHANGED took
    BY <2>1, <2>3, <2>5 DEF StoredOn, Day
  <2> QED
    BY <2>4, <2>5 DEF Next, Start, BeginPoll, Crash, Tick, vars, table
<1>2. HInv /\ HInv' /\ [Next]_vars => [Stays]_vars
  BY <1>1
<1> QED
  BY <1>2, HInvAlways, PTL DEF Spec, FinishedDaysStand

(* The rows of a day since the deployment are in the table and ours.       *)
LEMMA RowsOfADay ==
  ASSUME HInv, NEW d \in Nat, Deployed <= d * PerDay, NEW r \in RowsOf(d, MaxWindow)
  PROVE  /\ r \in checks /\ r \in Row /\ Day(r.ts) = d
         /\ r.ts >= Deployed /\ r.ts + MaxWindow * PerDay >= now
<1>1. r \in checks /\ Day(r.ts) = d /\ r.ts + MaxWindow * PerDay >= now
  BY DEF RowsOf, OnDay, Window
<1>2. r \in Row /\ r.ts \in Nat
  BY <1>1 DEF HInv, IInv, TypeOK, Row
<1>3. d * PerDay \in Nat /\ d * PerDay <= r.ts
  BY <1>1, <1>2, DayBounds, TimeAssumption
<1> QED
  BY <1>1, <1>2, <1>3, TimeAssumption

(* Every sample is told apart by its row (record).                         *)
LEMMA RowsTellSamples ==
  ASSUME NEW t, NEW x \in Sample, NEW y \in Sample, RowOf(t, x) = RowOf(t, y)
  PROVE  x = y
<1>1. /\ x.service = y.service /\ x.provider = y.provider
      /\ x.region = y.region /\ x.status = y.status
  BY DEF RowOf
<1> QED
  BY <1>1 DEF Sample

(* A poll that lost no row stored every sample.                            *)
LEMMA CompleteIsWhole ==
  ASSUME HInv, NEW t \in took, Cardinality(t.stored) = Cardinality(t.seen), NEW s \in t.seen
  PROVE  RowOf(t, s) \in t.stored
<1> DEFINE T == {RowOf(t, x) : x \in t.seen}
           f == [x \in t.seen |-> RowOf(t, x)]
<1>1. IsFiniteSet(t.seen) /\ t.stored \subseteq T /\ t.seen \subseteq Sample
  BY DEF HInv, IInv, TypeOK, Poll, RecordsTrue
<1>2. f \in Surjection(t.seen, T)
  BY DEF Surjection
<1>3. IsFiniteSet(T) /\ Cardinality(T) <= Cardinality(t.seen)
  BY <1>1, <1>2, FS_Surjection
<1>4. Cardinality(t.stored) <= Cardinality(T) /\ Cardinality(T) \in Nat /\ Cardinality(t.seen) \in Nat
  BY <1>1, <1>3, FS_Subset, FS_CardinalityType
<1>5. Cardinality(T) = Cardinality(t.stored)
  BY <1>3, <1>4
<1>6. t.stored = T
  BY <1>1, <1>3, <1>5, FS_Subset
<1> QED
  BY <1>6

(* An instant is available only if enough members were found serving, and  *)
(* short only if they were not or a row was lost (query_capability_sli).   *)
THEOREM SliIsRight == Spec => []SliIsEarned
<1>1. HInv => SliIsEarned
  <2> SUFFICES ASSUME HInv, NEW spec \in Capabilities, NEW d \in Days, Deployed <= d * PerDay,
                      NEW t \in Polled(RowsOf(d, MaxWindow), spec)
               PROVE  /\ t \in Available(RowsOf(d, MaxWindow), spec) => ServedAt(spec, t)
                      /\ Complete(d) /\ ServedAt(spec, t) => t \in Available(RowsOf(d, MaxWindow), spec)
    BY DEF SliIsEarned
  <2> DEFINE R == RowsOf(d, MaxWindow)
             Told(x) == /\ x \in UNION {u.seen : u \in {v \in took : v.ts = t}}
                        /\ x.service # "observation" /\ x.provider \in spec.members
                        /\ x.status = "operational"
             served == {x.provider : x \in {y \in UNION {u.seen : u \in {v \in took : v.ts = t}} :
                          y.service # "observation" /\ y.provider \in spec.members /\ y.status = "operational"}}
  <2>1. d \in Nat /\ Enough(spec) \in Nat /\ IsFiniteSet(spec.members)
    BY DaysAreNat, CapabilityAssumption DEF Enough
  <2>2. served \subseteq spec.members /\ Serving(R, spec, t) \subseteq spec.members
    BY DEF Serving
  <2>3. IsFiniteSet(served) /\ IsFiniteSet(Serving(R, spec, t))
    BY <2>1, <2>2, FS_Subset
  <2>4. Cardinality(served) \in Nat /\ Cardinality(Serving(R, spec, t)) \in Nat
    BY <2>3, FS_CardinalityType
  <2>5. Serving(R, spec, t) \subseteq served
    <3> SUFFICES ASSUME NEW r \in R, r.service # "observation", r.status = "operational",
                        r.provider \in spec.members, r.ts = t
                 PROVE  r.provider \in served
      BY DEF Serving, Up, Samples, Observations
    <3>1. r \in checks /\ r.ts >= Deployed
      BY <2>1, RowsOfADay
    <3>2. PICK u \in took : \E s \in u.seen : r = RowOf(u, s) /\ s \in Sample /\ r.ts = u.ts
      BY <3>1, RowsAreSampled
    <3>3. PICK s \in u.seen : r = RowOf(u, s)
      BY <3>2
    <3>4. s.service = r.service /\ s.provider = r.provider /\ s.status = r.status /\ u.ts = t
      BY <3>2, <3>3 DEF RowOf
    <3>5. Told(s)
      BY <3>4
    <3> QED
      BY <3>4, <3>5
  <2>6. ASSUME Complete(d) PROVE served \subseteq Serving(R, spec, t)
    <3> SUFFICES ASSUME NEW u \in took, u.ts = t, NEW x \in u.seen, x.service # "observation",
                        x.provider \in spec.members, x.status = "operational"
                 PROVE  x.provider \in Serving(R, spec, t)
      OBVIOUS
    <3> DEFINE r == RowOf(u, x)
    <3>1. PICK q \in R : q.ts = t
      BY DEF Polled, Samples
    <3>2. Day(t) = d /\ t + MaxWindow * PerDay >= now
      BY <2>1, <3>1, RowsOfADay
    <3>3. r \in u.stored
      BY <2>6, <3>2, CompleteIsWhole DEF Complete
    <3>4. r.ts = t /\ r.service = x.service /\ r.provider = x.provider /\ r.status = x.status
      BY DEF RowOf
    <3> HIDE DEF r
    <3>5. MaxWindow \in 0 .. MaxWindow
      BY TimeAssumption
    <3>6. r \in checks
      BY <3>2, <3>3, <3>4, <3>5, WindowIsKept
    <3>7. r \in R
      BY <3>2, <3>4, <3>6 DEF RowsOf, OnDay, Window
    <3> QED
      BY <3>4, <3>7 DEF Serving, Up, Samples, Observations
  <2>7. ServedAt(spec, t) <=> Cardinality(served) >= Enough(spec)
    BY DEF ServedAt
  <2>8. t \in Available(R, spec) <=> Cardinality(Serving(R, spec, t)) >= Enough(spec)
    BY DEF Available
  <2> HIDE DEF served
  <2>9. Cardinality(Serving(R, spec, t)) <= Cardinality(served)
    BY <2>3, <2>5, FS_Subset
  <2>10. Complete(d) => Cardinality(served) <= Cardinality(Serving(R, spec, t))
    BY <2>3, <2>6, FS_Subset
  <2> QED
    BY <2>1, <2>4, <2>7, <2>8, <2>9, <2>10
<1> QED
  BY <1>1, HInvAlways, PTL

(* A set of several is none of the small ones.                             *)
LEMMA MoreThanOne ==
  ASSUME NEW S, NEW x, Cardinality(S) > 1 PROVE S # {} /\ S # {x}
  BY FS_EmptySet, FS_Singleton

(* A dissenting view is contradicted by that of another vantage, or of     *)
(* another lap of the same second, and every disagreement has a dissenter  *)
(* (query_vantage).                                                        *)
THEOREM DissentersAreReal == Spec => []DissentIsReal
<1>1. HInv => DissentIsReal
  <2> SUFFICES ASSUME HInv PROVE DissentIsReal
    OBVIOUS
  <2> DEFINE R == Observations(Window(MaxWindow))
             regions == {r.region : r \in R}
             other(x, u, y) ==
               /\ y.service = "observation" /\ y.provider = x.provider
               /\ u.poll # x.poll \/ y.region # x.region
  <2>1. R \subseteq checks /\ R \subseteq Row /\ Observations(R) = R
    BY DEF Observations, Window, HInv, IInv, TypeOK
  <2>2. ASSUME NEW p, NEW g, NEW x \in Dissent(R, p, g), x.poll > 0
        PROVE  \E u \in {v \in took : v.ts = x.ts} : \E y \in u.seen :
                 other(x, u, y) /\ y.status # x.status
    <3>1. x \in R /\ x.provider = p /\ Split(R, p, x.ts)
      BY <2>1 DEF Dissent
    <3>2. PICK r \in Views(R, p, x.ts) : r.status # x.status
      <4> DEFINE words == {r.status : r \in Views(R, p, x.ts)}
      <4>1. Cardinality(words) > 1
        BY <3>1 DEF Split
      <4>2. x.status \in words
        BY <2>1, <3>1 DEF Views
      <4>3. words # {x.status}
        BY <4>1, MoreThanOne
      <4> QED
        BY <4>2, <4>3
    <3>3. r \in R /\ r.provider = p /\ r.ts = x.ts /\ r.service = "observation"
      BY <2>1, <3>2 DEF Views, Observations
    <3>4. x.poll \in Nat /\ x.poll # 0
      BY <2>1, <2>2, <3>1 DEF Row
    <3>t. PICK t \in took : \E q \in t.seen : x = RowOf(t, q) /\ x.ts = t.ts /\ x.poll = t.poll
      BY <2>1, <3>1, <3>4, RowsAreSampled
    <3>q. PICK q \in t.seen : x = RowOf(t, q)
      BY <3>t
    <3>5. x.ts >= Deployed
      BY <3>t, TimeAssumption DEF HInv, RecordsTrue
    <3>6. PICK u \in took : \E s \in u.seen : r = RowOf(u, s) /\ r.ts = u.ts
      BY <2>1, <3>3, <3>5, RowsAreSampled
    <3>7. PICK s \in u.seen : r = RowOf(u, s)
      BY <3>6
    <3>8. s.service = "observation" /\ s.provider = x.provider /\ s.status = r.status /\ u.ts = x.ts
      BY <3>1, <3>3, <3>6, <3>7 DEF RowOf
    <3>9. u.poll # x.poll \/ s.region # x.region
      <4> SUFFICES ASSUME u.poll = x.poll, s.region = x.region PROVE FALSE
        OBVIOUS
      <4>1. u = t
        BY <3>t DEF HInv, PollsOrdered
      <4>2. q.service = x.service /\ q.provider = x.provider /\ q.region = x.region /\ q.status = x.status
        BY <3>q DEF RowOf
      <4>3. x.service = "observation"
        BY <3>1, <2>1 DEF Observations
      <4>4. Series(s) = Series(q)
        BY <3>8, <4>2, <4>3 DEF Series
      <4>5. s = q
        BY <4>1, <4>4 DEF HInv, RecordsTrue
      <4> QED
        BY <3>2, <3>8, <4>2, <4>5
    <3> QED
      BY <3>2, <3>8, <3>9
  <2>3. ASSUME NEW p
        PROVE  Cardinality(Disagreements(R, p)) <= Cardinality(UNION {Dissent(R, p, g) : g \in regions})
    <3> DEFINE D == UNION {Dissent(R, p, g) : g \in regions}
               when == [r \in D |-> r.ts]
               T == {when[r] : r \in D}
    <3>1. D \subseteq checks
      BY <2>1 DEF Dissent
    <3>2. IsFiniteSet(D)
      BY <3>1, FS_Subset DEF HInv, TableTells
    <3>3. IsFiniteSet(T) /\ Cardinality(T) <= Cardinality(D)
      <4>1. DOMAIN when = D
        OBVIOUS
      <4> HIDE DEF when, D
      <4> QED
        BY <3>2, <4>1, ImageIsFinite
    <3>4. Disagreements(R, p) \subseteq T
      <4> SUFFICES ASSUME NEW t, Split(R, p, t) PROVE t \in T
        BY DEF Disagreements
      <4> DEFINE words == {r.status : r \in Views(R, p, t)}
      <4>1. Cardinality(words) > 1
        BY DEF Split
      <4>2. words # {} /\ words # {"operational"}
        BY <4>1, MoreThanOne
      <4>3. PICK r \in Views(R, p, t) : r.status # "operational"
        BY <4>2
      <4>4. r \in R /\ r.provider = p /\ r.ts = t
        BY <2>1, <4>3 DEF Views
      <4>5. r.region \in regions /\ r \in Dissent(R, p, r.region)
        BY <2>1, <4>3, <4>4 DEF Dissent
      <4>6. r \in D
        BY <4>5
      <4> QED
        BY <4>4, <4>6
    <3>5. Cardinality(Disagreements(R, p)) <= Cardinality(T) /\ IsFiniteSet(Disagreements(R, p))
      BY <3>3, <3>4, FS_Subset
    <3> HIDE DEF D, T
    <3>6. Cardinality(Disagreements(R, p)) \in Nat /\ Cardinality(T) \in Nat /\ Cardinality(D) \in Nat
      BY <3>2, <3>3, <3>5, FS_CardinalityType
    <3>7. Cardinality(Disagreements(R, p)) <= Cardinality(D)
      BY <3>3, <3>5, <3>6
    <3> QED
      BY <3>7 DEF D
  <2> QED
    BY <2>2, <2>3 DEF DissentIsReal
<1> QED
  BY <1>1, HInvAlways, PTL

(* Among naturals there is a least one.                                    *)
LEMMA LeastExists ==
  ASSUME NEW T \in SUBSET Nat, T # {} PROVE \E i \in T : \A j \in T : i <= j
<1> DEFINE Less == OpToRel(<, Nat)
<1>1. IsWellFoundedOn(Less, Nat)
  BY NatLessThanWellFounded
<1>2. \A i, j \in Nat : <<j, i>> \in Less <=> j < i
  BY DEF OpToRel
<1> HIDE DEF Less
<1>3. PICK i \in T : \A j \in T : ~ (<<j, i>> \in Less)
  BY <1>1, WFMin
<1>4. \A j \in T : i <= j
  <2> SUFFICES ASSUME NEW j \in T PROVE i <= j
    OBVIOUS
  <2>1. i \in Nat /\ j \in Nat /\ ~(j < i)
    BY <1>2, <1>3
  <2> QED
    BY <2>1
<1> QED
  BY <1>4

(* What rounding to tenths of a percent hides (round1).                    *)
LEMMA RoundedType ==
  ASSUME NEW b \in Nat \ {0}, NEW a \in Nat PROVE Rounded(a, b) \in Nat
<1>1. 2 * a + b \in Nat /\ 2 * b \in Nat \ {0}
  OBVIOUS
<1>2. (2 * a + b) \div (2 * b) \in Nat
  BY <1>1
<1> QED
  BY <1>2 DEF Rounded

(* A share that rounds to all lacks one in two thousand at most (round1).  *)
LEMMA RoundingHides ==
  ASSUME NEW b \in Nat \ {0}, NEW a \in Nat, Rounded(1000 * a, b) >= 1000
  PROVE  2000 * (b - a) <= b
<1>1. (2 * (1000 * a) + b) \div (2 * b) >= 1000
  BY DEF Rounded
<1> QED
  BY <1>1

(* A share of a finite set, rounded (round1).                              *)
LEMMA ShareType ==
  ASSUME NEW S, IsFiniteSet(S), S # {}, NEW T \in SUBSET S
  PROVE  Rounded(1000 * Cardinality(T), Cardinality(S)) \in Nat
<1> DEFINE a == Cardinality(T)
           b == Cardinality(S)
<1>1. a \in Nat /\ b \in Nat \ {0}
  BY FS_Subset, FS_CardinalityType, FS_EmptySet
<1> HIDE DEF a, b
<1>2. 1000 * a \in Nat
  BY <1>1
<1>3. Rounded(1000 * a, b) \in Nat
  BY <1>1, <1>2, RoundedType
<1> QED
  BY <1>3 DEF a, b

(* The same of a part of a finite set.                                     *)
LEMMA ShareHides ==
  ASSUME NEW S, IsFiniteSet(S), S # {}, NEW T \in SUBSET S,
         Rounded(1000 * Cardinality(T), Cardinality(S)) >= 1000
  PROVE  2000 * Cardinality(S \ T) <= Cardinality(S)
<1>1. IsFiniteSet(T)
  BY FS_Subset
<1>2. Cardinality(T) \in Nat /\ Cardinality(S) \in Nat \ {0}
  BY <1>1, FS_CardinalityType, FS_EmptySet
<1>3. Cardinality(S \ T) = Cardinality(S) - Cardinality(T)
  <2>1. S \cap T = T
    OBVIOUS
  <2> QED
    BY <2>1, FS_Difference
<1> QED
  BY <1>2, <1>3, RoundingHides

(* The figures of a day that has rows are shares, and hide at most one     *)
(* failure in two thousand (query_history, query_capability_sli).          *)
LEMMA PolledIsFinite ==
  ASSUME NEW R, IsFiniteSet(R), NEW spec PROVE IsFiniteSet(Polled(R, spec))
<1> DEFINE Q == {q \in Samples(R) : q.provider \in spec.members}
           when == [q \in Q |-> q.ts]
<1>1. IsFiniteSet(Q)
  BY FS_Subset DEF Samples
<1>2. Polled(R, spec) = {when[q] : q \in Q} /\ DOMAIN when = Q
  BY DEF Polled
<1> HIDE DEF Q, when
<1> QED
  BY <1>1, <1>2, ImageIsFinite

(* The figures of a day that has rows are shares, and hide at most one     *)
(* failure in two thousand (query_history, query_capability_sli).          *)
LEMMA SliType ==
  ASSUME NEW R, IsFiniteSet(R), NEW spec \in Measured(R)
  PROVE  Sli(R, spec) \in Nat
<1>1. IsFiniteSet(Polled(R, spec)) /\ Polled(R, spec) # {}
  BY PolledIsFinite DEF Measured
<1>2. Available(R, spec) \in SUBSET Polled(R, spec)
  BY DEF Available
<1> QED
  BY <1>1, <1>2, ShareType DEF Sli

(* An uptime is a whole number of tenths.                                  *)
LEMMA UptimeType ==
  ASSUME NEW R, IsFiniteSet(R), R # {} PROVE Uptime(R) \in Nat
<1>1. Up(R) \in SUBSET R
  BY DEF Up
<1> QED
  BY <1>1, ShareType DEF Uptime

(* A full SLI hides as few instants (query_capability_sli).                *)
LEMMA SliHides ==
  ASSUME NEW R, IsFiniteSet(R), NEW spec \in Measured(R)
  PROVE  Sli(R, spec) >= 1000 =>
           2000 * Cardinality(Polled(R, spec) \ Available(R, spec)) <= Cardinality(Polled(R, spec))
<1>1. IsFiniteSet(Polled(R, spec)) /\ Polled(R, spec) # {}
  BY PolledIsFinite DEF Measured
<1>2. Available(R, spec) \in SUBSET Polled(R, spec)
  BY DEF Available
<1> QED
  BY <1>1, <1>2, ShareHides DEF Sli

(* A full uptime hides as few samples (query_history).                     *)
LEMMA UptimeHides ==
  ASSUME NEW R, IsFiniteSet(R), R # {}
  PROVE  Uptime(R) >= 1000 =>
           2000 * Cardinality({q \in R : q.status # "operational"}) <= Cardinality(R)
<1>1. Up(R) \in SUBSET R /\ R \ Up(R) = {q \in R : q.status # "operational"}
  BY DEF Up
<1> QED
  BY <1>1, ShareHides DEF Uptime

(* A day is published with full service uptime only if the pools stood and *)
(* nothing outside them was found wrong more often than rounding hides     *)
(* (query_history).                                                        *)
THEOREM FullUptimeIsRight == Spec => []FullUptimeIsEarned
<1>1. HInv => FullUptimeIsEarned
  <2> SUFFICES ASSUME HInv, NEW d \in Days, Deployed <= d * PerDay,
                      ServiceUptime(RowsOf(d, MaxWindow)) = 1000
               PROVE  LET R == RowsOf(d, MaxWindow) IN
                      /\ \A spec \in Capabilities :
                           2000 * Cardinality(Polled(R, spec) \ Available(R, spec)) <= Cardinality(Polled(R, spec))
                      /\ \A r \in Samples(R) : r.provider \notin Pooled \union {"network"} =>
                           2000 * Cardinality({q \in Of(R, Series(r)) : q.status # "operational"})
                             <= Cardinality(Of(R, Series(r)))
    BY DEF FullUptimeIsEarned
  <2> DEFINE R == RowsOf(d, MaxWindow)
  <2>1. IsFiniteSet(R)
    BY FS_Subset DEF RowsOf, OnDay, Window, HInv, TableTells
  <2> HIDE DEF R
  <2>2. ASSUME NEW s \in Singles(R)
        PROVE  IsFiniteSet(Of(R, s)) /\ Of(R, s) # {}
    <3>1. Of(R, s) \subseteq R
      BY DEF Of, Samples
    <3>2. Of(R, s) # {}
      BY DEF Singles, SeriesOf, Of
    <3> QED
      BY <2>1, <3>1, <3>2, FS_Subset
  <2>3. Worst(R) \subseteq Nat
    <3>1. ASSUME NEW spec \in Measured(R) PROVE Sli(R, spec) \in Nat
      BY <2>1, SliType
    <3>2. ASSUME NEW s \in Singles(R) PROVE Uptime(Of(R, s)) \in Nat
      BY <2>2, UptimeType
    <3> QED
      BY <3>1, <3>2 DEF Worst
  <2>4. \A n \in Worst(R) : n >= 1000
    <3>1. CASE Worst(R) = {}
      BY <3>1
    <3>2. CASE Worst(R) # {}
      <4>1. \E n \in Worst(R) : \A m \in Worst(R) : n <= m
        BY <2>3, <3>2, LeastExists
      <4>2. \A m \in Worst(R) : ServiceUptime(R) <= m
        BY <3>2, <4>1 DEF ServiceUptime
      <4> QED
        BY <2>3, <4>2 DEF R
    <3> QED
      BY <3>1, <3>2
  <2>5. ASSUME NEW spec \in Capabilities
        PROVE  2000 * Cardinality(Polled(R, spec) \ Available(R, spec)) <= Cardinality(Polled(R, spec))
    <3>1. CASE spec \in Measured(R)
      <4>1. Sli(R, spec) \in Worst(R)
        BY <3>1 DEF Worst
      <4> QED
        BY <2>1, <2>4, <3>1, <4>1, SliHides
    <3>2. CASE spec \notin Measured(R)
      <4>1. Polled(R, spec) = {}
        BY <3>2 DEF Measured
      <4>2. Cardinality({}) = 0 /\ {} \ Available(R, spec) = {}
        BY FS_EmptySet
      <4> QED
        BY <4>1, <4>2
    <3> QED
      BY <3>1, <3>2
  <2>6. ASSUME NEW r \in Samples(R), r.provider \notin Pooled \union {"network"}
        PROVE  2000 * Cardinality({q \in Of(R, Series(r)) : q.status # "operational"})
                 <= Cardinality(Of(R, Series(r)))
    <3>1. Series(r) \in Singles(R)
      BY <2>6 DEF Singles, SeriesOf, Series
    <3>2. Uptime(Of(R, Series(r))) \in Worst(R)
      BY <3>1 DEF Worst
    <3> QED
      BY <2>2, <2>4, <3>1, <3>2, UptimeHides
  <2> QED
    BY <2>5, <2>6 DEF R
<1> QED
  BY <1>1, HInvAlways, PTL

-----------------------------------------------------------------------------
(* Incidents.                                                              *)

(* The numbers and times of polls and rows are naturals.                   *)
LEMMA PollTypes ==
  ASSUME HInv
  PROVE  /\ \A t \in took : t.poll \in Nat /\ t.poll > 0 /\ t.ts \in Nat /\ t.ts >= Deployed
         /\ \A r \in checks : r.poll \in Nat /\ r.ts \in Nat
         /\ Deployed \in Nat
<1>1. \A t \in took : t \in Poll /\ t.poll \in 1 .. polls /\ Deployed <= t.ts
  BY DEF HInv, IInv, TypeOK, RecordsTrue
<1>2. checks \subseteq Row
  BY DEF HInv, IInv, TypeOK
<1> QED
  BY <1>1, <1>2, TimeAssumption DEF Poll, Row

(* A row says what its poll found of the series, and a poll found one      *)
(* thing (poll_once).                                                      *)
LEMMA RowsTell ==
  ASSUME HInv, NEW R \in SUBSET checks, NEW s, NEW r \in Of(R, s), r.poll > 0
  PROVE  \E t \in took : /\ t.poll = r.poll /\ t.ts = r.ts /\ r \in t.stored
                         /\ Tells(t, s) /\ (Out(t, s) <=> r.status = "outage")
<1>1. r \in checks /\ Series(r) = s
  BY DEF Of, Samples
<1>2. r.poll # 0
  BY <1>1, PollTypes
<1>3. PICK t \in took : \E x \in t.seen :
        r \in t.stored /\ r = RowOf(t, x) /\ x \in Sample /\ r.ts = t.ts /\ r.poll = t.poll
  BY <1>1, <1>2, RowsAreSampled
<1>4. PICK x \in t.seen : r = RowOf(t, x)
  BY <1>3
<1>5. Series(x) = s /\ x.status = r.status
  BY <1>1, <1>4 DEF RowOf, Series
<1>6. \A y \in t.seen : Series(y) = s => y = x
  BY <1>5 DEF HInv, RecordsTrue
<1>7. Tells(t, s) /\ (Out(t, s) <=> r.status = "outage")
  BY <1>5, <1>6 DEF Tells, Out
<1> QED
  BY <1>3, <1>7

(* A poll has one row of a series.                                         *)
LEMMA OneRowAPoll ==
  ASSUME HInv, NEW R \in SUBSET checks, NEW s, NEW q \in Of(R, s), NEW r \in Of(R, s),
         r.poll > 0, q.poll = r.poll
  PROVE  q = r
<1>1. q \in checks /\ r \in checks /\ Series(q) = s /\ Series(r) = s
  BY DEF Of, Samples
<1>2. q.poll # 0 /\ r.poll # 0
  BY <1>1, PollTypes
<1>3. PICK t \in took : \E x \in t.seen : q = RowOf(t, x) /\ q.poll = t.poll
  BY <1>1, <1>2, RowsAreSampled
<1>4. PICK u \in took : \E y \in u.seen : r = RowOf(u, y) /\ r.poll = u.poll
  BY <1>1, <1>2, RowsAreSampled
<1>5. t = u
  BY <1>3, <1>4 DEF HInv, PollsOrdered
<1>6. PICK x \in t.seen : q = RowOf(t, x)
  BY <1>3
<1>7. PICK y \in t.seen : r = RowOf(t, y)
  BY <1>4, <1>5
<1>8. Series(x) = s /\ Series(y) = s
  BY <1>1, <1>6, <1>7 DEF RowOf, Series
<1>9. x = y
  BY <1>8 DEF HInv, RecordsTrue
<1> QED
  BY <1>6, <1>7, <1>9

(* Our rows lie in the order of their polls, after those of earlier        *)
(* versions (query_history orders by the timestamp).                       *)
LEMMA RowsAreOrdered ==
  ASSUME HInv, NEW q \in checks, NEW r \in checks, r.poll > 0
  PROVE  /\ q.poll < r.poll => Earlier(q, r)
         /\ Earlier(r, q) => r.poll < q.poll
<1>1. q.poll \in Nat /\ r.poll \in Nat /\ q.ts \in Nat /\ r.ts \in Nat /\ Deployed \in Nat
  BY PollTypes
<1>2. PICK t \in took : r.ts = t.ts /\ r.poll = t.poll
  <2>1. r.poll # 0
    BY <1>1
  <2> QED
    BY <2>1, RowsAreSampled
<1>3. r.ts >= Deployed
  BY <1>2, PollTypes
<1>4. CASE q.poll = 0
  <2>1. q.ts < Deployed
    BY <1>4 DEF HInv, TableTells
  <2> QED
    BY <1>1, <1>3, <1>4, <2>1 DEF Earlier
<1>5. CASE q.poll # 0
  <2>1. PICK u \in took : q.ts = u.ts /\ q.poll = u.poll
    BY <1>5, RowsAreSampled
  <2>2. (t.poll = u.poll => t = u) /\ (t.poll < u.poll => t.ts <= u.ts) /\ (u.poll < t.poll => u.ts <= t.ts)
    BY DEF HInv, PollsOrdered
  <2>3. /\ r.poll = q.poll => r.ts = q.ts
        /\ r.poll < q.poll => r.ts <= q.ts
        /\ q.poll < r.poll => q.ts <= r.ts
    BY <1>2, <2>1, <2>2
  <2> QED
    BY <1>1, <2>3 DEF Earlier
<1> QED
  BY <1>4, <1>5

\* The polls since which s was out without a word to the contrary, up to the n-th.
Run(s, n) ==
  {t \in took : /\ Out(t, s) /\ t.poll <= n
                /\ \A v \in took : v.poll >= t.poll /\ v.poll <= n /\ Tells(v, s) => Out(v, s)}

(* Every run of failures has an onset.                                     *)
LEMMA RunBegins ==
  ASSUME HInv, NEW s, NEW t \in took, Out(t, s)
  PROVE  \E u \in Onsets(s) : u \in Run(s, t.poll)
<1> DEFINE n == t.poll
           N == {u.poll : u \in Run(s, n)}
<1>1. \A u \in took : u.poll \in Nat
  BY PollTypes
<1>2. \A u, v \in took : u.poll = v.poll => u = v
  BY DEF HInv, PollsOrdered
<1>3. t \in Run(s, n)
  <2>1. \A v \in took : v.poll >= t.poll /\ v.poll <= n => v = t
    BY <1>1, <1>2
  <2> QED
    BY <1>1, <2>1 DEF Run
<1>4. N \in SUBSET Nat /\ N # {}
  BY <1>1, <1>3 DEF Run
<1> HIDE DEF N
<1>5. PICK m \in N : \A k \in N : m <= k
  BY <1>4, LeastExists
<1>6. PICK u \in Run(s, n) : u.poll = m
  BY <1>5 DEF N
<1>7. \A v \in Run(s, n) : u.poll <= v.poll
  BY <1>5, <1>6 DEF N
<1> HIDE DEF n
<1>8. u \in took /\ Out(u, s) /\ u.poll <= n /\ u.poll \in Nat /\ n \in Nat
      /\ \A v \in took : v.poll >= u.poll /\ v.poll <= n /\ Tells(v, s) => Out(v, s)
  BY <1>1, <1>6 DEF Run, n
<1>9. ASSUME NEW w \in took, w.poll < u.poll, Out(w, s),
             ~\E v \in took : v.poll \in w.poll + 1 .. u.poll - 1 /\ Tells(v, s)
      PROVE  FALSE
  <2>1. w.poll \in Nat
    BY <1>1
  <2>2. ASSUME NEW v \in took, v.poll >= w.poll, v.poll <= n, Tells(v, s) PROVE Out(v, s)
    <3>1. v.poll \in Nat
      BY <1>1
    <3>2. CASE v.poll = w.poll
      BY <1>2, <1>9, <3>2
    <3>3. CASE v.poll >= u.poll
      BY <1>8, <2>2, <3>3
    <3>4. CASE v.poll > w.poll /\ v.poll < u.poll
      <4>1. v.poll \in w.poll + 1 .. u.poll - 1
        BY <1>8, <2>1, <3>1, <3>4
      <4> QED
        BY <1>9, <2>2, <4>1
    <3> QED
      BY <1>8, <2>1, <2>2, <3>1, <3>2, <3>3, <3>4
  <2>3. w \in Run(s, n)
    BY <1>8, <1>9, <2>1, <2>2 DEF Run
  <2> QED
    BY <1>7, <1>8, <1>9, <2>1, <2>3
<1>10. u \in Onsets(s)
  BY <1>8, <1>9 DEF Onsets
<1> QED
  BY <1>6, <1>10 DEF n

(* Between two incidents of a series a row says that it was back (New).    *)
LEMMA BackBetweenIncidents ==
  ASSUME HInv, NEW R \in SUBSET checks, NEW s, NEW q \in Incidents(R, s), NEW r \in Incidents(R, s),
         q.poll > 0, q.poll < r.poll
  PROVE  \E p \in Of(R, s) : q.poll <= p.poll /\ p.poll < r.poll /\ p.status # "outage"
<1> DEFINE before == {x \in Of(R, Series(r)) : Earlier(x, r)}
           Ahead == {r.poll - x.poll : x \in {y \in before : y.poll < r.poll}}
<1>1. q \in Of(R, s) /\ r \in Of(R, s) /\ Series(r) = s /\ New(R, r) /\ Of(R, s) \subseteq checks
  BY DEF Incidents, Of, Samples
<1>2. \A x \in Of(R, s) : x.poll \in Nat
  BY <1>1, PollTypes
<1>3. q \in before
  BY <1>1, <1>2, RowsAreOrdered
<1>4. Ahead \in SUBSET Nat /\ Ahead # {}
  BY <1>1, <1>2, <1>3
<1> HIDE DEF Ahead
<1>5. PICK m \in Ahead : \A k \in Ahead : m <= k
  BY <1>4, LeastExists
<1>6. PICK p \in before : p.poll < r.poll /\ m = r.poll - p.poll
  BY <1>5 DEF Ahead
<1>7. p \in Of(R, s) /\ \A x \in before : x.poll < r.poll => x.poll <= p.poll
  <2> SUFFICES ASSUME NEW x \in before, x.poll < r.poll PROVE x.poll <= p.poll
    BY <1>1
  <2>1. r.poll - x.poll \in Ahead
    BY DEF Ahead
  <2> QED
    BY <1>1, <1>2, <1>5, <1>6, <2>1
<1>8. q.poll <= p.poll
  BY <1>3, <1>7
<1>9. \A x \in before : ~Earlier(p, x)
  <2> SUFFICES ASSUME NEW x \in before, Earlier(p, x) PROVE FALSE
    OBVIOUS
  <2>1. x \in Of(R, s) /\ Earlier(x, r) /\ p \in checks /\ x \in checks /\ r \in checks
    BY <1>1, <1>7
  <2>2. p.poll > 0 /\ p.poll \in Nat /\ x.poll \in Nat /\ r.poll \in Nat
    BY <1>1, <1>2, <1>7, <1>8, <2>1
  <2>3. p.poll < x.poll
    BY <2>1, <2>2, RowsAreOrdered
  <2>4. x.poll < r.poll
    <3>1. x.poll > 0
      BY <2>2, <2>3
    <3> QED
      BY <2>1, <3>1, RowsAreOrdered
  <2> QED
    BY <1>7, <2>2, <2>3, <2>4
<1>10. p.status # "outage"
  BY <1>1, <1>6, <1>9 DEF New
<1> QED
  BY <1>6, <1>7, <1>8, <1>10

\* The onset an incident of ours stands for.
Onset(s, r) == CHOOSE u : u \in Onsets(s) /\ u \in Run(s, r.poll)

(* The failure of an incident began with a poll that had an onset.         *)
LEMMA IncidentsHaveOnsets ==
  ASSUME HInv, NEW R \in SUBSET checks, NEW s, NEW r \in Incidents(R, s), r.poll > 0
  PROVE  Onset(s, r) \in Onsets(s) /\ Onset(s, r) \in Run(s, r.poll)
<1>1. r \in Of(R, s) /\ r.status = "outage"
  BY DEF Incidents
<1>2. PICK t \in took : t.poll = r.poll /\ Out(t, s)
  BY <1>1, RowsTell
<1>3. \E u : u \in Onsets(s) /\ u \in Run(s, r.poll)
  BY <1>2, RunBegins
<1> QED
  BY <1>3 DEF Onset

(* The onset of an incident comes after every earlier incident, and after  *)
(* a row of the window that tells so.                                      *)
LEMMA OnsetsAreApart ==
  ASSUME HInv, NEW R \in SUBSET checks, NEW s, NEW q \in Incidents(R, s), NEW r \in Incidents(R, s),
         q.poll > 0, q.poll < r.poll
  PROVE  Onset(s, q) # Onset(s, r) /\ \E p \in R : p.ts <= Onset(s, r).ts
<1>1. q \in Of(R, s) /\ r \in Of(R, s) /\ Of(R, s) \subseteq R /\ R \subseteq checks
  BY DEF Incidents, Of, Samples
<1>2. q.poll \in Nat /\ r.poll \in Nat /\ r.poll > 0
  BY <1>1, PollTypes
<1>3. /\ Onset(s, q) \in Run(s, q.poll)
      /\ Onset(s, r) \in Run(s, r.poll)
  BY <1>2, IncidentsHaveOnsets
<1> DEFINE u == Onset(s, r)
           w == Onset(s, q)
<1> HIDE DEF u, w
<1>4. /\ w \in took /\ w.poll <= q.poll /\ u \in took /\ u.poll <= r.poll
      /\ \A v \in took : v.poll >= u.poll /\ v.poll <= r.poll /\ Tells(v, s) => Out(v, s)
  BY <1>3 DEF Run, u, w
<1>5. PICK p \in Of(R, s) : q.poll <= p.poll /\ p.poll < r.poll /\ p.status # "outage"
  BY BackBetweenIncidents
<1>6. p \in checks /\ p.poll \in Nat /\ p.poll > 0
  BY <1>1, <1>2, <1>5, PollTypes
<1>7. PICK v \in took : v.poll = p.poll /\ v.ts = p.ts /\ Tells(v, s) /\ ~Out(v, s)
  BY <1>5, <1>6, RowsTell
<1>8. u.poll \in Nat /\ w.poll \in Nat /\ v.poll \in Nat
  BY <1>4, PollTypes
<1>9. v.poll < u.poll
  BY <1>2, <1>4, <1>5, <1>7, <1>8
<1>10. v.ts <= u.ts
  BY <1>4, <1>9 DEF HInv, PollsOrdered
<1>11. u # w
  BY <1>2, <1>4, <1>5, <1>7, <1>8, <1>9
<1> QED
  BY <1>1, <1>7, <1>10, <1>11 DEF u, w

(* The first outage of a window begins an incident.                        *)
LEMMA FirstOutageIsIncident ==
  ASSUME HInv, NEW R \in SUBSET checks, NEW s, NEW r \in Of(R, s), r.status = "outage"
  PROVE  Incidents(R, s) # {}
<1> DEFINE O == {x \in Of(R, s) : x.status = "outage"}
           T == {x.ts : x \in O}
<1>1. O \subseteq checks /\ \A x \in O : x.ts \in Nat /\ x.poll \in Nat
  BY PollTypes DEF Of, Samples
<1>2. T \in SUBSET Nat /\ T # {}
  BY <1>1
<1> HIDE DEF T
<1>3. PICK m \in T : \A k \in T : m <= k
  BY <1>2, LeastExists
<1> DEFINE P == {x.poll : x \in {y \in O : y.ts = m}}
<1>4. P \in SUBSET Nat /\ P # {}
  BY <1>1, <1>3 DEF T
<1> HIDE DEF P
<1>5. PICK n \in P : \A k \in P : n <= k
  BY <1>4, LeastExists
<1>6. PICK x \in O : x.ts = m /\ x.poll = n
  BY <1>5 DEF P
<1>7. \A y \in O : ~Earlier(y, x)
  <2> SUFFICES ASSUME NEW y \in O, Earlier(y, x) PROVE FALSE
    OBVIOUS
  <2>1. m <= y.ts /\ m \in Nat /\ y.ts \in Nat /\ y.poll \in Nat /\ n \in Nat
    BY <1>1, <1>2, <1>3, <1>4, <1>5 DEF T
  <2>2. y.ts = m /\ y.poll < n
    BY <1>6, <2>1 DEF Earlier
  <2>3. y.poll \in P
    BY <2>2 DEF P
  <2> QED
    BY <1>5, <2>1, <2>2, <2>3
<1>8. Series(x) = s /\ x \in Of(R, s) /\ x.status = "outage"
  BY <1>6 DEF Of
<1>9. New(R, x)
  BY <1>7, <1>8 DEF New
<1> QED
  BY <1>8, <1>9 DEF Incidents

(* An injection between finite sets.                                       *)
LEMMA NoMoreThan ==
  ASSUME NEW S, NEW T, IsFiniteSet(T), NEW f \in [S -> T], \A x, y \in S : x # y => f[x] # f[y]
  PROVE  IsFiniteSet(S) /\ Cardinality(S) <= Cardinality(T)
<1>1. f \in Injection(S, T)
  BY DEF Injection, IsInjective
<1> QED
  BY <1>1, FS_Injection

(* However many polls, blind laps, midnights, restarts and lost rows fall  *)
(* into a failure, it is one incident: no series has more incidents than   *)
(* onsets of a failure, and at most one of them began before the window    *)
(* (query_history).                                                        *)
THEOREM FailuresAreIncidents == Spec => []OneFailureOneIncident
<1>1. HInv => OneFailureOneIncident
  <2> SUFFICES ASSUME HInv, NEW days \in 1 .. MaxWindow, NEW s
               PROVE  LET W == Window(days)
                          ofOurs == {r \in Incidents(W, s) : r.poll > 0}
                          inside == {t \in Onsets(s) : t.ts + days * PerDay >= now}
                      IN /\ Cardinality(ofOurs) <= Cardinality(inside) + 1
                         /\ Cardinality(ofOurs) <= Cardinality(Onsets(s))
                         /\ (\E r \in Of(W, s) : r.status = "outage") => Incidents(W, s) # {}
    BY DEF OneFailureOneIncident
  <2> DEFINE W == Window(days)
             ofOurs == {r \in Incidents(W, s) : r.poll > 0}
             inside == {t \in Onsets(s) : t.ts + days * PerDay >= now}
  <2>1. W \in SUBSET checks /\ \A r \in W : r.ts + days * PerDay >= now
    BY DEF Window
  <2>2. \A r \in ofOurs : r \in Of(W, s) /\ r \in checks /\ r.poll \in Nat
    BY <2>1, PollTypes DEF Incidents, Of, Samples
  <2>3. IsFiniteSet(Onsets(s)) /\ Onsets(s) \subseteq took
    BY FS_Subset DEF Onsets, HInv, PollsOrdered
  <2>4. IsFiniteSet(inside)
    BY <2>3, FS_Subset
  <2>5. \A r \in ofOurs : Onset(s, r) \in Onsets(s)
    BY <2>1, IncidentsHaveOnsets
  <2>6. \A q, r \in ofOurs : q # r => q.poll < r.poll \/ r.poll < q.poll
    BY <2>1, <2>2, OneRowAPoll
  <2>7. \A q, r \in ofOurs : q.poll < r.poll => Onset(s, q) # Onset(s, r) /\ Onset(s, r) \in inside
    <3> SUFFICES ASSUME NEW q \in ofOurs, NEW r \in ofOurs, q.poll < r.poll
                 PROVE  Onset(s, q) # Onset(s, r) /\ Onset(s, r) \in inside
      OBVIOUS
    <3>1. Onset(s, q) # Onset(s, r)
      BY <2>1, OnsetsAreApart
    <3>2. PICK p \in W : p.ts <= Onset(s, r).ts
      BY <2>1, OnsetsAreApart
    <3>3. p.ts \in Nat /\ Onset(s, r).ts \in Nat /\ now \in Nat /\ days * PerDay \in Nat
      BY <2>1, <2>3, <2>5, PollTypes, WindowsAreKept DEF HInv, IInv, TypeOK
    <3>4. Onset(s, r).ts + days * PerDay >= now
      BY <2>1, <3>2, <3>3
    <3> QED
      BY <2>5, <3>1, <3>4
  <2>8. IsFiniteSet(ofOurs) /\ Cardinality(ofOurs) <= Cardinality(Onsets(s))
    <3> DEFINE f == [r \in ofOurs |-> Onset(s, r)]
    <3>1. f \in [ofOurs -> Onsets(s)]
      BY <2>5
    <3>2. \A q, r \in ofOurs : q # r => f[q] # f[r]
      BY <2>6, <2>7
    <3> HIDE DEF f, ofOurs
    <3> QED
      BY <2>3, <3>1, <3>2, NoMoreThan
  <2>9. Cardinality(ofOurs) <= Cardinality(inside) + 1
    <3>1. CASE ofOurs = {}
      <4>1. Cardinality(ofOurs) = 0
        BY <3>1, FS_EmptySet
      <4> QED
        BY <2>4, <4>1, FS_CardinalityType
    <3>2. CASE ofOurs # {}
      <4> DEFINE N == {r.poll : r \in ofOurs}
      <4>1. N \in SUBSET Nat /\ N # {}
        BY <2>2, <3>2
      <4> HIDE DEF N
      <4>2. PICK m \in N : \A k \in N : m <= k
        BY <4>1, LeastExists
      <4>3. PICK first \in ofOurs : \A r \in ofOurs : first.poll <= r.poll
        BY <4>2 DEF N
      <4> DEFINE others == ofOurs \ {first}
                 f == [r \in others |-> Onset(s, r)]
      <4>4. \A r \in others : first.poll < r.poll
        BY <2>2, <2>6, <4>3
      <4>5. f \in [others -> inside]
        BY <2>7, <4>4
      <4>6. \A q, r \in others : q # r => f[q] # f[r]
        BY <2>6, <2>7
      <4>7. IsFiniteSet(ofOurs) /\ IsFiniteSet(inside)
        BY <2>4, <2>8
      <4> HIDE DEF ofOurs, inside, f
      <4>8. Cardinality(others) = Cardinality(ofOurs) - 1
        BY <4>7, FS_RemoveElement
      <4> HIDE DEF others
      <4>9. Cardinality(others) <= Cardinality(inside) /\ IsFiniteSet(others)
        BY <4>5, <4>6, <4>7, NoMoreThan
      <4>10. Cardinality(ofOurs) \in Nat /\ Cardinality(inside) \in Nat /\ Cardinality(others) \in Nat
        BY <4>7, <4>9, FS_CardinalityType
      <4> QED
        BY <4>8, <4>9, <4>10
    <3> QED
      BY <3>1, <3>2
  <2>10. (\E r \in Of(W, s) : r.status = "outage") => Incidents(W, s) # {}
    BY <2>1, FirstOutageIsIncident
  <2> QED
    BY <2>8, <2>9, <2>10
<1> QED
  BY <1>1, HInvAlways, PTL
=============================================================================
