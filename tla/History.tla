------------------------------ MODULE History ------------------------------
(***************************************************************************)
(* The uptime table, status_checks (src/history.rs): poll_once appends one *)
(* row per series and never changes one again; every start of the process  *)
(* repairs the rows that earlier versions left and removes those past the  *)
(* retention, statement by statement, each of which may fail by itself.    *)
(* Time is counted in the seconds of the stored timestamps that matter, a  *)
(* few to the day.  What a poll measures is Sweep's matter; here it is one *)
(* of the Outcomes.                                                        *)
(***************************************************************************)
EXTENDS Naturals, FiniteSets

CONSTANTS
  PerDay,       \* instants in a day
  Retention,    \* RETENTION_DAYS
  MaxWindow,    \* the most days a reader may ask for
  RepairBefore, \* LEGACY_REPAIR_BEFORE
  BraveBefore,  \* BRAVE_PURGE_BEFORE
  Deployed,     \* when this version is first started
  Name,         \* the names of services, providers and regions
  Outcomes,     \* the sets of samples a sighted poll may have to record
  Legacy,       \* the rows that earlier versions may have left
  MaxNow,       \* bound: the end of time
  MaxPolls,     \* bound: polls
  MaxStarts,    \* bound: starts of the process
  MaxLost,      \* bound: rows that are not inserted
  MaxRefused    \* bound: statements that fail at one start

Status == {"operational", "degraded", "outage"}
Sample == [service : Name, provider : Name, region : Name, status : Status]
\* `poll' and `as' tell which insert a row comes from; a query does not see them.
Row == [poll : Nat, as : Name \X Name \X Name, ts : Nat,
        service : Name, provider : Name, region : Name, status : Status]

\* The ids poll_once takes for LLMs when no type is declared.
LlmId == {"openrouter", "groq", "together", "openai"}
\* RENAMES: the display names that once were keys, and the ids.
Display == {"OpenRouter", "Groq", "Together AI", "Brave Search", "CIRISBilling"}
IdOf ==
  [name \in Display |->
     CASE name = "OpenRouter" -> "openrouter"
       [] name = "Groq" -> "groq"
       [] name = "Together AI" -> "together"
       [] name = "Brave Search" -> "brave"
       [] name = "CIRISBilling" -> "billing"]

\* What the repairs look for.
Misnamed(r) == r.service = "cirisproxy" /\ r.provider \in Display
Misfiled(r) == r.service = "cirisproxy" /\ r.region # "global" /\ r.provider \in LlmId
Disabled(r) ==
  r.service = "cirisproxy" /\ r.provider \in {"brave", "Brave Search"} /\ r.ts < BraveBefore
FailureOnly(r) == r.provider = "service" /\ r.ts < RepairBefore

ASSUME NameAssumption ==
  {"monitor", "network", "global"} \subseteq Name /\ \A name \in Display : IdOf[name] \in Name
ASSUME TimeAssumption ==
  /\ PerDay \in Nat \ {0} /\ Retention \in Nat /\ MaxWindow \in Nat
  /\ RepairBefore \in Nat /\ BraveBefore \in Nat /\ Deployed \in Nat
  /\ RepairBefore <= Deployed /\ BraveBefore <= Deployed
  /\ MaxNow \in Nat /\ MaxPolls \in Nat /\ MaxStarts \in Nat /\ MaxLost \in Nat /\ MaxRefused \in Nat
\* "leaves the whole queryable range intact", RETENTION_DAYS
ASSUME WindowAssumption == MaxWindow <= Retention
\* The keys of this version: ids and not display names, and the four LLMs under
\* "global", since no service declares one of them to be anything else.
ASSUME OutcomeAssumption ==
  \A seen \in Outcomes : /\ seen \subseteq Sample /\ IsFiniteSet(seen)
                         /\ \A s \in seen : ~Misnamed(s) /\ ~Misfiled(s)
ASSUME LegacyAssumption ==
  Legacy \subseteq Row /\ IsFiniteSet(Legacy) /\ \A r \in Legacy : r.poll = 0 /\ r.ts < Deployed

VARIABLES
  now,    \* the clock
  pc,     \* "down", "up" or "polling"
  stamp,  \* the timestamp of the poll that is running
  checks, \* the table
  began,  \* when the process was last started (history variable)
  quiet,  \* did every statement succeed then? (history variable)
  took,   \* what each poll measured and stored (history variable)
  polls, starts, lost \* the bounded counters

table == <<checks, took>>
vars == <<now, pc, stamp, checks, began, quiet, took, polls, starts, lost>>

-----------------------------------------------------------------------------
(* The start: init, one statement after the other.                         *)

Statement == Display \union {"purge brave", "refile", "purge service", "prune"}

\* normalize_legacy_provider_names, a statement per name
Rename(R, failing) ==
  {IF Misnamed(r) /\ r.provider \notin failing THEN [r EXCEPT !.provider = IdOf[@]] ELSE r : r \in R}
\* Fault for testing MigrationsSpareTheNew: the purge has no date.
PurgeBraveForEver(R, failing) ==
  {r \in R : "purge brave" \in failing \/ ~(r.service = "cirisproxy" /\ r.provider = "brave")}
\* purge_unmonitored_brave_rows
PurgeBrave(R, failing) == {r \in R : "purge brave" \in failing \/ ~Disabled(r)}
\* refile_legacy_llm_rows
Refile(R, failing) ==
  {IF Misfiled(r) /\ "refile" \notin failing THEN [r EXCEPT !.region = "global"] ELSE r : r \in R}
\* purge_failure_only_service_rows
PurgeService(R, failing) == {r \in R : "purge service" \in failing \/ ~FailureOnly(r)}
\* Fault for testing FinishedDaysStand: the retention is counted in instants.
PruneTooMuch(R, failing) == {r \in R : "prune" \in failing \/ r.ts + Retention >= now}
\* prune_beyond_retention
Prune(R, failing) == {r \in R : "prune" \in failing \/ r.ts + Retention * PerDay >= now}

\* Fault for testing QuietStartRepairs: the rows are refiled before they are renamed.
RepairedBackwards(R, failing) ==
  Prune(PurgeService(PurgeBrave(Rename(Refile(R, failing), failing), failing), failing), failing)
Repaired(R, failing) ==
  Prune(PurgeService(Refile(PurgeBrave(Rename(R, failing), failing), failing), failing), failing)

Init ==
  /\ now = Deployed
  /\ pc = "down"
  /\ stamp = 0
  /\ checks \in SUBSET Legacy
  /\ began = Deployed
  /\ quiet = FALSE
  /\ took = {}
  /\ polls = 0 /\ starts = 0 /\ lost = 0

Start ==
  /\ pc = "down"
  /\ starts < MaxStarts
  /\ starts' = starts + 1
  /\ pc' = "up"
  /\ began' = now
  /\ \E failing \in SUBSET Statement :
       /\ Cardinality(failing) <= MaxRefused
       /\ quiet' = (failing = {})
       /\ checks' = Repaired(checks, failing)
  /\ UNCHANGED <<now, stamp, took, polls, lost>>

-----------------------------------------------------------------------------
(* The poll: one timestamp for all its rows, taken when it begins.         *)

BeginPoll ==
  /\ pc = "up"
  /\ polls < MaxPolls
  /\ polls' = polls + 1
  /\ pc' = "polling"
  /\ stamp' = now
  /\ UNCHANGED <<now, checks, began, quiet, took, starts, lost>>

Network(status) ==
  [service |-> "monitor", provider |-> "network", region |-> "global", status |-> status]
\* record
AsRow(s) ==
  [poll |-> polls, as |-> <<s.service, s.provider, s.region>>, ts |-> stamp,
   service |-> s.service, provider |-> s.provider, region |-> s.region, status |-> s.status]

(* The samples and the verdict on our own network are inserted one by one, *)
(* and a failure is ignored.  A kill among them loses the rest.            *)
Insert(seen, network) ==
  LET told == seen \union {Network(network)}
      due == {AsRow(s) : s \in told}
  IN \E gone \in SUBSET due :
       /\ lost + Cardinality(gone) <= MaxLost
       /\ lost' = lost + Cardinality(gone)
       /\ checks' = checks \union (due \ gone)
       /\ took' = took \union {[poll |-> polls, ts |-> stamp, seen |-> told, stored |-> due \ gone]}

(* A blind poll records nothing but its blindness.                         *)
EndPoll ==
  /\ pc = "polling"
  /\ pc' = "up"
  /\ \/ \E seen \in Outcomes : Insert(seen, "operational")
     \/ Insert({}, "outage")
  /\ stamp' = 0
  /\ UNCHANGED <<now, began, quiet, polls, starts>>

Crash ==
  /\ pc # "down"
  /\ pc' = "down"
  /\ stamp' = 0
  /\ UNCHANGED <<now, table, began, quiet, polls, starts, lost>>

Tick ==
  /\ now < MaxNow
  /\ now' = now + 1
  /\ UNCHANGED <<pc, stamp, table, began, quiet, polls, starts, lost>>

Next == Start \/ BeginPoll \/ EndPoll \/ Crash \/ Tick

Spec == Init /\ [][Next]_vars

-----------------------------------------------------------------------------
(* Properties.                                                             *)

Poll == [poll : Nat, ts : Nat, seen : SUBSET Sample, stored : SUBSET Row]

\* The types of the table and of what is remembered about it.
TypeOK ==
  /\ now \in Nat /\ stamp \in Nat /\ began \in Nat
  /\ pc \in {"down", "up", "polling"}
  /\ checks \subseteq Row
  /\ quiet \in BOOLEAN
  /\ took \subseteq Poll
  /\ polls \in 0 .. MaxPolls /\ starts \in 0 .. MaxStarts /\ lost <= MaxLost

(* Whatever the repairs find and however often they run, a row this        *)
(* version stored is still there as it was written until it is past the    *)
(* retention ("this repair must not eat it on the next restart",           *)
(* BRAVE_PURGE_BEFORE).                                                    *)
MigrationsSpareTheNew ==
  \A t \in took : \A r \in t.stored : r.ts + Retention * PerDay >= began => r \in checks

(* After a start in which no statement failed nothing of the old kinds is  *)
(* left, though each repair may uncover rows for another: a renamed row    *)
(* may have to be refiled (init).                                          *)
QuietStartRepairs ==
  (pc # "down" /\ quiet) =>
    \A r \in checks :
      /\ ~Misnamed(r) /\ ~Misfiled(r) /\ ~Disabled(r) /\ ~FailureOnly(r)
      /\ r.ts + Retention * PerDay >= began
=============================================================================
