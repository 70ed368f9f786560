----------------------------- MODULE StatusLoop -----------------------------
(***************************************************************************)
(* The background lifecycle of the status adapter (src/adapter.rs,         *)
(* run_lifecycle) as it bears on what the node says happened: one sweep of *)
(* the world per cycle, the diff of that sweep against a baseline held in  *)
(* memory, the transactional append of the diff to status_events, the      *)
(* advance of the baseline, and the publication of the snapshot that       *)
(* /api/v1/status serves.  HTTP handlers run on other threads, so a reader *)
(* may look between any two of these steps; the process may die between    *)
(* any two of them and come back with its memory empty.                    *)
(*                                                                         *)
(* A component stands for one entry of aggregate::flatten.  What the probe *)
(* of a component would meet is `world': an answer (healthy; slow or an    *)
(* HTTP error, both `degraded'; or one that tells that something only this *)
(* component can provide is out, `failing') or silence.  Components in     *)
(* Unprobed are declared, never measured and reported `unknown' (a pool    *)
(* whose members nobody probes).                                           *)
(***************************************************************************)
EXTENDS Naturals, Sequences, FiniteSets

CONSTANTS
  Component,     \* everything a snapshot can name, monitor.network aside
  Unprobed,      \* the components reported without a probe
  Configs,       \* the component sets the owner may configure
  Baked,         \* the set compiled in, used when config:* cannot be read
  MinForVerdict, \* probe::MIN_FOR_VERDICT
  StaleAfter,    \* adapter::STALE_AFTER_POLLS
  MaxChanges,    \* bound: changes of the world or of the configuration
  MaxFaults,     \* bound: failed store opens, store writes and config reads
  MaxBoots       \* bound: starts of the process

ASSUME ComponentAssumption ==
  /\ "monitor.network" \notin Component
  /\ Unprobed \subseteq Component
  /\ Configs \subseteq SUBSET Component
  /\ Baked \in Configs
ASSUME BoundAssumption ==
  /\ MinForVerdict \in Nat
  /\ StaleAfter \in Nat
  /\ MaxChanges \in Nat
  /\ MaxFaults \in Nat
  /\ MaxBoots \in Nat

VARIABLES
  world,      \* what probing each component would meet now
  cfg,        \* the owner's config:* (durable)
  pc,         \* where the lifecycle stands, or "down"
  dbOpen,     \* did history::init succeed in this process?
  agg,        \* the sweep of the current cycle
  persisted,  \* did the cycle's transitions reach the store (or had none)?
  prevFlat,   \* the diff baseline (memory)
  served,     \* the component map of the served snapshot (memory)
  age,        \* the age of that snapshot, in poll periods
  log,        \* status_events, one batch per transaction (durable)
  view,       \* what a reader of baseline and log believes (history variable)
  onRecord,   \* had the served snapshot's diff been recorded? (history variable)
  changes, faults, boots  \* the bounded counters

control == <<pc, dbOpen, persisted>>
memory == <<agg, prevFlat, served, age, onRecord>>
environment == <<world, cfg, changes>>
vars == <<environment, control, memory, log, view, faults, boots>>

Network == "monitor.network"
Entry == Component \union {Network}
Status == {"operational", "degraded", "outage", "unknown"}
Health == {"operational", "degraded", "failing", "dead"}
Absent == "absent"

\* A BTreeMap<String, String>: entries that are not there map to Absent.
FlatMap == [Entry -> Status \union {Absent}]
Empty == [c \in Entry |-> Absent]

-----------------------------------------------------------------------------
(* The sweep: probe, aggregate, flatten.                                   *)

Probed(conf) == conf \ Unprobed
Answered(conf) == {c \in Probed(conf) : world[c] # "dead"}

\* Every probe failed in transport, and there were enough of them to tell.
EnoughProbes(conf) == Cardinality(Probed(conf)) >= MinForVerdict
Blind(conf) == EnoughProbes(conf) /\ Answered(conf) = {}

Verdict(c) ==
  CASE c \in Unprobed -> "unknown"
    [] world[c] \in {"failing", "dead"} -> "outage"
    [] OTHER -> world[c]

Flatten(conf) ==
  [c \in Entry |-> CASE c = Network -> IF Blind(conf) THEN "outage" ELSE "operational"
                     [] c \in conf -> Verdict(c)
                     [] OTHER -> Absent]

\* Only the flat map and the vantage verdict outlive the sweep; `conf' and
\* `heard' are kept so that properties can ask what the sweep rested on.
Aggregate(conf) ==
  [flat |-> Flatten(conf), blind |-> Blind(conf),
   conf |-> conf, heard |-> Answered(conf)]
NoSweep == [flat |-> Empty, blind |-> FALSE, conf |-> {}, heard |-> {}]

-----------------------------------------------------------------------------
(* The diff.                                                               *)

\* A missing entry reads as `unknown'.
Known(m) == [c \in Entry |-> IF m[c] = Absent THEN "unknown" ELSE m[c]]

\* Fault for testing ServedIsRecordedUnlessRefused: the second loop, over vanished entries, is gone.
ChangedIfPresent(prev, now, c) == now[c] # Absent /\ Known(prev)[c] # now[c]

Changed(prev, now, c) ==
  IF now[c] # Absent THEN Known(prev)[c] # now[c] ELSE prev[c] # Absent

Transitions(prev, now) ==
  {[component |-> c, from |-> Known(prev)[c], to |-> Known(now)[c]] :
     c \in {d \in Entry : Changed(prev, now, d)}}

\* Fault for testing OutagesAreCorroborated: a blind sweep is diffed like any other.
FlatAlways == agg.flat

\* A blind cycle learns one thing: that it went blind.
FlatNow == IF agg.blind THEN [prevFlat EXCEPT ![Network] = "outage"] ELSE agg.flat

\* Fault for testing RecoveriesHaveStarts: a blind first poll seeds the baseline.
NeverSkip == FALSE

SkipCycle == agg.blind /\ prevFlat = Empty
Events == IF prevFlat = Empty THEN {} ELSE Transitions(prevFlat, FlatNow)

Batch(evs) ==
  [events |-> evs, boot |-> boots, conf |-> agg.conf, heard |-> agg.heard]

Log == INSTANCE ChangeLog WITH
         Entry <- Entry, Value <- Status, Nothing <- Empty,
         log <- [i \in 1 .. Len(log) |-> log[i].events], view <- view

-----------------------------------------------------------------------------
Init ==
  /\ world = [c \in Component |-> "operational"]
  /\ cfg \in Configs
  /\ pc = "down"
  /\ dbOpen = FALSE
  /\ agg = NoSweep
  /\ persisted = FALSE
  /\ prevFlat = Empty
  /\ served = Empty
  /\ age = 0
  /\ onRecord = FALSE
  /\ log = << >>
  /\ view = Empty
  /\ changes = 0
  /\ faults = 0
  /\ boots = 0

Fault == faults < MaxFaults /\ faults' = faults + 1

(* Adapter::start: a store that fails to open stays closed for the life of *)
(* the process.                                                            *)
Start ==
  /\ pc = "down"
  /\ boots < MaxBoots
  /\ boots' = boots + 1
  /\ pc' = "idle"
  /\ \/ dbOpen' = TRUE /\ UNCHANGED faults
     \/ dbOpen' = FALSE /\ Fault
  /\ UNCHANGED <<environment, persisted, memory, log, view>>

(* A tick: re-resolve the configuration (a failed read yields the baked    *)
(* set), probe everything once, aggregate.                                 *)
Sweep ==
  /\ pc = "idle"
  /\ pc' = "swept"
  /\ \/ agg' = Aggregate(cfg) /\ UNCHANGED faults
     \/ agg' = Aggregate(Baked) /\ Fault
  /\ UNCHANGED <<environment, dbOpen, persisted, prevFlat, served, age, onRecord, log, view, boots>>

(* Diff against the baseline and append the events in one transaction.     *)
NothingToRecord ==
  /\ Events = {}
  /\ persisted' = TRUE
  /\ UNCHANGED <<log, view, faults>>

WriteSucceeds ==
  /\ Events # {}
  /\ dbOpen
  /\ persisted' = TRUE
  /\ log' = Append(log, Batch(Events))
  /\ view' = Log!Apply(Events, view)
  /\ UNCHANGED faults

\* Fault for testing ImplementsChangeLog: the rows are not written in one transaction.
WriteFailsHalfway ==
  /\ Events # {}
  /\ persisted' = FALSE
  /\ dbOpen
  /\ Fault
  /\ \E e \in Events : log' = Append(log, Batch({e}))
  /\ UNCHANGED view

WriteFails ==
  /\ Events # {}
  /\ persisted' = FALSE
  /\ \/ ~dbOpen /\ UNCHANGED faults
     \/ dbOpen /\ Fault
  /\ UNCHANGED <<log, view>>

RecordTransitions ==
  /\ pc = "swept"
  /\ pc' = "recorded"
  /\ NothingToRecord \/ WriteSucceeds \/ WriteFails
  /\ UNCHANGED <<environment, dbOpen, memory, boots>>

(* Fault for testing LogTellsBaseline and LogCatchesUp: the baseline moves  *)
(* on although the write failed.                                           *)
AdvanceAnyway ==
  /\ pc = "recorded"
  /\ pc' = "advanced"
  /\ IF SkipCycle
     THEN UNCHANGED <<prevFlat, view>>
     ELSE /\ prevFlat' = FlatNow
          /\ view' = IF prevFlat = Empty THEN Known(FlatNow) ELSE view
  /\ UNCHANGED <<environment, dbOpen, persisted, agg, served, age, onRecord, log,
                 faults, boots>>

(* The baseline advances only over what is durable, and never from a blind *)
(* first poll.                                                             *)
AdvanceBaseline ==
  /\ pc = "recorded"
  /\ pc' = "advanced"
  /\ IF persisted /\ ~SkipCycle
     THEN /\ prevFlat' = FlatNow
          /\ view' = IF prevFlat = Empty THEN Known(FlatNow) ELSE view
     ELSE UNCHANGED <<prevFlat, view>>
  /\ UNCHANGED <<environment, dbOpen, persisted, agg, served, age, onRecord, log,
                 faults, boots>>

(* Fault for testing ServedCatchesUp: a blind snapshot is served as well.   *)
PublishAlways ==
  /\ pc = "advanced"
  /\ pc' = "idle"
  /\ agg' = NoSweep
  /\ served' = agg.flat /\ age' = 0 /\ onRecord' = persisted
  /\ UNCHANGED <<environment, dbOpen, persisted, prevFlat, log, view, faults, boots>>

(* safe_to_publish: a blind snapshot is withheld and the previous one ages. *)
Publish ==
  /\ pc = "advanced"
  /\ pc' = "idle"
  /\ agg' = NoSweep
  /\ IF agg.blind THEN UNCHANGED <<served, age, onRecord>>
                  ELSE served' = agg.flat /\ age' = 0 /\ onRecord' = persisted
  /\ UNCHANGED <<environment, dbOpen, persisted, prevFlat, log, view, faults, boots>>

(* The process ends, wherever it was: an OOM kill, or the shutdown signal  *)
(* that the loop honours between two cycles.                               *)
Crash ==
  /\ pc # "down"
  /\ boots < MaxBoots
  /\ pc' = "down"
  /\ dbOpen' = FALSE
  /\ persisted' = FALSE
  /\ agg' = NoSweep
  /\ prevFlat' = Empty
  /\ served' = Empty
  /\ age' = 0
  /\ onRecord' = FALSE
  /\ view' = Empty
  /\ UNCHANGED <<environment, log, faults, boots>>

(* A poll period passes; ages past the staleness ceiling are all alike.    *)
Tick ==
  /\ served # Empty
  /\ age <= StaleAfter
  /\ age' = age + 1
  /\ UNCHANGED <<environment, control, agg, prevFlat, served, onRecord, log, view,
                 faults, boots>>

WorldChanges ==
  /\ changes < MaxChanges
  /\ changes' = changes + 1
  /\ \/ \E c \in Component \ Unprobed, h \in Health :
          /\ h # world[c]
          /\ world' = [world EXCEPT ![c] = h]
     \/ \E h \in {"dead", "operational"} :  \* our own uplink goes, or returns
          world' = [c \in Component |-> h]
  /\ UNCHANGED <<cfg, control, memory, log, view, faults, boots>>

Reconfigure ==
  /\ changes < MaxChanges
  /\ changes' = changes + 1
  /\ cfg' \in Configs \ {cfg}
  /\ UNCHANGED <<world, control, memory, log, view, faults, boots>>

Lifecycle == Sweep \/ RecordTransitions \/ AdvanceBaseline \/ Publish

Next ==
  \/ Start
  \/ Lifecycle
  \/ Crash
  \/ Tick
  \/ WorldChanges
  \/ Reconfigure

(* The supervisor restarts the container, the interval keeps ticking while *)
(* the process lives, and time passes.  Nothing is assumed of the world.   *)
Fairness == WF_vars(Start) /\ WF_vars(Lifecycle) /\ WF_vars(Tick)

Spec == Init /\ [][Next]_vars
FairSpec == Spec /\ Fairness

-----------------------------------------------------------------------------
(* What an HTTP caller is told.                                            *)

Stale == served = Empty \/ age > StaleAfter

-----------------------------------------------------------------------------
(* Properties.                                                             *)

BatchType ==
  [events : SUBSET Log!Event, boot : 0 .. MaxBoots,
   conf : SUBSET Component, heard : SUBSET Component]

TypeOK ==
  /\ world \in [Component -> Health]
  /\ cfg \in Configs
  /\ pc \in {"down", "idle", "swept", "recorded", "advanced"}
  /\ dbOpen \in BOOLEAN
  /\ agg \in [flat : FlatMap, blind : BOOLEAN,
              conf : SUBSET Component, heard : SUBSET Component]
  /\ persisted \in BOOLEAN
  /\ prevFlat \in FlatMap
  /\ served \in FlatMap
  /\ age \in 0 .. StaleAfter + 1
  /\ onRecord \in BOOLEAN
  /\ log \in Seq(BatchType)
  /\ view \in {Empty} \union [Entry -> Status]
  /\ changes \in 0 .. MaxChanges
  /\ faults \in 0 .. MaxFaults
  /\ boots \in 0 .. MaxBoots

(* Between cycles the baseline is exactly what a reader of the log holds;  *)
(* inside one, a recorded batch has moved the reader ahead of it by that   *)
(* batch and a refused batch has not moved it at all.                      *)
LogTellsBaseline ==
  view = IF prevFlat = Empty THEN Empty
         ELSE Known(IF pc = "recorded" /\ persisted THEN FlatNow ELSE prevFlat)

(* An outage of a component enters the log only from a sweep in which some *)
(* probe was answered, or which had too few probes for a verdict about     *)
(* ourselves: losing our own uplink never accuses a component.       *)
OutagesAreCorroborated ==
  \A i \in 1 .. Len(log) : \A e \in log[i].events :
    (e.component # Network /\ e.to = "outage")
      => log[i].heard # {} \/ ~EnoughProbes(log[i].conf)

(* A recovery of our own network is always the end of a blindness the same *)
(* process recorded: the log never closes an interval it did not open.     *)
RecoveriesHaveStarts ==
  \A i \in 1 .. Len(log) : \A e \in log[i].events :
    (e.component = Network /\ e.from = "outage")
      => \E j \in 1 .. i - 1 :
           /\ log[j].boot = log[i].boot
           /\ \E f \in log[j].events : f.component = Network /\ f.to = "outage"

(* Between cycles, what a caller is served is what the log says, unless    *)
(* the store refused the transitions of the very snapshot being served:    *)
(* no later blindness, refusal or restart can part the two.                *)
ServedIsRecordedUnlessRefused ==
  (pc = "idle" /\ served # Empty /\ onRecord)
    => \A c \in Component : Known(served)[c] = view[c]

(* The detailed log implements the abstract one.                           *)
ImplementsChangeLog == Log!Spec

(* Once the world, the configuration and the store leave the node alone,   *)
(* the log comes to agree with the world: a refused batch is retried until *)
(* the reader has caught up, and a blind node says that it is blind.       *)
LogCatchesUp ==
  <>[](dbOpen =>
         IF Blind(cfg) THEN view # Empty => view[Network] = "outage"
                       ELSE view = Known(Flatten(cfg)))

(* Likewise what is served: the world as it is, or, from a node that stays *)
(* blind, an answer marked stale whose headline is unknown.                *)
ServedCatchesUp ==
  <>[](IF Blind(cfg) THEN Stale ELSE served = Flatten(cfg))
=============================================================================
