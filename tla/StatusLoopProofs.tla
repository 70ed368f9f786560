-------------------------- MODULE StatusLoopProofs --------------------------
(***************************************************************************)
(* Proofs about the status loop, for every set of components, every        *)
(* configuration the owner may choose and every value of the bounds.       *)
(*                                                                         *)
(* The inductive invariant is Inv: the types, the agreement of baseline    *)
(* and log (LogTellsBaseline), and what a sweep in flight, the open        *)
(* blindness of this process and the served snapshot rest on.              *)
(***************************************************************************)
EXTENDS StatusLoop, SequenceTheorems, TLAPS

-----------------------------------------------------------------------------
(* The diff.                                                               *)

(* A flat map read with `unknown' for what is missing has a verdict for    *)
(* every entry (aggregate::transitions, unwrap_or(UNKNOWN)).               *)
LEMMA KnownType ==
  ASSUME NEW m \in FlatMap
  PROVE  Known(m) \in [Entry -> Status]
BY DEF Known, FlatMap, Status, Absent

(* The diff is well typed: known components, known verdicts.               *)
LEMMA TransitionsType ==
  ASSUME NEW prev \in FlatMap, NEW now \in FlatMap
  PROVE  Transitions(prev, now) \subseteq Log!Event
<1>1. Known(prev) \in [Entry -> Status] /\ Known(now) \in [Entry -> Status]
  BY KnownType
<1>2. QED
  BY <1>1 DEF Transitions, Log!Event

(* A component not named by the diff reads the same before and after.      *)
LEMMA UnchangedReads ==
  ASSUME NEW prev \in FlatMap, NEW now \in FlatMap, NEW c \in Entry,
         ~Changed(prev, now, c)
  PROVE  Known(now)[c] = Known(prev)[c]
BY DEF Changed, Known, FlatMap

(* The diff of two snapshots, applied to the first, gives the second.      *)
LEMMA DiffIsExact ==
  ASSUME NEW prev \in FlatMap, NEW now \in FlatMap
  PROVE  /\ Log!Extends(Transitions(prev, now), Known(prev))
         /\ Log!Apply(Transitions(prev, now), Known(prev)) = Known(now)
<1> DEFINE evs == Transitions(prev, now)
<1>1. Log!Extends(evs, Known(prev))
  BY DEF Log!Extends, Transitions
<1>2. ASSUME NEW c \in Entry
      PROVE  Log!Apply(evs, Known(prev))[c] = Known(now)[c]
  <2>1. CASE Changed(prev, now, c)
    <3> DEFINE e == [component |-> c, from |-> Known(prev)[c], to |-> Known(now)[c]]
    <3>1. e \in evs /\ e.component = c /\ e.to = Known(now)[c]
      BY <2>1 DEF Transitions
    <3>2. \A f \in evs : f.component = c => f = e
      BY <1>1, <3>1 DEF Log!Extends
    <3>3. (CHOOSE f \in evs : f.component = c) = e
      BY <3>1, <3>2
    <3>4. QED
      BY <3>1, <3>3 DEF Log!Apply
  <2>2. CASE ~Changed(prev, now, c)
    <3>1. ~\E f \in evs : f.component = c
      BY <2>2 DEF Transitions
    <3>2. Log!Apply(evs, Known(prev))[c] = Known(prev)[c]
      BY <3>1 DEF Log!Apply
    <3>3. QED
      BY <2>2, <3>2, UnchangedReads
  <2>3. QED
    BY <2>1, <2>2
<1>3. Log!Apply(evs, Known(prev)) = [c \in Entry |-> Log!Apply(evs, Known(prev))[c]]
  BY DEF Log!Apply
<1>4. Known(now) = [c \in Entry |-> Known(now)[c]]
  BY DEF Known
<1>5. QED
  BY <1>1, <1>2, <1>3, <1>4

(* Blanking nothing but the network entry says nothing of any component.   *)
LEMMA BlindDiff ==
  ASSUME NEW prev \in FlatMap, NEW now,
         now = [prev EXCEPT ![Network] = "outage"]
  PROVE  \A e \in Transitions(prev, now) : e.component = Network
<1>1. \A c \in Entry : Changed(prev, now, c) => c = Network
  BY DEF Changed, Known, FlatMap
<1>2. TAKE e \in Transitions(prev, now)
<1>3. PICK c \in {d \in Entry : Changed(prev, now, d)} :
        e = [component |-> c, from |-> Known(prev)[c], to |-> Known(now)[c]]
  BY DEF Transitions
<1>4. QED
  BY <1>1, <1>3

-----------------------------------------------------------------------------
(* The inductive invariant.                                                *)

\* The sweep in flight: a sighted one always says that the network is fine.
SweepInv ==
  pc \in {"swept", "recorded", "advanced"}
    => /\ agg.flat[Network] # Absent
       /\ ~agg.blind => /\ agg.flat[Network] = "operational"
                        /\ agg.heard # {} \/ ~EnoughProbes(agg.conf)

\* Memory is gone with the process.
DownInv == pc = "down" => view = Empty /\ served = Empty

\* A blindness the reader still believes in was opened by this process.
OpenBlindness ==
  view[Network] = "outage"
    => \E j \in 1 .. Len(log) :
         /\ log[j].boot = boots
         /\ \E f \in log[j].events : f.component = Network /\ f.to = "outage"

\* A snapshot served on record stays in agreement with the reader until the
\* next sighted sweep replaces it.
ServedInv ==
  /\ (served # Empty /\ onRecord /\ (pc \in {"idle", "swept"} \/ agg.blind))
       => \A c \in Component : Known(served)[c] = view[c]
  /\ (pc = "advanced" /\ ~agg.blind /\ persisted) => prevFlat = agg.flat

\* The part of the invariant the other parts are proved from.
CoreInv == TypeOK /\ LogTellsBaseline /\ SweepInv /\ DownInv

Inv ==
  /\ CoreInv
  /\ OutagesAreCorroborated
  /\ OpenBlindness
  /\ RecoveriesHaveStarts
  /\ ServedInv

-----------------------------------------------------------------------------
(* Facts about one step.                                                   *)

(* A sweep builds a well-typed aggregate that names the network.           *)
LEMMA AggregateType ==
  ASSUME TypeOK, NEW conf \in Configs
  PROVE  /\ Aggregate(conf) \in [flat : FlatMap, blind : BOOLEAN,
                                 conf : SUBSET Component, heard : SUBSET Component]
         /\ Aggregate(conf).flat[Network] # Absent
         /\ ~Aggregate(conf).blind =>
              /\ Aggregate(conf).flat[Network] = "operational"
              /\ Aggregate(conf).heard # {} \/ ~EnoughProbes(Aggregate(conf).conf)
<1>1. conf \subseteq Component
  BY ComponentAssumption
<1>2. \A c \in conf : Verdict(c) \in Status
  BY <1>1 DEF Verdict, TypeOK, Health, Status
<1>3. Flatten(conf) \in FlatMap
  BY <1>2 DEF Flatten, FlatMap, Status
<1>4. Flatten(conf)[Network] = IF Blind(conf) THEN "outage" ELSE "operational"
  BY <1>1, ComponentAssumption DEF Flatten, Entry, Network
<1>5. Answered(conf) \subseteq Component
  BY <1>1 DEF Answered, Probed
<1>6. Blind(conf) \in BOOLEAN
  BY DEF Blind
<1>7. QED
  BY <1>1, <1>3, <1>4, <1>5, <1>6 DEF Aggregate, Blind, Absent

(* The map a cycle diffs against its baseline is a flat map.               *)
LEMMA FlatNowType ==
  ASSUME TypeOK
  PROVE  FlatNow \in FlatMap
BY DEF TypeOK, FlatNow, FlatMap, Status, Entry

(* The map a cycle installs is never the empty one, so a baseline, once    *)
(* set, is recognisable.                                                   *)
LEMMA FlatNowSeen ==
  ASSUME TypeOK, SweepInv, pc \in {"swept", "recorded", "advanced"}
  PROVE  FlatNow # Empty
<1>1. Network \in Entry
  BY DEF Entry
<1>2. FlatNow[Network] # Absent
  BY <1>1 DEF FlatNow, TypeOK, FlatMap, SweepInv, Absent
<1>3. QED
  BY <1>1, <1>2 DEF Empty

(* What a successful write appends, in terms of the reader: the batch is   *)
(* not empty, starts from what is held and leads to what the sweep saw.    *)
LEMMA WriteMovesReader ==
  ASSUME TypeOK, LogTellsBaseline, SweepInv, pc = "swept", Events # {}
  PROVE  /\ prevFlat # Empty
         /\ view = Known(prevFlat)
         /\ Events = Transitions(prevFlat, FlatNow)
         /\ Events \subseteq Log!Event
         /\ Log!Extends(Events, view)
         /\ Log!Apply(Events, view) = Known(FlatNow)
<1>1. prevFlat # Empty /\ Events = Transitions(prevFlat, FlatNow)
  BY DEF Events
<1>2. view = Known(prevFlat)
  BY <1>1 DEF LogTellsBaseline
<1>3. prevFlat \in FlatMap /\ FlatNow \in FlatMap
  BY FlatNowType DEF TypeOK
<1>4. QED
  BY <1>1, <1>2, <1>3, TransitionsType, DiffIsExact

(* A cycle with nothing to record leaves the reader where the sweep is.    *)
LEMMA QuietMeansAgreement ==
  ASSUME TypeOK, Events = {}, prevFlat # Empty
  PROVE  Known(FlatNow) = Known(prevFlat)
<1>1. prevFlat \in FlatMap /\ FlatNow \in FlatMap
  BY FlatNowType DEF TypeOK
<1>2. \A c \in Entry : ~Changed(prevFlat, FlatNow, c)
  BY DEF Events, Transitions
<1>3. \A c \in Entry : Known(FlatNow)[c] = Known(prevFlat)[c]
  BY <1>1, <1>2, UnchangedReads
<1>4. QED
  BY <1>3 DEF Known

-----------------------------------------------------------------------------
(* The types.                                                              *)

(* The empty map is a flat map.                                            *)
LEMMA EmptyType == Empty \in FlatMap
BY DEF Empty, FlatMap

(* So is the aggregate of no sweep an aggregate.                           *)
LEMMA NoSweepType ==
  NoSweep \in [flat : FlatMap, blind : BOOLEAN,
              conf : SUBSET Component, heard : SUBSET Component]
BY EmptyType DEF NoSweep

(* The fault budget is never overdrawn.                                    *)
LEMMA FaultType ==
  ASSUME TypeOK, Fault
  PROVE  faults' \in 0 .. MaxFaults
BY BoundAssumption DEF TypeOK, Fault

(* The initial state is well typed.                                        *)
LEMMA InitTypeOK == Init => TypeOK
<1> SUFFICES ASSUME Init PROVE TypeOK
  OBVIOUS
<1>1. agg \in [flat : FlatMap, blind : BOOLEAN,
             conf : SUBSET Component, heard : SUBSET Component]
  BY NoSweepType DEF Init
<1>2. world \in [Component -> Health] /\ log \in Seq(BatchType)
  BY DEF Init, Health
<1>3. /\ age \in 0 .. StaleAfter + 1 /\ changes \in 0 .. MaxChanges
      /\ faults \in 0 .. MaxFaults /\ boots \in 0 .. MaxBoots
  BY BoundAssumption DEF Init
<1>4. dbOpen \in BOOLEAN /\ persisted \in BOOLEAN /\ onRecord \in BOOLEAN
  BY DEF Init
<1>5. QED
  BY <1>1, <1>2, <1>3, <1>4, EmptyType DEF Init, TypeOK

(* Every step keeps the types, given what the reader and baseline agree on. *)
LEMMA NextTypeOK ==
  TypeOK /\ LogTellsBaseline /\ SweepInv /\ [Next]_vars => TypeOK'
<1> SUFFICES ASSUME TypeOK, LogTellsBaseline, SweepInv, [Next]_vars
             PROVE  TypeOK'
  OBVIOUS
<1> USE BoundAssumption
<1>1. CASE Start
  <2>1. dbOpen' \in BOOLEAN
    BY <1>1 DEF Start
  <2>2. faults' \in 0 .. MaxFaults
    BY <1>1, FaultType DEF Start, TypeOK
  <2>3. QED
    BY <1>1, <2>1, <2>2 DEF Start, TypeOK, environment, memory
<1>2. CASE Sweep
  <2>1. agg' \in [flat : FlatMap, blind : BOOLEAN,
                   conf : SUBSET Component, heard : SUBSET Component]
    BY <1>2, AggregateType, ComponentAssumption DEF Sweep, TypeOK
  <2>2. QED
    BY <1>2, <2>1 DEF Sweep, Fault, TypeOK, environment
<1>3. CASE RecordTransitions
  <2>1. CASE NothingToRecord
    BY <1>3, <2>1 DEF RecordTransitions, NothingToRecord, TypeOK, environment, memory
  <2>2. CASE WriteSucceeds
    <3>1. Events \subseteq Log!Event /\ Log!Apply(Events, view) = Known(FlatNow)
      BY <1>3, <2>2, WriteMovesReader DEF RecordTransitions, WriteSucceeds
    <3>2. Batch(Events) \in BatchType
      BY <3>1 DEF Batch, BatchType, TypeOK
    <3>3. view' \in [Entry -> Status]
      BY <2>2, <3>1, FlatNowType, KnownType DEF WriteSucceeds
    <3>4. log' \in Seq(BatchType)
      BY <2>2, <3>2 DEF WriteSucceeds, TypeOK
    <3>5. QED
      BY <1>3, <2>2, <3>3, <3>4
         DEF RecordTransitions, WriteSucceeds, TypeOK, environment, memory
  <2>3. CASE WriteFails
    <3>1. faults' \in 0 .. MaxFaults
      BY <2>3, FaultType DEF WriteFails, TypeOK
    <3>2. persisted' \in BOOLEAN
      BY <2>3 DEF WriteFails
    <3>3. log' = log /\ view' = view
      BY <2>3 DEF WriteFails
    <3>4. QED
      BY <1>3, <3>1, <3>2, <3>3 DEF RecordTransitions, TypeOK, environment, memory
  <2>4. QED
    BY <1>3, <2>1, <2>2, <2>3 DEF RecordTransitions
<1>4. CASE AdvanceBaseline
  <2>1. FlatNow \in FlatMap /\ Known(FlatNow) \in [Entry -> Status]
    BY FlatNowType, KnownType
  <2>2. prevFlat' \in FlatMap /\ view' \in {Empty} \union [Entry -> Status]
    BY <1>4, <2>1 DEF AdvanceBaseline, TypeOK
  <2>3. QED
    BY <1>4, <2>2 DEF AdvanceBaseline, TypeOK, environment
<1>5. CASE Publish
  BY <1>5, NoSweepType DEF Publish, TypeOK, environment
<1>6. CASE Crash
  <2>1. dbOpen' \in BOOLEAN /\ persisted' \in BOOLEAN /\ onRecord' \in BOOLEAN
    BY <1>6 DEF Crash
  <2>2. age' \in 0 .. StaleAfter + 1
    BY <1>6 DEF Crash
  <2>3. QED
    BY <1>6, <2>1, <2>2, EmptyType, NoSweepType DEF Crash, TypeOK, environment
<1>7. CASE Tick
  BY <1>7 DEF Tick, TypeOK, environment, control
<1>8. CASE WorldChanges
  BY <1>8 DEF WorldChanges, TypeOK, Health, control, memory
<1>9. CASE Reconfigure
  BY <1>9 DEF Reconfigure, TypeOK, control, memory
<1>10. CASE UNCHANGED vars
  BY <1>10 DEF vars, environment, control, memory, TypeOK
<1>11. QED
  BY <1>1, <1>2, <1>3, <1>4, <1>5, <1>6, <1>7, <1>8, <1>9, <1>10
     DEF Next, Lifecycle

-----------------------------------------------------------------------------
(* Baseline and log.                                                       *)

(* The baseline and what a reader of the log holds never come apart.       *)
LEMMA NextLogTellsBaseline ==
  TypeOK /\ LogTellsBaseline /\ SweepInv /\ [Next]_vars => LogTellsBaseline'
<1> SUFFICES ASSUME TypeOK, LogTellsBaseline, SweepInv, [Next]_vars
             PROVE  LogTellsBaseline'
  OBVIOUS
<1>1. CASE Start
  BY <1>1 DEF Start, LogTellsBaseline, memory
<1>2. CASE Sweep
  BY <1>2 DEF Sweep, LogTellsBaseline
<1>3. CASE RecordTransitions
  <2>1. prevFlat' = prevFlat /\ FlatNow' = FlatNow /\ pc' = "recorded" /\ pc = "swept"
    BY <1>3 DEF RecordTransitions, memory, FlatNow
  <2>2. CASE prevFlat = Empty
    <3>1. Events = {}
      BY <2>2 DEF Events
    <3>2. view' = view /\ view = Empty
      BY <1>3, <2>2, <3>1
         DEF RecordTransitions, NothingToRecord, WriteSucceeds, WriteFails, LogTellsBaseline
    <3>3. QED
      BY <2>1, <2>2, <3>2 DEF LogTellsBaseline
  <2>3. CASE prevFlat # Empty /\ NothingToRecord
    <3>1. Known(FlatNow) = Known(prevFlat)
      BY <2>3, QuietMeansAgreement DEF NothingToRecord
    <3>2. view' = Known(prevFlat)
      BY <2>1, <2>3 DEF NothingToRecord, LogTellsBaseline
    <3>3. Known(FlatNow)' = Known(FlatNow) /\ Known(prevFlat)' = Known(prevFlat)
      BY <2>1 DEF Known
    <3>4. QED
      BY <2>1, <2>3, <3>1, <3>2, <3>3 DEF LogTellsBaseline
  <2>4. CASE WriteSucceeds
    <3>1. prevFlat # Empty /\ view' = Known(FlatNow)
      BY <2>1, <2>4, WriteMovesReader DEF WriteSucceeds
    <3>2. Known(FlatNow)' = Known(FlatNow) /\ persisted'
      BY <2>1, <2>4 DEF Known, WriteSucceeds
    <3>3. QED
      BY <2>1, <3>1, <3>2 DEF LogTellsBaseline
  <2>5. CASE prevFlat # Empty /\ WriteFails
    <3>1. ~persisted' /\ view' = Known(prevFlat)
      BY <2>1, <2>5 DEF WriteFails, LogTellsBaseline
    <3>2. Known(prevFlat)' = Known(prevFlat)
      BY <2>1 DEF Known
    <3>3. QED
      BY <2>1, <2>5, <3>1, <3>2 DEF LogTellsBaseline
  <2>6. QED
    BY <1>3, <2>2, <2>3, <2>4, <2>5 DEF RecordTransitions
<1>4. CASE AdvanceBaseline
  <2>1. CASE persisted /\ ~SkipCycle
    <3>1. prevFlat' = FlatNow /\ FlatNow # Empty /\ pc' = "advanced"
      BY <1>4, <2>1, FlatNowSeen DEF AdvanceBaseline
    <3>2. view' = Known(FlatNow)
      BY <1>4, <2>1 DEF AdvanceBaseline, LogTellsBaseline
    <3>3. QED
      BY <3>1, <3>2 DEF LogTellsBaseline, Known
  <2>2. CASE ~(persisted /\ ~SkipCycle)
    <3>1. prevFlat' = prevFlat /\ view' = view /\ pc' = "advanced" /\ pc = "recorded"
      BY <1>4, <2>2 DEF AdvanceBaseline
    <3>2. SkipCycle => prevFlat = Empty
      BY DEF SkipCycle
    <3>3. QED
      BY <2>2, <3>1, <3>2 DEF LogTellsBaseline, Known
  <2>3. QED
    BY <2>1, <2>2
<1>5. CASE Publish
  BY <1>5 DEF Publish, LogTellsBaseline
<1>6. CASE Crash
  BY <1>6 DEF Crash, LogTellsBaseline
<1>7. CASE Tick
  BY <1>7 DEF Tick, LogTellsBaseline, FlatNow, control
<1>8. CASE WorldChanges
  BY <1>8 DEF WorldChanges, LogTellsBaseline, FlatNow, control, memory
<1>9. CASE Reconfigure
  BY <1>9 DEF Reconfigure, LogTellsBaseline, FlatNow, control, memory
<1>10. CASE UNCHANGED vars
  BY <1>10 DEF vars, LogTellsBaseline, FlatNow, control, memory
<1>11. QED
  BY <1>1, <1>2, <1>3, <1>4, <1>5, <1>6, <1>7, <1>8, <1>9, <1>10
     DEF Next, Lifecycle

(* A sweep keeps standing on what it saw until its cycle is over.          *)
LEMMA NextSweepInv ==
  TypeOK /\ SweepInv /\ [Next]_vars => SweepInv'
<1> SUFFICES ASSUME TypeOK, SweepInv, [Next]_vars
             PROVE  SweepInv'
  OBVIOUS
<1>1. CASE Sweep
  BY <1>1, AggregateType, ComponentAssumption
     DEF Sweep, SweepInv, TypeOK, EnoughProbes, Probed
<1>2. CASE Start \/ Publish \/ Crash
  BY <1>2 DEF Start, Publish, Crash, SweepInv
<1>3. CASE RecordTransitions \/ AdvanceBaseline
  BY <1>3 DEF RecordTransitions, AdvanceBaseline, SweepInv, memory, EnoughProbes, Probed
<1>4. CASE Tick \/ WorldChanges \/ Reconfigure \/ UNCHANGED vars
  BY <1>4 DEF Tick, WorldChanges, Reconfigure, vars, SweepInv, memory, control,
              EnoughProbes, Probed
<1>5. QED
  BY <1>1, <1>2, <1>3, <1>4 DEF Next, Lifecycle

(* A process that is down has taken its picture with it.                   *)
LEMMA NextDownInv == DownInv /\ [Next]_vars => DownInv'
BY DEF DownInv, Next, vars, Lifecycle, Start, Sweep, RecordTransitions,
       AdvanceBaseline, Publish, Crash, Tick, WorldChanges, Reconfigure, control, memory

(* The core is inductive.                                                  *)
LEMMA CoreInductive ==
  /\ Init => CoreInv
  /\ CoreInv /\ [Next]_vars => CoreInv'
<1>1. Init => LogTellsBaseline /\ SweepInv /\ DownInv
  BY DEF Init, LogTellsBaseline, SweepInv, DownInv
<1>2. QED
  BY <1>1, InitTypeOK, NextTypeOK, NextLogTellsBaseline, NextSweepInv, NextDownInv
     DEF CoreInv

(* Every variable keeps its type: in particular every recorded batch names *)
(* configured components and verdicts only, whatever fails.                *)
THEOREM TypeCorrect == Spec => []TypeOK
BY CoreInductive, PTL DEF Spec, CoreInv

(* The baseline the lifecycle diffs against is what a reader of the log    *)
(* holds, whatever writes fail and wherever the process dies: no diff is   *)
(* lost, repeated or computed from a state the log never reported.         *)
THEOREM BaselineIsLogged == Spec => []LogTellsBaseline
BY CoreInductive, PTL DEF Spec, CoreInv

-----------------------------------------------------------------------------
(* What the log says of outages and recoveries.                            *)

\* The step appends the batch of the sweep in flight, or leaves the log.
Appends == pc = "swept" /\ WriteSucceeds

(* No other step touches the log.                                          *)
LEMMA OnlyWritesAppend ==
  ASSUME [Next]_vars
  PROVE  \/ Appends /\ RecordTransitions
         \/ log' = log
BY DEF Next, vars, Lifecycle, Start, Sweep, RecordTransitions, NothingToRecord,
       WriteFails, Appends, AdvanceBaseline, Publish, Crash, Tick, WorldChanges,
       Reconfigure

(* An appended batch is the last one; the earlier ones stay where they are. *)
LEMMA AppendedBatch ==
  ASSUME TypeOK, Appends
  PROVE  /\ Len(log') = Len(log) + 1
         /\ log'[Len(log')] = Batch(Events)
         /\ \A i \in 1 .. Len(log) : log'[i] = log[i]
BY DEF TypeOK, Appends, WriteSucceeds

(* Losing our own uplink never puts an outage of a component in the log.   *)
LEMMA NextCorroborated ==
  CoreInv /\ OutagesAreCorroborated /\ [Next]_vars => OutagesAreCorroborated'
<1> SUFFICES ASSUME CoreInv, OutagesAreCorroborated, [Next]_vars
             PROVE  OutagesAreCorroborated'
  OBVIOUS
<1>1. CASE log' = log
  BY <1>1 DEF OutagesAreCorroborated, EnoughProbes, Probed
<1>2. CASE Appends
  <2>1. Events # {} /\ Events = Transitions(prevFlat, FlatNow)
    BY <1>2, WriteMovesReader DEF Appends, WriteSucceeds, CoreInv
  <2>2. ASSUME NEW e \in Events, e.component # Network
        PROVE  agg.heard # {} \/ ~EnoughProbes(agg.conf)
    <3>1. CASE agg.blind
      <4>1. FlatNow = [prevFlat EXCEPT ![Network] = "outage"] /\ prevFlat \in FlatMap
        BY <3>1 DEF FlatNow, CoreInv, TypeOK
      <4>2. QED
        BY <2>1, <2>2, <4>1, BlindDiff
    <3>2. CASE ~agg.blind
      BY <1>2, <3>2 DEF CoreInv, SweepInv, Appends
    <3>3. QED
      BY <3>1, <3>2
  <2>3. \A i \in 1 .. Len(log') : \A e \in log'[i].events :
          (e.component # Network /\ e.to = "outage")
            => log'[i].heard # {} \/ ~EnoughProbes(log'[i].conf)
    <3> SUFFICES ASSUME NEW i \in 1 .. Len(log'), NEW e \in log'[i].events,
                        e.component # Network, e.to = "outage"
                 PROVE  log'[i].heard # {} \/ ~EnoughProbes(log'[i].conf)
      OBVIOUS
    <3>1. CASE i = Len(log')
      BY <1>2, <2>2, <3>1, AppendedBatch DEF CoreInv, Batch
    <3>2. CASE i # Len(log')
      <4>1. i \in 1 .. Len(log) /\ log'[i] = log[i]
        BY <1>2, <3>2, AppendedBatch DEF CoreInv, TypeOK
      <4>2. QED
        BY <4>1 DEF OutagesAreCorroborated
    <3>3. QED
      BY <3>1, <3>2
  <2>4. QED
    BY <2>3 DEF OutagesAreCorroborated, EnoughProbes, Probed
<1>3. QED
  BY <1>1, <1>2, OnlyWritesAppend

(* A blindness the reader believes in stays backed by an event of the      *)
(* running process.                                                        *)
LEMMA NextOpenBlindness ==
  CoreInv /\ OpenBlindness /\ [Next]_vars => OpenBlindness'
<1> SUFFICES ASSUME CoreInv, OpenBlindness, [Next]_vars, view'[Network] = "outage"
             PROVE  \E j \in 1 .. Len(log') :
                      /\ log'[j].boot = boots'
                      /\ \E f \in log'[j].events :
                           f.component = Network /\ f.to = "outage"
  BY DEF OpenBlindness
<1> USE DEF CoreInv
<1>0. Network \in Entry
  BY DEF Entry
<1>1. CASE Appends /\ RecordTransitions
  <2>1. /\ Events \subseteq Log!Event /\ view' = Log!Apply(Events, view)
        /\ boots' = boots
    BY <1>1, WriteMovesReader DEF Appends, WriteSucceeds, RecordTransitions
  <2>2. CASE \E e \in Events : e.component = Network
    <3> DEFINE e == CHOOSE e \in Events : e.component = Network
    <3>1. e \in Events /\ e.component = Network
      BY <2>2
    <3>2. e.to = "outage"
      BY <1>0, <2>1, <2>2 DEF Log!Apply
    <3>3. Len(log') \in 1 .. Len(log') /\ log'[Len(log')] = Batch(Events)
      BY <1>1, AppendedBatch DEF TypeOK
    <3>4. QED
      BY <2>1, <3>1, <3>2, <3>3 DEF Batch
  <2>3. CASE ~\E e \in Events : e.component = Network
    <3>1. view[Network] = "outage"
      BY <1>0, <2>1, <2>3 DEF Log!Apply
    <3>2. PICK j \in 1 .. Len(log) :
            /\ log[j].boot = boots
            /\ \E f \in log[j].events : f.component = Network /\ f.to = "outage"
      BY <3>1 DEF OpenBlindness
    <3>3. j \in 1 .. Len(log') /\ log'[j] = log[j]
      BY <1>1, AppendedBatch DEF TypeOK
    <3>4. QED
      BY <2>1, <3>2, <3>3
  <2>4. QED
    BY <2>2, <2>3
<1>2. CASE log' = log /\ view' = view /\ (view = Empty \/ boots' = boots)
  BY <1>0, <1>2 DEF OpenBlindness, Empty, Absent
<1>3. CASE view' = Empty
  BY <1>0, <1>3 DEF Empty, Absent
<1>4. CASE AdvanceBaseline
  <2>1. CASE persisted /\ ~SkipCycle /\ prevFlat = Empty
    <3>1. ~agg.blind /\ FlatNow = agg.flat /\ view' = Known(FlatNow)
      BY <1>4, <2>1 DEF AdvanceBaseline, SkipCycle, FlatNow, TypeOK
    <3>2. FlatNow[Network] = "operational"
      BY <1>4, <3>1 DEF AdvanceBaseline, SweepInv
    <3>3. view'[Network] = "operational"
      BY <1>0, <3>1, <3>2 DEF Known, Absent
    <3>4. QED
      BY <3>3
  <2>2. CASE ~(persisted /\ ~SkipCycle /\ prevFlat = Empty)
    BY <1>4, <2>2, <1>2 DEF AdvanceBaseline
  <2>3. QED
    BY <2>1, <2>2
<1>5. CASE Start
  BY <1>2, <1>5 DEF Start, DownInv
<1>6. CASE RecordTransitions /\ ~Appends
  BY <1>2, <1>6
     DEF RecordTransitions, NothingToRecord, WriteFails, Appends
<1>7. CASE Sweep \/ Publish \/ Tick \/ WorldChanges \/ Reconfigure \/ UNCHANGED vars
  BY <1>2, <1>7 DEF Sweep, Publish, Tick, WorldChanges, Reconfigure, vars
<1>8. CASE Crash
  BY <1>3, <1>8 DEF Crash
<1>9. QED
  BY <1>1, <1>4, <1>5, <1>6, <1>7, <1>8 DEF Next, Lifecycle

(* The log never closes a blindness that the same process did not open.    *)
LEMMA NextRecoveries ==
  CoreInv /\ OpenBlindness /\ RecoveriesHaveStarts /\ [Next]_vars
    => RecoveriesHaveStarts'
<1> SUFFICES ASSUME CoreInv, OpenBlindness, RecoveriesHaveStarts, [Next]_vars
             PROVE  RecoveriesHaveStarts'
  OBVIOUS
<1>1. CASE log' = log
  BY <1>1 DEF RecoveriesHaveStarts
<1>2. CASE Appends
  <2>1. /\ Events \subseteq Log!Event
        /\ Log!Extends(Events, view)
    BY <1>2, WriteMovesReader DEF Appends, WriteSucceeds, CoreInv
  <2>2. log \in Seq(BatchType) /\ Len(log) \in Nat
    BY DEF CoreInv, TypeOK
  <2>3. ASSUME NEW i \in 1 .. Len(log'), NEW e \in log'[i].events,
               e.component = Network, e.from = "outage"
        PROVE  \E j \in 1 .. i - 1 :
                 /\ log'[j].boot = log'[i].boot
                 /\ \E f \in log'[j].events :
                      f.component = Network /\ f.to = "outage"
    <3>1. CASE i = Len(log')
      <4>1. log'[i].boot = boots /\ e \in Events
        BY <1>2, <2>3, <3>1, AppendedBatch DEF CoreInv, Batch
      <4>2. view[Network] = "outage"
        BY <2>1, <2>3, <4>1 DEF Log!Extends
      <4>3. PICK j \in 1 .. Len(log) :
              /\ log[j].boot = boots
              /\ \E f \in log[j].events : f.component = Network /\ f.to = "outage"
        BY <4>2 DEF OpenBlindness
      <4>4. j \in 1 .. i - 1 /\ log'[j] = log[j]
        BY <1>2, <2>2, <3>1, <4>3, AppendedBatch DEF CoreInv
      <4>5. QED
        BY <4>1, <4>3, <4>4
    <3>2. CASE i # Len(log')
      <4>1. i \in 1 .. Len(log) /\ log'[i] = log[i]
        BY <1>2, <2>2, <3>2, AppendedBatch DEF CoreInv
      <4>2. PICK j \in 1 .. i - 1 :
              /\ log[j].boot = log[i].boot
              /\ \E f \in log[j].events : f.component = Network /\ f.to = "outage"
        BY <2>3, <4>1 DEF RecoveriesHaveStarts
      <4>3. log'[j] = log[j]
        BY <1>2, <2>2, <4>1, AppendedBatch DEF CoreInv
      <4>4. QED
        BY <4>1, <4>2, <4>3
    <3>3. QED
      BY <3>1, <3>2
  <2>4. QED
    BY <2>3 DEF RecoveriesHaveStarts
<1>3. QED
  BY <1>1, <1>2, OnlyWritesAppend

-----------------------------------------------------------------------------
(* What is served.                                                         *)

(* A snapshot published on record agrees with the log until it is replaced. *)
LEMMA NextServedInv ==
  CoreInv /\ ServedInv /\ [Next]_vars => ServedInv'
<1> SUFFICES ASSUME CoreInv, ServedInv, [Next]_vars
             PROVE  ServedInv'
  OBVIOUS
<1> USE DEF CoreInv
<1>1. CASE RecordTransitions
  <2>1. /\ served' = served /\ onRecord' = onRecord /\ agg' = agg
        /\ pc = "swept" /\ pc' = "recorded"
    BY <1>1 DEF RecordTransitions, memory
  <2>2. CASE agg.blind /\ WriteSucceeds
    <3>1. /\ Events = Transitions(prevFlat, FlatNow)
          /\ view' = Log!Apply(Events, view)
      BY <2>1, <2>2, WriteMovesReader DEF WriteSucceeds
    <3>2. FlatNow = [prevFlat EXCEPT ![Network] = "outage"] /\ prevFlat \in FlatMap
      BY <2>2 DEF FlatNow, TypeOK
    <3>3. \A e \in Events : e.component = Network
      BY <3>1, <3>2, BlindDiff
    <3>4. \A c \in Component : c \in Entry /\ c # Network
      BY ComponentAssumption DEF Entry, Network
    <3>5. \A c \in Component : view'[c] = view[c]
      BY <3>1, <3>3, <3>4 DEF Log!Apply
    <3>6. QED
      BY <2>1, <2>2, <3>5 DEF ServedInv, Known
  <2>3. CASE ~agg.blind
    BY <2>1, <2>3 DEF ServedInv
  <2>4. CASE agg.blind /\ view' = view
    BY <2>1, <2>4 DEF ServedInv, Known
  <2>5. QED
    BY <1>1, <2>2, <2>3, <2>4 DEF RecordTransitions, NothingToRecord, WriteFails, TypeOK
<1>2. CASE AdvanceBaseline
  <2>1. /\ served' = served /\ onRecord' = onRecord /\ agg' = agg
        /\ persisted' = persisted /\ pc = "recorded" /\ pc' = "advanced"
    BY <1>2 DEF AdvanceBaseline
  <2>2. CASE agg.blind
    <3>1. view' = view
      BY <1>2, <2>2 DEF AdvanceBaseline, SkipCycle
    <3>2. QED
      BY <2>1, <2>2, <3>1 DEF ServedInv, Known
  <2>3. CASE ~agg.blind
    <3>1. persisted => prevFlat' = agg.flat
      BY <1>2, <2>3 DEF AdvanceBaseline, SkipCycle, FlatNow
    <3>2. QED
      BY <2>1, <2>3, <3>1 DEF ServedInv
  <2>4. QED
    BY <2>2, <2>3 DEF TypeOK
<1>3. CASE Publish
  <2>1. pc = "advanced" /\ pc' = "idle" /\ view' = view /\ prevFlat' = prevFlat
    BY <1>3 DEF Publish
  <2>2. CASE agg.blind
    <3>1. served' = served /\ onRecord' = onRecord
      BY <1>3, <2>2 DEF Publish
    <3>2. QED
      BY <2>1, <2>2, <3>1 DEF ServedInv, Known
  <2>3. CASE ~agg.blind
    <3>1. served' = agg.flat /\ onRecord' = persisted
      BY <1>3, <2>3 DEF Publish
    <3>2. CASE persisted
      <4>1. prevFlat = agg.flat /\ agg.flat[Network] # Absent
        BY <2>1, <2>3, <3>2 DEF ServedInv, SweepInv
      <4>2. prevFlat # Empty
        BY <4>1 DEF Empty, Entry
      <4>3. view = Known(agg.flat)
        BY <2>1, <4>1, <4>2 DEF LogTellsBaseline
      <4>4. QED
        BY <2>1, <3>1, <4>3 DEF ServedInv, Known
    <3>3. CASE ~persisted
      BY <2>1, <3>1, <3>3 DEF ServedInv
    <3>4. QED
      BY <3>2, <3>3
  <2>4. QED
    BY <2>2, <2>3
<1>4. CASE Sweep
  BY <1>4 DEF Sweep, ServedInv, Known
<1>5. CASE Crash
  BY <1>5 DEF Crash, ServedInv
<1>6. CASE Start
  <2>1. /\ served' = served /\ onRecord' = onRecord /\ view' = view
        /\ pc = "down" /\ pc' = "idle" /\ agg' = agg
    BY <1>6 DEF Start, memory
  <2>2. QED
    BY <2>1 DEF ServedInv, DownInv
<1>7. CASE Tick \/ WorldChanges \/ Reconfigure \/ UNCHANGED vars
  BY <1>7 DEF Tick, WorldChanges, Reconfigure, vars, ServedInv, memory, control, Known
<1>8. QED
  BY <1>1, <1>2, <1>3, <1>4, <1>5, <1>6, <1>7 DEF Next, Lifecycle

-----------------------------------------------------------------------------
(* The invariant and the theorems.                                         *)

(* Init establishes the invariant and every step keeps it.                 *)
LEMMA Inductive ==
  /\ Init => Inv
  /\ Inv /\ [Next]_vars => Inv'
<1>1. Init => OutagesAreCorroborated /\ RecoveriesHaveStarts
  BY DEF Init, OutagesAreCorroborated, RecoveriesHaveStarts
<1>2. Init => OpenBlindness /\ ServedInv
  BY DEF Init, OpenBlindness, ServedInv, Empty, Entry, Absent
<1>3. QED
  BY <1>1, <1>2, CoreInductive, NextCorroborated, NextOpenBlindness,
     NextRecoveries, NextServedInv DEF Inv

(* An outage of a component is recorded only on the evidence of a sweep in *)
(* which something answered, or which was too small for a verdict about    *)
(* our own network (the vantage rule of aggregate::aggregated_status and   *)
(* the blind branch of run_lifecycle).                                     *)
THEOREM NoOutageFromBlindness == Spec => []OutagesAreCorroborated
BY Inductive, PTL DEF Spec, Inv

(* The log never holds a recovery of our own network whose blindness the   *)
(* same process did not record before it (skip_cycle in run_lifecycle).    *)
THEOREM NoOrphanRecovery == Spec => []RecoveriesHaveStarts
BY Inductive, PTL DEF Spec, Inv

(* Between cycles the served snapshot and the log tell the same story      *)
(* unless the store refused that very snapshot's transitions.              *)
THEOREM ServedAgreesWithLog == Spec => []ServedIsRecordedUnlessRefused
<1>1. Inv => ServedIsRecordedUnlessRefused
  BY DEF Inv, ServedInv, ServedIsRecordedUnlessRefused
<1>2. QED
  BY <1>1, Inductive, PTL DEF Spec

-----------------------------------------------------------------------------
(* Refinement.                                                             *)

LogBar == [i \in 1 .. Len(log) |-> log[i].events]

(* Dropping the provenance of the batches commutes with appending one.     *)
LEMMA LogBarAppend ==
  ASSUME CoreInv, Appends
  PROVE  /\ Len(LogBar) = Len(log) /\ Len(LogBar') = Len(LogBar) + 1
         /\ LogBar' = Append(LogBar, Events)
         /\ LogBar'[Len(LogBar')] = Events
<1> DEFINE S == SUBSET Log!Event
<1>1. Len(log) \in Nat /\ log \in Seq(BatchType)
  BY LenProperties DEF CoreInv, TypeOK
<1>2. log' = Append(log, Batch(Events)) /\ Len(log') = Len(log) + 1
  BY AppendedBatch DEF CoreInv, Appends, WriteSucceeds
<1>3. Events \in S
  BY WriteMovesReader DEF CoreInv, Appends, WriteSucceeds
<1>4. \A i \in 1 .. Len(log) : log[i].events \in S
  <2>1. \A i \in 1 .. Len(log) : log[i] \in BatchType
    BY <1>1, ElementOfSeq
  <2>2. QED
    BY <2>1 DEF BatchType
<1>5. LogBar \in Seq(S) /\ Len(LogBar) = Len(log)
  <2>1. LogBar \in [1 .. Len(log) -> S]
    BY <1>4 DEF LogBar
  <2>2. QED
    BY <1>1, <2>1
<1>6. \A i \in 1 .. Len(log') :
        LogBar'[i] = IF i = Len(log') THEN Events ELSE LogBar[i]
  BY <1>1, <1>2, AppendedBatch DEF CoreInv, LogBar, Batch
<1>7. LogBar' \in Seq(S) /\ Len(LogBar') = Len(log')
  <2>1. LogBar' = [i \in 1 .. Len(log') |-> LogBar'[i]]
    BY DEF LogBar
  <2>2. \A i \in 1 .. Len(log') : LogBar'[i] \in S
    BY <1>1, <1>2, <1>3, <1>5, <1>6, ElementOfSeq
  <2>3. LogBar' \in [1 .. Len(log') -> S]
    BY <2>1, <2>2
  <2>4. QED
    BY <1>1, <1>2, <2>3
<1> HIDE DEF S
<1>8. /\ Append(LogBar, Events) \in Seq(S)
      /\ Len(Append(LogBar, Events)) = Len(log')
      /\ \A i \in 1 .. Len(log') :
           Append(LogBar, Events)[i] = IF i = Len(log') THEN Events ELSE LogBar[i]
  BY <1>1, <1>2, <1>3, <1>5, AppendProperties
<1>9. LogBar' = Append(LogBar, Events)
  BY <1>6, <1>7, <1>8, SeqEqual
<1>10. QED
  BY <1>1, <1>2, <1>5, <1>6, <1>7, <1>9

(* Every step of the lifecycle is a step of the abstract log or changes    *)
(* nothing a reader could see.                                             *)
LEMMA StepRefines ==
  CoreInv /\ [Next]_vars => [Log!Next]_(Log!vars)
<1> SUFFICES ASSUME CoreInv, [Next]_vars
             PROVE  Log!Next \/ UNCHANGED Log!vars
  OBVIOUS
<1> USE DEF CoreInv
<1>1. CASE Appends /\ RecordTransitions
  <2>1. /\ view # Empty /\ Events # {} /\ Events \subseteq Log!Event
        /\ Log!Extends(Events, view) /\ view' = Log!Apply(Events, view)
    <3>1. /\ prevFlat # Empty /\ view = Known(prevFlat)
          /\ Events \subseteq Log!Event /\ Log!Extends(Events, view)
      BY <1>1, WriteMovesReader DEF Appends, WriteSucceeds
    <3>2. Network \in Entry
      BY DEF Entry
    <3>3. view # Empty
      BY <3>1, <3>2 DEF Known, Empty, Absent, TypeOK, FlatMap
    <3>4. QED
      BY <1>1, <3>1, <3>3 DEF Appends, WriteSucceeds
  <2>2. Log!Record
    BY <1>1, <2>1, LogBarAppend DEF Log!Record, LogBar
  <2>3. QED
    BY <2>2 DEF Log!Next
<1>2. CASE log' = log /\ view' = view
  BY <1>2 DEF Log!vars
<1>3. CASE AdvanceBaseline
  <2>1. CASE persisted /\ ~SkipCycle /\ prevFlat = Empty
    <3>1. view = Empty /\ log' = log
      BY <1>3, <2>1 DEF AdvanceBaseline, LogTellsBaseline
    <3>2. view' \in [Entry -> Status]
      BY <1>3, <2>1, FlatNowType, KnownType DEF AdvanceBaseline
    <3>3. QED
      BY <3>1, <3>2 DEF Log!Next, Log!Baseline
  <2>2. CASE ~(persisted /\ ~SkipCycle /\ prevFlat = Empty)
    BY <1>2, <1>3, <2>2 DEF AdvanceBaseline
  <2>3. QED
    BY <2>1, <2>2
<1>4. CASE Crash
  BY <1>4 DEF Crash, Log!Next, Log!Restart
<1>5. CASE RecordTransitions /\ ~Appends
  BY <1>2, <1>5 DEF RecordTransitions, NothingToRecord, WriteFails, Appends
<1>6. CASE Start \/ Sweep \/ Publish \/ Tick \/ WorldChanges \/ Reconfigure
           \/ UNCHANGED vars
  BY <1>2, <1>6 DEF Start, Sweep, Publish, Tick, WorldChanges, Reconfigure, vars
<1>7. QED
  BY <1>1, <1>3, <1>4, <1>5, <1>6 DEF Next, Lifecycle

(* The lifecycle, with its crashes, refused writes and blind cycles,       *)
(* implements the abstract transition log.                                 *)
THEOREM Refinement == Spec => ImplementsChangeLog
<1>1. Init => Log!Init
  BY DEF Init, Log!Init
<1>2. QED
  BY <1>1, CoreInductive, StepRefines, PTL DEF Spec, Log!Spec, ImplementsChangeLog
=============================================================================
