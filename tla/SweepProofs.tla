---------------------------- MODULE SweepProofs ----------------------------
(***************************************************************************)
(* What TLAPS proves of Sweep, for every set of targets: a lap records and *)
(* serves what was so during the lap; the recorder and the server rest on  *)
(* the same answers, so that rows and snapshot tell one story; the pool    *)
(* and the headline say what the answers warrant; and, where a region's    *)
(* billing and proxy report about different things, no report is hidden.   *)
(***************************************************************************)
EXTENDS Sweep, FiniteSetTheorems, SequenceTheorems, WellFoundedInduction, TLAPS

-----------------------------------------------------------------------------
(* The answers.                                                            *)

Said0 == Said \union {Absent, "operational"}
Asked(a) == a \in Answer /\ a.net # "unasked"

LEMMA MuteIsSaid == Mute \in [Id -> Said0]
  BY DEF Mute, Said0

LEMMA NoAnswerIsAnswer == NoAnswer \in Answer
  BY MuteIsSaid DEF NoAnswer, Answer, Said0

LEMMA AskedIsSomething == ASSUME NEW a, Asked(a) PROVE a # NoAnswer
  BY DEF Asked, NoAnswer

LEMMA AnswersAreAsked == ASSUME NEW k \in Key, NEW a \in Answers(k) PROVE Asked(a)
<1>1. Sayings(k) \subseteq [Id -> Said0]
  BY TargetAssumption DEF Sayings, Said, Said0
<1>2. CASE a \in [net : {"silent", "error"}, says : {Mute}]
  BY <1>2, MuteIsSaid DEF Asked, Answer, Said0
<1>3. CASE a \in [net : {"slow", "fast"}, says : Sayings(k)]
  BY <1>1, <1>3 DEF Asked, Answer, Said0
<1> QED
  BY <1>2, <1>3 DEF Answers

LEMMA WellIsAsked == ASSUME NEW k \in Key PROVE Asked(Well(k))
  BY DEF Asked, Answer, Well

LEMMA GoneIsAsked == Asked(Gone)
  BY MuteIsSaid DEF Asked, Answer, Gone, Said0

LEMMA TargetsHaveKeys == \A t \in Target : t.key \in Key
  BY DEF Key

LEMMA RecordedAreTargets == RecordedTarget \subseteq Target
  BY DEF RecordedTarget

-----------------------------------------------------------------------------
(* The types of the state the sweeps work on.                              *)

Typed ==
  /\ world \in [Key -> Answer] /\ \A k \in Key : Asked(world[k])
  /\ pc \in {"idle", "prefetching", "warm", "recorded"}
  /\ next \in 1 .. Len(Jobs) + 1
  /\ inflight \subseteq Target
  /\ IsFiniteSet(inflight) /\ Cardinality(inflight) <= Concurrency
  /\ memo \in [Key -> Answer]
  /\ dbOpen \in BOOLEAN
  /\ heard \in [recorder : [RecordedTarget -> Answer], server : [Target -> Answer]]
  /\ during \in [Key -> SUBSET Answer]
  /\ changes \in 0 .. MaxChanges
  /\ laps \in 0 .. MaxLaps

LEMMA UnheardIsTyped ==
  Unheard \in [recorder : [RecordedTarget -> Answer], server : [Target -> Answer]]
  BY NoAnswerIsAnswer DEF Unheard

LEMMA InitTyped == Init => Typed
<1> SUFFICES ASSUME Init PROVE Typed
  OBVIOUS
<1>1. world \in [Key -> Answer] /\ \A k \in Key : Asked(world[k])
  BY WellIsAsked DEF Init, Asked
<1>2. memo \in [Key -> Answer]
  BY NoAnswerIsAnswer DEF Init, Unasked
<1>3. /\ heard \in [recorder : [RecordedTarget -> Answer], server : [Target -> Answer]]
  BY UnheardIsTyped DEF Init
<1>4. next \in 1 .. Len(Jobs) + 1
  BY TargetAssumption, LenProperties DEF Init
<1>5. IsFiniteSet(inflight) /\ Cardinality(inflight) <= Concurrency
  BY FS_EmptySet, BoundAssumption DEF Init
<1> QED
  BY <1>1, <1>2, <1>3, <1>4, <1>5, BoundAssumption DEF Init, Typed

LEMMA AskIsAsked == ASSUME Typed, NEW k \in Key PROVE Ask(k) \in Answer /\ Ask(k) # NoAnswer
<1>1. Asked(world[k]) /\ memo[k] \in Answer
  BY DEF Typed
<1> QED
  BY <1>1, AskedIsSomething DEF Ask, Asked

(* What a sweep of the targets S leaves in the memo.                       *)
LEMMA Remembered ==
  ASSUME Typed, NEW S \in SUBSET Target, Remember(S)
  PROVE  /\ memo' \in [Key -> Answer]
         /\ \A t \in S : memo'[t.key] = Ask(t.key)
         /\ \A k \in Key : memo'[k] = memo[k] \/ memo'[k] = Ask(k)
<1>1. \A k \in Key : memo[k] \in Answer /\ Ask(k) \in Answer
  BY AskIsAsked DEF Typed
<1> QED
  BY <1>1, TargetsHaveKeys DEF Remember

LEMMA TypedStep == Typed /\ [Next]_vars => Typed'
<1> SUFFICES ASSUME Typed, [Next]_vars PROVE Typed'
  OBVIOUS
<1>1. CASE BeginLap
  <2>1. Unasked \in [Key -> Answer] /\ [k \in Key |-> {world[k]}] \in [Key -> SUBSET Answer]
    BY NoAnswerIsAnswer DEF Unasked, Typed
  <2>2. 1 \in 1 .. Len(Jobs) + 1
    BY TargetAssumption, LenProperties
  <2> QED
    BY <1>1, <2>1, <2>2, UnheardIsTyped, BoundAssumption DEF BeginLap, Typed
<1>2. CASE StartProbe
  <2>1. Jobs[next] \in Target
    BY <1>2 DEF StartProbe, Target
  <2>2. next + 1 \in 1 .. Len(Jobs) + 1
    BY <1>2, TargetAssumption, LenProperties DEF StartProbe
  <2>3. /\ IsFiniteSet(inflight \union {Jobs[next]})
        /\ Cardinality(inflight \union {Jobs[next]}) <= Concurrency
    <3>1. IsFiniteSet(inflight) /\ Cardinality(inflight) < Concurrency
      BY <1>2 DEF StartProbe, Typed
    <3>2. Cardinality(inflight) \in Nat
      BY <3>1, FS_CardinalityType
    <3>3. \/ Cardinality(inflight \union {Jobs[next]}) = Cardinality(inflight)
          \/ Cardinality(inflight \union {Jobs[next]}) = Cardinality(inflight) + 1
      BY <3>1, FS_AddElement
    <3>4. IsFiniteSet(inflight \union {Jobs[next]})
      BY <3>1, FS_AddElement
    <3> QED
      BY <3>1, <3>2, <3>3, <3>4, BoundAssumption
  <2>4. \/ inflight' = inflight
        \/ inflight' = inflight \union {Jobs[next]}
    BY <1>2 DEF StartProbe
  <2> QED
    BY <1>2, <2>1, <2>2, <2>3, <2>4 DEF StartProbe, Typed
<1>3. CASE FinishProbe
  <2>1. PICK t \in inflight : /\ inflight' = inflight \ {t}
                              /\ memo' = [memo EXCEPT ![t.key] = world[t.key]]
    BY <1>3 DEF FinishProbe
  <2>2. world[t.key] \in Answer
    BY TargetsHaveKeys DEF Typed
  <2>3. /\ IsFiniteSet(inflight \ {t})
        /\ Cardinality(inflight \ {t}) <= Concurrency
    <3>1. IsFiniteSet(inflight) /\ Cardinality(inflight) <= Concurrency
      BY DEF Typed
    <3>2. Cardinality(inflight) \in Nat
      BY <3>1, FS_CardinalityType
    <3>3. IsFiniteSet(inflight \ {t}) /\ Cardinality(inflight \ {t}) = Cardinality(inflight) - 1
      BY <3>1, FS_RemoveElement
    <3> QED
      BY <3>1, <3>2, <3>3, BoundAssumption
  <2> QED
    BY <1>3, <2>1, <2>2, <2>3 DEF FinishProbe, Typed
<1>4. CASE PrefetchDone
  BY <1>4 DEF PrefetchDone, Typed
<1>5. CASE Record
  <2>1. memo' \in [Key -> Answer]
    BY <1>5, Remembered, RecordedAreTargets DEF Record
  <2>2. [t \in RecordedTarget |-> Ask(t.key)] \in [RecordedTarget -> Answer]
    BY AskIsAsked, TargetsHaveKeys, RecordedAreTargets
  <2>3. heard' = [heard EXCEPT !.recorder = [t \in RecordedTarget |-> Ask(t.key)]]
    BY <1>5 DEF Record
  <2>4. heard' \in [recorder : [RecordedTarget -> Answer], server : [Target -> Answer]]
    BY <2>2, <2>3 DEF Typed
  <2> QED
    BY <1>5, <2>1, <2>4 DEF Record, Typed
<1>6. CASE SkipRecord
  BY <1>6 DEF SkipRecord, Typed
<1>7. CASE Serve
  <2>1. memo' \in [Key -> Answer]
    BY <1>7, Remembered DEF Serve
  <2>2. [t \in Target |-> Ask(t.key)] \in [Target -> Answer]
    BY AskIsAsked, TargetsHaveKeys
  <2>3. heard' = [heard EXCEPT !.server = [t \in Target |-> Ask(t.key)]]
    BY <1>7 DEF Serve
  <2>4. heard' \in [recorder : [RecordedTarget -> Answer], server : [Target -> Answer]]
    BY <2>2, <2>3 DEF Typed
  <2> QED
    BY <1>7, <2>1, <2>4 DEF Serve, Typed
<1>8. CASE WorldChanges
  <2>1. /\ UNCHANGED <<pc, next, inflight, memo, dbOpen, heard, laps>>
        /\ changes' \in 0 .. MaxChanges
    BY <1>8, BoundAssumption DEF WorldChanges, Typed
  <2>2. world' \in [Key -> Answer] /\ \A k \in Key : Asked(world'[k])
    <3>1. ASSUME NEW k \in Key, NEW a \in Answers(k), world' = [world EXCEPT ![k] = a]
          PROVE  world' \in [Key -> Answer] /\ \A j \in Key : Asked(world'[j])
      BY <3>1, AnswersAreAsked DEF Typed, Asked
    <3>2. CASE world' = [k \in Key |-> Gone]
      BY <3>2, GoneIsAsked DEF Asked
    <3>3. CASE world' = [k \in Key |-> Well(k)]
      BY <3>3, WellIsAsked DEF Asked
    <3> QED
      BY <1>8, <3>1, <3>2, <3>3 DEF WorldChanges
  <2>3. during' \in [Key -> SUBSET Answer]
    BY <1>8, <2>2 DEF WorldChanges, Typed
  <2> QED
    BY <2>1, <2>2, <2>3 DEF Typed
<1>9. CASE UNCHANGED vars
  BY <1>9 DEF vars, Typed
<1> QED
  BY <1>1, <1>2, <1>3, <1>4, <1>5, <1>6, <1>7, <1>8, <1>9 DEF Next, Prefetch

-----------------------------------------------------------------------------
(* One lap.                                                                *)

\* Whatever the lap knows so far was so during the lap.
Current ==
  pc # "idle" =>
    \A k \in Key : world[k] \in during[k] /\ (memo[k] # NoAnswer => memo[k] \in during[k])

\* What was recorded rests on answers the memo still has.
Recorded ==
  /\ dbOpen =>
       /\ rows = Rows(heard.recorder)
       /\ \A t \in RecordedTarget :
            memo[t.key] = heard.recorder[t] /\ memo[t.key] # NoAnswer
  /\ ~dbOpen => rows = << >>

\* What was served rests on the answers that were recorded.
Served ==
  /\ snapshot = Flatten(heard.server)
  /\ \A t \in Target : heard.server[t] \in during[t.key]
  /\ dbOpen =>
       /\ rows = Rows(heard.recorder)
       /\ \A t \in RecordedTarget : heard.server[t] = heard.recorder[t]
  /\ ~dbOpen => rows = << >>

LapInv ==
  /\ pc # "prefetching" => inflight = {}
  /\ pc \in {"prefetching", "warm"} => rows = << >>
  /\ Current
  /\ pc = "recorded" => Recorded
  /\ Done => Served

LEMMA InitLap == Init => LapInv
  BY DEF Init, LapInv, Current, Done

LEMMA LapStep == Typed /\ LapInv /\ [Next]_vars => LapInv'
<1> SUFFICES ASSUME Typed, LapInv, [Next]_vars PROVE LapInv'
  OBVIOUS
<1>1. CASE BeginLap
  BY <1>1 DEF BeginLap, LapInv, Current, Done, Unasked, Typed
<1>2. CASE StartProbe
  BY <1>2 DEF StartProbe, LapInv, Current, Done
<1>3. CASE FinishProbe
  <2>1. PICK t \in inflight : /\ inflight' = inflight \ {t}
                              /\ memo' = [memo EXCEPT ![t.key] = world[t.key]]
    BY <1>3 DEF FinishProbe
  <2>2. pc = "prefetching" /\ UNCHANGED <<pc, world, during, rows>>
    BY <1>3, <2>1 DEF FinishProbe, LapInv
  <2>3. Current'
    BY <2>1, <2>2, TargetsHaveKeys DEF Typed, LapInv, Current
  <2> QED
    BY <2>2, <2>3 DEF LapInv, Done
<1>4. CASE PrefetchDone
  BY <1>4 DEF PrefetchDone, LapInv, Current, Done
<1>5. CASE Record
  <2>1. /\ \A t \in RecordedTarget : memo'[t.key] = Ask(t.key)
        /\ \A k \in Key : memo'[k] = memo[k] \/ memo'[k] = Ask(k)
    BY <1>5, Remembered, RecordedAreTargets DEF Record
  <2>2. /\ pc = "warm" /\ pc' = "recorded" /\ dbOpen /\ dbOpen' = dbOpen
        /\ heard'.recorder = [t \in RecordedTarget |-> Ask(t.key)]
        /\ rows' = Rows([t \in RecordedTarget |-> Ask(t.key)])
        /\ UNCHANGED <<world, during, inflight>>
    BY <1>5 DEF Record, Typed
  <2>3. \A t \in RecordedTarget : Ask(t.key) # NoAnswer
    BY AskIsAsked, TargetsHaveKeys, RecordedAreTargets
  <2>4. Recorded'
    BY <2>1, <2>2, <2>3 DEF Recorded
  <2>5. Current'
    BY <2>1, <2>2 DEF LapInv, Current, Ask
  <2> QED
    BY <2>2, <2>4, <2>5 DEF LapInv, Done
<1>6. CASE SkipRecord
  <2>1. /\ pc = "warm" /\ pc' = "recorded" /\ ~dbOpen
        /\ UNCHANGED <<dbOpen, inflight, world, during, memo, rows>>
    BY <1>6 DEF SkipRecord
  <2> QED
    BY <2>1 DEF LapInv, Current, Recorded, Done
<1>7. CASE Serve
  <2>1. /\ pc = "recorded" /\ pc' = "idle"
        /\ heard'.server = [t \in Target |-> Ask(t.key)]
        /\ heard'.recorder = heard.recorder
        /\ snapshot' = Flatten([t \in Target |-> Ask(t.key)])
        /\ UNCHANGED <<world, during, inflight, rows, dbOpen>>
    BY <1>7 DEF Serve, Typed
  <2>2. \A t \in Target : Ask(t.key) \in during[t.key]
    BY <2>1, TargetsHaveKeys DEF LapInv, Current, Ask
  <2>3. dbOpen => \A t \in RecordedTarget : Ask(t.key) = heard.recorder[t]
    BY <2>1 DEF LapInv, Recorded, Ask
  <2>4. snapshot' = Flatten(heard.server)'
    BY <2>1
  <2>5. Served'
    BY <2>1, <2>2, <2>3, <2>4, RecordedAreTargets DEF LapInv, Recorded, Served
  <2> QED
    BY <2>1, <2>5 DEF LapInv, Current
<1>8. CASE WorldChanges
  <2>1. UNCHANGED <<pc, memo, dbOpen, rows, snapshot, heard, inflight, laps>>
    BY <1>8 DEF WorldChanges
  <2>2. /\ pc = "idle" => during' = during
        /\ pc # "idle" => \A k \in Key : during'[k] = during[k] \union {world'[k]}
    BY <1>8 DEF WorldChanges
  <2>3. Current'
    BY <2>1, <2>2 DEF LapInv, Current
  <2>4. Recorded' <=> Recorded
    BY <2>1 DEF Recorded
  <2>5. pc = "idle" => (Served' <=> Served)
    BY <2>1, <2>2 DEF Served
  <2> QED
    BY <2>1, <2>3, <2>4, <2>5 DEF LapInv, Done
<1>9. CASE UNCHANGED vars
  BY <1>9 DEF vars, LapInv, Current, Done, Recorded, Served
<1> QED
  BY <1>1, <1>2, <1>3, <1>4, <1>5, <1>6, <1>7, <1>8, <1>9 DEF Next, Prefetch

LEMMA SweepInvariant == Spec => [](Typed /\ LapInv)
  BY InitTyped, TypedStep, InitLap, LapStep, PTL DEF Spec

(* What a lap records or serves was so during the lap, however the world   *)
(* moved and whichever probes were doubled (probe::Cycle).                 *)
THEOREM NothingIsStale == Spec => []AnswersAreFresh
<1>1. Typed /\ LapInv => AnswersAreFresh
  BY TargetsHaveKeys, RecordedAreTargets DEF LapInv, Served, AnswersAreFresh
<1> QED
  BY <1>1, SweepInvariant, PTL

-----------------------------------------------------------------------------
(* Maps.                                                                   *)

LEMMA KeepLeft ==
  ASSUME NEW f, NEW g, NEW c, c \in DOMAIN f
  PROVE  c \in DOMAIN (f \oplus g) /\ (f \oplus g)[c] = f[c]
  BY DEF \oplus

LEMMA TakeRight ==
  ASSUME NEW f, NEW g, NEW c, c \in DOMAIN g, c \notin DOMAIN f
  PROVE  c \in DOMAIN (f \oplus g) /\ (f \oplus g)[c] = g[c]
  BY DEF \oplus

LEMMA NotInEither ==
  ASSUME NEW f, NEW g, NEW c, c \notin DOMAIN f, c \notin DOMAIN g
  PROVE  c \notin DOMAIN (f \oplus g)
  BY DEF \oplus

LEMMA LookLeft ==
  ASSUME NEW f, NEW g, NEW c, c \in DOMAIN (f \oplus g), c \notin DOMAIN g
  PROVE  c \in DOMAIN f /\ (f \oplus g)[c] = f[c]
  BY DEF \oplus

LEMMA LookRight ==
  ASSUME NEW f, NEW g, NEW c, c \in DOMAIN (f \oplus g), c \notin DOMAIN f
  PROVE  c \in DOMAIN g /\ (f \oplus g)[c] = g[c]
  BY DEF \oplus

-----------------------------------------------------------------------------
(* The worst of what is told.                                              *)

LEMMA SeverityIs == ASSUME NEW s PROVE Severity(s) \in 0 .. 2
  BY DEF Severity

LEMMA LeakKeepsSeverity ==
  ASSUME NEW s PROVE Severity(LeakRow(s)) = Severity(s) /\ Severity(Leak(s)) = Severity(s)
<1>1. Severity(s) \in {0, 1, 2}
  BY SeverityIs
<1>2. /\ Severity("operational") = 0 /\ Severity("degraded") = 1 /\ Severity("outage") = 2
      /\ Severity("unknown") = 0
  BY DEF Severity
<1>3. /\ Ranked[1 + 0] = "operational" /\ Ranked[1 + 1] = "degraded" /\ Ranked[1 + 2] = "outage"
  BY DEF Ranked
<1>4. Severity(Ranked[1 + Severity(s)]) = Severity(s)
  BY <1>1, <1>2, <1>3
<1> QED
  BY <1>2, <1>4 DEF LeakRow, Leak

LEMMA LeastExists ==
  ASSUME NEW T \in SUBSET Nat, T # {} PROVE \E i \in T : \A j \in T : i <= j
<1> DEFINE Less == OpToRel(<, Nat)
<1>1. IsWellFoundedOn(Less, Nat)
  BY NatLessThanWellFounded
<1>2. \A i, j \in Nat : <<j, i>> \in Less <=> j < i
  BY DEF OpToRel
<1> HIDE DEF Less
<1>3. PICK i \in T : \A j \in T : ~ (<<j, i>> \in Less)
  BY <1>1, WFMin
<1>4. \A j \in T : i <= j
  <2> SUFFICES ASSUME NEW j \in T PROVE i <= j
    OBVIOUS
  <2>1. i \in Nat /\ j \in Nat /\ ~ (j < i)
    BY <1>2, <1>3
  <2> QED
    BY <2>1
<1> QED
  BY <1>4

\* What the teller i says of p.
Word(h, i, p) == h[Jobs[i]].says[p]

(* merge_worst gives the word of a teller, and of one of the worst.        *)
LEMMA MergeWorstIsWorst ==
  ASSUME NEW h, NEW class, NEW p, Tellers(h, class, p) # {}
  PROVE  /\ \E i \in Tellers(h, class, p) : MergeWorst(h, class, p) = Word(h, i, p)
         /\ \A j \in Tellers(h, class, p) :
              Severity(Word(h, j, p)) <= Severity(MergeWorst(h, class, p))
         /\ \E i \in Tellers(h, class, p) :
              /\ MergeWorst(h, class, p) = Word(h, i, p)
              /\ \A j \in Tellers(h, class, p) :
                   \/ Severity(Word(h, j, p)) < Severity(Word(h, i, p))
                   \/ Severity(Word(h, j, p)) = Severity(Word(h, i, p)) /\ i <= j
<1> DEFINE T == Tellers(h, class, p)
           rank(i) == Severity(Word(h, i, p))
           Top == {i \in T : \A j \in T : rank(j) <= rank(i)}
           Best(i) == \A j \in T : \/ rank(j) < rank(i)
                                   \/ rank(j) = rank(i) /\ i <= j
<1>1. T \subseteq Nat
  BY TargetAssumption DEF Tellers
<1>2. \A i \in T : rank(i) \in 0 .. 2
  BY SeverityIs
<1> HIDE DEF rank
<1>3. Top # {}
  <2>1. CASE \E i \in T : rank(i) = 2
    <3>1. PICK i \in T : rank(i) = 2
      BY <2>1
    <3> QED
      BY <1>2, <3>1
  <2>2. CASE ~ (\E i \in T : rank(i) = 2) /\ \E i \in T : rank(i) = 1
    <3>1. PICK i \in T : rank(i) = 1
      BY <2>2
    <3>2. \A j \in T : rank(j) <= 1
      BY <1>2, <2>2
    <3> QED
      BY <3>1, <3>2
  <2>3. CASE ~ \E i \in T : rank(i) \in {1, 2}
    BY <1>2, <2>3
  <2> QED
    BY <2>1, <2>2, <2>3
<1>4. PICK i \in Top : \A j \in Top : i <= j
  BY <1>1, <1>3, LeastExists
<1>5. \E k \in T : Best(k)
  <2>1. ASSUME NEW j \in T PROVE rank(j) < rank(i) \/ (rank(j) = rank(i) /\ i <= j)
    BY <1>2, <1>4
  <2> QED
    BY <1>4, <2>1
<1> DEFINE first == CHOOSE k \in T : Best(k)
<1>6. first \in T /\ Best(first)
  BY <1>5
<1>7. MergeWorst(h, class, p) = Word(h, first, p)
  BY DEF MergeWorst, Word, rank
<1>8. \A j \in T : rank(j) <= rank(first)
  BY <1>1, <1>2, <1>6
<1> HIDE DEF first
<1> QED
  BY <1>6, <1>7, <1>8 DEF rank

-----------------------------------------------------------------------------
(* What a component is looked up as.                                       *)

(* The first name of a row's key.                                          *)
LEMMA RowHeads ==
  ASSUME NEW h
  PROVE  /\ \A c \in DOMAIN ServiceRows(h) : c[1] \in {"billing", "proxy"}
         /\ \A c \in DOMAIN DependencyRows(h) : c[1] \in {"billing", "proxy"} /\ c[3] \in Region
         /\ \A c \in DOMAIN LlmRows(h) : c[1] = "proxy"
         /\ \A c \in DOMAIN LocalRows(h) : c[1] = "cirislens"
         /\ \A c \in DOMAIN NetworkRow(h) : c[1] = "monitor"
<1>1. \A t \in Service : t \in Target /\ t.class \in {"billing", "proxy"} /\ t.at \in Region
  BY TargetAssumption DEF Service, OfClass
<1>2. \A c \in DOMAIN DependencyRows(h) : c[1] \in {"billing", "proxy"} /\ c[3] \in Region
  BY <1>1 DEF DependencyRows
<1>3. \A c \in DOMAIN ServiceRows(h) : c[1] \in {"billing", "proxy"}
  BY <1>1 DEF ServiceRows
<1>4. \A c \in DOMAIN LlmRows(h) : c[1] = "proxy"
  BY DEF LlmRows
<1>5. \A c \in DOMAIN LocalRows(h) : c[1] = "cirislens"
  BY DEF LocalRows
<1>6. \A c \in DOMAIN NetworkRow(h) : c[1] = "monitor"
  BY DEF Entry, NetworkRow
<1> QED
  BY <1>2, <1>3, <1>4, <1>5, <1>6

LEMMA ServiceKeys ==
  ASSUME NEW h, NEW c \in DOMAIN ServiceRows(h) PROVE c[3] \in Region
<1>1. \A t \in Service : t.at \in Region
  BY TargetAssumption DEF Service, OfClass
<1> QED
  BY <1>1 DEF ServiceRows

LEMMA ViewKeys ==
  ASSUME NEW h, NEW c \in DOMAIN ViewRows(h) PROVE c[1] = "observation" /\ Len(c) = 4
  BY DEF ViewRows

LEMMA DirectKeys ==
  ASSUME NEW h, NEW c \in DOMAIN DirectRows(h) PROVE c[1] = "observation" /\ Len(c) = 3
  BY DEF DirectRows

(* The row of a provider all the regions share.                            *)
LEMMA LlmRowIs ==
  ASSUME NEW h, NEW p, <<"proxy", p, "global">> \in DOMAIN Rows(h)
  PROVE  /\ p \in Told(h, {"llm"})
         /\ Rows(h)[<<"proxy", p, "global">>] = LeakRow(MergeWorst(h, "proxy", p))
<1> DEFINE c == <<"proxy", p, "global">>
<1>1. c[1] = "proxy" /\ c[2] = p /\ c[3] = "global"
  OBVIOUS
<1> HIDE DEF c
<1>2. /\ c \notin DOMAIN NetworkRow(h) /\ c \notin DOMAIN LocalRows(h)
      /\ c \notin DOMAIN DependencyRows(h)
  BY <1>1, RowHeads, TargetAssumption
<1>3. /\ c \notin DOMAIN ServiceRows(h) /\ c \notin DOMAIN ViewRows(h)
      /\ c \notin DOMAIN DirectRows(h)
  BY <1>1, ServiceKeys, ViewKeys, DirectKeys, TargetAssumption
<1>4. c \in DOMAIN Rows(h)
  BY DEF c
<1>5. /\ c \in DOMAIN LlmRows(h)
      /\ Rows(h)[c] = LlmRows(h)[c]
  <2> DEFINE services == ServiceRows(h) \oplus DependencyRows(h)
             llm == services \oplus LlmRows(h)
             views == llm \oplus ViewRows(h)
             direct == views \oplus DirectRows(h)
             local == direct \oplus LocalRows(h)
  <2>1. Rows(h) = local \oplus NetworkRow(h)
    BY <1>2, <1>4 DEF Rows
  <2>2. c \in DOMAIN local /\ Rows(h)[c] = local[c]
    BY <1>2, <1>4, <2>1, LookLeft
  <2>3. c \in DOMAIN direct /\ local[c] = direct[c]
    BY <1>2, <2>2, LookLeft
  <2>4. c \in DOMAIN views /\ direct[c] = views[c]
    BY <1>3, <2>3, LookLeft
  <2>5. c \in DOMAIN llm /\ views[c] = llm[c]
    BY <1>3, <2>4, LookLeft
  <2>6. c \notin DOMAIN services
    BY <1>2, <1>3 DEF \oplus
  <2>7. c \in DOMAIN LlmRows(h) /\ llm[c] = LlmRows(h)[c]
    BY <2>5, <2>6, LookRight
  <2> QED
    BY <2>2, <2>3, <2>4, <2>5, <2>7
<1>6. PICK q \in Told(h, {"llm"}) : c = <<"proxy", q, "global">>
  BY <1>5 DEF LlmRows
<1>7. q = p
  BY <1>1, <1>6
<1>8. LlmRows(h)[c] = LeakRow(MergeWorst(h, "proxy", c[2]))
  BY <1>5 DEF LlmRows
<1> QED
  BY <1>1, <1>5, <1>6, <1>7, <1>8 DEF c

(* Our own view of an identity provider.                                   *)
LEMMA DirectRowIs ==
  ASSUME NEW h, NEW a, <<"observation", a, "direct">> \in DOMAIN Rows(h)
  PROVE  Rows(h)[<<"observation", a, "direct">>] = Verdict(h[CHOOSE t \in OfClass("auth") : t.at = a])
<1> DEFINE c == <<"observation", a, "direct">>
<1>1. c[1] = "observation" /\ c[2] = a /\ Len(c) = 3
  OBVIOUS
<1> HIDE DEF c
<1>2. /\ c \notin DOMAIN NetworkRow(h) /\ c \notin DOMAIN LocalRows(h)
      /\ c \notin DOMAIN DependencyRows(h) /\ c \notin DOMAIN ServiceRows(h)
      /\ c \notin DOMAIN LlmRows(h)
  BY <1>1, RowHeads
<1>3. c \notin DOMAIN ViewRows(h)
  BY <1>1, ViewKeys
<1>4. c \in DOMAIN Rows(h)
  BY DEF c
<1>5. c \in DOMAIN DirectRows(h) /\ Rows(h)[c] = DirectRows(h)[c]
  <2> DEFINE services == ServiceRows(h) \oplus DependencyRows(h)
             llm == services \oplus LlmRows(h)
             views == llm \oplus ViewRows(h)
             direct == views \oplus DirectRows(h)
             local == direct \oplus LocalRows(h)
  <2>1. Rows(h) = local \oplus NetworkRow(h)
    BY <1>2, <1>4 DEF Rows
  <2>2. c \in DOMAIN local /\ Rows(h)[c] = local[c]
    BY <1>2, <1>4, <2>1, LookLeft
  <2>3. c \in DOMAIN direct /\ local[c] = direct[c]
    BY <1>2, <2>2, LookLeft
  <2>4. c \notin DOMAIN services
    BY <1>2, NotInEither
  <2>5. c \notin DOMAIN llm
    BY <1>2, <2>4, NotInEither
  <2>6. c \notin DOMAIN views
    BY <1>3, <2>5, NotInEither
  <2>7. c \in DOMAIN DirectRows(h) /\ direct[c] = DirectRows(h)[c]
    BY <2>3, <2>6, LookRight
  <2> QED
    BY <2>2, <2>3, <2>7
<1>6. DirectRows(h)[c] = Verdict(h[CHOOSE t \in OfClass("auth") : t.at = c[2]])
  BY <1>5 DEF DirectRows
<1> QED
  BY <1>1, <1>5, <1>6 DEF c

(* The row of a service.                                                   *)
LEMMA OneOfAClass ==
  ASSUME NEW t \in Service, NEW u \in Service, u.class = t.class, u.at = t.at
  PROVE  u = t
<1>1. t \in Target /\ u \in Target /\ t.class \in {"billing", "proxy"}
  BY DEF Service, OfClass
<1> QED
  BY <1>1, TargetAssumption

LEMMA ServiceRowIs ==
  ASSUME NEW h, NEW t \in Service, <<t.class, "service", t.at>> \in DOMAIN Rows(h)
  PROVE  Rows(h)[<<t.class, "service", t.at>>] = Verdict(h[t])
<1> DEFINE c == <<t.class, "service", t.at>>
<1>1. c[1] = t.class /\ c[2] = "service" /\ c[3] = t.at
  OBVIOUS
<1>2. c \in DOMAIN ServiceRows(h)
  BY DEF ServiceRows
<1>3. ServiceRows(h)[c] = Verdict(h[CHOOSE u \in Service : u.class = c[1] /\ u.at = c[3]])
  BY <1>2 DEF ServiceRows
<1> DEFINE found == CHOOSE u \in Service : u.class = c[1] /\ u.at = c[3]
<1>4. found \in Service /\ found.class = t.class /\ found.at = t.at
  BY <1>1
<1>5. found = t
  BY <1>4, OneOfAClass
<1>6. t.class \in {"billing", "proxy"}
  BY DEF Service, OfClass
<1> HIDE DEF c, found
<1>7. c \notin DOMAIN NetworkRow(h)
  BY <1>1, <1>6, RowHeads
<1>8. c \in DOMAIN Rows(h)
  BY DEF c
<1>9. ~Blind(h)
  BY <1>7, <1>8 DEF Rows
<1>10. Rows(h)[c] = ServiceRows(h)[c]
  BY <1>2, <1>9, KeepLeft DEF Rows
<1> QED
  BY <1>3, <1>5, <1>10 DEF c, found

-----------------------------------------------------------------------------
(* What a component of the snapshot is looked up as.                       *)

\* The components flattened before the providers.
Roll(h) ==
  Entry(<<"overall">>, Overall(h)) \oplus Entry(<<"monitor.network">>, Network(h))
    \oplus Services(h) \oplus Infra(h) \oplus Counted(h) \oplus Shown(h) \oplus PrimaryEntry(h)

LEMMA RollHeads ==
  ASSUME NEW h, NEW c \in DOMAIN Roll(h)
  PROVE  c[1] \in {"overall", "monitor.network", "service", "infra", "capability"}
<1>1. \A d \in DOMAIN Entry(<<"overall">>, Overall(h)) : d[1] = "overall"
  BY DEF Entry
<1>2. \A d \in DOMAIN Entry(<<"monitor.network">>, Network(h)) : d[1] = "monitor.network"
  BY DEF Entry
<1>3. \A d \in DOMAIN Services(h) : d[1] = "service"
  BY DEF Services
<1>4. \A d \in DOMAIN Infra(h) : d[1] = "infra"
  BY DEF Infra
<1>5. \A d \in DOMAIN Counted(h) : d[1] = "capability"
  BY DEF Counted, Entry, \oplus
<1>6. \A d \in DOMAIN Shown(h) : d[1] = "capability"
  BY DEF Shown
<1>7. \A d \in DOMAIN PrimaryEntry(h) : d[1] = "capability"
  BY DEF PrimaryEntry, Entry
<1> QED
  BY <1>1, <1>2, <1>3, <1>4, <1>5, <1>6, <1>7, NotInEither DEF Roll

LEMMA FlattenIs ==
  ASSUME NEW h
  PROVE  Flatten(h) = Roll(h) \oplus Llm(h) \oplus Auth(h) \oplus Database(h) \oplus Internal(h)
  BY DEF Flatten, Roll

(* A provider the proxies report, under llm_providers.                     *)
LEMMA LlmShown ==
  ASSUME NEW h, NEW p \in Told(h, {"llm"})
  PROVE  /\ <<"llm", p>> \in DOMAIN Flatten(h)
         /\ Flatten(h)[<<"llm", p>>] = MergeWorst(h, "proxy", p)
<1> DEFINE c == <<"llm", p>>
<1>1. c[1] = "llm" /\ c[2] = p
  OBVIOUS
<1>2. c \in DOMAIN Llm(h) /\ Llm(h)[c] = MergeWorst(h, "proxy", p)
  BY DEF Llm
<1> HIDE DEF c
<1>3. c \notin DOMAIN Roll(h)
  BY <1>1, RollHeads
<1>4. c \in DOMAIN Flatten(h) /\ Flatten(h)[c] = Llm(h)[c]
  BY <1>2, <1>3, TakeRight, KeepLeft, FlattenIs
<1> QED
  BY <1>2, <1>4 DEF c

(* An identity provider we probe, under auth_providers.                    *)
LEMMA AuthShown ==
  ASSUME NEW h, NEW t \in OfClass("auth")
  PROVE  Flatten(h)[<<"auth", t.at>>] = Verdict(h[CHOOSE u \in OfClass("auth") : u.at = t.at])
<1> DEFINE c == <<"auth", t.at>>
           direct == [d \in {<<"auth", u.at>> : u \in OfClass("auth")} |->
                        Verdict(h[CHOOSE u \in OfClass("auth") : u.at = d[2]])]
<1>1. c[1] = "auth" /\ c[2] = t.at
  OBVIOUS
<1>2. c \in DOMAIN direct /\ direct[c] = Verdict(h[CHOOSE u \in OfClass("auth") : u.at = t.at])
  OBVIOUS
<1> HIDE DEF c
<1>3. c \in DOMAIN Auth(h) /\ Auth(h)[c] = direct[c]
  BY <1>2, KeepLeft DEF Auth
<1>4. c \notin DOMAIN Roll(h) /\ c \notin DOMAIN Llm(h)
  BY <1>1, RollHeads DEF Llm
<1>5. c \notin DOMAIN (Roll(h) \oplus Llm(h))
  BY <1>4, NotInEither
<1>6. Flatten(h)[c] = Auth(h)[c]
  BY <1>3, <1>5, TakeRight, KeepLeft, FlattenIs
<1> QED
  BY <1>2, <1>3, <1>6 DEF c

(* A service of a region.                                                  *)
LEMMA ServiceShown ==
  ASSUME NEW h, NEW t \in Service
  PROVE  Flatten(h)[<<"service", t.at, t.class>>] = ServiceVerdict(h[t])
<1> DEFINE c == <<"service", t.at, t.class>>
           found == CHOOSE u \in Target : u.class = c[3] /\ u.at = c[2]
<1>1. c[1] = "service" /\ c[2] = t.at /\ c[3] = t.class
  OBVIOUS
<1>2. c \in DOMAIN Services(h)
  BY DEF Services, Service
<1>3. Services(h)[c] = ServiceVerdict(h[found])
  BY <1>2 DEF Services
<1>4. t \in Target
  BY DEF Service, OfClass
<1>5. found \in Target /\ found.class = t.class /\ found.at = t.at
  BY <1>1, <1>4
<1>6. found \in Service
  BY <1>5 DEF Service, OfClass
<1>7. found = t
  BY <1>5, <1>6, OneOfAClass
<1> HIDE DEF c, found
<1>8. /\ c \notin DOMAIN Entry(<<"overall">>, Overall(h))
      /\ c \notin DOMAIN Entry(<<"monitor.network">>, Network(h))
  BY <1>1 DEF Entry
<1>9. c \in DOMAIN Roll(h) /\ Roll(h)[c] = Services(h)[c]
  BY <1>2, <1>8, NotInEither, TakeRight, KeepLeft DEF Roll
<1>10. Flatten(h)[c] = Roll(h)[c]
  BY <1>9, KeepLeft, FlattenIs
<1> QED
  BY <1>3, <1>7, <1>9, <1>10 DEF c

-----------------------------------------------------------------------------
(* Rows and snapshot.                                                      *)

LEMMA WorstExists ==
  ASSUME NEW S, S # {} PROVE \E s \in S : \A u \in S : Severity(u) <= Severity(s)
<1>1. \A s \in S : Severity(s) \in 0 .. 2
  BY SeverityIs
<1>2. CASE \E s \in S : Severity(s) = 2
  BY <1>1, <1>2
<1>3. CASE ~ (\E s \in S : Severity(s) = 2) /\ \E s \in S : Severity(s) = 1
  BY <1>1, <1>3
<1>4. CASE ~ \E s \in S : Severity(s) \in {1, 2}
  BY <1>1, <1>4
<1> QED
  BY <1>2, <1>3, <1>4

(* A service fares no better than its transport.                           *)
LEMMA ServiceFaresNoBetter ==
  ASSUME NEW a PROVE Severity(Verdict(a)) <= Severity(ServiceVerdict(a))
<1> DEFINE own == Verdict(a)
           deps == {a.says[p] : p \in {q \in Id : a.says[q] # Absent /\ Relation(q) = "indispensable"}}
           worse == {s \in deps : Severity(s) > Severity(own)}
           worst == CHOOSE s \in worse : \A u \in worse : Severity(u) <= Severity(s)
<1>1. Severity(own) \in 0 .. 2
  BY SeverityIs
<1>2. CASE worse = {}
  BY <1>1, <1>2 DEF ServiceVerdict
<1>3. CASE worse # {}
  <2>1. worst \in worse
    BY <1>3, WorstExists
  <2>2. Severity(worst) > Severity(own) /\ Severity(worst) \in 0 .. 2
    BY <2>1, SeverityIs
  <2>3. ServiceVerdict(a) = Leak(worst)
    BY <1>3 DEF ServiceVerdict
  <2> QED
    BY <1>1, <2>2, <2>3, LeakKeepsSeverity
<1> QED
  BY <1>2, <1>3

\* g tells what h tells of every recorded target.
Agree(g, h) == \A t \in RecordedTarget : h[t] = g[t]

LEMMA SameTellers ==
  ASSUME NEW g, NEW h, Agree(g, h), NEW p
  PROVE  /\ Tellers(g, "proxy", p) = Tellers(h, "proxy", p)
         /\ \A i \in Tellers(g, "proxy", p) : Word(g, i, p) = Word(h, i, p)
<1>1. \A i \in DOMAIN Jobs : Jobs[i].class = "proxy" => h[Jobs[i]] = g[Jobs[i]]
  BY DEF Agree, RecordedTarget, Target
<1> QED
  BY <1>1 DEF Tellers, Word

LEMMA SameWorst ==
  ASSUME NEW g, NEW h, Agree(g, h), NEW p \in Told(g, {"llm"})
  PROVE  /\ p \in Told(h, {"llm"})
         /\ Severity(MergeWorst(g, "proxy", p)) = Severity(MergeWorst(h, "proxy", p))
<1> DEFINE T == Tellers(g, "proxy", p)
<1>1. /\ Tellers(h, "proxy", p) = T /\ T # {}
      /\ \A i \in T : Word(g, i, p) = Word(h, i, p)
  BY SameTellers DEF Told
<1>2. p \in Told(h, {"llm"})
  BY <1>1 DEF Told
<1> HIDE DEF T
<1>3. PICK i \in T : MergeWorst(g, "proxy", p) = Word(g, i, p)
  BY <1>1, MergeWorstIsWorst DEF T
<1>4. PICK j \in T : MergeWorst(h, "proxy", p) = Word(h, j, p)
  BY <1>1, MergeWorstIsWorst DEF T
<1>5. Severity(Word(g, j, p)) <= Severity(MergeWorst(g, "proxy", p))
  BY <1>1, MergeWorstIsWorst DEF T
<1>6. Severity(Word(h, i, p)) <= Severity(MergeWorst(h, "proxy", p))
  BY <1>1, MergeWorstIsWorst DEF T
<1>7. /\ Severity(MergeWorst(g, "proxy", p)) \in 0 .. 2
      /\ Severity(MergeWorst(h, "proxy", p)) \in 0 .. 2
  BY SeverityIs
<1> QED
  BY <1>1, <1>2, <1>3, <1>4, <1>5, <1>6, <1>7

(* The rows a lap recorded and the snapshot it served tell of the same     *)
(* answers, for every set of targets and whatever the world does while the *)
(* lap runs ("what we serve is what we recorded", probe::Cycle).           *)
THEOREM WhatIsServedWasRecorded == Spec => []RowsTellTheSnapshot
<1>1. Typed /\ LapInv => RowsTellTheSnapshot
  <2> SUFFICES ASSUME Typed, LapInv, Sighted PROVE RowsTellTheSnapshot
    BY DEF RowsTellTheSnapshot
  <2> DEFINE g == heard.recorder
             h == heard.server
  <2>1. snapshot = Flatten(h)
    BY DEF LapInv, Served, Sighted
  <2>2. CASE ~dbOpen
    <3>1. rows = << >>
      BY <2>2 DEF LapInv, Served, Sighted
    <3>2. DOMAIN rows = {}
      BY <3>1
    <3> QED
      BY <3>2 DEF RowsTellTheSnapshot
  <2>3. CASE dbOpen
    <3>1. rows = Rows(g) /\ Agree(g, h)
      BY <2>3 DEF LapInv, Served, Sighted, Agree
    <3> HIDE DEF g, h
    <3>2. ASSUME NEW p \in Id, <<"proxy", p, "global">> \in DOMAIN rows
          PROVE  /\ <<"llm", p>> \in DOMAIN snapshot
                 /\ Severity(rows[<<"proxy", p, "global">>]) = Severity(snapshot[<<"llm", p>>])
      <4>1. /\ p \in Told(g, {"llm"})
            /\ rows[<<"proxy", p, "global">>] = LeakRow(MergeWorst(g, "proxy", p))
        BY <3>1, <3>2, LlmRowIs
      <4>2. /\ p \in Told(h, {"llm"})
            /\ Severity(MergeWorst(g, "proxy", p)) = Severity(MergeWorst(h, "proxy", p))
        BY <3>1, <4>1, SameWorst
      <4>3. /\ <<"llm", p>> \in DOMAIN snapshot
            /\ snapshot[<<"llm", p>>] = MergeWorst(h, "proxy", p)
        BY <2>1, <4>2, LlmShown
      <4> QED
        BY <4>1, <4>2, <4>3, LeakKeepsSeverity
    <3>3. ASSUME NEW t \in OfClass("auth"), <<"observation", t.at, "direct">> \in DOMAIN rows
          PROVE  rows[<<"observation", t.at, "direct">>] = snapshot[<<"auth", t.at>>]
      <4> DEFINE u == CHOOSE v \in OfClass("auth") : v.at = t.at
      <4>1. rows[<<"observation", t.at, "direct">>] = Verdict(g[u])
        BY <3>1, <3>3, DirectRowIs
      <4>2. snapshot[<<"auth", t.at>>] = Verdict(h[u])
        BY <2>1, AuthShown
      <4>3. u \in RecordedTarget
        BY DEF OfClass, RecordedTarget
      <4> HIDE DEF u
      <4> QED
        BY <3>1, <4>1, <4>2, <4>3 DEF Agree
    <3>4. ASSUME NEW t \in Service, <<t.class, "service", t.at>> \in DOMAIN rows
          PROVE  Severity(rows[<<t.class, "service", t.at>>])
                   <= Severity(snapshot[<<"service", t.at, t.class>>])
      <4>1. rows[<<t.class, "service", t.at>>] = Verdict(g[t])
        BY <3>1, <3>4, ServiceRowIs
      <4>2. snapshot[<<"service", t.at, t.class>>] = ServiceVerdict(h[t])
        BY <2>1, ServiceShown
      <4>3. h[t] = g[t]
        BY <3>1 DEF Agree, Service, OfClass, RecordedTarget
      <4> QED
        BY <4>1, <4>2, <4>3, ServiceFaresNoBetter
    <3> QED
      BY <3>2, <3>3, <3>4 DEF RowsTellTheSnapshot, Service
  <2> QED
    BY <2>2, <2>3
<1> QED
  BY <1>1, SweepInvariant, PTL

-----------------------------------------------------------------------------
(* The types of rows and snapshot.                                         *)

Gives(f, S) == \A c \in DOMAIN f : f[c] \in S
Shows == Status \union Said \union {"partial_outage", "major_outage", "serving_on_fallback"}

LEMMA OverlayGives ==
  ASSUME NEW f, NEW g, NEW S, Gives(f, S), Gives(g, S) PROVE Gives(f \oplus g, S)
  BY DEF Gives, \oplus

LEMMA OverlaysGive ==
  ASSUME NEW a, NEW b, NEW c, NEW d, NEW e, NEW S,
         Gives(a, S), Gives(b, S), Gives(c, S), Gives(d, S), Gives(e, S)
  PROVE  Gives(a \oplus b \oplus c \oplus d \oplus e, S)
  BY OverlayGives

LEMMA EntryGives == ASSUME NEW c, NEW S, NEW s \in S PROVE Gives(Entry(c, s), S)
  BY DEF Gives, Entry

LEMMA VerdictIsStatus == ASSUME NEW a PROVE Verdict(a) \in Status
  BY DEF Verdict, Status

LEMMA LeakIsStatus == ASSUME NEW s PROVE LeakRow(s) \in Status /\ Leak(s) \in Status
<1>1. Severity(s) \in {0, 1, 2}
  BY SeverityIs
<1>2. /\ Ranked[1 + 0] = "operational" /\ Ranked[1 + 1] = "degraded" /\ Ranked[1 + 2] = "outage"
  BY DEF Ranked
<1>3. Ranked[1 + Severity(s)] \in Status
  BY <1>1, <1>2 DEF Status
<1> QED
  BY <1>3 DEF LeakRow, Leak, Status

LEMMA RowsAreTyped == ASSUME NEW h PROVE Gives(Rows(h), Status)
<1>1. Gives(ServiceRows(h), Status)
  BY VerdictIsStatus DEF Gives, ServiceRows
<1>2. Gives(DependencyRows(h), Status)
  BY LeakIsStatus DEF Gives, DependencyRows
<1>3. Gives(LlmRows(h), Status)
  BY LeakIsStatus DEF Gives, LlmRows
<1>4. Gives(ViewRows(h), Status)
  BY LeakIsStatus DEF Gives, ViewRows
<1>5. Gives(DirectRows(h), Status)
  BY VerdictIsStatus DEF Gives, DirectRows
<1>6. Gives(LocalRows(h), Status)
  BY VerdictIsStatus DEF Gives, LocalRows
<1>7. Gives(NetworkRow(h), Status)
  BY EntryGives DEF NetworkRow, Network, Status
<1> QED
  BY <1>1, <1>2, <1>3, <1>4, <1>5, <1>6, <1>7, OverlayGives DEF Rows

LEMMA WordsAreSaid ==
  ASSUME NEW h \in [Target -> Answer], NEW t \in Target, NEW p \in Id, Answered(h, t, p)
  PROVE  h[t].says[p] \in Shows
<1>1. h[t] \in Answer
  OBVIOUS
<1>2. h[t].says[p] \in Said0
  BY <1>1 DEF Answer, Said0
<1> QED
  BY <1>2 DEF Answered, Said0, Shows, Status

LEMMA MergeWorstIsSaid ==
  ASSUME NEW h \in [Target -> Answer], NEW class, NEW p \in Id, Tellers(h, class, p) # {}
  PROVE  MergeWorst(h, class, p) \in Shows
<1>1. PICK i \in Tellers(h, class, p) : MergeWorst(h, class, p) = Word(h, i, p)
  BY MergeWorstIsWorst
<1>2. Jobs[i] \in Target /\ Answered(h, Jobs[i], p)
  BY DEF Tellers, Target, Answered
<1> QED
  BY <1>1, <1>2, WordsAreSaid DEF Word

LEMMA WorstIsStatus == ASSUME NEW S PROVE Worst(S) \in Status
<1> DEFINE ranks == {Severity(s) : s \in S}
<1>1. CASE S = {}
  BY <1>1 DEF Worst, Status
<1>2. CASE S # {}
  <2>1. PICK s \in S : \A u \in S : Severity(u) <= Severity(s)
    BY <1>2, WorstExists
  <2>2. MaxOf(ranks) \in ranks
    BY <2>1 DEF MaxOf
  <2>3. PICK u \in S : MaxOf(ranks) = Severity(u)
    BY <2>2
  <2>4. Worst(S) = LeakRow(u)
    BY <1>2, <2>3 DEF Worst, LeakRow
  <2> QED
    BY <2>4, LeakIsStatus
<1> QED
  BY <1>1, <1>2

LEMMA ServiceVerdictIsStatus == ASSUME NEW a PROVE ServiceVerdict(a) \in Status
  BY VerdictIsStatus, LeakIsStatus DEF ServiceVerdict

LEMMA LlmIsTyped == ASSUME NEW h \in [Target -> Answer] PROVE Gives(Llm(h), Shows)
  BY MergeWorstIsSaid DEF Gives, Llm, Told

LEMMA ObservedIsTyped ==
  ASSUME NEW h \in [Target -> Answer], NEW p PROVE Observed(h, p) \in Shows
  BY LlmIsTyped DEF Observed, Gives, Shows, Status

LEMMA InfraIsTyped == ASSUME NEW h PROVE Gives(Infra(h), Status)
  BY VerdictIsStatus DEF Gives, Infra

LEMMA AuthIsTyped == ASSUME NEW h \in [Target -> Answer] PROVE Gives(Auth(h), Shows)
<1> DEFINE direct == [c \in {<<"auth", t.at>> : t \in OfClass("auth")} |->
                        Verdict(h[CHOOSE t \in OfClass("auth") : t.at = c[2]])]
           told == [c \in {<<"auth", p>> : p \in {q \in Identity \ DirectAuth : Tellers(h, "billing", q) # {}}} |->
                      MergeWorst(h, "billing", c[2])]
<1>1. Gives(direct, Shows)
  BY VerdictIsStatus DEF Gives, Shows
<1>2. Gives(told, Shows)
  BY MergeWorstIsSaid, TargetAssumption DEF Gives
<1> HIDE DEF direct, told
<1> QED
  BY <1>1, <1>2, OverlayGives DEF Auth, direct, told

LEMMA DatabaseIsTyped == ASSUME NEW h \in [Target -> Answer] PROVE Gives(Database(h), Shows)
<1> DEFINE own == {t \in OfClass("local") : t.at = "postgresql"}
           told == {t \in OfClass("billing") : Answered(h, t, "postgresql")}
           lens == [c \in {<<"db", "lens">> : t \in own} |-> Verdict(h[CHOOSE t \in own : TRUE])]
           theirs == [c \in {<<"db", t.at>> : t \in told} |->
                        h[CHOOSE t \in told : t.at = c[2]].says["postgresql"]]
<1>1. Gives(lens, Shows)
  BY VerdictIsStatus DEF Gives, Shows
<1>2. \A t \in told : t \in Target /\ h[t].says["postgresql"] \in Shows
  BY WordsAreSaid, TargetAssumption DEF OfClass
<1> HIDE DEF told
<1>3. ASSUME NEW c \in DOMAIN theirs PROVE theirs[c] \in Shows
  <2>1. PICK t \in told : c = <<"db", t.at>>
    OBVIOUS
  <2>2. t.at = c[2]
    BY <2>1
  <2>3. (CHOOSE u \in told : u.at = c[2]) \in told
    BY <2>2
  <2> QED
    BY <1>2, <2>3
<1>4. Gives(theirs, Shows)
  BY <1>3 DEF Gives
<1> HIDE DEF lens, theirs, own
<1> QED
  BY <1>1, <1>4, OverlayGives DEF Database, lens, theirs, own, told

LEMMA InternalIsTyped ==
  ASSUME NEW h \in [Target -> Answer]
  PROVE  /\ Gives(Internal(h), Shows)
         /\ \A p \in Told(h, {"search"}) : <<"internal", p>> \in DOMAIN Internal(h)
<1> DEFINE search == [c \in {<<"internal", p>> : p \in Told(h, {"search"})} |->
                        MergeWorst(h, "proxy", c[2])]
           ofProxy == {x \in OfClass("proxy") \X Id :
                         Answered(h, x[1], x[2]) /\ Bucket(x[2]) = "internal"}
           ofBilling == {x \in OfClass("billing") \X Id :
                           Answered(h, x[1], x[2]) /\ x[2] \notin Identity \union {"postgresql"}}
           dep(S) == [c \in {<<"internal", x[1].at, x[2]>> : x \in S} |->
                        LET x == CHOOSE y \in S : y[1].at = c[2] /\ y[2] = c[3]
                        IN h[x[1]].says[x[2]]]
           direct == [c \in {<<"internal", t.at>> : t \in Probed} |->
                        Verdict(h[CHOOSE t \in Probed : t.at = c[2]])]
<1>1. Gives(search, Shows)
  BY MergeWorstIsSaid DEF Gives, Told
<1>2. Gives(direct, Shows)
  BY VerdictIsStatus DEF Gives, Shows
<1>3. ASSUME NEW S, \A x \in S : h[x[1]].says[x[2]] \in Shows
      PROVE  Gives(dep(S), Shows)
  <2> SUFFICES ASSUME NEW c \in DOMAIN dep(S) PROVE dep(S)[c] \in Shows
    BY DEF Gives
  <2>1. PICK x \in S : c = <<"internal", x[1].at, x[2]>>
    OBVIOUS
  <2>2. x[1].at = c[2] /\ x[2] = c[3]
    BY <2>1
  <2>3. (CHOOSE y \in S : y[1].at = c[2] /\ y[2] = c[3]) \in S
    BY <2>2
  <2> QED
    BY <1>3, <2>3
<1>4. /\ \A x \in ofProxy : h[x[1]].says[x[2]] \in Shows
      /\ \A x \in ofBilling : h[x[1]].says[x[2]] \in Shows
  BY WordsAreSaid DEF OfClass
<1>5. Internal(h) = direct \oplus dep(ofProxy) \oplus dep(ofBilling) \oplus search
  BY DEF Internal
<1>6. \A p \in Told(h, {"search"}) : <<"internal", p>> \in DOMAIN search
  OBVIOUS
<1> HIDE DEF search, ofProxy, ofBilling, dep, direct
<1>7. Gives(dep(ofProxy), Shows) /\ Gives(dep(ofBilling), Shows)
  BY <1>3, <1>4
<1>8. Gives(Internal(h), Shows)
  BY <1>1, <1>2, <1>5, <1>7, OverlayGives
<1>9. DOMAIN search \subseteq DOMAIN Internal(h)
  BY <1>5 DEF \oplus
<1> QED
  BY <1>6, <1>8, <1>9

LEMMA RollUpIsShown == ASSUME NEW h PROVE RollUp(h) \in Shows
  BY DEF RollUp, Shows, Status

LEMMA CountedIsTyped == ASSUME NEW h PROVE Gives(Counted(h), Shows)
<1> DEFINE infra == Infra(h)
           pool == Entry(<<"capability", "pool">>, RollUp(h))
           regions == [c \in {<<"capability", "region", r>> : r \in Region} |-> RegionStatus(h, c[3])]
           hosts == [c \in {<<"capability", "infra", d[2]>> : d \in DOMAIN infra} |-> infra[<<"infra", c[3]>>]]
<1>1. Gives(pool, Shows)
  BY RollUpIsShown, EntryGives
<1>2. Gives(regions, Shows)
  BY WorstIsStatus DEF Gives, RegionStatus, Shows
<1>3. ASSUME NEW c \in DOMAIN hosts PROVE hosts[c] \in Shows
  <2>1. PICK d \in DOMAIN infra : c = <<"capability", "infra", d[2]>>
    OBVIOUS
  <2>2. d = <<"infra", d[2]>> /\ c[3] = d[2]
    BY <2>1 DEF Infra
  <2>3. hosts[c] = infra[d]
    BY <2>2
  <2> QED
    BY <2>3, InfraIsTyped DEF Gives, Shows
<1>4. Gives(hosts, Shows)
  BY <1>3 DEF Gives
<1> HIDE DEF pool, regions, hosts
<1> QED
  BY <1>1, <1>2, <1>4, OverlayGives DEF Counted, pool, regions, hosts

LEMMA ShownIsTyped == ASSUME NEW h \in [Target -> Answer] PROVE Gives(Shown(h), Shows)
<1> SUFFICES ASSUME NEW c \in DOMAIN Shown(h) PROVE Shown(h)[c] \in Shows
  BY DEF Gives
<1>1. PICK p \in Told(h, {"llm", "search"}) : c = <<"capability", "provider", p>>
  BY DEF Shown
<1>2. c[3] = p
  BY <1>1
<1>3. CASE <<"llm", p>> \in DOMAIN Llm(h)
  <2>1. Shown(h)[c] = Llm(h)[<<"llm", p>>]
    BY <1>2, <1>3 DEF Shown
  <2> QED
    BY <1>3, <2>1, LlmIsTyped DEF Gives
<1>4. CASE <<"llm", p>> \notin DOMAIN Llm(h)
  <2>1. Shown(h)[c] = Internal(h)[<<"internal", p>>]
    BY <1>2, <1>4 DEF Shown
  <2>2. p \notin Told(h, {"llm"})
    BY <1>4 DEF Llm
  <2>3. p \in Told(h, {"search"})
    BY <1>1, <2>2 DEF Told
  <2> QED
    BY <2>1, <2>3, InternalIsTyped DEF Gives
<1> QED
  BY <1>3, <1>4

LEMMA PrimaryIsTyped == ASSUME NEW h \in [Target -> Answer] PROVE Gives(PrimaryEntry(h), Shows)
<1>1. Observed(h, Primary) \in Shows /\ "serving_on_fallback" \in Shows
  BY ObservedIsTyped DEF Shows
<1>2. \A c : \A s \in Shows : Gives(Entry(c, s), Shows)
  BY EntryGives
<1>3. Gives(<< >>, Shows)
  BY DEF Gives
<1> QED
  BY <1>1, <1>2, <1>3 DEF PrimaryEntry

LEMMA SnapshotIsTyped == ASSUME NEW h \in [Target -> Answer] PROVE Gives(Flatten(h), Shows)
<1>1. Gives(Entry(<<"overall">>, Overall(h)), Shows)
  BY EntryGives DEF Overall, Shows, Status
<1>2. Gives(Entry(<<"monitor.network">>, Network(h)), Shows)
  BY EntryGives DEF Network, Shows, Status
<1>3. Gives(Services(h), Shows)
  BY ServiceVerdictIsStatus DEF Gives, Services, Shows
<1>4. Gives(Infra(h), Shows)
  BY InfraIsTyped DEF Gives, Shows
<1>5. Gives(Roll(h), Shows)
  BY <1>1, <1>2, <1>3, <1>4, CountedIsTyped, ShownIsTyped, PrimaryIsTyped, OverlayGives DEF Roll
<1> QED
  BY <1>5, LlmIsTyped, AuthIsTyped, DatabaseIsTyped, InternalIsTyped, OverlaysGive, FlattenIs

Shaped == Gives(rows, Status) /\ Gives(snapshot, Shows)

LEMMA ShapedStep == Typed /\ Shaped /\ [Next]_vars => Shaped'
<1> SUFFICES ASSUME Typed, Shaped, [Next]_vars PROVE Shaped'
  OBVIOUS
<1>1. Gives(<< >>, Status)
  BY DEF Gives
<1>2. Gives(rows', Status)
  <2>1. CASE rows' = rows
    BY <2>1 DEF Shaped, Gives
  <2>2. CASE BeginLap
    BY <1>1, <2>2 DEF BeginLap
  <2>3. CASE Record
    BY <2>3, RowsAreTyped DEF Record
  <2>4. rows' = rows \/ BeginLap \/ Record
    BY DEF Next, Prefetch, StartProbe, FinishProbe, PrefetchDone, SkipRecord, Serve,
           WorldChanges, vars
  <2> QED
    BY <2>1, <2>2, <2>3, <2>4
<1>3. Gives(snapshot', Shows)
  <2>1. CASE snapshot' = snapshot
    BY <2>1 DEF Shaped, Gives
  <2>2. CASE Serve
    <3>1. [t \in Target |-> Ask(t.key)] \in [Target -> Answer]
      BY AskIsAsked, TargetsHaveKeys
    <3> QED
      BY <2>2, <3>1, SnapshotIsTyped DEF Serve
  <2>3. snapshot' = snapshot \/ Serve
    BY DEF Next, BeginLap, Prefetch, StartProbe, FinishProbe, PrefetchDone, Record, SkipRecord,
           WorldChanges, vars
  <2> QED
    BY <2>1, <2>2, <2>3
<1> QED
  BY <1>2, <1>3 DEF Shaped, Gives

LEMMA ShapedInvariant == Spec => []Shaped
<1>1. Init => Shaped
  BY DEF Init, Shaped, Gives
<1>2. Typed /\ LapInv /\ Shaped /\ [Next]_vars => Shaped'
  BY ShapedStep
<1> QED
  BY <1>1, <1>2, SweepInvariant, PTL DEF Spec

(* The types of a lap: no more probes at once than PREFETCH_CONCURRENCY,   *)
(* every row one of the statuses the history knows, and everything shown a *)
(* status, a word of a service, or the pool's own (probe, history,         *)
(* aggregate).                                                             *)
THEOREM SweepTypeCorrect == Spec => []TypeOK
<1>1. Typed /\ Shaped => TypeOK
  <2> SUFFICES ASSUME Typed, Shaped PROVE TypeOK
    OBVIOUS
  <2>1. /\ \A c \in DOMAIN rows : rows[c] \in Status
        /\ \A c \in DOMAIN snapshot :
             snapshot[c] \in Status \union Said
                               \union {"partial_outage", "major_outage", "serving_on_fallback"}
    BY DEF Shaped, Gives, Shows
  <2> QED
    BY <2>1 DEF Typed, TypeOK
<1> QED
  BY <1>1, SweepInvariant, ShapedInvariant, PTL

-----------------------------------------------------------------------------
(* The pool.                                                               *)

LEMMA Ranks ==
  /\ Severity("operational") = 0 /\ Severity("degraded") = 1 /\ Severity("outage") = 2
  /\ Severity("degraded_performance") = 1
  /\ Severity("partial_outage") = 2 /\ Severity("major_outage") = 2
  /\ Severity("unknown") = 0 /\ Severity("absent") = 0
  BY DEF Severity

(* The words of the proxies about p.                                       *)
LEMMA ProxyWords ==
  ASSUME NEW h \in [Target -> Answer], NEW p \in Id
  PROVE  /\ \A i \in Tellers(h, "proxy", p) :
              /\ Jobs[i] \in OfClass("proxy") /\ Word(h, i, p) = h[Jobs[i]].says[p]
              /\ Word(h, i, p) # Absent
              /\ Word(h, i, p) \in Said \union {"operational"}
         /\ \A t \in OfClass("proxy") :
              \/ h[t].says[p] = Absent
              \/ \E i \in Tellers(h, "proxy", p) : Jobs[i] = t
<1>1. ASSUME NEW i \in Tellers(h, "proxy", p)
      PROVE  /\ Jobs[i] \in OfClass("proxy") /\ Word(h, i, p) = h[Jobs[i]].says[p]
             /\ Word(h, i, p) # Absent
             /\ Word(h, i, p) \in Said \union {"operational"}
  <2>1. Jobs[i] \in OfClass("proxy") /\ Word(h, i, p) = h[Jobs[i]].says[p] /\ Word(h, i, p) # Absent
    BY DEF Tellers, Word, OfClass, Target
  <2>2. h[Jobs[i]] \in Answer
    BY <2>1 DEF OfClass
  <2>3. h[Jobs[i]].says[p] \in Said \union {Absent, "operational"}
    BY <2>2 DEF Answer
  <2> QED
    BY <2>1, <2>3
<1>2. ASSUME NEW t \in OfClass("proxy"), h[t].says[p] # Absent
      PROVE  \E i \in Tellers(h, "proxy", p) : Jobs[i] = t
  BY <1>2 DEF OfClass, Target, Tellers
<1> QED
  BY <1>1, <1>2

(* What is observed of a member is neither `operational' nor `unknown'     *)
(* exactly when it is faulted, and `operational' only if nobody complains  *)
(* (merge_worst, roll_up).                                                 *)
LEMMA ObservedIs ==
  ASSUME NEW h \in [Target -> Answer], NEW p \in Member
  PROVE  /\ Faulted(h, p) <=> Observed(h, p) \notin {"operational", "unknown"}
         /\ Observed(h, p) = "operational" =>
              /\ \E t \in OfClass("proxy") : h[t].says[p] = "operational"
              /\ \A t \in OfClass("proxy") : Severity(h[t].says[p]) = 0
<1> DEFINE T == Tellers(h, "proxy", p)
           worst == MergeWorst(h, "proxy", p)
           ranks(i) == Severity(Word(h, i, p))
           foreign(i) == Word(h, i, p) \notin {"operational", "unknown"} /\ \A j \in T : i <= j
<1>0. p \in Id
  BY TargetAssumption
<1>1. Faulted(h, p) <=> Bucket(p) = "llm" /\ \E i \in T : ranks(i) > 0 \/ foreign(i)
  BY DEF Faulted, Word
<1>2. CASE Bucket(p) # "llm" \/ T = {}
  <2>1. <<"llm", p>> \notin DOMAIN Llm(h)
    BY <1>2 DEF Llm, Told
  <2>2. Observed(h, p) = "unknown"
    BY <2>1 DEF Observed
  <2> QED
    BY <1>1, <1>2, <2>2
<1>3. CASE Bucket(p) = "llm" /\ T # {}
  <2>1. p \in Told(h, {"llm"})
    BY <1>0, <1>3 DEF Told
  <2>2. <<"llm", p>> \in DOMAIN Llm(h) /\ Llm(h)[<<"llm", p>>] = worst
    BY <2>1 DEF Llm
  <2>3. Observed(h, p) = worst
    BY <2>2 DEF Observed
  <2>4. PICK i \in T : /\ worst = Word(h, i, p)
                       /\ \A j \in T : \/ ranks(j) < ranks(i)
                                       \/ ranks(j) = ranks(i) /\ i <= j
    BY <1>3, MergeWorstIsWorst
  <2>5. T \subseteq Nat /\ \A j \in T : ranks(j) \in 0 .. 2
    BY TargetAssumption, SeverityIs DEF Tellers
  <2>6. Jobs[i] \in OfClass("proxy") /\ worst = h[Jobs[i]].says[p]
    BY <1>0, <2>4, ProxyWords
  <2>7. ASSUME ranks(i) > 0 PROVE worst \notin {"operational", "unknown"}
    BY <2>4, <2>7, Ranks
  <2>8. ASSUME worst \notin {"operational", "unknown"} PROVE ranks(i) > 0 \/ foreign(i)
    <3>1. ASSUME ~(ranks(i) > 0) PROVE \A j \in T : i <= j
      <4> HIDE DEF ranks, T
      <4> QED
        BY <2>4, <2>5, <3>1
    <3> QED
      BY <2>4, <2>8, <3>1
  <2>9. ASSUME NEW k \in T, ranks(k) > 0 \/ foreign(k)
        PROVE  worst \notin {"operational", "unknown"}
    <3>1. CASE ranks(i) > 0
      BY <2>7, <3>1
    <3>2. CASE ~(ranks(i) > 0)
      <4>1. i <= k /\ ~(ranks(k) > 0)
        <5> HIDE DEF ranks, T
        <5> QED
          BY <2>4, <2>5, <2>9, <3>2
      <4>2. foreign(k) /\ k <= i
        BY <2>4, <2>9, <4>1
      <4>3. i = k
        BY <2>4, <2>5, <2>9, <4>1, <4>2
      <4> QED
        BY <2>4, <4>2, <4>3
    <3> QED
      BY <3>1, <3>2
  <2>10. Faulted(h, p) <=> worst \notin {"operational", "unknown"}
    BY <1>1, <1>3, <2>4, <2>8, <2>9
  <2>11. ASSUME worst = "operational", NEW t \in OfClass("proxy")
         PROVE  Severity(h[t].says[p]) = 0
    <3>1. CASE h[t].says[p] = Absent
      BY <3>1, Ranks DEF Absent
    <3>2. CASE h[t].says[p] # Absent
      <4>1. PICK j \in T : Jobs[j] = t
        BY <1>0, <3>2, ProxyWords
      <4>2. Word(h, j, p) = h[t].says[p]
        BY <4>1 DEF Word
      <4>3. ranks(i) = 0
        BY <2>4, <2>11, Ranks
      <4>4. ranks(j) = 0
        <5> HIDE DEF ranks, T
        <5> QED
          BY <2>4, <2>5, <4>1, <4>3
      <4> QED
        BY <4>2, <4>4
    <3> QED
      BY <3>1, <3>2
  <2> HIDE DEF T, worst
  <2> QED
    BY <2>3, <2>6, <2>10, <2>11
<1> QED
  BY <1>2, <1>3

Serving(h) == {p \in Member : Observed(h, p) = "operational"}

(* The pool is out exactly when every member is faulted.                   *)
LEMMA RollUpIs ==
  ASSUME NEW h \in [Target -> Answer]
  PROVE  /\ RollUp(h) \in {"operational", "degraded", "unknown", "major_outage"}
         /\ RollUp(h) = "major_outage" <=> PoolDown(h)
         /\ RollUp(h) = "operational" => Cardinality(Serving(h)) >= MinAvailable
<1>1. IsFiniteSet(Serving(h)) /\ Available(h) = Cardinality(Serving(h)) /\ Available(h) \in Nat
  <2>1. IsFiniteSet(Serving(h))
    BY TargetAssumption, FS_Subset DEF Serving
  <2> QED
    BY <2>1, FS_CardinalityType DEF Available, Serving
<1>2. Available(h) = 0 <=> Serving(h) = {}
  BY <1>1, FS_EmptySet
<1>3. PoolDown(h) <=> \A p \in Member : Observed(h, p) \notin {"operational", "unknown"}
  BY ObservedIs DEF PoolDown
<1>4. RollUp(h) = "major_outage" <=>
        Available(h) = 0 /\ ~ \E p \in Member : Observed(h, p) = "unknown"
  BY <1>1, BoundAssumption DEF RollUp
<1>5. RollUp(h) \in {"operational", "degraded", "unknown", "major_outage"}
  BY DEF RollUp
<1>6. RollUp(h) = "operational" => Available(h) >= MinAvailable
  BY <1>1, BoundAssumption DEF RollUp
<1> QED
  BY <1>1, <1>2, <1>3, <1>4, <1>5, <1>6 DEF Serving

(* The capabilities that count, each under its name.                       *)
LEMMA CountedIs ==
  ASSUME NEW h
  PROVE  /\ DOMAIN Counted(h) = {<<"capability", "pool">>}
                                  \union {<<"capability", "region", r>> : r \in Region}
                                  \union {<<"capability", "infra", t.at>> : t \in OfClass("infra")}
         /\ Counted(h)[<<"capability", "pool">>] = RollUp(h)
         /\ \A r \in Region : Counted(h)[<<"capability", "region", r>>] = RegionStatus(h, r)
         /\ \A t \in OfClass("infra") :
              Counted(h)[<<"capability", "infra", t.at>>] = Verdict(h[t])
<1> DEFINE infra == Infra(h)
           pool == Entry(<<"capability", "pool">>, RollUp(h))
           regions == [c \in {<<"capability", "region", r>> : r \in Region} |-> RegionStatus(h, c[3])]
           hosts == [c \in {<<"capability", "infra", d[2]>> : d \in DOMAIN infra} |-> infra[<<"infra", c[3]>>]]
<1>1. Counted(h) = pool \oplus regions \oplus hosts
  BY DEF Counted
<1>2. DOMAIN pool = {<<"capability", "pool">>} /\ pool[<<"capability", "pool">>] = RollUp(h)
  BY DEF Entry
<1>3. /\ DOMAIN regions = {<<"capability", "region", r>> : r \in Region}
      /\ \A r \in Region : regions[<<"capability", "region", r>>] = RegionStatus(h, r)
  OBVIOUS
<1>4. \A t \in OfClass("infra") :
        <<"infra", t.at>> \in DOMAIN infra /\ infra[<<"infra", t.at>>] = Verdict(h[t])
  <2> SUFFICES ASSUME NEW t \in OfClass("infra")
               PROVE  <<"infra", t.at>> \in DOMAIN infra /\ infra[<<"infra", t.at>>] = Verdict(h[t])
    OBVIOUS
  <2> DEFINE found == CHOOSE u \in OfClass("infra") : u.at = t.at
  <2>1. found \in OfClass("infra") /\ found.at = t.at
    OBVIOUS
  <2>2. found = t
    BY <2>1, TargetAssumption DEF OfClass
  <2>3. <<"infra", t.at>> \in DOMAIN infra /\ infra[<<"infra", t.at>>] = Verdict(h[found])
    BY DEF Infra
  <2> QED
    BY <2>2, <2>3
<1>5. DOMAIN infra = {<<"infra", t.at>> : t \in OfClass("infra")}
  BY DEF Infra
<1> HIDE DEF infra
<1>6. DOMAIN hosts = {<<"capability", "infra", t.at>> : t \in OfClass("infra")}
  <2>1. DOMAIN hosts = {<<"capability", "infra", d[2]>> : d \in DOMAIN infra}
    OBVIOUS
  <2>2. ASSUME NEW d \in DOMAIN infra
        PROVE  \E t \in OfClass("infra") : <<"capability", "infra", d[2]>> = <<"capability", "infra", t.at>>
    <3>1. PICK t \in OfClass("infra") : d = <<"infra", t.at>>
      BY <1>5
    <3>2. d[2] = t.at
      BY <3>1
    <3> QED
      BY <3>2
  <2>3. ASSUME NEW t \in OfClass("infra")
        PROVE  \E d \in DOMAIN infra : <<"capability", "infra", t.at>> = <<"capability", "infra", d[2]>>
    <3> DEFINE d == <<"infra", t.at>>
    <3>1. d \in DOMAIN infra /\ d[2] = t.at
      BY <1>5
    <3> QED
      BY <3>1
  <2> HIDE DEF hosts
  <2> QED
    BY <2>1, <2>2, <2>3
<1>7. \A t \in OfClass("infra") : hosts[<<"capability", "infra", t.at>>] = Verdict(h[t])
  BY <1>4, <1>6
<1> HIDE DEF pool, regions, hosts
<1>8. \A c \in DOMAIN regions : c # <<"capability", "pool">>
  <2> SUFFICES ASSUME NEW r \in Region PROVE <<"capability", "region", r>> # <<"capability", "pool">>
    BY <1>3
  <2>1. Len(<<"capability", "region", r>>) = 3 /\ Len(<<"capability", "pool">>) = 2
    OBVIOUS
  <2> QED
    BY <2>1
<1>9. \A c \in DOMAIN hosts : c # <<"capability", "pool">> /\ c \notin DOMAIN regions
  <2> SUFFICES ASSUME NEW t \in OfClass("infra")
               PROVE  /\ <<"capability", "infra", t.at>> # <<"capability", "pool">>
                      /\ <<"capability", "infra", t.at>> \notin DOMAIN regions
    BY <1>6
  <2>1. Len(<<"capability", "infra", t.at>>) = 3 /\ Len(<<"capability", "pool">>) = 2
    OBVIOUS
  <2>2. <<"capability", "infra", t.at>> # <<"capability", "pool">>
    BY <2>1
  <2>3. <<"capability", "infra", t.at>> \notin DOMAIN regions
    BY <1>3
  <2> QED
    BY <2>2, <2>3
<1>10. DOMAIN Counted(h) = DOMAIN pool \union DOMAIN regions \union DOMAIN hosts
  BY <1>1 DEF \oplus
<1>11. \A c \in DOMAIN pool : Counted(h)[c] = pool[c]
  BY <1>1, KeepLeft
<1>12. \A c \in DOMAIN regions : Counted(h)[c] = regions[c]
  BY <1>1, <1>2, <1>8, KeepLeft, TakeRight
<1>13. \A c \in DOMAIN hosts : Counted(h)[c] = hosts[c]
  BY <1>1, <1>2, <1>9, NotInEither, TakeRight
<1> QED
  BY <1>2, <1>3, <1>6, <1>7, <1>10, <1>11, <1>12, <1>13

(* A capability that counts, in the snapshot.                              *)
LEMMA PoolShown == ASSUME NEW h PROVE Flatten(h)[<<"capability", "pool">>] = RollUp(h)
<1> DEFINE c == <<"capability", "pool">>
           lower == Entry(<<"overall">>, Overall(h)) \oplus Entry(<<"monitor.network">>, Network(h))
                      \oplus Services(h) \oplus Infra(h)
<1>1. c[1] = "capability"
  OBVIOUS
<1>2. c \in DOMAIN Counted(h) /\ Counted(h)[c] = RollUp(h)
  BY CountedIs
<1> HIDE DEF c
<1>3. /\ c \notin DOMAIN Entry(<<"overall">>, Overall(h))
      /\ c \notin DOMAIN Entry(<<"monitor.network">>, Network(h))
      /\ c \notin DOMAIN Services(h)
      /\ c \notin DOMAIN Infra(h)
  BY <1>1 DEF Entry, Services, Infra
<1>4. c \notin DOMAIN lower
  BY <1>3, NotInEither
<1>5. Roll(h) = lower \oplus Counted(h) \oplus Shown(h) \oplus PrimaryEntry(h)
  BY DEF Roll
<1> HIDE DEF lower
<1>6. c \in DOMAIN Roll(h) /\ Roll(h)[c] = Counted(h)[c]
  BY <1>2, <1>4, <1>5, TakeRight, KeepLeft
<1>7. Flatten(h)[c] = Roll(h)[c]
  BY <1>6, KeepLeft, FlattenIs
<1> QED
  BY <1>2, <1>6, <1>7 DEF c

LEMMA OverallShown == ASSUME NEW h PROVE Flatten(h)[<<"overall">>] = Overall(h)
<1>1. /\ <<"overall">> \in DOMAIN Entry(<<"overall">>, Overall(h))
      /\ Entry(<<"overall">>, Overall(h))[<<"overall">>] = Overall(h)
  BY DEF Entry
<1>2. <<"overall">> \in DOMAIN Roll(h) /\ Roll(h)[<<"overall">>] = Overall(h)
  BY <1>1, KeepLeft DEF Roll
<1> QED
  BY <1>2, KeepLeft, FlattenIs

(* The pool is called out exactly when every member is faulted, whatever   *)
(* words the services use, and up only when enough members have no         *)
(* complaint against them (capability::roll_up).                           *)
THEOREM ThePoolIsHonest == Spec => []PoolIsHonest
<1>1. Typed /\ LapInv => PoolIsHonest
  <2> SUFFICES ASSUME Typed, LapInv, Sighted PROVE PoolIsHonest
    BY DEF PoolIsHonest
  <2> DEFINE h == heard.server
             unblemished(p) ==
               /\ \E t \in OfClass("proxy") : h[t].says[p] = "operational"
               /\ \A t \in OfClass("proxy") : Severity(h[t].says[p]) = 0
             Good == {p \in Member : unblemished(p)}
  <2>1. h \in [Target -> Answer] /\ snapshot[<<"capability", "pool">>] = RollUp(h)
    BY PoolShown DEF Typed, LapInv, Served, Sighted
  <2>2. Serving(h) \subseteq Good
    BY <2>1, ObservedIs DEF Serving
  <2>3. IsFiniteSet(Good) /\ IsFiniteSet(Serving(h))
    BY TargetAssumption, FS_Subset DEF Serving
  <2>4. /\ Cardinality(Serving(h)) <= Cardinality(Good)
        /\ Cardinality(Serving(h)) \in Nat /\ Cardinality(Good) \in Nat
    BY <2>2, <2>3, FS_Subset, FS_CardinalityType
  <2>5. RollUp(h) = "operational" => Cardinality(Good) >= MinAvailable
    BY <2>1, <2>4, RollUpIs, BoundAssumption
  <2>6. RollUp(h) = "major_outage" <=> PoolDown(h)
    BY <2>1, RollUpIs
  <2> QED
    BY <2>1, <2>5, <2>6 DEF PoolIsHonest
<1> QED
  BY <1>1, SweepInvariant, PTL

-----------------------------------------------------------------------------
(* The headline.                                                           *)

LEMMA RelationIs ==
  ASSUME NEW p PROVE Relation(p) = "indispensable" <=> ~Routable(p)
  BY DEF Relation, Routable

(* A service is as bad as its transport or the worst of what only it can   *)
(* provide.                                                                *)
LEMMA ServiceVerdictIs ==
  ASSUME NEW h, NEW t, NEW n \in 1 .. 2
  PROVE  Severity(ServiceVerdict(h[t])) >= n <=> ServiceAtLeast(h, t, n)
<1> DEFINE a == h[t]
           own == Verdict(a)
           deps == {a.says[p] : p \in {q \in Id : a.says[q] # Absent /\ Relation(q) = "indispensable"}}
           worse == {s \in deps : Severity(s) > Severity(own)}
           worst == CHOOSE s \in worse : \A u \in worse : Severity(u) <= Severity(s)
<1>1. Severity(own) \in 0 .. 2
  BY SeverityIs
<1>2. ServiceVerdict(a) = IF worse = {} THEN own ELSE Leak(worst)
  BY DEF ServiceVerdict
<1>3. ASSUME NEW p \in Id, ~Routable(p), Severity(a.says[p]) >= n PROVE a.says[p] \in deps
  <2>1. a.says[p] # Absent
    BY <1>3, Ranks DEF Absent
  <2> QED
    BY <1>3, <2>1, RelationIs
<1>4. ASSUME NEW s \in deps PROVE \E p \in Id : ~Routable(p) /\ a.says[p] = s
  BY RelationIs
<1>5. ServiceAtLeast(h, t, n) <=> \/ Severity(own) >= n
                                  \/ \E p \in Id : ~Routable(p) /\ Severity(a.says[p]) >= n
  BY DEF ServiceAtLeast
<1> HIDE DEF deps, own, a
<1>6. (\E p \in Id : ~Routable(p) /\ Severity(a.says[p]) >= n) <=> \E s \in deps : Severity(s) >= n
  BY <1>3, <1>4
<1>7. CASE worse = {}
  <2>1. ServiceVerdict(a) = own
    BY <1>2, <1>7
  <2>2. \A s \in deps : Severity(s) \in 0 .. 2 /\ Severity(s) <= Severity(own)
    BY <1>1, <1>7, SeverityIs
  <2> QED
    BY <1>1, <1>5, <1>6, <2>1, <2>2 DEF a
<1>8. CASE worse # {}
  <2>1. worst \in worse /\ \A u \in worse : Severity(u) <= Severity(worst)
    BY <1>8, WorstExists
  <2> HIDE DEF worst
  <2>2. worst \in deps /\ Severity(worst) > Severity(own) /\ Severity(worst) \in 0 .. 2
    BY <2>1, SeverityIs
  <2>3. \A s \in deps : Severity(s) \in 0 .. 2 /\ Severity(s) <= Severity(worst)
    BY <1>1, <2>1, <2>2, SeverityIs
  <2>4. Severity(ServiceVerdict(a)) = Severity(worst)
    BY <1>2, <1>8, LeakKeepsSeverity
  <2> QED
    BY <1>1, <1>5, <1>6, <2>2, <2>3, <2>4 DEF a
<1> QED
  BY <1>7, <1>8

LEMMA WorstIs ==
  ASSUME NEW S, NEW n \in 1 .. 2
  PROVE  Severity(Worst(S)) >= n <=> \E s \in S : Severity(s) >= n
<1> DEFINE ranks == {Severity(s) : s \in S}
<1>1. CASE S = {}
  BY <1>1, Ranks DEF Worst
<1>2. CASE S # {}
  <2>1. PICK s \in S : \A u \in S : Severity(u) <= Severity(s)
    BY <1>2, WorstExists
  <2>2. MaxOf(ranks) \in ranks /\ \A m \in ranks : m <= MaxOf(ranks)
    BY <2>1 DEF MaxOf
  <2>3. PICK u \in S : MaxOf(ranks) = Severity(u)
    BY <2>2
  <2>4. \A v \in S : Severity(v) \in 0 .. 2 /\ Severity(v) <= Severity(u)
    BY <2>2, <2>3, SeverityIs
  <2>5. Worst(S) = LeakRow(u)
    BY <1>2, <2>3 DEF Worst, LeakRow
  <2>6. Severity(Worst(S)) = Severity(u)
    BY <2>5, LeakKeepsSeverity
  <2> QED
    BY <2>4, <2>6
<1> QED
  BY <1>1, <1>2

(* A region is as bad as the worst of its services.                        *)
LEMMA RegionIs ==
  ASSUME NEW h, NEW r \in Region, NEW n \in 1 .. 2
  PROVE  Severity(RegionStatus(h, r)) >= n <=> \E t \in Service : t.at = r /\ ServiceAtLeast(h, t, n)
<1> DEFINE services == Services(h)
           S == {services[c] : c \in {d \in DOMAIN services : d[2] = r}}
<1>1. Severity(RegionStatus(h, r)) >= n <=> \E s \in S : Severity(s) >= n
  BY WorstIs DEF RegionStatus
<1>2. \A t \in Service : /\ <<"service", t.at, t.class>> \in DOMAIN services
                         /\ services[<<"service", t.at, t.class>>] = ServiceVerdict(h[t])
  <2> SUFFICES ASSUME NEW t \in Service
               PROVE  /\ <<"service", t.at, t.class>> \in DOMAIN services
                      /\ services[<<"service", t.at, t.class>>] = ServiceVerdict(h[t])
    OBVIOUS
  <2> DEFINE found == CHOOSE u \in Target : u.class = t.class /\ u.at = t.at
  <2>1. t \in Target
    BY DEF Service, OfClass
  <2>2. found \in Target /\ found.class = t.class /\ found.at = t.at
    BY <2>1
  <2>3. found \in Service
    BY <2>2 DEF Service, OfClass
  <2>4. found = t
    BY <2>2, <2>3, OneOfAClass
  <2>5. /\ <<"service", t.at, t.class>> \in DOMAIN services
        /\ services[<<"service", t.at, t.class>>] = ServiceVerdict(h[found])
    BY DEF Services, Service
  <2> QED
    BY <2>4, <2>5
<1>3. \A c \in DOMAIN services : \E t \in Service : c = <<"service", t.at, t.class>>
  BY DEF Services, Service
<1> HIDE DEF services
<1>4. ASSUME NEW s \in S, Severity(s) >= n
      PROVE  \E t \in Service : t.at = r /\ ServiceAtLeast(h, t, n)
  <2>1. PICK c \in DOMAIN services : c[2] = r /\ s = services[c]
    OBVIOUS
  <2>2. PICK t \in Service : c = <<"service", t.at, t.class>>
    BY <1>3
  <2>3. t.at = r
    BY <2>1, <2>2
  <2>4. s = ServiceVerdict(h[t])
    BY <1>2, <2>1, <2>2
  <2> QED
    BY <1>4, <2>3, <2>4, ServiceVerdictIs
<1>5. ASSUME NEW t \in Service, t.at = r, ServiceAtLeast(h, t, n)
      PROVE  \E s \in S : Severity(s) >= n
  <2> DEFINE c == <<"service", t.at, t.class>>
  <2>1. c \in DOMAIN services /\ c[2] = r /\ services[c] = ServiceVerdict(h[t])
    BY <1>2, <1>5
  <2> HIDE DEF c
  <2>2. ServiceVerdict(h[t]) \in S
    BY <2>1
  <2> QED
    BY <1>5, <2>2, ServiceVerdictIs
<1> HIDE DEF S
<1> QED
  BY <1>1, <1>4, <1>5

(* Something that counts is out, or at least degraded.                     *)
LEMMA SomethingCounts ==
  ASSUME NEW h \in [Target -> Answer], NEW n \in 1 .. 2
  PROVE  (\E c \in DOMAIN Counted(h) : Severity(Counted(h)[c]) >= n)
           <=> SomethingAtLeast(h, n) \/ Severity(RollUp(h)) >= n
<1> DEFINE counted == Counted(h)
<1>1. /\ DOMAIN counted = {<<"capability", "pool">>}
                            \union {<<"capability", "region", r>> : r \in Region}
                            \union {<<"capability", "infra", t.at>> : t \in OfClass("infra")}
      /\ counted[<<"capability", "pool">>] = RollUp(h)
      /\ \A r \in Region : counted[<<"capability", "region", r>>] = RegionStatus(h, r)
      /\ \A t \in OfClass("infra") : counted[<<"capability", "infra", t.at>>] = Verdict(h[t])
  BY CountedIs
<1>2. SomethingAtLeast(h, n) <=> \/ \E t \in Service : ServiceAtLeast(h, t, n)
                                 \/ \E t \in OfClass("infra") : Severity(Verdict(h[t])) >= n
  BY DEF SomethingAtLeast, Service
<1>3. \A t \in Service : t.at \in Region
  BY TargetAssumption DEF Service, OfClass
<1> HIDE DEF counted
<1>4. ASSUME NEW c \in DOMAIN counted, Severity(counted[c]) >= n
      PROVE  SomethingAtLeast(h, n) \/ Severity(RollUp(h)) >= n
  <2>1. CASE c = <<"capability", "pool">>
    BY <1>1, <1>4, <2>1
  <2>2. CASE \E r \in Region : c = <<"capability", "region", r>>
    BY <1>1, <1>2, <1>4, <2>2, RegionIs
  <2>3. CASE \E t \in OfClass("infra") : c = <<"capability", "infra", t.at>>
    BY <1>1, <1>2, <1>4, <2>3
  <2> QED
    BY <1>1, <2>1, <2>2, <2>3
<1>5. ASSUME SomethingAtLeast(h, n) \/ Severity(RollUp(h)) >= n
      PROVE  \E c \in DOMAIN counted : Severity(counted[c]) >= n
  <2>1. CASE Severity(RollUp(h)) >= n
    BY <1>1, <2>1
  <2>2. CASE \E t \in Service : ServiceAtLeast(h, t, n)
    <3>1. PICK r \in Region : Severity(RegionStatus(h, r)) >= n
      BY <1>3, <2>2, RegionIs
    <3> QED
      BY <1>1, <3>1
  <2>3. CASE \E t \in OfClass("infra") : Severity(Verdict(h[t])) >= n
    BY <1>1, <2>3
  <2> QED
    BY <1>2, <1>5, <2>1, <2>2, <2>3
<1> QED
  BY <1>4, <1>5 DEF counted

LEMMA ImageIsFinite ==
  ASSUME NEW S, IsFiniteSet(S), NEW T, NEW f \in [S -> T], \A x \in T : \E s \in S : f[s] = x
  PROVE  IsFiniteSet(T)
  BY FS_Surjection DEF Surjection

LEMMA CountedIsFinite == ASSUME NEW h PROVE IsFiniteSet(DOMAIN Counted(h))
<1> DEFINE P == {<<"capability", "pool">>}
           R == {<<"capability", "region", r>> : r \in Region}
           I == {<<"capability", "infra", t.at>> : t \in OfClass("infra")}
<1>1. IsFiniteSet(Target)
  <2>1. Jobs \in [1 .. Len(Jobs) -> Target] /\ Len(Jobs) \in Nat
    BY TargetAssumption, LenProperties
  <2>2. IsFiniteSet(1 .. Len(Jobs))
    BY <2>1, FS_Interval
  <2>3. \A t \in Target : \E i \in 1 .. Len(Jobs) : Jobs[i] = t
    BY <2>1 DEF Target
  <2> QED
    BY <2>1, <2>2, <2>3, ImageIsFinite
<1>2. IsFiniteSet(R)
  <2> DEFINE f == [r \in Region |-> <<"capability", "region", r>>]
  <2>1. f \in [Region -> R] /\ \A x \in R : \E r \in Region : f[r] = x
    OBVIOUS
  <2> HIDE DEF f, R
  <2> QED
    BY <2>1, TargetAssumption, ImageIsFinite
<1>3. IsFiniteSet(I)
  <2> DEFINE f == [t \in OfClass("infra") |-> <<"capability", "infra", t.at>>]
  <2>1. f \in [OfClass("infra") -> I] /\ \A x \in I : \E t \in OfClass("infra") : f[t] = x
    OBVIOUS
  <2>2. IsFiniteSet(OfClass("infra"))
    BY <1>1, FS_Subset DEF OfClass
  <2> HIDE DEF f, I
  <2> QED
    BY <2>1, <2>2, ImageIsFinite
<1>4. IsFiniteSet(P)
  BY FS_Singleton
<1>5. DOMAIN Counted(h) = P \union R \union I
  BY CountedIs
<1> HIDE DEF P, R, I
<1>6. IsFiniteSet(P \union R)
  BY <1>2, <1>4, FS_Union
<1> QED
  BY <1>3, <1>5, <1>6, FS_Union

(* The headline, of what counts.                                           *)
LEMMA OverallIs ==
  ASSUME NEW h, ~Blind(h)
  PROVE  /\ Overall(h) \in {"partial_outage", "major_outage"}
              <=> \E c \in DOMAIN Counted(h) : Severity(Counted(h)[c]) >= 2
         /\ Overall(h) = "operational" => \A c \in DOMAIN Counted(h) : Counted(h)[c] # "degraded"
<1> DEFINE counted == Counted(h)
           down == {c \in DOMAIN counted : Severity(counted[c]) = 2}
<1>1. IsFiniteSet(down)
  BY CountedIsFinite, FS_Subset
<1>2. Cardinality(down) \in Nat /\ (Cardinality(down) = 0 <=> down = {})
  BY <1>1, FS_CardinalityType, FS_EmptySet
<1>3. down # {} <=> \E c \in DOMAIN counted : Severity(counted[c]) >= 2
  BY SeverityIs
<1>4. Overall(h) =
        CASE Blind(h) -> "unknown"
          [] ~Blind(h) /\ Cardinality(down) >= 3 -> "major_outage"
          [] ~Blind(h) /\ Cardinality(down) \in 1 .. 2 -> "partial_outage"
          [] ~Blind(h) /\ down = {} /\ \E c \in DOMAIN counted : counted[c] = "degraded" -> "degraded"
          [] OTHER -> "operational"
  BY DEF Overall
<1> HIDE DEF down, counted
<1>5. CASE down = {}
  <2>1. Cardinality(down) = 0
    BY <1>2, <1>5
  <2>2. Overall(h) = IF \E c \in DOMAIN counted : counted[c] = "degraded" THEN "degraded"
                     ELSE "operational"
    BY <1>4, <1>5, <2>1
  <2> QED
    BY <1>3, <1>5, <2>2 DEF counted
<1>6. CASE down # {}
  <2>1. Cardinality(down) >= 3 \/ Cardinality(down) \in 1 .. 2
    BY <1>2, <1>6
  <2>2. Overall(h) \in {"partial_outage", "major_outage"}
    BY <1>2, <1>4, <1>6, <2>1
  <2> QED
    BY <1>3, <1>6, <2>2 DEF counted
<1> QED
  BY <1>5, <1>6

(* What counts speaks in ranks.                                            *)
LEMMA CountedSpeaks ==
  ASSUME NEW h \in [Target -> Answer], NEW c \in DOMAIN Counted(h)
  PROVE  Severity(Counted(h)[c]) = 1 => Counted(h)[c] = "degraded"
<1>1. \A s \in Status \union {"major_outage"} : Severity(s) = 1 => s = "degraded"
  BY Ranks DEF Status
<1>2. Counted(h)[c] \in Status \union {"major_outage"}
  <2>1. CASE c = <<"capability", "pool">>
    BY <2>1, CountedIs, RollUpIs DEF Status
  <2>2. CASE \E r \in Region : c = <<"capability", "region", r>>
    <3>1. PICK r \in Region : c = <<"capability", "region", r>>
      BY <2>2
    <3>2. Counted(h)[c] = RegionStatus(h, r)
      BY <3>1, CountedIs
    <3> QED
      BY <3>2, WorstIsStatus DEF RegionStatus
  <2>3. CASE \E t \in OfClass("infra") : c = <<"capability", "infra", t.at>>
    <3>1. PICK t \in OfClass("infra") : c = <<"capability", "infra", t.at>>
      BY <2>3
    <3>2. Counted(h)[c] = Verdict(h[t])
      BY <3>1, CountedIs
    <3> QED
      BY <3>2, VerdictIsStatus
  <2>4. c \in {<<"capability", "pool">>}
             \union {<<"capability", "region", r>> : r \in Region}
             \union {<<"capability", "infra", t.at>> : t \in OfClass("infra")}
    BY CountedIs
  <2> QED
    BY <2>1, <2>2, <2>3, <2>4
<1> QED
  BY <1>1, <1>2

(* The headline tells of an outage exactly when a service, something only  *)
(* it can provide, or a host is out, or every member of the pool is        *)
(* faulted, and no impairment of what nothing else serves leaves it green, *)
(* whatever words the services use (overall in capability.rs).             *)
THEOREM TheHeadlineIsEarned == Spec => []HeadlineIsEarned
<1>1. Typed /\ LapInv => HeadlineIsEarned
  <2> SUFFICES ASSUME Typed, LapInv, Sighted PROVE HeadlineIsEarned
    BY DEF HeadlineIsEarned
  <2> DEFINE h == heard.server
             overall == snapshot[<<"overall">>]
  <2>1. h \in [Target -> Answer] /\ overall = Overall(h) /\ ~Blind(h)
    BY OverallShown DEF Typed, LapInv, Served, Sighted
  <2> HIDE DEF overall, h
  <2>2. Severity(RollUp(h)) >= 2 <=> PoolDown(h)
    BY <2>1, RollUpIs, Ranks
  <2>3. overall \in {"partial_outage", "major_outage"} <=> SomethingAtLeast(h, 2) \/ PoolDown(h)
    BY <2>1, <2>2, OverallIs, SomethingCounts
  <2>4. ASSUME overall = "operational", SomethingAtLeast(h, 1) PROVE FALSE
    <3>1. PICK c \in DOMAIN Counted(h) : Severity(Counted(h)[c]) >= 1
      BY <2>1, <2>4, SomethingCounts
    <3>2. Severity(Counted(h)[c]) \in 0 .. 2
      BY SeverityIs
    <3>3. ~(Severity(Counted(h)[c]) >= 2)
      BY <2>1, <2>4, OverallIs
    <3>4. Counted(h)[c] = "degraded"
      BY <2>1, <3>1, <3>2, <3>3, CountedSpeaks
    <3> QED
      BY <2>1, <2>4, <3>4, OverallIs
  <2> QED
    BY <2>3, <2>4 DEF HeadlineIsEarned, overall, h
<1> QED
  BY <1>1, SweepInvariant, PTL

-----------------------------------------------------------------------------
(* What is reported shows.                                                 *)

\* A region's billing and its proxy report about different things: what billing
\* "grows later" is filed where the proxy's own dependencies are (fold_billing).
ReportsApart ==
  \A t \in OfClass("billing"), u \in OfClass("proxy") :
    t.at = u.at =>
      \A p \in Reports[t.key] \intersect Reports[u.key] :
        p \in Identity \union {"postgresql"} \/ Bucket(p) # "internal"

\* A service reports about what it is known to report about.
InReports(a, k) == \A p \in Id : a.says[p] # Absent => p \in Reports[k]
Spoken ==
  /\ \A k \in Key : InReports(world[k], k) /\ InReports(memo[k], k)
  /\ \A t \in Target : InReports(heard.server[t], t.key)

LEMMA AnswersAreInReports ==
  ASSUME NEW k \in Key
  PROVE  /\ InReports(Well(k), k) /\ InReports(Gone, k) /\ InReports(NoAnswer, k)
         /\ \A a \in Answers(k) : InReports(a, k)
<1>1. InReports(Well(k), k) /\ InReports(Gone, k) /\ InReports(NoAnswer, k)
  BY DEF InReports, Well, Gone, NoAnswer, Mute
<1>2. ASSUME NEW a \in Answers(k) PROVE InReports(a, k)
  <2>1. CASE a \in [net : {"silent", "error"}, says : {Mute}]
    BY <2>1 DEF InReports, Mute
  <2>2. CASE a \in [net : {"slow", "fast"}, says : Sayings(k)]
    <3>1. PICK s \in [Reports[k] -> Vocabulary[k]] : a.says = [p \in Id |-> IF p \in Reports[k] THEN s[p] ELSE Absent]
      BY <2>2 DEF Sayings
    <3> QED
      BY <3>1 DEF InReports
  <2> QED
    BY <2>1, <2>2 DEF Answers
<1> QED
  BY <1>1, <1>2

LEMMA SpokenInit == Init => Spoken
  BY AnswersAreInReports, TargetsHaveKeys DEF Init, Spoken, Unasked, Unheard

LEMMA SpokenStep == Typed /\ Spoken /\ [Next]_vars => Spoken'
<1> SUFFICES ASSUME Typed, Spoken, [Next]_vars PROVE Spoken'
  OBVIOUS
<1>1. \A k \in Key : InReports(Ask(k), k)
  BY DEF Spoken, Ask
<1>2. \A k \in Key : InReports(world'[k], k)
  <2>1. CASE WorldChanges
    <3>1. CASE \E k \in Key : \E a \in Answers(k) \ {world[k]} : world' = [world EXCEPT ![k] = a]
      BY <3>1, AnswersAreInReports DEF Spoken, Typed
    <3>2. CASE world' = [k \in Key |-> Gone] \/ world' = [k \in Key |-> Well(k)]
      BY <3>2, AnswersAreInReports
    <3> QED
      BY <2>1, <3>1, <3>2 DEF WorldChanges
  <2>2. world' = world \/ WorldChanges
    BY DEF Next, BeginLap, Prefetch, StartProbe, FinishProbe, PrefetchDone, Record, SkipRecord,
           Serve, vars
  <2> QED
    BY <2>1, <2>2 DEF Spoken
<1>3. \A k \in Key : InReports(memo'[k], k)
  <2>1. CASE BeginLap
    BY <2>1, AnswersAreInReports DEF BeginLap, Unasked
  <2>2. CASE FinishProbe
    BY <2>2 DEF FinishProbe, Spoken, Typed
  <2>3. CASE Record
    BY <2>3, <1>1, Remembered, RecordedAreTargets DEF Record, Spoken
  <2>4. CASE Serve
    BY <2>4, <1>1, Remembered DEF Serve, Spoken
  <2>5. memo' = memo \/ BeginLap \/ FinishProbe \/ Record \/ Serve
    BY DEF Next, Prefetch, StartProbe, PrefetchDone, SkipRecord, WorldChanges, vars
  <2> QED
    BY <2>1, <2>2, <2>3, <2>4, <2>5 DEF Spoken
<1>4. \A t \in Target : InReports(heard'.server[t], t.key)
  <2>1. CASE BeginLap
    BY <2>1, AnswersAreInReports, TargetsHaveKeys DEF BeginLap, Unheard
  <2>2. CASE Serve
    <3>1. heard'.server = [t \in Target |-> Ask(t.key)]
      BY <2>2 DEF Serve, Typed
    <3> QED
      BY <3>1, <1>1, TargetsHaveKeys
  <2>3. heard'.server = heard.server \/ BeginLap \/ Serve
    BY DEF Typed, Next, Prefetch, StartProbe, FinishProbe, PrefetchDone, Record, SkipRecord,
           WorldChanges, vars
  <2> QED
    BY <2>1, <2>2, <2>3 DEF Spoken
<1> QED
  BY <1>2, <1>3, <1>4 DEF Spoken

(* What the sections of the snapshot hold is what flatten gives under      *)
(* their names (aggregate::flatten).                                       *)
LEMMA SectionShown ==
  ASSUME NEW h, NEW c
  PROVE  /\ (c[1] = "auth" /\ c \in DOMAIN Auth(h)) => Flatten(h)[c] = Auth(h)[c]
         /\ (c[1] = "db" /\ c \in DOMAIN Database(h)) => Flatten(h)[c] = Database(h)[c]
         /\ (c[1] = "internal" /\ c \in DOMAIN Internal(h)) => Flatten(h)[c] = Internal(h)[c]
<1>1. c \in DOMAIN Llm(h) => c[1] = "llm"
  BY DEF Llm
<1>2. c \in DOMAIN Auth(h) => c[1] = "auth"
  BY DEF Auth, \oplus
<1>3. c \in DOMAIN Database(h) => c[1] = "db"
  BY DEF Database, \oplus
<1>4. c \in DOMAIN Roll(h) => c[1] \notin {"llm", "auth", "db", "internal"}
  BY RollHeads
<1> DEFINE llm == Roll(h) \oplus Llm(h)
           auth == llm \oplus Auth(h)
           db == auth \oplus Database(h)
<1>5. Flatten(h) = db \oplus Internal(h)
  BY FlattenIs
<1>6. c \in DOMAIN llm => c[1] \notin {"auth", "db", "internal"}
  BY <1>1, <1>4, NotInEither
<1> HIDE DEF llm
<1>7. c \in DOMAIN auth => c[1] \notin {"db", "internal"}
  BY <1>2, <1>6, NotInEither
<1>8. (c[1] = "auth" /\ c \in DOMAIN Auth(h)) => c \in DOMAIN auth /\ auth[c] = Auth(h)[c]
  BY <1>6, TakeRight
<1> HIDE DEF auth
<1>9. c \in DOMAIN db => c[1] # "internal"
  BY <1>3, <1>7, NotInEither
<1>10. (c[1] = "db" /\ c \in DOMAIN Database(h)) => c \in DOMAIN db /\ db[c] = Database(h)[c]
  BY <1>7, TakeRight
<1>11. c \in DOMAIN auth => c \in DOMAIN db /\ db[c] = auth[c]
  BY KeepLeft
<1> HIDE DEF db
<1>12. c \in DOMAIN db => Flatten(h)[c] = db[c]
  BY <1>5, KeepLeft
<1>13. (c[1] = "internal" /\ c \in DOMAIN Internal(h)) => Flatten(h)[c] = Internal(h)[c]
  BY <1>5, <1>9, TakeRight
<1> QED
  BY <1>8, <1>10, <1>11, <1>12, <1>13

(* What billing says of an identity provider we do not ask (billing_auth_reports). *)
LEMMA ToldAuthShown ==
  ASSUME NEW h, NEW p \in Identity \ DirectAuth, Tellers(h, "billing", p) # {}
  PROVE  Flatten(h)[<<"auth", p>>] = MergeWorst(h, "billing", p)
<1> DEFINE c == <<"auth", p>>
           direct == [d \in {<<"auth", u.at>> : u \in OfClass("auth")} |->
                        Verdict(h[CHOOSE u \in OfClass("auth") : u.at = d[2]])]
           told == [d \in {<<"auth", q>> : q \in {r \in Identity \ DirectAuth : Tellers(h, "billing", r) # {}}} |->
                      MergeWorst(h, "billing", d[2])]
<1>1. c[1] = "auth" /\ c[2] = p
  OBVIOUS
<1>2. c \in DOMAIN told /\ told[c] = MergeWorst(h, "billing", p)
  OBVIOUS
<1>3. c \notin DOMAIN direct
  BY DEF DirectAuth
<1>4. Auth(h) = direct \oplus told
  BY DEF Auth
<1> HIDE DEF c, direct, told
<1>5. c \in DOMAIN Auth(h) /\ Auth(h)[c] = told[c]
  BY <1>2, <1>3, <1>4, TakeRight
<1>6. Flatten(h)[c] = Auth(h)[c]
  BY <1>1, <1>5, SectionShown
<1> QED
  BY <1>2, <1>5, <1>6 DEF c

(* What billing says of its database (fold_billing).                       *)
LEMMA DatabaseShown ==
  ASSUME NEW h, NEW t \in OfClass("billing"), Answered(h, t, "postgresql")
  PROVE  Flatten(h)[<<"db", t.at>>] = h[t].says["postgresql"]
<1> DEFINE c == <<"db", t.at>>
           own == {u \in OfClass("local") : u.at = "postgresql"}
           told == {u \in OfClass("billing") : Answered(h, u, "postgresql")}
           lens == [d \in {<<"db", "lens">> : u \in own} |-> Verdict(h[CHOOSE u \in own : TRUE])]
           theirs == [d \in {<<"db", u.at>> : u \in told} |->
                        h[CHOOSE u \in told : u.at = d[2]].says["postgresql"]]
           found == CHOOSE u \in told : u.at = t.at
<1>1. c[1] = "db" /\ c[2] = t.at
  OBVIOUS
<1>2. t \in told
  OBVIOUS
<1>3. c \in DOMAIN theirs /\ theirs[c] = h[found].says["postgresql"]
  BY <1>2
<1>4. found \in told /\ found.at = t.at
  BY <1>2
<1>5. found = t
  BY <1>4, OneOfAClass DEF Service, OfClass
<1>6. t.at # "lens"
  BY TargetAssumption DEF OfClass
<1>7. c \notin DOMAIN lens
  BY <1>6
<1>8. Database(h) = lens \oplus theirs
  BY DEF Database
<1> HIDE DEF c, lens, theirs, found
<1>9. c \in DOMAIN Database(h) /\ Database(h)[c] = theirs[c]
  BY <1>3, <1>7, <1>8, TakeRight
<1>10. Flatten(h)[c] = Database(h)[c]
  BY <1>1, <1>9, SectionShown
<1> QED
  BY <1>3, <1>5, <1>9, <1>10 DEF c

\* What the services say of what only their region uses, by region and name.
Dependency(h, S) ==
  [c \in {<<"internal", x[1].at, x[2]>> : x \in S} |->
     LET x == CHOOSE y \in S : y[1].at = c[2] /\ y[2] = c[3] IN h[x[1]].says[x[2]]]
OfProxy(h) ==
  {x \in OfClass("proxy") \X Id : Answered(h, x[1], x[2]) /\ Bucket(x[2]) = "internal"}
OfBilling(h) ==
  {x \in OfClass("billing") \X Id :
     Answered(h, x[1], x[2]) /\ x[2] \notin Identity \union {"postgresql"}}
Search(h) == [c \in {<<"internal", p>> : p \in Told(h, {"search"})} |-> MergeWorst(h, "proxy", c[2])]
OwnProbes(h) ==
  [c \in {<<"internal", t.at>> : t \in Probed} |-> Verdict(h[CHOOSE t \in Probed : t.at = c[2]])]

LEMMA InternalIs ==
  ASSUME NEW h
  PROVE  Internal(h) = OwnProbes(h) \oplus Dependency(h, OfProxy(h)) \oplus Dependency(h, OfBilling(h))
                         \oplus Search(h)
  BY DEF Internal, OwnProbes, Dependency, OfProxy, OfBilling, Search

(* A key with a region is not one without.                                 *)
LEMMA RegionalKeys ==
  ASSUME NEW h, NEW a, NEW p
  PROVE  /\ <<"internal", a, p>> \notin DOMAIN OwnProbes(h)
         /\ \A S : <<"internal", p>> \notin DOMAIN Dependency(h, S)
  BY DEF OwnProbes, Dependency

(* One service of a class in a region, so one word on a dependency of it.  *)
LEMMA DependencyIs ==
  ASSUME NEW h, NEW class \in {"billing", "proxy"}, NEW S \in SUBSET (OfClass(class) \X Id),
         NEW t \in OfClass(class), NEW p \in Id, <<t, p>> \in S
  PROVE  /\ <<"internal", t.at, p>> \in DOMAIN Dependency(h, S)
         /\ Dependency(h, S)[<<"internal", t.at, p>>] = h[t].says[p]
<1> DEFINE c == <<"internal", t.at, p>>
           found == CHOOSE y \in S : y[1].at = t.at /\ y[2] = p
<1>1. c[2] = t.at /\ c[3] = p /\ <<t, p>>[1] = t /\ <<t, p>>[2] = p
  OBVIOUS
<1>2. c \in {<<"internal", x[1].at, x[2]>> : x \in S}
  BY <1>1
<1>3. c \in DOMAIN Dependency(h, S) /\ Dependency(h, S)[c] = h[found[1]].says[found[2]]
  BY <1>1, <1>2 DEF Dependency
<1>4. found \in S /\ found[1].at = t.at /\ found[2] = p
  BY <1>1
<1>5. found[1] \in OfClass(class)
  BY <1>4
<1>6. found[1] = t
  BY <1>4, <1>5, OneOfAClass DEF Service, OfClass
<1> HIDE DEF c, found
<1> QED
  BY <1>3, <1>4, <1>6 DEF c

(* A dependency of a region's proxy (fold_proxy).                          *)
LEMMA ProxyDependencyShown ==
  ASSUME NEW h, NEW t \in OfClass("proxy"), NEW p \in Id, Answered(h, t, p), Bucket(p) = "internal"
  PROVE  Flatten(h)[<<"internal", t.at, p>>] = h[t].says[p]
<1> DEFINE c == <<"internal", t.at, p>>
<1>1. c[1] = "internal"
  OBVIOUS
<1>2. <<t, p>> \in OfProxy(h) /\ OfProxy(h) \in SUBSET (OfClass("proxy") \X Id)
  BY DEF OfProxy
<1> DEFINE class == "proxy"
<1>6. class \in {"billing", "proxy"} /\ t \in OfClass(class) /\ OfProxy(h) \in SUBSET (OfClass(class) \X Id)
  BY <1>2
<1> HIDE DEF class
<1>3. c \in DOMAIN Dependency(h, OfProxy(h)) /\ Dependency(h, OfProxy(h))[c] = h[t].says[p]
  BY <1>2, <1>6, DependencyIs
<1>4. c \notin DOMAIN OwnProbes(h)
  BY RegionalKeys
<1> HIDE DEF c
<1>5. c \in DOMAIN Internal(h) /\ Internal(h)[c] = h[t].says[p]
  BY <1>3, <1>4, TakeRight, KeepLeft, InternalIs
<1> QED
  BY <1>1, <1>5, SectionShown DEF c

(* A dependency of a region's billing, of which its proxy does not speak   *)
(* (fold_billing).                                                         *)
LEMMA BillingDependencyShown ==
  ASSUME ReportsApart, NEW h, \A t \in Target : InReports(h[t], t.key),
         NEW t \in OfClass("billing"), NEW p \in Id \ (Identity \union {"postgresql"}),
         Answered(h, t, p)
  PROVE  Flatten(h)[<<"internal", t.at, p>>] = h[t].says[p]
<1> DEFINE c == <<"internal", t.at, p>>
<1>1. c[1] = "internal" /\ c[2] = t.at /\ c[3] = p
  OBVIOUS
<1>2. <<t, p>> \in OfBilling(h) /\ OfBilling(h) \in SUBSET (OfClass("billing") \X Id)
  BY DEF OfBilling
<1>3. c \in DOMAIN Dependency(h, OfBilling(h)) /\ Dependency(h, OfBilling(h))[c] = h[t].says[p]
  BY <1>2, DependencyIs
<1>4. c \notin DOMAIN OwnProbes(h)
  BY RegionalKeys
<1>5. c \notin DOMAIN Dependency(h, OfProxy(h))
  <2> SUFFICES ASSUME c \in DOMAIN Dependency(h, OfProxy(h)) PROVE FALSE
    OBVIOUS
  <2>1. PICK x \in OfProxy(h) : c = <<"internal", x[1].at, x[2]>>
    BY DEF Dependency
  <2>2. x[1].at = t.at /\ x[2] = p
    BY <1>1, <2>1
  <2>3. x[1] \in OfClass("proxy") /\ Answered(h, x[1], p) /\ Bucket(p) = "internal"
    BY <2>2 DEF OfProxy
  <2>4. p \in Reports[x[1].key] /\ p \in Reports[t.key]
    BY <2>3 DEF InReports, Answered, OfClass
  <2> QED
    BY <2>2, <2>3, <2>4 DEF ReportsApart
<1> HIDE DEF c
<1>6. c \notin DOMAIN (OwnProbes(h) \oplus Dependency(h, OfProxy(h)))
  BY <1>4, <1>5, NotInEither
<1>7. c \in DOMAIN Internal(h) /\ Internal(h)[c] = h[t].says[p]
  BY <1>3, <1>6, TakeRight, KeepLeft, InternalIs
<1> QED
  BY <1>1, <1>7, SectionShown DEF c

(* A search provider the proxies report, and we do not ask.                *)
LEMMA SearchShown ==
  ASSUME NEW h, NEW p \in Told(h, {"search"}), ~ \E own \in Probed : own.at = p
  PROVE  Flatten(h)[<<"internal", p>>] = MergeWorst(h, "proxy", p)
<1> DEFINE c == <<"internal", p>>
<1>1. c[1] = "internal" /\ c[2] = p
  OBVIOUS
<1>2. c \in DOMAIN Search(h) /\ Search(h)[c] = MergeWorst(h, "proxy", p)
  BY DEF Search
<1>3. c \notin DOMAIN OwnProbes(h)
  BY DEF OwnProbes
<1>4. \A S : c \notin DOMAIN Dependency(h, S)
  BY RegionalKeys
<1> HIDE DEF c
<1>5. c \notin DOMAIN (OwnProbes(h) \oplus Dependency(h, OfProxy(h)) \oplus Dependency(h, OfBilling(h)))
  BY <1>3, <1>4, NotInEither
<1>6. c \in DOMAIN Internal(h) /\ Internal(h)[c] = MergeWorst(h, "proxy", p)
  BY <1>2, <1>5, TakeRight, InternalIs
<1> QED
  BY <1>1, <1>6, SectionShown DEF c

(* The worst that is told is at least as bad as what one of them tells.    *)
LEMMA MergedIsAsBad ==
  ASSUME NEW h, NEW class, NEW t \in OfClass(class), NEW p, Answered(h, t, p)
  PROVE  /\ Tellers(h, class, p) # {}
         /\ Severity(h[t].says[p]) <= Severity(MergeWorst(h, class, p))
<1>1. PICK i \in DOMAIN Jobs : Jobs[i] = t
  BY DEF OfClass, Target
<1>2. i \in Tellers(h, class, p) /\ Word(h, i, p) = h[t].says[p]
  BY <1>1 DEF Tellers, Word, Answered, OfClass
<1> QED
  BY <1>2, MergeWorstIsWorst

(* Whatever a service reports shows under a component at least as bad, for *)
(* every set of targets whose billing and proxy report about different     *)
(* things, save what we probe ourselves ("neither path may DROP an entry", *)
(* aggregate::is_shared_llm).                                              *)
THEOREM NoReportIsHidden == ASSUME ReportsApart PROVE Spec => []EveryReportShows
<1>1. Typed /\ LapInv /\ Spoken => EveryReportShows
  <2> SUFFICES ASSUME Typed, LapInv, Spoken, Sighted,
                      NEW t \in OfClass("billing") \union OfClass("proxy"), NEW p \in Id,
                      Answered(heard.server, t, p), ~WeAskOurselves(t, p)
               PROVE  Severity(snapshot[ShownAs(t, p)]) >= Severity(heard.server[t].says[p])
    BY DEF EveryReportShows
  <2> DEFINE h == heard.server
             word == h[t].says[p]
  <2>1. snapshot = Flatten(h) /\ \A u \in Target : InReports(h[u], u.key)
    BY DEF LapInv, Served, Sighted, Spoken
  <2>2. Severity(word) \in Nat
    BY SeverityIs
  <2>3. Bucket(p) \in {"llm", "search", "internal"}
    BY TargetAssumption DEF Bucket
  <2>4. Answered(h, t, p)
    OBVIOUS
  <2> HIDE DEF h
  <2>5. CASE t.class = "proxy"
    <3>1. t \in OfClass("proxy") /\ t.class # "billing"
      BY <2>5 DEF OfClass
    <3>2. /\ Tellers(h, "proxy", p) # {}
          /\ Severity(word) <= Severity(MergeWorst(h, "proxy", p))
      BY <2>4, <3>1, MergedIsAsBad
    <3>3. CASE Bucket(p) = "llm"
      <4>1. p \in Told(h, {"llm"}) /\ ShownAs(t, p) = <<"llm", p>>
        BY <2>5, <3>2, <3>3 DEF Told, ShownAs
      <4> QED
        BY <2>1, <2>2, <3>2, <4>1, LlmShown, SeverityIs DEF h
    <3>4. CASE Bucket(p) = "search"
      <4>1. p \in Told(h, {"search"}) /\ ShownAs(t, p) = <<"internal", p>>
        BY <2>5, <3>2, <3>4 DEF Told, ShownAs
      <4>2. ~ \E own \in Probed : own.at = p
        BY <2>5, <3>4 DEF WeAskOurselves
      <4>3. Severity(Flatten(h)[<<"internal", p>>]) >= Severity(word)
        BY <2>2, <3>2, <4>1, <4>2, SearchShown, SeverityIs
      <4> QED
        BY <2>1, <4>1, <4>3 DEF h
    <3>5. CASE Bucket(p) = "internal"
      <4>1. ShownAs(t, p) = <<"internal", t.at, p>>
        BY <2>5, <3>1, <3>5 DEF ShownAs
      <4>2. Flatten(h)[<<"internal", t.at, p>>] = word
        BY <2>4, <3>1, <3>5, ProxyDependencyShown
      <4> QED
        BY <2>1, <2>2, <4>1, <4>2 DEF h
    <3> QED
      BY <2>3, <3>3, <3>4, <3>5
  <2>6. CASE t.class = "billing"
    <3>1. t \in OfClass("billing") /\ t.class # "proxy" /\ p \notin DirectAuth
      BY <2>6 DEF OfClass, WeAskOurselves
    <3>2. CASE p = "postgresql"
      <4>1. ShownAs(t, p) = <<"db", t.at>>
        BY <3>1, <2>6, <3>2 DEF ShownAs
      <4>2. Flatten(h)[<<"db", t.at>>] = word
        BY <2>4, <3>1, <3>2, DatabaseShown
      <4> QED
        BY <2>1, <2>2, <4>1, <4>2 DEF h
    <3>3. CASE p # "postgresql" /\ p \in Identity
      <4>1. ShownAs(t, p) = <<"auth", p>>
        BY <3>1, <2>6, <3>3 DEF ShownAs
      <4>2. /\ Tellers(h, "billing", p) # {}
            /\ Severity(word) <= Severity(MergeWorst(h, "billing", p))
        BY <2>4, <3>1, MergedIsAsBad
      <4>3. Severity(Flatten(h)[<<"auth", p>>]) >= Severity(word)
        BY <2>2, <3>1, <3>3, <4>2, ToldAuthShown, SeverityIs
      <4> QED
        BY <2>1, <4>1, <4>3 DEF h
    <3>4. CASE p # "postgresql" /\ p \notin Identity
      <4>1. ShownAs(t, p) = <<"internal", t.at, p>>
        BY <3>1, <2>6, <3>4 DEF ShownAs
      <4>2. Flatten(h)[<<"internal", t.at, p>>] = word
        BY <2>1, <2>4, <3>1, <3>4, BillingDependencyShown
      <4> QED
        BY <2>1, <2>2, <4>1, <4>2 DEF h
    <3> QED
      BY <3>2, <3>3, <3>4
  <2> QED
    BY <2>5, <2>6 DEF OfClass
<1>2. Init => Spoken
  BY SpokenInit
<1>3. Typed /\ Spoken /\ [Next]_vars => Spoken'
  BY SpokenStep
<1> QED
  BY <1>1, <1>2, <1>3, SweepInvariant, PTL DEF Spec
=============================================================================
