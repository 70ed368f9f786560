------------------------- MODULE ObservationsProofs -------------------------
(***************************************************************************)
(* Theorems about Observations, for every set of targets, every range of   *)
(* heartbeats, every window and every bound.                               *)
(***************************************************************************)
EXTENDS Observations, SequenceTheorems, TLAPS

-----------------------------------------------------------------------------
(* Sequences.                                                              *)

(* A row signed comes last and disturbs no other.                          *)
LEMMA SignedComesLast ==
  ASSUME NEW S, NEW s \in Seq(S), NEW x \in S
  PROVE  /\ Append(s, x) \in Seq(S)
         /\ Append(s, x) # << >>
         /\ Len(Append(s, x)) = Len(s) + 1
         /\ Last(Append(s, x)) = x
         /\ \A i \in 1 .. Len(s) : Append(s, x)[i] = s[i]
  BY AppendProperties, LenProperties DEF Last

(* A row removed was the first, and the others move up.                    *)
LEMMA RemovedWasFirst ==
  ASSUME NEW S, NEW s \in Seq(S), s # << >>
  PROVE  /\ Len(s) \in Nat \ {0}
         /\ Tail(s) \in Seq(S)
         /\ Len(Tail(s)) = Len(s) - 1
         /\ \A i \in 1 .. Len(s) - 1 : Tail(s)[i] = s[i + 1]
         /\ Head(s) = s[1]
         /\ Tail(s) # << >> => Last(Tail(s)) = Last(s)
         /\ Tail(s) = << >> => Last(s) = Head(s)
<1>1. /\ Len(s) \in Nat \ {0}
      /\ Tail(s) \in Seq(S)
      /\ Len(Tail(s)) = Len(s) - 1
      /\ \A i \in 1 .. Len(s) - 1 : Tail(s)[i] = s[i + 1]
  BY EmptySeq, HeadTailProperties
<1>2. Head(s) = s[1]
  BY HeadTailProperties
<1>3. ASSUME Tail(s) # << >>
      PROVE  Last(Tail(s)) = Last(s)
  <2>1. Len(Tail(s)) \in Nat \ {0}
    BY <1>1, <1>3, EmptySeq
  <2> QED
    BY <1>1, <2>1 DEF Last
<1>4. ASSUME Tail(s) = << >>
      PROVE  Last(s) = Head(s)
  <2>1. Len(Tail(s)) = 0
    BY <1>4, EmptySeq
  <2>2. Len(s) - 1 = 0
    BY <1>1, <2>1, Zenon
  <2>3. \A n \in Nat : n - 1 = 0 => n = 1
    OBVIOUS
  <2>4. Len(s) = 1
    BY <1>1, <2>2, <2>3, Zenon
  <2> QED
    BY <1>2, <2>4, Zenon DEF Last
<1> QED
  BY <1>1, <1>2, <1>3, <1>4

-----------------------------------------------------------------------------
(* Types.                                                                  *)

(* What the bounds of the clock are.                                       *)
LEMMA ClockTypes ==
  ASSUME TypeOK
  PROVE  /\ now \in Nat /\ began \in Nat /\ began <= now /\ beat \in Nat
         /\ Lowest \in Nat /\ Highest \in Nat /\ Lowest <= beat /\ beat <= Highest
         /\ Lowest > 0 /\ boots \in Nat /\ MaxTime \in Nat /\ now <= MaxTime
         /\ Window \in Nat
<1>1. /\ now \in 0 .. MaxTime /\ began \in 0 .. now /\ beat \in Lowest .. Highest
      /\ boots \in 0 .. MaxBoots
  BY DEF TypeOK
<1> QED
  BY <1>1, ClockAssumption

(* A status has one of three scores (liveness_score).                      *)
LEMMA ScoreType == \A s : Score(s) \in -1 .. 1
  BY DEF Score

(* The initial state is well typed.                                        *)
LEMMA InitTypeOK == Init => TypeOK
<1> SUFFICES ASSUME Init
             PROVE  TypeOK
  OBVIOUS
<1>1. sighted \in BOOLEAN
  BY DEF Init
<1>2. /\ now \in 0 .. MaxTime /\ began \in 0 .. now /\ beat \in Lowest .. Highest
      /\ changes \in 0 .. MaxChanges /\ faults \in 0 .. MaxFaults
      /\ boots \in 0 .. MaxBoots
  BY ClockAssumption DEF Init
<1>3. world \in Snapshot /\ seen \in Snapshot
  BY DEF Init, Snapshot, Status, Nowhere
<1>4. ledger \in [Target -> [score : -1 .. 1, at : -1 .. MaxTime]]
  <2>1. Never \in [score : -1 .. 1, at : -1 .. MaxTime]
    BY ClockAssumption DEF Never
  <2> QED
    BY <2>1 DEF Init
<1>5. rows \in [Target -> Seq(RowType)]
  BY EmptySeq DEF Init
<1>6. pc = "down" /\ todo = {} /\ missed = {}
  BY DEF Init
<1> QED
  BY <1>1, <1>2, <1>3, <1>4, <1>5, <1>6 DEF TypeOK

(* The row a cycle signs about a target (emit_observation).                *)
NewRow(t) ==
  [score |-> Score(seen[t]), at |-> began, asserted |-> now,
   until |-> ValidUntil(began, beat), boot |-> boots]

(* It is a row, once a process runs.                                       *)
LEMMA NewRowType ==
  ASSUME TypeOK, boots > 0, NEW t \in Target
  PROVE  NewRow(t) \in RowType
<1>1. Score(seen[t]) \in -1 .. 1
  BY ScoreType
<1>2. began \in 0 .. MaxTime /\ now \in 0 .. MaxTime /\ ValidUntil(began, beat) \in Nat
  BY ClockTypes DEF ValidUntil
<1>3. boots \in 1 .. MaxBoots
  BY ClockAssumption DEF TypeOK
<1> QED
  BY <1>1, <1>2, <1>3 DEF NewRow, RowType

(* How a step may move the rows about one target: not at all, by one row   *)
(* signed now, or by the oldest removed because it is past the window.     *)
Kept(t) ==
  /\ rows'[t] = rows[t]
  /\ ledger'[t] = ledger[t] \/ (ledger'[t] = Never /\ pc' = "down")
Added(t) ==
  /\ pc = "signing" /\ t \in todo /\ Due(t)
  /\ rows'[t] = Append(rows[t], NewRow(t))
  /\ ledger'[t] = [score |-> Score(seen[t]), at |-> began]
  /\ UNCHANGED <<now, pc, seen, began, beat, boots>>
Removed(t) ==
  /\ pc = "pruning"
  /\ rows[t] # << >> /\ PastWindow(Head(rows[t])) /\ rows'[t] = Tail(rows[t])
  /\ UNCHANGED <<now, pc, ledger, boots>>

(* These are the only ways (run_lifecycle).                                *)
LEMMA RowsMove ==
  ASSUME TypeOK, [Next]_vars, NEW t \in Target
  PROVE  Kept(t) \/ Added(t) \/ Removed(t)
<1>0. /\ rows \in [Target -> Seq(RowType)]
      /\ ledger \in [Target -> [score : -1 .. 1, at : -1 .. MaxTime]]
  BY DEF TypeOK
<1>1. CASE Consider
  <2>1. PICK u \in todo : Skip(u) \/ Sign(u) \/ SignFails(u)
    BY <1>1 DEF Consider
  <2>2. u \in Target
    BY DEF TypeOK, Present
  <2>3. CASE Sign(u)
    <3>1. CASE t = u
      BY <1>0, <1>1, <2>2, <2>3, <3>1 DEF Consider, Sign, NewRow, Added, environment
    <3>2. CASE t # u
      BY <1>0, <2>2, <2>3, <3>2 DEF Sign, Kept
    <3> QED
      BY <3>1, <3>2
  <2>4. CASE Skip(u) \/ SignFails(u)
    BY <2>4 DEF Skip, SignFails, Kept
  <2> QED
    BY <2>1, <2>3, <2>4
<1>2. CASE Prune
  <2>1. PICK u \in Target :
          /\ rows[u] # << >>
          /\ PastWindow(Head(rows[u]))
          /\ rows' = [rows EXCEPT ![u] = Tail(@)]
    BY <1>2 DEF Prune
  <2> QED
    BY <1>0, <1>2, <2>1 DEF Prune, Kept, Removed, environment
<1>3. CASE Crash
  BY <1>3 DEF Crash, Kept
<1>4. CASE Start \/ Sweep \/ Signed \/ EndCycle \/ Tick \/ WorldChanges \/ UNCHANGED vars
  BY <1>4 DEF Start, Sweep, Signed, EndCycle, Tick, WorldChanges, vars, Kept
<1> QED
  BY <1>1, <1>2, <1>3, <1>4 DEF Next, Cycle

(* The clock does not go back, and only a start counts a boot.             *)
LEMMA Forward ==
  ASSUME TypeOK, [Next]_vars
  PROVE  /\ now' \in Nat /\ boots' \in Nat
         /\ now <= now'
         /\ \/ boots' = boots /\ (pc = "down" => pc' = "down")
            \/ pc = "down" /\ boots' = boots + 1
<1>0. now \in Nat /\ boots \in Nat
  BY ClockTypes
<1>1. CASE Start
  BY <1>0, <1>1 DEF Start, environment
<1>2. CASE Tick
  BY <1>0, <1>2 DEF Tick
<1>3. CASE Sweep \/ Consider \/ Signed \/ EndCycle \/ Prune \/ Crash \/ WorldChanges \/ UNCHANGED vars
  BY <1>0, <1>3 DEF Sweep, Consider, Signed, EndCycle, Prune, Crash, WorldChanges, vars, environment
<1> QED
  BY <1>1, <1>2, <1>3 DEF Next, Cycle

-----------------------------------------------------------------------------
(* The strengthening.                                                      *)

(* A process that runs was started; one that is down remembers nothing;    *)
(* and a cycle that has signed has no target left.                         *)
PhaseInv ==
  /\ pc # "down" => boots > 0
  /\ pc = "down" => seen = Nowhere /\ ledger = [t \in Target |-> Never]
  /\ pc \in {"idle", "pruning", "down"} => todo = {}

(* Every step keeps that (run_lifecycle).                                  *)
LEMMA NextPhaseInv == TypeOK /\ PhaseInv /\ [Next]_vars => PhaseInv'
<1> SUFFICES ASSUME TypeOK, PhaseInv, [Next]_vars
             PROVE  PhaseInv'
  OBVIOUS
<1>0. boots \in Nat
  BY ClockTypes
<1> USE DEF PhaseInv
<1>1. CASE Start
  BY <1>0, <1>1 DEF Start, cycle
<1>2. CASE Sweep
  BY <1>2 DEF Sweep
<1>3. CASE Consider
  BY <1>3 DEF Consider
<1>4. CASE Signed
  BY <1>4 DEF Signed, cycle
<1>5. CASE EndCycle
  BY <1>5 DEF EndCycle, cycle
<1>6. CASE Prune
  BY <1>6 DEF Prune, cycle
<1>7. CASE Crash
  BY <1>7 DEF Crash
<1>8. CASE Tick
  BY <1>8 DEF Tick, cycle
<1>9. CASE WorldChanges
  BY <1>9 DEF WorldChanges, cycle
<1>10. CASE UNCHANGED vars
  BY <1>10 DEF vars, cycle
<1> QED
  BY <1>1, <1>2, <1>3, <1>4, <1>5, <1>6, <1>7, <1>8, <1>9, <1>10 DEF Next, Cycle

(* Signing keeps the rows and the ledger in their types                    *)
(* (emit_observations).                                                    *)
LEMMA RowsType ==
  ASSUME TypeOK, PhaseInv, [Next]_vars
  PROVE  rows' \in [Target -> Seq(RowType)]
<1>1. DOMAIN rows' = Target /\ rows' = [t \in DOMAIN rows' |-> rows'[t]]
  <2>1. rows \in [Target -> Seq(RowType)]
    BY DEF TypeOK
  <2>2. CASE Consider
    BY <2>1, <2>2 DEF Consider, Skip, Sign, SignFails
  <2>3. CASE Prune
    BY <2>1, <2>3 DEF Prune
  <2>4. CASE Start \/ Sweep \/ Signed \/ EndCycle \/ Crash \/ Tick \/ WorldChanges \/ UNCHANGED vars
    BY <2>1, <2>4 DEF Start, Sweep, Signed, EndCycle, Crash, Tick, WorldChanges, vars
  <2> QED
    BY <2>2, <2>3, <2>4 DEF Next, Cycle
<1>2. ASSUME NEW t \in Target
      PROVE  rows'[t] \in Seq(RowType)
  <2>1. rows[t] \in Seq(RowType)
    BY DEF TypeOK
  <2>2. CASE Added(t)
    <3>1. NewRow(t) \in RowType
      BY <2>2, NewRowType DEF Added, PhaseInv
    <3> QED
      BY <2>1, <2>2, <3>1, SignedComesLast DEF Added
  <2>3. CASE Removed(t)
    BY <2>1, <2>3, RemovedWasFirst DEF Removed
  <2> QED
    BY <2>1, <2>2, <2>3, RowsMove DEF Kept
<1> QED
  BY <1>1, <1>2

(* Every step keeps every variable in its type.                            *)
LEMMA NextTypeOK == TypeOK /\ PhaseInv /\ [Next]_vars => TypeOK'
<1> SUFFICES ASSUME TypeOK, PhaseInv, [Next]_vars
             PROVE  TypeOK'
  OBVIOUS
<1>r. rows' \in [Target -> Seq(RowType)]
  BY RowsType
<1>t. /\ now \in 0 .. MaxTime /\ began \in 0 .. now /\ beat \in Lowest .. Highest
      /\ changes \in 0 .. MaxChanges /\ faults \in 0 .. MaxFaults
      /\ boots \in 0 .. MaxBoots
      /\ MaxTime \in Nat /\ MaxChanges \in Nat /\ MaxFaults \in Nat /\ MaxBoots \in Nat
      /\ Lowest \in Nat /\ Highest \in Nat
  BY ClockAssumption DEF TypeOK
<1>o. /\ world \in Snapshot /\ seen \in Snapshot /\ sighted \in BOOLEAN
      /\ pc \in {"down", "idle", "signing", "pruning"}
      /\ todo \subseteq Present(seen) /\ missed \subseteq Present(seen)
      /\ ledger \in [Target -> [score : -1 .. 1, at : -1 .. MaxTime]]
  BY DEF TypeOK
<1>1. CASE Start
  <2>1. UNCHANGED <<now, world, sighted, changes, seen, began, beat, todo, missed, ledger, faults>>
    BY <1>1 DEF Start, environment, cycle
  <2>2. pc' = "idle" /\ boots' \in 0 .. MaxBoots
    BY <1>1, <1>t DEF Start
  <2> QED
    BY <1>r, <1>t, <1>o, <2>1, <2>2 DEF TypeOK, Present
<1>2. CASE Sweep
  <2>1. UNCHANGED <<now, world, sighted, changes, ledger, faults, boots>>
    BY <1>2 DEF Sweep, environment
  <2>2. /\ pc' = "signing" /\ seen' = world /\ began' = now /\ beat' \in Lowest .. Highest
        /\ todo' = Present(world) /\ missed' = {}
    BY <1>2 DEF Sweep
  <2>3. began' \in 0 .. now'
    BY <1>t, <2>1, <2>2
  <2> QED
    BY <1>r, <1>t, <1>o, <2>1, <2>2, <2>3 DEF TypeOK, Present
<1>3. CASE Consider
  <2>1. UNCHANGED <<now, world, sighted, changes, pc, seen, began, beat, boots>>
    BY <1>3 DEF Consider, environment
  <2>2. PICK t \in todo : /\ todo' = todo \ {t}
                          /\ Skip(t) \/ Sign(t) \/ SignFails(t)
    BY <1>3 DEF Consider
  <2>3. t \in Present(seen) /\ t \in Target
    BY <1>o DEF Present
  <2>4. faults' \in 0 .. MaxFaults
    BY <1>t, <2>2 DEF Skip, Sign, SignFails
  <2>5. missed' \subseteq Present(seen)
    BY <1>o, <2>2, <2>3 DEF Skip, Sign, SignFails
  <2>6. ledger' \in [Target -> [score : -1 .. 1, at : -1 .. MaxTime]]
    <3>1. [score |-> Score(seen[t]), at |-> began] \in [score : -1 .. 1, at : -1 .. MaxTime]
      BY <1>t, ScoreType
    <3> QED
      BY <1>o, <2>2, <2>3, <3>1 DEF Skip, Sign, SignFails
  <2> QED
    BY <1>r, <1>t, <1>o, <2>1, <2>2, <2>4, <2>5, <2>6 DEF TypeOK, Present
<1>4. CASE Signed
  BY <1>4, <1>o, <1>t, <1>r DEF Signed, environment, cycle, TypeOK, Present
<1>5. CASE EndCycle
  BY <1>5, <1>o, <1>t, <1>r DEF EndCycle, environment, cycle, TypeOK, Present
<1>6. CASE Prune
  BY <1>6, <1>o, <1>t, <1>r DEF Prune, environment, cycle, TypeOK, Present
<1>7. CASE Crash
  <2>1. Never \in [score : -1 .. 1, at : -1 .. MaxTime]
    BY <1>t DEF Never
  <2>2. ledger' \in [Target -> [score : -1 .. 1, at : -1 .. MaxTime]]
    BY <1>7, <2>1 DEF Crash
  <2>3. /\ seen' \in Snapshot /\ todo' = {} /\ missed' = {} /\ pc' = "down"
    BY <1>7 DEF Crash, Nowhere, Snapshot
  <2>4. UNCHANGED <<now, world, sighted, changes, began, beat, faults, boots>>
    BY <1>7 DEF Crash, environment
  <2> QED
    BY <1>r, <1>t, <1>o, <2>2, <2>3, <2>4 DEF TypeOK
<1>8. CASE Tick
  <2>1. now' \in 0 .. MaxTime /\ began' \in 0 .. now'
    BY <1>8, <1>t DEF Tick, cycle
  <2>2. UNCHANGED <<world, sighted, changes, pc, seen, began, beat, todo, missed, ledger, faults, boots>>
    BY <1>8 DEF Tick, cycle
  <2> QED
    BY <1>r, <1>t, <1>o, <2>1, <2>2 DEF TypeOK, Present
<1>9. CASE WorldChanges
  <2>1. changes' \in 0 .. MaxChanges
    BY <1>9, <1>t DEF WorldChanges
  <2>2. world' \in Snapshot
    BY <1>9, <1>o, VerdictAssumption DEF WorldChanges, Snapshot, Status, Absent
  <2>3. sighted' \in BOOLEAN
    BY <1>9, <1>o DEF WorldChanges
  <2>4. UNCHANGED <<now, pc, seen, began, beat, todo, missed, ledger, faults, boots>>
    BY <1>9 DEF WorldChanges, cycle
  <2> QED
    BY <1>r, <1>t, <1>o, <2>1, <2>2, <2>3, <2>4 DEF TypeOK, Present
<1>10. CASE UNCHANGED vars
  BY <1>10, <1>o, <1>t, <1>r DEF vars, environment, cycle, TypeOK, Present
<1> QED
  BY <1>1, <1>2, <1>3, <1>4, <1>5, <1>6, <1>7, <1>8, <1>9, <1>10 DEF Next, Cycle

(* Each variable keeps its type (run_lifecycle).                           *)
THEOREM ObservationsTypeCorrect == Spec => []TypeOK
<1>1. Init => TypeOK /\ PhaseInv
  BY InitTypeOK DEF Init, PhaseInv
<1>2. (TypeOK /\ PhaseInv) /\ [Next]_vars => (TypeOK /\ PhaseInv)'
  BY NextTypeOK, NextPhaseInv
<1> QED
  BY <1>1, <1>2, PTL DEF Spec

-----------------------------------------------------------------------------
(* What the corpus holds.                                                  *)

(* A row was signed no earlier than its cycle began and no later than now; *)
(* it is valid for two of the heartbeats the owner may set; and no process *)
(* to come signed it.                                                      *)
Sound(r) ==
  /\ r.at <= r.asserted /\ r.asserted <= now
  /\ r.at + 2 * Lowest <= r.until /\ r.until <= r.at + 2 * Highest
  /\ r.boot <= boots
RowsSound == \A t \in Target : \A i \in 1 .. Len(rows[t]) : Sound(rows[t][i])

(* What the process remembers, it wrote last, unless no row is left; and a *)
(* process that remembers nothing about a target wrote nothing about it.   *)
Remembered ==
  \A t \in Target :
    /\ ledger[t] # Never /\ rows[t] # << >> =>
         /\ Last(rows[t]).score = ledger[t].score
         /\ Last(rows[t]).at = ledger[t].at
         /\ Last(rows[t]).boot = boots
    /\ ledger[t] = Never /\ pc # "down" =>
         \A i \in 1 .. Len(rows[t]) : rows[t][i].boot < boots

(* A target remembered with no row left has outlived the window since.     *)
Outlived ==
  \A t \in Target :
    ledger[t] # Never /\ rows[t] = << >> => now > ledger[t].at + Window

(* A target the cycle has dealt with is visible, while it still signs too, *)
(* by a row that retention leaves alone until the margin has gone by.      *)
Stays(r, t) == Vouches(r, t) /\ r.at + Window >= began + Margin
Handled ==
  (pc \in {"signing", "pruning", "idle"} /\ now <= began + Margin) =>
    \A t \in Present(seen) \ (missed \union todo) :
      rows[t] # << >> /\ Stays(Last(rows[t]), t)

IInv == TypeOK /\ PhaseInv /\ RowsSound /\ Remembered /\ RepeatsAreSpaced

(* The row a cycle signs is sound when it is signed (emit_observation).    *)
LEMMA NewRowSound ==
  ASSUME TypeOK, NEW t \in Target
  PROVE  /\ Sound(NewRow(t))
         /\ NewRow(t).score = Score(seen[t])
         /\ NewRow(t).at = began
         /\ NewRow(t).until = began + 2 * beat
         /\ NewRow(t).boot = boots
<1>1. /\ NewRow(t).score = Score(seen[t])
      /\ NewRow(t).at = began
      /\ NewRow(t).asserted = now
      /\ NewRow(t).until = began + 2 * beat
      /\ NewRow(t).boot = boots
  BY DEF NewRow, ValidUntil
<1>2. /\ now \in Nat /\ began \in Nat /\ began <= now /\ beat \in Nat
      /\ Lowest \in Nat /\ Highest \in Nat /\ Lowest <= beat /\ beat <= Highest
      /\ boots \in Nat
  BY ClockTypes
<1> QED
  BY <1>1, <1>2 DEF Sound

(* What the fields of a row are.                                           *)
LEMMA RowFields ==
  ASSUME TypeOK, NEW t \in Target, NEW i \in 1 .. Len(rows[t])
  PROVE  /\ rows[t][i].at \in Nat /\ rows[t][i].asserted \in Nat
         /\ rows[t][i].until \in Nat /\ rows[t][i].boot \in Nat
         /\ rows[t][i].score \in -1 .. 1
<1>1. rows[t] \in Seq(RowType)
  BY DEF TypeOK
<1>2. rows[t][i] \in RowType
  BY <1>1, ElementOfSeq
<1>3. MaxBoots \in Nat /\ MaxTime \in Nat
  BY ClockAssumption
<1> QED
  BY <1>2, <1>3 DEF RowType

(* What signing and removing do to the rows about a target, row by row.    *)
LEMMA RowsAfterwards ==
  ASSUME TypeOK, PhaseInv, NEW t \in Target
  PROVE  /\ rows[t] \in Seq(RowType) /\ Len(rows[t]) \in Nat
         /\ rows[t] # << >> => Len(rows[t]) > 0
         /\ Added(t) =>
              /\ rows'[t] # << >>
              /\ Len(rows'[t]) = Len(rows[t]) + 1
              /\ Last(rows'[t]) = NewRow(t)
              /\ rows'[t][Len(rows[t]) + 1] = NewRow(t)
              /\ \A i \in 1 .. Len(rows[t]) : rows'[t][i] = rows[t][i]
         /\ Removed(t) =>
              /\ Len(rows'[t]) = Len(rows[t]) - 1
              /\ \A i \in 1 .. Len(rows[t]) - 1 : rows'[t][i] = rows[t][i + 1]
              /\ rows'[t] # << >> => Last(rows'[t]) = Last(rows[t])
              /\ rows'[t] = << >> => Last(rows[t]) = Head(rows[t])
<1>1. /\ rows[t] \in Seq(RowType) /\ Len(rows[t]) \in Nat
      /\ rows[t] # << >> => Len(rows[t]) > 0
  BY EmptySeq, LenProperties DEF TypeOK
<1>2. ASSUME Added(t)
      PROVE  /\ rows'[t] # << >>
             /\ Len(rows'[t]) = Len(rows[t]) + 1
             /\ Last(rows'[t]) = NewRow(t)
             /\ \A i \in 1 .. Len(rows[t]) : rows'[t][i] = rows[t][i]
  <2>1. NewRow(t) \in RowType
    <3>1. boots > 0
      BY <1>2 DEF Added, PhaseInv
    <3> QED
      BY <3>1, NewRowType
  <2> QED
    BY <1>1, <1>2, <2>1, SignedComesLast DEF Added
<1>3. Added(t) => rows'[t][Len(rows[t]) + 1] = NewRow(t)
  BY <1>2 DEF Last
<1>4. ASSUME Removed(t)
      PROVE  /\ Len(rows'[t]) = Len(rows[t]) - 1
             /\ \A i \in 1 .. Len(rows[t]) - 1 : rows'[t][i] = rows[t][i + 1]
             /\ rows'[t] # << >> => Last(rows'[t]) = Last(rows[t])
             /\ rows'[t] = << >> => Last(rows[t]) = Head(rows[t])
  BY <1>1, <1>4, RemovedWasFirst DEF Removed
<1> QED
  BY <1>1, <1>2, <1>3, <1>4

(* Every step keeps the rows sound (emit_observations, prune_corpus).      *)
LEMMA NextRowsSound == TypeOK /\ PhaseInv /\ RowsSound /\ [Next]_vars => RowsSound'
<1> SUFFICES ASSUME TypeOK, PhaseInv, RowsSound, [Next]_vars,
                    NEW t \in Target, NEW j \in 1 .. Len(rows'[t])
             PROVE  Sound(rows[t][j])'
  BY DEF RowsSound
<1> DEFINE Good(r) ==
      /\ r.at <= r.asserted /\ r.asserted <= now'
      /\ r.at + 2 * Lowest <= r.until /\ r.until <= r.at + 2 * Highest
      /\ r.boot <= boots'
<1>0. Len(rows[t]) \in Nat
  BY RowsAfterwards
<1>1. \A i \in 1 .. Len(rows[t]) : Good(rows[t][i])
  <2> TAKE i \in 1 .. Len(rows[t])
  <2>1. Sound(rows[t][i])
    BY DEF RowsSound
  <2>2. /\ now \in Nat /\ now' \in Nat /\ now <= now'
        /\ boots \in Nat /\ boots' \in Nat /\ boots <= boots'
    BY ClockTypes, Forward
  <2> QED
    BY <2>1, <2>2, RowFields DEF Sound
<1>2. Good(rows'[t][j])
  <2>1. CASE Kept(t)
    BY <1>1, <2>1 DEF Kept
  <2>2. CASE Added(t)
    <3>1. Sound(NewRow(t)) /\ now' = now /\ boots' = boots
      BY <2>2, NewRowSound DEF Added
    <3>2. Good(NewRow(t))
      BY <3>1 DEF Sound
    <3>3. rows'[t][j] = NewRow(t) \/ (j \in 1 .. Len(rows[t]) /\ rows'[t][j] = rows[t][j])
      BY <1>0, <2>2, RowsAfterwards
    <3> QED
      BY <1>1, <3>2, <3>3
  <2>3. CASE Removed(t)
    <3>1. j + 1 \in 1 .. Len(rows[t]) /\ rows'[t][j] = rows[t][j + 1]
      BY <1>0, <2>3, RowsAfterwards
    <3> QED
      BY <1>1, <3>1
  <2> QED
    BY <2>1, <2>2, <2>3, RowsMove
<1> QED
  BY <1>2 DEF Sound

(* Every step keeps the ledger to what the corpus says last                *)
(* (emit_observations updates it only for a row that was accepted).        *)
LEMMA NextRemembered ==
  TypeOK /\ PhaseInv /\ RowsSound /\ Remembered /\ [Next]_vars => Remembered'
<1> SUFFICES ASSUME TypeOK, PhaseInv, RowsSound, Remembered, [Next]_vars, NEW t \in Target
             PROVE  /\ ledger'[t] # Never /\ rows'[t] # << >> =>
                         /\ Last(rows'[t]).score = ledger'[t].score
                         /\ Last(rows'[t]).at = ledger'[t].at
                         /\ Last(rows'[t]).boot = boots'
                    /\ ledger'[t] = Never /\ pc' # "down" =>
                         \A i \in 1 .. Len(rows'[t]) : rows'[t][i].boot < boots'
  BY DEF Remembered, Last
<1>0. /\ Len(rows[t]) \in Nat /\ boots \in Nat /\ began \in Nat
  BY RowsAfterwards, ClockTypes
<1>1. CASE Kept(t)
  <2>1. ASSUME ledger'[t] # Never, rows'[t] # << >>
        PROVE  /\ Last(rows'[t]).score = ledger'[t].score
               /\ Last(rows'[t]).at = ledger'[t].at
               /\ Last(rows'[t]).boot = boots'
    <3>1. ledger'[t] = ledger[t] /\ rows'[t] = rows[t]
      BY <1>1, <2>1 DEF Kept
    <3>2. pc # "down"
      BY <2>1, <3>1 DEF PhaseInv
    <3>3. boots' = boots
      BY <3>2, Forward
    <3> QED
      BY <2>1, <3>1, <3>3 DEF Remembered
  <2>2. ASSUME ledger'[t] = Never, pc' # "down", NEW i \in 1 .. Len(rows'[t])
        PROVE  rows'[t][i].boot < boots'
    <3>1. ledger'[t] = ledger[t] /\ rows'[t] = rows[t]
      BY <1>1, <2>2 DEF Kept
    <3>2. rows[t][i].boot \in Nat /\ rows[t][i].boot <= boots
      BY <2>2, <3>1, RowFields DEF RowsSound, Sound
    <3>3. CASE pc = "down"
      BY <1>0, <2>2, <3>1, <3>2, <3>3, Forward
    <3>4. CASE pc # "down"
      BY <2>2, <3>1, <3>4, Forward DEF Remembered
    <3> QED
      BY <3>3, <3>4
  <2> QED
    BY <2>1, <2>2
<1>2. CASE Added(t)
  <2>1. ledger'[t] # Never
    BY <1>0, <1>2 DEF Added, Never
  <2>2. ledger'[t].score = Score(seen[t]) /\ ledger'[t].at = began /\ boots' = boots
    BY <1>2 DEF Added
  <2>3. Last(rows'[t]) = NewRow(t)
    BY <1>2, RowsAfterwards
  <2> QED
    BY <2>1, <2>2, <2>3, NewRowSound
<1>3. CASE Removed(t)
  <2>1. ASSUME ledger'[t] # Never, rows'[t] # << >>
        PROVE  /\ Last(rows'[t]).score = ledger'[t].score
               /\ Last(rows'[t]).at = ledger'[t].at
               /\ Last(rows'[t]).boot = boots'
    BY <1>3, <2>1, RowsAfterwards DEF Removed, Remembered
  <2>2. ASSUME ledger'[t] = Never, pc' # "down", NEW i \in 1 .. Len(rows'[t])
        PROVE  rows'[t][i].boot < boots'
    <3>1. i + 1 \in 1 .. Len(rows[t]) /\ rows'[t][i] = rows[t][i + 1]
      BY <1>0, <1>3, RowsAfterwards
    <3> QED
      BY <1>3, <2>2, <3>1 DEF Removed, Remembered
  <2> QED
    BY <2>1, <2>2
<1> QED
  BY <1>1, <1>2, <1>3, RowsMove

(* A row is signed again only when the heartbeat is due, or because it     *)
(* says something else (emit_due).                                         *)
LEMMA NextRepeatsAreSpaced ==
  TypeOK /\ PhaseInv /\ RowsSound /\ Remembered /\ RepeatsAreSpaced /\ [Next]_vars
    => RepeatsAreSpaced'
<1> DEFINE Spaced(r, q) == r.boot = q.boot /\ r.score = q.score => q.at - r.at >= Lowest
<1> SUFFICES ASSUME TypeOK, PhaseInv, RowsSound, Remembered, RepeatsAreSpaced, [Next]_vars,
                    NEW t \in Target, NEW j \in 1 .. Len(rows'[t]) - 1
             PROVE  Spaced(rows'[t][j], rows'[t][j + 1])
  BY DEF RepeatsAreSpaced
<1>0. Len(rows[t]) \in Nat
  BY RowsAfterwards
<1>i. \A i \in 1 .. Len(rows[t]) - 1 : Spaced(rows[t][i], rows[t][i + 1])
  BY DEF RepeatsAreSpaced
<1>1. CASE Kept(t)
  BY <1>i, <1>1 DEF Kept
<1>2. CASE Added(t)
  <2>1. CASE j < Len(rows[t])
    <3>1. j \in 1 .. Len(rows[t]) - 1 /\ j \in 1 .. Len(rows[t]) /\ j + 1 \in 1 .. Len(rows[t])
      BY <1>0, <2>1
    <3>2. rows'[t][j] = rows[t][j] /\ rows'[t][j + 1] = rows[t][j + 1]
      BY <1>2, <3>1, RowsAfterwards
    <3> QED
      BY <1>i, <3>1, <3>2
  <2>2. CASE ~(j < Len(rows[t]))
    <3>1. j = Len(rows[t]) /\ j \in 1 .. Len(rows[t])
      BY <1>0, <1>2, <2>2, RowsAfterwards
    <3>2. /\ rows'[t][j] = rows[t][j] /\ rows'[t][j + 1] = NewRow(t)
          /\ rows[t][j] = Last(rows[t])
      BY <1>2, <3>1, RowsAfterwards DEF Last
    <3>3. SUFFICES ASSUME Last(rows[t]).boot = boots, Last(rows[t]).score = Score(seen[t])
                   PROVE  began - Last(rows[t]).at >= Lowest
      BY <3>2, NewRowSound
    <3>4. rows[t] # << >>
      BY <3>1, EmptySeq
    <3>5. boots \in Nat /\ rows[t][j].boot = boots
      BY <3>2, <3>3, ClockTypes
    <3>6. ledger[t] # Never
      BY <1>2, <3>1, <3>5 DEF Remembered, Added
    <3>7. ledger[t].score = Score(seen[t]) /\ Last(rows[t]).at = ledger[t].at
      BY <3>3, <3>4, <3>6 DEF Remembered
    <3>8. began - ledger[t].at >= beat
      BY <1>2, <3>6, <3>7 DEF Added, Due
    <3>9. Last(rows[t]).at \in Nat
      BY <3>1, <3>2, RowFields
    <3> QED
      BY <3>7, <3>8, <3>9, ClockTypes
  <2> QED
    BY <2>1, <2>2
<1>3. CASE Removed(t)
  <2>1. /\ j \in 1 .. Len(rows[t]) - 1 /\ j + 1 \in 1 .. Len(rows[t]) - 1
        /\ rows'[t][j] = rows[t][j + 1] /\ rows'[t][j + 1] = rows[t][(j + 1) + 1]
    BY <1>0, <1>3, RowsAfterwards
  <2> QED
    BY <1>i, <2>1
<1> QED
  BY <1>1, <1>2, <1>3, RowsMove

-----------------------------------------------------------------------------
(* What the window and the heartbeats leave visible.                       *)

(* How the margin compares with a row's validity and with the window.      *)
LEMMA MarginBounds ==
  ASSUME TypeOK
  PROVE  /\ Margin \in Int
         /\ Margin <= 2 * Lowest - Highest
         /\ Margin <= Window + 1 - Highest
BY ClockTypes DEF Margin, Lasts

(* A sound row past the window is older than the window (prune_corpus).    *)
LEMMA PastMeansOld ==
  ASSUME TypeOK, RowsSound, NEW t \in Target, rows[t] # << >>,
         PastWindow(Head(rows[t]))
  PROVE  /\ Head(rows[t]).at + Window < now
         /\ Head(rows[t]).at \in Nat
<1>1. rows[t] \in Seq(RowType)
  BY DEF TypeOK
<1>2. Head(rows[t]) = rows[t][1] /\ 1 \in 1 .. Len(rows[t])
  BY <1>1, RemovedWasFirst
<1>3. Head(rows[t]).at \in Nat /\ Head(rows[t]).asserted \in Nat
  BY <1>2, RowFields
<1>4. Sound(Head(rows[t]))
  BY <1>2 DEF RowsSound
<1>5. Head(rows[t]).asserted < now - Window
  BY DEF PastWindow
<1>6. now \in Nat /\ Window \in Nat
  BY ClockTypes
<1> QED
  BY <1>3, <1>4, <1>5, <1>6 DEF Sound

(* Every step keeps targets with no row left outlived (prune_corpus).      *)
LEMMA NextOutlived ==
  TypeOK /\ PhaseInv /\ RowsSound /\ Remembered /\ Outlived /\ [Next]_vars => Outlived'
<1> SUFFICES ASSUME TypeOK, PhaseInv, RowsSound, Remembered, Outlived, [Next]_vars,
                    NEW t \in Target, ledger'[t] # Never, rows'[t] = << >>
             PROVE  now' > ledger'[t].at + Window
  BY DEF Outlived
<1>0. /\ now \in Nat /\ now' \in Nat /\ now <= now' /\ Window \in Nat
      /\ ledger[t].at \in -1 .. MaxTime /\ MaxTime \in Nat
  BY ClockTypes, Forward DEF TypeOK
<1>1. CASE Kept(t)
  <2>1. ledger'[t] = ledger[t] /\ rows[t] = << >>
    BY <1>1 DEF Kept
  <2>2. now > ledger[t].at + Window
    BY <2>1 DEF Outlived
  <2> QED
    BY <1>0, <2>1, <2>2
<1>2. CASE Added(t)
  BY <1>2, RowsAfterwards
<1>3. CASE Removed(t)
  <2>1. /\ ledger'[t] = ledger[t] /\ now' = now /\ rows[t] # << >>
        /\ PastWindow(Head(rows[t]))
    BY <1>3 DEF Removed
  <2>2. Last(rows[t]) = Head(rows[t])
    BY <1>3, RowsAfterwards
  <2>3. ledger[t].at = Head(rows[t]).at
    BY <2>1, <2>2 DEF Remembered
  <2> QED
    BY <2>1, <2>3, PastMeansOld
<1> QED
  BY <1>1, <1>2, <1>3, RowsMove

(* Every step keeps the targets the cycle has dealt with visible           *)
(* (emit_observations, emit_due, prune_corpus).                            *)
LEMMA NextHandled ==
  TypeOK /\ PhaseInv /\ RowsSound /\ Remembered /\ Outlived /\ Handled /\ [Next]_vars
    => Handled'
<1> SUFFICES ASSUME TypeOK, PhaseInv, RowsSound, Remembered, Outlived, Handled, [Next]_vars,
                    pc' \in {"signing", "pruning", "idle"}, now' <= began' + Margin,
                    NEW t \in Present(seen'), t \notin missed', t \notin todo'
             PROVE  rows'[t] # << >> /\ Stays(Last(rows[t]), t)'
  BY DEF Handled, Stays, Vouches, Last, Present
<1> DEFINE Visible == rows[t] # << >> /\ Stays(Last(rows[t]), t)
<1>0. /\ t \in Target /\ now \in Nat /\ now' \in Nat /\ now <= now'
      /\ began \in Nat /\ Margin \in Int
      /\ Margin <= 2 * Lowest - Highest /\ Margin <= Window + 1 - Highest
  BY ClockTypes, MarginBounds, Forward DEF Present
<1>h. ASSUME now <= began + Margin, t \in Present(seen), t \notin missed, t \notin todo,
             pc \in {"signing", "pruning", "idle"}
      PROVE  Visible
  BY <1>h DEF Handled
<1>1. CASE Start
  <2>1. seen' = Nowhere
    BY <1>1 DEF Start, cycle, PhaseInv
  <2> QED
    BY <1>0, <2>1 DEF Present, Nowhere
<1>2. CASE Sweep
  BY <1>2 DEF Sweep, Present
<1>3. CASE Consider
  <2>1. /\ UNCHANGED <<now, seen, began, boots>> /\ pc = "signing"
        /\ now <= began + Margin
    BY <1>3 DEF Consider, environment
  <2>2. PICK u \in todo : todo' = todo \ {u} /\ (Skip(u) \/ Sign(u) \/ SignFails(u))
    BY <1>3 DEF Consider
  <2>3. CASE Added(t)
    <3>1. rows'[t] # << >> /\ Last(rows'[t]) = NewRow(t)
      BY <1>0, <2>3, RowsAfterwards
    <3>2. /\ NewRow(t).score = Score(seen[t]) /\ NewRow(t).until > began + Margin
          /\ NewRow(t).at + Window >= began + Margin
      <4>1. /\ NewRow(t).score = Score(seen[t]) /\ NewRow(t).until = began + 2 * beat
            /\ NewRow(t).at = began
        BY <1>0, NewRowSound
      <4>2. 2 * beat > Margin /\ Window >= Margin
        BY <1>0, ClockTypes
      <4>3. beat \in Nat /\ Window \in Nat
        BY ClockTypes
      <4> QED
        BY <1>0, <4>1, <4>2, <4>3
    <3> QED
      BY <2>1, <3>1, <3>2 DEF Stays, Vouches, Last
  <2>4. CASE Kept(t)
    <3>1. SUFFICES Visible
      BY <2>1, <2>4 DEF Kept, Stays, Vouches, Last
    <3>2. CASE t \notin todo
      <4>1. t \notin missed
        BY <2>2 DEF Skip, Sign, SignFails
      <4> QED
        BY <1>h, <2>1, <3>2, <4>1
    <3>3. CASE t \in todo
      <4>1. u = t
        BY <2>2, <3>3
      <4>2. ~SignFails(u)
        BY <4>1 DEF SignFails
      <4>3. ~Sign(u)
        <5>1. SUFFICES ASSUME Sign(u) PROVE FALSE
          OBVIOUS
        <5>2. Len(rows[t]) \in Nat /\ rows[t] \in Seq(RowType) /\ rows \in [Target -> Seq(RowType)]
          BY <1>0, RowsAfterwards DEF TypeOK
        <5>3. rows'[t] = Append(rows[t], NewRow(t))
          BY <1>0, <4>1, <5>1, <5>2 DEF Sign, NewRow
        <5>4. NewRow(t) \in RowType
          <6>1. boots > 0
            BY <2>1 DEF PhaseInv
          <6> QED
            BY <1>0, <6>1, NewRowType
        <5>5. Len(rows'[t]) = Len(rows[t]) + 1
          BY <5>2, <5>3, <5>4, SignedComesLast
        <5> QED
          BY <2>4, <5>2, <5>5 DEF Kept
      <4>4. ~Due(t)
        BY <2>2, <4>1, <4>2, <4>3 DEF Skip
      <4>5. ledger[t] # Never /\ ledger[t].score = Score(seen[t]) /\ ~(began - ledger[t].at >= beat)
        BY <4>4 DEF Due
      <4>6. /\ ledger[t].at \in -1 .. MaxTime /\ MaxTime \in Nat /\ beat \in Nat /\ beat <= Highest
            /\ Lowest \in Nat /\ Highest \in Nat /\ Window \in Nat
        BY <1>0, ClockTypes DEF TypeOK
      <4>7. ledger[t].at + 2 * Lowest > began + Margin /\ ledger[t].at + Window >= began + Margin
        BY <1>0, <4>5, <4>6
      <4>8. rows[t] # << >>
        <5>1. SUFFICES ASSUME rows[t] = << >> PROVE FALSE
          OBVIOUS
        <5>2. now > ledger[t].at + Window
          BY <1>0, <4>5, <5>1 DEF Outlived
        <5> QED
          BY <1>0, <2>1, <4>6, <4>7, <5>2
      <4>9. /\ Last(rows[t]).score = Score(seen[t])
            /\ Last(rows[t]).at = ledger[t].at
        BY <1>0, <4>5, <4>8 DEF Remembered
      <4>10. Last(rows[t]).until > began + Margin
        <5>1. Len(rows[t]) \in 1 .. Len(rows[t])
          BY <1>0, <4>8, RowsAfterwards
        <5>2. Sound(Last(rows[t])) /\ Last(rows[t]).until \in Nat
          BY <1>0, <5>1, RowFields DEF RowsSound, Last
        <5> QED
          BY <1>0, <4>6, <4>7, <4>9, <5>2 DEF Sound
      <4> QED
        BY <4>7, <4>8, <4>9, <4>10 DEF Stays, Vouches
    <3> QED
      BY <3>2, <3>3
  <2>5. CASE Removed(t)
    BY <2>1, <2>5 DEF Removed
  <2> QED
    BY <1>0, <2>3, <2>4, <2>5, RowsMove
<1>4. CASE Signed \/ EndCycle \/ WorldChanges \/ UNCHANGED vars
  <2>1. UNCHANGED <<now, cycle, rows>> /\ pc \in {"signing", "pruning", "idle"}
    BY <1>4 DEF Signed, EndCycle, WorldChanges, vars, environment
  <2> QED
    BY <1>h, <2>1 DEF cycle, Stays, Vouches, Last
<1>5. CASE Tick
  <2>1. UNCHANGED <<pc, cycle, rows>>
    BY <1>5 DEF Tick
  <2>2. now <= began + Margin
    BY <1>0, <2>1 DEF cycle
  <2> QED
    BY <1>h, <2>1, <2>2 DEF cycle, Stays, Vouches, Last
<1>6. CASE Prune
  <2>1. UNCHANGED <<now, cycle>> /\ pc = "pruning"
    BY <1>6 DEF Prune, environment
  <2>2. Visible
    BY <1>h, <2>1 DEF cycle
  <2>3. CASE Kept(t)
    BY <2>1, <2>2, <2>3 DEF Kept, cycle, Stays, Vouches, Last
  <2>4. CASE Added(t)
    BY <2>1, <2>4 DEF Added
  <2>5. CASE Removed(t)
    <3>1. rows'[t] # << >>
      <4>1. SUFFICES ASSUME rows'[t] = << >>
                     PROVE  FALSE
        OBVIOUS
      <4>2. Last(rows[t]) = Head(rows[t])
        BY <1>0, <2>5, <4>1, RowsAfterwards
      <4>3. Head(rows[t]).at + Window < now /\ Head(rows[t]).at \in Nat /\ Window \in Nat
        BY <1>0, <2>5, PastMeansOld, ClockTypes DEF Removed
      <4>4. Head(rows[t]).at + Window >= began + Margin /\ now <= began + Margin
        BY <2>1, <2>2, <4>2 DEF Stays, cycle
      <4> QED
        BY <1>0, <4>3, <4>4
    <3>2. Last(rows'[t]) = Last(rows[t])
      BY <1>0, <2>5, <3>1, RowsAfterwards
    <3> QED
      BY <2>1, <2>2, <3>1, <3>2 DEF cycle, Stays, Vouches, Last
  <2> QED
    BY <1>0, <2>3, <2>4, <2>5, RowsMove
<1>7. CASE Crash
  BY <1>7 DEF Crash
<1> QED
  BY <1>1, <1>2, <1>3, <1>4, <1>5, <1>6, <1>7 DEF Next, Cycle

-----------------------------------------------------------------------------
(* The theorems.                                                           *)

(* The strengthening is an invariant, whatever the settings                *)
(* (emit_observations, emit_due, prune_corpus).                            *)
LEMMA ObservationsInductive == Spec => []IInv
<1>1. Init => IInv
  <2>1. ASSUME Init
        PROVE  RowsSound /\ Remembered /\ RepeatsAreSpaced
    <3>1. \A t \in Target : rows[t] = << >> /\ Len(rows[t]) = 0
      BY <2>1, EmptySeq DEF Init
    <3>2. pc = "down"
      BY <2>1 DEF Init
    <3> QED
      BY <3>1, <3>2 DEF RowsSound, Remembered, RepeatsAreSpaced
  <2> QED
    BY <2>1, InitTypeOK DEF IInv, Init, PhaseInv
<1>2. IInv /\ [Next]_vars => IInv'
  BY NextTypeOK, NextPhaseInv, NextRowsSound, NextRemembered, NextRepeatsAreSpaced DEF IInv
<1> QED
  BY <1>1, <1>2, PTL DEF Spec

(* One process repeats itself about a target only a heartbeat apart,       *)
(* whatever the settings and the failures (emit_due).                      *)
THEOREM RepeatsSpaced == Spec => []RepeatsAreSpaced
<1>1. IInv => RepeatsAreSpaced
  BY DEF IInv
<1> QED
  BY <1>1, ObservationsInductive, PTL

(* What the ledger says was written last is what the corpus says last, or  *)
(* what it said until it fell out of the window, whatever the settings     *)
(* (emit_observations, prune_own_observations).                            *)
THEOREM LedgerAgreesWithCorpus == Spec => []LedgerTellsHead
<1>1. Init => Outlived
  BY DEF Init, Outlived
<1>2. IInv /\ Outlived /\ [Next]_vars => Outlived'
  BY NextOutlived DEF IInv
<1>3. IInv /\ Outlived => LedgerTellsHead
  BY DEF IInv, Outlived, Remembered, LedgerTellsHead
<1> QED
  BY <1>1, <1>2, <1>3, ObservationsInductive, PTL DEF Spec

(* Every target a cycle saw and did not fail to sign has a newest row that *)
(* tells its verdict and outlives the margin, whichever heartbeats the     *)
(* owner has set since and however short the window is                     *)
(* (emit_observations, prune_own_observations).                            *)
THEOREM SeenStaysVisible == Spec => []SeenIsVisible
<1>1. Init => Outlived /\ Handled
  BY DEF Init, Outlived, Handled
<1>2. IInv /\ Outlived /\ Handled /\ [Next]_vars => (Outlived /\ Handled)'
  BY NextOutlived, NextHandled DEF IInv
<1>3. IInv /\ Handled => SeenIsVisible
  BY DEF IInv, PhaseInv, Handled, Stays, SeenIsVisible
<1> QED
  BY <1>1, <1>2, <1>3, ObservationsInductive, PTL DEF Spec
=============================================================================
