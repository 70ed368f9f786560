-------------------------- MODULE RetentionProofs --------------------------
(***************************************************************************)
(* Theorems about Retention, for every budget, threshold, set of rows the  *)
(* corpus refuses to delete, and bound.                                    *)
(***************************************************************************)
EXTENDS Retention, FiniteSetTheorems, WellFoundedInduction, TLAPS

-----------------------------------------------------------------------------
(* Listings.                                                               *)

(* A listing is a part of what is listed (list_attestations).              *)
LEMMA OldestIsSubset ==
  ASSUME NEW n, NEW S
  PROVE  Oldest(n, S) \subseteq S
  BY DEF Oldest

(* A listing that may hold every row holds every row.                      *)
LEMMA SmallSetsAreListed ==
  ASSUME NEW n \in Nat, NEW S \in SUBSET Nat, IsFiniteSet(S),
         Cardinality(S) <= n
  PROVE  Oldest(n, S) = S
<1> SUFFICES ASSUME NEW r \in S
             PROVE  Cardinality({q \in S : q < r}) < n
  BY DEF Oldest
<1>1. /\ IsFiniteSet(S \ {r})
      /\ Cardinality(S \ {r}) = Cardinality(S) - 1
  BY FS_RemoveElement
<1>2. {q \in S : q < r} \in SUBSET (S \ {r})
  OBVIOUS
<1>3. Cardinality({q \in S : q < r}) <= Cardinality(S \ {r})
  BY <1>1, <1>2, FS_Subset
<1>4. /\ Cardinality(S) \in Nat
      /\ Cardinality({q \in S : q < r}) \in Nat
  BY <1>1, <1>2, FS_Subset, FS_CardinalityType
<1> QED
  BY <1>1, <1>3, <1>4

(* A listing with room for n + 1 rows that comes back with n at most has   *)
(* missed nothing: the extra row is evidence, not inference                *)
(* (prune_own_observations, scan_target).                                  *)
LEMMA ShortListingsAreComplete ==
  ASSUME NEW n \in Nat, NEW S \in SUBSET Nat, IsFiniteSet(S),
         Cardinality(Oldest(n + 1, S)) <= n
  PROVE  Oldest(n + 1, S) = S
<1> DEFINE missed == S \ Oldest(n + 1, S)
<1> SUFFICES ASSUME missed # {}
             PROVE  FALSE
  BY OldestIsSubset
<1>1. PICK r \in missed : \A q \in missed : ~ (<<q, r>> \in OpToRel(<, Nat))
  <2>1. missed \subseteq Nat
    OBVIOUS
  <2> QED
    BY <2>1, NatLessThanWellFounded, WFMin
<1>2. \A q \in missed : ~ (q < r)
  BY <1>1 DEF OpToRel
<1>3. {q \in S : q < r} \in SUBSET Oldest(n + 1, S)
  BY <1>2
<1>4. IsFiniteSet(Oldest(n + 1, S))
  BY OldestIsSubset, FS_Subset
<1>5. /\ Cardinality({q \in S : q < r}) <= n
      /\ Cardinality({q \in S : q < r}) \in Nat
  <2>1. /\ IsFiniteSet({q \in S : q < r})
        /\ Cardinality({q \in S : q < r}) <= Cardinality(Oldest(n + 1, S))
    BY <1>3, <1>4, FS_Subset
  <2>2. /\ Cardinality({q \in S : q < r}) \in Nat
        /\ Cardinality(Oldest(n + 1, S)) \in Nat
    BY <1>4, <2>1, FS_CardinalityType
  <2> QED
    BY <2>1, <2>2
<1>6. r \in Oldest(n + 1, S)
  BY <1>5 DEF Oldest
<1> QED
  BY <1>6

-----------------------------------------------------------------------------
(* Types.                                                                  *)

(* The initial state is well typed.                                        *)
LEMMA InitTypeOK == Init => TypeOK
<1> SUFFICES ASSUME Init
             PROVE  TypeOK
  OBVIOUS
<1>1. dbOpen \in BOOLEAN /\ more \in BOOLEAN
  BY DEF Init
<1>2. /\ written \in 0 .. MaxRows /\ window \in 0 .. written /\ cutoff \in 0 .. window
      /\ faults \in 0 .. MaxFaults /\ boots \in 0 .. MaxBoots
      /\ corpus \subseteq 1 .. written
      /\ doomed \subseteq corpus /\ refused \subseteq 1 .. written
  BY RetentionAssumption DEF Init
<1>3. /\ stale \in Nat /\ purged \in Nat /\ debt \in Nat /\ counter \in Nat
      /\ forgotten \in Nat
      /\ pc \in {"down", "idle", "purging", "owing", "saved", "repaired"}
  BY DEF Init
<1> QED
  BY <1>1, <1>2, <1>3 DEF TypeOK

(* What the corpus may list is a finite set of numbers.                    *)
LEMMA CandidatesType ==
  ASSUME TypeOK
  PROVE  /\ Candidates \in SUBSET Nat
         /\ IsFiniteSet(Candidates)
         /\ Candidates \subseteq corpus
<1>1. /\ written \in Nat
      /\ Candidates \subseteq 1 .. written
  <2>1. /\ written \in 0 .. MaxRows
        /\ corpus \subseteq 1 .. written
    BY DEF TypeOK
  <2>2. written \in Nat
    BY <2>1, RetentionAssumption
  <2>3. Candidates \subseteq corpus
    BY DEF Candidates
  <2> QED
    BY <2>1, <2>2, <2>3
<1>2. IsFiniteSet(1 .. written)
  BY <1>1, FS_Interval
<1> QED
  BY <1>1, <1>2, FS_Subset DEF Candidates

(* Every step keeps every variable in its type (prune_corpus and           *)
(* prune_own_observations).                                                *)
LEMMA NextTypeOK == TypeOK /\ [Next]_vars => TypeOK'
<1> SUFFICES ASSUME TypeOK, [Next]_vars
             PROVE  TypeOK'
  OBVIOUS
<1> USE RetentionAssumption DEF TypeOK
<1>1. CASE Start
  <2>1. dbOpen' \in BOOLEAN
    BY <1>1 DEF Start
  <2>2. faults' \in 0 .. MaxFaults /\ boots' \in 0 .. MaxBoots /\ pc' = "idle"
    BY <1>1 DEF Start, Fault
  <2>3. UNCHANGED <<rows, pass, books>>
    BY <1>1 DEF Start
  <2> QED
    BY <2>1, <2>2, <2>3 DEF rows, pass, books
<1>2. CASE Emit
  BY <1>2 DEF Emit, pass, books
<1>3. CASE Age
  BY <1>3 DEF Age, pass, books
<1>4. CASE Scan
  <2>1. doomed' \subseteq corpus
    BY <1>4, CandidatesType, OldestIsSubset DEF Scan
  <2>2. more' \in BOOLEAN
    BY <1>4 DEF Scan, BeyondBudget
  <2>3. UNCHANGED <<corpus, written, window, stale, dbOpen, debt, counter,
                    forgotten, faults, boots>>
    BY <1>4 DEF Scan, rows, books
  <2>4. pc' = "purging" /\ cutoff' = window /\ purged' = 0 /\ refused' = {}
    BY <1>4 DEF Scan
  <2> QED
    BY <2>1, <2>2, <2>3, <2>4
<1>5. CASE Purge
  <2>1. PICK r \in Oldest(1, doomed) :
          /\ doomed' = doomed \ {r}
          /\ \/ /\ r \notin Held
                /\ corpus' = corpus \ {r}
                /\ stale' = stale + 1
                /\ purged' = purged + 1
                /\ UNCHANGED <<refused, faults>>
             \/ /\ \/ r \in Held /\ UNCHANGED faults
                   \/ r \notin Held /\ Fault
                /\ refused' = refused \union {r}
                /\ UNCHANGED <<corpus, stale, purged>>
    BY <1>5 DEF Purge
  <2>2. r \in doomed
    BY OldestIsSubset
  <2>3. UNCHANGED <<written, window, pc, dbOpen, cutoff, more, debt, counter,
                    forgotten, boots>>
    BY <1>5 DEF Purge, books
  <2>4. CASE corpus' = corpus \ {r} /\ UNCHANGED <<refused, faults>>
             /\ stale' = stale + 1 /\ purged' = purged + 1
    BY <2>1, <2>2, <2>3, <2>4
  <2>5. CASE refused' = refused \union {r} /\ UNCHANGED <<corpus, stale, purged>>
             /\ faults' \in 0 .. MaxFaults
    BY <2>1, <2>2, <2>3, <2>5
  <2> QED
    BY <2>1, <2>4, <2>5 DEF Fault
<1>6. CASE Account
  BY <1>6 DEF Account, Seeded, Fault, rows, pass
<1>7. CASE Save
  BY <1>7 DEF Save, Fault, rows, pass
<1>8. CASE Rebuild
  BY <1>8 DEF Rebuild, Fault, pass
<1>9. CASE NoRebuild
  BY <1>9 DEF NoRebuild, rows, pass, books
<1>10. CASE Clear
  BY <1>10 DEF Clear, Fault, rows, pass
<1>11. CASE Crash
  <2>1. Unsaved \in Nat
    <3>1. Owed \in Nat
      BY DEF Owed
    <3> QED
      BY <3>1 DEF Unsaved, InHand
  <2>2. dbOpen' \in BOOLEAN /\ more' \in BOOLEAN
    BY <1>11 DEF Crash
  <2>3. /\ forgotten' \in Nat
        /\ cutoff' = 0 /\ doomed' = {} /\ purged' = 0 /\ refused' = {} /\ debt' = 0
        /\ pc' = "down"
        /\ UNCHANGED <<corpus, written, window, stale, counter, faults, boots>>
    BY <1>11, <2>1 DEF Crash, rows
  <2> QED
    BY <2>2, <2>3
<1>12. CASE UNCHANGED vars
  BY <1>12 DEF vars, rows, pass, books
<1> QED
  BY <1>1, <1>2, <1>3, <1>4, <1>5, <1>6, <1>7, <1>8, <1>9, <1>10, <1>11, <1>12
     DEF Next, Pass

-----------------------------------------------------------------------------
(* The strengthening.                                                      *)

(* A process that is down knows nothing, and rebuilding leaves nothing     *)
(* stale (prune_corpus, AppState).                                         *)
PhaseInv ==
  /\ pc = "down" => ~dbOpen /\ debt = 0
  /\ pc = "owing" => debt >= purged
  /\ pc = "repaired" => stale = 0 /\ debt = 0
  /\ pc \in {"owing", "saved"} => doomed = {}

(* Without a fault the store is open and the cell never runs ahead of the  *)
(* counter by more than the pass that is being accounted.                  *)
FaultlessInv ==
  faults = 0 =>
    /\ pc # "down" => dbOpen
    /\ debt <= counter + (IF pc = "owing" THEN purged ELSE 0)

(* A pass that found no backlog has in hand everything past the window.    *)
CoverInv ==
  (pc \in {"purging", "owing", "saved"} /\ ~more)
    => {r \in corpus : r <= cutoff} \subseteq doomed \union refused

Strengthening ==
  TypeOK /\ PhaseInv /\ DebtIsAccounted /\ FaultlessInv /\ CoverInv

(* Every step keeps the phases apart (prune_corpus).                       *)
LEMMA NextPhaseInv == TypeOK /\ PhaseInv /\ [Next]_vars => PhaseInv'
<1> SUFFICES ASSUME TypeOK, PhaseInv, [Next]_vars
             PROVE  PhaseInv'
  OBVIOUS
<1>0. debt \in Nat /\ counter \in Nat /\ purged \in Nat /\ Seeded(counter) \in Nat
      /\ Seeded(0) \in Nat
  BY DEF TypeOK, Seeded
<1> USE DEF PhaseInv
<1>1. CASE Start
  BY <1>1 DEF Start
<1>2. CASE Emit
  BY <1>2 DEF Emit
<1>3. CASE Age
  BY <1>3 DEF Age, pass, books
<1>4. CASE Scan
  BY <1>4 DEF Scan
<1>5. CASE Purge
  BY <1>5 DEF Purge, books
<1>6. CASE Account
  <2>1. debt' >= purged /\ purged' = purged /\ doomed' = {} /\ pc' = "owing"
    BY <1>0, <1>6 DEF Account, pass
  <2> QED
    BY <2>1
<1>7. CASE Save
  BY <1>7 DEF Save, rows, pass
<1>8. CASE Rebuild
  BY <1>8 DEF Rebuild, pass
<1>9. CASE NoRebuild
  BY <1>9 DEF NoRebuild
<1>10. CASE Clear
  BY <1>10 DEF Clear
<1>11. CASE Crash
  BY <1>11 DEF Crash
<1>12. CASE UNCHANGED vars
  BY <1>12 DEF vars, rows, pass, books
<1> QED
  BY <1>1, <1>2, <1>3, <1>4, <1>5, <1>6, <1>7, <1>8, <1>9, <1>10, <1>11, <1>12
     DEF Next, Pass

(* Every step keeps the books: what it takes from one account it puts in   *)
(* another, or counts as forgotten (prune_corpus).                         *)
LEMMA NextDebtIsAccounted ==
  TypeOK /\ PhaseInv /\ DebtIsAccounted /\ [Next]_vars => DebtIsAccounted'
<1> SUFFICES ASSUME TypeOK, PhaseInv, DebtIsAccounted, [Next]_vars
             PROVE  DebtIsAccounted'
  OBVIOUS
<1>0. /\ stale \in Nat /\ debt \in Nat /\ counter \in Nat /\ purged \in Nat
      /\ forgotten \in Nat
  BY DEF TypeOK
<1> USE <1>0 DEF DebtIsAccounted, InHand, Owed
<1>1. CASE Start
  BY <1>1 DEF Start, PhaseInv, rows, books
<1>2. CASE Emit
  BY <1>2 DEF Emit, pass, books
<1>3. CASE Age
  BY <1>3 DEF Age, pass, books
<1>4. CASE Scan
  BY <1>4 DEF Scan, rows, books
<1>5. CASE Purge
  <2>1. stale' + purged = stale + purged'
    BY <1>5, OldestIsSubset DEF Purge
  <2>2. UNCHANGED <<pc, dbOpen, debt, counter, forgotten>> /\ pc = "purging"
    BY <1>5 DEF Purge, books
  <2>3. stale' \in Nat /\ purged' \in Nat
    BY <1>5, NextTypeOK DEF TypeOK
  <2> QED
    BY <2>1, <2>2, <2>3
<1>6. CASE Account
  BY <1>6 DEF Account, Seeded, rows, pass
<1>7. CASE Save
  BY <1>7 DEF Save, PhaseInv, rows, pass
<1>8. CASE Rebuild
  BY <1>8 DEF Rebuild, pass
<1>9. CASE NoRebuild
  BY <1>9 DEF NoRebuild, rows, books
<1>10. CASE Clear
  BY <1>10 DEF Clear, PhaseInv, rows
<1>11. CASE Crash
  BY <1>11 DEF Crash, Unsaved, rows
<1>12. CASE UNCHANGED vars
  BY <1>12 DEF vars, rows, pass, books
<1> QED
  BY <1>1, <1>2, <1>3, <1>4, <1>5, <1>6, <1>7, <1>8, <1>9, <1>10, <1>11, <1>12
     DEF Next, Pass

(* A fault once counted stays counted, so a faultless step came from a     *)
(* faultless state.                                                        *)
LEMMA FaultsOnlyGrow == TypeOK /\ [Next]_vars => faults' >= faults
<1> SUFFICES ASSUME TypeOK, [Next]_vars
             PROVE  faults' >= faults
  OBVIOUS
<1>0. faults \in Nat
  BY RetentionAssumption DEF TypeOK
<1>1. faults' = faults \/ faults' = faults + 1
  BY DEF Next, Pass, Start, Emit, Age, Scan, Purge, Account, Save, Rebuild,
         NoRebuild, Clear, Crash, Fault, vars
<1> QED
  BY <1>0, <1>1

(* While nothing fails, the counter lags the cell by the pass being        *)
(* accounted at most (prune_corpus).                                       *)
LEMMA NextFaultlessInv ==
  TypeOK /\ PhaseInv /\ FaultlessInv /\ [Next]_vars => FaultlessInv'
<1> SUFFICES ASSUME TypeOK, PhaseInv, FaultlessInv, [Next]_vars, faults' = 0
             PROVE  /\ pc' # "down" => dbOpen'
                    /\ debt' <= counter' + (IF pc' = "owing" THEN purged' ELSE 0)
  BY DEF FaultlessInv
<1>0. /\ debt \in Nat /\ counter \in Nat /\ purged \in Nat /\ faults \in Nat
  BY RetentionAssumption DEF TypeOK
<1>f. faults = 0 /\ ~Fault
  BY <1>0, FaultsOnlyGrow DEF Fault
<1>i. /\ pc # "down" => dbOpen
      /\ debt <= counter + (IF pc = "owing" THEN purged ELSE 0)
  BY <1>f DEF FaultlessInv
<1> USE <1>0, <1>f, <1>i
<1>1. CASE Start
  BY <1>1 DEF Start, PhaseInv, pass, books
<1>2. CASE Emit
  BY <1>2 DEF Emit, pass, books
<1>3. CASE Age
  BY <1>3 DEF Age, pass, books
<1>4. CASE Scan
  BY <1>4 DEF Scan, books
<1>5. CASE Purge
  BY <1>5 DEF Purge, books
<1>6. CASE Account
  BY <1>6 DEF Account, Seeded, pass
<1>7. CASE Save
  BY <1>7 DEF Save, pass
<1>8. CASE Rebuild
  BY <1>8 DEF Rebuild, pass
<1>9. CASE NoRebuild
  BY <1>9 DEF NoRebuild, books, pass
<1>10. CASE Clear
  BY <1>10 DEF Clear, PhaseInv, pass
<1>11. CASE Crash
  BY <1>11 DEF Crash
<1>12. CASE UNCHANGED vars
  BY <1>12 DEF vars, pass, books
<1> QED
  BY <1>1, <1>2, <1>3, <1>4, <1>5, <1>6, <1>7, <1>8, <1>9, <1>10, <1>11, <1>12
     DEF Next, Pass

(* A pass that saw no row beyond its budget has them all in hand           *)
(* (prune_own_observations).                                               *)
LEMMA ScanCovers ==
  ASSUME TypeOK, Scan, ~more'
  PROVE  Candidates \subseteq doomed'
<1> DEFINE found == Oldest(Budget + 1, Candidates)
<1>1. /\ found \subseteq Candidates
      /\ IsFiniteSet(found)
      /\ found \in SUBSET Nat
  BY CandidatesType, OldestIsSubset, FS_Subset
<1>2. /\ Cardinality(found) \in Nat
      /\ Budget \in Nat
  BY <1>1, FS_CardinalityType, RetentionAssumption
<1>3. Cardinality(found) <= Budget
  <2>1. ~ (Cardinality(found) > Budget)
    BY DEF Scan, ScanTarget, BeyondBudget
  <2> QED
    BY <1>2, <2>1
<1>4. found = Candidates
  BY <1>2, <1>3, CandidatesType, ShortListingsAreComplete
<1>5. Oldest(Budget, found) = found
  BY <1>1, <1>2, <1>3, SmallSetsAreListed
<1>6. doomed' = Oldest(Budget, found)
  BY DEF Scan, ScanTarget
<1> QED
  BY <1>4, <1>5, <1>6

(* Every step keeps that: a row leaves the hand deleted or refused.        *)
LEMMA NextCoverInv ==
  TypeOK /\ PhaseInv /\ CoverInv /\ [Next]_vars => CoverInv'
<1> SUFFICES ASSUME TypeOK, PhaseInv, CoverInv, [Next]_vars
             PROVE  CoverInv'
  OBVIOUS
<1> USE DEF CoverInv
<1>1. CASE Start
  BY <1>1 DEF Start
<1>2. CASE Emit
  BY <1>2 DEF Emit
<1>3. CASE Age
  BY <1>3 DEF Age, pass
<1>4. CASE Scan
  <2>1. cutoff' = window /\ corpus' = corpus
    BY <1>4 DEF Scan, rows
  <2>2. ~more' => Candidates \subseteq doomed'
    BY <1>4, ScanCovers
  <2>3. {r \in corpus' : r <= cutoff'} = Candidates
    BY <2>1 DEF Candidates
  <2> QED
    BY <2>2, <2>3
<1>5. CASE Purge
  <2>1. /\ pc = "purging" /\ pc' = "purging" /\ more' = more /\ cutoff' = cutoff
    BY <1>5 DEF Purge
  <2>2. PICK r \in doomed :
          /\ doomed' = doomed \ {r}
          /\ \/ corpus' = corpus \ {r} /\ refused' = refused
             \/ corpus' = corpus /\ refused' = refused \union {r}
    BY <1>5, OldestIsSubset DEF Purge
  <2> QED
    BY <2>1, <2>2
<1>6. CASE Account
  BY <1>6 DEF Account, rows, pass
<1>7. CASE Save
  BY <1>7 DEF Save, rows, pass
<1>8. CASE Rebuild
  BY <1>8 DEF Rebuild
<1>9. CASE NoRebuild
  BY <1>9 DEF NoRebuild
<1>10. CASE Clear
  BY <1>10 DEF Clear
<1>11. CASE Crash
  BY <1>11 DEF Crash
<1>12. CASE UNCHANGED vars
  BY <1>12 DEF vars, rows, pass
<1> QED
  BY <1>1, <1>2, <1>3, <1>4, <1>5, <1>6, <1>7, <1>8, <1>9, <1>10, <1>11, <1>12
     DEF Next, Pass

-----------------------------------------------------------------------------
(* Theorems.                                                               *)

(* Nothing has been deleted yet, and nothing is owed.                      *)
LEMMA InitStrengthening == Init => Strengthening
<1> SUFFICES ASSUME Init
             PROVE  Strengthening
  OBVIOUS
<1>1. TypeOK
  BY InitTypeOK
<1>2. PhaseInv /\ CoverInv
  BY DEF Init, PhaseInv, CoverInv
<1>3. DebtIsAccounted
  BY DEF Init, DebtIsAccounted, InHand, Owed
<1>4. FaultlessInv
  BY DEF Init, FaultlessInv
<1> QED
  BY <1>1, <1>2, <1>3, <1>4 DEF Strengthening

(* The strengthening is inductive.                                         *)
LEMMA RetentionInductive == Spec => []Strengthening
<1>1. Strengthening /\ [Next]_vars => Strengthening'
  BY NextTypeOK, NextPhaseInv, NextDebtIsAccounted, NextFaultlessInv, NextCoverInv
     DEF Strengthening
<1> QED
  BY <1>1, InitStrengthening, PTL DEF Spec

(* The pass keeps its state well typed, and never has a row in hand that   *)
(* is not in the corpus (prune_own_observations).                          *)
THEOREM RetentionTypeCorrect == Spec => []TypeOK
<1>1. Strengthening => TypeOK
  BY DEF Strengthening
<1> QED
  BY <1>1, RetentionInductive, PTL

(* Whatever fails and whenever the process dies, every index entry of a    *)
(* deleted row is owed a repair or is counted as forgotten (prune_corpus). *)
THEOREM DebtAccounted == Spec => []DebtIsAccounted
<1>1. Strengthening => DebtIsAccounted
  BY DEF Strengthening
<1> QED
  BY <1>1, RetentionInductive, PTL

(* While the store works, the debt of every finished pass survives a       *)
(* restart (prune_corpus).                                                 *)
THEOREM SettledDebtSurvives == Spec => []SettledDebtIsDurable
<1>1. Strengthening => SettledDebtIsDurable
  <2> SUFFICES ASSUME Strengthening, faults = 0, pc \notin {"purging", "owing"}
               PROVE  InHand <= counter
    BY DEF SettledDebtIsDurable
  <2>1. debt \in Nat /\ counter \in Nat
    BY DEF Strengthening, TypeOK
  <2>2. debt <= counter
    BY <2>1 DEF Strengthening, FaultlessInv
  <2>3. pc # "down" => dbOpen
    BY DEF Strengthening, FaultlessInv
  <2>4. pc = "down" => debt = 0
    BY DEF Strengthening, PhaseInv
  <2> QED
    BY <2>1, <2>2, <2>3, <2>4 DEF InHand, Owed
<1> QED
  BY <1>1, RetentionInductive, PTL

(* A rebuild never runs while the backlog is being drained (prune_corpus). *)
THEOREM RebuildsAreQuiet == Spec => RebuildIsQuiet
<1>1. /\ Strengthening /\ [Next]_vars
      /\ pc = "saved" /\ pc' = "repaired"
      => {r \in corpus : r <= cutoff} \subseteq refused
  <2> SUFFICES ASSUME Strengthening, [Next]_vars, pc = "saved", pc' = "repaired"
               PROVE  {r \in corpus : r <= cutoff} \subseteq refused
    OBVIOUS
  <2>1. Rebuild
    BY DEF Next, Pass, Start, Emit, Age, Scan, Purge, Account, Save, NoRebuild,
           Clear, Crash, vars
  <2>2. ~more
    BY <2>1 DEF Rebuild, Due
  <2>3. doomed = {}
    BY DEF Strengthening, PhaseInv
  <2> QED
    BY <2>2, <2>3 DEF Strengthening, CoverInv
<1>2. Strengthening /\ [Next]_vars
        => [(pc = "saved" /\ pc' = "repaired")
              => {r \in corpus : r <= cutoff} \subseteq refused]_vars
  BY <1>1
<1> QED
  BY <1>2, RetentionInductive, PTL DEF Spec, RebuildIsQuiet
=============================================================================
