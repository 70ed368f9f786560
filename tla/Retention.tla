------------------------------ MODULE Retention ------------------------------
(***************************************************************************)
(* Retention of the observation rows this node authored                    *)
(* (src/retention.rs, and prune_corpus in src/adapter.rs).  A pass lists   *)
(* the rows past the window, deletes at most a budget of them, and owes    *)
(* the corpus one repair of its wire index for every row deleted.  The     *)
(* debt lives in a cell in memory and, so that a restart does not forget   *)
(* it, in a counter of status.db; it is paid by one expensive rebuild, and *)
(* only when the pass that saw enough of it also saw the end of the        *)
(* backlog.  The process may die between any two of these steps.           *)
(*                                                                         *)
(* Rows are numbered in the order in which they were asserted, which is    *)
(* the order in which a pass lists and deletes them.                       *)
(***************************************************************************)
EXTENDS Naturals, FiniteSets

CONSTANTS
  Budget,     \* status.corpus_retention_budget: rows a pass may delete
  Threshold,  \* adapter::REBUILD_AFTER_PURGES
  Held,       \* the rows the corpus refuses to delete, whoever asks
  MaxRows,    \* bound: rows ever written
  MaxFaults,  \* bound: store opens, reads, writes, deletes and rebuilds that fail
  MaxBoots    \* bound: starts of the process

ASSUME RetentionAssumption ==
  /\ Budget \in Nat \ {0}
  /\ Threshold \in Nat \ {0}
  /\ MaxRows \in Nat
  /\ Held \subseteq 1 .. MaxRows
  /\ MaxFaults \in Nat
  /\ MaxBoots \in Nat

VARIABLES
  corpus,    \* our rows in the corpus (durable)
  written,   \* how many rows were ever written
  window,    \* rows 1 .. window were asserted longer ago than the retention window
  stale,     \* index entries of deleted rows that no rebuild has removed (durable)
  pc,        \* where the pass stands, "idle" between passes, or "down"
  dbOpen,    \* did history::init succeed in this process?
  cutoff,    \* the window as this pass read it
  doomed,    \* the rows this pass has still to delete
  more,      \* were there candidates beyond the budget?
  purged,    \* rows this pass deleted
  refused,   \* rows this pass was refused (the code keeps their number)
  debt,      \* AppState::purge_debt (memory)
  counter,   \* the purge_debt counter of status.db (durable)
  forgotten, \* debt that was lost for good (history variable)
  faults, boots  \* the bounded counters

pass == <<cutoff, doomed, more, purged, refused>>
books == <<debt, counter, forgotten>>
rows == <<corpus, written, window, stale>>
vars == <<rows, pc, dbOpen, pass, books, faults, boots>>

Row == 1 .. MaxRows

\* What a pass may delete: our rows, asserted before the window opened.
Candidates == {r \in corpus : r <= window}

\* The oldest n of a set of rows: a listing cut off after n of them.
Oldest(n, S) == {r \in S : Cardinality({q \in S : q < r}) < n}

Fault == faults < MaxFaults /\ faults' = faults + 1

\* Fault for testing RebuildIsQuiet: the scan stops at the budget itself.
ScanToBudget == Budget
\* The scan stops one past the budget, and the extra row answers `more?'.
ScanTarget == Budget + 1

BeyondBudget(found) == Cardinality(found) > Budget

-----------------------------------------------------------------------------
Init ==
  /\ corpus = {}
  /\ written = 0
  /\ window = 0
  /\ stale = 0
  /\ pc = "down"
  /\ dbOpen = FALSE
  /\ cutoff = 0 /\ doomed = {} /\ more = FALSE /\ purged = 0 /\ refused = {}
  /\ debt = 0
  /\ counter = 0
  /\ forgotten = 0
  /\ faults = 0
  /\ boots = 0

(* A fresh process owes nothing it remembers: the cell starts at 0.        *)
Start ==
  /\ pc = "down"
  /\ boots < MaxBoots
  /\ boots' = boots + 1
  /\ pc' = "idle"
  /\ \/ dbOpen' = TRUE /\ UNCHANGED faults
     \/ dbOpen' = FALSE /\ Fault
  /\ UNCHANGED <<rows, pass, books>>

(* Flow B signs a row; it shares the task of the pass, so never inside one. *)
Emit ==
  /\ pc = "idle"
  /\ written < MaxRows
  /\ written' = written + 1
  /\ corpus' = corpus \union {written + 1}
  /\ UNCHANGED <<window, stale, pc, dbOpen, pass, books, faults, boots>>

(* Time passes, and the oldest row inside the window leaves it.            *)
Age ==
  /\ window < written
  /\ window' = window + 1
  /\ UNCHANGED <<corpus, written, stale, pc, dbOpen, pass, books, faults, boots>>

(* prune_own_observations, the listing: keep the budget, and let one row   *)
(* more than that tell whether there is a backlog.                         *)
Scan ==
  /\ pc = "idle"
  /\ pc' = "purging"
  /\ cutoff' = window
  /\ LET found == Oldest(ScanTarget, Candidates)
     IN /\ more' = BeyondBudget(found)
        /\ doomed' = Oldest(Budget, found)
  /\ purged' = 0
  /\ refused' = {}
  /\ UNCHANGED <<rows, dbOpen, books, faults, boots>>

(* Fault for testing BacklogDrains: the pass gives up at the first refusal. *)
PurgeUntilRefused ==
  /\ pc = "purging"
  /\ doomed # {}
  /\ \E r \in Oldest(1, doomed) :
        \/ /\ r \notin Held
           /\ doomed' = doomed \ {r}
           /\ corpus' = corpus \ {r}
           /\ stale' = stale + 1
           /\ purged' = purged + 1
           /\ UNCHANGED <<refused, faults>>
        \/ /\ r \in Held
           /\ doomed' = {}
           /\ refused' = {r}
           /\ UNCHANGED <<corpus, stale, purged, faults>>
  /\ UNCHANGED <<written, window, pc, dbOpen, cutoff, more, books, boots>>

(* prune_own_observations, one deletion: done, refused for good, or failed. *)
Purge ==
  /\ pc = "purging"
  /\ doomed # {}
  /\ \E r \in Oldest(1, doomed) :
        /\ doomed' = doomed \ {r}
        /\ \/ /\ r \notin Held
              /\ corpus' = corpus \ {r}
              /\ stale' = stale + 1
              /\ purged' = purged + 1
              /\ UNCHANGED <<refused, faults>>
           \/ /\ \/ r \in Held /\ UNCHANGED faults
                 \/ r \notin Held /\ Fault
              /\ refused' = refused \union {r}
              /\ UNCHANGED <<corpus, stale, purged>>
  /\ UNCHANGED <<written, window, pc, dbOpen, cutoff, more, books, boots>>

\* Fault for testing DebtIsAccounted: the cell is never seeded from the store.
NeverSeeded(read) == debt

(* What the cell holds once it is seeded: a cell at 0 asks the store.      *)
Seeded(read) == IF debt = 0 /\ dbOpen THEN read ELSE debt

(* prune_corpus: add this pass to the debt.  A counter that cannot be read *)
(* reads 0, and what it said is then overwritten or ignored.               *)
Account ==
  /\ pc = "purging"
  /\ doomed = {}
  /\ pc' = "owing"
  /\ \/ /\ debt' = Seeded(counter) + purged
        /\ UNCHANGED <<forgotten, faults>>
     \/ /\ debt = 0 /\ dbOpen
        /\ Fault
        /\ debt' = Seeded(0) + purged
        /\ forgotten' = forgotten + (IF purged > 0 THEN counter ELSE 0)
  /\ UNCHANGED <<rows, dbOpen, pass, counter, boots>>

(* Fault for testing SettledDebtIsDurable: the pass is saved, not the debt. *)
SaveThisPass ==
  /\ pc = "owing"
  /\ pc' = "saved"
  /\ \/ purged > 0 /\ dbOpen /\ counter' = purged /\ UNCHANGED faults
     \/ (purged = 0 \/ ~dbOpen) /\ UNCHANGED <<counter, faults>>
  /\ UNCHANGED <<rows, dbOpen, pass, debt, forgotten, boots>>

(* prune_corpus: record the debt, if this pass added to it and if we can.  *)
Save ==
  /\ pc = "owing"
  /\ pc' = "saved"
  /\ \/ purged > 0 /\ dbOpen /\ counter' = debt /\ UNCHANGED faults
     \/ purged > 0 /\ dbOpen /\ UNCHANGED counter /\ Fault
     \/ (purged = 0 \/ ~dbOpen) /\ UNCHANGED <<counter, faults>>
  /\ UNCHANGED <<rows, dbOpen, pass, debt, forgotten, boots>>

(* Fault for testing RepairComes: only a pass that deletes may pay.         *)
DueIfPurged == debt >= Threshold /\ ~more /\ purged > 0

(* prune_corpus: enough is owed, and this is a quiet moment to pay.        *)
Due == debt >= Threshold /\ ~more

Rebuild ==
  /\ pc = "saved"
  /\ Due
  /\ \/ stale' = 0 /\ debt' = 0 /\ pc' = "repaired" /\ UNCHANGED faults
     \/ UNCHANGED <<stale, debt>> /\ pc' = "idle" /\ Fault
  /\ UNCHANGED <<corpus, written, window, dbOpen, pass, counter, forgotten, boots>>

NoRebuild ==
  /\ pc = "saved"
  /\ ~Due
  /\ pc' = "idle"
  /\ UNCHANGED <<rows, dbOpen, pass, books, faults, boots>>

(* prune_corpus: zero the durable record as well, if we can.               *)
Clear ==
  /\ pc = "repaired"
  /\ pc' = "idle"
  /\ \/ dbOpen /\ counter' = 0 /\ UNCHANGED faults
     \/ dbOpen /\ UNCHANGED counter /\ Fault
     \/ ~dbOpen /\ UNCHANGED <<counter, faults>>
  /\ UNCHANGED <<rows, dbOpen, pass, debt, forgotten, boots>>

(* What is still on the books: a cell that was seeded has taken the counter *)
(* over, and a process without a store keeps its own debt beside it.       *)
Owed == CASE ~dbOpen -> counter + debt
          [] dbOpen /\ debt = 0 -> counter
          [] OTHER -> debt
InHand == Owed + (IF pc = "purging" THEN purged ELSE 0)
Unsaved == IF InHand > counter THEN InHand - counter ELSE 0

Crash ==
  /\ pc # "down"
  /\ boots < MaxBoots
  /\ pc' = "down"
  /\ dbOpen' = FALSE
  /\ cutoff' = 0 /\ doomed' = {} /\ more' = FALSE /\ purged' = 0 /\ refused' = {}
  /\ debt' = 0
  /\ forgotten' = forgotten + Unsaved
  /\ UNCHANGED <<rows, counter, faults, boots>>

Pass == Scan \/ Purge \/ Account \/ Save \/ Rebuild \/ NoRebuild \/ Clear

Next == Start \/ Emit \/ Age \/ Pass \/ Crash

(* The supervisor restarts the container, a pass once begun is carried     *)
(* through and the next one comes at its cadence, and time passes.         *)
Fairness == WF_vars(Start) /\ WF_vars(Pass) /\ WF_vars(Age)

Spec == Init /\ [][Next]_vars
FairSpec == Spec /\ Fairness

-----------------------------------------------------------------------------
(* Properties.                                                             *)

TypeOK ==
  /\ corpus \subseteq 1 .. written
  /\ written \in 0 .. MaxRows
  /\ window \in 0 .. written
  /\ stale \in Nat
  /\ pc \in {"down", "idle", "purging", "owing", "saved", "repaired"}
  /\ dbOpen \in BOOLEAN
  /\ cutoff \in 0 .. window
  /\ doomed \subseteq corpus
  /\ more \in BOOLEAN
  /\ purged \in Nat
  /\ refused \subseteq 1 .. written
  /\ debt \in Nat
  /\ counter \in Nat
  /\ forgotten \in Nat
  /\ faults \in 0 .. MaxFaults
  /\ boots \in 0 .. MaxBoots

(* Every index entry of a deleted row is owed a repair, in the cell, in the *)
(* counter or in the pass under way, or was lost by one of the accidents   *)
(* `forgotten' counts: a process killed before it saved, or a counter that *)
(* could not be read (prune_corpus, "THE DEBT IS DURABLE").                *)
DebtIsAccounted == stale <= InHand + forgotten

(* With a store that works, whatever a finished pass owes is on disk: only *)
(* a process killed inside a pass can forget anything.                     *)
SettledDebtIsDurable ==
  (faults = 0 /\ pc \notin {"purging", "owing"}) => InHand <= counter

(* The expensive repair waits for the end of the backlog: when it runs,    *)
(* every row that was past the window when the pass began is gone or was   *)
(* refused ("A drain is never a quiet moment", prune_corpus).              *)
RebuildIsQuiet ==
  [][(pc = "saved" /\ pc' = "repaired") => {r \in corpus : r <= cutoff} \subseteq refused]_vars

(* A row past the window is deleted in the end, unless the corpus refuses  *)
(* it, so long as refused rows leave the budget some room.                 *)
BacklogDrains ==
  Cardinality(Held) < Budget
    => \A r \in Row \ Held : (r \in corpus) ~> (r \notin corpus)

(* A debt worth a repair, so far as this process can know of it, is paid   *)
(* in the end: the backlog does drain, the refused rows do not keep it     *)
(* open, and a failed rebuild is tried again.                              *)
RepairComes ==
  Cardinality(Held) < Budget
    => []<>((IF dbOpen THEN Owed ELSE debt) < Threshold)
=============================================================================
