---------------------------- MODULE Observations ----------------------------
(***************************************************************************)
(* Flow B: the signed observation:reachability rows this node keeps in its *)
(* own corpus (emit_observations in src/adapter.rs, emit_due and           *)
(* liveness_score in src/ceg.rs), together with what retention may remove  *)
(* from them.  A sighted cycle signs a row about every target whose score  *)
(* changed since the last row this process wrote, or whose last row is a   *)
(* heartbeat old; a row is valid for two heartbeats.  The ledger of what   *)
(* was written last lives in memory; signing one row may fail without      *)
(* stopping the others; time passes while the cycle signs; and the owner   *)
(* may change the heartbeat between two cycles.                            *)
(***************************************************************************)
EXTENDS Integers, Sequences

CONSTANTS
  Target,            \* what an envelope can be about
  Verdicts,          \* bound: what the world may turn to (verdicts, and Absent)
  Lowest, Highest,   \* the heartbeats the owner may set
  Window,            \* how long a row is kept (status.corpus_retention_hours)
  MaxTime,           \* bound: the clock
  MaxChanges,        \* bound: changes of the world
  MaxFaults,         \* bound: rows that cannot be signed
  MaxBoots           \* bound: starts of the process

ASSUME VerdictAssumption == Verdicts \subseteq {"operational", "degraded", "outage", "unknown", "absent"}
ASSUME ClockAssumption ==
  /\ Lowest \in Nat \ {0}
  /\ Highest \in Nat
  /\ Lowest <= Highest
  /\ Window \in Nat
  /\ MaxTime \in Nat
  /\ MaxChanges \in Nat
  /\ MaxFaults \in Nat
  /\ MaxBoots \in Nat

VARIABLES
  now,      \* the clock
  world,    \* what a sweep would report of each target, or Absent
  sighted,  \* is our own network up?
  pc,       \* "idle" between cycles, "signing", "pruning", or "down"
  seen,     \* the snapshot the last sighted cycle signed from
  began,    \* the instant that cycle took for its own
  beat,     \* the heartbeat it went by
  todo,     \* the targets it has still to consider
  missed,   \* the targets it failed to sign
  ledger,   \* what this process last wrote about each target (memory)
  rows,     \* the rows about each target in the corpus, oldest first (durable)
  changes, faults, boots  \* the bounded counters

cycle == <<seen, began, beat, todo, missed>>
environment == <<now, world, sighted, changes>>
vars == <<environment, pc, cycle, ledger, rows, faults, boots>>

Status == {"operational", "degraded", "outage", "unknown"}
Absent == "absent"
Snapshot == [Target -> Status \union {Absent}]
Present(s) == {t \in Target : s[t] # Absent}
Nowhere == [t \in Target |-> Absent]

\* ceg::liveness_score
Score(status) ==
  CASE status = "operational" -> 1
    [] status = "outage" -> -1
    [] OTHER -> 0

Never == [score |-> 0, at |-> -1]
Last(s) == s[Len(s)]

\* Fault for testing SeenIsVisible: a row expires when the next one is due.
OneHeartbeat(at, heartbeat) == at + heartbeat
ValidUntil(at, heartbeat) == at + 2 * heartbeat

\* Fault for testing RepeatsAreSpaced: the age is read off the clock, not the cycle.
DueByTheClock(t) ==
  \/ ledger[t] = Never
  \/ ledger[t].score # Score(seen[t])
  \/ now - ledger[t].at >= beat

\* Fault for testing NewsArrives: only the heartbeat has a row signed.
DueAtHeartbeat(t) == ledger[t] = Never \/ began - ledger[t].at >= beat

\* ceg::emit_due
Due(t) ==
  \/ ledger[t] = Never
  \/ ledger[t].score # Score(seen[t])
  \/ began - ledger[t].at >= beat

-----------------------------------------------------------------------------
Init ==
  /\ now = 0
  /\ world = [t \in Target |-> "operational"]
  /\ sighted = TRUE
  /\ pc = "down"
  /\ seen = Nowhere /\ began = 0 /\ beat = Lowest /\ todo = {} /\ missed = {}
  /\ ledger = [t \in Target |-> Never]
  /\ rows = [t \in Target |-> << >>]
  /\ changes = 0
  /\ faults = 0
  /\ boots = 0

Start ==
  /\ pc = "down"
  /\ boots < MaxBoots
  /\ boots' = boots + 1
  /\ pc' = "idle"
  /\ UNCHANGED <<environment, cycle, ledger, rows, faults>>

(* A sighted sweep: take the heartbeat in force, the instant and the       *)
(* snapshot.  A blind cycle attests nothing at all.                        *)
Sweep ==
  /\ pc = "idle"
  /\ sighted
  /\ pc' = "signing"
  /\ seen' = world
  /\ began' = now
  /\ beat' \in Lowest .. Highest
  /\ todo' = Present(world)
  /\ missed' = {}
  /\ UNCHANGED <<environment, ledger, rows, faults, boots>>

Skip(t) ==
  /\ ~Due(t)
  /\ UNCHANGED <<missed, ledger, rows, faults>>

\* The row is stamped when it is signed, and expires by the cycle's instant.
Sign(t) ==
  /\ Due(t)
  /\ rows' = [rows EXCEPT ![t] =
                Append(@, [score |-> Score(seen[t]), at |-> began, asserted |-> now,
                           until |-> ValidUntil(began, beat), boot |-> boots])]
  /\ ledger' = [ledger EXCEPT ![t] = [score |-> Score(seen[t]), at |-> began]]
  /\ UNCHANGED <<missed, faults>>

\* Fault for testing LedgerTellsHead: the ledger is updated on failure as well.
SignFailsQuietly(t) ==
  /\ Due(t)
  /\ faults < MaxFaults
  /\ faults' = faults + 1
  /\ missed' = missed \union {t}
  /\ ledger' = [ledger EXCEPT ![t] = [score |-> Score(seen[t]), at |-> began]]
  /\ UNCHANGED rows

SignFails(t) ==
  /\ Due(t)
  /\ faults < MaxFaults
  /\ faults' = faults + 1
  /\ missed' = missed \union {t}
  /\ UNCHANGED <<ledger, rows>>

(* emit_observations: one target after another, whatever befalls the rest. *)
Consider ==
  /\ pc = "signing"
  /\ \E t \in todo :
       /\ todo' = todo \ {t}
       /\ Skip(t) \/ Sign(t) \/ SignFails(t)
  /\ UNCHANGED <<environment, pc, seen, began, beat, boots>>

Signed ==
  /\ pc = "signing"
  /\ todo = {}
  /\ pc' = "pruning"
  /\ UNCHANGED <<environment, cycle, ledger, rows, faults, boots>>

\* prune_own_observations: older than the window, expired or not.
PastWindow(r) == r.asserted < now - Window

(* prune_corpus, one row: the oldest about some target.                    *)
Prune ==
  /\ pc = "pruning"
  /\ \E t \in Target :
       /\ rows[t] # << >>
       /\ PastWindow(Head(rows[t]))
       /\ rows' = [rows EXCEPT ![t] = Tail(@)]
  /\ UNCHANGED <<environment, pc, cycle, ledger, faults, boots>>

(* The cycle ends, whether or not its pass was due or had a budget left.   *)
EndCycle ==
  /\ pc = "pruning"
  /\ pc' = "idle"
  /\ UNCHANGED <<environment, cycle, ledger, rows, faults, boots>>

Crash ==
  /\ pc # "down"
  /\ boots < MaxBoots
  /\ pc' = "down"
  /\ seen' = Nowhere /\ todo' = {} /\ missed' = {}
  /\ ledger' = [t \in Target |-> Never]
  /\ UNCHANGED <<environment, began, beat, rows, faults, boots>>

Tick ==
  /\ now < MaxTime
  /\ now' = now + 1
  /\ UNCHANGED <<world, sighted, changes, pc, cycle, ledger, rows, faults, boots>>

(* A target's verdict changes, it enters or leaves the configuration or    *)
(* the report of whoever told us of it, or our own uplink goes or returns. *)
WorldChanges ==
  /\ changes < MaxChanges
  /\ changes' = changes + 1
  /\ \/ \E t \in Target, s \in Verdicts :
          s # world[t] /\ world' = [world EXCEPT ![t] = s] /\ UNCHANGED sighted
     \/ sighted' = ~sighted /\ UNCHANGED world
  /\ UNCHANGED <<now, pc, cycle, ledger, rows, faults, boots>>

Cycle == Sweep \/ Consider \/ Signed \/ EndCycle

Next == Start \/ Cycle \/ Prune \/ Crash \/ Tick \/ WorldChanges

(* The supervisor restarts the container and the interval keeps ticking.   *)
Fairness == WF_vars(Start) /\ WF_vars(Cycle)

Spec == Init /\ [][Next]_vars
FairSpec == Spec /\ Fairness

-----------------------------------------------------------------------------
(* Properties.                                                             *)

RowType ==
  [score : -1 .. 1, at : 0 .. MaxTime, asserted : 0 .. MaxTime,
   until : Nat, boot : 1 .. MaxBoots]

TypeOK ==
  /\ now \in 0 .. MaxTime
  /\ world \in Snapshot
  /\ sighted \in BOOLEAN
  /\ pc \in {"down", "idle", "signing", "pruning"}
  /\ seen \in Snapshot
  /\ began \in 0 .. now
  /\ beat \in Lowest .. Highest
  /\ todo \subseteq Present(seen)
  /\ missed \subseteq Present(seen)
  /\ ledger \in [Target -> [score : -1 .. 1, at : -1 .. MaxTime]]
  /\ rows \in [Target -> Seq(RowType)]
  /\ changes \in 0 .. MaxChanges
  /\ faults \in 0 .. MaxFaults
  /\ boots \in 0 .. MaxBoots

(* How long after a cycle began its targets are sure to stay visible.  A   *)
(* row skipped as recent may be almost Highest old, and lasts until it     *)
(* expires or until retention takes it, whichever comes first: the two     *)
(* settings are independent, and retention goes by age alone.  When the    *)
(* heartbeat is never changed and rows are kept for two, this is a whole   *)
(* heartbeat ("one missed beat should degrade freshness, not blank the     *)
(* subject", emit_observations).                                           *)
Lasts == IF 2 * Lowest <= Window + 1 THEN 2 * Lowest ELSE Window + 1
Margin == Lasts - Highest

Vouches(r, t) == r.score = Score(seen[t]) /\ r.until > began + Margin

(* Once a sighted cycle has signed, and through whatever comes until the   *)
(* next one (blindness, retention, other targets' failures), the newest    *)
(* row about each target it saw and did not fail to sign tells the verdict *)
(* it saw, and outlives the margin: neither its expiry nor a window set    *)
(* shorter than a row's validity takes it away sooner.                     *)
SeenIsVisible ==
  (pc \in {"pruning", "idle"} /\ now <= began + Margin) =>
    \A t \in Present(seen) \ missed :
      rows[t] # << >> /\ Vouches(Last(rows[t]), t)

(* What the process remembers having written about a target is what the    *)
(* corpus says last about it, or has since fallen out of the window and    *)
(* been removed: no failure leaves the ledger claiming a row that was      *)
(* never written, and no retention takes what was written last too soon.   *)
LedgerTellsHead ==
  \A t \in Target : ledger[t] # Never =>
    \/ rows[t] = << >> /\ now > ledger[t].at + Window
    \/ /\ rows[t] # << >>
       /\ Last(rows[t]).score = ledger[t].score
       /\ Last(rows[t]).at = ledger[t].at
       /\ Last(rows[t]).boot = boots

(* One process says the same thing twice about a target only a heartbeat   *)
(* apart ("re-signing an unchanged verdict is not new evidence", emit_due). *)
RepeatsAreSpaced ==
  \A t \in Target : \A i \in 1 .. Len(rows[t]) - 1 :
    LET r == rows[t][i]
        q == rows[t][i + 1]
    IN r.boot = q.boot /\ r.score = q.score => q.at - r.at >= Lowest

(* Once the world stops changing and nothing fails, the newest row about   *)
(* every target present tells its verdict, unless the node went blind.     *)
NewsArrives ==
  <>[](sighted => \A t \in Present(world) :
         rows[t] # << >> /\ Last(rows[t]).score = Score(world[t]))
=============================================================================
