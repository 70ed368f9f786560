------------------------------- MODULE Roster -------------------------------
(***************************************************************************)
(* Flow A (src/roster.rs): build_roster pages through the capacity scores  *)
(* of the corpus that are valid when it begins, while detectors go on      *)
(* writing, and project_rows folds what it read into one entry per agent.  *)
(* The cache keeps the last roster built, however old, and readers judge   *)
(* by the entry's valid_until.  Whether list_scores lists the oldest or    *)
(* the newest row first is the node's affair, and both are modelled.       *)
(***************************************************************************)
EXTENDS Naturals, Sequences, FiniteSetsExt

CONSTANTS
  Offers,    \* what detectors may write: [agent, leaf, version, score, life, stated]
  None,      \* no number, or no end
  PageSize,  \* rows in a page (500)
  MaxNow,    \* bound: the end of time
  MaxRows,   \* bound: rows of the corpus
  MaxBuilds  \* bound: rosters begun

Version == {"", ":v1", ":v2"}
Offer == [agent : STRING, leaf : STRING, version : Version, score : Nat \union {None},
          life : Nat \union {None}, stated : BOOLEAN]
ASSUME RosterAssumption ==
  /\ None \notin Nat /\ Offers \subseteq Offer /\ PageSize \in Nat \ {0}
  /\ MaxNow \in Nat /\ MaxRows \in Nat /\ MaxBuilds \in Nat

VARIABLES
  now,     \* the clock
  order,   \* "oldest" or "newest": what list_scores lists first
  scores,  \* the corpus, in the order it was written
  phase,   \* "idle" or "reading"
  asOf,    \* the filter's valid_at
  cursor,  \* the row the last page ended with, 0 before the first
  read,    \* the rows read by the build that is running
  owed,    \* the rows that were valid when it began (history variable)
  entries, \* the roster that is served, by agent
  made,    \* what that roster was made from (history variable)
  builds   \* the bounded counter

building == <<phase, asOf, cursor, read, owed>>
vars == <<now, order, scores, building, entries, made, builds>>

\* An attestation, numbered as it was written.
Row == [id : Nat, agent : STRING, leaf : STRING, version : Version, score : Nat \union {None},
        expires : Nat \union {None}, stated : Nat \union {None}]
Elements(s) == {s[i] : i \in DOMAIN s}
Valid(row, t) == row.expires = None \/ row.expires > t

-----------------------------------------------------------------------------
(* list_scores, as build_roster uses it: the rows valid at a moment, from  *)
(* the cursor on, and a cursor as long as more follow.                     *)

Before(i, j) == IF order = "oldest" THEN i < j ELSE j < i
Pending ==
  {row \in Elements(scores) : Valid(row, asOf) /\ (cursor = 0 \/ Before(cursor, row.id))}
Rank(row) == Cardinality({other \in Pending : ~Before(row.id, other.id)})
Page ==
  [n \in 1 .. Min({PageSize, Cardinality(Pending)}) |-> CHOOSE row \in Pending : Rank(row) = n]
\* Fault for testing EveryRowIsRead: a page that is not empty is taken for the last.
AnyPage == TRUE
LastPage == Cardinality(Pending) <= PageSize

-----------------------------------------------------------------------------
(* project_rows: the rows about an agent, by their places.                 *)

About(rows, agent) == {n \in DOMAIN rows : rows[n].agent = agent}
\* The version segment of a dimension does not count (strip_version).
Leaf(row) == row.leaf
Composites(rows, agent) == {n \in About(rows, agent) : Leaf(rows[n]) = "composite"}
\* A composite without a number empties the field; a factor without one is passed over.
\* Fault for testing NewestIsShown: the first composite stays.
CompositeFirst(rows, agent) ==
  LET at == Composites(rows, agent) IN IF at = {} THEN None ELSE rows[Min(at)].score
Composite(rows, agent) ==
  LET at == Composites(rows, agent) IN IF at = {} THEN None ELSE rows[Max(at)].score
Numbers(rows, agent, leaf) ==
  {n \in About(rows, agent) : Leaf(rows[n]) = leaf /\ rows[n].score # None}
Factors(rows, agent) ==
  LET leaves == {Leaf(rows[n]) : n \in About(rows, agent)} \ {"composite"}
  IN [leaf \in {l \in leaves : Numbers(rows, agent, l) # {}} |-> rows[Max(Numbers(rows, agent, leaf))].score]
\* The envelope's own valid_until, or else the row's expiry.
Until(row) == IF row.stated # None THEN row.stated ELSE row.expires
Bounds(rows, agent) == {Until(rows[n]) : n \in About(rows, agent)} \ {None}
\* Fault for testing ShownIsBacked: the latest bound is kept.
FreshnessLatest(rows, agent) ==
  IF Bounds(rows, agent) = {} THEN None ELSE Max(Bounds(rows, agent))
Freshness(rows, agent) == IF Bounds(rows, agent) = {} THEN None ELSE Min(Bounds(rows, agent))

Project(rows) ==
  [agent \in {row.agent : row \in Elements(rows)} |->
     [composite |-> Composite(rows, agent), factors |-> Factors(rows, agent),
      until |-> Freshness(rows, agent)]]

-----------------------------------------------------------------------------
BackToIdle == phase' = "idle" /\ asOf' = 0 /\ cursor' = 0 /\ read' = << >> /\ owed' = {}

Init ==
  /\ now = 0
  /\ order \in {"oldest", "newest"}
  /\ scores = << >>
  /\ phase = "idle" /\ asOf = 0 /\ cursor = 0 /\ read = << >> /\ owed = {}
  /\ entries = << >>
  /\ made = [asOf |-> 0, owed |-> {}, rows |-> << >>]
  /\ builds = 0

(* A detector's row arrives.  An envelope that states its end states the   *)
(* expiry of the row.                                                      *)
Write ==
  /\ Len(scores) < MaxRows
  /\ \E o \in Offers :
       LET expires == IF o.life = None THEN None ELSE now + o.life
       IN scores' = Append(scores,
            [id |-> Len(scores) + 1, agent |-> o.agent, leaf |-> o.leaf, version |-> o.version,
             score |-> o.score, expires |-> expires, stated |-> IF o.stated THEN expires ELSE None])
  /\ UNCHANGED <<now, order, building, entries, made, builds>>

Begin ==
  /\ phase = "idle"
  /\ builds < MaxBuilds
  /\ builds' = builds + 1
  /\ phase' = "reading"
  /\ asOf' = now
  /\ cursor' = 0
  /\ read' = << >>
  /\ owed' = {row \in Elements(scores) : Valid(row, now)}
  /\ UNCHANGED <<now, order, scores, entries, made>>

ReadPage ==
  /\ phase = "reading"
  /\ ~LastPage
  /\ read' = read \o Page
  /\ cursor' = Page[Len(Page)].id
  /\ UNCHANGED <<now, order, scores, phase, asOf, owed, entries, made, builds>>

(* The last page, the fold and RosterCache::replace.                       *)
Finish ==
  /\ phase = "reading"
  /\ LastPage
  /\ entries' = Project(read \o Page)
  /\ made' = [asOf |-> asOf, owed |-> owed, rows |-> read \o Page]
  /\ BackToIdle
  /\ UNCHANGED <<now, order, scores, builds>>

(* A page cannot be read: the build is given up and the old roster stays.  *)
PageFails ==
  /\ phase = "reading"
  /\ BackToIdle
  /\ UNCHANGED <<now, order, scores, entries, made, builds>>

(* The process is killed and starts again with an empty roster.            *)
Restart ==
  /\ BackToIdle
  /\ entries' = << >>
  /\ made' = [asOf |-> 0, owed |-> {}, rows |-> << >>]
  /\ UNCHANGED <<now, order, scores, builds>>

Tick ==
  /\ now < MaxNow
  /\ now' = now + 1
  /\ UNCHANGED <<order, scores, building, entries, made, builds>>

Next == Write \/ Begin \/ ReadPage \/ Finish \/ PageFails \/ Restart \/ Tick

Spec == Init /\ [][Next]_vars

-----------------------------------------------------------------------------
(* Properties.                                                             *)

\* The types, but for the entries, which are made of rows.
TypeOK ==
  /\ now \in Nat /\ order \in {"oldest", "newest"} /\ scores \in Seq(Row)
  /\ phase \in {"idle", "reading"} /\ asOf \in Nat /\ cursor \in Nat
  /\ read \in Seq(Row) /\ owed \subseteq Row
  /\ made \in [asOf : Nat, owed : SUBSET Row, rows : Seq(Row)]
  /\ builds \in Nat

(* While an entry claims to be valid, each number it shows is that of a    *)
(* row that still is, however long ago the roster was built ("the earliest *)
(* valid_until as the entry's freshness bound", project_rows).             *)
ShownIsBacked ==
  \A a \in DOMAIN entries :
    LET shown == entries[a]
        backed(leaf, score) ==
          \E row \in Elements(scores) :
            row.agent = a /\ row.leaf = leaf /\ row.score = score /\ Valid(row, now)
    IN (shown.until = None \/ shown.until > now) =>
         /\ shown.composite # None => backed("composite", shown.composite)
         /\ \A leaf \in DOMAIN shown.factors : backed(leaf, shown.factors[leaf])

(* A roster is made from every row that was valid when its build began,    *)
(* none twice, and from no row that was not, though rows are written       *)
(* between two pages (build_roster).                                       *)
EveryRowIsRead ==
  /\ made.owed \subseteq Elements(made.rows)
  /\ Cardinality(Elements(made.rows)) = Len(made.rows)
  /\ \A row \in Elements(made.rows) : Valid(row, made.asOf)

(* If the corpus lists the oldest first, the composite shown is the newest *)
(* that was read, whatever its version ("Keeps the newest composite per    *)
(* agent", project_rows).                                                  *)
NewestIsShown ==
  order = "oldest" =>
    \A a \in DOMAIN entries :
      \A row \in Elements(made.rows) :
        (/\ row.agent = a /\ row.leaf = "composite"
         /\ \A other \in Elements(made.rows) :
              (other.agent = a /\ other.leaf = "composite") => other.id <= row.id)
          => entries[a].composite = row.score
=============================================================================
