----------------------------- MODULE FlowAProofs -----------------------------
(***************************************************************************)
(* Flow A, from the corpus to the screens.  The roster: for any number of  *)
(* pages, either direction of listing and rows written at any moment, it   *)
(* is made from every row that was valid when its build began, each once,  *)
(* and what it shows is backed by rows that are as valid as it claims.     *)
(* The live feed: for any number of viewers and any capacity of the        *)
(* channel, the roster on a screen never goes back; what waits for a       *)
(* viewer is never older than what it shows, never newer than the cache,   *)
(* and in order; and neither the lag of a slow reader nor the gap between  *)
(* greeting and subscription can disturb that.                             *)
(***************************************************************************)
EXTENDS Roster, LiveFeed, FiniteSetTheorems, SequenceTheorems, WellFoundedInduction, TLAPS

(* What the roster rests on: the scores are numbered as they were written, *)
(* what was read is valid and in order and ends at the cursor, and nothing *)
(* owed lies behind the cursor unread.                                     *)
Sorted(rows) == \A m, n \in DOMAIN rows : m < n => Before(rows[m].id, rows[n].id)
ScoresNumbered ==
  \A i \in DOMAIN scores :
    scores[i].id = i /\ scores[i].stated \in {None, scores[i].expires}
ReadSoFar ==
  /\ asOf <= now
  /\ Elements(read) \subseteq Elements(scores) /\ owed \subseteq Elements(scores)
  /\ Sorted(read)
  /\ \A row \in Elements(read) \union owed : Valid(row, asOf)
  /\ cursor = 0 => read = << >>
  /\ cursor # 0 => read # << >> /\ cursor = read[Len(read)].id
  /\ \A row \in owed \ Elements(read) : cursor = 0 \/ Before(cursor, row.id)
  /\ phase = "idle" => read = << >> /\ owed = {} /\ cursor = 0
MadeOfRows ==
  /\ made.asOf <= now
  /\ Elements(made.rows) \subseteq Elements(scores)
  /\ Sorted(made.rows)
  /\ \A row \in Elements(made.rows) : Valid(row, made.asOf)
  /\ made.owed \subseteq Elements(made.rows)
  /\ DOMAIN entries = {} \/ entries = Project(made.rows)
IInv == TypeOK /\ ScoresNumbered /\ ReadSoFar /\ MadeOfRows

-----------------------------------------------------------------------------
(* Pages.                                                                  *)

(* A listing has a direction (list_scores).                                *)
LEMMA BeforeIsOrder ==
  ASSUME NEW i \in Nat, NEW j \in Nat
  PROVE  /\ ~Before(i, i) /\ (Before(i, j) => ~Before(j, i)) /\ (i # j => Before(i, j) \/ Before(j, i))
         /\ \A k \in Nat : Before(i, j) /\ Before(j, k) => Before(i, k)
  BY DEF Before

(* The length of a page.                                                   *)
LEMMA SmallerOfTwo ==
  ASSUME NEW a \in Nat, NEW b \in Nat
  PROVE  Min({a, b}) = IF a <= b THEN a ELSE b
<1> DEFINE m == IF a <= b THEN a ELSE b
<1>1. m \in {a, b} /\ \A y \in {a, b} : m <= y
  OBVIOUS
<1>2. \A x \in {a, b} : (\A y \in {a, b} : x <= y) => x = m
  OBVIOUS
<1> QED
  BY <1>1, <1>2 DEF Min

(* The rows still to be listed are finitely many, each with its number.    *)
LEMMA PendingIsFinite ==
  ASSUME TypeOK, ScoresNumbered
  PROVE  /\ IsFiniteSet(Pending) /\ Pending \subseteq Row
         /\ \A q, r \in Elements(scores) : q.id = r.id => q = r
<1>1. scores \in Seq(Row)
  BY DEF TypeOK
<1>2. DOMAIN scores = 1 .. Len(scores) /\ Len(scores) \in Nat
  BY <1>1
<1>3. scores \in Surjection(1 .. Len(scores), Elements(scores))
  BY <1>1, <1>2 DEF Surjection, Elements
<1>4. IsFiniteSet(1 .. Len(scores))
  BY <1>2, FS_Interval
<1>5. IsFiniteSet(Elements(scores))
  BY <1>3, <1>4, FS_Surjection
<1>6. IsFiniteSet(Pending)
  BY <1>5, FS_Subset DEF Pending
<1>7. Elements(scores) \subseteq Row
  BY <1>1, <1>2 DEF Elements
<1>8. \A q, r \in Elements(scores) : q.id = r.id => q = r
  BY DEF Elements, ScoresNumbered
<1> QED
  BY <1>6, <1>7, <1>8 DEF Pending

(* The rank of a row is its place in the listing.                          *)
LEMMA RanksGrow ==
  ASSUME TypeOK, ScoresNumbered, NEW q \in Pending, NEW r \in Pending, Before(q.id, r.id)
  PROVE  Rank(q) < Rank(r)
<1> DEFINE Q == {x \in Pending : ~Before(q.id, x.id)}
           R == {x \in Pending : ~Before(r.id, x.id)}
<1>1. IsFiniteSet(Pending) /\ Pending \subseteq Row
  BY PendingIsFinite
<1>2. \A x \in Pending : x.id \in Nat
  BY <1>1 DEF Row
<1>3. Q \subseteq R /\ r \in R /\ r \notin Q
  BY <1>2, BeforeIsOrder
<1>4. IsFiniteSet(R) /\ IsFiniteSet(Q)
  BY <1>1, FS_Subset
<1> HIDE DEF Q, R
<1>5. Cardinality(Q) <= Cardinality(R) /\ Cardinality(Q) # Cardinality(R)
  BY <1>3, <1>4, FS_Subset
<1>6. Cardinality(Q) \in Nat /\ Cardinality(R) \in Nat
  BY <1>4, FS_CardinalityType
<1>7. Cardinality(Q) < Cardinality(R)
  BY <1>5, <1>6
<1> QED
  BY <1>7 DEF Rank, Q, R

(* A pending row's rank is its place in what is still to be listed.        *)
LEMMA RankBounds ==
  ASSUME TypeOK, ScoresNumbered, NEW r \in Pending
  PROVE  Rank(r) \in 1 .. Cardinality(Pending)
<1> DEFINE R == {x \in Pending : ~Before(r.id, x.id)}
<1>1. IsFiniteSet(Pending) /\ r.id \in Nat
  BY PendingIsFinite DEF Row
<1>2. R \subseteq Pending /\ r \in R
  BY <1>1, BeforeIsOrder
<1> HIDE DEF R
<1>3. IsFiniteSet(R) /\ Cardinality(R) <= Cardinality(Pending)
  BY <1>1, <1>2, FS_Subset
<1>4. Cardinality(R) \in Nat /\ Cardinality(Pending) \in Nat /\ Cardinality(R) # 0
  BY <1>1, <1>2, <1>3, FS_CardinalityType, FS_EmptySet
<1> QED
  BY <1>3, <1>4 DEF Rank, R

(* Every place in the listing is taken by one row.                         *)
LEMMA PlacesAreTaken ==
  ASSUME TypeOK, ScoresNumbered, NEW n \in 1 .. Cardinality(Pending)
  PROVE  \E r \in Pending : Rank(r) = n
<1> DEFINE c == Cardinality(Pending)
           rank == [r \in Pending |-> Rank(r)]
<1>1. IsFiniteSet(Pending) /\ c \in Nat /\ \A q, r \in Pending : q # r => q.id # r.id
  BY PendingIsFinite, FS_CardinalityType DEF Pending
<1>2. rank \in [Pending -> 1 .. c]
  BY RankBounds
<1>3. \A q, r \in Pending : rank[q] \in Nat /\ (q # r => rank[q] # rank[r])
  <2> SUFFICES ASSUME NEW q \in Pending, NEW r \in Pending
               PROVE  rank[q] \in Nat /\ (q # r => rank[q] # rank[r])
    OBVIOUS
  <2>1. q.id \in Nat /\ r.id \in Nat
    BY PendingIsFinite DEF Row
  <2>2. q # r => Before(q.id, r.id) \/ Before(r.id, q.id)
    BY <1>1, <2>1, BeforeIsOrder
  <2>3. Rank(q) \in Nat /\ Rank(r) \in Nat
    BY <1>2
  <2>4. q # r => Rank(q) < Rank(r) \/ Rank(r) < Rank(q)
    BY <2>2, RanksGrow
  <2> QED
    BY <2>3, <2>4
<1>4. IsFiniteSet(1 .. c) /\ Cardinality(1 .. c) = c
  BY <1>1, FS_Interval
<1> HIDE DEF rank
<1>5. rank \in Injection(Pending, 1 .. c)
  BY <1>2, <1>3 DEF Injection, IsInjective
<1>6. rank \in Surjection(Pending, 1 .. c)
  BY <1>4, <1>5, FS_Injection
<1>7. \E r \in Pending : rank[r] = n
  BY <1>6 DEF Surjection
<1> QED
  BY <1>7 DEF rank

(* A page is the beginning of the listing: in order, without a gap, and    *)
(* the last one lists all that is left (list_scores).                      *)
LEMMA PageIsNext ==
  ASSUME TypeOK, ScoresNumbered
  PROVE  /\ Page \in Seq(Row) /\ Elements(Page) \subseteq Pending /\ Sorted(Page)
         /\ LastPage => Elements(Page) = Pending
         /\ ~LastPage => /\ Page # << >> /\ Len(Page) \in 1 .. Len(Page)
                         /\ \A r \in Pending \ Elements(Page) : Before(Page[Len(Page)].id, r.id)
<1> DEFINE c == Cardinality(Pending)
           len == Min({PageSize, c})
<1>1. c \in Nat /\ PageSize \in Nat /\ PageSize > 0 /\ Pending \subseteq Row
  BY PendingIsFinite, FS_CardinalityType, RosterAssumption
<1>2. len = (IF PageSize <= c THEN PageSize ELSE c)
  BY <1>1, SmallerOfTwo
<1>3. len \in Nat /\ len <= c /\ (LastPage => len = c) /\ (~LastPage => len > 0 /\ len < c)
  BY <1>1, <1>2 DEF LastPage
<1>4. \A n \in 1 .. len : Page[n] \in Pending /\ Rank(Page[n]) = n
  <2> SUFFICES ASSUME NEW n \in 1 .. len
               PROVE  Page[n] \in Pending /\ Rank(Page[n]) = n
    OBVIOUS
  <2>1. Page[n] = CHOOSE row \in Pending : Rank(row) = n
    BY DEF Page
  <2>2. n \in 1 .. c
    BY <1>1, <1>3
  <2> QED
    BY <2>1, <2>2, PlacesAreTaken
<1>5. DOMAIN Page = 1 .. len
  BY DEF Page
<1> HIDE DEF len, c
<1>6. Page \in Seq(Row) /\ Len(Page) = len
  <2>1. Page = [n \in 1 .. len |-> Page[n]]
    BY <1>5 DEF Page, len, c
  <2> QED
    BY <1>1, <1>3, <1>4, <2>1
<1>7. \A q, r \in Pending : Rank(q) < Rank(r) => Before(q.id, r.id)
  <2> SUFFICES ASSUME NEW q \in Pending, NEW r \in Pending, Rank(q) < Rank(r)
               PROVE  Before(q.id, r.id)
    OBVIOUS
  <2>1. q.id \in Nat /\ r.id \in Nat /\ Rank(q) \in Nat /\ Rank(r) \in Nat
    BY <1>1, RankBounds DEF Row
  <2>2. q.id # r.id
    <3>1. q.id = r.id => q = r
      BY PendingIsFinite DEF Pending
    <3> QED
      BY <2>1, <3>1
  <2>3. Before(r.id, q.id) => Rank(r) < Rank(q)
    BY RanksGrow
  <2> QED
    BY <2>1, <2>2, <2>3, BeforeIsOrder
<1>8. Sorted(Page)
  BY <1>4, <1>5, <1>7 DEF Sorted
<1>9. Elements(Page) \subseteq Pending
  BY <1>4, <1>5 DEF Elements
<1>10. \A r \in Pending \ Elements(Page) : Rank(r) \in Nat /\ Rank(r) > len /\ Rank(r) <= c
  <2> SUFFICES ASSUME NEW r \in Pending \ Elements(Page) PROVE Rank(r) \in Nat /\ Rank(r) > len /\ Rank(r) <= c
    OBVIOUS
  <2>1. Rank(r) \in 1 .. c
    BY RankBounds DEF c
  <2>2. CASE Rank(r) <= len
    <3> DEFINE n == Rank(r)
    <3>1. n \in 1 .. len
      BY <1>1, <1>3, <2>1, <2>2
    <3>2. Page[n] \in Pending /\ Rank(Page[n]) = n /\ Page[n] \in Elements(Page)
      BY <1>4, <1>5, <3>1 DEF Elements
    <3>3. Page[n].id \in Nat /\ r.id \in Nat /\ Page[n] # r
      BY <1>1, <3>2 DEF Row
    <3>4. Page[n].id # r.id
      BY <3>2, <3>3, PendingIsFinite DEF Pending
    <3>5. Rank(Page[n]) < Rank(r) \/ Rank(r) < Rank(Page[n])
      BY <3>2, <3>3, <3>4, BeforeIsOrder, RanksGrow
    <3> QED
      BY <2>1, <3>2, <3>5
  <2> QED
    BY <1>1, <1>3, <2>1, <2>2
<1>11. LastPage => Elements(Page) = Pending
  BY <1>1, <1>3, <1>9, <1>10
<1>12. ASSUME ~LastPage, NEW r \in Pending \ Elements(Page) PROVE Before(Page[len].id, r.id)
  <2>1. len \in 1 .. len
    BY <1>3, <1>12
  <2> QED
    BY <1>3, <1>4, <1>7, <1>10, <1>12, <2>1
<1> QED
  BY <1>3, <1>6, <1>8, <1>9, <1>11, <1>12

(* The rows read and a page, one after the other (build_roster).           *)
LEMMA ConcatElements ==
  ASSUME NEW s \in Seq(Row), NEW t \in Seq(Row)
  PROVE  /\ s \o t \in Seq(Row) /\ Elements(s \o t) = Elements(s) \union Elements(t)
         /\ \A i \in DOMAIN (s \o t) : \/ i \in DOMAIN s /\ (s \o t)[i] = s[i]
                                       \/ i - Len(s) \in DOMAIN t /\ i > Len(s) /\ (s \o t)[i] = t[i - Len(s)]
<1>1. /\ s \o t \in Seq(Row)
      /\ DOMAIN (s \o t) = 1 .. Len(s) + Len(t) /\ DOMAIN s = 1 .. Len(s) /\ DOMAIN t = 1 .. Len(t)
      /\ Len(s) \in Nat /\ Len(t) \in Nat
      /\ \A i \in 1 .. Len(s) + Len(t) : (s \o t)[i] = IF i <= Len(s) THEN s[i] ELSE t[i - Len(s)]
  OBVIOUS
<1>2. \A i \in DOMAIN (s \o t) : \/ i \in DOMAIN s /\ (s \o t)[i] = s[i]
                                 \/ i - Len(s) \in DOMAIN t /\ i > Len(s) /\ (s \o t)[i] = t[i - Len(s)]
  BY <1>1
<1>3. \A i \in DOMAIN s : i \in DOMAIN (s \o t) /\ (s \o t)[i] = s[i]
  BY <1>1
<1>4. ASSUME NEW i \in DOMAIN t PROVE i + Len(s) \in DOMAIN (s \o t) /\ (s \o t)[i + Len(s)] = t[i]
  <2>1. i + Len(s) \in 1 .. Len(s) + Len(t) /\ ~(i + Len(s) <= Len(s)) /\ (i + Len(s)) - Len(s) = i
    BY <1>1
  <2> QED
    BY <1>1, <2>1
<1>5. Elements(s \o t) = Elements(s) \union Elements(t)
  <2>1. \A i \in DOMAIN (s \o t) : (s \o t)[i] \in Elements(s) \union Elements(t)
    BY <1>2 DEF Elements
  <2>2. \A i \in DOMAIN s : s[i] \in Elements(s \o t)
    BY <1>3 DEF Elements
  <2>3. \A i \in DOMAIN t : t[i] \in Elements(s \o t)
    BY <1>4 DEF Elements
  <2> QED
    BY <2>1, <2>2, <2>3 DEF Elements
<1> QED
  BY <1>1, <1>2, <1>5

(* What a page adds to what was read: in order, valid, beyond the cursor,  *)
(* and nothing between is skipped (build_roster).                          *)
LEMMA ReadOn ==
  ASSUME TypeOK, ScoresNumbered, ReadSoFar
  PROVE  LET rows == read \o Page IN
         /\ rows \in Seq(Row) /\ Elements(rows) = Elements(read) \union Elements(Page)
         /\ Elements(rows) \subseteq Elements(scores) /\ Sorted(rows)
         /\ \A row \in Elements(rows) : Valid(row, asOf)
         /\ owed \subseteq Elements(read) \union Pending
<1> DEFINE rows == read \o Page
<1>1. read \in Seq(Row) /\ cursor \in Nat
  BY DEF TypeOK
<1>2. Page \in Seq(Row) /\ Elements(Page) \subseteq Pending /\ Sorted(Page)
  BY PageIsNext
<1>3. /\ rows \in Seq(Row) /\ Elements(rows) = Elements(read) \union Elements(Page)
      /\ \A i \in DOMAIN rows : \/ i \in DOMAIN read /\ rows[i] = read[i]
                                \/ i - Len(read) \in DOMAIN Page /\ i > Len(read) /\ rows[i] = Page[i - Len(read)]
  BY <1>1, <1>2, ConcatElements
<1>4. Elements(rows) \subseteq Elements(scores) /\ \A row \in Elements(rows) : Valid(row, asOf)
  BY <1>2, <1>3 DEF ReadSoFar, Pending
<1>5. DOMAIN read = 1 .. Len(read) /\ Len(read) \in Nat /\ DOMAIN rows \subseteq Nat /\ DOMAIN Page \subseteq Nat
  BY <1>1, <1>2, <1>3
<1>6. \A m \in DOMAIN read : \A row \in Pending : Before(read[m].id, row.id)
  <2> SUFFICES ASSUME NEW m \in DOMAIN read, NEW row \in Pending PROVE Before(read[m].id, row.id)
    OBVIOUS
  <2> DEFINE last == read[Len(read)]
  <2>1. cursor # 0 /\ cursor = last.id /\ Before(cursor, row.id)
    BY <1>5 DEF ReadSoFar, Pending
  <2>2. m <= Len(read) /\ Len(read) \in DOMAIN read
    BY <1>5
  <2>3. m < Len(read) => Before(read[m].id, last.id)
    BY <2>2 DEF ReadSoFar, Sorted
  <2>4. read[m].id \in Nat /\ last.id \in Nat /\ row.id \in Nat
    <3>1. read[m] \in Row /\ last \in Row
      BY <1>1, <1>5, <2>2
    <3>2. row \in Row
      BY PendingIsFinite
    <3> QED
      BY <3>1, <3>2 DEF Row
  <2>5. m = Len(read) \/ m < Len(read)
    BY <1>5, <2>2
  <2> HIDE DEF last
  <2>6. CASE m < Len(read)
    BY <2>1, <2>3, <2>4, <2>6, BeforeIsOrder
  <2>7. CASE m = Len(read)
    BY <2>1, <2>7 DEF last
  <2> QED
    BY <2>5, <2>6, <2>7
<1>7. Sorted(rows)
  <2> SUFFICES ASSUME NEW m \in DOMAIN rows, NEW n \in DOMAIN rows, m < n
               PROVE  Before(rows[m].id, rows[n].id)
    BY DEF Sorted
  <2> HIDE DEF rows
  <2>1. CASE m \in DOMAIN read /\ rows[m] = read[m] /\ n \in DOMAIN read /\ rows[n] = read[n]
    BY <2>1 DEF ReadSoFar, Sorted
  <2>2. CASE m \in DOMAIN read /\ rows[m] = read[m] /\ n - Len(read) \in DOMAIN Page /\ rows[n] = Page[n - Len(read)]
    <3>1. rows[n] \in Pending
      BY <2>2, <1>2 DEF Elements
    <3> QED
      BY <2>2, <3>1, <1>6
  <2>3. CASE /\ m - Len(read) \in DOMAIN Page /\ rows[m] = Page[m - Len(read)]
             /\ n - Len(read) \in DOMAIN Page /\ rows[n] = Page[n - Len(read)]
    <3>1. m - Len(read) < n - Len(read)
      BY <1>5
    <3> QED
      BY <2>3, <3>1, <1>2 DEF Sorted
  <2>4. CASE m > Len(read) /\ n \in DOMAIN read
    BY <1>5, <2>4
  <2> QED
    BY <1>3, <2>1, <2>2, <2>3, <2>4
<1>8. owed \subseteq Elements(read) \union Pending
  BY DEF ReadSoFar, Pending
<1> QED
  BY <1>3, <1>4, <1>7, <1>8

-----------------------------------------------------------------------------
(* The steps.                                                              *)

(* The invariant of the roster, action by action.                          *)
LEMMA InitIInv == Init => IInv
<1> SUFFICES ASSUME Init PROVE IInv
  OBVIOUS
<1>1. TypeOK
  BY DEF Init, TypeOK
<1>2. Elements(<< >>) = {} /\ Sorted(<< >>) /\ DOMAIN entries = {} /\ DOMAIN scores = {}
  BY DEF Init, Elements, Sorted
<1>3. ScoresNumbered /\ ReadSoFar
  BY <1>2 DEF Init, ScoresNumbered, ReadSoFar
<1>4. MadeOfRows
  BY <1>2 DEF Init, MadeOfRows
<1> QED
  BY <1>1, <1>3, <1>4 DEF IInv

(* Detectors only ever add to the corpus.                                  *)
LEMMA WriteKeeps == IInv /\ Write => IInv'
<1> SUFFICES ASSUME IInv, Write PROVE IInv'
  OBVIOUS
<1>1. PICK row : /\ scores' = Append(scores, row) /\ row \in Row
                 /\ row.id = Len(scores) + 1 /\ row.stated \in {None, row.expires}
  <2>1. PICK o \in Offers :
          LET expires == IF o.life = None THEN None ELSE now + o.life
          IN scores' = Append(scores,
            [id |-> Len(scores) + 1, agent |-> o.agent, leaf |-> o.leaf, version |-> o.version,
             score |-> o.score, expires |-> expires, stated |-> IF o.stated THEN expires ELSE None])
    BY DEF Write
  <2> DEFINE expires == IF o.life = None THEN None ELSE now + o.life
             row == [id |-> Len(scores) + 1, agent |-> o.agent, leaf |-> o.leaf, version |-> o.version,
                     score |-> o.score, expires |-> expires, stated |-> IF o.stated THEN expires ELSE None]
  <2>2. o \in Offer /\ Len(scores) \in Nat /\ now \in Nat
    BY RosterAssumption DEF IInv, TypeOK
  <2>3. expires \in Nat \union {None}
    BY <2>2 DEF Offer
  <2> HIDE DEF expires
  <2>4. row \in Row /\ row.id = Len(scores) + 1 /\ row.stated \in {None, row.expires}
    BY <2>2, <2>3 DEF Row, Offer
  <2>5. scores' = Append(scores, row)
    BY <2>1 DEF expires
  <2> HIDE DEF row
  <2> QED
    BY <2>4, <2>5
<1>2. scores \in Seq(Row)
  BY DEF IInv, TypeOK
<1>3. scores' \in Seq(Row) /\ DOMAIN scores' = 1 .. Len(scores) + 1 /\ DOMAIN scores = 1 .. Len(scores)
      /\ Len(scores) \in Nat
      /\ \A i \in 1 .. Len(scores) : scores'[i] = scores[i]
      /\ scores'[Len(scores) + 1] = row
  BY <1>1, <1>2
<1>4. TypeOK'
  BY <1>3 DEF IInv, TypeOK, Write, building
<1>5. ScoresNumbered'
  BY <1>1, <1>3 DEF IInv, ScoresNumbered
<1>6. Elements(scores) \subseteq Elements(scores')
  BY <1>3 DEF Elements
<1>7. ReadSoFar'
  BY <1>6 DEF IInv, ReadSoFar, Write, building, Sorted, Before, Elements, Valid
<1>8. MadeOfRows'
  BY <1>6 DEF IInv, MadeOfRows, Write, Sorted, Before
<1> QED
  BY <1>4, <1>5, <1>7, <1>8 DEF IInv

\* Nothing is being read.
LEMMA IdleIsClean ==
  ASSUME now' \in Nat, BackToIdle PROVE ReadSoFar'
<1>1. Elements(<< >>) = {} /\ DOMAIN << >> = {}
  BY DEF Elements
<1> QED
  BY <1>1 DEF BackToIdle, ReadSoFar, Sorted, Elements

LEMMA BeginKeeps == IInv /\ Begin => IInv'
<1> SUFFICES ASSUME IInv, Begin PROVE IInv'
  OBVIOUS
<1>1. Elements(<< >>) = {} /\ DOMAIN << >> = {}
  BY DEF Elements
<1>2. Elements(scores) \subseteq Row
  BY DEF IInv, TypeOK, Elements
<1>3. TypeOK'
  BY <1>2 DEF IInv, TypeOK, Begin
<1>4. ScoresNumbered'
  BY DEF IInv, ScoresNumbered, Begin
<1>5. ReadSoFar'
  BY <1>1, <1>3 DEF IInv, TypeOK, ReadSoFar, Begin, Sorted, Valid, Elements
<1>6. MadeOfRows'
  BY DEF IInv, MadeOfRows, Begin, Sorted, Before
<1> QED
  BY <1>3, <1>4, <1>5, <1>6 DEF IInv

(* A page is read from where the last one ended (build_roster).            *)
LEMMA ReadPageKeeps == IInv /\ ReadPage => IInv'
<1> SUFFICES ASSUME IInv, ReadPage PROVE IInv'
  OBVIOUS
<1> DEFINE rows == read \o Page
           last == Page[Len(Page)]
<1>1. /\ rows \in Seq(Row) /\ Elements(rows) = Elements(read) \union Elements(Page)
      /\ Elements(rows) \subseteq Elements(scores) /\ Sorted(rows)
      /\ \A row \in Elements(rows) : Valid(row, asOf)
      /\ owed \subseteq Elements(read) \union Pending
  BY ReadOn DEF IInv
<1>2. /\ Page \in Seq(Row) /\ Page # << >> /\ Len(Page) \in 1 .. Len(Page)
      /\ \A r \in Pending \ Elements(Page) : Before(last.id, r.id)
  BY PageIsNext DEF IInv, ReadPage
<1>3. read' = rows /\ cursor' = last.id /\ UNCHANGED <<now, order, scores, phase, asOf, owed, entries, made, builds>>
  BY DEF ReadPage
<1>4. last \in Elements(Page) /\ last \in Elements(scores)
  <2>1. Len(Page) \in DOMAIN Page
    BY <1>2
  <2>2. last \in Elements(Page)
    BY <2>1 DEF Elements
  <2> QED
    BY <1>1, <2>2
<1>5. last.id \in Nat /\ last.id # 0
  BY <1>4 DEF IInv, ScoresNumbered, TypeOK, Elements, Row
<1>6. rows # << >> /\ rows[Len(rows)] = last
  <2>1. read \in Seq(Row)
    BY DEF IInv, TypeOK
  <2> QED
    BY <1>2, <2>1
<1> HIDE DEF rows, last
<1>7. TypeOK'
  BY <1>1, <1>3, <1>5 DEF IInv, TypeOK
<1>8. ScoresNumbered'
  BY <1>3 DEF IInv, ScoresNumbered
<1>9. MadeOfRows'
  BY <1>3 DEF IInv, MadeOfRows, Sorted, Before
<1>10. ReadSoFar'
  <2>2. Elements(read)' = Elements(rows) /\ Elements(scores)' = Elements(scores)
    BY <1>3 DEF Elements
  <2>3. \A row \in Elements(rows) \union owed : Valid(row, asOf)
    BY <1>1 DEF IInv, ReadSoFar
  <2>4. \A row \in owed \ Elements(rows) : Before(last.id, row.id)
    BY <1>1, <1>2
  <2>5. Sorted(read)'
    BY <1>1, <1>3 DEF Sorted, Before
  <2>6. \A row \in (owed \ Elements(read))' : Before(cursor, row.id)'
    BY <2>2, <2>4, <1>3 DEF Before
  <2>7. \A row \in (Elements(read) \union owed)' : Valid(row, asOf)'
    BY <2>2, <2>3, <1>3 DEF Valid
  <2>8. asOf' <= now' /\ (phase' = "reading")
    BY <1>3 DEF IInv, ReadSoFar, ReadPage
  <2>9. Elements(read)' \subseteq Elements(scores)' /\ owed' \subseteq Elements(scores)'
    BY <2>2, <1>1, <1>3 DEF IInv, ReadSoFar
  <2>10. cursor' # 0 /\ read' # << >> /\ cursor' = read'[Len(read')].id
    BY <1>3, <1>5, <1>6
  <2> QED
    BY <2>2, <2>5, <2>6, <2>7, <2>8, <2>9, <2>10 DEF ReadSoFar
<1> QED
  BY <1>7, <1>8, <1>9, <1>10 DEF IInv

(* The last page completes what was owed (build_roster, replace).          *)
LEMMA FinishKeeps == IInv /\ Finish => IInv'
<1> SUFFICES ASSUME IInv, Finish PROVE IInv'
  OBVIOUS
<1> DEFINE rows == read \o Page
<1>1. /\ rows \in Seq(Row) /\ Elements(rows) = Elements(read) \union Elements(Page)
      /\ Elements(rows) \subseteq Elements(scores) /\ Sorted(rows)
      /\ \A row \in Elements(rows) : Valid(row, asOf)
      /\ owed \subseteq Elements(read) \union Pending
  BY ReadOn DEF IInv
<1>2. Elements(Page) = Pending
  BY PageIsNext DEF IInv, Finish
<1>3. /\ entries' = Project(rows) /\ made' = [asOf |-> asOf, owed |-> owed, rows |-> rows]
      /\ BackToIdle /\ UNCHANGED <<now, order, scores, builds>>
  BY DEF Finish
<1> HIDE DEF rows
<1>4. TypeOK'
  BY <1>1, <1>3 DEF IInv, TypeOK, BackToIdle
<1>5. ScoresNumbered'
  BY <1>3 DEF IInv, ScoresNumbered
<1>6. ReadSoFar'
  BY <1>4, <1>3, IdleIsClean DEF TypeOK
<1>7. MadeOfRows'
  <2>1. made'.asOf = asOf /\ made'.owed = owed /\ made'.rows = rows
    BY <1>3
  <2>3. Sorted(made.rows)'
    BY <1>1, <1>3, <2>1 DEF Sorted, Before
  <2>4. asOf <= now' /\ owed \subseteq Elements(rows)
    BY <1>1, <1>2, <1>3 DEF IInv, ReadSoFar
  <2>5. Elements(scores)' = Elements(scores) /\ Elements(made.rows)' = Elements(rows)
    BY <1>3, <2>1 DEF Elements
  <2> QED
    BY <1>1, <1>3, <2>1, <2>3, <2>4, <2>5 DEF MadeOfRows
<1> QED
  BY <1>4, <1>5, <1>6, <1>7 DEF IInv

(* What no step of the build touches stays as it is.                       *)
LEMMA ReadKept ==
  ASSUME ReadSoFar, UNCHANGED <<order, scores, phase, asOf, cursor, read, owed>>, asOf <= now'
  PROVE  ReadSoFar'
<1>1. Elements(read)' = Elements(read) /\ Elements(scores)' = Elements(scores)
  BY DEF Elements
<1>2. Sorted(read)'
  BY DEF ReadSoFar, Sorted, Before
<1>3. \A row \in Elements(read) \union owed : Valid(row, asOf)
  BY DEF ReadSoFar
<1>4. \A row \in owed \ Elements(read) : cursor = 0 \/ Before(cursor, row.id)
  BY DEF ReadSoFar
<1>5. \A row \in (owed \ Elements(read))' : (cursor = 0 \/ Before(cursor, row.id))'
  BY <1>1, <1>4 DEF Before
<1> QED
  BY <1>1, <1>2, <1>3, <1>5 DEF ReadSoFar, Valid

LEMMA NextKeeps == IInv /\ [Next]_vars => IInv'
<1> SUFFICES ASSUME IInv, [Next]_vars PROVE IInv'
  OBVIOUS
<1>1. CASE Write
  BY <1>1, WriteKeeps
<1>2. CASE Begin
  BY <1>2, BeginKeeps
<1>3. CASE ReadPage
  BY <1>3, ReadPageKeeps
<1>4. CASE Finish
  BY <1>4, FinishKeeps
<1>5. CASE PageFails
  <2>1. TypeOK' /\ ScoresNumbered'
    BY <1>5 DEF IInv, TypeOK, ScoresNumbered, PageFails, BackToIdle
  <2>2. ReadSoFar'
    BY <1>5, <2>1, IdleIsClean DEF TypeOK, PageFails
  <2>3. MadeOfRows'
    BY <1>5 DEF IInv, MadeOfRows, PageFails, Sorted, Before
  <2> QED
    BY <2>1, <2>2, <2>3 DEF IInv
<1>6. CASE Restart
  <2>1. TypeOK' /\ ScoresNumbered'
    BY <1>6 DEF IInv, TypeOK, ScoresNumbered, Restart, BackToIdle
  <2>2. ReadSoFar'
    BY <1>6, <2>1, IdleIsClean DEF TypeOK, Restart
  <2>3. Elements(<< >>) = {} /\ DOMAIN << >> = {}
    BY DEF Elements
  <2>4. MadeOfRows'
    BY <1>6, <2>1, <2>3 DEF MadeOfRows, Restart, Sorted, Elements, TypeOK
  <2> QED
    BY <2>1, <2>2, <2>4 DEF IInv
<1>7. CASE Tick
  <2>1. now \in Nat /\ now' \in Nat /\ now <= now' /\ asOf \in Nat /\ made.asOf \in Nat
    BY <1>7 DEF IInv, TypeOK, Tick
  <2>2. TypeOK' /\ ScoresNumbered'
    BY <1>7, <2>1 DEF IInv, TypeOK, ScoresNumbered, Tick, building
  <2>3. ReadSoFar'
    <3>1. UNCHANGED <<order, scores, phase, asOf, cursor, read, owed>>
      BY <1>7 DEF Tick, building
    <3>2. asOf <= now'
      BY <2>1 DEF IInv, ReadSoFar
    <3> QED
      BY <3>1, <3>2, ReadKept DEF IInv
  <2>4. MadeOfRows'
    BY <1>7, <2>1 DEF IInv, MadeOfRows, Tick, Sorted, Before
  <2> QED
    BY <2>2, <2>3, <2>4 DEF IInv
<1>8. CASE UNCHANGED vars
  <2>1. /\ UNCHANGED <<now, order, scores, phase, asOf, cursor, read, owed>>
        /\ UNCHANGED <<entries, made, builds>>
    BY <1>8 DEF vars, building
  <2>2. TypeOK' /\ ScoresNumbered'
    BY <2>1 DEF IInv, TypeOK, ScoresNumbered
  <2>3. ReadSoFar'
    BY <2>1, ReadKept DEF IInv, ReadSoFar
  <2>4. MadeOfRows'
    BY <2>1 DEF IInv, MadeOfRows, Sorted, Before
  <2> QED
    BY <2>2, <2>3, <2>4 DEF IInv
<1> QED
  BY <1>1, <1>2, <1>3, <1>4, <1>5, <1>6, <1>7, <1>8 DEF Next

(* The invariant of the roster holds throughout.                           *)
LEMMA IInvAlways == Spec => []IInv
<1>1. Init => IInv
  BY InitIInv
<1>2. IInv /\ [Next]_vars => IInv'
  BY NextKeeps
<1> QED
  BY <1>1, <1>2, PTL DEF Spec

-----------------------------------------------------------------------------
(* The fold.                                                               *)

(* Finitely many or not, numbers have a least one.                         *)
LEMMA LeastExists ==
  ASSUME NEW T \in SUBSET Nat, T # {} PROVE \E i \in T : \A j \in T : i <= j
<1> DEFINE Less == OpToRel(<, Nat)
<1>1. IsWellFoundedOn(Less, Nat)
  BY NatLessThanWellFounded
<1>2. \A i, j \in Nat : <<j, i>> \in Less <=> j < i
  BY DEF OpToRel
<1> HIDE DEF Less
<1>3. PICK i \in T : \A j \in T : ~ (<<j, i>> \in Less)
  BY <1>1, WFMin
<1>4. \A j \in T : i <= j
  <2> SUFFICES ASSUME NEW j \in T PROVE i <= j
    OBVIOUS
  <2>1. i \in Nat /\ j \in Nat /\ ~ (j < i)
    BY <1>2, <1>3
  <2> QED
    BY <2>1
<1> QED
  BY <1>4

(* The least of some numbers.                                              *)
LEMMA MinIsLeast ==
  ASSUME NEW T \in SUBSET Nat, T # {} PROVE Min(T) \in T /\ \A j \in T : Min(T) <= j
  BY LeastExists DEF Min

(* The last of some places.                                                *)
LEMMA MaxIsLast ==
  ASSUME NEW k \in Nat, NEW T \in SUBSET 1 .. k, T # {}
  PROVE  Max(T) \in T /\ \A j \in T : j <= Max(T)
<1> DEFINE D == {k - j : j \in T}
<1>1. D \in SUBSET Nat /\ D # {}
  OBVIOUS
<1> HIDE DEF D
<1>2. PICK m \in D : \A d \in D : m <= d
  BY <1>1, LeastExists
<1>3. PICK i \in T : m = k - i
  BY <1>2 DEF D
<1>4. \A j \in T : i >= j
  <2> SUFFICES ASSUME NEW j \in T PROVE i >= j
    OBVIOUS
  <2>1. k - j \in D
    BY DEF D
  <2>2. k - i <= k - j
    BY <1>2, <1>3, <2>1
  <2> QED
    BY <2>2
<1>5. \E x \in T : \A y \in T : x >= y
  BY <1>4
<1>6. Max(T) \in T /\ \A y \in T : Max(T) >= y
  BY <1>5 DEF Max
<1>7. \A j \in T : j \in Nat
  OBVIOUS
<1> QED
  BY <1>6, <1>7

(* What an entry shows are numbers of rows about the agent, and its bound  *)
(* is not beyond the end of any of them (project_rows).                    *)
LEMMA EntriesAreRows ==
  ASSUME NEW rows \in Seq(Row), NEW a \in DOMAIN Project(rows)
  PROVE  LET entry == Project(rows)[a] IN
         /\ entry.composite # None =>
              \E n \in About(rows, a) : rows[n].leaf = "composite" /\ rows[n].score = entry.composite
         /\ \A leaf \in DOMAIN entry.factors :
              \E n \in About(rows, a) : rows[n].leaf = leaf /\ rows[n].score = entry.factors[leaf]
         /\ \A n \in About(rows, a) : Until(rows[n]) # None =>
              entry.until # None /\ entry.until \in Nat /\ entry.until <= Until(rows[n])
<1> DEFINE entry == Project(rows)[a]
<1>1. /\ entry.composite = Composite(rows, a) /\ entry.factors = Factors(rows, a)
      /\ entry.until = Freshness(rows, a)
  BY DEF Project
<1> HIDE DEF entry
<1>2. About(rows, a) \subseteq 1 .. Len(rows) /\ Len(rows) \in Nat
      /\ \A n \in About(rows, a) : rows[n] \in Row
  BY DEF About
<1>3. ASSUME Composite(rows, a) # None
      PROVE  \E n \in About(rows, a) : rows[n].leaf = "composite" /\ rows[n].score = Composite(rows, a)
  <2> DEFINE at == Composites(rows, a)
  <2>1. at # {} /\ Composite(rows, a) = rows[Max(at)].score
    BY <1>3 DEF Composite
  <2>2. at \in SUBSET (1 .. Len(rows)) /\ \A n \in at : n \in About(rows, a) /\ rows[n].leaf = "composite"
    BY <1>2 DEF Composites, Leaf
  <2> HIDE DEF at
  <2>3. Max(at) \in at
    BY <1>2, <2>1, <2>2, MaxIsLast
  <2> QED
    BY <2>1, <2>2, <2>3
<1>4. ASSUME NEW leaf \in DOMAIN Factors(rows, a)
      PROVE  \E n \in About(rows, a) : rows[n].leaf = leaf /\ rows[n].score = Factors(rows, a)[leaf]
  <2> DEFINE at == Numbers(rows, a, leaf)
  <2>1. at # {} /\ Factors(rows, a)[leaf] = rows[Max(at)].score
    BY <1>4 DEF Factors
  <2>2. at \in SUBSET (1 .. Len(rows)) /\ \A n \in at : n \in About(rows, a) /\ rows[n].leaf = leaf
    BY <1>2 DEF Numbers, Leaf
  <2> HIDE DEF at
  <2>3. Max(at) \in at
    BY <1>2, <2>1, <2>2, MaxIsLast
  <2> QED
    BY <2>1, <2>2, <2>3
<1>5. ASSUME NEW n \in About(rows, a), Until(rows[n]) # None
      PROVE  Freshness(rows, a) # None /\ Freshness(rows, a) \in Nat /\ Freshness(rows, a) <= Until(rows[n])
  <2> DEFINE bounds == Bounds(rows, a)
  <2>1. \A m \in About(rows, a) : Until(rows[m]) \in Nat \union {None}
    BY <1>2 DEF Until, Row
  <2>2. bounds \in SUBSET Nat /\ Until(rows[n]) \in bounds
    BY <1>5, <2>1 DEF Bounds
  <2>3. Freshness(rows, a) = Min(bounds)
    BY <2>2 DEF Freshness
  <2> HIDE DEF bounds
  <2>4. Min(bounds) \in Nat /\ Min(bounds) <= Until(rows[n])
    BY <2>2, MinIsLeast
  <2> QED
    BY <2>3, <2>4, RosterAssumption
<1> QED
  BY <1>1, <1>3, <1>4, <1>5 DEF entry

(* Types of what flow A keeps (build_roster).                              *)
THEOREM RosterTypeCorrect == Spec => []TypeOK
<1>1. IInv => TypeOK
  BY DEF IInv
<1> QED
  BY <1>1, IInvAlways, PTL

(* Through any number of pages, with rows written between them, a roster   *)
(* is made from every row that was valid when its build began, each once   *)
(* (build_roster).                                                         *)
THEOREM EveryValidRowIsRead == Spec => []EveryRowIsRead
<1>1. IInv => EveryRowIsRead
  <2> SUFFICES ASSUME IInv PROVE EveryRowIsRead
    OBVIOUS
  <2> DEFINE rows == made.rows
             len == Len(made.rows)
  <2>1. rows \in Seq(Row) /\ DOMAIN rows = 1 .. len /\ len \in Nat
    BY DEF IInv, TypeOK
  <2>2. \A i \in 1 .. len : rows[i].id \in Nat
    <3>1. \A i \in 1 .. len : rows[i] \in Row
      BY <2>1
    <3>2. \A row \in Row : row.id \in Nat
      BY DEF Row
    <3> QED
      BY <3>1, <3>2
  <2>3. \A i, j \in 1 .. len : i < j => rows[i].id # rows[j].id
    <3> SUFFICES ASSUME NEW i \in 1 .. len, NEW j \in 1 .. len, i < j PROVE rows[i].id # rows[j].id
      OBVIOUS
    <3>1. Before(rows[i].id, rows[j].id)
      BY <2>1 DEF IInv, MadeOfRows, Sorted
    <3> QED
      BY <2>2, <3>1, BeforeIsOrder
  <2>4. \A i, j \in 1 .. len : rows[i] = rows[j] => i = j
    <3> SUFFICES ASSUME NEW i \in 1 .. len, NEW j \in 1 .. len, rows[i] = rows[j] PROVE i = j
      OBVIOUS
    <3>1. ~(i < j) /\ ~(j < i)
      BY <2>3
    <3> QED
      BY <2>1, <3>1
  <2>5. IsFiniteSet(1 .. len) /\ Cardinality(1 .. len) = len
    BY <2>1, FS_Interval
  <2>6. rows \in Surjection(1 .. len, Elements(rows)) /\ rows \in Injection(1 .. len, Elements(rows))
    BY <2>1, <2>4 DEF Surjection, Injection, IsInjective, Elements
  <2> HIDE DEF rows, len
  <2>7. Cardinality(Elements(rows)) = len
    BY <2>5, <2>6, FS_Surjection
  <2> QED
    BY <2>7 DEF IInv, MadeOfRows, EveryRowIsRead, rows, len
<1> QED
  BY <1>1, IInvAlways, PTL

(* Where the corpus lists the oldest first, the composite entry is that of *)
(* the newest row that was read, whatever its version (project_rows).      *)
THEOREM NewestCompositeIsShown == Spec => []NewestIsShown
<1>1. IInv => NewestIsShown
  <2> DEFINE rows == made.rows
  <2> SUFFICES ASSUME IInv, order = "oldest", NEW a \in DOMAIN entries, NEW row \in Elements(rows),
                      row.agent = a, row.leaf = "composite",
                      \A other \in Elements(rows) :
                        (other.agent = a /\ other.leaf = "composite") => other.id <= row.id
               PROVE  entries[a].composite = row.score
    BY DEF NewestIsShown
  <2> DEFINE at == Composites(rows, a)
             last == Max(at)
  <2>1. rows \in Seq(Row) /\ DOMAIN rows = 1 .. Len(rows) /\ Len(rows) \in Nat
    BY DEF IInv, TypeOK
  <2>2. entries[a].composite = Composite(rows, a)
    BY DEF IInv, MadeOfRows, Project
  <2>3. PICK k \in DOMAIN rows : rows[k] = row
    BY DEF Elements
  <2>4. k \in at /\ at \in SUBSET (1 .. Len(rows))
        /\ \A n \in at : rows[n].agent = a /\ rows[n].leaf = "composite"
    BY <2>1, <2>3 DEF Composites, About, Leaf
  <2>5. Composite(rows, a) = rows[last].score
    BY <2>4 DEF Composite
  <2> HIDE DEF at
  <2>6. last \in at /\ k <= last
    BY <2>1, <2>4, MaxIsLast
  <2>7. rows[last].id <= row.id
    <3>1. rows[last] \in Elements(rows)
      BY <2>1, <2>4, <2>6 DEF Elements
    <3> QED
      BY <2>4, <2>6, <3>1
  <2>8. k < last => row.id < rows[last].id
    <3>1. k < last => Before(rows[k].id, rows[last].id)
      BY <2>1, <2>3, <2>4, <2>6 DEF IInv, MadeOfRows, Sorted
    <3> QED
      BY <2>3, <3>1 DEF Before
  <2>9. row.id \in Nat /\ rows[last].id \in Nat /\ k \in Nat /\ last \in Nat
    <3>1. rows[k] \in Row /\ rows[last] \in Row
      BY <2>1, <2>4, <2>6
    <3> QED
      BY <2>1, <2>3, <2>4, <2>6, <3>1 DEF Row
  <2>10. k = last
    BY <2>6, <2>7, <2>8, <2>9
  <2> QED
    BY <2>2, <2>3, <2>5, <2>10
<1> QED
  BY <1>1, IInvAlways, PTL

(* While an entry claims to be valid, each number it shows is that of a    *)
(* row that still is, however old the roster (project_rows,                *)
(* RosterCache::replace).                                                  *)
THEOREM ShownNumbersAreBacked == Spec => []ShownIsBacked
<1>1. IInv => ShownIsBacked
  <2> SUFFICES ASSUME IInv, NEW a \in DOMAIN entries,
                      entries[a].until = None \/ entries[a].until > now
               PROVE  LET entry == entries[a]
                          backed(leaf, score) ==
                            \E row \in Elements(scores) :
                              row.agent = a /\ row.leaf = leaf /\ row.score = score /\ Valid(row, now)
                      IN /\ entry.composite # None => backed("composite", entry.composite)
                         /\ \A leaf \in DOMAIN entry.factors : backed(leaf, entry.factors[leaf])
    BY DEF ShownIsBacked
  <2> DEFINE rows == made.rows
             entry == entries[a]
  <2>1. rows \in Seq(Row) /\ DOMAIN rows = 1 .. Len(rows) /\ now \in Nat
    BY DEF IInv, TypeOK
  <2>2. entries = Project(rows) /\ entry = Project(rows)[a] /\ a \in DOMAIN Project(rows)
    BY DEF IInv, MadeOfRows
  <2> HIDE DEF entry
  <2>3. ASSUME NEW n \in About(rows, a)
        PROVE  rows[n] \in Elements(scores) /\ rows[n].agent = a /\ Valid(rows[n], now)
    <3>1. rows[n] \in Elements(scores) /\ rows[n].agent = a /\ rows[n] \in Row
      <4>1. n \in 1 .. Len(rows) /\ rows[n].agent = a
        BY <2>1 DEF About
      <4>2. rows[n] \in Row
        BY <2>1, <4>1
      <4>3. rows[n] \in Elements(rows)
        BY <2>1, <4>1 DEF Elements
      <4> QED
        BY <4>1, <4>2, <4>3 DEF IInv, MadeOfRows
    <3>2. rows[n].stated \in {None, rows[n].expires}
      BY <3>1 DEF IInv, ScoresNumbered, Elements
    <3>3. Until(rows[n]) = rows[n].expires
      BY <3>2 DEF Until
    <3>4. rows[n].expires # None =>
            entry.until # None /\ entry.until \in Nat /\ entry.until <= rows[n].expires
      BY <2>1, <2>2, <3>3, EntriesAreRows
    <3>5. entry.until = None \/ entry.until > now
      BY DEF entry
    <3>6. rows[n].expires \in Nat \union {None}
      BY <3>1 DEF Row
    <3> QED
      BY <2>1, <3>1, <3>4, <3>5, <3>6 DEF Valid
  <2>4. ASSUME entry.composite # None
        PROVE  \E row \in Elements(scores) :
                 row.agent = a /\ row.leaf = "composite" /\ row.score = entry.composite /\ Valid(row, now)
    <3>1. PICK n \in About(rows, a) : rows[n].leaf = "composite" /\ rows[n].score = entry.composite
      BY <2>1, <2>2, <2>4, EntriesAreRows
    <3> QED
      BY <2>3, <3>1
  <2>5. ASSUME NEW leaf \in DOMAIN entry.factors
        PROVE  \E row \in Elements(scores) :
                 row.agent = a /\ row.leaf = leaf /\ row.score = entry.factors[leaf] /\ Valid(row, now)
    <3>1. PICK n \in About(rows, a) : rows[n].leaf = leaf /\ rows[n].score = entry.factors[leaf]
      BY <2>1, <2>2, <2>5, EntriesAreRows
    <3> QED
      BY <2>3, <3>1
  <2> QED
    BY <2>4, <2>5 DEF entry
<1> QED
  BY <1>1, IInvAlways, PTL

-----------------------------------------------------------------------------
(* The live feed, which knows the roster by its version only.              *)

\* A queue of messages in the order of their rosters, none older than lo or newer
\* than hi, and no more of them than the channel keeps.
Good(q, lo, hi) ==
  /\ q \in Seq(Message)
  /\ Len(q) <= Capacity
  /\ \A i \in 1 .. Len(q) : lo <= q[i].roster /\ q[i].roster <= hi
  /\ \A i, j \in 1 .. Len(q) : i <= j => q[i].roster <= q[j].roster

(* What RosterNeverGoesBack rests on.                                      *)
FeedOrdered ==
  /\ corpus = 1 + changes
  /\ cache <= corpus
  /\ \A v \in Viewer :
       /\ stage[v] = "gone" => inbox[v] = << >>
       /\ stage[v] # "gone" => Good(inbox[v], shown[v].roster, cache) /\ shown[v].roster <= cache
FeedTyped ==
  /\ corpus \in Revision /\ outlook \in Headline
  /\ pc \in {"down", "starting", "started", "idle", "swept", "published", "building", "refreshed"}
  /\ agg \in Headline \union {Nothing} /\ served \in Headline \union {Nothing}
  /\ pushed \in Headline \union {Nothing}
  /\ cache \in Revision
  /\ stage \in [Viewer -> {"gone", "greeting", "live"}]
  /\ inbox \in [Viewer -> Seq(Message)]
  /\ shown \in [Viewer -> Message]
  /\ changes \in 0 .. MaxChanges /\ turns \in 0 .. MaxTurns
  /\ faults \in 0 .. MaxFaults /\ boots \in 0 .. MaxBoots
FeedInv == FeedTyped /\ FeedOrdered

-----------------------------------------------------------------------------
(* Queues.                                                                 *)

(* A version of the corpus is a number.                                    *)
LEMMA MessageRoster == \A d \in Message : d.roster \in Revision /\ d.roster \in Nat
  BY FeedAssumption DEF Message, Revision

(* An empty queue is good.                                                 *)
LEMMA EmptyIsGood == ASSUME NEW lo, NEW hi PROVE Good(<< >>, lo, hi)
  BY FeedAssumption DEF Good

(* The cache moves on and the queue is as good as before (refresh_roster). *)
LEMMA RaisedIsGood ==
  ASSUME NEW lo \in Nat, NEW hi \in Nat, NEW top \in Nat, hi <= top, NEW q, Good(q, lo, hi)
  PROVE  Good(q, lo, top)
<1>1. \A i \in 1 .. Len(q) : q[i] \in Message /\ q[i].roster \in Nat
  BY MessageRoster DEF Good
<1> QED
  BY <1>1 DEF Good

(* The reader takes the oldest message, and shows it (live_ws_loop).       *)
LEMMA TakenIsGood ==
  ASSUME NEW lo \in Nat, NEW hi \in Nat, NEW q, Good(q, lo, hi), q # << >>
  PROVE  /\ Head(q) \in Message
         /\ lo <= Head(q).roster /\ Head(q).roster <= hi
         /\ Good(Tail(q), Head(q).roster, hi)
<1>1. q \in Seq(Message) /\ Len(q) \in Nat /\ Len(q) > 0
  BY EmptySeq, LenProperties DEF Good
<1>2. Head(q) = q[1] /\ 1 \in 1 .. Len(q) /\ q[1] \in Message
  BY <1>1
<1>3. Tail(q) \in Seq(Message) /\ Len(Tail(q)) = Len(q) - 1
  BY <1>1
<1>4. \A i \in 1 .. Len(Tail(q)) : Tail(q)[i] = q[i + 1] /\ i + 1 \in 1 .. Len(q)
  BY <1>1, <1>3
<1>5. \A i \in 1 .. Len(Tail(q)) : q[1].roster <= Tail(q)[i].roster /\ Tail(q)[i].roster <= hi
  BY <1>1, <1>2, <1>4 DEF Good
<1>6. \A i, j \in 1 .. Len(Tail(q)) : i <= j => Tail(q)[i].roster <= Tail(q)[j].roster
  BY <1>1, <1>4 DEF Good
<1>7. Len(Tail(q)) <= Capacity
  BY <1>1, <1>3, FeedAssumption DEF Good
<1> QED
  BY <1>2, <1>3, <1>5, <1>6, <1>7 DEF Good

(* A message as new as the cache joins the queue, and the oldest makes way *)
(* when the channel is full (broadcast).                                   *)
LEMMA SentIsGood ==
  ASSUME NEW lo \in Nat, NEW hi \in Nat, lo <= hi, NEW q, Good(q, lo, hi),
         NEW d \in Message, d.roster = hi
  PROVE  Good(Kept(Append(q, d)), lo, hi)
<1> DEFINE w == Append(q, d)
<1>1. q \in Seq(Message) /\ Len(q) \in Nat
  BY LenProperties DEF Good
<1>2. w \in Seq(Message) /\ Len(w) = Len(q) + 1
  BY <1>1
<1>3. \A i \in 1 .. Len(w) : w[i] = IF i <= Len(q) THEN q[i] ELSE d
  BY <1>1, <1>2
<1>4. \A i \in 1 .. Len(w) : lo <= w[i].roster /\ w[i].roster <= hi
  BY <1>1, <1>2, <1>3 DEF Good
<1>5. \A i, j \in 1 .. Len(w) : i <= j => w[i].roster <= w[j].roster
  BY <1>1, <1>2, <1>3 DEF Good
<1>6. CASE Len(w) <= Capacity
  BY <1>2, <1>4, <1>5, <1>6 DEF Good, Kept
<1>7. CASE ~(Len(w) <= Capacity)
  <2>1. Tail(w) \in Seq(Message) /\ Len(Tail(w)) = Len(w) - 1
    BY <1>1, <1>2
  <2>2. \A i \in 1 .. Len(Tail(w)) : Tail(w)[i] = w[i + 1] /\ i + 1 \in 1 .. Len(w)
    BY <1>1, <1>2, <2>1
  <2>3. Len(Tail(w)) <= Capacity
    BY <1>1, <1>2, <2>1 DEF Good
  <2>4. \A i \in 1 .. Len(Tail(w)) : lo <= Tail(w)[i].roster /\ Tail(w)[i].roster <= hi
    BY <1>4, <2>2
  <2>5. ASSUME NEW i \in 1 .. Len(Tail(w)), NEW j \in 1 .. Len(Tail(w)), i <= j
        PROVE  Tail(w)[i].roster <= Tail(w)[j].roster
    <3>1. i + 1 \in 1 .. Len(w) /\ j + 1 \in 1 .. Len(w) /\ i + 1 <= j + 1
      BY <2>2, <2>5
    <3>2. Tail(w)[i] = w[i + 1] /\ Tail(w)[j] = w[j + 1]
      BY <2>2
    <3> QED
      BY <1>5, <3>1, <3>2
  <2>6. Len(w) > Capacity
    BY <1>1, <1>2, <1>7, FeedAssumption
  <2>7. Good(Tail(w), lo, hi)
    BY <2>1, <2>3, <2>4, <2>5 DEF Good
  <2> QED
    BY <2>6, <2>7 DEF Kept
<1> QED
  BY <1>6, <1>7

-----------------------------------------------------------------------------
(* The steps.                                                              *)

(* What a screen shows is a version, so versions can be compared.          *)
LEMMA FeedNumbers ==
  ASSUME FeedTyped
  PROVE  /\ corpus \in Nat /\ cache \in Nat /\ Nothing \in Headline \union {Nothing}
         /\ \A v \in Viewer : shown[v] \in Message /\ shown[v].roster \in Nat
  BY MessageRoster, FeedAssumption DEF FeedTyped, Revision

(* A delta of the cached roster is a message as new as the cache.          *)
LEMMA DeltaIsMessage ==
  ASSUME NEW r \in Revision, NEW h \in Headline \union {Nothing}
  PROVE  Delta(r, h) \in Message /\ Delta(r, h).roster = r
  BY DEF Delta, Message

LEMMA InitHolds == FeedInit => FeedInv
<1> SUFFICES ASSUME FeedInit PROVE FeedInv
  OBVIOUS
<1>1. 0 \in Revision /\ 1 \in Revision
  BY FeedAssumption DEF Revision
<1>2. Delta(0, Nothing) \in Message
  BY <1>1, DeltaIsMessage
<1>3. << >> \in Seq(Message)
  OBVIOUS
<1>4. FeedTyped
  BY <1>1, <1>2, <1>3, FeedAssumption DEF FeedInit, FeedTyped, Headline
<1>5. FeedOrdered
  BY DEF FeedInit, FeedOrdered
<1> QED
  BY <1>4, <1>5 DEF FeedInv

(* Whatever leaves corpus, cache and sockets alone leaves them in order.   *)
LEMMA QuietKeepsOrder ==
  ASSUME FeedOrdered, UNCHANGED <<corpus, changes, cache, viewers>>
  PROVE  FeedOrdered'
  BY DEF FeedOrdered, Good, viewers

(* The corpus only moves on (refresh_roster reads it later).               *)
LEMMA CorpusChangesKeepsOrder == FeedInv /\ CorpusChanges => FeedOrdered'
<1> SUFFICES ASSUME FeedInv, CorpusChanges PROVE FeedOrdered'
  OBVIOUS
<1>1. corpus' = corpus + 1 /\ changes' = changes + 1 /\ UNCHANGED <<cache, viewers>>
  BY DEF CorpusChanges, lap
<1>2. corpus \in Nat /\ cache \in Nat /\ changes \in Nat
  BY FeedNumbers DEF FeedInv, FeedTyped
<1> QED
  BY <1>1, <1>2 DEF FeedInv, FeedOrdered, Good, viewers

(* The new roster is no older than any that waits or is shown.             *)
LEMMA ReplaceKeepsOrder ==
  ASSUME FeedInv, NEW then, Replace(then) PROVE FeedOrdered'
<1>1. cache' = corpus /\ UNCHANGED <<corpus, changes, viewers>>
  BY DEF Replace, world
<1>2. corpus \in Nat /\ cache \in Nat /\ cache <= corpus
  BY FeedNumbers DEF FeedInv, FeedOrdered
<1>3. ASSUME NEW v \in Viewer, stage[v] # "gone"
      PROVE  Good(inbox[v], shown[v].roster, corpus) /\ shown[v].roster <= corpus
  <2>1. shown[v].roster \in Nat
    BY FeedNumbers DEF FeedInv
  <2>2. Good(inbox[v], shown[v].roster, cache) /\ shown[v].roster <= cache
    BY <1>3 DEF FeedInv, FeedOrdered
  <2> QED
    BY <1>2, <2>1, <2>2, RaisedIsGood
<1>4. \A v \in Viewer : (stage[v] = "gone" => inbox[v] = << >>)
  BY DEF FeedInv, FeedOrdered
<1>5. \A v \in Viewer : inbox'[v] = inbox[v] /\ shown'[v] = shown[v] /\ stage'[v] = stage[v]
  BY <1>1 DEF viewers
<1>6. corpus' = 1 + changes' /\ cache' <= corpus'
  BY <1>1, <1>2 DEF FeedInv, FeedOrdered
<1>7. \A v \in Viewer :
        stage'[v] # "gone" => Good(inbox'[v], shown'[v].roster, cache') /\ shown'[v].roster <= cache'
  BY <1>1, <1>3, <1>5
<1> QED
  BY <1>4, <1>5, <1>6, <1>7 DEF FeedOrdered, Good

(* A message with the cached roster is sent to whoever listens.            *)
LEMMA SendKeepsOrder ==
  ASSUME FeedInv, NEW h \in Headline \union {Nothing}, Send(Delta(cache, h)),
         UNCHANGED <<corpus, changes, cache, stage, shown>>
  PROVE  FeedOrdered' /\ inbox' \in [Viewer -> Seq(Message)]
<1> DEFINE d == Delta(cache, h)
<1>1. d \in Message /\ d.roster = cache
  BY DeltaIsMessage DEF FeedInv, FeedTyped
<1>2. inbox' = [v \in Viewer |-> IF stage[v] = "gone" THEN << >> ELSE Kept(Append(inbox[v], d))]
  BY DEF Send
<1>3. ASSUME NEW v \in Viewer
      PROVE  /\ stage[v] = "gone" => inbox'[v] = << >>
             /\ stage[v] # "gone" =>
                  Good(inbox'[v], shown[v].roster, cache) /\ shown[v].roster <= cache
             /\ inbox'[v] \in Seq(Message)
  <2>1. CASE stage[v] = "gone"
    BY <1>2, <2>1
  <2>2. CASE stage[v] # "gone"
    <3>1. Good(inbox[v], shown[v].roster, cache) /\ shown[v].roster <= cache
      BY <2>2 DEF FeedInv, FeedOrdered
    <3>2. shown[v].roster \in Nat /\ cache \in Nat
      BY FeedNumbers DEF FeedInv
    <3>3. Good(Kept(Append(inbox[v], d)), shown[v].roster, cache)
      BY <1>1, <3>1, <3>2, SentIsGood
    <3>4. inbox'[v] = Kept(Append(inbox[v], d))
      BY <1>2, <2>2
    <3> QED
      BY <2>2, <3>1, <3>3, <3>4 DEF Good
  <2> QED
    BY <2>1, <2>2
<1>4. inbox' \in [Viewer -> Seq(Message)]
  BY <1>2, <1>3
<1> QED
  BY <1>3, <1>4 DEF FeedInv, FeedOrdered, Good

(* A viewer is greeted with the cached roster, with nothing waiting.       *)
LEMMA ConnectKeepsOrder ==
  ASSUME FeedInv, NEW v \in Viewer, Connect(v) PROVE FeedOrdered' /\ inbox' = inbox
<1>1. /\ stage[v] = "gone" /\ stage' = [stage EXCEPT ![v] = "greeting"]
      /\ shown' = [shown EXCEPT ![v] = Delta(cache, Nothing)]
      /\ UNCHANGED <<corpus, changes, cache, inbox>>
  BY DEF Connect, world, lap
<1>2. Delta(cache, Nothing).roster = cache /\ cache \in Nat
  BY DeltaIsMessage, FeedNumbers DEF FeedInv, FeedTyped
<1>3. inbox[v] = << >> /\ Good(inbox[v], cache, cache)
  BY <1>1, EmptyIsGood DEF FeedInv, FeedOrdered
<1>4. stage'[v] # "gone" /\ shown'[v].roster = cache
  BY <1>1, <1>2 DEF FeedInv, FeedTyped
<1>5. \A u \in Viewer \ {v} : stage'[u] = stage[u] /\ shown'[u] = shown[u]
  BY <1>1 DEF FeedInv, FeedTyped
<1>6. inbox' = inbox /\ cache' = cache /\ corpus' = corpus /\ changes' = changes
  BY <1>1
<1>7. ASSUME NEW u \in Viewer
      PROVE  /\ stage'[u] = "gone" => inbox[u] = << >>
             /\ stage'[u] # "gone" =>
                  Good(inbox[u], shown'[u].roster, cache) /\ shown'[u].roster <= cache
  <2>1. CASE u = v
    BY <1>2, <1>3, <1>4, <2>1
  <2>2. CASE u # v
    BY <1>5, <2>2 DEF FeedInv, FeedOrdered
  <2> QED
    BY <2>1, <2>2
<1>8. FeedOrdered'
  BY <1>6, <1>7 DEF FeedInv, FeedOrdered, Good
<1> QED
  BY <1>6, <1>8

(* Subscribing empties the queue, and so does leaving.                     *)
LEMMA EmptiedKeepsOrder ==
  ASSUME FeedInv, NEW v \in Viewer, NEW s \in {"gone", "live"}, stage[v] # "gone",
         stage' = [stage EXCEPT ![v] = s], inbox' = [inbox EXCEPT ![v] = << >>],
         UNCHANGED <<corpus, changes, cache, shown>>
  PROVE  FeedOrdered' /\ inbox' \in [Viewer -> Seq(Message)]
<1>1. Good(<< >>, shown[v].roster, cache) /\ shown[v].roster <= cache
  BY EmptyIsGood DEF FeedInv, FeedOrdered
<1>2. inbox'[v] = << >> /\ stage'[v] = s
  BY DEF FeedInv, FeedTyped
<1>3. \A u \in Viewer \ {v} : stage'[u] = stage[u] /\ inbox'[u] = inbox[u]
  BY DEF FeedInv, FeedTyped
<1>4. << >> \in Seq(Message)
  OBVIOUS
<1>5. inbox' \in [Viewer -> Seq(Message)]
  BY <1>4 DEF FeedInv, FeedTyped
<1> QED
  BY <1>1, <1>2, <1>3, <1>5 DEF FeedInv, FeedOrdered, Good

(* The oldest message is at least as new as the screen, and no newer than  *)
(* the rest of the queue.                                                  *)
LEMMA ReceiveKeepsOrder ==
  ASSUME FeedInv, NEW v \in Viewer, Receive(v)
  PROVE  /\ FeedOrdered' /\ inbox' \in [Viewer -> Seq(Message)] /\ shown' \in [Viewer -> Message]
         /\ shown'[v].roster >= shown[v].roster
<1> DEFINE d == Head(inbox[v])
           told == IF d.overall = Nothing THEN shown[v].overall ELSE d.overall
<1>1. /\ stage[v] = "live" /\ inbox[v] # << >>
      /\ shown' = [shown EXCEPT ![v] = Delta(d.roster, told)]
      /\ inbox' = [inbox EXCEPT ![v] = Tail(inbox[v])]
      /\ UNCHANGED <<corpus, changes, cache, stage>>
  BY DEF Receive, world, lap
<1>2. Good(inbox[v], shown[v].roster, cache) /\ shown[v].roster <= cache
  BY <1>1 DEF FeedInv, FeedOrdered
<1>3. shown[v].roster \in Nat /\ cache \in Nat /\ shown[v] \in Message
  BY FeedNumbers DEF FeedInv
<1>4. /\ d \in Message /\ shown[v].roster <= d.roster /\ d.roster <= cache
      /\ Good(Tail(inbox[v]), d.roster, cache)
  BY <1>1, <1>2, <1>3, TakenIsGood
<1>5. d.roster \in Revision /\ told \in Headline \union {Nothing}
  BY <1>3, <1>4, MessageRoster DEF Message
<1>6. Delta(d.roster, told) \in Message /\ Delta(d.roster, told).roster = d.roster
  BY <1>5, DeltaIsMessage
<1>7. shown' \in [Viewer -> Message] /\ shown'[v] = Delta(d.roster, told)
  BY <1>1, <1>6 DEF FeedInv, FeedTyped
<1>8. Tail(inbox[v]) \in Seq(Message)
  BY <1>4 DEF Good
<1>9. inbox' \in [Viewer -> Seq(Message)] /\ inbox'[v] = Tail(inbox[v])
  BY <1>1, <1>8 DEF FeedInv, FeedTyped
<1>10. \A u \in Viewer \ {v} : shown'[u] = shown[u] /\ inbox'[u] = inbox[u]
  BY <1>1 DEF FeedInv, FeedTyped
<1>11. d.roster \in Nat
  BY <1>4, MessageRoster
<1>12. \A u \in Viewer :
         /\ stage[u] = "gone" => inbox'[u] = << >>
         /\ stage[u] # "gone" =>
              Good(inbox'[u], shown'[u].roster, cache) /\ shown'[u].roster <= cache
  BY <1>1, <1>4, <1>6, <1>7, <1>9, <1>10 DEF FeedInv, FeedOrdered
<1>13. FeedOrdered'
  BY <1>1, <1>12 DEF FeedInv, FeedOrdered, Good
<1> QED
  BY <1>3, <1>4, <1>6, <1>7, <1>9, <1>11, <1>13

(* Every socket goes with the process.                                     *)
LEMMA CrashKeepsOrder == FeedInv /\ Crash => FeedOrdered' /\ inbox' \in [Viewer -> Seq(Message)]
<1> SUFFICES ASSUME FeedInv, Crash PROVE FeedOrdered' /\ inbox' \in [Viewer -> Seq(Message)]
  OBVIOUS
<1>1. /\ cache' = 0 /\ UNCHANGED <<corpus, changes>>
      /\ stage' = [v \in Viewer |-> "gone"] /\ inbox' = [v \in Viewer |-> << >>]
  BY DEF Crash, world
<1>2. corpus \in Nat
  BY FeedNumbers DEF FeedInv
<1>3. << >> \in Seq(Message)
  OBVIOUS
<1> QED
  BY <1>1, <1>2, <1>3 DEF FeedInv, FeedOrdered

-----------------------------------------------------------------------------
(* Every step keeps the invariant, and no screen goes back.                *)

\* No screen of a viewer that stays goes back in this step.
Forward ==
  \A v \in Viewer : stage[v] # "gone" /\ stage'[v] # "gone" => shown'[v].roster >= shown[v].roster

(* Nothing goes back on a screen that does not change.                     *)
LEMMA StillIsForward ==
  ASSUME FeedInv, \A v \in Viewer : stage[v] # "gone" => shown'[v] = shown[v]
  PROVE  Forward
  BY FeedNumbers DEF FeedInv, Forward

LEMMA StartStep == FeedInv /\ Start => FeedInv' /\ Forward
<1> SUFFICES ASSUME FeedInv, Start PROVE FeedInv' /\ Forward
  OBVIOUS
<1>1. FeedTyped'
  BY FeedAssumption DEF FeedInv, FeedTyped, Start, world, viewers
<1>2. FeedOrdered'
  BY QuietKeepsOrder DEF FeedInv, Start, world
<1> QED
  BY <1>1, <1>2, StillIsForward DEF FeedInv, Start, viewers

(* The lap: refresh, announcement, sweep, publication and push.            *)
LEMMA ReplaceStep ==
  ASSUME FeedInv, NEW then \in {"started", "building"}, Replace(then) PROVE FeedInv' /\ Forward
<1>1. FeedTyped'
  BY DEF FeedInv, FeedTyped, Replace, world, viewers
<1> QED
  BY <1>1, ReplaceKeepsOrder, StillIsForward DEF FeedInv, Replace, viewers

LEMMA BuildFailsStep ==
  ASSUME FeedInv, NEW then \in {"idle", "refreshed"}, BuildFails(then) PROVE FeedInv' /\ Forward
<1>1. FeedTyped'
  BY FeedAssumption DEF FeedInv, FeedTyped, BuildFails, Fault, world, viewers
<1>2. FeedOrdered'
  BY QuietKeepsOrder DEF FeedInv, BuildFails, world
<1> QED
  BY <1>1, <1>2, StillIsForward DEF FeedInv, BuildFails, viewers

LEMMA AnnounceStep ==
  ASSUME FeedInv, NEW then \in {"idle", "refreshed"}, Announce(then) PROVE FeedInv' /\ Forward
<1>1. FeedOrdered' /\ inbox' \in [Viewer -> Seq(Message)]
  BY SendKeepsOrder DEF Announce, world, Headline
<1>2. FeedTyped'
  BY <1>1 DEF FeedInv, FeedTyped, Announce, world
<1> QED
  BY <1>1, <1>2, StillIsForward DEF FeedInv, Announce

LEMMA SweepStep == FeedInv /\ (Sweep \/ Publish \/ NotDue) => FeedInv' /\ Forward
<1> SUFFICES ASSUME FeedInv, Sweep \/ Publish \/ NotDue PROVE FeedInv' /\ Forward
  OBVIOUS
<1>1. FeedTyped'
  BY DEF FeedInv, FeedTyped, Sweep, Publish, NotDue, world, viewers
<1>2. FeedOrdered'
  BY QuietKeepsOrder DEF FeedInv, Sweep, Publish, NotDue, world
<1> QED
  BY <1>1, <1>2, StillIsForward DEF FeedInv, Sweep, Publish, NotDue, viewers

LEMMA PushStep == FeedInv /\ Push => FeedInv' /\ Forward
<1> SUFFICES ASSUME FeedInv, Push PROVE FeedInv' /\ Forward
  OBVIOUS
<1>1. FeedOrdered' /\ inbox' \in [Viewer -> Seq(Message)] /\ pushed' \in Headline \union {Nothing}
  <2>1. CASE Subscribed = {}
    <3>1. UNCHANGED <<corpus, changes, cache, viewers, pushed>>
      BY <2>1 DEF Push, world, viewers
    <3> QED
      BY <3>1, QuietKeepsOrder DEF FeedInv, FeedTyped, viewers
  <2>2. CASE Subscribed # {}
    <3>1. agg \in Headline \union {Nothing}
      BY DEF FeedInv, FeedTyped
    <3> QED
      BY <2>2, <3>1, SendKeepsOrder DEF Push, world
  <2> QED
    BY <2>1, <2>2
<1>2. FeedTyped'
  BY <1>1 DEF FeedInv, FeedTyped, Push, world
<1> QED
  BY <1>1, <1>2, StillIsForward DEF FeedInv, Push

LEMMA LapStep == FeedInv /\ Lap => FeedInv' /\ Forward
<1> SUFFICES ASSUME FeedInv, Lap PROVE FeedInv' /\ Forward
  OBVIOUS
<1>1. CASE FirstRoster
  BY <1>1, ReplaceStep, BuildFailsStep, AnnounceStep DEF FirstRoster
<1>2. CASE Refresh
  BY <1>2, ReplaceStep, BuildFailsStep, AnnounceStep DEF Refresh
<1> QED
  BY <1>1, <1>2, SweepStep, PushStep DEF Lap

(* The viewers.                                                            *)
LEMMA ConnectStep ==
  ASSUME FeedInv, NEW v \in Viewer, Connect(v) PROVE FeedInv' /\ Forward
<1>1. FeedOrdered' /\ inbox' = inbox
  BY ConnectKeepsOrder
<1>2. Delta(cache, Nothing) \in Message
  BY DeltaIsMessage DEF FeedInv, FeedTyped
<1>3. FeedTyped'
  BY <1>1, <1>2 DEF FeedInv, FeedTyped, Connect, world, lap
<1>4. \A u \in Viewer : stage[u] # "gone" => shown'[u] = shown[u]
  BY DEF FeedInv, FeedTyped, Connect
<1> QED
  BY <1>1, <1>3, <1>4, StillIsForward DEF FeedInv

LEMMA SubscribeStep ==
  ASSUME FeedInv, NEW v \in Viewer, Subscribe(v) PROVE FeedInv' /\ Forward
<1>1. FeedOrdered' /\ inbox' \in [Viewer -> Seq(Message)]
  BY EmptiedKeepsOrder DEF Subscribe, world, lap
<1>2. FeedTyped'
  BY <1>1 DEF FeedInv, FeedTyped, Subscribe, world, lap
<1> QED
  BY <1>1, <1>2, StillIsForward DEF FeedInv, Subscribe

LEMMA DisconnectStep ==
  ASSUME FeedInv, NEW v \in Viewer, Disconnect(v) PROVE FeedInv' /\ Forward
<1>1. FeedOrdered' /\ inbox' \in [Viewer -> Seq(Message)]
  BY EmptiedKeepsOrder DEF Disconnect, world, lap
<1>2. FeedTyped'
  BY <1>1 DEF FeedInv, FeedTyped, Disconnect, world, lap
<1> QED
  BY <1>1, <1>2, StillIsForward DEF FeedInv, Disconnect

LEMMA ReceiveStep ==
  ASSUME FeedInv, NEW v \in Viewer, Receive(v) PROVE FeedInv' /\ Forward
<1>1. /\ FeedOrdered' /\ inbox' \in [Viewer -> Seq(Message)] /\ shown' \in [Viewer -> Message]
      /\ shown'[v].roster >= shown[v].roster
  BY ReceiveKeepsOrder
<1>2. FeedTyped'
  BY <1>1 DEF FeedInv, FeedTyped, Receive, world, lap
<1>3. \A u \in Viewer \ {v} : shown'[u] = shown[u] /\ shown[u].roster \in Nat
  BY FeedNumbers DEF FeedInv, FeedTyped, Receive
<1> QED
  BY <1>1, <1>2, <1>3 DEF FeedInv, Forward

(* The rest of the world.                                                  *)
LEMMA CrashStep == FeedInv /\ Crash => FeedInv' /\ Forward
<1> SUFFICES ASSUME FeedInv, Crash PROVE FeedInv' /\ Forward
  OBVIOUS
<1>1. FeedOrdered' /\ inbox' \in [Viewer -> Seq(Message)]
  BY CrashKeepsOrder
<1>2. 0 \in Revision
  BY FeedAssumption DEF Revision
<1>3. FeedTyped'
  BY <1>1, <1>2 DEF FeedInv, FeedTyped, Crash, world
<1> QED
  BY <1>1, <1>3, StillIsForward DEF FeedInv, Crash

LEMMA WorldStep == FeedInv /\ (CorpusChanges \/ OutlookChanges) => FeedInv' /\ Forward
<1> SUFFICES ASSUME FeedInv, CorpusChanges \/ OutlookChanges PROVE FeedInv' /\ Forward
  OBVIOUS
<1>1. CASE CorpusChanges
  <2>1. corpus' = corpus + 1 /\ changes' = changes + 1 /\ changes < MaxChanges
        /\ UNCHANGED <<outlook, turns, lap, viewers, faults, boots>>
    BY <1>1 DEF CorpusChanges
  <2>2. corpus' \in Revision /\ changes' \in 0 .. MaxChanges
    BY <2>1, FeedAssumption DEF FeedInv, FeedTyped, FeedOrdered, Revision
  <2>3. FeedTyped'
    BY <2>1, <2>2 DEF FeedInv, FeedTyped, lap, viewers
  <2> QED
    BY <1>1, <2>1, <2>3, CorpusChangesKeepsOrder, StillIsForward DEF FeedInv, viewers
<1>2. CASE OutlookChanges
  <2>1. FeedTyped'
    BY <1>2, FeedAssumption DEF FeedInv, FeedTyped, OutlookChanges, lap, viewers
  <2>2. FeedOrdered'
    BY <1>2, QuietKeepsOrder DEF FeedInv, OutlookChanges, lap
  <2> QED
    BY <1>2, <2>1, <2>2, StillIsForward DEF FeedInv, OutlookChanges, viewers
<1> QED
  BY <1>1, <1>2

LEMMA StutterStep == FeedInv /\ UNCHANGED feedVars => FeedInv' /\ Forward
<1> SUFFICES ASSUME FeedInv, UNCHANGED feedVars PROVE FeedInv' /\ Forward
  OBVIOUS
<1>1. FeedTyped'
  BY DEF FeedInv, FeedTyped, feedVars, world, lap, viewers
<1>2. FeedOrdered'
  BY QuietKeepsOrder DEF FeedInv, feedVars, world, lap
<1> QED
  BY <1>1, <1>2, StillIsForward DEF FeedInv, feedVars, viewers

LEMMA StepHolds == FeedInv /\ [FeedNext]_feedVars => FeedInv' /\ Forward
  BY StartStep, LapStep, ConnectStep, SubscribeStep, DisconnectStep, ReceiveStep, CrashStep,
     WorldStep, StutterStep DEF FeedNext

-----------------------------------------------------------------------------
LEMMA TypesHold == FeedInv => FeedTypeOK
<1> SUFFICES ASSUME FeedInv PROVE FeedTypeOK
  OBVIOUS
<1>1. ASSUME NEW v \in Viewer
      PROVE  Len(inbox[v]) <= Capacity /\ \A i \in DOMAIN inbox[v] : inbox[v][i] \in Message
  <2>1. inbox[v] \in Seq(Message)
    BY DEF FeedInv, FeedTyped
  <2>2. Len(inbox[v]) <= Capacity
    <3>1. CASE stage[v] = "gone"
      BY <3>1, FeedAssumption DEF FeedInv, FeedOrdered
    <3>2. CASE stage[v] # "gone"
      BY <3>2 DEF FeedInv, FeedOrdered, Good
    <3> QED
      BY <3>1, <3>2
  <2> QED
    BY <2>1, <2>2
<1> QED
  BY <1>1 DEF FeedInv, FeedTyped, FeedTypeOK

(* Every variable keeps its type, and no reader keeps more messages        *)
(* waiting than the broadcast channel holds (live_ws_loop).                *)
THEOREM LiveFeedTypeCorrect == FeedSpec => []FeedTypeOK
<1>1. FeedSpec => []FeedInv
  BY InitHolds, StepHolds, PTL DEF FeedSpec
<1> QED
  BY <1>1, TypesHold, PTL

(* While a viewer stays connected, the roster on its screen never goes     *)
(* back to an older one (live_ws_loop, refresh_roster).                    *)
THEOREM RosterMonotone == FeedSpec => RosterNeverGoesBack
<1>1. FeedSpec => []FeedInv
  BY InitHolds, StepHolds, PTL DEF FeedSpec
<1>2. FeedInv /\ [FeedNext]_feedVars => [Forward]_feedVars
  BY StepHolds
<1> QED
  BY <1>1, <1>2, PTL DEF FeedSpec, RosterNeverGoesBack, Forward
=============================================================================
