---------------------------- MODULE CiBoardProofs ----------------------------
(***************************************************************************)
(* The build board for any configurations, changes and faults: the ETag    *)
(* that is quoted vouches for the row that is shown.  While a refresh runs *)
(* the row it has rebuilt goes with the new ETags, and the row it has not  *)
(* reached yet with the old, because no repository is listed twice.  And   *)
(* no row goes back: a row names a listing GitHub has had, and a refresh   *)
(* either keeps it or takes the newest.                                    *)
(***************************************************************************)
EXTENDS CiBoard, SequenceTheorems, TLAPS

Run == {Queued, Running, Ended("skipped"), Ended("success"), Ended("timed_out")}
BoardRow ==
  {row \in [repo : Repo, runs : Seq(RunStates), of : Etag] : Len(row.runs) <= RunsPerRepo}

Typed ==
  /\ github \in [Owner \X Repo -> [runs : Seq(Run), version : Nat]]
  /\ \A s \in Owner \X Repo : github[s].version <= changes
  /\ settings \in Configs /\ using \in Configs
  /\ pc \in {"down", "idle", "fetching"}
  /\ board \in Seq(BoardRow) /\ out \in Seq(BoardRow)
  /\ Len(out) <= Len(using.repos)
  /\ etags \in [Repo -> Etag] /\ newEtags \in [Repo -> Etag]
  /\ changes \in 0 .. MaxChanges /\ edits \in 0 .. MaxEdits
  /\ faults \in 0 .. MaxFaults /\ boots \in 0 .. MaxBoots

\* The rows of a board go with these ETags.
Vouches(rows, tags) ==
  \A i \in 1 .. Len(rows) :
    rows[i].of # NoEtag /\ tags[rows[i].repo] # NoEtag => rows[i].of = tags[rows[i].repo]

(* The board goes with the ETags of the cache, and the one a refresh is    *)
(* building with those it is collecting, which differ from the cache's     *)
(* only for the repositories it has come to.                               *)
Vouched ==
  /\ Vouches(board, etags)
  /\ Vouches(out, newEtags)
  /\ \A i \in 1 .. Len(out) : out[i].repo = using.repos[i]
  /\ pc = "fetching" =>
       \A r \in Repo : (\A i \in 1 .. Len(out) : out[i].repo # r) => newEtags[r] = etags[r]
  /\ pc # "fetching" => out = << >>

IInv == Typed /\ Vouched

-----------------------------------------------------------------------------
(* Rows, listings and tags.                                                *)

LEMMA ConfigTypes ==
  ASSUME NEW c \in Configs
  PROVE  c.owner \in Owner /\ c.repos \in Seq(Repo) /\ Distinct(c.repos)
  BY ConfigAssumption

(* Whatever a run is, it is drawn in one of the five states (run_state).   *)
LEMMA StatesAreDrawn == ASSUME NEW run PROVE RunState(run) \in RunStates
  BY DEF RunState, RunStates

(* At most RUNS_PER_REPO runs are drawn (parse_runs).                      *)
LEMMA ParsedRuns ==
  ASSUME NEW listing \in Seq(Run)
  PROVE  ParseRuns(listing) \in Seq(RunStates) /\ Len(ParseRuns(listing)) <= RunsPerRepo
<1> DEFINE n == IF Len(listing) < RunsPerRepo THEN Len(listing) ELSE RunsPerRepo
           drawn == [i \in 1 .. n |-> RunState(listing[i])]
<1>1. n \in Nat /\ n <= RunsPerRepo
  BY BoundAssumption
<1>2. drawn \in Seq(RunStates) /\ Len(drawn) = n
  BY <1>1, StatesAreDrawn
<1> HIDE DEF drawn, n
<1>3. Reverse(drawn) = [i \in 1 .. n |-> drawn[(n - i) + 1]]
  BY <1>2 DEF Reverse
<1>4. \A i \in 1 .. n : (n - i) + 1 \in 1 .. n /\ drawn[(n - i) + 1] \in RunStates
  BY <1>1, <1>2
<1>5. Reverse(drawn) \in Seq(RunStates) /\ Len(Reverse(drawn)) = n
  BY <1>1, <1>3, <1>4
<1>6. ParseRuns(listing) = Reverse(drawn)
  BY DEF ParseRuns, drawn, n
<1> QED
  BY <1>1, <1>5, <1>6

LEMMA TagIsEtag ==
  ASSUME Typed, NEW s \in Owner \X Repo
  PROVE  Tag(s) \in Etag
<1>1. github[s].version \in 0 .. MaxChanges
  BY BoundAssumption DEF Typed
<1>2. s[1] \in Owner /\ s[2] \in Repo
  OBVIOUS
<1> QED
  BY <1>1, <1>2 DEF Tag, Etag

(* The row kept is the board's row about that repository, or an empty one. *)
LEMMA PreviousRow ==
  ASSUME Typed, NEW r \in Repo
  PROVE  /\ Previous(r) \in BoardRow /\ Previous(r).repo = r
         /\ \/ Previous(r).of = NoEtag
            \/ \E i \in 1 .. Len(board) : Previous(r) = board[i]
<1>1. CASE \E i \in DOMAIN board : board[i].repo = r
  <2> DEFINE i == CHOOSE i \in DOMAIN board : board[i].repo = r
  <2>1. i \in DOMAIN board /\ board[i].repo = r
    BY <1>1
  <2>2. Previous(r) = board[i]
    BY <1>1 DEF Previous
  <2> HIDE DEF i
  <2>3. DOMAIN board = 1 .. Len(board) /\ board[i] \in BoardRow
    BY <2>1 DEF Typed
  <2> QED
    BY <2>1, <2>2, <2>3
<1>2. CASE ~ \E i \in DOMAIN board : board[i].repo = r
  <2>1. Previous(r) = Row(r, << >>, NoEtag)
    BY <1>2 DEF Previous, Blank
  <2>2. << >> \in Seq(RunStates) /\ Len(<< >>) = 0 /\ NoEtag \in Etag
    BY DEF Etag
  <2> QED
    BY <2>1, <2>2, BoundAssumption DEF Row, BoardRow
<1> QED
  BY <1>1, <1>2

(* It is a row of the board whenever the board has one.                    *)
LEMMA PreviousIsShown ==
  ASSUME Typed, NEW r \in Repo, \E i \in 1 .. Len(board) : board[i].repo = r
  PROVE  \E i \in 1 .. Len(board) : Previous(r) = board[i] /\ board[i].repo = r
<1> DEFINE i == CHOOSE i \in DOMAIN board : board[i].repo = r
<1>1. DOMAIN board = 1 .. Len(board)
  BY DEF Typed
<1>2. i \in DOMAIN board /\ board[i].repo = r
  BY <1>1
<1>3. Previous(r) = board[i]
  BY <1>1 DEF Previous
<1> QED
  BY <1>1, <1>2, <1>3

(* A repository that is wanted has no row yet, and its ETag is still the   *)
(* cache's: no repository is configured twice.                             *)
LEMMA WantedIsNew ==
  ASSUME IInv, Fetching
  PROVE  /\ Wanted \in Repo /\ Source \in Owner \X Repo
         /\ \A i \in 1 .. Len(out) : out[i].repo # Wanted
         /\ newEtags[Wanted] = etags[Wanted]
<1>1. /\ using.owner \in Owner /\ using.repos \in Seq(Repo) /\ Distinct(using.repos)
      /\ out \in Seq(BoardRow)
  BY ConfigTypes DEF IInv, Typed
<1>2. Len(out) \in Nat /\ Len(using.repos) \in Nat /\ Len(out) < Len(using.repos)
  BY <1>1, LenProperties DEF Fetching
<1>3. Len(out) + 1 \in 1 .. Len(using.repos) /\ Wanted \in Repo
  BY <1>1, <1>2 DEF Wanted
<1>4. \A i \in 1 .. Len(out) : using.repos[i] # Wanted
  <2> SUFFICES ASSUME NEW i \in 1 .. Len(out), using.repos[i] = using.repos[Len(out) + 1]
               PROVE  FALSE
    BY DEF Wanted
  <2>1. i \in DOMAIN using.repos /\ Len(out) + 1 \in DOMAIN using.repos
    BY <1>1, <1>2
  <2>2. i = Len(out) + 1
    BY <1>1, <2>1 DEF Distinct
  <2> QED
    BY <1>2, <2>2
<1>5. \A i \in 1 .. Len(out) : out[i].repo # Wanted
  BY <1>4 DEF IInv, Vouched
<1> QED
  BY <1>1, <1>3, <1>5 DEF IInv, Vouched, Source, Fetching

(* A row that goes with its ETag joins the board being built (refresh).    *)
LEMMA AppendRow ==
  ASSUME IInv, Fetching, NEW row \in BoardRow, row.repo = Wanted,
         NEW tags \in [Repo -> Etag], \A r \in Repo \ {Wanted} : tags[r] = newEtags[r],
         row.of # NoEtag /\ tags[Wanted] # NoEtag => row.of = tags[Wanted],
         out' = Append(out, row), newEtags' = tags, UNCHANGED <<pc, using, board, etags>>
  PROVE  Vouched' /\ out' \in Seq(BoardRow) /\ Len(out') <= Len(using.repos)
<1>1. /\ using.repos \in Seq(Repo) /\ out \in Seq(BoardRow) /\ Len(out) \in Nat
      /\ Len(out) < Len(using.repos)
  BY ConfigTypes, LenProperties DEF IInv, Typed, Fetching
<1>2. /\ Len(out') = Len(out) + 1 /\ out' \in Seq(BoardRow) /\ out'[Len(out')] = row
      /\ \A i \in 1 .. Len(out) : out'[i] = out[i]
  BY <1>1
<1>3. \A i \in 1 .. Len(out) : out[i] \in BoardRow /\ out[i].repo \in Repo \ {Wanted}
  BY <1>1, WantedIsNew DEF BoardRow
<1>4. Vouches(out', newEtags')
  <2> SUFFICES ASSUME NEW i \in 1 .. Len(out'), out'[i].of # NoEtag, tags[out'[i].repo] # NoEtag
               PROVE  out'[i].of = tags[out'[i].repo]
    BY DEF Vouches
  <2>1. CASE i \in 1 .. Len(out)
    <3>1. tags[out[i].repo] = newEtags[out[i].repo] /\ out'[i] = out[i]
      BY <1>2, <1>3, <2>1
    <3> QED
      BY <2>1, <3>1 DEF IInv, Vouched, Vouches
  <2>2. CASE i = Len(out')
    BY <1>2, <2>2
  <2> QED
    BY <1>1, <1>2, <2>1, <2>2
<1>5. \A i \in 1 .. Len(out') : out'[i].repo = using.repos[i]
  <2> TAKE i \in 1 .. Len(out')
  <2>1. CASE i \in 1 .. Len(out)
    BY <1>2, <2>1 DEF IInv, Vouched
  <2>2. CASE i = Len(out) + 1
    BY <1>2, <2>2 DEF Wanted
  <2> QED
    BY <1>1, <1>2, <2>1, <2>2
<1>6. ASSUME NEW r \in Repo, \A i \in 1 .. Len(out') : out'[i].repo # r
      PROVE  newEtags'[r] = etags[r]
  <2>1. r # Wanted
    BY <1>1, <1>2, <1>6
  <2>2. \A i \in 1 .. Len(out) : out[i].repo # r
    BY <1>1, <1>2, <1>6
  <2> QED
    BY <2>1, <2>2 DEF IInv, Vouched, Fetching
<1>7. Vouches(board', etags')
  BY DEF IInv, Vouched, Vouches
<1>8. Len(out') <= Len(using.repos)
  BY <1>1, <1>2
<1>9. pc' = "fetching" /\ etags' = etags /\ using' = using
  BY DEF Fetching
<1>10. Vouched'
  BY <1>4, <1>5, <1>6, <1>7, <1>9 DEF Vouched, Vouches
<1> QED
  BY <1>2, <1>8, <1>10

(* The row that is kept goes with the ETag that is kept.                   *)
LEMMA KeptRow ==
  ASSUME IInv, Fetching, out' = Append(out, Previous(Wanted)),
         UNCHANGED <<pc, using, board, etags, newEtags>>
  PROVE  Vouched' /\ out' \in Seq(BoardRow) /\ Len(out') <= Len(using.repos)
<1> DEFINE row == Previous(Wanted)
<1>1. Wanted \in Repo /\ newEtags[Wanted] = etags[Wanted]
  BY WantedIsNew
<1>2. /\ row \in BoardRow /\ row.repo = Wanted
      /\ row.of = NoEtag \/ \E i \in 1 .. Len(board) : row = board[i]
  BY <1>1, PreviousRow DEF IInv
<1>3. row.of # NoEtag /\ newEtags[Wanted] # NoEtag => row.of = newEtags[Wanted]
  BY <1>1, <1>2 DEF IInv, Vouched, Vouches
<1>4. newEtags \in [Repo -> Etag]
  BY DEF IInv, Typed
<1> HIDE DEF row
<1>5. out' = Append(out, row)
  BY DEF row
<1> QED
  BY <1>2, <1>3, <1>4, <1>5, AppendRow

-----------------------------------------------------------------------------
(* The steps.                                                              *)

LEMMA InitHolds == Init => IInv
<1> SUFFICES ASSUME Init PROVE IInv
  OBVIOUS
<1>1. Baked \in Configs /\ Baked.repos \in Seq(Repo) /\ Len(Baked.repos) \in Nat
  BY ConfigAssumption, LenProperties
<1>2. NoEtag \in Etag /\ << >> \in Seq(BoardRow) /\ Len(<< >>) = 0
  BY DEF Etag
<1>3. <<Running>> \in Seq(Run)
  BY DEF Run
<1>4. github \in [Owner \X Repo -> [runs : Seq(Run), version : Nat]]
  BY <1>3 DEF Init
<1>5. \A s \in Owner \X Repo : github[s].version <= changes
  BY DEF Init
<1>6. Typed
  BY <1>1, <1>2, <1>4, <1>5, BoundAssumption DEF Init, Typed
<1>7. Vouched
  BY DEF Init, Vouched, Vouches
<1> QED
  BY <1>6, <1>7 DEF IInv

LEMMA StartStep == IInv /\ Start => IInv'
  BY BoundAssumption DEF IInv, Typed, Vouched, Vouches, Start, refresh, cache

(* A refresh begins with an empty board and the cache's ETags.             *)
LEMMA BeginStep == IInv /\ Begin => IInv'
<1> SUFFICES ASSUME IInv, Begin PROVE IInv'
  OBVIOUS
<1>1. /\ pc' = "fetching" /\ out' = << >> /\ newEtags' = etags /\ using' \in Configs
      /\ faults' \in 0 .. MaxFaults /\ UNCHANGED <<github, settings, board, etags, changes, edits, boots>>
  BY ConfigAssumption, BoundAssumption DEF IInv, Typed, Begin, Fault, cache
<1>2. Len(using'.repos) \in Nat /\ << >> \in Seq(BoardRow) /\ Len(<< >>) = 0
  BY <1>1, ConfigTypes, LenProperties
<1>3. Typed'
  BY <1>1, <1>2 DEF IInv, Typed
<1>4. Vouched'
  BY <1>1 DEF IInv, Vouched, Vouches
<1> QED
  BY <1>3, <1>4 DEF IInv

(* A 200, with or without the header.                                      *)
LEMMA FreshStep == IInv /\ Fresh => IInv'
<1> SUFFICES ASSUME IInv, Fresh PROVE IInv'
  OBVIOUS
<1> DEFINE row == Row(Wanted, ParseRuns(github[Source].runs), Tag(Source))
<1>1. /\ Fetching /\ out' = Append(out, row) /\ faults' \in 0 .. MaxFaults
      /\ \E t \in {Tag(Source), NoEtag} : newEtags' = [newEtags EXCEPT ![Wanted] = t]
      /\ UNCHANGED <<github, settings, pc, using, board, etags, changes, edits, boots>>
  BY BoundAssumption DEF IInv, Typed, Fresh, Fault, cache
<1>2. Wanted \in Repo /\ Source \in Owner \X Repo /\ github[Source].runs \in Seq(Run)
  BY <1>1, WantedIsNew DEF IInv, Typed
<1>3. row \in BoardRow /\ row.repo = Wanted /\ row.of = Tag(Source)
  BY <1>2, ParsedRuns, TagIsEtag DEF IInv, Row, BoardRow
<1>4. PICK t \in {Tag(Source), NoEtag} : newEtags' = [newEtags EXCEPT ![Wanted] = t]
  BY <1>1
<1>5. t \in Etag
  BY <1>2, TagIsEtag DEF IInv, Etag
<1>6. /\ newEtags' \in [Repo -> Etag] /\ newEtags'[Wanted] = t
      /\ \A r \in Repo \ {Wanted} : newEtags'[r] = newEtags[r]
  BY <1>2, <1>4, <1>5 DEF IInv, Typed
<1>7. row.of # NoEtag /\ newEtags'[Wanted] # NoEtag => row.of = newEtags'[Wanted]
  BY <1>3, <1>6
<1> HIDE DEF row
<1>8. Vouched' /\ out' \in Seq(BoardRow) /\ Len(out') <= Len(using.repos)
  BY <1>1, <1>3, <1>6, <1>7, AppendRow
<1>9. Typed'
  BY <1>1, <1>6, <1>8 DEF IInv, Typed
<1> QED
  BY <1>8, <1>9 DEF IInv

(* A 304, or no answer at all.                                             *)
LEMMA KeepStep == IInv /\ (NotModified \/ Failed) => IInv'
<1> SUFFICES ASSUME IInv, NotModified \/ Failed PROVE IInv'
  OBVIOUS
<1>1. /\ Fetching /\ out' = Append(out, Previous(Wanted)) /\ faults' \in 0 .. MaxFaults
      /\ UNCHANGED <<github, settings, pc, using, newEtags, board, etags, changes, edits, boots>>
  BY BoundAssumption DEF IInv, Typed, NotModified, Failed, Fault, cache, counters
<1>2. Vouched' /\ out' \in Seq(BoardRow) /\ Len(out') <= Len(using.repos)
  BY <1>1, KeptRow
<1>3. Typed'
  BY <1>1, <1>2 DEF IInv, Typed
<1> QED
  BY <1>2, <1>3 DEF IInv

(* Board and ETags replace the old under one lock.                         *)
LEMMA SwapStep == IInv /\ Swap => IInv'
<1> SUFFICES ASSUME IInv, Swap PROVE IInv'
  OBVIOUS
<1>1. /\ pc' = "idle" /\ board' = out /\ etags' = newEtags /\ out' = << >>
      /\ UNCHANGED <<github, settings, using, newEtags, changes, edits, faults, boots>>
  BY DEF Swap, counters
<1>2. Len(using.repos) \in Nat /\ << >> \in Seq(BoardRow) /\ Len(<< >>) = 0
  BY ConfigTypes, LenProperties DEF IInv, Typed
<1>3. Typed'
  BY <1>1, <1>2 DEF IInv, Typed
<1>4. Vouched'
  BY <1>1 DEF IInv, Vouched, Vouches
<1> QED
  BY <1>3, <1>4 DEF IInv

LEMMA CrashStep == IInv /\ Crash => IInv'
<1> SUFFICES ASSUME IInv, Crash PROVE IInv'
  OBVIOUS
<1>1. /\ pc' = "down" /\ board' = << >> /\ out' = << >>
      /\ etags' = [r \in Repo |-> NoEtag] /\ newEtags' = [r \in Repo |-> NoEtag]
      /\ UNCHANGED <<github, settings, using, changes, edits, faults, boots>>
  BY DEF Crash, counters
<1>2. Len(using.repos) \in Nat /\ << >> \in Seq(BoardRow) /\ Len(<< >>) = 0 /\ NoEtag \in Etag
  BY ConfigTypes, LenProperties DEF IInv, Typed, Etag
<1>3. Typed'
  BY <1>1, <1>2 DEF IInv, Typed
<1>4. Vouched'
  BY <1>1 DEF IInv, Vouched, Vouches
<1> QED
  BY <1>3, <1>4 DEF IInv

(* A listing changes at GitHub, and its version with it.                   *)
LEMMA ListsTyped ==
  ASSUME Typed, NEW s \in Owner \X Repo, NEW runs \in Seq(Run), Lists(s, runs),
         changes' = changes + 1
  PROVE  /\ github' \in [Owner \X Repo -> [runs : Seq(Run), version : Nat]]
         /\ \A t \in Owner \X Repo : github'[t].version <= changes'
<1>1. github' = [github EXCEPT ![s] = [runs |-> runs, version |-> github[s].version + 1]]
  BY DEF Lists
<1>2. github[s].version \in Nat /\ changes \in Nat
  BY BoundAssumption DEF Typed
<1> QED
  BY <1>1, <1>2 DEF Typed

LEMMA GitHubStep == IInv /\ GitHubMoves => IInv'
<1> SUFFICES ASSUME IInv, GitHubMoves PROVE IInv'
  OBVIOUS
<1>1. /\ changes' = changes + 1 /\ changes' \in 0 .. MaxChanges
      /\ UNCHANGED <<settings, pc, using, out, newEtags, board, etags, edits, faults, boots>>
  BY BoundAssumption DEF IInv, Typed, GitHubMoves, refresh, cache
<1>2. PICK s \in Owner \X Repo :
        \/ Lists(s, <<Queued>> \o github[s].runs) \/ Lists(s, << >>)
        \/ \E i \in DOMAIN github[s].runs : \E r \in Follows(github[s].runs[i]) :
             Lists(s, [github[s].runs EXCEPT ![i] = r])
  BY DEF GitHubMoves
<1>3. github[s].runs \in Seq(Run)
  BY DEF IInv, Typed
<1>4. \E runs \in Seq(Run) : Lists(s, runs)
  <2>1. CASE Lists(s, <<Queued>> \o github[s].runs)
    <3>1. <<Queued>> \in Seq(Run)
      BY DEF Run
    <3>2. <<Queued>> \o github[s].runs \in Seq(Run)
      BY <1>3, <3>1
    <3> QED
      BY <2>1, <3>2
  <2>2. ASSUME NEW i \in DOMAIN github[s].runs, NEW r \in Follows(github[s].runs[i]),
               Lists(s, [github[s].runs EXCEPT ![i] = r])
        PROVE  \E runs \in Seq(Run) : Lists(s, runs)
    <3>1. r \in Run
      BY DEF Follows, Run
    <3>2. [github[s].runs EXCEPT ![i] = r] \in Seq(Run)
      BY <1>3, <3>1
    <3> QED
      BY <2>2, <3>2
  <2>3. << >> \in Seq(Run)
    OBVIOUS
  <2> QED
    BY <1>2, <2>1, <2>2, <2>3
<1>5. /\ github' \in [Owner \X Repo -> [runs : Seq(Run), version : Nat]]
      /\ \A t \in Owner \X Repo : github'[t].version <= changes'
  BY <1>1, <1>4, ListsTyped DEF IInv
<1>6. Typed'
  BY <1>1, <1>5 DEF IInv, Typed
<1>7. Vouched'
  BY <1>1 DEF IInv, Vouched, Vouches
<1> QED
  BY <1>6, <1>7 DEF IInv

LEMMA ReconfigureStep == IInv /\ Reconfigure => IInv'
  BY BoundAssumption DEF IInv, Typed, Vouched, Vouches, Reconfigure, refresh, cache

LEMMA StutterStep == IInv /\ UNCHANGED vars => IInv'
  BY DEF IInv, Typed, Vouched, Vouches, vars, refresh, cache, counters

LEMMA Invariant == Spec => []IInv
<1>1. IInv /\ [Next]_vars => IInv'
  BY StartStep, BeginStep, FreshStep, KeepStep, SwapStep, CrashStep, GitHubStep,
     ReconfigureStep, StutterStep DEF Next, Cycle
<1> QED
  BY <1>1, InitHolds, PTL DEF Spec

-----------------------------------------------------------------------------
(* The board and what it is built from keep their types, with at most      *)
(* RUNS_PER_REPO runs drawn and no more rows than repositories configured  *)
(* (refresh, parse_runs).                                                  *)
THEOREM CiBoardTypeCorrect == Spec => []TypeOK
<1>1. ASSUME NEW rows \in Seq(BoardRow)
      PROVE  \A i \in DOMAIN rows : RowType(rows[i])
  <2> SUFFICES ASSUME NEW i \in DOMAIN rows PROVE RowType(rows[i])
    OBVIOUS
  <2>1. rows[i] \in BoardRow
    OBVIOUS
  <2> QED
    BY <2>1 DEF BoardRow, RowType
<1>2. IInv => TypeOK
  BY <1>1 DEF IInv, Typed, TypeOK
<1> QED
  BY <1>2, Invariant, PTL

(* The board never quotes an ETag for something else than what it shows,   *)
(* so a 304 cannot confirm a row of another listing (refresh).             *)
THEOREM EtagsVouch == Spec => []EtagVouches
<1>1. IInv => EtagVouches
  <2> SUFFICES ASSUME IInv, NEW i \in DOMAIN board,
                      board[i].of # NoEtag, etags[board[i].repo] # NoEtag
               PROVE  board[i].of = etags[board[i].repo]
    BY DEF EtagVouches, Rows
  <2>1. i \in 1 .. Len(board)
    BY DEF IInv, Typed
  <2> QED
    BY <2>1 DEF IInv, Vouched, Vouches
<1> QED
  BY <1>1, Invariant, PTL

-----------------------------------------------------------------------------
(* No row goes back.                                                       *)

\* A row that names a listing names one of its repository, not newer than GitHub's.
Known(row) ==
  row.of # NoEtag =>
    /\ row.of \in Owner \X Repo \X Nat
    /\ row.of[2] = row.repo
    /\ row.of[3] <= github[<<row.of[1], row.of[2]>>].version
\* is is no emptier than was, nor an older listing of the same owner.
NotBack(was, is) ==
  was # NoEtag => is # NoEtag /\ (is[1] = was[1] => is[3] >= was[3])
\* A repository has one row at most.
Single(rows) == \A i, j \in 1 .. Len(rows) : rows[i].repo = rows[j].repo => i = j

Standing ==
  /\ \A i \in 1 .. Len(board) : Known(board[i])
  /\ \A i \in 1 .. Len(out) : Known(out[i])
  /\ Single(board)
  /\ \A i \in 1 .. Len(out) : \A j \in 1 .. Len(board) :
       out[i].repo = board[j].repo => NotBack(board[j].of, out[i].of)

LEMMA TagIsAnEtag ==
  ASSUME NEW a, NEW b, NEW c PROVE <<a, b, c>> # NoEtag
<1> SUFFICES ASSUME <<a, b, c>> = NoEtag PROVE FALSE
  OBVIOUS
<1>1. Len(<<a, b, c>>) = 3 /\ Len(NoEtag) = 1
  BY DEF NoEtag
<1> QED
  BY <1>1

LEMMA EqualIsNotBack ==
  ASSUME NEW of \in Owner \X Repo \X Nat PROVE NotBack(of, of)
  BY DEF NotBack

LEMMA NothingIsNotBack == ASSUME NEW is PROVE NotBack(NoEtag, is)
  BY DEF NotBack

(* The board being built has one row per repository, as it is configured.  *)
LEMMA BuiltIsSingle == IInv => Single(out)
<1> SUFFICES ASSUME IInv, NEW i \in 1 .. Len(out), NEW j \in 1 .. Len(out),
                    out[i].repo = out[j].repo
             PROVE  i = j
  BY DEF Single
<1>1. /\ using.repos \in Seq(Repo) /\ Distinct(using.repos) /\ out \in Seq(BoardRow)
      /\ Len(out) <= Len(using.repos)
  BY ConfigTypes DEF IInv, Typed
<1>2. i \in DOMAIN using.repos /\ j \in DOMAIN using.repos
  BY <1>1
<1>3. using.repos[i] = using.repos[j]
  BY DEF IInv, Vouched
<1> QED
  BY <1>1, <1>2, <1>3 DEF Distinct

(* A row joins the board being built, and the rows of its repository that  *)
(* are shown are not ahead of it.                                          *)
LEMMA AppendStands ==
  ASSUME IInv, Standing, Fetching, NEW row \in BoardRow, row.repo = Wanted, Known(row),
         \A j \in 1 .. Len(board) : board[j].repo = Wanted => NotBack(board[j].of, row.of),
         out' = Append(out, row), UNCHANGED <<github, board>>
  PROVE  Standing'
<1>1. out \in Seq(BoardRow) /\ Len(out) \in Nat
  BY LenProperties DEF IInv, Typed
<1>2. /\ Len(out') = Len(out) + 1 /\ out'[Len(out) + 1] = row
      /\ \A i \in 1 .. Len(out) : out'[i] = out[i]
  BY <1>1
<1>3. ASSUME NEW i \in 1 .. Len(out')
      PROVE  /\ Known(out'[i])
             /\ \A j \in 1 .. Len(board) :
                  out'[i].repo = board[j].repo => NotBack(board[j].of, out'[i].of)
  <2>1. CASE i \in 1 .. Len(out)
    BY <1>2, <2>1 DEF Standing
  <2>2. CASE i = Len(out) + 1
    BY <1>2, <2>2
  <2> QED
    BY <1>1, <1>2, <2>1, <2>2
<1>4. \A i \in 1 .. Len(board) : Known(board[i])
  BY DEF Standing
<1>5. Single(board)
  BY DEF Standing
<1> QED
  BY <1>3, <1>4, <1>5 DEF Standing, Known, Single, NotBack

LEMMA FreshStands == IInv /\ Standing /\ Fresh => Standing'
<1> SUFFICES ASSUME IInv, Standing, Fresh PROVE Standing'
  OBVIOUS
<1> DEFINE row == Row(Wanted, ParseRuns(github[Source].runs), Tag(Source))
<1>1. Fetching /\ out' = Append(out, row) /\ UNCHANGED <<github, board>>
  BY DEF Fresh, cache
<1>2. /\ Wanted \in Repo /\ Source \in Owner \X Repo /\ github[Source].runs \in Seq(Run)
      /\ github[Source].version \in Nat
  BY <1>1, WantedIsNew DEF IInv, Typed
<1>3. row \in BoardRow /\ row.repo = Wanted /\ row.of = Tag(Source)
  BY <1>2, ParsedRuns, TagIsEtag DEF IInv, Row, BoardRow
<1>4. /\ Source = <<using.owner, Wanted>> /\ using.owner \in Owner
      /\ Tag(Source) = <<using.owner, Wanted, github[Source].version>>
  BY ConfigTypes DEF Source, Tag, IInv, Typed
<1>5. Known(row)
  BY <1>2, <1>3, <1>4 DEF Known
<1>6. ASSUME NEW j \in 1 .. Len(board), board[j].repo = Wanted, board[j].of # NoEtag,
             using.owner = board[j].of[1]
      PROVE  github[Source].version >= board[j].of[3]
  <2>1. /\ board[j].of \in Owner \X Repo \X Nat
        /\ board[j].of[2] = Wanted
        /\ board[j].of[3] <= github[<<board[j].of[1], board[j].of[2]>>].version
    BY <1>6 DEF Standing, Known
  <2>2. <<board[j].of[1], board[j].of[2]>> = Source
    BY <1>4, <1>6, <2>1
  <2> QED
    BY <1>2, <2>1, <2>2
<1>7. ASSUME NEW j \in 1 .. Len(board), board[j].repo = Wanted
      PROVE  NotBack(board[j].of, row.of)
  <2>1. row.of # NoEtag /\ row.of[1] = using.owner /\ row.of[3] = github[Source].version
    BY <1>3, <1>4, TagIsAnEtag
  <2> QED
    BY <1>6, <1>7, <2>1 DEF NotBack
<1> HIDE DEF row
<1> QED
  BY <1>1, <1>3, <1>5, <1>7, AppendStands

LEMMA KeepStands == IInv /\ Standing /\ (NotModified \/ Failed) => Standing'
<1> SUFFICES ASSUME IInv, Standing, NotModified \/ Failed PROVE Standing'
  OBVIOUS
<1> DEFINE row == Previous(Wanted)
<1>1. Fetching /\ out' = Append(out, row) /\ UNCHANGED <<github, board>>
  BY DEF NotModified, Failed, cache
<1>2. row \in BoardRow /\ row.repo = Wanted
  BY <1>1, WantedIsNew, PreviousRow DEF IInv
<1>3. CASE \E j \in 1 .. Len(board) : board[j].repo = Wanted
  <2>1. PICK j \in 1 .. Len(board) : row = board[j] /\ board[j].repo = Wanted
    BY <1>1, <1>3, WantedIsNew, PreviousIsShown DEF IInv
  <2>2. Known(row)
    BY <2>1 DEF Standing
  <2>3. ASSUME NEW k \in 1 .. Len(board), board[k].repo = Wanted
        PROVE  NotBack(board[k].of, row.of)
    <3>1. board[k] = row
      BY <2>1, <2>3 DEF Standing, Single
    <3> QED
      BY <2>2, <3>1, EqualIsNotBack, NothingIsNotBack DEF Known
  <2> HIDE DEF row
  <2> QED
    BY <1>1, <1>2, <2>2, <2>3, AppendStands
<1>4. CASE ~ \E j \in 1 .. Len(board) : board[j].repo = Wanted
  <2>1. row.of = NoEtag
    BY <1>1, <1>2, <1>4, WantedIsNew, PreviousRow DEF IInv
  <2>2. Known(row)
    BY <2>1 DEF Known
  <2> HIDE DEF row
  <2> QED
    BY <1>1, <1>2, <1>4, <2>2, AppendStands
<1> QED
  BY <1>3, <1>4

LEMMA SwapStands == IInv /\ Standing /\ Swap => Standing'
<1> SUFFICES ASSUME IInv, Standing, Swap PROVE Standing'
  OBVIOUS
<1>1. board' = out /\ out' = << >> /\ github' = github
  BY DEF Swap
<1>2. Len(<< >>) = 0 /\ Single(out)
  BY BuiltIsSingle
<1> QED
  BY <1>1, <1>2 DEF Standing, Known, Single

(* Versions at GitHub only grow.                                           *)
LEMMA GitHubStands == IInv /\ Standing /\ GitHubMoves => Standing'
<1> SUFFICES ASSUME IInv, Standing, GitHubMoves PROVE Standing'
  OBVIOUS
<1>1. PICK s \in Owner \X Repo : \E runs :
        github' = [github EXCEPT ![s] = [runs |-> runs, version |-> github[s].version + 1]]
  BY DEF GitHubMoves, Lists
<1>2. UNCHANGED <<board, out>>
  BY DEF GitHubMoves, cache, refresh
<1>3. ASSUME NEW t \in Owner \X Repo
      PROVE  github[t].version \in Nat /\ github'[t].version \in Nat
             /\ github[t].version <= github'[t].version
  BY <1>1 DEF IInv, Typed
<1>4. ASSUME NEW row, Known(row), row.of # NoEtag
      PROVE  /\ row.of \in Owner \X Repo \X Nat /\ row.of[2] = row.repo
             /\ row.of[3] <= github'[<<row.of[1], row.of[2]>>].version
  <2>1. /\ row.of \in Owner \X Repo \X Nat /\ row.of[2] = row.repo
        /\ <<row.of[1], row.of[2]>> \in Owner \X Repo
        /\ row.of[3] <= github[<<row.of[1], row.of[2]>>].version
    BY <1>4 DEF Known
  <2> QED
    BY <1>3, <2>1
<1>5. \A i \in 1 .. Len(board) : Known(board[i])'
  BY <1>2, <1>4 DEF Standing, Known
<1>6. \A i \in 1 .. Len(out) : Known(out[i])'
  BY <1>2, <1>4 DEF Standing, Known
<1> QED
  BY <1>2, <1>5, <1>6 DEF Standing, Single, NotBack

LEMMA InitStands == Init => Standing
  BY DEF Init, Standing, Single

(* The board is emptied by a crash, and nothing else touches it.           *)
LEMMA OthersStand ==
  IInv /\ Standing /\ (Start \/ Begin \/ Crash \/ Reconfigure \/ UNCHANGED vars) => Standing'
<1> SUFFICES ASSUME IInv, Standing, Start \/ Begin \/ Crash \/ Reconfigure \/ UNCHANGED vars
             PROVE  Standing'
  OBVIOUS
<1>1. github' = github /\ Len(<< >>) = 0
  BY DEF Start, Begin, Crash, Reconfigure, vars
<1>2. CASE Start \/ Reconfigure \/ UNCHANGED vars
  <2>1. UNCHANGED <<board, out>>
    BY <1>2 DEF Start, Reconfigure, vars, refresh, cache
  <2> QED
    BY <1>1, <2>1 DEF Standing, Known, Single, NotBack
<1>3. CASE Begin
  <2>1. board' = board /\ out' = << >>
    BY <1>3 DEF Begin, cache
  <2> QED
    BY <1>1, <2>1 DEF Standing, Known, Single, NotBack
<1>4. CASE Crash
  <2>1. board' = << >> /\ out' = << >>
    BY <1>4 DEF Crash
  <2> QED
    BY <1>1, <2>1 DEF Standing, Known, Single, NotBack
<1> QED
  BY <1>2, <1>3, <1>4

LEMMA StandingInvariant == Spec => []Standing
<1>1. IInv /\ Standing /\ [Next]_vars => Standing'
  BY FreshStands, KeepStands, SwapStands, GitHubStands, OthersStand DEF Next, Cycle
<1> QED
  BY <1>1, Invariant, InitStands, PTL DEF Spec

(* The row of a board about a repository it shows.                         *)
LEMMA TheRow ==
  ASSUME NEW rows \in Seq(BoardRow), Single(rows), NEW j \in 1 .. Len(rows)
  PROVE  (CHOOSE row \in {rows[i] : i \in DOMAIN rows} : row.repo = rows[j].repo) = rows[j]
<1> DEFINE chosen == CHOOSE row \in {rows[i] : i \in DOMAIN rows} : row.repo = rows[j].repo
<1>1. rows[j] \in {rows[i] : i \in DOMAIN rows}
  OBVIOUS
<1>2. chosen \in {rows[i] : i \in DOMAIN rows} /\ chosen.repo = rows[j].repo
  BY <1>1
<1>3. PICK i \in DOMAIN rows : chosen = rows[i]
  BY <1>2
<1>4. i \in 1 .. Len(rows) /\ rows[i].repo = rows[j].repo
  BY <1>2, <1>3
<1>5. i = j
  BY <1>4 DEF Single
<1> QED
  BY <1>3, <1>5

(* What a reader sees of a repository before and after the swap.           *)
LEMMA SwapGoesForward ==
  ASSUME IInv, Standing, IInv', Standing', Swap, NEW r \in Shown, r \in Shown'
  PROVE  NotBack(RowOf(r).of, (RowOf(r)').of)
<1>1. /\ board \in Seq(BoardRow) /\ Single(board)
      /\ board' \in Seq(BoardRow) /\ Single(board')
  BY DEF IInv, Typed, Standing, Single
<1>2. PICK j \in 1 .. Len(board) : board[j].repo = r
  BY <1>1 DEF Shown, Rows
<1>3. PICK i \in 1 .. Len(board') : board'[i].repo = r
  BY <1>1 DEF Shown, Rows
<1>4. RowOf(r) = board[j]
  BY <1>1, <1>2, TheRow DEF RowOf, Rows
<1>5. RowOf(r)' = board'[i]
  BY <1>1, <1>3, TheRow DEF RowOf, Rows
<1>6. board'[i] = out[i] /\ i \in 1 .. Len(out)
  BY <1>3 DEF Swap
<1> QED
  BY <1>2, <1>3, <1>4, <1>5, <1>6 DEF Standing

(* A board left alone shows what it showed.                                *)
LEMMA AloneStands ==
  ASSUME IInv, Standing, board' = board, NEW r \in Shown
  PROVE  NotBack(RowOf(r).of, (RowOf(r)').of)
<1>1. board \in Seq(BoardRow) /\ Single(board)
  BY DEF IInv, Typed, Standing
<1>2. PICK j \in 1 .. Len(board) : board[j].repo = r
  BY <1>1 DEF Shown, Rows
<1>3. RowOf(r) = board[j]
  BY <1>1, <1>2, TheRow DEF RowOf, Rows
<1>4. RowOf(r)' = RowOf(r)
  BY DEF RowOf, Rows
<1>5. board[j].of = NoEtag \/ board[j].of \in Owner \X Repo \X Nat
  BY DEF Standing, Known
<1>6. NotBack(board[j].of, board[j].of)
  BY <1>5, EqualIsNotBack, NothingIsNotBack
<1> QED
  BY <1>3, <1>4, <1>6

(* A GitHub hiccup blanks no row, and no row goes back to an older listing *)
(* (refresh).                                                              *)
THEOREM RowsNeverGoBack == Spec => RowsStand
<1> DEFINE Forward ==
      \A r \in Shown :
        r \in {row.repo : row \in Rows'} =>
          LET was == RowOf(r).of
              is == (RowOf(r)').of
          IN was # NoEtag =>
               is # NoEtag /\ (is[1] = was[1] => is[3] >= was[3])
<1>1. IInv /\ Standing /\ IInv' /\ Standing' /\ [Next]_vars => Forward
  <2> SUFFICES ASSUME IInv, Standing, IInv', Standing', [Next]_vars,
                      NEW r \in Shown, r \in Shown'
               PROVE  NotBack(RowOf(r).of, (RowOf(r)').of)
    BY DEF NotBack, Shown
  <2>1. CASE Swap
    BY <2>1, SwapGoesForward
  <2>2. CASE Crash
    BY <2>2 DEF Crash, Shown, Rows
  <2>3. CASE \/ Start \/ Begin \/ Fresh \/ NotModified \/ Failed
             \/ GitHubMoves \/ Reconfigure \/ UNCHANGED vars
    <3>1. board' = board
      BY <2>3 DEF Start, Begin, Fresh, NotModified, Failed, GitHubMoves, Reconfigure,
                  vars, cache
    <3> QED
      BY <3>1, AloneStands
  <2> QED
    BY <2>1, <2>2, <2>3 DEF Next, Cycle
<1>2. IInv /\ Standing /\ IInv' /\ Standing' /\ [Next]_vars => [Forward]_vars
  BY <1>1
<1> HIDE DEF Forward
<1>3. Spec => [][Forward]_vars
  BY <1>2, Invariant, StandingInvariant, PTL DEF Spec
<1> QED
  BY <1>3 DEF RowsStand, Forward
=============================================================================
