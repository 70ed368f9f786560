------------------------------ MODULE CiBoard ------------------------------
(***************************************************************************)
(* The build board (ci.rs): the last runs of every configured repository,  *)
(* fetched one after the other with conditional requests and swapped in    *)
(* whole.                                                                  *)
(*                                                                         *)
(* GitHub answers a request that quotes the ETag of the listing it holds   *)
(* now with `304 Not Modified', and the board then keeps the row it had.   *)
(* ETags and rows live in one cache but not for the same time: the refresh *)
(* copies all the ETags and rebuilds the rows from the repositories        *)
(* configured at that moment.  An ETag is modelled by the listing it names:*)
(* its owner, its repository and its version.  A row carries the same name *)
(* in `of', a history variable.                                            *)
(***************************************************************************)
EXTENDS Naturals, Sequences, SequencesExt, FiniteSets

CONSTANTS
  Owner, Repo,  \* GitHub organisations and repository names
  Configs,      \* bound: what the owner may configure, [owner, repos]
  Baked,        \* the configuration of a node that reads no config row
  RunsPerRepo,  \* ci::RUNS_PER_REPO
  MaxChanges,   \* bound: changes at GitHub
  MaxEdits,     \* bound: changes of the configuration
  MaxFaults,    \* bound: failed fetches, answers without ETag, failed reads
  MaxBoots      \* bound: starts of the process

Distinct(repos) == \A i, j \in DOMAIN repos : repos[i] = repos[j] => i = j
ASSUME ConfigAssumption ==
  /\ Baked \in Configs
  /\ \A c \in Configs : c.owner \in Owner /\ c.repos \in Seq(Repo) /\ Distinct(c.repos)
ASSUME BoundAssumption ==
  /\ RunsPerRepo \in Nat \ {0} /\ MaxChanges \in Nat /\ MaxEdits \in Nat
  /\ MaxFaults \in Nat /\ MaxBoots \in Nat

VARIABLES
  github,   \* per <<owner, repo>>: the runs, newest first, and their version
  settings, \* what the owner has configured
  pc,       \* "down", "idle" or "fetching"
  using,    \* the configuration of this refresh
  board,    \* the rows served: [repo, runs, of]
  etags,    \* per repository, the ETag to quote
  out, newEtags, \* the board and the ETags this refresh builds
  changes, edits, faults, boots \* the bounded counters

refresh == <<using, out, newEtags>>
cache == <<board, etags>>
counters == <<changes, edits, faults, boots>>
vars == <<github, settings, pc, refresh, cache, counters>>

NoEtag == <<"none">>
Tag(source) == <<source[1], source[2], github[source].version>>
Fault == faults < MaxFaults /\ faults' = faults + 1

\* A run as GitHub tells it: a status, and a conclusion once completed.
Queued == <<"queued", "none">>
Running == <<"in_progress", "none">>
Ended(conclusion) == <<"completed", conclusion>>
Follows(run) ==
  CASE run = Queued -> {Running, Ended("skipped")}
    [] run = Running -> {Ended("success"), Ended("timed_out")}
    [] OTHER -> {}

\* ci::run_state
RunState(run) ==
  CASE run[1] = "completed" /\ run[2] = "success" -> "success"
    [] run[1] = "completed" /\ run[2] \in {"cancelled", "skipped", "neutral", "stale"} -> "cancelled"
    [] run[1] = "completed" /\ run[2] \notin {"success", "cancelled", "skipped", "neutral", "stale"} -> "failure"
    [] run[1] = "in_progress" -> "in_progress"
    [] OTHER -> "queued"
RunStates == {"success", "failure", "in_progress", "queued", "cancelled"}

\* ci::parse_runs: the newest few, oldest first.
ParseRuns(listing) ==
  Reverse([i \in 1 .. (IF Len(listing) < RunsPerRepo THEN Len(listing) ELSE RunsPerRepo) |->
                RunState(listing[i])])

-----------------------------------------------------------------------------
Init ==
  /\ github = [s \in Owner \X Repo |-> [runs |-> <<Running>>, version |-> 0]]
  /\ settings = Baked
  /\ pc = "down"
  /\ using = Baked
  /\ board = << >>
  /\ etags = [r \in Repo |-> NoEtag]
  /\ out = << >>
  /\ newEtags = [r \in Repo |-> NoEtag]
  /\ changes = 0 /\ edits = 0 /\ faults = 0 /\ boots = 0

(* CiCache::default: an empty board and no ETag.                           *)
Start ==
  /\ pc = "down"
  /\ boots < MaxBoots
  /\ boots' = boots + 1
  /\ pc' = "idle"
  /\ UNCHANGED <<github, settings, refresh, cache, changes, edits, faults>>

(* The cadence comes round, with the configuration the lap has just        *)
(* resolved: the baked one when the corpus could not be read.              *)
Begin ==
  /\ pc = "idle"
  /\ pc' = "fetching"
  /\ \/ using' = settings /\ UNCHANGED faults
     \/ using' = Baked /\ Fault
  /\ out' = << >>
  /\ newEtags' = etags
  /\ UNCHANGED <<github, settings, cache, changes, edits, boots>>

Fetching == pc = "fetching" /\ Len(out) < Len(using.repos)
Wanted == using.repos[Len(out) + 1]
Source == <<using.owner, Wanted>>

Row(r, runs, of) == [repo |-> r, runs |-> runs, of |-> of]
Blank(r) == Row(r, << >>, NoEtag)

\* Fault for testing RowsStand: a repository without news has an empty row.
KeepNothing(r) == Blank(r)
\* The row the last board had, or an empty one.
Previous(r) ==
  IF \E i \in DOMAIN board : board[i].repo = r
  THEN board[CHOOSE i \in DOMAIN board : board[i].repo = r]
  ELSE Blank(r)

(* Fault for testing EtagVouches: an answer without ETag keeps the old one. *)
FreshKeepsEtag ==
  /\ Fetching
  /\ etags[Wanted] # Tag(Source)
  /\ out' = Append(out, Row(Wanted, ParseRuns(github[Source].runs), Tag(Source)))
  /\ \/ newEtags' = [newEtags EXCEPT ![Wanted] = Tag(Source)] /\ UNCHANGED faults
     \/ UNCHANGED newEtags /\ Fault
  /\ UNCHANGED <<github, settings, pc, using, cache, changes, edits, boots>>

(* A 200: the row and the ETag are both replaced; an answer without the    *)
(* header leaves no ETag.                                                  *)
Fresh ==
  /\ Fetching
  /\ etags[Wanted] # Tag(Source)
  /\ out' = Append(out, Row(Wanted, ParseRuns(github[Source].runs), Tag(Source)))
  /\ \/ newEtags' = [newEtags EXCEPT ![Wanted] = Tag(Source)] /\ UNCHANGED faults
     \/ newEtags' = [newEtags EXCEPT ![Wanted] = NoEtag] /\ Fault
  /\ UNCHANGED <<github, settings, pc, using, cache, changes, edits, boots>>

(* A 304.                                                                  *)
NotModified ==
  /\ Fetching
  /\ etags[Wanted] = Tag(Source)
  /\ out' = Append(out, Previous(Wanted))
  /\ UNCHANGED <<github, settings, pc, using, newEtags, cache, counters>>

(* Fault for testing BoardCatchesUp: the ETag is noted before the body is  *)
(* parsed.                                                                 *)
FailedNoted ==
  /\ Fetching
  /\ Fault
  /\ out' = Append(out, Previous(Wanted))
  /\ newEtags' = [newEtags EXCEPT ![Wanted] = Tag(Source)]
  /\ UNCHANGED <<github, settings, pc, using, cache, changes, edits, boots>>

(* A refusal, a limit, a timeout, or a body that does not parse.           *)
Failed ==
  /\ Fetching
  /\ Fault
  /\ out' = Append(out, Previous(Wanted))
  /\ UNCHANGED <<github, settings, pc, using, newEtags, cache, changes, edits, boots>>

(* The new board and ETags replace the old under one lock.                 *)
Swap ==
  /\ pc = "fetching"
  /\ Len(out) = Len(using.repos)
  /\ pc' = "idle"
  /\ board' = out
  /\ etags' = newEtags
  /\ out' = << >>
  /\ UNCHANGED <<github, settings, using, newEtags, counters>>

Crash ==
  /\ pc # "down"
  /\ boots < MaxBoots
  /\ pc' = "down"
  /\ board' = << >>
  /\ etags' = [r \in Repo |-> NoEtag]
  /\ out' = << >>
  /\ newEtags' = [r \in Repo |-> NoEtag]
  /\ UNCHANGED <<github, settings, using, counters>>

Lists(source, runs) ==
  github' = [github EXCEPT ![source] = [runs |-> runs, version |-> @.version + 1]]

(* At GitHub a run is queued, or one that is not over moves on; or the     *)
(* answer comes to name no run at all, which parse_runs takes for an empty *)
(* listing ("tolerant by design").                                         *)
GitHubMoves ==
  /\ changes < MaxChanges
  /\ changes' = changes + 1
  /\ \E s \in Owner \X Repo :
       LET runs == github[s].runs
       IN \/ Lists(s, <<Queued>> \o runs)
          \/ runs # << >> /\ Lists(s, << >>)
          \/ \E i \in DOMAIN runs : \E r \in Follows(runs[i]) : Lists(s, [runs EXCEPT ![i] = r])
  /\ UNCHANGED <<settings, pc, refresh, cache, edits, faults, boots>>

Reconfigure ==
  /\ edits < MaxEdits
  /\ edits' = edits + 1
  /\ settings' \in Configs \ {settings}
  /\ UNCHANGED <<github, pc, refresh, cache, changes, faults, boots>>

Cycle == Start \/ Begin \/ Fresh \/ NotModified \/ Failed \/ Swap
Next == Cycle \/ Crash \/ GitHubMoves \/ Reconfigure

(* The lap comes round and every request carries a timeout.                *)
Fairness == WF_vars(Cycle)

Spec == Init /\ [][Next]_vars
FairSpec == Spec /\ Fairness

-----------------------------------------------------------------------------
(* Properties.                                                             *)

Etag == {NoEtag} \union (Owner \X Repo \X (0 .. MaxChanges))
RowType(row) ==
  /\ row.repo \in Repo
  /\ Len(row.runs) <= RunsPerRepo
  /\ \A i \in DOMAIN row.runs : row.runs[i] \in RunStates
  /\ row.of \in Etag

\* The types, with at most RUNS_PER_REPO runs drawn and one row per
\* repository configured.
TypeOK ==
  /\ settings \in Configs /\ using \in Configs
  /\ pc \in {"down", "idle", "fetching"}
  /\ \A i \in DOMAIN board : RowType(board[i])
  /\ \A i \in DOMAIN out : RowType(out[i])
  /\ Len(out) <= Len(using.repos)
  /\ etags \in [Repo -> Etag] /\ newEtags \in [Repo -> Etag]
  /\ changes \in 0 .. MaxChanges /\ edits \in 0 .. MaxEdits
  /\ faults \in 0 .. MaxFaults /\ boots \in 0 .. MaxBoots

Rows == {board[i] : i \in DOMAIN board}
RowOf(r) == CHOOSE row \in Rows : row.repo = r
Shown == {row.repo : row \in Rows}

\* The row a 304 will keep is the listing its ETag names: the board never
\* quotes an ETag for something else than what it shows (ci.rs, refresh).
EtagVouches ==
  \A row \in Rows :
    row.of # NoEtag /\ etags[row.repo] # NoEtag => row.of = etags[row.repo]

\* "A GitHub hiccup must not blank the board, and it must never turn a green
\* centipede red": while a repository stays on the board its row is never
\* emptied but by a listing, and never goes back to an older one of the same owner.
RowsStand ==
  [][\A r \in Shown :
       r \in {row.repo : row \in Rows'} =>
         LET was == RowOf(r).of
             is == (RowOf(r)').of
         IN was # NoEtag =>
              is # NoEtag /\ (is[1] = was[1] => is[3] >= was[3])]_vars

\* When GitHub, the network and the configuration come to rest, the board
\* comes to show what GitHub lists, for every configured repository.
BoardCatchesUp ==
  <>[](\A i \in DOMAIN settings.repos :
         /\ settings.repos[i] \in Shown
         /\ RowOf(settings.repos[i]).of = Tag(<<settings.owner, settings.repos[i]>>))

\* "Nothing known yet: an empty row draws as unknown" (ci.rs:257): a row that
\* tells of no listing stands only while no answer about its repository is kept.
BlankIsUnknown ==
  \A row \in Rows : row.of = NoEtag => etags[row.repo] = NoEtag
=============================================================================
