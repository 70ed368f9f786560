------------------------------ MODULE LiveFeed ------------------------------
(***************************************************************************)
(* The live feed (live_sse, live_ws_loop and the end of the lap in         *)
(* src/adapter.rs; RosterCache in src/roster.rs): the lap refreshes the    *)
(* public roster when it is due and pushes roster and headline to every    *)
(* open socket through a broadcast channel.  A viewer is greeted with the  *)
(* cached roster and subscribes afterwards, so it can miss what is sent in *)
(* between, and one that reads slowly loses the oldest messages: the       *)
(* channel keeps a few.  The lap repeats the whole roster every time, and  *)
(* that is what brings such viewers up to date.  A roster is modelled by   *)
(* the version of the corpus it was built from; 0 is the empty one.        *)
(***************************************************************************)
EXTENDS Naturals, Sequences

CONSTANTS
  Viewer,      \* sockets
  Capacity,    \* messages the channel keeps (64)
  MaxChanges,  \* bound: changes of the corpus
  MaxTurns,    \* bound: changes of the headline or of our own network
  MaxFaults,   \* bound: roster builds that fail
  MaxBoots     \* bound: starts of the process

ASSUME FeedAssumption ==
  /\ Capacity \in Nat \ {0} /\ MaxChanges \in Nat /\ MaxTurns \in Nat
  /\ MaxFaults \in Nat /\ MaxBoots \in Nat

VARIABLES
  corpus,  \* the version of the scores in the corpus
  outlook, \* the headline a sweep would give: "unknown" when it is blind
  pc,      \* "down", "starting", "started", "idle", "swept", "published",
           \* "building" or "refreshed"
  agg,     \* the headline of this lap
  served,  \* the headline /api/v1/status serves
  cache,   \* the roster /api/v1/scoring serves
  stage,   \* per viewer: "gone", "greeting" or "live"
  inbox,   \* per viewer: the messages sent and not received yet
  shown,   \* per viewer: the roster and headline on its screen
  pushed,  \* the headline last pushed (history variable)
  changes, turns, faults, boots \* the bounded counters

lap == <<pc, agg, served, cache, pushed>>
viewers == <<stage, inbox, shown>>
world == <<corpus, outlook, changes, turns>>
feedVars == <<world, lap, viewers, faults, boots>>

Headline == {"operational", "partial_outage", "unknown"}
Nothing == "nothing"
Delta(roster, overall) == [roster |-> roster, overall |-> overall]
Fault == faults < MaxFaults /\ faults' = faults + 1

\* The oldest message makes way, and its reader will find it has lagged.
Kept(q) == IF Len(q) > Capacity THEN Tail(q) ELSE q
Send(d) == inbox' = [v \in Viewer |-> IF stage[v] = "gone" THEN << >> ELSE Kept(Append(inbox[v], d))]

\* broadcast::Sender::receiver_count
Subscribed == {v \in Viewer : stage[v] = "live"}

-----------------------------------------------------------------------------
FeedInit ==
  /\ corpus = 1 /\ outlook = "operational"
  /\ pc = "down" /\ agg = Nothing /\ served = Nothing /\ cache = 0 /\ pushed = Nothing
  /\ stage = [v \in Viewer |-> "gone"]
  /\ inbox = [v \in Viewer |-> << >>]
  /\ shown = [v \in Viewer |-> Delta(0, Nothing)]
  /\ changes = 0 /\ turns = 0 /\ faults = 0 /\ boots = 0

Start ==
  /\ pc = "down"
  /\ boots < MaxBoots
  /\ boots' = boots + 1
  /\ pc' = "starting"
  /\ UNCHANGED <<world, agg, served, cache, pushed, viewers, faults>>

(* refresh_roster: the corpus is read and the cache replaced ...           *)
Replace(then) ==
  /\ pc' = then
  /\ cache' = corpus
  /\ UNCHANGED <<world, agg, served, pushed, viewers, faults, boots>>

(* ... or the build fails and the old roster stays ...                     *)
BuildFails(then) ==
  /\ Fault
  /\ pc' = then
  /\ UNCHANGED <<world, agg, served, cache, pushed, viewers, boots>>

(* ... and what was built is sent.                                         *)
Announce(then) ==
  /\ pc' = then
  /\ Send(Delta(cache, Nothing))
  /\ UNCHANGED <<world, agg, served, cache, pushed, stage, shown, faults, boots>>

(* The first roster, while the adapter starts.                             *)
FirstRoster ==
  \/ pc = "starting" /\ (Replace("started") \/ BuildFails("idle"))
  \/ pc = "started" /\ Announce("idle")

Sweep ==
  /\ pc = "idle"
  /\ pc' = "swept"
  /\ agg' = outlook
  /\ UNCHANGED <<world, served, cache, pushed, viewers, faults, boots>>

(* A sighted snapshot replaces the one served.                             *)
Publish ==
  /\ pc = "swept"
  /\ pc' = "published"
  /\ served' = IF agg = "unknown" THEN served ELSE agg
  /\ UNCHANGED <<world, agg, cache, pushed, viewers, faults, boots>>

(* The roster is refreshed when its cadence has come round.                *)
NotDue ==
  /\ pc = "published"
  /\ pc' = "refreshed"
  /\ UNCHANGED <<world, agg, served, cache, pushed, viewers, faults, boots>>
Refresh ==
  \/ pc = "published" /\ (Replace("building") \/ BuildFails("refreshed"))
  \/ pc = "building" /\ Announce("refreshed")

(* Fault for testing FeedCatchesUp: only a new headline is pushed.          *)
PushNews ==
  /\ pc = "refreshed"
  /\ pc' = "idle"
  /\ IF Subscribed = {} \/ agg = pushed THEN UNCHANGED <<inbox, pushed>>
     ELSE Send(Delta(cache, agg)) /\ pushed' = agg
  /\ UNCHANGED <<world, agg, served, cache, stage, shown, faults, boots>>

(* The end of the lap: roster and headline, if anybody listens.            *)
Push ==
  /\ pc = "refreshed"
  /\ pc' = "idle"
  /\ IF Subscribed = {} THEN UNCHANGED <<inbox, pushed>>
     ELSE Send(Delta(cache, agg)) /\ pushed' = agg
  /\ UNCHANGED <<world, agg, served, cache, stage, shown, faults, boots>>

(* A viewer connects and is greeted with the cached roster.                *)
Connect(v) ==
  /\ pc # "down"
  /\ stage[v] = "gone"
  /\ stage' = [stage EXCEPT ![v] = "greeting"]
  /\ shown' = [shown EXCEPT ![v] = Delta(cache, Nothing)]
  /\ UNCHANGED <<world, lap, inbox, faults, boots>>

(* Fault for testing RosterNeverGoesBack: subscribed first, greeted after.  *)
GreetLate(v) ==
  /\ stage[v] = "greeting"
  /\ stage' = [stage EXCEPT ![v] = "live"]
  /\ shown' = [shown EXCEPT ![v] = Delta(cache, Nothing)]
  /\ UNCHANGED <<world, lap, inbox, faults, boots>>

(* It subscribes, and will receive only what is sent from now on.          *)
Subscribe(v) ==
  /\ stage[v] = "greeting"
  /\ stage' = [stage EXCEPT ![v] = "live"]
  /\ inbox' = [inbox EXCEPT ![v] = << >>]
  /\ UNCHANGED <<world, lap, shown, faults, boots>>

\* What a delta leaves out stays as it was.
Receive(v) ==
  /\ stage[v] = "live" /\ inbox[v] # << >>
  /\ LET d == Head(inbox[v])
     IN shown' = [shown EXCEPT ![v] =
                    Delta(d.roster, IF d.overall = Nothing THEN @.overall ELSE d.overall)]
  /\ inbox' = [inbox EXCEPT ![v] = Tail(@)]
  /\ UNCHANGED <<world, lap, stage, faults, boots>>

Disconnect(v) ==
  /\ stage[v] # "gone"
  /\ stage' = [stage EXCEPT ![v] = "gone"]
  /\ inbox' = [inbox EXCEPT ![v] = << >>]
  /\ UNCHANGED <<world, lap, shown, faults, boots>>

(* The process dies, and every socket and every cache with it.             *)
Crash ==
  /\ pc # "down"
  /\ boots < MaxBoots
  /\ pc' = "down" /\ agg' = Nothing /\ served' = Nothing /\ cache' = 0 /\ pushed' = Nothing
  /\ stage' = [v \in Viewer |-> "gone"]
  /\ inbox' = [v \in Viewer |-> << >>]
  /\ UNCHANGED <<world, shown, faults, boots>>

(* Scores arrive in the corpus; the fabric, or our sight of it, changes.   *)
CorpusChanges ==
  /\ changes < MaxChanges
  /\ changes' = changes + 1
  /\ corpus' = corpus + 1
  /\ UNCHANGED <<outlook, turns, lap, viewers, faults, boots>>
OutlookChanges ==
  /\ turns < MaxTurns
  /\ turns' = turns + 1
  /\ outlook' \in Headline \ {outlook}
  /\ UNCHANGED <<corpus, changes, lap, viewers, faults, boots>>

Lap == FirstRoster \/ Sweep \/ Publish \/ NotDue \/ Refresh \/ Push
FeedNext ==
  \/ Start \/ Lap \/ Crash \/ CorpusChanges \/ OutlookChanges
  \/ \E v \in Viewer : Connect(v) \/ Subscribe(v) \/ Receive(v) \/ Disconnect(v)

(* The interval ticks, and a socket that takes its messages keeps on.      *)
FeedFairness ==
  /\ WF_feedVars(Start) /\ WF_feedVars(Lap)
  /\ \A v \in Viewer : WF_feedVars(Subscribe(v)) /\ WF_feedVars(Receive(v))

FeedSpec == FeedInit /\ [][FeedNext]_feedVars
FairFeedSpec == FeedSpec /\ FeedFairness

-----------------------------------------------------------------------------
(* Properties.                                                             *)

Revision == 0 .. (1 + MaxChanges)
Message == [roster : Revision, overall : Headline \union {Nothing}]

\* The types; no reader keeps more messages waiting than the channel holds.
FeedTypeOK ==
  /\ corpus \in Revision /\ outlook \in Headline
  /\ pc \in {"down", "starting", "started", "idle", "swept", "published", "building", "refreshed"}
  /\ {agg, served, pushed} \subseteq Headline \union {Nothing}
  /\ cache \in Revision
  /\ stage \in [Viewer -> {"gone", "greeting", "live"}]
  /\ \A v \in Viewer : Len(inbox[v]) <= Capacity /\ \A i \in DOMAIN inbox[v] : inbox[v][i] \in Message
  /\ shown \in [Viewer -> Message]
  /\ changes \in 0 .. MaxChanges /\ turns \in 0 .. MaxTurns
  /\ faults \in 0 .. MaxFaults /\ boots \in 0 .. MaxBoots

\* While a viewer stays connected the roster on its screen never goes back to
\* an older one, whatever it missed and however the greeting fell between a
\* refresh and its announcement (live_ws_loop, refresh_roster).
RosterNeverGoesBack ==
  [][\A v \in Viewer :
       stage[v] # "gone" /\ stage'[v] # "gone" => shown'[v].roster >= shown[v].roster]_feedVars

\* When the fabric and the roster come to rest, every viewer that stays, and
\* that catches up with its messages again and again, comes to show the roster
\* and the headline as they are, even one that missed messages while it was
\* greeted or lost some because it lagged (run_lifecycle, live_ws_loop).
FeedCatchesUp ==
  \A v \in Viewer :
    <>[](stage[v] = "live") /\ []<>(inbox[v] = << >>) => <>[](shown[v] = Delta(cache, outlook))
=============================================================================
