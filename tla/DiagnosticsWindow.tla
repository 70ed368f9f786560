------------------------- MODULE DiagnosticsWindow -------------------------
(***************************************************************************)
(* The diagnostics window (open_persisted_window and window_open in        *)
(* src/diag.rs, the boot in src/main.rs): the memory report answers only   *)
(* for a while, and restarting the process does not renew that while.  The *)
(* deadline is a marker on disk in wall-clock time; a process holds its    *)
(* own copies, one per clock, and serves while both lie ahead.             *)
(*                                                                         *)
(* Three clocks: `now' is time itself; the wall clock shows `now + skew'   *)
(* and can be stepped; the monotonic clock `awake' stands still while the  *)
(* host sleeps.  A kill leaves the file system as the process saw it; a    *)
(* power loss leaves, of what was not synced, the old or the new.          *)
(***************************************************************************)
EXTENDS Integers

CONSTANTS
  Requests,   \* the windows an operator may ask for (parse_diagnostics_window)
  MaxWindow,  \* diag::MAX_WINDOW_MINS
  MaxTime,    \* bound: the clock
  MaxStep,    \* bound: how far the wall clock is stepped, either way
  MaxKills, MaxOutages, \* bounds: kills of the process, power losses
  MaxGrants,  \* bound: times the operator removes the marker
  MaxFaults   \* bound: failed writes and damaged markers

ASSUME WindowAssumption == MaxWindow \in Nat /\ Requests \subseteq 1 .. MaxWindow
ASSUME BoundAssumption ==
  /\ MaxTime \in Nat /\ MaxStep \in Nat /\ MaxKills \in Nat /\ MaxOutages \in Nat
  /\ MaxGrants \in Nat /\ MaxFaults \in Nat

VARIABLES
  now, skew, awake, asleep, \* the clocks, and is the host suspended?
  pc,      \* "down", "reading", "writing", "renamed", "setting", "serving" or "closed"
  marker,  \* the marker as processes see it: a deadline, Absent or Garbled
  durable, \* the marker as a power loss may leave it
  readAt,  \* the wall clock open_persisted_window read
  asked,   \* the window this process was asked for
  secs,    \* the time it is to serve for
  closesWall, closesAwake, \* CLOSES_AT_WALL and CLOSES_AT
  late,    \* wall time from reading the clock to setting the deadline (history)
  granted, \* the window recorded since the last grant (history)
  exposed, \* time served since the last grant (history)
  served,  \* time served by this process (history)
  kills, outages, grants, faults \* the bounded counters

clocks == <<now, skew, awake, asleep>>
disk == <<marker, durable>>
process == <<readAt, asked, secs, closesWall, closesAwake>>
history == <<late, granted, exposed, served>>
counters == <<kills, outages, grants, faults>>
vars == <<clocks, pc, disk, process, history, counters>>

\* No deadline: before any the clock can show.
Absent == -10000
Garbled == -20000
Wall == now + skew
Fault == faults < MaxFaults /\ faults' = faults + 1

\* Fault for testing OpenWithinRecord: only the monotonic clock is asked.
OpenWhileAwake == pc = "serving" /\ ~asleep /\ awake < closesAwake
\* diag::window_open, on a host that answers.
Open == pc = "serving" /\ ~asleep /\ Wall < closesWall /\ awake < closesAwake

\* Fault for testing ProcessIsBounded: any deadline ahead is believed.
BelieveAny(m) == m > Wall
\* A deadline ahead, and no further ahead than a window can be.
Believed(m) == m > Wall /\ m - Wall <= MaxWindow

\* Only a marker that is not there is permission to open a window.
Unopened(m) == m = Absent

-----------------------------------------------------------------------------
Init ==
  /\ now = 0 /\ skew = 0 /\ awake = 0 /\ asleep = FALSE
  /\ pc = "down"
  /\ marker = Absent /\ durable = Absent
  /\ readAt = 0 /\ asked = 0 /\ secs = 0 /\ closesWall = 0 /\ closesAwake = 0
  /\ late = 0 /\ granted = 0 /\ exposed = 0 /\ served = 0
  /\ kills = 0 /\ outages = 0 /\ grants = 0 /\ faults = 0

(* A process is started with --diagnostics.                                *)
Boot ==
  /\ pc = "down" /\ ~asleep
  /\ pc' = "reading"
  /\ asked' \in Requests
  /\ served' = 0
  /\ UNCHANGED <<clocks, disk, readAt, secs, closesWall, closesAwake, late, granted, exposed, counters>>

(* The marker is absent: a window is to be recorded.                       *)
ReadAbsent ==
  /\ pc = "reading" /\ ~asleep
  /\ Unopened(marker)
  /\ pc' = "writing"
  /\ readAt' = Wall
  /\ secs' = asked
  /\ granted' = asked
  /\ UNCHANGED <<clocks, disk, asked, closesWall, closesAwake, late, exposed, served, counters>>

(* Inside a window somebody opened: what is left of it.                    *)
ReadOpen ==
  /\ pc = "reading" /\ ~asleep
  /\ ~Unopened(marker)
  /\ Believed(marker)
  /\ pc' = "setting"
  /\ readAt' = Wall
  /\ secs' = marker - Wall
  /\ UNCHANGED <<clocks, disk, asked, closesWall, closesAwake, history, counters>>

(* Over, too far ahead, or not to be read: the route is never mounted.     *)
ReadSpent ==
  /\ pc = "reading" /\ ~asleep
  /\ ~Unopened(marker)
  /\ ~Believed(marker)
  /\ pc' = "closed"
  /\ UNCHANGED <<clocks, disk, process, history, counters>>

(* The temporary file is written, synced and renamed to the marker.        *)
Rename ==
  /\ pc = "writing" /\ ~asleep
  /\ \/ pc' = "renamed" /\ marker' = readAt + secs /\ UNCHANGED faults
     \/ pc' = "closed" /\ UNCHANGED marker /\ Fault
  /\ UNCHANGED <<clocks, durable, process, history, kills, outages, grants>>

(* Fault for testing GrantIsBounded: the directory is not synced.          *)
NoSync ==
  /\ pc = "renamed" /\ ~asleep
  /\ pc' = "setting"
  /\ UNCHANGED <<clocks, disk, process, history, counters>>

(* The directory is synced, or cannot be.                                  *)
SyncDir ==
  /\ pc = "renamed" /\ ~asleep
  /\ \/ pc' = "setting" /\ durable' = marker /\ UNCHANGED faults
     \/ pc' = "closed" /\ UNCHANGED durable /\ Fault
  /\ UNCHANGED <<clocks, marker, process, history, kills, outages, grants>>

(* set_deadline: both deadlines count from the clocks as they are by now.  *)
SetDeadline ==
  /\ pc = "setting" /\ ~asleep
  /\ pc' = "serving"
  /\ closesWall' = Wall + secs
  /\ closesAwake' = awake + secs
  /\ late' = Wall - readAt
  /\ UNCHANGED <<clocks, disk, readAt, asked, secs, granted, exposed, served, counters>>

Tick ==
  /\ now < MaxTime
  /\ now' = now + 1
  /\ awake' = IF asleep THEN awake ELSE awake + 1
  /\ exposed' = IF Open THEN exposed + 1 ELSE exposed
  /\ served' = IF Open THEN served + 1 ELSE served
  /\ UNCHANGED <<skew, asleep, pc, disk, process, late, granted, counters>>

(* The host is suspended, or resumes.                                      *)
Suspend ==
  /\ asleep' = ~asleep
  /\ UNCHANGED <<now, skew, awake, pc, disk, process, history, counters>>

StepClock ==
  /\ skew = 0
  /\ skew' \in (0 - MaxStep .. MaxStep) \ {0}
  /\ UNCHANGED <<now, awake, asleep, pc, disk, process, history, counters>>

Kill ==
  /\ pc # "down" /\ ~asleep
  /\ kills < MaxKills
  /\ kills' = kills + 1
  /\ pc' = "down"
  /\ UNCHANGED <<clocks, disk, process, history, outages, grants, faults>>

PowerLoss ==
  /\ outages < MaxOutages
  /\ outages' = outages + 1
  /\ pc' = "down"
  /\ asleep' = FALSE
  /\ marker' \in {marker, durable}
  /\ durable' = marker'
  /\ UNCHANGED <<now, skew, awake, process, history, kills, grants, faults>>

(* The system writes back what nobody synced.                              *)
WriteBack ==
  /\ durable # marker
  /\ durable' = marker
  /\ UNCHANGED <<clocks, pc, marker, process, history, counters>>

(* The operator, told that the window is spent, removes the marker.        *)
Clear ==
  /\ grants < MaxGrants
  /\ grants' = grants + 1
  /\ marker # Absent /\ ~Believed(marker)
  /\ ~Open /\ ~asleep
  /\ pc \in {"down", "serving", "closed"}
  /\ marker' = Absent
  /\ exposed' = 0
  /\ UNCHANGED <<clocks, pc, durable, process, late, granted, served, kills, outages, faults>>

Damage ==
  /\ marker # Absent
  /\ Fault
  /\ marker' = Garbled
  /\ durable' = Garbled
  /\ UNCHANGED <<clocks, pc, process, history, kills, outages, grants>>

OpenWindow == ReadAbsent \/ ReadOpen \/ ReadSpent \/ Rename \/ SyncDir \/ SetDeadline
Next ==
  \/ Boot \/ OpenWindow
  \/ Tick \/ Suspend \/ StepClock
  \/ Kill \/ PowerLoss \/ WriteBack \/ Clear \/ Damage
Spec == Init /\ [][Next]_vars

-----------------------------------------------------------------------------
(* Properties.                                                             *)

Deadline == (0 - MaxStep) .. (MaxTime + MaxStep + MaxWindow)

\* The types: a process that serves does so for at least a moment and for at
\* most MAX_WINDOW_MINS.
TypeOK ==
  /\ now \in 0 .. MaxTime /\ skew \in (0 - MaxStep) .. MaxStep
  /\ awake \in 0 .. now /\ asleep \in BOOLEAN
  /\ pc \in {"down", "reading", "writing", "renamed", "setting", "serving", "closed"}
  /\ marker \in Deadline \union {Absent, Garbled}
  /\ durable \in Deadline \union {Absent, Garbled}
  /\ asked \in Requests \union {0}
  /\ pc \in {"writing", "renamed", "setting", "serving"} => secs \in 1 .. MaxWindow
  /\ closesWall \in Deadline /\ closesAwake \in 0 .. MaxTime + MaxWindow
  /\ kills \in 0 .. MaxKills /\ outages \in 0 .. MaxOutages
  /\ grants \in 0 .. MaxGrants /\ faults \in 0 .. MaxFaults

\* "Restarting cannot extend it" (diag.rs:465): however often the process is
\* restarted, and whatever it is asked for then, it answers in all for no
\* longer than the window recorded, until the operator grants another; unless
\* the wall clock is stepped, which moves the deadline, or a process dies by a
\* kill before it synced and then the host by a power loss.
GrantIsBounded ==
  (skew = 0 /\ (kills = 0 \/ outages = 0)) => exposed <= granted

\* "Both say so": a suspended host does not carry the window past the deadline
\* on disk by more than the process took to set its own (window_open).
OpenWithinRecord ==
  Open /\ marker \notin {Absent, Garbled} => Wall < marker + late

\* "Evidence the two clocks disagree, not a long window" (diag.rs:521): with
\* the wall clock stepped any way, no process answers for more than the
\* longest window there is.
ProcessIsBounded == served <= MaxWindow
=============================================================================
