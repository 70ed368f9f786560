-------------------------- MODULE DiagnosticsProofs --------------------------
(***************************************************************************)
(* The diagnostics window for windows, clocks and faults of any size.  Its *)
(* bounds are sums of three things: the time served, the time still ahead  *)
(* of a deadline, and the window recorded.  A tick moves time from the     *)
(* second to the first; a restart may only take from the second.           *)
(***************************************************************************)
EXTENDS DiagnosticsWindow, TLAPS

Typed ==
  /\ now \in 0 .. MaxTime /\ skew \in (0 - MaxStep) .. MaxStep
  /\ awake \in 0 .. now /\ asleep \in BOOLEAN
  /\ pc \in {"down", "reading", "writing", "renamed", "setting", "serving", "closed"}
  /\ marker \in Deadline \union {Absent, Garbled}
  /\ durable \in Deadline \union {Absent, Garbled}
  /\ asked \in Requests \union {0} /\ (pc = "reading" => asked \in Requests)
  /\ secs \in Int
  /\ (pc \in {"writing", "renamed", "setting", "serving"} => secs \in 1 .. MaxWindow)
  /\ readAt \in (0 - MaxStep) .. (MaxTime + MaxStep)
  /\ closesWall \in Deadline /\ closesAwake \in 0 .. MaxTime + MaxWindow
  /\ late \in Int /\ granted \in Nat /\ exposed \in Nat /\ served \in Nat
  /\ kills \in 0 .. MaxKills /\ outages \in 0 .. MaxOutages
  /\ grants \in 0 .. MaxGrants /\ faults \in 0 .. MaxFaults

(* OpenWithinRecord: the process and the disk agree on the deadline, but   *)
(* for the time it took to set.                                            *)
Recorded ==
  /\ pc \in {"renamed", "setting", "serving"} /\ marker \notin {Absent, Garbled} =>
       marker = readAt + secs
  /\ pc = "serving" => closesWall = readAt + late + secs

(* ProcessIsBounded: what this process has served and what is ahead of it. *)
Rationed ==
  /\ served <= MaxWindow
  /\ pc \in {"reading", "writing", "renamed", "setting", "closed"} => served = 0
  /\ pc = "serving" => served <= secs /\ served + closesAwake - awake <= secs

(* GrantIsBounded: time served and time ahead are within the grant ...     *)
Live == pc = "serving" /\ now < closesWall /\ awake < closesAwake
Within ==
  /\ exposed <= granted
  /\ marker > now => exposed + marker - now <= granted
  /\ pc \in {"writing", "renamed"} => granted = secs /\ exposed = 0
  /\ pc = "setting" => exposed + secs <= granted
  /\ pc = "serving" /\ now < closesWall => exposed + closesWall - now <= granted
  /\ marker = Absent => exposed = 0

(* ... because an absent marker means that nothing was served, ...         *)
OnDisk ==
  /\ pc \in {"down", "reading"} /\ marker # Absent => durable = marker
  /\ pc = "setting" \/ Live => durable # Absent
  /\ durable = Absent => exposed = 0

(* ... and because what the disk holds besides the marker is over.         *)
Spent ==
  /\ marker <= now + MaxWindow
  /\ durable # marker => durable <= now
  /\ pc = "writing" => marker = Absent
  /\ pc \in {"writing", "renamed"} => 0 <= readAt /\ readAt <= now
  /\ pc \in {"renamed", "setting"} \/ Live => marker # Absent

\* All while the wall clock shows the time.
SpentNow == skew = 0 => Spent
OnDiskNow == skew = 0 /\ kills = 0 => OnDisk
WithinNow == skew = 0 /\ (kills = 0 \/ outages = 0) => Within
Granted == SpentNow /\ OnDiskNow /\ WithinNow

IInv == Typed /\ Recorded /\ Rationed /\ Granted

-----------------------------------------------------------------------------
(* The constants are numbers, and a window asked for is not too long.      *)
LEMMA IntConstants ==
  /\ MaxTime \in Nat /\ MaxStep \in Nat /\ MaxWindow \in Nat /\ MaxKills \in Nat
  /\ MaxOutages \in Nat /\ MaxGrants \in Nat /\ MaxFaults \in Nat
  /\ \A r \in Requests : r \in 1 .. MaxWindow
  BY WindowAssumption, BoundAssumption

LEMMA InitHolds == Init => IInv
<1> SUFFICES ASSUME Init PROVE IInv
  OBVIOUS
<1>1. Typed
  <2>1. 0 \in Deadline /\ 0 \in (0 - MaxStep) .. (MaxTime + MaxStep)
    BY IntConstants DEF Deadline
  <2>2. asleep \in BOOLEAN
    BY DEF Init
  <2> QED
    BY <2>1, <2>2, IntConstants DEF Init, Typed
<1>2. Recorded /\ Rationed
  BY IntConstants DEF Init, Recorded, Rationed
<1>3. Granted
  BY IntConstants DEF Init, Granted, SpentNow, OnDiskNow, WithinNow, Spent, Within, OnDisk, Live, Absent
<1> QED
  BY <1>1, <1>2, <1>3 DEF IInv

(* A power loss leaves the marker or what the disk holds.                  *)
LEMMA PowerLossTyped == Typed /\ PowerLoss => Typed'
<1> SUFFICES ASSUME Typed, PowerLoss PROVE Typed'
  OBVIOUS
<1>1. marker' \in Deadline \union {Absent, Garbled} /\ durable' = marker'
  BY DEF Typed, PowerLoss
<1>2. asleep' \in BOOLEAN
  BY DEF PowerLoss
<1> QED
  BY <1>1, <1>2, IntConstants DEF Typed, PowerLoss, process, history

(* The types.                                                              *)
LEMMA TypedStep == Typed /\ [Next]_vars => Typed'
<1> SUFFICES ASSUME Typed, [Next]_vars PROVE Typed'
  OBVIOUS
<1> USE IntConstants DEF Typed, Deadline, Absent, Garbled, Wall,
           clocks, disk, process, history, counters
<1>1. CASE Boot
  BY <1>1 DEF Boot
<1>2. CASE ReadAbsent
  BY <1>2 DEF ReadAbsent
<1>3. CASE ReadOpen
  BY <1>3 DEF ReadOpen, Believed
<1>4. CASE ReadSpent
  BY <1>4 DEF ReadSpent, Believed
<1>5. CASE Rename
  BY <1>5 DEF Rename, Fault
<1>6. CASE SyncDir
  BY <1>6 DEF SyncDir, Fault
<1>7. CASE SetDeadline
  BY <1>7 DEF SetDeadline
<1>8. CASE Tick
  BY <1>8 DEF Tick, Open
<1>9. CASE Suspend
  BY <1>9 DEF Suspend
<1>10. CASE StepClock
  BY <1>10 DEF StepClock
<1>11. CASE Kill
  BY <1>11 DEF Kill
<1>12. CASE PowerLoss
  BY <1>12, PowerLossTyped
<1>13. CASE WriteBack
  BY <1>13 DEF WriteBack
<1>14. CASE Clear
  BY <1>14 DEF Clear, Believed
<1>15. CASE Damage
  BY <1>15 DEF Damage, Fault
<1>16. CASE UNCHANGED vars
  BY <1>16 DEF vars
<1> QED
  BY <1>1, <1>2, <1>3, <1>4, <1>5, <1>6, <1>7, <1>8, <1>9, <1>10, <1>11, <1>12, <1>13, <1>14, <1>15, <1>16
     DEF Next, OpenWindow

(* Nobody but the process that renamed it gives the marker a new deadline.  *)
LEMMA RecordedStep == Typed /\ Recorded /\ [Next]_vars => Recorded'
<1> SUFFICES ASSUME Typed, Recorded, [Next]_vars PROVE Recorded'
  OBVIOUS
<1> USE IntConstants DEF Typed, Recorded,
           clocks, disk, process, history, counters
<1>1. CASE Boot
  BY <1>1 DEF Boot
<1>2. CASE ReadAbsent
  BY <1>2 DEF ReadAbsent
<1>3. CASE ReadOpen
  BY <1>3 DEF ReadOpen, Wall, Deadline
<1>4. CASE ReadSpent
  BY <1>4 DEF ReadSpent
<1>5. CASE Rename
  BY <1>5 DEF Rename
<1>6. CASE SyncDir
  BY <1>6 DEF SyncDir
<1>7. CASE SetDeadline
  BY <1>7 DEF SetDeadline, Wall
<1>8. CASE Tick
  BY <1>8 DEF Tick
<1>9. CASE Suspend
  BY <1>9 DEF Suspend
<1>10. CASE StepClock
  BY <1>10 DEF StepClock
<1>11. CASE Kill
  BY <1>11 DEF Kill
<1>12. CASE PowerLoss
  BY <1>12 DEF PowerLoss
<1>13. CASE WriteBack
  BY <1>13 DEF WriteBack
<1>14. CASE Clear
  BY <1>14 DEF Clear
<1>15. CASE Damage
  BY <1>15 DEF Damage
<1>16. CASE UNCHANGED vars
  BY <1>16 DEF vars
<1> QED
  BY <1>1, <1>2, <1>3, <1>4, <1>5, <1>6, <1>7, <1>8, <1>9, <1>10, <1>11, <1>12, <1>13, <1>14, <1>15, <1>16
     DEF Next, OpenWindow

(* Only a tick of the monotonic clock is served, and only before the end.   *)
LEMMA RationedStep == Typed /\ Rationed /\ [Next]_vars => Rationed'
<1> SUFFICES ASSUME Typed, Rationed, [Next]_vars PROVE Rationed'
  OBVIOUS
<1> USE IntConstants DEF Typed, Rationed,
           clocks, disk, process, history, counters
<1>1. CASE Boot
  BY <1>1 DEF Boot
<1>2. CASE ReadAbsent
  BY <1>2 DEF ReadAbsent
<1>3. CASE ReadOpen
  BY <1>3 DEF ReadOpen
<1>4. CASE ReadSpent
  BY <1>4 DEF ReadSpent
<1>5. CASE Rename
  BY <1>5 DEF Rename
<1>6. CASE SyncDir
  BY <1>6 DEF SyncDir
<1>7. CASE SetDeadline
  BY <1>7 DEF SetDeadline
<1>8. CASE Tick
  BY <1>8 DEF Tick, Open
<1>9. CASE Suspend
  BY <1>9 DEF Suspend
<1>10. CASE StepClock
  BY <1>10 DEF StepClock
<1>11. CASE Kill
  BY <1>11 DEF Kill
<1>12. CASE PowerLoss
  BY <1>12 DEF PowerLoss
<1>13. CASE WriteBack
  BY <1>13 DEF WriteBack
<1>14. CASE Clear
  BY <1>14 DEF Clear
<1>15. CASE Damage
  BY <1>15 DEF Damage
<1>16. CASE UNCHANGED vars
  BY <1>16 DEF vars
<1> QED
  BY <1>1, <1>2, <1>3, <1>4, <1>5, <1>6, <1>7, <1>8, <1>9, <1>10, <1>11, <1>12, <1>13, <1>14, <1>15, <1>16
     DEF Next, OpenWindow

-----------------------------------------------------------------------------
(* The grant.  While the wall clock has not been stepped it shows the time. *)

(* What the disk holds besides the marker is over.                          *)
LEMMA SpentStep == Typed /\ SpentNow /\ [Next]_vars => SpentNow'
<1> SUFFICES ASSUME Typed, SpentNow, [Next]_vars PROVE SpentNow'
  OBVIOUS
<1> USE IntConstants DEF Typed, Wall, Deadline, Absent, Garbled, SpentNow, Spent, Live,
           clocks, disk, process, history, counters
<1>1. CASE Boot
  BY <1>1 DEF Boot
<1>2. CASE ReadAbsent
  BY <1>2 DEF ReadAbsent, Unopened
<1>3. CASE ReadOpen
  BY <1>3 DEF ReadOpen, Believed, Unopened
<1>4. CASE ReadSpent
  BY <1>4 DEF ReadSpent
<1>5. CASE Rename
  BY <1>5 DEF Rename, Fault
<1>6. CASE SyncDir
  BY <1>6 DEF SyncDir, Fault
<1>7. CASE SetDeadline
  BY <1>7 DEF SetDeadline
<1>8. CASE Tick
  BY <1>8 DEF Tick, Open
<1>9. CASE Suspend
  BY <1>9 DEF Suspend
<1>10. CASE StepClock
  BY <1>10 DEF StepClock
<1>11. CASE Kill
  BY <1>11 DEF Kill
<1>12. CASE PowerLoss
  BY <1>12 DEF PowerLoss
<1>13. CASE WriteBack
  BY <1>13 DEF WriteBack
<1>14. CASE Clear
  BY <1>14 DEF Clear, Believed, Open
<1>15. CASE Damage
  BY <1>15 DEF Damage, Fault
<1>16. CASE UNCHANGED vars
  BY <1>16 DEF vars
<1> QED
  BY <1>1, <1>2, <1>3, <1>4, <1>5, <1>6, <1>7, <1>8, <1>9, <1>10, <1>11, <1>12, <1>13, <1>14, <1>15, <1>16
     DEF Next, OpenWindow

(* Without a kill, an absent marker means that nothing was served.          *)
LEMMA OnDiskStep == Typed /\ Granted /\ [Next]_vars => OnDiskNow'
<1> SUFFICES ASSUME Typed, Granted, [Next]_vars PROVE OnDiskNow'
  OBVIOUS
<1> USE IntConstants DEF Typed, Wall, Deadline, Absent, Garbled, Granted, SpentNow, OnDiskNow, WithinNow, Spent, Within, OnDisk, Live,
           clocks, disk, process, history, counters
<1>1. CASE Boot
  BY <1>1 DEF Boot
<1>2. CASE ReadAbsent
  BY <1>2 DEF ReadAbsent, Unopened
<1>3. CASE ReadOpen
  BY <1>3 DEF ReadOpen, Believed, Unopened
<1>4. CASE ReadSpent
  BY <1>4 DEF ReadSpent
<1>5. CASE Rename
  BY <1>5 DEF Rename, Fault
<1>6. CASE SyncDir
  BY <1>6 DEF SyncDir, Fault
<1>7. CASE SetDeadline
  BY <1>7 DEF SetDeadline
<1>8. CASE Tick
  BY <1>8 DEF Tick, Open
<1>9. CASE Suspend
  BY <1>9 DEF Suspend
<1>10. CASE StepClock
  BY <1>10 DEF StepClock
<1>11. CASE Kill
  BY <1>11 DEF Kill
<1>12. CASE PowerLoss
  BY <1>12 DEF PowerLoss
<1>13. CASE WriteBack
  BY <1>13 DEF WriteBack
<1>14. CASE Clear
  BY <1>14 DEF Clear, Believed, Open
<1>15. CASE Damage
  BY <1>15 DEF Damage, Fault
<1>16. CASE UNCHANGED vars
  BY <1>16 DEF vars
<1> QED
  BY <1>1, <1>2, <1>3, <1>4, <1>5, <1>6, <1>7, <1>8, <1>9, <1>10, <1>11, <1>12, <1>13, <1>14, <1>15, <1>16
     DEF Next, OpenWindow

(* Of what it leaves, what is not the marker is over.                      *)
LEMMA PowerLossWithin == Typed /\ Granted /\ PowerLoss => WithinNow'
<1> SUFFICES ASSUME Typed, Granted, PowerLoss, skew' = 0 /\ (kills' = 0 \/ outages' = 0) PROVE Within'
  BY DEF WithinNow
<1>0. skew = 0 /\ kills = 0
  BY IntConstants DEF Typed, PowerLoss
<1>1. Spent /\ OnDisk /\ Within
  BY <1>0 DEF Granted, SpentNow, OnDiskNow, WithinNow
<1>2. /\ pc' = "down" /\ marker' \in {marker, durable}
      /\ UNCHANGED <<now, exposed, granted>>
  BY DEF PowerLoss, history
<1>3. marker' = Absent => exposed' = 0
  BY <1>1, <1>2 DEF Within, OnDisk
<1>4. exposed' <= granted' /\ (marker' > now' => exposed' + marker' - now' <= granted')
  <2>1. CASE marker' = marker
    BY <1>1, <1>2, <2>1 DEF Within
  <2>2. CASE marker' = durable /\ durable # marker
    <3>1. durable <= now /\ durable \in Int /\ now \in Int
      BY <1>1, <2>2, IntConstants DEF Spent, Typed, Deadline, Absent, Garbled
    <3> QED
      BY <1>1, <1>2, <2>2, <3>1 DEF Within
  <2> QED
    BY <1>2, <2>1, <2>2
<1> QED
  BY <1>2, <1>3, <1>4 DEF Within

(* Time served and time ahead stay within the grant.                        *)
LEMMA WithinStep == Typed /\ Granted /\ [Next]_vars => WithinNow'
<1> SUFFICES ASSUME Typed, Granted, [Next]_vars PROVE WithinNow'
  OBVIOUS
<1> USE IntConstants DEF Typed, Wall, Deadline, Absent, Garbled, Granted, SpentNow, OnDiskNow, WithinNow, Spent, Within, OnDisk, Live,
           clocks, disk, process, history, counters
<1>1. CASE Boot
  BY <1>1 DEF Boot
<1>2. CASE ReadAbsent
  BY <1>2 DEF ReadAbsent, Unopened
<1>3. CASE ReadOpen
  BY <1>3 DEF ReadOpen, Believed, Unopened
<1>4. CASE ReadSpent
  BY <1>4 DEF ReadSpent
<1>5. CASE Rename
  BY <1>5 DEF Rename, Fault
<1>6. CASE SyncDir
  BY <1>6 DEF SyncDir, Fault
<1>7. CASE SetDeadline
  BY <1>7 DEF SetDeadline
<1>8. CASE Tick
  BY <1>8 DEF Tick, Open
<1>9. CASE Suspend
  BY <1>9 DEF Suspend
<1>10. CASE StepClock
  BY <1>10 DEF StepClock
<1>11. CASE Kill
  BY <1>11 DEF Kill
<1>12. CASE PowerLoss
  BY <1>12, PowerLossWithin
<1>13. CASE WriteBack
  BY <1>13 DEF WriteBack
<1>14. CASE Clear
  BY <1>14 DEF Clear, Believed, Open
<1>15. CASE Damage
  BY <1>15 DEF Damage, Fault
<1>16. CASE UNCHANGED vars
  BY <1>16 DEF vars
<1> QED
  BY <1>1, <1>2, <1>3, <1>4, <1>5, <1>6, <1>7, <1>8, <1>9, <1>10, <1>11, <1>12, <1>13, <1>14, <1>15, <1>16
     DEF Next, OpenWindow

-----------------------------------------------------------------------------
LEMMA StepHolds == IInv /\ [Next]_vars => IInv'
<1> SUFFICES ASSUME IInv, [Next]_vars PROVE IInv'
  OBVIOUS
<1>1. Typed' /\ Recorded' /\ Rationed'
  BY TypedStep, RecordedStep, RationedStep DEF IInv
<1>2. Granted'
  BY SpentStep, OnDiskStep, WithinStep DEF IInv, Granted
<1> QED
  BY <1>1, <1>2 DEF IInv

LEMMA Invariant == Spec => []IInv
  BY InitHolds, StepHolds, PTL DEF Spec

(* The clocks, the marker and both deadlines keep their types, and a       *)
(* process that serves does so for at least a moment and at most           *)
(* MAX_WINDOW_MINS (open_persisted_window).                                *)
THEOREM DiagnosticsTypeCorrect == Spec => []TypeOK
<1>1. IInv => TypeOK
  BY DEF IInv, Typed, TypeOK
<1> QED
  BY <1>1, Invariant, PTL

(* A suspended host does not carry the window past the deadline on disk by *)
(* more than the process took to set its own (window_open).                *)
THEOREM OpenStaysWithinRecord == Spec => []OpenWithinRecord
<1>1. IInv => OpenWithinRecord
  <2> SUFFICES ASSUME IInv, Open, marker \notin {Absent, Garbled} PROVE Wall < marker + late
    BY DEF OpenWithinRecord
  <2>1. Wall < closesWall /\ pc = "serving"
    BY DEF Open
  <2>2. closesWall = readAt + late + secs /\ marker = readAt + secs
    BY <2>1 DEF IInv, Recorded
  <2>3. readAt \in Int /\ secs \in Int /\ late \in Int
    BY IntConstants DEF IInv, Typed
  <2> QED
    BY <2>1, <2>2, <2>3
<1> QED
  BY <1>1, Invariant, PTL

(* With the wall clock stepped any way, no process answers for more than   *)
(* the longest window there is (window_open asks both clocks).             *)
THEOREM ProcessStaysBounded == Spec => []ProcessIsBounded
<1>1. IInv => ProcessIsBounded
  BY DEF IInv, Rationed, ProcessIsBounded
<1> QED
  BY <1>1, Invariant, PTL

(* However often the process is restarted, and whatever it is asked for    *)
(* then, it answers in all for no longer than the window recorded, until   *)
(* the operator grants another (open_persisted_window).                    *)
THEOREM GrantStaysBounded == Spec => []GrantIsBounded
<1>1. IInv => GrantIsBounded
  BY DEF IInv, Granted, WithinNow, Within, GrantIsBounded
<1> QED
  BY <1>1, Invariant, PTL
=============================================================================
