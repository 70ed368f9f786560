------------------------------ MODULE ChangeLog ------------------------------
(***************************************************************************)
(* What the transition log of the status node promises a reader of         *)
(* /api/v1/status/events, with nothing said about how it is produced.      *)
(*                                                                         *)
(* `view' is the picture the reader holds: the baseline the running process *)
(* started from with every batch recorded since applied to it.  The log    *)
(* grows by whole batches only, a batch holds at most one transition of a  *)
(* component, and each transition starts from the value the reader already *)
(* holds: nothing between the baseline and the last batch is missing,      *)
(* repeated or out of order.  A restart forgets the picture, never the log. *)
(***************************************************************************)
EXTENDS Naturals, Sequences

CONSTANTS
  Entry,    \* the components a snapshot can name
  Value,    \* the verdicts a reader can hold about one
  Nothing   \* the picture before a baseline: a function outside [Entry -> Value]

VARIABLES
  log,      \* the recorded batches, oldest first: a sequence of sets of events
  view      \* Nothing, or what the reader believes of every component

vars == <<log, view>>

Event == [component : Entry, from : Value, to : Value]

\* At most one transition per component, each from the value held.
Extends(evs, v) ==
  /\ \A e \in evs : e.from = v[e.component]
  /\ \A e, f \in evs : e.component = f.component => e = f

\* The picture after a batch has been read.
Apply(evs, v) ==
  [c \in Entry |-> IF \E e \in evs : e.component = c
                   THEN (CHOOSE e \in evs : e.component = c).to
                   ELSE v[c]]

Init ==
  /\ log = << >>
  /\ view = Nothing

\* A process that could see for the first time announces where it starts.
Baseline ==
  /\ view = Nothing
  /\ view' \in [Entry -> Value]
  /\ UNCHANGED log

\* A batch becomes durable as a whole.
Record ==
  /\ view # Nothing
  /\ Len(log') = Len(log) + 1
  /\ LET evs == log'[Len(log')]
     IN /\ evs \subseteq Event
        /\ evs # {}
        /\ Extends(evs, view)
        /\ log' = Append(log, evs)
        /\ view' = Apply(evs, view)

\* The process ends; the next one will announce a baseline of its own.
Restart ==
  /\ view' = Nothing
  /\ UNCHANGED log

Next == Baseline \/ Record \/ Restart

Spec == Init /\ [][Next]_vars
=============================================================================
