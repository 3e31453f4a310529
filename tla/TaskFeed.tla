------------------------------ MODULE TaskFeed -------------------------------
(***************************************************************************)
(* What a task stream promises those who watch it: every task has a log    *)
(* that only grows, and a viewer is shown the log of its task from the     *)
(* first event on, in order, none twice and none left out, up to the first *)
(* event that ends it.  TaskStream implements this over Redis, Server-Sent *)
(* Events and a client that reconnects; SessionView is a browser that      *)
(* relies on it.                                                           *)
(***************************************************************************)
EXTENDS Naturals, Sequences

CONSTANTS
    Tasks,
    Viewers,
    Events,
    Last        \* the events that end a log for its viewers

VARIABLES
    log,        \* log[t]: the events of a task so far
    watch,      \* watch[v]: the tasks a viewer may be shown, at most one
    shown       \* shown[v]: the events a viewer was shown

feed == <<log, watch, shown>>

Init ==
    /\ log = [t \in Tasks |-> <<>>]
    /\ watch = [v \in Viewers |-> {}]
    /\ shown = [v \in Viewers |-> <<>>]

Record(t, e) ==
    /\ log' = [log EXCEPT ![t] = Append(@, e)]
    /\ UNCHANGED <<watch, shown>>

Open(v, t) ==
    /\ watch[v] = {}
    /\ watch' = [watch EXCEPT ![v] = {t}]
    /\ UNCHANGED <<log, shown>>

\* v is shown the next events, at least one; nothing follows an event of Last.
Show(v, t) ==
    /\ t \in watch[v]
    /\ \E n \in (Len(shown[v]) + 1) .. Len(log[t]) :
        /\ \A i \in 1 .. n - 1 : log[t][i] \notin Last
        /\ shown' = [shown EXCEPT ![v] = SubSeq(log[t], 1, n)]
    /\ UNCHANGED <<log, watch>>

Next ==
    \/ \E t \in Tasks, e \in Events : Record(t, e)
    \/ \E v \in Viewers, t \in Tasks : Open(v, t)
    \/ \E v \in Viewers, t \in Tasks : Show(v, t)

Spec == Init /\ [][Next]_feed
=============================================================================
