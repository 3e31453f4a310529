---------------------------- MODULE MCSessionView ----------------------------
(* Instances of SessionView for TLC: one task the page submits, one that   *)
(* another page does.                                                      *)
EXTENDS SessionView, TLC

Ev(type) == [type |-> type, tool |-> None, as |-> None]
CallOf(c) == [type |-> "call", tool |-> c, as |-> None]
ResultOf(c, as) == [type |-> "result", tool |-> c, as |-> as]

CONSTANTS s1, s2, k1, e1, c1
MCSessions == {s1, s2}
MCSends == {k1}
MCElsewhere == {e1}
MCHome == [t \in {e1} |-> s1]
MCTools == {c1}
\* A turn with a tool call that ends well, one that is interrupted, one that only ends.
MCScripts == [t \in {k1, e1} |->
    IF t = k1 THEN {<<Ev("end")>>}
    ELSE {<<CallOf(c1), ResultOf(c1, "completed"), Ev("end")>>, <<Ev("interrupted"), Ev("end")>>}]
=============================================================================
