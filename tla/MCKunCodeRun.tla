---------------------------- MODULE MCKunCodeRun ----------------------------
(* Instances of KunCodeRun for TLC.                                        *)
EXTENDS KunCodeRun

CONSTANTS e1, c1, c2

\* All runs are of one turn and share its execution id.
OneTurn == [r \in Runs |-> e1]
OneTurnStops == [c \in Stoppers |-> e1]
=============================================================================
