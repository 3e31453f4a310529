-------------------------- MODULE MCSessionHistory --------------------------
(* Instances of SessionHistory for TLC: a turn of the agent, a direct one,  *)
(* each with a call, and two compressions.                                  *)
EXTENDS SessionHistory, TLC

CONSTANTS t1, t2, k1, k2
MCCalls == [t \in {t1, t2} |-> 1]
Alike == Permutations({k1, k2})
=============================================================================
