------------------------- MODULE MCSandboxLifecycle -------------------------
(* Small instances of SandboxLifecycle for TLC: who the workers are.       *)
EXTENDS SandboxLifecycle, TLC

CONSTANTS
    Turners, Reapers, Admins, Deleters,  \* the workers, by what they do
    Interrupters,
    Front,                               \* the workers of the first process
    p1, p2

MCWorkers == Turners \cup Reapers \cup Admins \cup Deleters \cup Interrupters
MCProcesses == {p1, p2}
MCHome == [w \in MCWorkers |-> IF w \in Front THEN p1 ELSE p2]
MCRoles == [w \in MCWorkers |->
    (IF w \in Turners THEN {"turn"} ELSE {})
    \cup (IF w \in Reapers THEN {"reconcile"} ELSE {})
    \cup (IF w \in Admins THEN {"release"} ELSE {})
    \cup (IF w \in Deleters THEN {"delete"} ELSE {})
    \cup (IF w \in Interrupters THEN {"interrupt"} ELSE {})]

Symmetry == Permutations(Boxes) \cup Permutations(Sessions)
\* Turns of one process are interchangeable.
TurnSymmetry == Symmetry \cup Permutations(Turners)
=============================================================================
