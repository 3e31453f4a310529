----------------------------- MODULE MCHumanGate -----------------------------
(* Instances of HumanGate for TLC: prompts and plan previews, one set each. *)
EXTENDS HumanGate, TLC

CONSTANTS Prompts, PlanPreviews

MCPreviews == Prompts \cup PlanPreviews
MCKind == [p \in MCPreviews |-> IF p \in Prompts THEN "kuncode" ELSE "plan"]

\* Turns, clients, plans and previews of one kind are interchangeable.
GateSymmetry ==
    Permutations(Turns) \cup Permutations(Clients) \cup Permutations(Plans)
        \cup Permutations(Prompts) \cup Permutations(PlanPreviews)
=============================================================================
