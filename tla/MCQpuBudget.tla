---------------------------- MODULE MCQpuBudget ----------------------------
(***************************************************************************)
(* One agent with four solves competes for two admissions per three ticks, *)
(* a second agent's solve prunes with its own clock readings; five ticks   *)
(* let a window fill, expire and fill again.                               *)
(***************************************************************************)
EXTENDS QpuBudget, TLC

CONSTANTS a, b, a1, a2, a3, a4, b1

MCAgents   == {a, b}
MCRequests == {a1, a2, a3, a4, b1}
MCAgentOf  == [r \in MCRequests |-> IF r = b1 THEN b ELSE a]
Symmetry   == Permutations({a1, a2, a3, a4})
=============================================================================
