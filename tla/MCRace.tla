------------------------------- MODULE MCRace -------------------------------
(* Race for TLC.                                                           *)
EXTENDS Race

\* The booth, with its QPU and all three solvers; a deployment without Gurobi whose
\* fastest solver wins; and the xquad backends.
MCSettings ==
  {[gurobi |-> TRUE,  leap |-> TRUE,  backend |-> None,        by |-> "objective"],
   [gurobi |-> FALSE, leap |-> TRUE,  backend |-> None,        by |-> "speed"],
   [gurobi |-> FALSE, leap |-> TRUE,  backend |-> "quip",      by |-> "objective"],
   [gurobi |-> FALSE, leap |-> FALSE, backend |-> "dwave-cpu", by |-> "objective"],
   [gurobi |-> FALSE, leap |-> FALSE, backend |-> "dwave-qpu", by |-> "speed"]}

\* -400 ties with -398 and -398 with -397, but -400 does not with -397; 20 ties with
\* 22, and 22 not with 30.
MCObjectives == {-400, -398, -397}
MCTempting == -500
MCTimes == {20, 22, 30}
=============================================================================
