------------------------------- MODULE Race --------------------------------
(***************************************************************************)
(* The solver race (solvers/router.py): every provider of the field solves *)
(* the problem on a thread of its own; one thread takes their answers as   *)
(* they come, until all are in or the deadline is hit, and then picks the  *)
(* winner, the quality badge and the label of how it was won.  The label   *)
(* is computed once more from the stored rows, for the TV and after a      *)
(* reload (race_comparison of orchestration/job.py).                       *)
(*                                                                         *)
(* Objectives and times are integers.  Non-finite objectives, which a      *)
(* feasible portfolio cannot have, and times of zero, which neither a wall *)
(* clock nor the QPU's access time yields (dwave.py falls back to the wall *)
(* clock), are left out.                                                   *)
(***************************************************************************)
EXTENDS Integers, FiniteSets, SequencesExt

CONSTANTS
  Settings,    \* the deployments: [gurobi, leap : BOOLEAN, backend, by]
  Objectives,  \* objective values of feasible portfolios
  Tempting,    \* the objective of a portfolio that violates a constraint
  Times,       \* solve times that providers report
  QuipTime,    \* that of a Quip order
  None

ASSUME SettingsAssumption ==
  Settings \subseteq [gurobi : BOOLEAN, leap : BOOLEAN, by : {"objective", "speed"},
                      backend : {None, "quip", "dwave-qpu", "dwave-cpu"}]
ASSUME ValuesAssumption ==
  /\ Objectives \union {Tempting} \subseteq Int /\ Times \union {QuipTime} \subseteq Nat \ {0}
  /\ None \notin Int

VARIABLES
  setting,   \* the deployment that runs
  field,     \* the providers of this race, in order
  future,    \* future[p]: the provider's thread, or its answer
  phase,     \* where the racing thread is
  batch,     \* futures that as_completed has taken and not yet yielded
  deadline,  \* whether the overall deadline has passed
  runs,      \* solver_runs
  result     \* the RaceResult, with outcome "raised" for SolverFailed

vars == <<setting, field, future, phase, batch, deadline, runs, result>>

Abs(n) == IF n < 0 THEN -n ELSE n
Greater(a, b) == IF a > b THEN a ELSE b

RoleOf == [gurobi |-> "CPU", sa |-> "CPU", dwave |-> "QPU",
           xqpu |-> "QPU", xcpu |-> "CPU", quip |-> "NETWORK"]
Providers == DOMAIN RoleOf \ {"quip"}

-----------------------------------------------------------------------------
(* Who races.                                                              *)

\* build_providers: XQUAD_BACKEND's solver, or without one the QPU behind a Leap
\* token; no QPU when the agent's budget is used up.  Quip never races.
Field(s, includeQpu) ==
  (IF s.gurobi THEN <<"gurobi">> ELSE <<>>) \o <<"sa">>
  \o (CASE s.backend = "dwave-cpu" -> <<"xcpu">>
        [] s.backend = "dwave-qpu" /\ includeQpu -> <<"xqpu">>
        [] s.backend = None /\ includeQpu /\ s.leap -> <<"dwave">>
        [] OTHER -> <<>>)

\* What a thread holds: nothing yet, an exception, or a Solution.
Running == [state |-> "running"]
Raised  == [state |-> "raised"]
Solution == [state : {"answered"}, objective : Objectives, time : Times, feasible : {TRUE}]
            \union [state : {"answered"}, objective : {Tempting}, time : Times,
                    feasible : {FALSE}]

Init ==
  /\ setting \in Settings
  /\ \E includeQpu \in BOOLEAN : field = Field(setting, includeQpu)
  /\ future = [p \in ToSet(field) |-> Running]
  /\ phase = "taking" /\ batch = {} /\ deadline = FALSE
  /\ runs = <<>> /\ result = [outcome |-> "none"]

\* A provider's thread answers or raises.  Cancelling does not stop a running one:
\* a straggler goes on after the race, and nobody looks at its answer.
Finish(p) ==
  /\ future[p].state = "running"
  /\ \E answer \in Solution \union {Raised} : future' = [future EXCEPT ![p] = answer]
  /\ UNCHANGED <<setting, field, phase, batch, deadline, runs, result>>

Deadline ==
  /\ ~deadline /\ deadline' = TRUE
  /\ UNCHANGED <<setting, field, future, phase, batch, runs, result>>

-----------------------------------------------------------------------------
(* Taking the answers: as_completed and the body of its loop.              *)

Taken == {runs[i].provider : i \in 1..Len(runs)} \union batch
Done  == {p \in ToSet(field) : future[p].state # "running"} \ Taken

\* What has finished is taken as a whole, first without a look at the deadline and
\* then after a wait that an answer or the deadline ends.
Take ==
  /\ \/ phase = "taking"
     \/ phase = "waiting" /\ (Done # {} \/ deadline)
  /\ batch' = Done
  /\ phase' = "yielding"
  /\ UNCHANGED <<setting, field, future, deadline, runs, result>>

Row(p, status, feasible, time, objective) ==
  [provider |-> p, role |-> RoleOf[p], status |-> status, feasible |-> feasible,
   time |-> time, objective |-> objective, best |-> FALSE]

FailedRow(p) == Row(p, "failed", FALSE, None, None)
AnswerRow(p, s) ==
  Row(p, IF s.feasible THEN "feasible" ELSE "infeasible", s.feasible, s.time, s.objective)

\* One answer of the batch; an exception of any kind is a row of its own.  The router
\* checks feasibility itself, whatever the provider says.
Yield(p) ==
  /\ phase = "yielding" /\ p \in batch
  /\ batch' = batch \ {p}
  /\ runs' = Append(runs, IF future[p].state = "raised" THEN FailedRow(p)
                          ELSE AnswerRow(p, future[p]))
  /\ UNCHANGED <<setting, field, future, phase, deadline, result>>

\* mutant: the wait for the next answer has no timeout
NextBatchUnlessAll ==
  /\ phase = "yielding" /\ batch = {}
  /\ phase' = IF Taken = ToSet(field) THEN "closing" ELSE "waiting"
  /\ UNCHANGED <<setting, field, future, batch, deadline, runs, result>>

\* The batch is used up: done, out of time (although an answer may be in by now), or
\* another wait.
NextBatch ==
  /\ phase = "yielding" /\ batch = {}
  /\ phase' = IF Taken = ToSet(field) \/ deadline THEN "closing" ELSE "waiting"
  /\ UNCHANGED <<setting, field, future, batch, deadline, runs, result>>

TimeoutOfRunning(p) == future[p].state = "running"  \* mutant: asks the future, not what was taken
TimedOut(p) == p \notin Taken

\* Places in the field, in its order.
InOrder(places) ==
  CHOOSE order \in [1..Cardinality(places) -> places] :
    \A m, n \in 1..Cardinality(places) : m < n => order[m] < order[n]

\* The rows of those whose answer was not taken.
Late == {i \in 1..Len(field) : TimedOut(field[i])}
TimeoutRows ==
  LET order == InOrder(Late)
  IN  [n \in 1..Cardinality(Late) |-> Row(field[order[n]], "timeout", FALSE, None, None)]

-----------------------------------------------------------------------------
(* The verdict.                                                            *)

\* RACE_WINNER_OBJECTIVE_TOL = 0.005 and RACE_TIME_TIE_TOL = 0.15, relative gaps.
SameQuality(a, b) == 200 * Abs(a - b) <= Greater(Abs(a), Abs(b))
SameTime(a, b)    == 20 * Abs(a - b) <= 3 * Greater(a, b)

\* Python's min: of the rows that key numbers, the first one with the smallest key, keys
\* being pairs; None of none.
Less(a, b) == a[1] < b[1] \/ (a[1] = b[1] /\ a[2] < b[2])
Precedes(i, j, key) == Less(key[i], key[j]) \/ (key[i] = key[j] /\ i < j)
FirstMin(key) ==
  IF DOMAIN key = {} THEN None
  ELSE CHOOSE i \in DOMAIN key : \A j \in DOMAIN key \ {i} : Precedes(i, j, key)

ByTime(rows, I)      == [i \in I |-> <<rows[i].time, 0>>]
ByObjective(rows, I) == [i \in I |-> <<rows[i].objective, rows[i].time>>]

Feasible(rows) == {i \in 1..Len(rows) : rows[i].feasible}

PickFastest(rows) == FirstMin(ByTime(rows, Feasible(rows)))  \* mutant: ignores RACE_WINNER_BY

\* pick_winner: the fastest among those as good as the best, or the fastest.
AsGoodAsBest(rows) ==
  {i \in Feasible(rows) : \A k \in Feasible(rows) :
     (\A j \in Feasible(rows) : rows[k].objective <= rows[j].objective)
       => SameQuality(rows[i].objective, rows[k].objective)}
PickWinner(rows) ==
  FirstMin(ByTime(rows, IF setting.by = "objective" THEN AsGoodAsBest(rows) ELSE Feasible(rows)))

\* The quality badge: the winner's when quality decides, else the lowest objective's,
\* and the winner's when it has that too.
PickBest(rows, w) ==
  IF setting.by = "objective" THEN w
  ELSE FirstMin([i \in Feasible(rows) |-> <<rows[i].objective, IF i = w THEN 0 ELSE 1>>])

Marked(rows, w) ==
  LET best == PickBest(rows, w)
  IN  [i \in 1..Len(rows) |->
         [rows[i] EXCEPT !.status = IF rows[i].provider = rows[w].provider THEN "winner" ELSE @,
                         !.best = rows[i].provider = rows[best].provider]]

ClassifyOutcome(rows, w, runner) ==
  CASE runner = None -> "quality"
    [] runner # None /\ ~SameQuality(rows[w].objective, rows[runner].objective) -> "quality"
    [] OTHER -> IF rows[w].time # None /\ rows[runner].time # None
                     /\ ~SameTime(rows[w].time, rows[runner].time)
                  THEN "speed" ELSE "tie"

\* _classify_outcome: against the best of the other feasible answers.
Others(rows, w) == {i \in Feasible(rows) : rows[i].provider # rows[w].provider}
LiveOutcome(rows, w) == ClassifyOutcome(rows, w, FirstMin(ByObjective(rows, Others(rows, w))))

\* The fastest other CPU solver, a feasible one if there is any.
RunnerUpClassical(rows, w) ==
  LET classical == {i \in 1..Len(rows) : /\ rows[i].provider # rows[w].provider
                                         /\ rows[i].role = "CPU" /\ rows[i].objective # None}
      feasible  == classical \intersect Feasible(rows)
  IN  FirstMin(ByTime(rows, IF feasible # {} THEN feasible ELSE classical))

\* The rest of race(): SolverFailed without any feasible answer, else the result.
Decide ==
  /\ phase = "closing"
  /\ phase' = "decided"
  /\ \E w \in {PickWinner(runs)} :
       IF w = None
         THEN runs' = runs \o TimeoutRows /\ result' = [outcome |-> "raised"]
         ELSE /\ runs' = Marked(runs \o TimeoutRows, w)
              /\ result' = [winner |-> runs[w].provider,
                            outcome |-> LiveOutcome(runs, w),
                            runnerUp |-> RunnerUpClassical(runs, w)]
  /\ UNCHANGED <<setting, field, future, batch, deadline>>

Rest ==
  /\ phase = "decided" /\ deadline /\ \A p \in ToSet(field) : future[p].state # "running"
  /\ UNCHANGED vars

RacingThread == Take \/ (\E p \in ToSet(field) : Yield(p)) \/ NextBatch \/ Decide
Next == RacingThread \/ (\E p \in ToSet(field) : Finish(p)) \/ Deadline \/ Rest

\* The racing thread runs and time passes.  No provider need ever answer.
Fairness == WF_vars(RacingThread) /\ WF_vars(Deadline)
Spec == Init /\ [][Next]_vars /\ Fairness

-----------------------------------------------------------------------------
(* The label from the stored rows.                                         *)

\* A Quip row beside the race: pending, failed, or with a portfolio that may be better
\* than the winner's (_record_late_result adds it after the race).
LateRows ==
  {Row("quip", "pending", FALSE, None, None), Row("quip", "failed", FALSE, None, None)}
  \union {Row("quip", "feasible", TRUE, QuipTime, o) : o \in Objectives}

ScoredAll(rows, winner) ==  \* mutant: the Quip order counts as a runner-up
  {i \in Feasible(rows) : rows[i].provider # winner /\ rows[i].objective # None}
Scored(rows, winner) ==
  {i \in Feasible(rows) : /\ rows[i].provider # winner /\ rows[i].role # "NETWORK"
                          /\ rows[i].objective # None}

\* race_comparison over a snapshot's rows.
SnapshotOutcome(rows, winner) ==
  ClassifyOutcome(rows, CHOOSE i \in 1..Len(rows) : rows[i].provider = winner,
                  FirstMin(ByObjective(rows, Scored(rows, winner))))

-----------------------------------------------------------------------------
(* Properties.                                                             *)

Decided == phase = "decided"
Won == Decided /\ result.outcome # "raised"

\* Whatever finishes, raises, is late or comes in just as the time is up: every
\* provider of the field has one row and no other has any; exactly one row is the
\* winner's and exactly one carries the badge, both of feasible portfolios; and the
\* race raises only when no answer taken was feasible (solver_runs of race()).
RowsExact ==
  Decided =>
    /\ Len(runs) = Len(field) /\ {r.provider : r \in ToSet(runs)} = ToSet(field)
    /\ (result.outcome = "raised") <=> \A r \in ToSet(runs) : ~r.feasible
    /\ Won => /\ Cardinality({r \in ToSet(runs) : r.status = "winner"}) = 1
              /\ Cardinality({r \in ToSet(runs) : r.best}) = 1
              /\ \A r \in ToSet(runs) : r.status = "winner" \/ r.best => r.feasible

\* No feasible portfolio of the race is at least as good as the winner's and was
\* found faster; and when quality decides, none is materially better (pick_winner).
WinnerUndominated ==
  Won => \A w, r \in ToSet(runs) :
           w.status = "winner" /\ r.feasible =>
             /\ ~(r.time < w.time /\ r.objective <= w.objective)
             /\ setting.by = "objective" /\ r.objective < w.objective
                  => SameQuality(r.objective, w.objective)

\* The label of the stored rows is the label of the live race, whatever became of the
\* Quip order next to it (race_comparison and _classify_outcome).
LabelsAgree ==
  Won => \A rows \in {runs} \union {Append(runs, late) : late \in LateRows} :
           SnapshotOutcome(rows, result.winner) = result.outcome

\* Every race ends, also when no provider ever answers.
Answered == <>Decided

=============================================================================
