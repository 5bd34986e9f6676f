----------------------------- MODULE QpuBudget -----------------------------
(***************************************************************************)
(* The per-agent QPU admission budget (persistence/qpu_budget.py, and the  *)
(* SQL store of persistence/db.py, which keeps the same events durable):   *)
(* at most Limit admissions of one agent in a rolling Window.              *)
(*                                                                         *)
(* A solve checks the budget first (status), fetches market data, then     *)
(* reserves (reserve).  Both calls read the clock BEFORE they take the     *)
(* store's lock, so a call can hold a reading older than the one another   *)
(* call has pruned with; MaxDelay bounds how old.  status is also called   *)
(* by requests that only show the budget, and prunes for them too.         *)
(*                                                                         *)
(* An operator marked "mutant" is not part of the model: it is the wrong   *)
(* version of the operator after it, kept to show that a property of the   *)
(* runs tells the two apart.                                               *)
(***************************************************************************)
EXTENDS Integers, FiniteSets

CONSTANTS
  Agents,
  Requests,   \* the solves that would include the QPU, one admission each
  AgentOf,    \* the agent a request solves for
  Limit,      \* config.QPU_BUDGET_MAX_ATTEMPTS
  Window,     \* config.QPU_BUDGET_WINDOW_S
  MaxDelay,   \* bound: age of a clock reading when its call gets the lock
  MaxClock    \* bound: the clock stops here

ASSUME RequestsAssumption ==
  IsFiniteSet(Requests) /\ AgentOf \in [Requests -> Agents]
ASSUME NumbersAssumption ==
  /\ Limit \in Nat \ {0} /\ Window \in Nat \ {0}
  /\ MaxDelay \in Nat /\ MaxClock \in Nat

VARIABLES
  clock,    \* the wall clock
  pc,       \* pc[r]: where request r's solve is
  now,      \* now[r]: the clock reading of r's current (or last) call
  events,   \* the stored admissions; r's carries reserved_at = now[r]
  refusal   \* refusal[r]: what QpuBudgetExceeded told r: when to retry, and
            \* the admissions that filled the budget (history)

vars == <<clock, pc, now, events, refusal>>

Stages == {"idle", "checking", "checked", "reserving", "admitted", "refused",
           "dead"}

\* The calls that have read the clock and wait for the lock.
Waiting == {r \in Requests : pc[r] \in {"checking", "reserving"}}

\* Admitted to the race, whether or not its event is still stored.
Admitted == {r \in Requests : pc[r] = "admitted"}

NoRefusal == [retryAt |-> 0, full |-> {}]

Init ==
  /\ clock = 0
  /\ pc  = [r \in Requests |-> "idle"]
  /\ now = [r \in Requests |-> 0]
  /\ events = {}
  /\ refusal = [r \in Requests |-> NoRefusal]

\* _prune: events reserved at or before the cutoff go, every agent's.
Prune(n) == {e \in events : now[e] > n - Window}

\* _status_from_times: the agent's events inside the window ending at n.
Active(r, n) == {e \in Prune(n) : AgentOf[e] = AgentOf[r]}

Exhausted(r, n) == Cardinality(Active(r, n)) >= Limit

\* next_available_at: when the oldest active event leaves the window.
NextAvailableAtLatest(r, n) ==  \* mutant: counts from the newest admission
  LET newest == CHOOSE e \in Active(r, n) :
                  \A f \in Active(r, n) : now[e] >= now[f]
  IN  now[newest] + Window

NextAvailableAt(r, n) ==
  LET oldest == CHOOSE e \in Active(r, n) :
                  \A f \in Active(r, n) : now[e] <= now[f]
  IN  now[oldest] + Window

Refuse(r) ==
  /\ Exhausted(r, now[r])
  /\ pc' = [pc EXCEPT ![r] = "refused"]
  /\ refusal' = [refusal EXCEPT ![r] =
                   [retryAt |-> NextAvailableAt(r, now[r]),
                    full    |-> Active(r, now[r])]]
  /\ events' = Prune(now[r])

\* run_optimization asks for the status first ...
ReadClockToCheck(r) ==
  /\ pc[r] = "idle"
  /\ pc' = [pc EXCEPT ![r] = "checking"]
  /\ now' = [now EXCEPT ![r] = clock]
  /\ UNCHANGED <<clock, events, refusal>>

Check(r) ==
  /\ pc[r] = "checking"
  /\ \/ Refuse(r)
     \/ /\ ~Exhausted(r, now[r])
        /\ pc' = [pc EXCEPT ![r] = "checked"]
        /\ events' = Prune(now[r])
        /\ UNCHANGED refusal
  /\ UNCHANGED <<clock, now>>

\* ... and reserves when the problem is built.
ReadClockToReserve(r) ==
  /\ pc[r] = "checked"
  /\ pc' = [pc EXCEPT ![r] = "reserving"]
  /\ now' = [now EXCEPT ![r] = clock]
  /\ UNCHANGED <<clock, events, refusal>>

\* reserve, one lock section: prune, test again, append.
ReserveOnTrust(r) ==  \* mutant: the first check is not repeated
  /\ pc[r] = "reserving"
  /\ pc' = [pc EXCEPT ![r] = "admitted"]
  /\ events' = Prune(now[r]) \union {r}
  /\ UNCHANGED <<clock, now, refusal>>

Reserve(r) ==
  /\ pc[r] = "reserving"
  /\ \/ Refuse(r)
     \/ /\ ~Exhausted(r, now[r])
        /\ pc' = [pc EXCEPT ![r] = "admitted"]
        /\ events' = Prune(now[r]) \union {r}
        /\ UNCHANGED refusal
  /\ UNCHANGED <<clock, now>>

\* status for GET agent, GET latest-result or a solve without QPU.
Show ==
  /\ \E n \in (clock - MaxDelay)..clock : events' = Prune(n)
  /\ UNCHANGED <<clock, pc, now, refusal>>

Tick ==
  /\ clock < MaxClock
  /\ \A r \in Waiting : clock - now[r] < MaxDelay
  /\ clock' = clock + 1
  /\ UNCHANGED <<pc, now, events, refusal>>

\* A restart ends the solves under way; the SQL store keeps the events.
Restart ==
  /\ pc' = [r \in Requests |-> IF pc[r] \in {"checking", "checked", "reserving"}
                                 THEN "dead" ELSE pc[r]]
  /\ UNCHANGED <<clock, now, events, refusal>>

Next ==
  \/ \E r \in Requests :
       \/ ReadClockToCheck(r) \/ Check(r) \/ ReadClockToReserve(r) \/ Reserve(r)
  \/ Show \/ Tick \/ Restart

Spec == Init /\ [][Next]_vars
-----------------------------------------------------------------------------
TypeOK ==
  /\ clock \in Nat
  /\ pc \in [Requests -> Stages]
  /\ now \in [Requests -> Nat]
  /\ events \in SUBSET Requests
  /\ refusal \in [Requests -> [retryAt : Nat, full : SUBSET Requests]]

\* The admissions of agent a stamped in the half-open window [t, t + length).
AdmittedWithin(a, t, length) ==
  {r \in Admitted : AgentOf[r] = a /\ t <= now[r] /\ now[r] < t + length}

\* "8 QPU-admitted solves per rolling 10 minutes" (docs/BACKEND_DAG.md):
\* concurrent manual and scheduled solves that all pass the first check, calls
\* that hold old clock readings and pruning on behalf of others never let an
\* agent have more than Limit admissions in any window, the window being short
\* of the configured one by at most the age of a clock reading.
WindowCap ==
  \A a \in Agents : \A t \in Int :
    Cardinality(AdmittedWithin(a, t, Window - MaxDelay)) <= Limit

\* WindowCap over the windows that open at an admission, the ones TLC needs
\* to look at: a window can be moved right to its first admission.
WindowCapAtAdmissions ==
  \A r \in Admitted :
    Cardinality(AdmittedWithin(AgentOf[r], now[r], Window - MaxDelay)) <= Limit

\* A refused scheduled rebalance is deferred to next_available_at and a phone
\* counts down to it: at that time one of the admissions that filled the budget
\* has left the window, and one tick earlier none had.
RetryAtIsFirstFree ==
  \A r \in Requests : pc[r] = "refused" =>
    LET stillActive(n) == {e \in refusal[r].full : now[e] > n - Window}
    IN  /\ Cardinality(stillActive(refusal[r].retryAt)) < Limit
        /\ Cardinality(stillActive(refusal[r].retryAt - 1)) >= Limit
=============================================================================
