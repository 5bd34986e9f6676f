----------------------------- MODULE Rebalance -----------------------------
(***************************************************************************)
(* run_scheduled_rebalance_loop (orchestration/scheduler.py) over all       *)
(* agents: due times, the retry backoff, the deferral by the QPU budget,   *)
(* and the throttled result e-mails of notifications/dispatch.py, next to  *)
(* the retunes, slider changes and admin flags that move under it.         *)
(*                                                                         *)
(* One pass reads the wall clock and the monotonic clock once and then     *)
(* works through the agents one after the other; a solve in the middle of  *)
(* it may take long, so that later agents are judged by an old reading.    *)
(* Both clocks are the one variable clock, which is 0 when the machine     *)
(* boots.  The pause between passes is left out: it only makes them rarer. *)
(* What a write does to SQL is module AgentRows, and how a solve ends is   *)
(* module Solves.                                                          *)
(***************************************************************************)
EXTENDS Integers, Sequences, FiniteSets

CONSTANTS
  Roster,       \* the agents, in the order agents.all() lists them
  OptedIn,      \* those with an e-mail address who want result e-mails
  Slots,        \* what the rebalance slider offers: hours between rebalances, or Off
  Off, None,
  Found,        \* Found[a]: the schedules an earlier process may have left a with
  Backoff,      \* REBALANCE_RETRY_BACKOFF_S
  Window,       \* the e-mail window of an agent
  Retunes,      \* solves asked for by players
  MaxClock,     \* bound: readings of the clock
  MaxEdits,     \* bound: changes of a slider or a flag
  MaxDbFailures \* bound: SQL transactions of the loop itself that raise

Agents == {Roster[i] : i \in 1..Len(Roster)}
Loop == "loop"
Dispatchers == Retunes \union {Loop}

ASSUME RosterAssumption == Roster \in Seq(Agents)
ASSUME OptedInAssumption == OptedIn \subseteq Agents
ASSUME SlotsAssumption == Off \in Slots /\ Slots \ {Off} \subseteq Nat \ {0} /\ None \notin Nat
\* A new agent, or one whose row is older than the schedule's columns; or one with
\* its schedule, overdue by now and possibly switched off since.
Profiles ==
  [slider : Slots, due : {None}, hours : {Off}, solved : {FALSE}, holds : BOOLEAN,
   disabled : {FALSE}]
  \union
  [slider : Slots, due : {0}, hours : Slots \ {Off}, solved : {TRUE}, holds : {TRUE},
   disabled : {FALSE}]
ASSUME FoundAssumption == \A a \in Agents : Found[a] \subseteq Profiles
ASSUME RetunesAssumption == IsFiniteSet(Retunes) /\ Loop \notin Retunes
ASSUME BoundsAssumption ==
  {Backoff, Window} \subseteq Nat \ {0} /\ {MaxClock, MaxEdits, MaxDbFailures} \subseteq Nat

VARIABLES
  clock,
  record,     \* record[a]: the schedule part of the AgentRecord
  phase,      \* where the loop's task is
  left,       \* the agents this pass has yet to visit
  passNow,    \* now, and monotonic_now, of this pass
  attempted,  \* last_attempt_at
  mail,       \* mail[d]: the result e-mail that d is dispatching
  stamp,      \* stamp[a]: last_update_email_at
  retuned,    \* retunes asked for
  ages,       \* ages[a]: how long ago its last two scheduled solves really began,
              \* counted up to Backoff (history)
  offRuns,    \* offRuns[a]: scheduled rebalances since its slider is Off (history)
  sent,       \* sent[a]: the newest reading of an e-mail sent to it (history)
  crossed,    \* agents two of whose dispatches overlapped (history)
  edits, dbFailures

loop    == <<phase, left, passNow, attempted>>
mails   == <<mail, stamp, sent, crossed>>
runs    == <<ages, offRuns>>
bounds  == <<retuned, edits, dbFailures>>
vars == <<clock, record, loop, mails, runs, bounds>>

Times == 0..MaxClock
NoMail == [stage |-> "none", to |-> None, now |-> None]

-----------------------------------------------------------------------------
(* The record's schedule.                                                  *)

KeepsDue(r) ==  \* mutant: switching rebalances off leaves the last due time in place
  [r EXCEPT !.solved = TRUE, !.hours = r.slider,
            !.due = IF r.slider = Off THEN @ ELSE clock + r.slider]

\* _next_rebalance_at: the sliders as they are now, from now on; Off has no time.
Scheduled(r) ==
  [r EXCEPT !.solved = TRUE, !.hours = r.slider,
            !.due = IF r.slider = Off THEN None ELSE clock + r.slider]

\* apply_solve: the agent holds a portfolio and is scheduled anew.
Applied(r) == [Scheduled(r) EXCEPT !.holds = TRUE]

\* An agent with rebalances off gets a solve time once, and loses an interval
\* that a table's default left behind.
EnsureDue(r) == r.slider = Off => ~r.solved \/ r.hours # Off

BackedOff(a) == passNow - attempted[a] >= Backoff

Skipped(a) ==
  \/ record[a].disabled
  \/ ~record[a].holds
  \/ record[a].due = None /\ ~EnsureDue(record[a])
  \/ record[a].due # None /\ (record[a].due > passNow \/ ~BackedOff(a))

-----------------------------------------------------------------------------
(* The loop's task.                                                        *)

Init ==
  /\ clock = 0
  /\ record \in [Agents -> Profiles] /\ \A a \in Agents : record[a] \in Found[a]
  /\ phase = "asleep" /\ left = <<>> /\ passNow = 0
  /\ attempted = [a \in Agents |-> 0]
  /\ mail = [d \in Dispatchers |-> NoMail]
  /\ stamp = [a \in Agents |-> None] /\ sent = [a \in Agents |-> None] /\ crossed = {}
  /\ ages = [a \in Agents |-> <<>>] /\ offRuns = [a \in Agents |-> 0]
  /\ retuned = {} /\ edits = 0 /\ dbFailures = 0

Die == phase' = "dead" /\ left' = <<>>  \* mutant, of GoOn: an exception leaves the loop
GoOn == phase' = "visiting" /\ left' = Tail(left)

BeginPass ==
  /\ phase = "asleep"
  /\ phase' = "visiting" /\ left' = Roster /\ passNow' = clock
  /\ UNCHANGED <<clock, record, attempted, mails, runs, bounds>>

Skip ==
  /\ phase = "visiting" /\ left # <<>> /\ Skipped(Head(left))
  /\ left' = Tail(left)
  /\ UNCHANGED <<clock, record, phase, passNow, attempted, mails, runs, bounds>>

\* A portfolio without a due time gets one.  The write stands in no try block: if
\* its transaction raises, the record keeps the schedule and the task is over.
Ensure ==
  /\ phase = "visiting" /\ left # <<>>
  /\ LET a == Head(left)
     IN  /\ ~Skipped(a) /\ record[a].due = None
         /\ record' = [record EXCEPT ![a] = Scheduled(@)]
  /\ \/ GoOn /\ UNCHANGED dbFailures
     \/ /\ dbFailures < MaxDbFailures /\ dbFailures' = dbFailures + 1
        /\ Die
  /\ UNCHANGED <<clock, passNow, attempted, mails, runs, retuned, edits>>

LastTwo(s) == IF Len(s) > 2 THEN Tail(s) ELSE s

StampNone(a) == UNCHANGED attempted  \* mutant: the attempt is not noted
StampAttempt(a) == attempted' = [attempted EXCEPT ![a] = passNow]

\* A due agent: the attempt is noted with the pass's reading, the solve begins now.
Attempt ==
  /\ phase = "visiting" /\ left # <<>>
  /\ LET a == Head(left)
     IN  /\ ~Skipped(a) /\ record[a].due # None
         /\ StampAttempt(a)
         /\ ages' = [ages EXCEPT ![a] = LastTwo(Append(@, 0))]
  /\ phase' = "solving"
  /\ UNCHANGED <<clock, record, left, passNow, mails, offRuns, bounds>>

CountOff(a) ==
  offRuns' = [offRuns EXCEPT ![a] = IF record[a].slider = Off /\ @ < 2 THEN @ + 1 ELSE @]

Busy(d) == mail[d].stage # "none"
Call(d, a, now) ==
  /\ mail' = [mail EXCEPT ![d] = [stage |-> "called", to |-> a, now |-> now]]
  /\ crossed' = IF \E e \in Dispatchers \ {d} : Busy(e) /\ mail[e].to = a
                  THEN crossed \union {a} ELSE crossed

\* The solve went well: the result e-mail is dispatched with the pass's reading.
Solved ==
  /\ phase = "solving"
  /\ LET a == Head(left)
     IN  /\ record' = [record EXCEPT ![a] = Applied(@)]
         /\ CountOff(a)
         /\ Call(Loop, a, passNow)
  /\ phase' = "mailing"
  /\ UNCHANGED <<clock, left, passNow, attempted, stamp, sent, ages, bounds>>

\* The solve raised, before or after apply_solve: logged, and on to the next agent.
Failed ==
  /\ phase = "solving"
  /\ \/ UNCHANGED <<record, offRuns>>
     \/ /\ record' = [record EXCEPT ![Head(left)] = Applied(@)]
        /\ CountOff(Head(left))
  /\ GoOn
  /\ UNCHANGED <<clock, passNow, attempted, mails, ages, bounds>>

\* The QPU budget refused: the next attempt waits for the budget's retry time, if it
\* names one.  This write stands in no try block either.
Refused ==
  /\ phase = "solving"
  /\ \E retryAt \in {None} \union (passNow + 1)..(clock + Backoff) :
       record' = IF retryAt = None THEN record ELSE [record EXCEPT ![Head(left)].due = retryAt]
  /\ \/ GoOn /\ UNCHANGED dbFailures
     \/ /\ record' # record
        /\ dbFailures < MaxDbFailures /\ dbFailures' = dbFailures + 1
        /\ Die
  /\ UNCHANGED <<clock, passNow, attempted, mails, runs, retuned, edits>>

EndPass ==
  /\ phase = "visiting" /\ left = <<>>
  /\ phase' = "asleep" /\ passNow' = 0
  /\ UNCHANGED <<clock, record, left, attempted, mails, runs, bounds>>

\* lifespan sets stop and cancels the task, which is at one of its awaits.  The
\* process is about to end: what its worker threads still do is left out.
Stop ==
  /\ phase \in {"asleep", "solving", "mailing"}
  /\ phase' = "stopped" /\ left' = <<>> /\ passNow' = 0
  /\ mail' = [d \in Dispatchers |-> NoMail]
  /\ UNCHANGED <<clock, record, attempted, stamp, sent, crossed, runs, bounds>>

-----------------------------------------------------------------------------
(* maybe_send_update_email, on a worker thread.                            *)

\* A mail is due when none was ever sent, or a window has gone by since the last
\* one's reading.
MailDue(a, now) == stamp[a] = None \/ now - stamp[a] >= Window

\* When a dispatch is over, the loop goes on to the next agent.
Over(d) ==
  /\ mail' = [mail EXCEPT ![d] = NoMail]
  /\ IF d = Loop /\ phase = "mailing" THEN GoOn ELSE UNCHANGED <<phase, left>>

CheckMail(d) ==
  /\ mail[d].stage = "called"
  /\ IF mail[d].to \in OptedIn /\ MailDue(mail[d].to, mail[d].now)
       THEN mail' = [mail EXCEPT ![d].stage = "sending"] /\ UNCHANGED <<phase, left>>
       ELSE Over(d)
  /\ UNCHANGED <<clock, record, passNow, attempted, stamp, sent, crossed, runs, bounds>>

StampNothing(d) == UNCHANGED stamp  \* mutant: the e-mail is not noted
Note(d) == stamp' = [stamp EXCEPT ![mail[d].to] = mail[d].now]

\* Delivered and noted (mark_update_email_sent; if its SQL half raises, that is only
\* logged); or refused by the mail provider, logged and not noted.
SendMail(d) ==
  /\ mail[d].stage = "sending"
  /\ \/ /\ Note(d)
        /\ sent' = [sent EXCEPT ![mail[d].to] =
                      IF @ # None /\ @ > mail[d].now THEN @ ELSE mail[d].now]
     \/ UNCHANGED <<stamp, sent>>
  /\ Over(d)
  /\ UNCHANGED <<clock, record, passNow, attempted, crossed, runs, bounds>>

-----------------------------------------------------------------------------
(* What moves under the loop.  Handlers run between its awaits, and the     *)
(* time that matters passes there.                                         *)

Up == phase \notin {"stopped", "dead"}
AtAwait == Up /\ phase # "visiting"

\* A retune of an enabled agent, from its solve to its e-mail.  Its sliders may come
\* with it.  Its worker thread may write between two visits of the loop as well,
\* but a visit reads the one agent only: it might as well have written before them.
Retune(d) ==
  /\ AtAwait /\ d \in Retunes \ retuned
  /\ \E a \in Agents : \E slider \in {record[a].slider, Off} :
       /\ ~record[a].disabled
       /\ record' = [record EXCEPT ![a] = Applied([@ EXCEPT !.slider = slider])]
       /\ offRuns' = [offRuns EXCEPT ![a] = IF slider = record[a].slider THEN @ ELSE 0]
       /\ Call(d, a, clock)
  /\ retuned' = retuned \union {d}
  /\ UNCHANGED <<clock, loop, stamp, sent, ages, edits, dbFailures>>

\* PATCH of the rebalance slider: the due time stays as it is.
PatchSlider ==
  /\ AtAwait /\ edits < MaxEdits /\ edits' = edits + 1
  /\ \E a \in Agents : \E slider \in Slots \ {record[a].slider} :
       /\ record' = [record EXCEPT ![a].slider = slider]
       /\ offRuns' = [offRuns EXCEPT ![a] = 0]
  /\ UNCHANGED <<clock, loop, mails, ages, retuned, dbFailures>>

SetDisabled ==
  /\ AtAwait /\ edits < MaxEdits /\ edits' = edits + 1
  /\ \E a \in Agents : record' = [record EXCEPT ![a].disabled = ~@]
  /\ UNCHANGED <<clock, loop, mails, runs, retuned, dbFailures>>

Tick ==
  /\ AtAwait /\ clock < MaxClock /\ clock' = clock + 1
  /\ ages' = [a \in Agents |-> [i \in 1..Len(ages[a]) |->
                 IF ages[a][i] < Backoff THEN ages[a][i] + 1 ELSE Backoff]]
  /\ UNCHANGED <<record, loop, mails, offRuns, bounds>>

\* The task is over; what players do then is of no concern here.
Rest ==
  /\ ~Up
  /\ UNCHANGED vars

SolveEnds == Solved \/ Failed \/ Refused
MailStep(d) == CheckMail(d) \/ SendMail(d)
LoopStep == BeginPass \/ Skip \/ Ensure \/ Attempt \/ EndPass

Next ==
  \/ LoopStep \/ SolveEnds \/ Stop
  \/ \E d \in Dispatchers : MailStep(d) \/ Retune(d)
  \/ PatchSlider \/ SetDisabled \/ Tick \/ Rest

\* The task runs on, a solve ends (its race has a deadline, its other calls time
\* out), and so does the call to the mail provider.
Fairness ==
  /\ WF_vars(LoopStep)
  /\ WF_vars(SolveEnds)
  /\ WF_vars(MailStep(Loop))

Spec == Init /\ [][Next]_vars
FairSpec == Spec /\ Fairness

-----------------------------------------------------------------------------
(* Properties.                                                             *)

\* Types: schedules, the task's place and the e-mails under way.
TypeOK ==
  /\ clock \in Times /\ passNow \in Times
  /\ record \in [Agents -> [slider : Slots, due : Nat \union {None}, hours : Slots,
                            solved : BOOLEAN, holds : BOOLEAN, disabled : BOOLEAN]]
  /\ phase \in {"asleep", "visiting", "solving", "mailing", "dead", "stopped"}
  /\ left \in {SubSeq(Roster, i, Len(Roster)) : i \in 1..Len(Roster) + 1}
  /\ attempted \in [Agents -> Times] /\ stamp \in [Agents -> Times \union {None}]
  /\ mail \in [Dispatchers -> [stage : {"none", "called", "sending"},
                               to : Agents \union {None}, now : Times \union {None}]]

\* However an agent's scheduled solves end, any three in a row span the retry
\* backoff.  Two need not: the attempt is noted with the reading the pass began with,
\* and an earlier agent's solve may have taken the whole backoff
\* (last_attempt_at, scheduler.py).
AttemptsSpread ==
  [][\A a \in Agents : phase = "visiting" /\ phase' = "solving" /\ Head(left) = a
                        /\ Len(ages[a]) = 2 => ages[a][1] = Backoff]_vars

\* Switching rebalances off lets at most one more scheduled rebalance through, the
\* one already due, whatever fails, is deferred or ensured in between
\* (_next_rebalance_at, ensure_rebalance_schedule, defer_rebalance).
OffRunsOnce == \A a \in Agents : offRuns[a] <= 1

\* While an agent's dispatches do not overlap, the readings of its e-mails are a
\* window apart, although the loop passes a reading that may be older than that of a
\* retune's e-mail sent meanwhile (dispatch.py, "at most one per opt-in window").
MailsKeepWindow ==
  \A d \in Dispatchers :
    LET a == mail[d].to
    IN  mail[d].stage = "sending" /\ a \notin crossed /\ sent[a] # None
          => mail[d].now - sent[a] >= Window

Waiting(a) ==
  /\ ~record[a].disabled /\ record[a].holds
  /\ IF record[a].due = None THEN record[a].slider # Off
     ELSE record[a].due <= clock /\ clock - attempted[a] >= Backoff
\* The task has been stopped, or has ended on a write of its own.
TaskOver == phase = "stopped" \/ dbFailures > 0

\* An enabled agent with a portfolio that is due, or has no due time, is attended to,
\* however the solves of the others end: only shutdown and a failed transaction of
\* the loop itself end the task.
NoneForgotten == \A a \in Agents : Waiting(a) ~> ~Waiting(a) \/ TaskOver

-----------------------------------------------------------------------------
(* What the documents say more than the code does.                         *)

\* "Failures are logged and retried" (BACKEND_DAG.md, of scheduled rebalances): but for
\* shutdown, whoever is due is attended to.
FailuresAreRetried == \A a \in Agents : Waiting(a) ~> ~Waiting(a) \/ phase = "stopped"

\* "send at most one portfolio-result email per opt-in window" (dispatch.py): however
\* the dispatches of one agent come, two of its e-mails are a window apart.
OneMailPerWindow ==
  \A d \in Dispatchers :
    LET a == mail[d].to
    IN  mail[d].stage = "sending" /\ sent[a] # None => mail[d].now - sent[a] >= Window
=============================================================================
