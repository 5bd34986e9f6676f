----------------------------- MODULE QuipOrders -----------------------------
(***************************************************************************)
(* The Quip testnet order queue (solvers/quip_orders.py) together with the *)
(* code it lives between: the tail of run_optimization that records a job  *)
(* snapshot and submits its order (orchestration/job.py), the snapshot     *)
(* rows in memory and in SQL (persistence/jobs.py, persistence/db.py), and *)
(* the app lifespan that starts and stops it (api/app.py).                 *)
(*                                                                         *)
(* Threads: one solve thread per job, one order worker, and the main       *)
(* thread that runs the lifespan.  An action is a step between two points  *)
(* where another thread can run: a lock section, a SQL transaction, a      *)
(* queue operation, a solve on the chain.                                  *)
(*                                                                         *)
(* An operator marked "mutant" is not part of the model: it is the wrong   *)
(* version of the operator after it, kept to show that a property of the   *)
(* runs tells the two apart.                                               *)
(***************************************************************************)
EXTENDS Naturals, Sequences, FiniteSets

CONSTANTS
  Jobs,           \* the manual solves that propose an order, one order each
  NoJob,          \* "no order in flight"
  MaxPending,     \* config.QUIP_MAX_PENDING_ORDERS
  Reconnect,      \* quip_orders.IDLE_RECONNECT_S, in units of time
  Closes,         \* the idle time at which the chain closes a connection
  Encoding,       \* how long encoding an order takes, in the same units
  MaxRestarts,    \* bound: how often the process dies or is redeployed
  MaxDbFailures   \* bound: how many SQL transactions fail

ASSUME JobsAssumption == IsFiniteSet(Jobs) /\ NoJob \notin Jobs
ASSUME MaxPendingAssumption == MaxPending \in Nat \ {0}
ASSUME BoundsAssumption == MaxRestarts \in Nat /\ MaxDbFailures \in Nat

\* The reconnect limit leaves room to encode: 60 s of idleness against the 118
\* that Aglais is known to grant (the comment at IDLE_RECONNECT_S).
ASSUME IdleAssumption ==
  /\ Reconnect \in Nat /\ Closes \in Nat /\ Encoding \in Nat
  /\ Reconnect + Encoding < Closes

(***************************************************************************)
(* A row is "none" until the snapshot is recorded.  The worker ends an     *)
(* order as one of Outcomes; "skipped" is a refused order, and "failed" is *)
(* also what startup writes over a row the last process left pending.      *)
(***************************************************************************)
Outcomes == {"feasible", "infeasible", "failed", "timeout"}
Settled  == Outcomes \union {"skipped"}
Status   == {"none", "pending"} \union Settled

VARIABLES
  rowMem,       \* rowMem[j]: the Quip row of job j in JobStore._solve_snapshots
  rowDb,        \* rowDb[j]: the same row in the solve_snapshots table
  solve,        \* solve[j]: where job j's solve thread is
  queue,        \* _queue, a SimpleQueue of jobs
  outstanding,  \* _outstanding: orders admitted and not yet finished
  accepting,    \* _accepting
  lock,         \* _lock: "shutdown" while shutdown() drains, else "free"
  worker,       \* the order worker: "none" (no thread yet), or its stage
  current,      \* the job whose order is in flight
  outcome,      \* the result of the order in flight
  provider,     \* _provider: "none", "fresh" (no solve yet), or "used"
  idle,         \* idle_s() of a used provider; Closes stands for "or more"
  idleRead,     \* what idle_s() was when _run looked, while it encodes
  life,         \* the process: "starting", "up", "stopping"
  loopBound,    \* EventBus._loop is the running loop
  told,         \* told[j]: status in the last solver-results frame, as history
  lost,         \* jobs whose order can no longer settle its row, as history
  restarts, dbFailures

solveVars  == <<solve, rowMem, rowDb, lost>>
orderVars  == <<queue, outstanding, accepting, lock>>
connVars   == <<provider, idle, idleRead>>
workerVars == <<worker, current, outcome, connVars>>
lifeVars   == <<life, loopBound, restarts>>
vars == <<rowMem, rowDb, solve, queue, outstanding, accepting, lock, worker,
          current, outcome, provider, idle, idleRead, life, loopBound, told,
          lost, restarts, dbFailures>>

SolveStages  == {"idle", "insert", "submit", "put", "skip", "skipWrite",
                 "done", "raised", "dead"}
WorkerStages == {"none", "idle", "encoding", "solving", "recording",
                 "writing", "publishing", "finishing"}

InQueue == {queue[i] : i \in 1..Len(queue)}

\* The orders _outstanding counts: admitted but not put yet, queued, in flight.
LiveOrders == {j \in Jobs : solve[j] = "put"} \union InQueue
                \union ({current} \ {NoJob})

Init ==
  /\ rowMem = [j \in Jobs |-> "none"]
  /\ rowDb  = [j \in Jobs |-> "none"]
  /\ solve  = [j \in Jobs |-> "idle"]
  /\ queue = <<>> /\ outstanding = 0 /\ accepting = TRUE /\ lock = "free"
  /\ worker = "none" /\ current = NoJob /\ outcome = "none"
  /\ provider = "none" /\ idle = 0 /\ idleRead = 0
  /\ life = "starting" /\ loopBound = FALSE
  /\ told = [j \in Jobs |-> "none"] /\ lost = {}
  /\ restarts = 0 /\ dbFailures = 0

Running == life \in {"up", "stopping"}

\* A SQL transaction that raises, within the bound.  One that raises at its
\* commit may have committed all the same.
DbFails == dbFailures < MaxDbFailures /\ dbFailures' = dbFailures + 1
DbWorks == UNCHANGED dbFailures

-----------------------------------------------------------------------------
(* The solve thread, from record_solve_snapshot to the end of the solve.   *)

\* JobStore.record_solve_snapshot appends the snapshot, Quip row pending.
RecordSnapshotLate(j) ==  \* mutant: the order goes out before its snapshot
  /\ Running /\ solve[j] = "idle"
  /\ solve' = [solve EXCEPT ![j] = "submit"]
  /\ UNCHANGED <<rowMem, rowDb, lost, orderVars, workerVars, lifeVars, told,
                 dbFailures>>

RecordSnapshot(j) ==
  /\ Running /\ solve[j] = "idle"
  /\ rowMem' = [rowMem EXCEPT ![j] = "pending"]
  /\ solve'  = [solve EXCEPT ![j] = "insert"]
  /\ UNCHANGED <<rowDb, lost, orderVars, workerVars, lifeVars, told, dbFailures>>

\* DbJobStore then inserts it.  If that raises, the solve ends in a 500 and
\* the snapshot in memory keeps a pending row that no order will settle.
InsertSnapshot(j) ==
  /\ solve[j] = "insert"
  /\ \/ /\ DbWorks
        /\ rowDb' = [rowDb EXCEPT ![j] = "pending"]
        /\ solve' = [solve EXCEPT ![j] = "submit"]
        /\ UNCHANGED lost
     \/ /\ DbFails
        /\ solve' = [solve EXCEPT ![j] = "raised"]
        /\ lost' = lost \union {j}
        /\ rowDb' \in {rowDb, [rowDb EXCEPT ![j] = "pending"]}
  /\ UNCHANGED <<rowMem, orderVars, workerVars, lifeVars, told>>

\* submit()'s refusal test.
FullLate == outstanding > MaxPending  \* mutant: off by one
Full == outstanding >= MaxPending

\* submit() starts the worker thread when there is none.
WorkerOfQueue ==  \* mutant: counts on a non-empty queue to start one
  IF worker = "none" /\ queue # <<>> THEN "idle" ELSE worker
StartedWorker == IF worker = "none" THEN "idle" ELSE worker

\* submit() under _lock: refuse, or take a slot and start the worker thread.
Submit(j) ==
  /\ solve[j] = "submit" /\ lock = "free"
  /\ IF ~accepting \/ Full
       THEN /\ solve' = [solve EXCEPT ![j] = "skip"]
            /\ UNCHANGED <<outstanding, worker>>
       ELSE /\ solve' = [solve EXCEPT ![j] = "put"]
            /\ outstanding' = outstanding + 1
            /\ worker' = StartedWorker
  /\ UNCHANGED <<rowMem, rowDb, lost, queue, accepting, lock, current, outcome,
                 connVars, lifeVars, told, dbFailures>>

\* submit() after _lock is released: the order enters the queue.
Put(j) ==
  /\ solve[j] = "put"
  /\ queue' = Append(queue, j)
  /\ solve' = [solve EXCEPT ![j] = "done"]
  /\ UNCHANGED <<rowMem, rowDb, lost, outstanding, accepting, lock, workerVars,
                 lifeVars, told, dbFailures>>

\* A refused order: update_solver_result in memory, then in SQL.
SkipInSilence(j) ==  \* mutant: the refused order leaves its row alone
  /\ solve[j] = "skip"
  /\ solve' = [solve EXCEPT ![j] = "done"]
  /\ UNCHANGED <<rowMem, rowDb, lost, orderVars, workerVars, lifeVars, told,
                 dbFailures>>

Skip(j) ==
  /\ solve[j] = "skip"
  /\ rowMem' = [rowMem EXCEPT ![j] = "skipped"]
  /\ solve'  = [solve EXCEPT ![j] = "skipWrite"]
  /\ UNCHANGED <<rowDb, lost, orderVars, workerVars, lifeVars, told, dbFailures>>

SkipWrite(j) ==
  /\ solve[j] = "skipWrite"
  /\ \/ /\ DbWorks
        /\ rowDb' = [rowDb EXCEPT ![j] = "skipped"]
        /\ solve' = [solve EXCEPT ![j] = "done"]
     \/ /\ DbFails
        /\ solve' = [solve EXCEPT ![j] = "raised"]
        /\ rowDb' \in {rowDb, [rowDb EXCEPT ![j] = "skipped"]}
  /\ UNCHANGED <<rowMem, lost, orderVars, workerVars, lifeVars, told>>

-----------------------------------------------------------------------------
(* The order worker.                                                       *)

\* _run keeps its provider unless that has been idle for IDLE_RECONNECT_S.
KeptUnseen == provider # "none"  \* mutant: no look at the idle time
Kept == provider # "none" /\ idle <= Reconnect

\* _work takes the next order, and _run sees to its provider.
Take ==
  /\ worker = "idle" /\ queue # <<>>
  /\ current' = Head(queue)
  /\ queue' = Tail(queue)
  /\ IF Kept THEN idleRead' = idle /\ UNCHANGED <<provider, idle>>
             ELSE provider' = "fresh" /\ idle' = 0 /\ idleRead' = 0
  /\ worker' = "encoding"
  /\ UNCHANGED <<solveVars, outstanding, accepting, lock, outcome, lifeVars,
                 told, dbFailures>>

\* encode_qubo and to_xqmx return, and the solver proposes the order to the
\* chain; a fresh provider connects first.
Propose ==
  /\ worker = "encoding"
  /\ worker' = "solving"
  /\ provider' = "used" /\ idle' = 0 /\ idleRead' = 0
  /\ UNCHANGED <<solveVars, orderVars, current, outcome, lifeVars, told,
                 dbFailures>>

\* solve_qubo returns or raises, in encoding too.  A raise leaves the connection
\* in an unknown state, so the provider is dropped.
Answer(r) ==
  /\ worker = "solving" \/ (worker = "encoding" /\ r = "failed")
  /\ outcome' = r
  /\ IF r \in {"failed", "timeout"}
       THEN provider' = "none" /\ idle' = 0 /\ idleRead' = 0
       ELSE UNCHANGED connVars
  /\ worker' = "recording"
  /\ UNCHANGED <<solveVars, orderVars, current, lifeVars, told, dbFailures>>

\* on_done = _record_late_result: the row in memory, the row in SQL, the frame.
RecordResult ==
  /\ worker = "recording"
  /\ rowMem' = [rowMem EXCEPT ![current] = outcome]
  /\ worker' = "writing"
  /\ UNCHANGED <<rowDb, solve, lost, orderVars, current, outcome, connVars,
                 lifeVars, told, dbFailures>>

\* If the write raises, _run logs it and the worker lives on: no frame.
WriteResultOrTell ==  \* mutant: the frame goes out although the write failed
  /\ worker = "writing"
  /\ worker' = "publishing"
  /\ \/ DbWorks /\ rowDb' = [rowDb EXCEPT ![current] = outcome]
     \/ DbFails /\ UNCHANGED rowDb
  /\ UNCHANGED <<rowMem, solve, lost, orderVars, current, outcome, connVars,
                 lifeVars, told>>

WriteResult ==
  /\ worker = "writing"
  /\ \/ /\ DbWorks
        /\ rowDb' = [rowDb EXCEPT ![current] = outcome]
        /\ worker' = "publishing"
     \/ /\ DbFails
        /\ worker' = "finishing"
        /\ rowDb' \in {rowDb, [rowDb EXCEPT ![current] = outcome]}
  /\ UNCHANGED <<rowMem, solve, lost, orderVars, current, outcome, connVars,
                 lifeVars, told>>

\* EventBus.publish_threadsafe, which drops the frame when no loop is bound.
PublishResult ==
  /\ worker = "publishing"
  /\ told' = IF loopBound THEN [told EXCEPT ![current] = outcome] ELSE told
  /\ worker' = "finishing"
  /\ UNCHANGED <<solveVars, orderVars, current, outcome, connVars, lifeVars,
                 dbFailures>>

\* The finally block of _work gives the slot back under _lock.
FinishOnSuccess ==  \* mutant: the slot is given back on the success path only
  /\ worker = "finishing" /\ lock = "free"
  /\ outcome \in {"feasible", "infeasible"}
  /\ outstanding' = outstanding - 1
  /\ current' = NoJob /\ outcome' = "none"
  /\ worker' = "idle"
  /\ UNCHANGED <<solveVars, queue, accepting, lock, connVars, lifeVars, told,
                 dbFailures>>

FinishOrder ==
  /\ worker = "finishing" /\ lock = "free"
  /\ outstanding' = outstanding - 1
  /\ current' = NoJob /\ outcome' = "none"
  /\ worker' = "idle"
  /\ UNCHANGED <<solveVars, queue, accepting, lock, connVars, lifeVars, told,
                 dbFailures>>

\* A unit of time passes since the last solve returned.  Between the look at
\* the connection and the proposal no more than Encoding of them can.
ConnectionIdles ==
  /\ provider = "used" /\ worker # "solving" /\ idle < Closes
  /\ worker = "encoding" => idle < idleRead + Encoding
  /\ idle' = idle + 1
  /\ UNCHANGED <<solveVars, orderVars, worker, current, outcome, provider,
                 idleRead, lifeVars, told, dbFailures>>

-----------------------------------------------------------------------------
(* The lifespan.                                                           *)

\* shutdown() takes _lock and stops admissions ...
Shutdown ==
  /\ life = "up" /\ lock = "free" /\ restarts < MaxRestarts
  /\ life' = "stopping" /\ lock' = "shutdown" /\ accepting' = FALSE
  /\ UNCHANGED <<solveVars, queue, outstanding, workerVars, loopBound, restarts,
                 told, dbFailures>>

\* ... drops the queued orders one get_nowait at a time ...
DrainOne ==
  /\ lock = "shutdown" /\ queue # <<>>
  /\ queue' = Tail(queue)
  /\ outstanding' = outstanding - 1
  /\ lost' = lost \union {Head(queue)}
  /\ UNCHANGED <<solve, rowMem, rowDb, accepting, lock, workerVars, lifeVars,
                 told, dbFailures>>

\* ... until queue.Empty, and releases _lock.
DrainEndReset ==  \* mutant: shutdown zeroes the count under an order in flight
  /\ lock = "shutdown" /\ queue = <<>>
  /\ lock' = "free" /\ outstanding' = 0
  /\ UNCHANGED <<solveVars, queue, accepting, workerVars, lifeVars, told,
                 dbFailures>>

DrainEnd ==
  /\ lock = "shutdown" /\ queue = <<>>
  /\ lock' = "free"
  /\ UNCHANGED <<solveVars, queue, outstanding, accepting, workerVars, lifeVars,
                 told, dbFailures>>

UnbindLoop ==
  /\ life = "stopping" /\ lock = "free" /\ loopBound
  /\ loopBound' = FALSE
  /\ UNCHANGED <<solveVars, orderVars, workerVars, life, restarts, told,
                 dbFailures>>

\* The process ends and the next one loads the store from SQL.  Everything in
\* memory is gone; solve threads that had not finished die with it.
Reboot ==
  /\ life' = "starting" /\ loopBound' = FALSE /\ restarts' = restarts + 1
  /\ rowMem' = rowDb
  /\ solve' = [j \in Jobs |-> IF solve[j] \in {"idle", "done", "raised"}
                                THEN solve[j] ELSE "dead"]
  /\ queue' = <<>> /\ outstanding' = 0 /\ accepting' = TRUE /\ lock' = "free"
  /\ worker' = "none" /\ current' = NoJob /\ outcome' = "none"
  /\ provider' = "none" /\ idle' = 0 /\ idleRead' = 0 /\ lost' = {}
  /\ UNCHANGED <<rowDb, told, dbFailures>>

\* A crash, at any point, startup included.
Crash == restarts < MaxRestarts /\ Reboot

\* The end of a graceful stop, which a redeploy follows with a new process.
Exit == life = "stopping" /\ lock = "free" /\ ~loopBound /\ Reboot

\* fail_pending_results: every row still pending when the store is loaded.
FailNone(rows) == rows  \* mutant: startup forgets the rows
FailAll(rows) ==        \* mutant: startup fails the settled rows too
  [j \in Jobs |-> IF rowMem[j] # "none" THEN "failed" ELSE rows[j]]
FailPending(rows) ==
  [j \in Jobs |-> IF rowMem[j] = "pending" THEN "failed" ELSE rows[j]]

\* lifespan startup: _fail_stale_quip_orders, bind_loop, quip_orders.start.
Startup ==
  /\ life = "starting"
  /\ rowMem' = FailPending(rowMem) /\ rowDb' = FailPending(rowDb)
  /\ life' = "up" /\ loopBound' = TRUE /\ accepting' = TRUE
  /\ UNCHANGED <<solve, lost, queue, outstanding, lock, workerVars, restarts,
                 told, dbFailures>>

-----------------------------------------------------------------------------
\* Nothing left to do: every solve ended and no order is outstanding.  Named
\* so that any other state without a successor is a deadlock.
Rest ==
  /\ life = "up" /\ worker \in {"none", "idle"} /\ queue = <<>>
  /\ \A j \in Jobs : solve[j] \in {"done", "raised", "dead"}
  /\ UNCHANGED vars

SolveStep(j) ==
  \/ RecordSnapshot(j) \/ InsertSnapshot(j) \/ Submit(j)
  \/ Put(j) \/ Skip(j) \/ SkipWrite(j)

WorkerStep ==
  \/ Take \/ Propose \/ (\E r \in Outcomes : Answer(r)) \/ RecordResult
  \/ WriteResult \/ PublishResult \/ FinishOrder

StopStep == DrainOne \/ DrainEnd \/ UnbindLoop \/ Exit

Next ==
  \/ \E j \in Jobs : SolveStep(j)
  \/ WorkerStep \/ ConnectionIdles
  \/ Shutdown \/ StopStep \/ Crash \/ Startup
  \/ Rest

Safe == Init /\ [][Next]_vars

(***************************************************************************)
(* Threads are scheduled: a solve thread that has recorded its snapshot    *)
(* goes on, so does the worker (an order ends within XQUAD_TIMEOUT_S), so  *)
(* does a stop or a start once begun.  Nothing makes a solve begin, a      *)
(* process crash, a redeploy happen or a connection idle.                  *)
(***************************************************************************)
Spec ==
  /\ Safe
  /\ \A j \in Jobs : WF_vars(SolveStep(j) /\ solve[j] # "idle")
  /\ WF_vars(WorkerStep) /\ WF_vars(StopStep) /\ WF_vars(Startup)

-----------------------------------------------------------------------------
TypeOK ==
  /\ rowMem \in [Jobs -> Status] /\ rowDb \in [Jobs -> Status]
  /\ solve \in [Jobs -> SolveStages]
  /\ queue \in Seq(Jobs) /\ outstanding \in Nat /\ accepting \in BOOLEAN
  /\ lock \in {"free", "shutdown"}
  /\ worker \in WorkerStages /\ current \in Jobs \union {NoJob}
  /\ outcome \in Outcomes \union {"none"}
  /\ provider \in {"none", "fresh", "used"}
  /\ idle \in 0..Closes /\ idleRead \in 0..Closes
  /\ life \in {"starting", "up", "stopping"} /\ loopBound \in BOOLEAN
  /\ told \in [Jobs -> Status] /\ lost \in SUBSET Jobs
  /\ restarts \in 0..MaxRestarts /\ dbFailures \in 0..MaxDbFailures

\* _outstanding, moved by solve threads, the worker and shutdown's drain, is
\* exactly the number of orders that hold a slot, and never over the limit:
\* "at most QUIP_MAX_PENDING_ORDERS orders are outstanding (queued or in
\* flight)" (quip_orders.py).
SlotsExact ==
  /\ outstanding = Cardinality(LiveOrders)
  /\ outstanding <= MaxPending

\* An order that holds a slot has a worker thread to run it, although the
\* thread is only ever started by submit and the order is put after that.
SlotsAreServed == LiveOrders # {} => worker # "none"

\* A row a page reads as pending has something that will settle it: its solve
\* thread, its order, or the next startup when the order was lost (a snapshot
\* insert that raised, or shutdown's drain).
PendingIsBacked ==
  \A j \in Jobs : rowMem[j] = "pending" =>
    \/ solve[j] \in {"insert", "submit", "put", "skip"}
    \/ j \in InQueue
    \/ current = j /\ worker \in {"encoding", "solving", "recording"}
    \/ j \in lost
    \/ life = "starting"

\* Conversely an order never outruns its snapshot: until its result is stored,
\* its row exists and is pending in memory and in SQL, so the late result
\* always finds the row to replace (update_solver_result raises KeyError when
\* there is none, and the worker would log the result away).
OrderHasItsRow ==
  \A j \in LiveOrders :
    \/ rowMem[j] = "pending" /\ rowDb[j] = "pending"
    \/ /\ j = current /\ rowMem[j] = outcome
       /\ worker \in {"writing", "publishing", "finishing"}

\* An order never goes out over a connection the chain has closed, although the
\* idle time is read before the order is encoded and runs on while it is:
\* "Aglais closed every connection idle for 121 s or more" (quip_orders.py).
ProposesOnOpenConnection == worker = "encoding" => idle < Closes

\* A result that GET latest-result has shown is taken back only when the
\* process dies before that result reached SQL.
ShownResultStands ==
  [][\A j \in Jobs : rowMem[j] \in Settled /\ rowMem'[j] # rowMem[j]
                        => rowDb[j] = "pending" /\ restarts' > restarts]_vars

\* The rows in SQL and the frames on the agent channel keep the contract of
\* OrderContract across threads, failures and restarts.
Contract == INSTANCE OrderContract WITH row <- rowDb
KeepsContract == Contract!Spec

\* No row stays pending for ever in SQL (without a SQL failure, which leaves a
\* row to the next startup): the worker, the refusal or a startup settles it.
PendingSettles ==
  \A j \in Jobs :
    rowDb[j] = "pending" ~> (rowDb[j] \in Settled \/ dbFailures > 0)

\* Every order gives its slot back, whatever fails while it runs.
SlotsReturn == \A j \in Jobs : j \in LiveOrders ~> j \notin LiveOrders
=============================================================================
