-------------------------- MODULE QuipOrdersProofs --------------------------
(***************************************************************************)
(* The safety of the order queue for every set of jobs and every limit,    *)
(* any number of restarts and SQL failures.                                *)
(*                                                                         *)
(* The inductive invariant says where every order is.  Places: a job is in *)
(* at most one of the three places an order can be (between submit's lock  *)
(* and the queue, in the queue, with the worker), so the places can be     *)
(* counted.  Rows: what the row of an order holds, in memory and in SQL,   *)
(* at each point of its way.  Fresh: what a process starts from.           *)
(***************************************************************************)
EXTENDS QuipOrders, FiniteSetTheorems, SequenceTheorems, TLAPS

Busy == {"encoding", "solving", "recording", "writing", "publishing",
         "finishing"}

Places ==
  /\ \A i, k \in 1..Len(queue) : queue[i] = queue[k] => i = k
  /\ \A j \in InQueue : solve[j] = "done"
  /\ current # NoJob => solve[current] = "done" /\ current \notin InQueue
  /\ current # NoJob <=> worker \in Busy
  /\ worker \in Busy \ {"encoding", "solving"} => outcome \in Outcomes

Holds(j, mem, db) == rowMem[j] = mem /\ rowDb[j] = db

RowOfSolve(j) ==
  /\ solve[j] = "idle" => Holds(j, "none", "none")
  /\ solve[j] = "insert" => Holds(j, "pending", "none")
  /\ solve[j] \in {"submit", "put", "skip"} => Holds(j, "pending", "pending")
  /\ solve[j] = "skipWrite" => Holds(j, "skipped", "pending")

RowOfOrder ==
  /\ worker \in {"encoding", "solving", "recording"} =>
       Holds(current, "pending", "pending")
  /\ worker = "writing" => Holds(current, outcome, "pending")
  /\ worker = "publishing" => Holds(current, outcome, outcome)
  /\ worker = "finishing" => rowMem[current] = outcome

\* A row in memory is the row in SQL, or one write ahead of it.
OneAhead(j) ==
  \/ rowMem[j] = rowDb[j]
  \/ rowMem[j] \in Settled /\ rowDb[j] = "pending"
  \/ Holds(j, "pending", "none")

Rows ==
  /\ \A j \in Jobs : RowOfSolve(j) /\ OneAhead(j)
  /\ \A j \in InQueue : Holds(j, "pending", "pending")
  /\ RowOfOrder

Fresh ==
  /\ life = "starting" =>
       /\ worker = "none" /\ rowMem = rowDb
       /\ \A j \in Jobs : solve[j] \in {"idle", "done", "raised", "dead"}
  /\ life = "stopping" => restarts < MaxRestarts

\* While an order is encoded its connection has been idle for what _run read
\* and what encoding took since.
InTime ==
  worker = "encoding" => idleRead <= Reconnect /\ idle <= idleRead + Encoding

IInv == /\ TypeOK /\ Places /\ SlotsExact /\ SlotsAreServed /\ Rows /\ Fresh
        /\ PendingIsBacked /\ InTime

-----------------------------------------------------------------------------
(* The queue as a set.                                                     *)

LEMMA QueueAppend ==
  ASSUME TypeOK, NEW j \in Jobs, queue' = Append(queue, j)
  PROVE  InQueue' = InQueue \union {j}
<1>1. queue \in Seq(Jobs)
  BY DEF TypeOK
<1>2. /\ Len(queue') = Len(queue) + 1 /\ Len(queue) \in Nat
      /\ \A i \in 1..Len(queue) : queue'[i] = queue[i]
      /\ queue'[Len(queue) + 1] = j
  BY <1>1
<1>3. InQueue' = {queue'[i] : i \in 1..(Len(queue) + 1)}
  BY <1>2 DEF InQueue
<1>4. 1..(Len(queue) + 1) = 1..Len(queue) \union {Len(queue) + 1}
  BY <1>2
<1> QED BY <1>2, <1>3, <1>4 DEF InQueue

LEMMA QueueTail ==
  ASSUME TypeOK, Places, queue # <<>>, queue' = Tail(queue)
  PROVE  /\ Head(queue) \in InQueue /\ Head(queue) \in Jobs
         /\ InQueue' = InQueue \ {Head(queue)}
         /\ queue' \in Seq(Jobs)
         /\ \A i, k \in 1..Len(queue') : queue'[i] = queue'[k] => i = k
<1>1. queue \in Seq(Jobs)
  BY DEF TypeOK
<1>2. /\ Len(queue) \in Nat \ {0} /\ Len(queue') = Len(queue) - 1
      /\ \A i \in 1..Len(queue') : queue'[i] = queue[i + 1]
      /\ Head(queue) = queue[1] /\ queue' \in Seq(Jobs)
  BY <1>1
<1>3. Head(queue) \in InQueue /\ Head(queue) \in Jobs
  BY <1>1, <1>2 DEF InQueue
<1>4. InQueue' \subseteq InQueue \ {Head(queue)}
  BY <1>2 DEF InQueue, Places
<1>5. InQueue \ {Head(queue)} \subseteq InQueue'
  <2> SUFFICES ASSUME NEW i \in 1..Len(queue), queue[i] # Head(queue)
               PROVE  queue[i] \in InQueue'
    BY DEF InQueue
  <2>1. i - 1 \in 1..Len(queue') /\ queue'[i - 1] = queue[i]
    BY <1>2
  <2> QED BY <2>1 DEF InQueue
<1>6. \A i, k \in 1..Len(queue') : queue'[i] = queue'[k] => i = k
  BY <1>2 DEF Places
<1> QED BY <1>2, <1>3, <1>4, <1>5, <1>6

LEMMA LiveFinite ==
  TypeOK => LiveOrders \in SUBSET Jobs /\ IsFiniteSet(LiveOrders)
            /\ Cardinality(LiveOrders) \in Nat
<1> SUFFICES ASSUME TypeOK PROVE LiveOrders \in SUBSET Jobs
  BY JobsAssumption, FS_Subset, FS_CardinalityType
<1>1. InQueue \subseteq Jobs
  BY DEF TypeOK, InQueue
<1> QED BY <1>1 DEF LiveOrders, TypeOK

\* A transaction, failed or not, keeps to the bound on failures.
LEMMA DbBound ==
  ASSUME TypeOK, DbFails \/ DbWorks
  PROVE  dbFailures' \in 0..MaxDbFailures
BY BoundsAssumption DEF TypeOK, DbFails, DbWorks


-----------------------------------------------------------------------------
(* The steps, one part of the invariant at a time.                         *)

\* Every step keeps the types.
LEMMA TypeStep ==
  ASSUME TypeOK, Places, SlotsExact, Fresh, [Next]_vars
  PROVE  TypeOK'
<1>1. ASSUME NEW j \in Jobs, RecordSnapshot(j) PROVE TypeOK'
  BY <1>1
  DEF RecordSnapshot, TypeOK, Status, Settled, Outcomes, SolveStages,
      WorkerStages, solveVars, orderVars, workerVars, connVars, lifeVars
<1>2. ASSUME NEW j \in Jobs, InsertSnapshot(j) PROVE TypeOK'
  <2>1. dbFailures' \in 0..MaxDbFailures
    BY <1>2, DbBound DEF InsertSnapshot
  <2> QED
    BY <1>2, <2>1
    DEF InsertSnapshot, TypeOK, Status, Settled, SolveStages, solveVars,
        orderVars, workerVars, connVars, lifeVars
<1>3. ASSUME NEW j \in Jobs, Submit(j) PROVE TypeOK'
  BY <1>3
  DEF Submit, StartedWorker, Full, TypeOK, Status, Settled, Outcomes,
      SolveStages, WorkerStages, solveVars, orderVars, workerVars, connVars,
      lifeVars
<1>4. ASSUME NEW j \in Jobs, Put(j) PROVE TypeOK'
  <2>1. queue' \in Seq(Jobs)
    BY <1>4, AppendProperties DEF Put, TypeOK
  <2> QED
    BY <1>4, <2>1
    DEF Put, TypeOK, SolveStages, solveVars, orderVars, workerVars, connVars,
        lifeVars
<1>5. ASSUME NEW j \in Jobs, Skip(j) PROVE TypeOK'
  BY <1>5
  DEF Skip, TypeOK, Status, Settled, Outcomes, SolveStages, WorkerStages,
      solveVars, orderVars, workerVars, connVars, lifeVars
<1>6. ASSUME NEW j \in Jobs, SkipWrite(j) PROVE TypeOK'
  <2>1. dbFailures' \in 0..MaxDbFailures
    BY <1>6, DbBound DEF SkipWrite
  <2> QED
    BY <1>6, <2>1
    DEF SkipWrite, TypeOK, Status, Settled, SolveStages, solveVars, orderVars,
        workerVars, connVars, lifeVars
<1>7. ASSUME NEW r \in Outcomes, Answer(r) PROVE TypeOK'
  BY <1>7, IdleAssumption
  DEF Answer, TypeOK, Status, Settled, Outcomes, SolveStages, WorkerStages,
      solveVars, orderVars, workerVars, connVars, lifeVars
<1>8. CASE Take
  <2>1. queue' \in Seq(Jobs) /\ Head(queue) \in Jobs
    BY <1>8, QueueTail DEF Take
  <2> QED
    BY <1>8, <2>1, IdleAssumption
    DEF Take, Kept, TypeOK, WorkerStages, solveVars, orderVars, workerVars,
        connVars, lifeVars
<1>9. CASE Propose
  BY <1>9, IdleAssumption
  DEF Propose, TypeOK, Status, Settled, Outcomes, SolveStages, WorkerStages,
      solveVars, orderVars, workerVars, connVars, lifeVars
<1>10. CASE RecordResult
  <2>1. outcome \in Status
    BY <1>10 DEF RecordResult, Places, Busy, Status, Settled
  <2> QED
    BY <1>10, <2>1
    DEF RecordResult, TypeOK, WorkerStages, orderVars, connVars, lifeVars
<1>11. CASE WriteResult
  <2>1. outcome \in Outcomes /\ dbFailures' \in 0..MaxDbFailures
    BY <1>11, DbBound DEF WriteResult, Places, Busy
  <2> QED
    BY <1>11, <2>1
    DEF WriteResult, TypeOK, Status, Settled, WorkerStages, solveVars,
        orderVars, workerVars, connVars, lifeVars
<1>12. CASE PublishResult
  BY <1>12, ZenonT(30)
  DEF PublishResult, TypeOK, Status, Settled, Outcomes, SolveStages,
      WorkerStages, solveVars, orderVars, workerVars, connVars, lifeVars
<1>13. CASE FinishOrder
  <2>1. current \in LiveOrders
    BY <1>13 DEF FinishOrder, Places, Busy, LiveOrders
  <2>2. outstanding > 0
    BY <2>1, LiveFinite, FS_EmptySet DEF SlotsExact, TypeOK
  <2> QED
    BY <1>13, <2>2
    DEF FinishOrder, TypeOK, WorkerStages, solveVars, orderVars, workerVars,
        connVars, lifeVars
<1>14. CASE ConnectionIdles
  BY <1>14, IdleAssumption
  DEF ConnectionIdles, TypeOK, Status, Settled, Outcomes, SolveStages,
      WorkerStages, solveVars, orderVars, workerVars, connVars, lifeVars
<1>15. CASE Shutdown
  BY <1>15
  DEF Shutdown, TypeOK, Status, Settled, Outcomes, SolveStages, WorkerStages,
      solveVars, orderVars, workerVars, connVars, lifeVars
<1>16. CASE DrainOne
  <2>1. queue' \in Seq(Jobs) /\ Head(queue) \in InQueue /\ Head(queue) \in Jobs
    BY <1>16, QueueTail DEF DrainOne
  <2>2. Head(queue) \in LiveOrders
    BY <2>1 DEF LiveOrders
  <2>3. outstanding > 0
    BY <2>2, LiveFinite, FS_EmptySet DEF SlotsExact, TypeOK
  <2> QED
    BY <1>16, <2>1, <2>3
    DEF DrainOne, TypeOK, solveVars, orderVars, workerVars, connVars, lifeVars
<1>17. CASE DrainEnd
  BY <1>17
  DEF DrainEnd, TypeOK, Status, Settled, Outcomes, SolveStages, WorkerStages,
      solveVars, orderVars, workerVars, connVars, lifeVars
<1>18. CASE UnbindLoop
  BY <1>18
  DEF UnbindLoop, TypeOK, Status, Settled, Outcomes, SolveStages, WorkerStages,
      solveVars, orderVars, workerVars, connVars, lifeVars
<1>19. CASE Crash \/ Exit
  <2>1. Reboot /\ restarts' \in 0..MaxRestarts
    BY <1>19, BoundsAssumption DEF Crash, Exit, Reboot, Fresh, TypeOK
  <2>2. queue' \in Seq(Jobs)
    BY <2>1, EmptySeq DEF Reboot
  <2>3. solve' \in [Jobs -> SolveStages]
    BY <2>1 DEF Reboot, TypeOK, SolveStages
  <2>4. idle' \in 0..Closes /\ idleRead' \in 0..Closes
    BY <2>1, IdleAssumption DEF Reboot
  <2> QED
    BY <2>1, <2>2, <2>3, <2>4 DEF Reboot, TypeOK, WorkerStages
<1>20. CASE Startup
  <2>1. rowMem' \in [Jobs -> Status] /\ rowDb' \in [Jobs -> Status]
    BY <1>20 DEF Startup, FailPending, TypeOK, Status, Settled, Outcomes
  <2> QED
    BY <1>20, <2>1 DEF Startup, TypeOK, workerVars, connVars
<1>21. CASE UNCHANGED vars
  BY <1>21
  DEF vars, TypeOK, Status, Settled, Outcomes, SolveStages, WorkerStages,
      solveVars, orderVars, workerVars, connVars, lifeVars
<1> QED
  BY <1>1, <1>2, <1>3, <1>4, <1>5, <1>6, <1>7, <1>8, <1>9, <1>10, <1>11, <1>12,
     <1>13, <1>14, <1>15, <1>16, <1>17, <1>18, <1>19, <1>20, <1>21
  DEF Next, SolveStep, WorkerStep, StopStep, Rest

\* Every step keeps the three places of an order apart.
LEMMA PlacesStep ==
  ASSUME TypeOK, Places, [Next]_vars
  PROVE  Places'
<1>1. ASSUME NEW j \in Jobs, RecordSnapshot(j) PROVE Places'
  BY <1>1
  DEF RecordSnapshot, Places, Busy, InQueue, TypeOK, solveVars, orderVars,
      workerVars, connVars, lifeVars
<1>2. ASSUME NEW j \in Jobs, InsertSnapshot(j) PROVE Places'
  BY <1>2
  DEF InsertSnapshot, DbFails, DbWorks, Places, Busy, InQueue, TypeOK,
      solveVars, orderVars, workerVars, connVars, lifeVars
<1>3. ASSUME NEW j \in Jobs, Submit(j) PROVE Places'
  BY <1>3
  DEF Submit, StartedWorker, Full, Places, Busy, InQueue, TypeOK, solveVars,
      orderVars, workerVars, connVars, lifeVars
<1>4. ASSUME NEW j \in Jobs, Put(j) PROVE Places'
  <2>1. /\ queue \in Seq(Jobs) /\ j \notin InQueue /\ current # j
        /\ InQueue' = InQueue \union {j}
    BY <1>4, QueueAppend, JobsAssumption DEF Put, Places, TypeOK
  <2>2. /\ Len(queue') = Len(queue) + 1 /\ Len(queue) \in Nat
        /\ \A i \in 1..Len(queue) : queue'[i] = queue[i]
        /\ queue'[Len(queue) + 1] = j
    BY <1>4, <2>1 DEF Put
  <2>3. \A i, k \in 1..Len(queue') : queue'[i] = queue'[k] => i = k
    BY <2>1, <2>2 DEF Places, InQueue
  <2> QED
    BY <1>4, <2>1, <2>3 DEF Put, Places, TypeOK, workerVars, connVars
<1>5. ASSUME NEW j \in Jobs, Skip(j) PROVE Places'
  BY <1>5, SMTT(30)
  DEF Skip, Places, Busy, InQueue, TypeOK, solveVars, orderVars, workerVars,
      connVars, lifeVars
<1>6. ASSUME NEW j \in Jobs, SkipWrite(j) PROVE Places'
  BY <1>6
  DEF SkipWrite, DbFails, DbWorks, Places, Busy, InQueue, TypeOK, solveVars,
      orderVars, workerVars, connVars, lifeVars
<1>7. ASSUME NEW r \in Outcomes, Answer(r) PROVE Places'
  BY <1>7
  DEF Answer, Places, Busy, InQueue, TypeOK, solveVars, orderVars, workerVars,
      connVars, lifeVars
<1>8. CASE Take
  <2>1. /\ Head(queue) \in InQueue /\ Head(queue) \in Jobs
        /\ InQueue' = InQueue \ {Head(queue)}
        /\ \A i, k \in 1..Len(queue') : queue'[i] = queue'[k] => i = k
    BY <1>8, QueueTail DEF Take
  <2>2. Head(queue) # NoJob
    BY <2>1, JobsAssumption
  <2> QED
    BY <1>8, <2>1, <2>2 DEF Take, Places, Busy, solveVars
<1>9. CASE Propose
  BY <1>9
  DEF Propose, Places, Busy, InQueue, TypeOK, solveVars, orderVars, workerVars,
      connVars, lifeVars
<1>10. CASE RecordResult
  BY <1>10
  DEF RecordResult, Places, Busy, InQueue, TypeOK, solveVars, orderVars,
      workerVars, connVars, lifeVars
<1>11. CASE WriteResult
  BY <1>11
  DEF WriteResult, DbFails, DbWorks, Places, Busy, InQueue, TypeOK, solveVars,
      orderVars, workerVars, connVars, lifeVars
<1>12. CASE PublishResult
  BY <1>12
  DEF PublishResult, Places, Busy, InQueue, TypeOK, solveVars, orderVars,
      workerVars, connVars, lifeVars
<1>13. CASE FinishOrder
  BY <1>13
  DEF FinishOrder, Places, Busy, InQueue, TypeOK, solveVars, orderVars,
      workerVars, connVars, lifeVars
<1>14. CASE ConnectionIdles
  BY <1>14
  DEF ConnectionIdles, Places, Busy, InQueue, TypeOK, solveVars, orderVars,
      workerVars, connVars, lifeVars
<1>15. CASE Shutdown
  BY <1>15
  DEF Shutdown, Places, Busy, InQueue, TypeOK, solveVars, orderVars,
      workerVars, connVars, lifeVars
<1>16. CASE DrainOne
  <2>1. /\ InQueue' = InQueue \ {Head(queue)}
        /\ \A i, k \in 1..Len(queue') : queue'[i] = queue'[k] => i = k
    BY <1>16, QueueTail DEF DrainOne
  <2> QED
    BY <1>16, <2>1 DEF DrainOne, Places, workerVars, connVars
<1>17. CASE DrainEnd
  BY <1>17
  DEF DrainEnd, Places, Busy, InQueue, TypeOK, solveVars, orderVars,
      workerVars, connVars, lifeVars
<1>18. CASE UnbindLoop
  BY <1>18
  DEF UnbindLoop, Places, Busy, InQueue, TypeOK, solveVars, orderVars,
      workerVars, connVars, lifeVars
<1>19. CASE Crash \/ Exit
  <2>1. Reboot /\ Len(queue') = 0
    BY <1>19 DEF Crash, Exit, Reboot
  <2>2. InQueue' = {}
    BY <2>1 DEF InQueue
  <2> QED
    BY <2>1, <2>2 DEF Reboot, Places, Busy
<1>20. CASE Startup
  BY <1>20 DEF Startup, Places, InQueue, workerVars
<1>21. CASE UNCHANGED vars
  BY <1>21
  DEF vars, Places, Busy, InQueue, TypeOK, solveVars, orderVars, workerVars,
      connVars, lifeVars
<1> QED
  BY <1>1, <1>2, <1>3, <1>4, <1>5, <1>6, <1>7, <1>8, <1>9, <1>10, <1>11, <1>12,
     <1>13, <1>14, <1>15, <1>16, <1>17, <1>18, <1>19, <1>20, <1>21
  DEF Next, SolveStep, WorkerStep, StopStep, Rest

\* A step that moves no order, or moves one between two of its places, keeps
\* the count.
LEMMA SlotsKept ==
  ASSUME SlotsExact, SlotsAreServed, LiveOrders' = LiveOrders,
         outstanding' = outstanding, worker' = "none" => worker = "none"
  PROVE  SlotsExact' /\ SlotsAreServed'
BY DEF SlotsExact, SlotsAreServed

\* An order that takes a slot adds one to the count.
LEMMA SlotTaken ==
  ASSUME TypeOK, SlotsExact, NEW x \in Jobs, x \notin LiveOrders,
         LiveOrders' = LiveOrders \union {x},
         outstanding' = outstanding + 1, outstanding < MaxPending
  PROVE  SlotsExact'
<1>1. IsFiniteSet(LiveOrders)
  BY LiveFinite
<1>2. Cardinality(LiveOrders \union {x}) = Cardinality(LiveOrders) + 1
  BY <1>1, FS_AddElement
<1> QED BY <1>2, MaxPendingAssumption DEF SlotsExact, TypeOK

\* An order that leaves takes one off, whoever takes it out.
LEMMA SlotGone ==
  ASSUME TypeOK, SlotsExact, NEW x \in LiveOrders,
         LiveOrders' = LiveOrders \ {x}, outstanding' = outstanding - 1
  PROVE  SlotsExact'
<1>1. IsFiniteSet(LiveOrders)
  BY LiveFinite
<1>2. Cardinality(LiveOrders \ {x}) = Cardinality(LiveOrders) - 1
  BY <1>1, FS_RemoveElement
<1> QED BY <1>2, MaxPendingAssumption DEF SlotsExact, TypeOK

\* Every step keeps the count of orders exact and within the limit.
LEMMA SlotsStep ==
  ASSUME TypeOK, Places, SlotsExact, SlotsAreServed, [Next]_vars
  PROVE  SlotsExact' /\ SlotsAreServed'
<1>1. ASSUME NEW j \in Jobs, RecordSnapshot(j)
      PROVE SlotsExact' /\ SlotsAreServed'
  <2>1. LiveOrders' = LiveOrders
    BY <1>1
    DEF RecordSnapshot, LiveOrders, InQueue, TypeOK, solveVars, orderVars,
        workerVars, connVars, lifeVars
  <2> QED
    BY <1>1, <2>1, SlotsKept
    DEF RecordSnapshot, solveVars, orderVars, workerVars, connVars, lifeVars
<1>2. ASSUME NEW j \in Jobs, InsertSnapshot(j)
      PROVE SlotsExact' /\ SlotsAreServed'
  <2>1. LiveOrders' = LiveOrders
    BY <1>2
    DEF InsertSnapshot, LiveOrders, InQueue, TypeOK, solveVars, orderVars,
        workerVars, connVars, lifeVars
  <2> QED
    BY <1>2, <2>1, SlotsKept
    DEF InsertSnapshot, solveVars, orderVars, workerVars, connVars, lifeVars
<1>3. ASSUME NEW j \in Jobs, Submit(j) PROVE SlotsExact' /\ SlotsAreServed'
  <2>1. j \notin LiveOrders
    BY <1>3, JobsAssumption DEF Submit, LiveOrders, Places
  <2>2. CASE ~accepting \/ Full
    <3>1. LiveOrders' = LiveOrders
      BY <1>3, <2>2 DEF Submit, LiveOrders, InQueue, TypeOK
    <3> QED BY <1>3, <2>2, <3>1, SlotsKept DEF Submit
  <2>3. CASE ~(~accepting \/ Full)
    <3>1. LiveOrders' = LiveOrders \union {j}
      BY <1>3, <2>3 DEF Submit, LiveOrders, InQueue, TypeOK
    <3>2. outstanding' = outstanding + 1 /\ outstanding < MaxPending
      BY <1>3, <2>3, MaxPendingAssumption DEF Submit, Full, TypeOK
    <3>3. worker' # "none"
      BY <1>3, <2>3 DEF Submit, StartedWorker
    <3>4. SlotsExact'
      BY <2>1, <3>1, <3>2, SlotTaken
    <3> QED BY <3>3, <3>4 DEF SlotsAreServed
  <2> QED BY <2>2, <2>3
<1>4. ASSUME NEW j \in Jobs, Put(j) PROVE SlotsExact' /\ SlotsAreServed'
  <2>1. InQueue' = InQueue \union {j}
    BY <1>4, QueueAppend DEF Put
  <2>2. LiveOrders' = LiveOrders
    BY <1>4, <2>1 DEF Put, LiveOrders, TypeOK, workerVars, connVars
  <2> QED BY <1>4, <2>2, SlotsKept DEF Put, workerVars, connVars
<1>5. ASSUME NEW j \in Jobs, Skip(j) PROVE SlotsExact' /\ SlotsAreServed'
  <2>1. LiveOrders' = LiveOrders
    BY <1>5
    DEF Skip, LiveOrders, InQueue, TypeOK, solveVars, orderVars, workerVars,
        connVars, lifeVars
  <2> QED
    BY <1>5, <2>1, SlotsKept
    DEF Skip, solveVars, orderVars, workerVars, connVars, lifeVars
<1>6. ASSUME NEW j \in Jobs, SkipWrite(j) PROVE SlotsExact' /\ SlotsAreServed'
  <2>1. LiveOrders' = LiveOrders
    BY <1>6
    DEF SkipWrite, LiveOrders, InQueue, TypeOK, solveVars, orderVars,
        workerVars, connVars, lifeVars
  <2> QED
    BY <1>6, <2>1, SlotsKept
    DEF SkipWrite, solveVars, orderVars, workerVars, connVars, lifeVars
<1>7. ASSUME NEW r \in Outcomes, Answer(r) PROVE SlotsExact' /\ SlotsAreServed'
  <2>1. LiveOrders' = LiveOrders
    BY <1>7
    DEF Answer, LiveOrders, InQueue, TypeOK, solveVars, orderVars, workerVars,
        connVars, lifeVars
  <2> QED
    BY <1>7, <2>1, SlotsKept
    DEF Answer, solveVars, orderVars, workerVars, connVars, lifeVars
<1>8. CASE Take
  <2>1. /\ Head(queue) \in InQueue /\ Head(queue) \in Jobs
        /\ InQueue' = InQueue \ {Head(queue)}
    BY <1>8, QueueTail DEF Take
  <2>2. current = NoJob /\ Head(queue) # NoJob
    BY <1>8, <2>1, JobsAssumption DEF Take, Places, Busy
  <2>3. LiveOrders' = LiveOrders
    BY <1>8, <2>1, <2>2 DEF Take, LiveOrders, solveVars
  <2> QED BY <1>8, <2>3, SlotsKept DEF Take
<1>9. CASE Propose
  <2>1. LiveOrders' = LiveOrders
    BY <1>9
    DEF Propose, LiveOrders, InQueue, TypeOK, solveVars, orderVars, lifeVars
  <2> QED
    BY <1>9, <2>1, SlotsKept DEF Propose, solveVars, orderVars, lifeVars
<1>10. CASE RecordResult
  <2>1. LiveOrders' = LiveOrders
    BY <1>10
    DEF RecordResult, LiveOrders, InQueue, TypeOK, solveVars, orderVars,
        workerVars, connVars, lifeVars
  <2> QED
    BY <1>10, <2>1, SlotsKept
    DEF RecordResult, solveVars, orderVars, workerVars, connVars, lifeVars
<1>11. CASE WriteResult
  <2>1. LiveOrders' = LiveOrders
    BY <1>11
    DEF WriteResult, LiveOrders, InQueue, TypeOK, solveVars, orderVars,
        workerVars, connVars, lifeVars
  <2> QED
    BY <1>11, <2>1, SlotsKept
    DEF WriteResult, solveVars, orderVars, workerVars, connVars, lifeVars
<1>12. CASE PublishResult
  <2>1. LiveOrders' = LiveOrders
    BY <1>12
    DEF PublishResult, LiveOrders, InQueue, TypeOK, solveVars, orderVars,
        workerVars, connVars, lifeVars
  <2> QED
    BY <1>12, <2>1, SlotsKept
    DEF PublishResult, solveVars, orderVars, workerVars, connVars, lifeVars
<1>13. CASE FinishOrder
  <2>1. /\ current # NoJob /\ current \notin InQueue
        /\ current \in Jobs => solve[current] # "put"
    BY <1>13 DEF FinishOrder, Places, Busy
  <2>2. current \in LiveOrders /\ LiveOrders' = LiveOrders \ {current}
    BY <1>13, <2>1 DEF FinishOrder, LiveOrders, InQueue, solveVars
  <2>3. SlotsExact'
    BY <1>13, <2>2, SlotGone DEF FinishOrder
  <2> QED BY <1>13, <2>3 DEF FinishOrder, SlotsAreServed
<1>14. CASE ConnectionIdles
  <2>1. LiveOrders' = LiveOrders
    BY <1>14
    DEF ConnectionIdles, LiveOrders, InQueue, TypeOK, solveVars, orderVars,
        workerVars, connVars, lifeVars
  <2> QED
    BY <1>14, <2>1, SlotsKept
    DEF ConnectionIdles, solveVars, orderVars, workerVars, connVars, lifeVars
<1>15. CASE Shutdown
  <2>1. LiveOrders' = LiveOrders
    BY <1>15
    DEF Shutdown, LiveOrders, InQueue, TypeOK, solveVars, orderVars,
        workerVars, connVars, lifeVars
  <2> QED
    BY <1>15, <2>1, SlotsKept
    DEF Shutdown, solveVars, orderVars, workerVars, connVars, lifeVars
<1>16. CASE DrainOne
  <2>1. /\ Head(queue) \in InQueue /\ Head(queue) \in Jobs
        /\ InQueue' = InQueue \ {Head(queue)}
    BY <1>16, QueueTail DEF DrainOne
  <2>2. solve[Head(queue)] # "put" /\ Head(queue) # current
    BY <2>1, JobsAssumption DEF Places
  <2>3. /\ Head(queue) \in LiveOrders
        /\ LiveOrders' = LiveOrders \ {Head(queue)}
    BY <1>16, <2>1, <2>2 DEF DrainOne, LiveOrders, workerVars, connVars
  <2>4. SlotsExact'
    BY <1>16, <2>3, SlotGone DEF DrainOne
  <2> QED BY <1>16, <2>3, <2>4
  DEF DrainOne, SlotsAreServed, workerVars, connVars
<1>17. CASE DrainEnd
  <2>1. LiveOrders' = LiveOrders
    BY <1>17
    DEF DrainEnd, LiveOrders, InQueue, TypeOK, solveVars, orderVars,
        workerVars, connVars, lifeVars
  <2> QED
    BY <1>17, <2>1, SlotsKept
    DEF DrainEnd, solveVars, orderVars, workerVars, connVars, lifeVars
<1>18. CASE UnbindLoop
  <2>1. LiveOrders' = LiveOrders
    BY <1>18
    DEF UnbindLoop, LiveOrders, InQueue, TypeOK, solveVars, orderVars,
        workerVars, connVars, lifeVars
  <2> QED
    BY <1>18, <2>1, SlotsKept
    DEF UnbindLoop, solveVars, orderVars, workerVars, connVars, lifeVars
<1>19. CASE Crash \/ Exit
  <2>1. Reboot /\ Len(queue') = 0
    BY <1>19 DEF Crash, Exit, Reboot
  <2>2. InQueue' = {}
    BY <2>1 DEF InQueue
  <2>3. \A j \in Jobs : solve'[j] # "put"
    BY <2>1 DEF Reboot
  <2>4. LiveOrders' = {}
    BY <2>1, <2>2, <2>3 DEF Reboot, LiveOrders
  <2> QED
    BY <2>1, <2>4, FS_EmptySet, MaxPendingAssumption
    DEF Reboot, SlotsExact, SlotsAreServed
<1>20. CASE Startup
  <2>1. LiveOrders' = LiveOrders
    BY <1>20
    DEF Startup, LiveOrders, InQueue, TypeOK, solveVars, orderVars, workerVars,
        connVars, lifeVars
  <2> QED
    BY <1>20, <2>1, SlotsKept
    DEF Startup, solveVars, orderVars, workerVars, connVars, lifeVars
<1>21. CASE UNCHANGED vars
  BY <1>21 DEF vars, LiveOrders, InQueue, SlotsExact, SlotsAreServed
<1> QED
  BY <1>1, <1>2, <1>3, <1>4, <1>5, <1>6, <1>7, <1>8, <1>9, <1>10, <1>11, <1>12,
     <1>13, <1>14, <1>15, <1>16, <1>17, <1>18, <1>19, <1>20, <1>21
  DEF Next, SolveStep, WorkerStep, StopStep, Rest

\* Every step keeps the rows in step with the orders.
LEMMA RowsStep ==
  ASSUME TypeOK, Places, SlotsAreServed, Rows, Fresh, [Next]_vars
  PROVE  Rows'
<1>1. ASSUME NEW j \in Jobs, RecordSnapshot(j) PROVE Rows'
  BY <1>1, JobsAssumption
  DEF RecordSnapshot, Rows, RowOfSolve, RowOfOrder, OneAhead, Holds, InQueue,
      Places, Busy, TypeOK, Settled, Outcomes, solveVars, orderVars,
      workerVars, connVars, lifeVars
<1>2. ASSUME NEW j \in Jobs, InsertSnapshot(j) PROVE Rows'
  BY <1>2, JobsAssumption
  DEF InsertSnapshot, DbFails, DbWorks, Rows, RowOfSolve, RowOfOrder, OneAhead,
      Holds, InQueue, Places, Busy, TypeOK, Settled, Outcomes, solveVars,
      orderVars, workerVars, connVars, lifeVars
<1>3. ASSUME NEW j \in Jobs, Submit(j) PROVE Rows'
  BY <1>3, JobsAssumption
  DEF Submit, StartedWorker, Full, Rows, RowOfSolve, RowOfOrder, OneAhead,
      Holds, InQueue, Places, Busy, TypeOK, Settled, Outcomes, solveVars,
      orderVars, workerVars, connVars, lifeVars
<1>4. ASSUME NEW j \in Jobs, Put(j) PROVE Rows'
  BY <1>4, JobsAssumption
  DEF Put, Rows, RowOfSolve, RowOfOrder, OneAhead, Holds, InQueue, Places,
      Busy, TypeOK, Settled, Outcomes, solveVars, orderVars, workerVars,
      connVars, lifeVars
<1>5. ASSUME NEW j \in Jobs, Skip(j) PROVE Rows'
  BY <1>5, JobsAssumption
  DEF Skip, Rows, RowOfSolve, RowOfOrder, OneAhead, Holds, InQueue, Places,
      Busy, TypeOK, Settled, Outcomes, solveVars, orderVars, workerVars,
      connVars, lifeVars
<1>6. ASSUME NEW j \in Jobs, SkipWrite(j) PROVE Rows'
  BY <1>6, JobsAssumption
  DEF SkipWrite, DbFails, DbWorks, Rows, RowOfSolve, RowOfOrder, OneAhead,
      Holds, InQueue, Places, Busy, TypeOK, Settled, Outcomes, solveVars,
      orderVars, workerVars, connVars, lifeVars
<1>7. ASSUME NEW r \in Outcomes, Answer(r) PROVE Rows'
  BY <1>7
  DEF Answer, Rows, RowOfSolve, RowOfOrder, OneAhead, Holds, InQueue, Places,
      Busy, TypeOK, Settled, Outcomes, solveVars, orderVars, workerVars,
      connVars, lifeVars
<1>8. CASE Take
  BY <1>8, JobsAssumption
  DEF Take, Kept, Rows, RowOfSolve, RowOfOrder, OneAhead, Holds, InQueue,
      Places, Busy, TypeOK, Settled, Outcomes, solveVars, orderVars,
      workerVars, connVars, lifeVars
<1>9. CASE Propose
  BY <1>9
  DEF Propose, Rows, RowOfSolve, RowOfOrder, OneAhead, Holds, InQueue, Places,
      Busy, TypeOK, Settled, Outcomes, solveVars, orderVars, workerVars,
      connVars, lifeVars
<1>10. CASE RecordResult
  BY <1>10, JobsAssumption
  DEF RecordResult, Rows, RowOfSolve, RowOfOrder, OneAhead, Holds, InQueue,
      Places, Busy, TypeOK, Settled, Outcomes, solveVars, orderVars,
      workerVars, connVars, lifeVars
<1>11. CASE WriteResult
  BY <1>11, JobsAssumption
  DEF WriteResult, DbFails, DbWorks, Rows, RowOfSolve, RowOfOrder, OneAhead,
      Holds, InQueue, Places, Busy, TypeOK, Settled, Outcomes, solveVars,
      orderVars, workerVars, connVars, lifeVars
<1>12. CASE PublishResult
  BY <1>12
  DEF PublishResult, Rows, RowOfSolve, RowOfOrder, OneAhead, Holds, InQueue,
      Places, Busy, TypeOK, Settled, Outcomes, solveVars, orderVars,
      workerVars, connVars, lifeVars
<1>13. CASE FinishOrder
  BY <1>13
  DEF FinishOrder, Rows, RowOfSolve, RowOfOrder, OneAhead, Holds, InQueue,
      Places, Busy, TypeOK, Settled, Outcomes, solveVars, orderVars,
      workerVars, connVars, lifeVars
<1>14. CASE ConnectionIdles
  BY <1>14
  DEF ConnectionIdles, Rows, RowOfSolve, RowOfOrder, OneAhead, Holds, InQueue,
      Places, Busy, TypeOK, Settled, Outcomes, solveVars, orderVars,
      workerVars, connVars, lifeVars
<1>15. CASE Shutdown
  BY <1>15
  DEF Shutdown, Rows, RowOfSolve, RowOfOrder, OneAhead, Holds, InQueue, Places,
      Busy, TypeOK, Settled, Outcomes, solveVars, orderVars, workerVars,
      connVars, lifeVars
<1>16. CASE DrainOne
  BY <1>16
  DEF DrainOne, Rows, RowOfSolve, RowOfOrder, OneAhead, Holds, InQueue, Places,
      Busy, TypeOK, Settled, Outcomes, solveVars, orderVars, workerVars,
      connVars, lifeVars
<1>17. CASE DrainEnd
  BY <1>17
  DEF DrainEnd, Rows, RowOfSolve, RowOfOrder, OneAhead, Holds, InQueue, Places,
      Busy, TypeOK, Settled, Outcomes, solveVars, orderVars, workerVars,
      connVars, lifeVars
<1>18. CASE UnbindLoop
  BY <1>18
  DEF UnbindLoop, Rows, RowOfSolve, RowOfOrder, OneAhead, Holds, InQueue,
      Places, Busy, TypeOK, Settled, Outcomes, solveVars, orderVars,
      workerVars, connVars, lifeVars
<1>19. CASE Crash \/ Exit
  BY <1>19
  DEF Reboot, Crash, Exit, Rows, RowOfSolve, RowOfOrder, OneAhead, Holds,
      InQueue, Places, Busy, TypeOK, Settled, Outcomes, solveVars, orderVars,
      workerVars, connVars, lifeVars
<1>20. CASE Startup
  <2>1. /\ InQueue = {} /\ worker = "none" /\ rowMem = rowDb
        /\ \A j \in Jobs : solve[j] \in {"idle", "done", "raised", "dead"}
    BY <1>20 DEF Startup, Fresh, SlotsAreServed, LiveOrders
  <2>2. /\ InQueue' = InQueue /\ UNCHANGED <<worker, solve>>
        /\ \A j \in Jobs : rowMem'[j] = rowDb'[j]
        /\ \A j \in Jobs : rowMem[j] = "none" => rowMem'[j] = "none"
    BY <1>20, <2>1
    DEF Startup, FailPending, InQueue, TypeOK, workerVars, connVars
  <2>3. ASSUME NEW j \in Jobs PROVE RowOfSolve(j)' /\ OneAhead(j)'
    <3>1. rowMem'[j] = rowDb'[j] /\ solve'[j] = solve[j]
      BY <2>2
    <3>2. solve[j] = "idle" => rowMem[j] = "none"
      BY DEF Rows, RowOfSolve, Holds
    <3> QED
      BY <2>1, <2>2, <3>1, <3>2 DEF RowOfSolve, OneAhead, Holds
  <2>4. RowOfOrder'
    BY <2>1, <2>2 DEF RowOfOrder
  <2> QED
    BY <2>1, <2>2, <2>3, <2>4 DEF Rows
<1>21. CASE UNCHANGED vars
  BY <1>21
  DEF vars, Rows, RowOfSolve, RowOfOrder, OneAhead, Holds, InQueue, Places,
      Busy, TypeOK, Settled, Outcomes, solveVars, orderVars, workerVars,
      connVars, lifeVars
<1> QED
  BY <1>1, <1>2, <1>3, <1>4, <1>5, <1>6, <1>7, <1>8, <1>9, <1>10, <1>11, <1>12,
     <1>13, <1>14, <1>15, <1>16, <1>17, <1>18, <1>19, <1>20, <1>21
  DEF Next, SolveStep, WorkerStep, StopStep, Rest

\* Every step keeps what a new process starts from.
LEMMA FreshStep ==
  ASSUME TypeOK, Places, Fresh, [Next]_vars
  PROVE  Fresh'
<1>1. ASSUME NEW j \in Jobs, RecordSnapshot(j) PROVE Fresh'
  BY <1>1
  DEF RecordSnapshot, Fresh, Running, solveVars, orderVars, workerVars,
      connVars, lifeVars
<1>2. ASSUME NEW j \in Jobs, InsertSnapshot(j) PROVE Fresh'
  BY <1>2
  DEF InsertSnapshot, DbFails, DbWorks, Fresh, Running, solveVars, orderVars,
      workerVars, connVars, lifeVars
<1>3. ASSUME NEW j \in Jobs, Submit(j) PROVE Fresh'
  BY <1>3
  DEF Submit, StartedWorker, Full, Fresh, Running, solveVars, orderVars,
      workerVars, connVars, lifeVars
<1>4. ASSUME NEW j \in Jobs, Put(j) PROVE Fresh'
  BY <1>4
  DEF Put, Fresh, Running, solveVars, orderVars, workerVars, connVars, lifeVars
<1>5. ASSUME NEW j \in Jobs, Skip(j) PROVE Fresh'
  BY <1>5
  DEF Skip, Fresh, Running, solveVars, orderVars, workerVars, connVars,
      lifeVars
<1>6. ASSUME NEW j \in Jobs, SkipWrite(j) PROVE Fresh'
  BY <1>6
  DEF SkipWrite, DbFails, DbWorks, Fresh, Running, solveVars, orderVars,
      workerVars, connVars, lifeVars
<1>7. ASSUME NEW r \in Outcomes, Answer(r) PROVE Fresh'
  BY <1>7
  DEF Answer, Fresh, Running, solveVars, orderVars, workerVars, connVars,
      lifeVars
<1>8. CASE Take
  BY <1>8
  DEF Take, Kept, Fresh, Running, solveVars, orderVars, workerVars, connVars,
      lifeVars
<1>9. CASE Propose
  BY <1>9
  DEF Propose, Fresh, Running, solveVars, orderVars, workerVars, connVars,
      lifeVars
<1>10. CASE RecordResult
  BY <1>10
  DEF RecordResult, Fresh, Running, solveVars, orderVars, workerVars, connVars,
      lifeVars
<1>11. CASE WriteResult
  BY <1>11
  DEF WriteResult, DbFails, DbWorks, Fresh, Running, solveVars, orderVars,
      workerVars, connVars, lifeVars
<1>12. CASE PublishResult
  BY <1>12
  DEF PublishResult, Fresh, Running, solveVars, orderVars, workerVars,
      connVars, lifeVars
<1>13. CASE FinishOrder
  BY <1>13
  DEF FinishOrder, Fresh, Running, solveVars, orderVars, workerVars, connVars,
      lifeVars
<1>14. CASE ConnectionIdles
  BY <1>14
  DEF ConnectionIdles, Fresh, Running, solveVars, orderVars, workerVars,
      connVars, lifeVars
<1>15. CASE Shutdown
  BY <1>15
  DEF Shutdown, Fresh, Running, solveVars, orderVars, workerVars, connVars,
      lifeVars
<1>16. CASE DrainOne
  BY <1>16
  DEF DrainOne, Fresh, Running, solveVars, orderVars, workerVars, connVars,
      lifeVars
<1>17. CASE DrainEnd
  BY <1>17
  DEF DrainEnd, Fresh, Running, solveVars, orderVars, workerVars, connVars,
      lifeVars
<1>18. CASE UnbindLoop
  BY <1>18
  DEF UnbindLoop, Fresh, Running, solveVars, orderVars, workerVars, connVars,
      lifeVars
<1>19. CASE Crash \/ Exit
  BY <1>19
  DEF Reboot, Crash, Exit, Fresh, Running, solveVars, orderVars, workerVars,
      connVars, lifeVars
<1>20. CASE Startup
  BY <1>20
  DEF Startup, FailPending, Fresh, Running, solveVars, orderVars, workerVars,
      connVars, lifeVars
<1>21. CASE UNCHANGED vars
  BY <1>21
  DEF vars, Fresh, Running, solveVars, orderVars, workerVars, connVars,
      lifeVars
<1> QED
  BY <1>1, <1>2, <1>3, <1>4, <1>5, <1>6, <1>7, <1>8, <1>9, <1>10, <1>11, <1>12,
     <1>13, <1>14, <1>15, <1>16, <1>17, <1>18, <1>19, <1>20, <1>21
  DEF Next, SolveStep, WorkerStep, StopStep, Rest

\* Every step keeps a settler behind each pending row.
LEMMA BackedStep ==
  ASSUME TypeOK, Places, Rows, Fresh, PendingIsBacked, [Next]_vars
  PROVE  PendingIsBacked'
<1>1. ASSUME NEW j \in Jobs, RecordSnapshot(j) PROVE PendingIsBacked'
  BY <1>1
  DEF RecordSnapshot, PendingIsBacked, Rows, RowOfSolve, Holds, InQueue,
      Places, Busy, TypeOK, Outcomes, solveVars, orderVars, workerVars,
      connVars, lifeVars
<1>2. ASSUME NEW j \in Jobs, InsertSnapshot(j) PROVE PendingIsBacked'
  BY <1>2
  DEF InsertSnapshot, DbFails, DbWorks, PendingIsBacked, Rows, RowOfSolve,
      Holds, InQueue, Places, Busy, TypeOK, Outcomes, solveVars, orderVars,
      workerVars, connVars, lifeVars
<1>3. ASSUME NEW j \in Jobs, Submit(j) PROVE PendingIsBacked'
  BY <1>3
  DEF Submit, StartedWorker, Full, PendingIsBacked, Rows, RowOfSolve, Holds,
      InQueue, Places, Busy, TypeOK, Outcomes, solveVars, orderVars,
      workerVars, connVars, lifeVars
<1>4. ASSUME NEW j \in Jobs, Put(j) PROVE PendingIsBacked'
  BY <1>4
  DEF Put, PendingIsBacked, Rows, RowOfSolve, Holds, InQueue, Places, Busy,
      TypeOK, Outcomes, solveVars, orderVars, workerVars, connVars, lifeVars
<1>5. ASSUME NEW j \in Jobs, Skip(j) PROVE PendingIsBacked'
  BY <1>5
  DEF Skip, PendingIsBacked, Rows, RowOfSolve, Holds, InQueue, Places, Busy,
      TypeOK, Outcomes, solveVars, orderVars, workerVars, connVars, lifeVars
<1>6. ASSUME NEW j \in Jobs, SkipWrite(j) PROVE PendingIsBacked'
  BY <1>6
  DEF SkipWrite, DbFails, DbWorks, PendingIsBacked, Rows, RowOfSolve, Holds,
      InQueue, Places, Busy, TypeOK, Outcomes, solveVars, orderVars,
      workerVars, connVars, lifeVars
<1>7. ASSUME NEW r \in Outcomes, Answer(r) PROVE PendingIsBacked'
  BY <1>7
  DEF Answer, PendingIsBacked, Rows, RowOfSolve, Holds, InQueue, Places, Busy,
      TypeOK, Outcomes, solveVars, orderVars, workerVars, connVars, lifeVars
<1>8. CASE Take
  <2>1. InQueue' = InQueue \ {Head(queue)}
    BY <1>8, QueueTail DEF Take
  <2>2. current' = Head(queue) /\ worker = "idle" /\ worker' = "encoding"
    BY <1>8 DEF Take
  <2> QED
    BY <1>8, <2>1, <2>2 DEF Take, PendingIsBacked, solveVars, lifeVars
<1>9. CASE Propose
  BY <1>9
  DEF Propose, PendingIsBacked, Rows, RowOfSolve, Holds, InQueue, Places, Busy,
      TypeOK, Outcomes, solveVars, orderVars, workerVars, connVars, lifeVars
<1>10. CASE RecordResult
  BY <1>10
  DEF RecordResult, PendingIsBacked, Rows, RowOfSolve, Holds, InQueue, Places,
      Busy, TypeOK, Outcomes, solveVars, orderVars, workerVars, connVars,
      lifeVars
<1>11. CASE WriteResult
  BY <1>11
  DEF WriteResult, DbFails, DbWorks, PendingIsBacked, Rows, RowOfSolve, Holds,
      InQueue, Places, Busy, TypeOK, Outcomes, solveVars, orderVars,
      workerVars, connVars, lifeVars
<1>12. CASE PublishResult
  BY <1>12
  DEF PublishResult, PendingIsBacked, Rows, RowOfSolve, Holds, InQueue, Places,
      Busy, TypeOK, Outcomes, solveVars, orderVars, workerVars, connVars,
      lifeVars
<1>13. CASE FinishOrder
  BY <1>13
  DEF FinishOrder, PendingIsBacked, Rows, RowOfSolve, Holds, InQueue, Places,
      Busy, TypeOK, Outcomes, solveVars, orderVars, workerVars, connVars,
      lifeVars
<1>14. CASE ConnectionIdles
  BY <1>14
  DEF ConnectionIdles, PendingIsBacked, Rows, RowOfSolve, Holds, InQueue,
      Places, Busy, TypeOK, Outcomes, solveVars, orderVars, workerVars,
      connVars, lifeVars
<1>15. CASE Shutdown
  BY <1>15
  DEF Shutdown, PendingIsBacked, Rows, RowOfSolve, Holds, InQueue, Places,
      Busy, TypeOK, Outcomes, solveVars, orderVars, workerVars, connVars,
      lifeVars
<1>16. CASE DrainOne
  <2>1. InQueue' = InQueue \ {Head(queue)}
    BY <1>16, QueueTail DEF DrainOne
  <2> QED
    BY <1>16, <2>1
    DEF DrainOne, PendingIsBacked, workerVars, connVars, lifeVars
<1>17. CASE DrainEnd
  BY <1>17
  DEF DrainEnd, PendingIsBacked, Rows, RowOfSolve, Holds, InQueue, Places,
      Busy, TypeOK, Outcomes, solveVars, orderVars, workerVars, connVars,
      lifeVars
<1>18. CASE UnbindLoop
  BY <1>18
  DEF UnbindLoop, PendingIsBacked, Rows, RowOfSolve, Holds, InQueue, Places,
      Busy, TypeOK, Outcomes, solveVars, orderVars, workerVars, connVars,
      lifeVars
<1>19. CASE Crash \/ Exit
  BY <1>19
  DEF Reboot, Crash, Exit, PendingIsBacked, Rows, RowOfSolve, Holds, InQueue,
      Places, Busy, TypeOK, Outcomes, solveVars, orderVars, workerVars,
      connVars, lifeVars
<1>20. CASE Startup
  BY <1>20
  DEF Startup, FailPending, PendingIsBacked, Rows, RowOfSolve, Holds, InQueue,
      Places, Busy, TypeOK, Outcomes, solveVars, orderVars, workerVars,
      connVars, lifeVars
<1>21. CASE UNCHANGED vars
  BY <1>21
  DEF vars, PendingIsBacked, Rows, RowOfSolve, Holds, InQueue, Places, Busy,
      TypeOK, Outcomes, solveVars, orderVars, workerVars, connVars, lifeVars
<1> QED
  BY <1>1, <1>2, <1>3, <1>4, <1>5, <1>6, <1>7, <1>8, <1>9, <1>10, <1>11, <1>12,
     <1>13, <1>14, <1>15, <1>16, <1>17, <1>18, <1>19, <1>20, <1>21
  DEF Next, SolveStep, WorkerStep, StopStep, Rest

\* Every step keeps to the time that the look at the connection left.
LEMMA InTimeStep ==
  ASSUME TypeOK, InTime, [Next]_vars
  PROVE  InTime'
<1>1. CASE Take
  BY <1>1, IdleAssumption DEF Take, Kept, InTime, TypeOK
<1>2. CASE ConnectionIdles
  BY <1>2, IdleAssumption DEF ConnectionIdles, InTime, TypeOK
<1>3. CASE worker' # "encoding"
  BY <1>3 DEF InTime
<1>4. CASE UNCHANGED <<worker, connVars>>
  BY <1>4 DEF InTime, connVars
<1>5. ASSUME NEW j \in Jobs, SolveStep(j)
      PROVE worker' # "encoding" \/ UNCHANGED <<worker, connVars>>
  BY <1>5
  DEF SolveStep, RecordSnapshot, InsertSnapshot, Submit, StartedWorker, Put,
      Skip, SkipWrite, workerVars, connVars
<1>6. CASE WorkerStep /\ ~Take
  <2>1. worker' # "encoding"
    BY <1>6
    DEF WorkerStep, Propose, Answer, RecordResult, WriteResult, PublishResult,
        FinishOrder
  <2> QED BY <2>1, <1>3
<1>7. CASE Shutdown \/ DrainOne \/ DrainEnd \/ UnbindLoop \/ Startup
  BY <1>4, <1>7
  DEF Shutdown, DrainOne, DrainEnd, UnbindLoop, Startup, workerVars, connVars
<1>8. CASE Crash \/ Exit
  BY <1>3, <1>8 DEF Crash, Exit, Reboot
<1>9. CASE UNCHANGED vars
  BY <1>4, <1>9 DEF vars, connVars
<1> QED
  BY <1>1, <1>2, <1>3, <1>4, <1>5, <1>6, <1>7, <1>8, <1>9
  DEF Next, StopStep, Rest

-----------------------------------------------------------------------------
(* The theorems.                                                           *)

\* The invariant holds when the first process starts.
LEMMA InitInvariant == Init => IInv
<1> SUFFICES ASSUME Init PROVE IInv
  OBVIOUS
<1>1. Len(queue) = 0 /\ queue \in Seq(Jobs)
  BY EmptySeq DEF Init
<1>2. InQueue = {}
  BY <1>1 DEF InQueue
<1>3. LiveOrders = {}
  BY <1>2 DEF Init, LiveOrders
<1>4. SlotsExact /\ SlotsAreServed
  BY <1>3, FS_EmptySet, MaxPendingAssumption
  DEF Init, SlotsExact, SlotsAreServed
<1>5. TypeOK
  <2>1. /\ restarts \in 0..MaxRestarts /\ dbFailures \in 0..MaxDbFailures
        /\ idle \in 0..Closes /\ idleRead \in 0..Closes
    BY BoundsAssumption, IdleAssumption DEF Init
  <2>2. current \in Jobs \union {NoJob} /\ outstanding \in Nat
    BY DEF Init
  <2> QED
    BY <1>1, <2>1, <2>2 DEF Init, TypeOK, Status, SolveStages, WorkerStages
<1>6. Places /\ Rows /\ Fresh
  BY <1>1, <1>2
  DEF Init, Places, Busy, Rows, RowOfSolve, RowOfOrder, OneAhead, Holds, Fresh
<1>7. PendingIsBacked /\ InTime
  BY DEF Init, PendingIsBacked, InTime
<1> QED BY <1>4, <1>5, <1>6, <1>7 DEF IInv

\* Whatever step a thread, a failure or a restart takes, the order queue stays
\* in the states the invariant describes.
THEOREM Invariance == Safe => []IInv
<1>1. IInv /\ [Next]_vars => IInv'
  BY TypeStep, PlacesStep, SlotsStep, RowsStep, FreshStep, BackedStep,
     InTimeStep DEF IInv
<1> QED BY <1>1, InitInvariant, PTL DEF Safe

\* Every variable of the order queue keeps to its type.
THEOREM TypeCorrect == Safe => []TypeOK
<1>1. IInv => TypeOK
  BY DEF IInv
<1> QED BY <1>1, Invariance, PTL

\* _outstanding is the number of orders that hold a slot, at most
\* QUIP_MAX_PENDING_ORDERS, however submits, the worker's finally block and
\* shutdown's drain interleave.
THEOREM SlotsExactHolds == Safe => []SlotsExact
<1>1. IInv => SlotsExact
  BY DEF IInv
<1> QED BY <1>1, Invariance, PTL

\* An order that holds a slot has a worker thread.
THEOREM SlotsServedHolds == Safe => []SlotsAreServed
<1>1. IInv => SlotsAreServed
  BY DEF IInv
<1> QED BY <1>1, Invariance, PTL

\* A row that reads as pending has something that will settle it.
THEOREM PendingBackedHolds == Safe => []PendingIsBacked
<1>1. IInv => PendingIsBacked
  BY DEF IInv
<1> QED BY <1>1, Invariance, PTL

\* An order never outruns its snapshot: the late result finds its row.
THEOREM OrderRowHolds == Safe => []OrderHasItsRow
<1>1. ASSUME IInv PROVE OrderHasItsRow
  <2> SUFFICES ASSUME NEW j \in LiveOrders
               PROVE  \/ Holds(j, "pending", "pending")
                      \/ /\ j = current /\ rowMem[j] = outcome
                         /\ worker \in {"writing", "publishing", "finishing"}
    BY DEF OrderHasItsRow, Holds
  <2>1. CASE j \in Jobs /\ solve[j] = "put"
    BY <1>1, <2>1 DEF IInv, Rows, RowOfSolve
  <2>2. CASE j \in InQueue
    BY <1>1, <2>2 DEF IInv, Rows
  <2>3. CASE j = current /\ current # NoJob
    BY <1>1, <2>3 DEF IInv, Rows, RowOfOrder, Places, Busy, Holds
  <2> QED BY <2>1, <2>2, <2>3 DEF LiveOrders
<1> QED BY <1>1, Invariance, PTL

\* An order never goes out over a connection the chain has closed: the reading
\* is at most IDLE_RECONNECT_S, and encoding cannot take the rest.
THEOREM OpenConnectionHolds == Safe => []ProposesOnOpenConnection
<1>1. IInv => ProposesOnOpenConnection
  BY IdleAssumption DEF IInv, TypeOK, InTime, ProposesOnOpenConnection
<1> QED BY <1>1, Invariance, PTL

\* What a step may do to a settled row in memory.
Stands ==
  \A j \in Jobs : rowMem[j] \in Settled /\ rowMem'[j] # rowMem[j]
                   => rowDb[j] = "pending" /\ restarts' > restarts

\* No step but a restart takes back a settled row.
LEMMA StandsStep ==
  ASSUME TypeOK, Places, Rows, [Next]_vars
  PROVE  Stands
<1>1. ASSUME NEW j \in Jobs, RecordSnapshot(j) PROVE Stands
  BY <1>1
  DEF RecordSnapshot, Stands, Rows, RowOfSolve, RowOfOrder, OneAhead, Holds,
      TypeOK, Settled, Outcomes, solveVars, orderVars, workerVars, connVars,
      lifeVars
<1>2. ASSUME NEW j \in Jobs, InsertSnapshot(j) PROVE Stands
  BY <1>2
  DEF InsertSnapshot, DbFails, DbWorks, Stands, Rows, RowOfSolve, RowOfOrder,
      OneAhead, Holds, TypeOK, Settled, Outcomes, solveVars, orderVars,
      workerVars, connVars, lifeVars
<1>3. ASSUME NEW j \in Jobs, Submit(j) PROVE Stands
  BY <1>3
  DEF Submit, StartedWorker, Full, Stands, Rows, RowOfSolve, RowOfOrder,
      OneAhead, Holds, TypeOK, Settled, Outcomes, solveVars, orderVars,
      workerVars, connVars, lifeVars
<1>4. ASSUME NEW j \in Jobs, Put(j) PROVE Stands
  BY <1>4
  DEF Put, Stands, Rows, RowOfSolve, RowOfOrder, OneAhead, Holds, TypeOK,
      Settled, Outcomes, solveVars, orderVars, workerVars, connVars, lifeVars
<1>5. ASSUME NEW j \in Jobs, Skip(j) PROVE Stands
  BY <1>5
  DEF Skip, Stands, Rows, RowOfSolve, RowOfOrder, OneAhead, Holds, TypeOK,
      Settled, Outcomes, solveVars, orderVars, workerVars, connVars, lifeVars
<1>6. ASSUME NEW j \in Jobs, SkipWrite(j) PROVE Stands
  BY <1>6
  DEF SkipWrite, DbFails, DbWorks, Stands, Rows, RowOfSolve, RowOfOrder,
      OneAhead, Holds, TypeOK, Settled, Outcomes, solveVars, orderVars,
      workerVars, connVars, lifeVars
<1>7. ASSUME NEW r \in Outcomes, Answer(r) PROVE Stands
  BY <1>7
  DEF Answer, Stands, Rows, RowOfSolve, RowOfOrder, OneAhead, Holds, TypeOK,
      Settled, Outcomes, solveVars, orderVars, workerVars, connVars, lifeVars
<1>8. CASE Take
  BY <1>8
  DEF Take, Kept, Stands, Rows, RowOfSolve, RowOfOrder, OneAhead, Holds,
      TypeOK, Settled, Outcomes, solveVars, orderVars, workerVars, connVars,
      lifeVars
<1>9. CASE Propose
  BY <1>9
  DEF Propose, Stands, Rows, RowOfSolve, RowOfOrder, OneAhead, Holds, TypeOK,
      Settled, Outcomes, solveVars, orderVars, workerVars, connVars, lifeVars
<1>10. CASE RecordResult
  BY <1>10
  DEF RecordResult, Stands, Rows, RowOfSolve, RowOfOrder, OneAhead, Holds,
      TypeOK, Settled, Outcomes, solveVars, orderVars, workerVars, connVars,
      lifeVars
<1>11. CASE WriteResult
  BY <1>11
  DEF WriteResult, DbFails, DbWorks, Stands, Rows, RowOfSolve, RowOfOrder,
      OneAhead, Holds, TypeOK, Settled, Outcomes, solveVars, orderVars,
      workerVars, connVars, lifeVars
<1>12. CASE PublishResult
  BY <1>12
  DEF PublishResult, Stands, Rows, RowOfSolve, RowOfOrder, OneAhead, Holds,
      TypeOK, Settled, Outcomes, solveVars, orderVars, workerVars, connVars,
      lifeVars
<1>13. CASE FinishOrder
  BY <1>13
  DEF FinishOrder, Stands, Rows, RowOfSolve, RowOfOrder, OneAhead, Holds,
      TypeOK, Settled, Outcomes, solveVars, orderVars, workerVars, connVars,
      lifeVars
<1>14. CASE ConnectionIdles
  BY <1>14
  DEF ConnectionIdles, Stands, Rows, RowOfSolve, RowOfOrder, OneAhead, Holds,
      TypeOK, Settled, Outcomes, solveVars, orderVars, workerVars, connVars,
      lifeVars
<1>15. CASE Shutdown
  BY <1>15
  DEF Shutdown, Stands, Rows, RowOfSolve, RowOfOrder, OneAhead, Holds, TypeOK,
      Settled, Outcomes, solveVars, orderVars, workerVars, connVars, lifeVars
<1>16. CASE DrainOne
  BY <1>16
  DEF DrainOne, Stands, Rows, RowOfSolve, RowOfOrder, OneAhead, Holds, TypeOK,
      Settled, Outcomes, solveVars, orderVars, workerVars, connVars, lifeVars
<1>17. CASE DrainEnd
  BY <1>17
  DEF DrainEnd, Stands, Rows, RowOfSolve, RowOfOrder, OneAhead, Holds, TypeOK,
      Settled, Outcomes, solveVars, orderVars, workerVars, connVars, lifeVars
<1>18. CASE UnbindLoop
  BY <1>18
  DEF UnbindLoop, Stands, Rows, RowOfSolve, RowOfOrder, OneAhead, Holds,
      TypeOK, Settled, Outcomes, solveVars, orderVars, workerVars, connVars,
      lifeVars
<1>19. CASE Crash \/ Exit
  BY <1>19
  DEF Reboot, Crash, Exit, Stands, Rows, RowOfSolve, RowOfOrder, OneAhead,
      Holds, TypeOK, Settled, Outcomes, solveVars, orderVars, workerVars,
      connVars, lifeVars
<1>20. CASE Startup
  BY <1>20
  DEF Startup, FailPending, Stands, Rows, RowOfSolve, RowOfOrder, OneAhead,
      Holds, TypeOK, Settled, Outcomes, solveVars, orderVars, workerVars,
      connVars, lifeVars
<1>21. CASE UNCHANGED vars
  BY <1>21
  DEF vars, Stands, Rows, RowOfSolve, RowOfOrder, OneAhead, Holds, TypeOK,
      Settled, Outcomes, solveVars, orderVars, workerVars, connVars, lifeVars
<1> QED
  BY <1>1, <1>2, <1>3, <1>4, <1>5, <1>6, <1>7, <1>8, <1>9, <1>10, <1>11, <1>12,
     <1>13, <1>14, <1>15, <1>16, <1>17, <1>18, <1>19, <1>20, <1>21
  DEF Next, SolveStep, WorkerStep, StopStep, Rest

\* A result that latest-result has shown is taken back only by a process that
\* dies before the result reached SQL.
THEOREM ShownStands == Safe => ShownResultStands
<1>1. IInv /\ [Next]_vars => [Stands]_vars
  BY StandsStep DEF IInv
<1> QED BY <1>1, Invariance, PTL DEF Safe, ShownResultStands, Stands

\* Every step is a step of the contract or leaves its rows and frames alone.
LEMMA ContractStep ==
  ASSUME TypeOK, Places, Rows, Fresh, [Next]_vars
  PROVE  [Contract!Next]_(Contract!contractVars)
<1>1. ASSUME NEW j \in Jobs, RecordSnapshot(j)
      PROVE [Contract!Next]_(Contract!contractVars)
  BY <1>1
  DEF RecordSnapshot, Contract!contractVars, solveVars, orderVars, workerVars,
      connVars, lifeVars
<1>2. ASSUME NEW j \in Jobs, InsertSnapshot(j)
      PROVE [Contract!Next]_(Contract!contractVars)
  <2>1. CASE rowDb' = [rowDb EXCEPT ![j] = "pending"]
    <3>1. rowDb[j] = "none" /\ UNCHANGED told
      BY <1>2 DEF InsertSnapshot, Rows, RowOfSolve, Holds
    <3>2. Contract!Open(j)
      BY <2>1, <3>1 DEF Contract!Open
    <3> QED BY <3>2 DEF Contract!Next
  <2>2. CASE UNCHANGED rowDb
    BY <1>2, <2>2 DEF InsertSnapshot, Contract!contractVars
  <2> QED BY <1>2, <2>1, <2>2 DEF InsertSnapshot
<1>3. ASSUME NEW j \in Jobs, Submit(j)
      PROVE [Contract!Next]_(Contract!contractVars)
  BY <1>3
  DEF Submit, StartedWorker, Full, Contract!contractVars, solveVars, orderVars,
      workerVars, connVars, lifeVars
<1>4. ASSUME NEW j \in Jobs, Put(j)
      PROVE [Contract!Next]_(Contract!contractVars)
  BY <1>4
  DEF Put, Contract!contractVars, solveVars, orderVars, workerVars, connVars,
      lifeVars
<1>5. ASSUME NEW j \in Jobs, Skip(j)
      PROVE [Contract!Next]_(Contract!contractVars)
  BY <1>5
  DEF Skip, Contract!contractVars, solveVars, orderVars, workerVars, connVars,
      lifeVars
<1>6. ASSUME NEW j \in Jobs, SkipWrite(j)
      PROVE [Contract!Next]_(Contract!contractVars)
  <2>1. CASE rowDb' = [rowDb EXCEPT ![j] = "skipped"]
    <3>1. rowDb[j] = "pending" /\ UNCHANGED told
      BY <1>6 DEF SkipWrite, Rows, RowOfSolve, Holds
    <3>2. Contract!Settle
      BY <2>1, <3>1 DEF Contract!Settle, TypeOK, Status, Settled
    <3> QED BY <3>2 DEF Contract!Next
  <2>2. CASE UNCHANGED rowDb
    BY <1>6, <2>2 DEF SkipWrite, Contract!contractVars
  <2> QED BY <1>6, <2>1, <2>2 DEF SkipWrite
<1>7. ASSUME NEW r \in Outcomes, Answer(r)
      PROVE [Contract!Next]_(Contract!contractVars)
  BY <1>7
  DEF Answer, Contract!contractVars, solveVars, orderVars, workerVars,
      connVars, lifeVars
<1>8. CASE Take
  BY <1>8
  DEF Take, Kept, Contract!contractVars, solveVars, orderVars, workerVars,
      connVars, lifeVars
<1>9. CASE Propose
  BY <1>9
  DEF Propose, Contract!contractVars, solveVars, orderVars, workerVars,
      connVars, lifeVars
<1>10. CASE RecordResult
  BY <1>10
  DEF RecordResult, Contract!contractVars, solveVars, orderVars, workerVars,
      connVars, lifeVars
<1>11. CASE WriteResult
  <2>1. CASE rowDb' = [rowDb EXCEPT ![current] = outcome]
    <3>1. rowDb[current] = "pending" /\ outcome \in Settled /\ UNCHANGED told
      BY <1>11
      DEF WriteResult, Rows, RowOfOrder, Holds, Places, Busy, Settled
    <3>2. Contract!Settle
      BY <2>1, <3>1 DEF Contract!Settle, TypeOK, Status
    <3> QED BY <3>2 DEF Contract!Next
  <2>2. CASE UNCHANGED rowDb
    BY <1>11, <2>2 DEF WriteResult, Contract!contractVars
  <2> QED BY <1>11, <2>1, <2>2 DEF WriteResult
<1>12. CASE PublishResult
  <2>1. /\ current \in Jobs /\ rowDb[current] = outcome
        /\ outcome \in Settled /\ UNCHANGED rowDb
    BY <1>12
    DEF PublishResult, Rows, RowOfOrder, Holds, Places, Busy, Settled, TypeOK,
        solveVars
  <2>2. CASE loopBound
    <3>1. Contract!Tell(current)
      BY <1>12, <2>1, <2>2 DEF PublishResult, Contract!Tell
    <3> QED BY <2>1, <3>1 DEF Contract!Next
  <2>3. CASE ~loopBound
    BY <1>12, <2>1, <2>3 DEF PublishResult, Contract!contractVars
  <2> QED BY <2>2, <2>3
<1>13. CASE FinishOrder
  BY <1>13
  DEF FinishOrder, Contract!contractVars, solveVars, orderVars, workerVars,
      connVars, lifeVars
<1>14. CASE ConnectionIdles
  BY <1>14
  DEF ConnectionIdles, Contract!contractVars, solveVars, orderVars, workerVars,
      connVars, lifeVars
<1>15. CASE Shutdown
  BY <1>15
  DEF Shutdown, Contract!contractVars, solveVars, orderVars, workerVars,
      connVars, lifeVars
<1>16. CASE DrainOne
  BY <1>16
  DEF DrainOne, Contract!contractVars, solveVars, orderVars, workerVars,
      connVars, lifeVars
<1>17. CASE DrainEnd
  BY <1>17
  DEF DrainEnd, Contract!contractVars, solveVars, orderVars, workerVars,
      connVars, lifeVars
<1>18. CASE UnbindLoop
  BY <1>18
  DEF UnbindLoop, Contract!contractVars, solveVars, orderVars, workerVars,
      connVars, lifeVars
<1>19. CASE Crash \/ Exit
  BY <1>19
  DEF Reboot, Crash, Exit, Contract!contractVars, solveVars, orderVars,
      workerVars, connVars, lifeVars
<1>20. CASE Startup
  <2>1. rowMem = rowDb
    BY <1>20 DEF Startup, Fresh
  <2>2. Contract!Settle
    BY <1>20, <2>1
    DEF Startup, FailPending, Contract!Settle, TypeOK, Status, Settled,
        Outcomes
  <2> QED BY <2>2 DEF Contract!Next
<1>21. CASE UNCHANGED vars
  BY <1>21
  DEF vars, Contract!contractVars, solveVars, orderVars, workerVars, connVars,
      lifeVars
<1> QED
  BY <1>1, <1>2, <1>3, <1>4, <1>5, <1>6, <1>7, <1>8, <1>9, <1>10, <1>11, <1>12,
     <1>13, <1>14, <1>15, <1>16, <1>17, <1>18, <1>19, <1>20, <1>21
  DEF Next, SolveStep, WorkerStep, StopStep, Rest

\* The order queue implements OrderContract: a row settles once, and a frame
\* tells only what is already durable.
THEOREM ContractKept == Safe => KeepsContract
<1>1. Init => Contract!Init
  BY DEF Init, Contract!Init
<1>2. IInv /\ [Next]_vars => [Contract!Next]_(Contract!contractVars)
  BY ContractStep DEF IInv
<1> QED BY <1>1, <1>2, Invariance, PTL DEF Safe, KeepsContract, Contract!Spec
=============================================================================
