------------------------------ MODULE LatePush ------------------------------
(***************************************************************************)
(* How a late solver result reaches the phone: the snapshot's Quip row is  *)
(* settled in the store, then pushed through the event bus (events/bus.py),*)
(* a bounded queue and the socket (api/ws.py) to the profile page          *)
(* (mvp: Profile.tsx, useAgentLive.ts, socket.ts), which meanwhile loads   *)
(* the latest result, retunes, loses its socket and reads the result again *)
(* when the socket is back.                                                *)
(*                                                                         *)
(* One agent and one page.  A race is its job's number, and all that is    *)
(* kept of its rows is whether the Quip row is pending.  How the row comes *)
(* to be settled, durably, is module QuipOrders.                           *)
(***************************************************************************)
EXTENDS Integers, Sequences, FiniteSets

CONSTANTS
  QueueSize,  \* maxsize of a subscriber's queue
  MaxJobs,    \* bound: solves
  MaxUpdates, \* bound: valuation frames
  MaxDrops,   \* bound: sockets lost
  MaxErrors,  \* bound: requests of the page that fail
  None

ASSUME BoundsAssumption ==
  /\ {MaxJobs, MaxUpdates, MaxDrops, MaxErrors} \subseteq Nat /\ QueueSize \in Nat \ {0}
  /\ None \notin Nat /\ None \notin [job : Nat, pending : BOOLEAN]

VARIABLES
  jobs,       \* solves recorded; the newest is the job of this number
  settled,    \* jobs whose Quip row is settled in the store
  publishing, \* settled jobs whose frame is on its way to the loop
  subscribed, \* whether the page's socket is accepted and subscribed
  queue,      \* the subscriber's queue
  wire,       \* frames sent to the page
  status,     \* the page's ConnectionStatus, or closed before it opens
  shown,      \* the race on the page, or None
  frame,      \* solverResults of useAgentLive: the job of the last frame, or None
  load,       \* the page's first GET of latest-result
  reread,     \* its GET after a reconnect
  retunes,    \* its POSTs under way
  early,      \* whether the last retune was sent before the first load was in (history)
  dropped,    \* jobs whose frame met a full queue (history)
  missed,     \* jobs for which another of the known windows was hit (history)
  updates, drops, errors

server == <<jobs, settled, publishing>>
socket == <<subscribed, queue, wire>>
page   == <<status, shown, frame>>
calls  == <<load, reread, retunes, early>>
bounds == <<updates, drops, errors>>
windows == <<dropped, missed>>
vars == <<server, socket, page, calls, windows, bounds>>

Jobs == 1..jobs
Update == 0                    \* a valuation frame; any other frame is its job
Race(j, pending) == [job |-> j, pending |-> pending]
Idle == [at |-> "idle"]
Asked == [at |-> "asked"]
Answer(race) == [at |-> "answered", race |-> race]
Open == status # "closed"

Init ==
  /\ jobs \in {0, 1} /\ settled = {} /\ publishing = {}
  /\ subscribed = FALSE /\ queue = <<>> /\ wire = <<>>
  /\ status = "closed" /\ shown = None /\ frame = None
  /\ load = Idle /\ reread = Idle /\ retunes = {} /\ early = FALSE
  /\ dropped = {} /\ missed = {} /\ updates = 0 /\ drops = 0 /\ errors = 0

-----------------------------------------------------------------------------
(* The server.                                                             *)

\* record_solve_snapshot: the Quip row is pending; or settled at once, without a frame,
\* when the order is refused; a scheduled solve has none, which is as good as settled.
Record(pending) ==
  /\ jobs < MaxJobs /\ jobs' = jobs + 1
  /\ settled' = IF pending THEN settled ELSE settled \union {jobs'}
  /\ UNCHANGED publishing

\* A scheduled rebalance, or another tab's retune: the page hears of its valuation only.
OtherSolve ==
  /\ \E pending \in BOOLEAN : Record(pending)
  /\ UNCHANGED <<socket, page, calls, windows, bounds>>

\* update_solver_result, then publish_threadsafe, in the order the worker takes them.
Settle ==
  /\ \E j \in Jobs \ settled :
       /\ \A i \in Jobs \ settled : j <= i
       /\ settled' = settled \union {j} /\ publishing' = publishing \union {j}
  /\ UNCHANGED <<jobs, socket, page, calls, windows, bounds>>

Full == Len(queue) >= QueueSize

\* publish: without a subscriber the frame is gone, and a full queue drops it.
Publish(f) ==
  /\ queue' = IF subscribed /\ ~Full THEN Append(queue, f) ELSE queue
  /\ UNCHANGED <<subscribed, wire>>

PublishResult ==
  /\ \E j \in publishing :
       /\ \A i \in publishing : j <= i
       /\ publishing' = publishing \ {j}
       /\ Publish(j)
       /\ dropped' = IF subscribed /\ Full THEN dropped \union {j} ELSE dropped
  /\ UNCHANGED <<jobs, settled, page, calls, missed, bounds>>

PublishUpdate ==
  /\ updates < MaxUpdates /\ updates' = updates + 1
  /\ subscribed /\ Publish(Update)
  /\ UNCHANGED <<server, page, calls, windows, drops, errors>>

\* _pump forwards the queue to the socket.
Pump ==
  /\ subscribed /\ queue # <<>>
  /\ wire' = Append(wire, Head(queue)) /\ queue' = Tail(queue)
  /\ UNCHANGED <<server, subscribed, page, calls, windows, bounds>>

\* agent_updates: a handshake of the page, with its own agent's token and from an
\* allowed origin.
Handshake == ~subscribed /\ status \in {"connecting", "reconnecting"}

\* _pump accepts and subscribes in one go: uvicorn's accept does not wait.
Accept ==
  /\ Handshake
  /\ subscribed' = TRUE /\ queue' = <<>> /\ wire' = <<>>
  /\ UNCHANGED <<server, page, calls, windows, bounds>>

\* latest_result: the newest snapshot with its rows as they are now.
Latest == IF jobs = 0 THEN None ELSE Race(jobs, jobs \notin settled)

ReadForLoad ==
  /\ load = Asked /\ load' = Answer(Latest)
  /\ UNCHANGED <<server, socket, page, reread, retunes, early, windows, bounds>>
ReadForReread ==
  /\ reread = Asked /\ reread' = Answer(Latest)
  /\ UNCHANGED <<server, socket, page, load, retunes, early, windows, bounds>>

\* optimize for the page: the answer has the row as the solve left it.
Solve ==
  /\ Asked \in retunes
  /\ \E pending \in BOOLEAN :
       /\ Record(pending)
       /\ retunes' = (retunes \ {Asked}) \union {Answer(Race(jobs', pending))}
  /\ UNCHANGED <<socket, page, load, reread, early, windows, bounds>>

-----------------------------------------------------------------------------
(* The page.                                                               *)

FrameOfAny(race, f) ==  \* mutant: a frame is applied to whatever race is shown
  IF race # None /\ f # None THEN [race EXCEPT !.pending = FALSE] ELSE race
\* applySolverResults: a frame counts for its own race only.
WithFrame(race, f) ==
  IF race # None /\ race.job = f THEN [race EXCEPT !.pending = FALSE] ELSE race

\* setResult: the effect that applies the last frame runs again when another job comes
\* on the page, and not when the same one is set again.
Shows(race) ==
  shown' = IF shown # None /\ shown.job = race.job THEN race ELSE WithFrame(race, frame)

\* A known window: race reaches a live page after its row was settled, but still says
\* pending; the frame is through, and the page has no cause to ask again.
ComesLate(race) ==
  /\ race.pending /\ race.job \in settled
  /\ status = "live"
  /\ ~\E i \in 1..Len(queue) : queue[i] = race.job
  /\ ~\E i \in 1..Len(wire) : wire[i] = race.job
  /\ race.job \notin publishing
  /\ frame # race.job \/ (shown # None /\ shown.job = race.job)
MissedBy(race) == missed' = IF ComesLate(race) THEN missed \union {race.job} ELSE missed

OpenPage ==
  /\ ~Open
  /\ status' = "connecting" /\ load' = Asked
  /\ UNCHANGED <<server, socket, shown, frame, reread, retunes, early, windows, bounds>>

LoadEnds == load' = [at |-> "done"]

LoadArrives ==
  /\ load.at = "answered" /\ LoadEnds
  /\ IF load.race = None THEN UNCHANGED <<shown, missed>>
     ELSE Shows(load.race) /\ MissedBy(load.race)
  /\ UNCHANGED <<server, socket, status, frame, reread, retunes, early, dropped, bounds>>

\* The page opens without its last race then.
LoadFails ==
  /\ load.at \in {"asked", "answered"} /\ LoadEnds
  /\ errors < MaxErrors /\ errors' = errors + 1
  /\ UNCHANGED <<server, socket, page, reread, retunes, early, windows, updates, drops>>

\* retune: one at a time, possibly while the first load is still under way.
Retune ==
  /\ Open /\ retunes = {} /\ jobs < MaxJobs
  /\ retunes' = {Asked} /\ early' = (load.at # "done")
  /\ UNCHANGED <<server, socket, page, load, reread, windows, bounds>>

RetuneAnswered ==
  /\ \E r \in retunes :
       /\ r.at = "answered" /\ retunes' = retunes \ {r}
       /\ Shows(r.race) /\ MissedBy(r.race)
  /\ UNCHANGED <<server, socket, status, frame, load, reread, early, dropped, bounds>>

RetuneFails ==
  /\ \E r \in retunes : retunes' = retunes \ {r}
  /\ errors < MaxErrors /\ errors' = errors + 1
  /\ UNCHANGED <<server, socket, page, load, reread, early, windows, updates, drops>>

RereadNever == UNCHANGED reread  \* mutant: a reconnect trusts what is on the page
RereadIfPending ==
  reread' = IF shown # None /\ shown.pending THEN Asked ELSE reread

\* The socket opens: with a pending row on the page, the race is read again.
Live ==
  /\ subscribed /\ status \in {"connecting", "reconnecting"}
  /\ status' = "live"
  /\ RereadIfPending
  /\ UNCHANGED <<server, socket, shown, frame, load, retunes, early, windows, bounds>>

TakeAnyRace(race) == shown' = race /\ UNCHANGED missed  \* mutant: without the jobId test
\* The rows read again are taken if they are of the race on the page.
TakeRows(race) ==
  IF shown # None /\ shown.job = race.job THEN shown' = race /\ MissedBy(race)
  ELSE UNCHANGED <<shown, missed>>

RereadArrives ==
  /\ reread.at = "answered" /\ reread' = Idle
  /\ TakeRows(reread.race)
  /\ UNCHANGED <<server, socket, status, frame, load, retunes, early, dropped, bounds>>

RereadFails ==
  /\ reread # Idle /\ reread' = Idle
  /\ errors < MaxErrors /\ errors' = errors + 1
  /\ missed' = missed \union {shown.job}
  /\ UNCHANGED <<server, socket, page, load, retunes, early, dropped, updates, drops>>

\* A frame: a valuation, or solver results for the race on the page or for another.
Receive ==
  /\ status = "live" /\ wire # <<>>
  /\ wire' = Tail(wire)
  /\ IF Head(wire) = Update THEN UNCHANGED <<shown, frame>>
     ELSE /\ frame' = Head(wire)
          /\ shown' = WithFrame(shown, Head(wire))
  /\ UNCHANGED <<server, subscribed, queue, status, calls, windows, bounds>>

\* The socket is lost with all that is in it; a read under way no longer counts.
Drop ==
  /\ subscribed /\ drops < MaxDrops /\ drops' = drops + 1
  /\ subscribed' = FALSE /\ queue' = <<>> /\ wire' = <<>>
  /\ status' = "reconnecting" /\ reread' = Idle
  /\ UNCHANGED <<server, shown, frame, load, retunes, early, windows, updates, errors>>

Rest ==
  /\ Open /\ jobs = MaxJobs /\ settled = Jobs /\ publishing = {}
  /\ queue = <<>> /\ wire = <<>> /\ status = "live"
  /\ load.at = "done" /\ reread = Idle /\ retunes \subseteq {Asked}
  /\ UNCHANGED vars

Server == Settle \/ PublishResult \/ Pump \/ Accept \/ ReadForLoad \/ ReadForReread \/ Solve
Page   == LoadArrives \/ RetuneAnswered \/ RereadArrives \/ Live \/ Receive
Next ==
  \/ Server \/ Page \/ OtherSolve \/ PublishUpdate \/ OpenPage \/ Retune
  \/ LoadFails \/ RetuneFails \/ RereadFails \/ Drop \/ Rest

\* Frames move, the socket reconnects, and requests are answered or fail.
Fairness ==
  /\ WF_vars(PublishResult) /\ WF_vars(Pump) /\ WF_vars(Accept) /\ WF_vars(Live)
  /\ WF_vars(Receive) /\ WF_vars(ReadForReread) /\ WF_vars(RereadArrives)
Spec == Init /\ [][Next]_vars /\ Fairness

-----------------------------------------------------------------------------
(* Properties.                                                             *)

\* A row the page shows as settled is settled in the store: late frames, frames of
\* other solves and old reads never put one race's result on another
\* (applySolverResults of solverRace.ts, the jobId test of the re-read).
ShownIsTrue == shown # None /\ ~shown.pending => shown.job \in settled

\* Once its first load is in, and unless a retune was sent before, the page never goes
\* back to an older race, in whatever order retunes, frames and re-reads come in (the
\* busy flag of retune, the jobId test of the re-read, Profile.tsx).  A retune sent
\* before that is the exception: the load and its answer are taken in the order they
\* come, whichever race is older.
NeverAnOlderRace ==
  [][shown # None /\ load.at = "done" /\ ~early => shown'.job >= shown.job]_vars

\* While no newer solve exists, a row that is settled in the store does not stay
\* pending on the page, through lost sockets, frames before their race and races before
\* their frame; unless the frame met a full queue, the re-read failed, or an answer came
\* late (dropped and missed).  (A re-read after a newer solve finds that one, and leaves the page as it is.)
Waits(j) == shown # None /\ shown.job = j /\ shown.pending /\ j \in settled
PageSettles == \A j \in 1..MaxJobs :
  Waits(j) ~> ~Waits(j) \/ j \in dropped \union missed \/ jobs > j

-----------------------------------------------------------------------------
\* "drops to a full queue (a slow consumer just misses a tick - the next MTM update
\* supersedes it)" (bus.py): with the mark-to-market loop ticking on, a page that stays
\* connected has lost nothing by a dropped frame once a next one has come through.
TickingSpec == Spec /\ WF_vars(PublishUpdate)
NextUpdateSupersedes == \A j \in 1..MaxJobs :
  (Waits(j) /\ j \in dropped /\ ~Full /\ updates < MaxUpdates)
    ~> (~Waits(j) \/ status # "live" \/ jobs > j)
=============================================================================
