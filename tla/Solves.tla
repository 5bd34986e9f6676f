------------------------------- MODULE Solves -------------------------------
(***************************************************************************)
(* The solves of one agent: POST optimize behind the solve semaphore       *)
(* (api/routes.py), the scheduled rebalance loop and the mark-to-market    *)
(* loop (orchestration/scheduler.py), run_optimization on its worker       *)
(* threads (orchestration/job.py), and the agent record they all write     *)
(* (persistence/agents.py, with the SQL writes of persistence/db.py).      *)
(*                                                                         *)
(* A portfolio is named by the solve that chose it, and prices, weights    *)
(* and sliders are left out: what matters is WHICH portfolio a number      *)
(* values and which tickers a spot snapshot covers.                        *)
(*                                                                         *)
(* The event loop is one thread: a request handler runs undisturbed to its *)
(* next await, and a mark-to-market tick, which never awaits, blocks the   *)
(* loop (mtm # "idle") while solve threads go on.                          *)
(*                                                                         *)
(* An operator marked "mutant" is not part of the model: it is the wrong   *)
(* version of the operator after it, kept to show that a property of the   *)
(* runs tells the two apart.                                               *)
(***************************************************************************)
EXTENDS Integers, FiniteSets

CONSTANTS
  Manual,         \* POST optimize requests
  Scheduled,      \* scheduled rebalances that fall due
  Tickers,
  Baskets,        \* the baskets a request or a PATCH may choose
  Bankroll,       \* "no portfolio yet": the agent holds its bankroll
  Gate,           \* config.SOLVE_CONCURRENCY
  MaxEdits,       \* bound: PATCHes by the player and flag changes by an admin
  MaxDbFailures   \* bound: SQL transactions that raise

Solves == Manual \union Scheduled

ASSUME SolvesAssumption ==
  IsFiniteSet(Solves) /\ Manual \intersect Scheduled = {} /\ Bankroll \notin Solves
ASSUME BasketsAssumption == Baskets \subseteq ((SUBSET Tickers) \ {{}}) /\ Baskets # {}
ASSUME BoundsAssumption ==
  Gate \in Nat \ {0} /\ MaxEdits \in Nat /\ MaxDbFailures \in Nat

VARIABLES
  holdings,   \* holdings_units: the solve it comes from, and its tickers
  value,      \* the portfolio that total, pl_usd and pl_pct value
  assets,     \* the agent's basket
  disabled,   \* the admin flag
  snapshot,   \* the solve of the newest solve snapshot
  pc,         \* pc[s]: where solve s is
  asked,      \* asked[s]: the basket in the body of a request, if any
  basket,     \* basket[s]: the tickers solve s optimizes
  spot,       \* spot[s]: the tickers its spot snapshot covers, until used
  valued,     \* valued[s]: the portfolio solve s liquidates
  permits,    \* free permits of _solve_semaphore
  mtm,        \* the mark-to-market tick
  mtmSpot,    \* the tickers its spot snapshot covers
  frame,      \* the portfolio in the last frame on the agent's channel
  announced,  \* a new-agent event has gone to the TV
  touched,    \* solves that wrote to a store (history)
  alone,      \* solves on threads that no other solve overlapped (history)
  edits, dbFailures

record == <<holdings, value, assets>>
local  == <<asked, basket, spot, valued>>
pushed == <<frame, announced>>
vars == <<record, disabled, snapshot, pc, local, permits, mtm, mtmSpot, pushed,
          touched, alone, edits, dbFailures>>

Portfolios == Solves \union {Bankroll}
NoBasket   == {}

\* The stages of a solve thread; from the last three it returns to the loop.
ThreadStages == {"begun", "priced", "config", "apply", "record", "snapshot",
                 "solved", "raisedRefusal", "raisedError"}
\* A refusal is an answer (403, 404, 422, 429, 503, or a line in the log of the
\* rebalance loop) after which the agent is as it was; an error is a 500.
Answers == {"ok", "refused", "error"}
Stages  == {"idle", "waiting"} \union ThreadStages \union Answers

InThread(s) == pc[s] \in ThreadStages

Init ==
  /\ holdings = [by |-> Bankroll, tickers |-> {}] /\ value = Bankroll
  /\ assets \in Baskets /\ disabled = FALSE /\ snapshot = Bankroll
  /\ pc = [s \in Solves |-> "idle"]
  /\ asked = [s \in Solves |-> NoBasket]
  /\ basket = [s \in Solves |-> {}] /\ spot = [s \in Solves |-> {}]
  /\ valued = [s \in Solves |-> Bankroll]
  /\ permits = Gate
  /\ mtm = "idle" /\ mtmSpot = {}
  /\ frame = Bankroll /\ announced = FALSE
  /\ touched = {} /\ alone = {}
  /\ edits = 0 /\ dbFailures = 0

DbFails == dbFailures < MaxDbFailures /\ dbFailures' = dbFailures + 1
DbWorks == UNCHANGED dbFailures

LoopFree == mtm = "idle"

GoTo(s, stage) == pc' = [pc EXCEPT ![s] = stage]

\* A write-through: memory has changed, then the SQL transaction decides
\* whether the solve goes on or raises, memory staying as it is.
WriteThrough(s, next) ==
  /\ touched' = touched \union {s}
  /\ \/ DbWorks /\ GoTo(s, next)
     \/ DbFails /\ GoTo(s, "raisedError")

-----------------------------------------------------------------------------
(* Entering a solve.                                                       *)

\* The thread starts, and run_optimization reads the agent's configuration.
Start(s, b) ==
  /\ GoTo(s, "begun")
  /\ basket' = [basket EXCEPT ![s] = IF b = NoBasket THEN assets ELSE b]
  /\ alone' = IF \E t \in Solves : InThread(t) THEN {} ELSE {s}

\* POST optimize: rejected when disabled; past the semaphore at once when it has
\* a permit and nobody waits for it; else queued.
Request(s) ==
  /\ s \in Manual /\ pc[s] = "idle" /\ LoopFree
  /\ \/ /\ disabled /\ GoTo(s, "refused")
        /\ UNCHANGED <<asked, basket, permits, alone>>
     \/ /\ ~disabled
        /\ \E b \in Baskets \union {NoBasket} :
             /\ asked' = [asked EXCEPT ![s] = b]
             /\ IF permits > 0 /\ \A t \in Solves : pc[t] # "waiting"
                  THEN permits' = permits - 1 /\ Start(s, b)
                  ELSE GoTo(s, "waiting") /\ UNCHANGED <<basket, permits, alone>>
  /\ UNCHANGED <<record, disabled, snapshot, spot, valued, mtm, mtmSpot, pushed,
                 touched, edits, dbFailures>>

\* A permit came free.
BeginManual(s) ==
  /\ pc[s] = "waiting" /\ permits > 0 /\ LoopFree
  /\ permits' = permits - 1 /\ Start(s, asked[s])
  /\ UNCHANGED <<record, disabled, snapshot, asked, spot, valued, mtm, mtmSpot,
                 pushed, touched, edits, dbFailures>>

\* The loop runs one rebalance at a time, for an enabled agent that holds a
\* portfolio.  When it falls due is left open.
BeginScheduledAny(s) ==  \* mutant: the loop does not look at the holdings
  /\ s \in Scheduled /\ pc[s] = "idle" /\ LoopFree
  /\ ~disabled /\ \A t \in Scheduled : ~InThread(t)
  /\ Start(s, NoBasket)
  /\ UNCHANGED <<record, disabled, snapshot, asked, spot, valued, permits, mtm,
                 mtmSpot, pushed, touched, edits, dbFailures>>

BeginScheduled(s) ==
  /\ s \in Scheduled /\ pc[s] = "idle" /\ LoopFree
  /\ ~disabled /\ holdings.by # Bankroll
  /\ \A t \in Scheduled : ~InThread(t)
  /\ Start(s, NoBasket)
  /\ UNCHANGED <<record, disabled, snapshot, asked, spot, valued, permits, mtm,
                 mtmSpot, pushed, touched, edits, dbFailures>>

-----------------------------------------------------------------------------
(* run_optimization.                                                       *)

\* A bad basket, an exhausted budget, a race nobody wins, no market data: all
\* raise before anything is written, the last even after the race.
Refuse(s) ==
  /\ pc[s] \in {"begun", "priced"} /\ GoTo(s, "raisedRefusal")
  /\ UNCHANGED <<record, disabled, snapshot, local, permits, mtm, mtmSpot, pushed,
                 touched, alone, edits, dbFailures>>

\* The race has a winner.  spot_prices is asked for the basket and for the
\* holdings of this moment.
Price(s) ==
  /\ pc[s] = "begun"
  /\ spot' = [spot EXCEPT ![s] = basket[s] \union holdings.tickers]
  /\ GoTo(s, "priced")
  /\ UNCHANGED <<record, disabled, snapshot, asked, basket, valued, permits, mtm,
                 mtmSpot, pushed, touched, alone, edits, dbFailures>>

LiquidatedBankroll == Bankroll  \* mutant: every solve starts from the bankroll
Liquidated == holdings.by

\* Units times spot, ticker by ticker: a KeyError when one has no price.
Priceable(prices) == holdings.tickers \subseteq prices

\* With the prices back, the portfolio held now is valued: the bankroll on a
\* first solve, and a KeyError (a 404) when it was replaced in the meantime by
\* one the prices do not cover.
ValueHoldings(s) ==
  /\ pc[s] = "priced" /\ spot' = [spot EXCEPT ![s] = {}]
  /\ IF Priceable(spot[s])
       THEN valued' = [valued EXCEPT ![s] = Liquidated] /\ GoTo(s, "config")
       ELSE GoTo(s, "raisedRefusal") /\ UNCHANGED valued
  /\ UNCHANGED <<record, disabled, snapshot, asked, basket, permits, mtm, mtmSpot,
                 pushed, touched, alone, edits, dbFailures>>

\* A request's sliders and basket, those it brings, become the agent's once
\* they have won.  The sliders are written first: when that raises, the basket
\* stays.
WriteConfigFirst(s) ==  \* mutant: the configuration is written before the race
  /\ pc[s] = "begun" /\ s \in Manual \ touched
  /\ WriteThrough(s, "begun")
  /\ UNCHANGED <<record, disabled, snapshot, local, permits, mtm, mtmSpot, pushed,
                 alone, edits>>

WriteConfig(s) ==
  /\ pc[s] = "config"
  /\ \/ /\ asked[s] = NoBasket /\ GoTo(s, "apply")
        /\ UNCHANGED <<assets, touched, dbFailures>>
     \/ /\ s \in Manual /\ WriteThrough(s, "apply")
        /\ \/ asked[s] # NoBasket /\ assets' = asked[s]
           \/ (asked[s] = NoBasket \/ dbFailures' > dbFailures) /\ UNCHANGED assets
  /\ UNCHANGED <<holdings, value, disabled, snapshot, local, permits, mtm, mtmSpot,
                 pushed, alone, edits>>

\* apply_solve: the winner's positive weights are the new holdings, and total
\* is their cost.
Apply(s) ==
  /\ pc[s] = "apply"
  /\ \E held \in (SUBSET basket[s]) \ {{}} :
       holdings' = [by |-> s, tickers |-> held]
  /\ value' = s
  /\ WriteThrough(s, "record")
  /\ UNCHANGED <<assets, disabled, snapshot, local, permits, mtm, mtmSpot, pushed,
                 alone, edits>>

\* JobStore.record: a job with the winner's provenance.  Nobody reads it back
\* but the routing statistics.
RecordJob(s) ==
  /\ pc[s] = "record"
  /\ WriteThrough(s, "snapshot")
  /\ UNCHANGED <<record, disabled, snapshot, local, permits, mtm, mtmSpot, pushed,
                 alone, edits>>

\* record_solve_snapshot.  The Quip order that follows is module QuipOrders.
RecordSnapshot(s) ==
  /\ pc[s] = "snapshot"
  /\ snapshot' = s
  /\ WriteThrough(s, "solved")
  /\ UNCHANGED <<record, disabled, local, permits, mtm, mtmSpot, pushed, alone,
                 edits>>

\* latest_solve_snapshot: the last of the agent's in the list.
LatestSnapshot == snapshot

-----------------------------------------------------------------------------
(* Back on the event loop.                                                 *)

\* What was local to run_optimization is gone.
Forget(s) ==
  /\ asked' = [asked EXCEPT ![s] = NoBasket]
  /\ basket' = [basket EXCEPT ![s] = {}] /\ spot' = [spot EXCEPT ![s] = {}]
  /\ valued' = [valued EXCEPT ![s] = Bankroll]
  /\ alone' = alone \ {s}

\* `async with _solve_semaphore` ends, with or without an exception.
ReleaseTwice(s) == permits' = permits + 2  \* mutant: a handler returns it too
Release(s) == permits' = permits + (IF s \in Manual THEN 1 ELSE 0)

\* is_first, decided when the holdings were valued.
IsFirstStillHeld(s) ==  \* mutant: a first portfolio that is held no more is none
  valued[s] = Bankroll /\ holdings.by \in {Bankroll, s}
IsFirst(s) == valued[s] = Bankroll

\* The events of the outcome: the value of the portfolio it chose, whatever the
\* agent holds by now, to the agent's channel, and a first solve to the TV.
Events(s) == [update |-> s, newAgent |-> IsFirst(s)]

Publish(s) ==
  /\ pc[s] = "solved" /\ LoopFree
  /\ GoTo(s, "ok")
  /\ frame' = Events(s).update /\ announced' = (announced \/ Events(s).newAgent)
  /\ Release(s) /\ Forget(s)
  /\ UNCHANGED <<record, disabled, snapshot, mtm, mtmSpot, touched, edits,
                 dbFailures>>

\* An exception becomes an error response, or a log line of the loop.
Raised(s) == pc[s] \in {"raisedRefusal", "raisedError"}

FailKeepingPermit(s) ==  \* mutant: the permit is not returned on an exception
  /\ Raised(s) /\ LoopFree
  /\ GoTo(s, IF pc[s] = "raisedError" THEN "error" ELSE "refused")
  /\ Forget(s)
  /\ UNCHANGED <<record, disabled, snapshot, permits, mtm, mtmSpot, pushed,
                 touched, edits, dbFailures>>

Fail(s) ==
  /\ Raised(s) /\ LoopFree
  /\ GoTo(s, IF pc[s] = "raisedError" THEN "error" ELSE "refused")
  /\ Release(s) /\ Forget(s)
  /\ UNCHANGED <<record, disabled, snapshot, mtm, mtmSpot, pushed, touched,
                 edits, dbFailures>>

\* A request that edits the agent, within the bound.
Edit == LoopFree /\ edits < MaxEdits /\ edits' = edits + 1

\* PATCH /agents/{id} replaces the basket; its SQL write may raise.
PatchAssets ==
  /\ Edit
  /\ assets' \in Baskets
  /\ DbWorks \/ DbFails
  /\ UNCHANGED <<holdings, value, disabled, snapshot, pc, local, permits, mtm,
                 mtmSpot, pushed, touched, alone>>

\* The admin's flags.
SetDisabled ==
  /\ Edit /\ disabled' = ~disabled
  /\ UNCHANGED <<record, snapshot, pc, local, permits, mtm, mtmSpot, pushed,
                 touched, alone, dbFailures>>

-----------------------------------------------------------------------------
(* The mark-to-market tick.  A tick the market does not answer changes     *)
(* nothing and is left out.                                                *)

mtmLeavesAlone == <<holdings, assets, disabled, snapshot, pc, local, permits,
                    announced, touched, alone, edits>>

MtmFetch ==
  /\ mtm = "idle" /\ holdings.by # Bankroll
  /\ mtm' = "fetched" /\ mtmSpot' = holdings.tickers
  /\ UNCHANGED <<mtmLeavesAlone, value, frame, dbFailures>>

\* mark_to_market: what the valuation is of.
MarkToMarket == holdings.by

\* The holdings held now: a KeyError skips the agent.
MtmMark ==
  /\ mtm = "fetched"
  /\ mtm' = IF Priceable(mtmSpot) THEN MarkToMarket ELSE "idle"
  /\ mtmSpot' = {}
  /\ UNCHANGED <<mtmLeavesAlone, value, frame, dbFailures>>

\* set_valuation: memory only.
SetValuation(s) == value' = s

\* The history row: when a sample is due, a transaction that may raise.
SampleTaken == DbWorks
SampleFails == DbFails

\* The valuation, its sample, and, when that did not raise, the frame.
MtmWriteOnly ==  \* mutant: a tick stores the valuation and pushes nothing
  /\ mtm \in Solves
  /\ value' = mtm /\ mtm' = "idle"
  /\ UNCHANGED <<mtmLeavesAlone, mtmSpot, frame, dbFailures>>

MtmWrite ==
  /\ mtm \in Solves
  /\ SetValuation(mtm) /\ mtm' = "idle"
  /\ \/ SampleTaken /\ frame' = mtm
     \/ SampleFails /\ UNCHANGED frame
  /\ UNCHANGED <<mtmLeavesAlone, mtmSpot>>

-----------------------------------------------------------------------------
Thread(s) == \/ Refuse(s) \/ Price(s) \/ ValueHoldings(s) \/ WriteConfig(s)
             \/ Apply(s) \/ RecordJob(s) \/ RecordSnapshot(s)
Return(s) == Publish(s) \/ Fail(s)

\* Nothing left to do.  Named so that any other state without a successor is a
\* deadlock.
Rest ==
  /\ mtm = "idle" /\ \A s \in Manual : pc[s] \in Answers
  /\ \A s \in Scheduled : pc[s] \in Answers \union {"idle"}
  /\ UNCHANGED vars

Next ==
  \/ \E s \in Solves : \/ Request(s) \/ BeginManual(s) \/ BeginScheduled(s)
                       \/ Thread(s) \/ Return(s)
  \/ PatchAssets \/ SetDisabled
  \/ MtmFetch \/ MtmMark \/ MtmWrite
  \/ Rest

Safe == Init /\ [][Next]_vars

(***************************************************************************)
(* Solve threads go on (the race has a deadline, the market a timeout).    *)
(* The event loop serves its ready handlers although ticks keep coming and *)
(* block it again and again: strong fairness.  Ticks keep coming: the loop *)
(* sleeps MTM_TICK_S between two and never for ever.  Every solve takes    *)
(* finitely many steps, so fairness to the threads together, and to the    *)
(* handlers together, starves none.                                        *)
(***************************************************************************)
Spec ==
  /\ Safe
  /\ WF_vars(\E s \in Solves : Thread(s))
  /\ SF_vars(\E s \in Solves : BeginManual(s) \/ Return(s))
  /\ SF_vars(MtmFetch) /\ WF_vars(MtmMark \/ MtmWrite)

-----------------------------------------------------------------------------
TypeOK ==
  /\ holdings \in [by : Portfolios, tickers : SUBSET Tickers]
  /\ value \in Portfolios /\ assets \in Baskets /\ disabled \in BOOLEAN
  /\ snapshot \in Portfolios
  /\ pc \in [Solves -> Stages]
  /\ asked \in [Solves -> SUBSET Tickers]
  /\ basket \in [Solves -> SUBSET Tickers] /\ spot \in [Solves -> SUBSET Tickers]
  /\ valued \in [Solves -> Portfolios]
  /\ permits \in 0..Gate
  /\ mtm \in Solves \union {"idle", "fetched"} /\ mtmSpot \in SUBSET Tickers
  /\ frame \in Portfolios /\ announced \in BOOLEAN
  /\ touched \in SUBSET Solves /\ alone \in SUBSET Solves
  /\ edits \in 0..MaxEdits /\ dbFailures \in 0..MaxDbFailures

\* A solve answered 403, 404, 422, 429 or 503 (or logged, when scheduled) has
\* left the agent alone: it wrote no configuration, portfolio, job or snapshot,
\* although it raises from the middle of run_optimization.
RefusedLeavesNoTrace == \A s \in Solves : pc[s] = "refused" => s \notin touched

\* Only a player's own solve starts an agent: a scheduled rebalance never
\* invests a bankroll and never announces a new agent.
ScheduledNeverOpens ==
  \A s \in Scheduled : pc[s] \in {"config", "apply", "record", "snapshot", "solved"}
                        => ~IsFirst(s)

\* Whichever solves of a new agent overlap, both may be its first but never
\* neither: when it holds a portfolio, the TV has heard of it, or a solve that
\* found it on its bankroll is still to say so (or an SQL failure silenced it).
OpeningIsTold ==
  holdings.by # Bankroll =>
    \/ announced \/ dbFailures > 0
    \/ \E s \in Solves : pc[s] \in {"record", "snapshot", "solved"} /\ IsFirst(s)

\* The solve semaphore loses and mints no permit, whichever way solves end: the
\* permits out are exactly the manual solves on threads.
PermitsExact ==
  permits + Cardinality({s \in Manual : InThread(s)}) = Gate

\* The value of a portfolio is carried over once: a solve that no other solve
\* of the agent overlapped liquidates the portfolio that its own replaces.
CarriesValueOver ==
  [][\A s \in alone : holdings'.by = s /\ holdings.by # s
                        => valued[s] = holdings.by]_vars

\* Every POST optimize is answered, although solves ahead of it at the
\* semaphore fail in any way.
EveryRequestAnswered == \A s \in Manual : pc[s] = "waiting" ~> pc[s] \in Answers

\* A tick that overwrites a newer valuation, a frame of an older solve pushed
\* last, a tick that fails: in the end the value on the leaderboard and the
\* frame on the phone are of the portfolio held.
Converges == <>[](holdings.by # Bankroll =>
                    value = holdings.by /\ frame = holdings.by)

\* The TV hears of every agent that holds a portfolio, whichever of its
\* solves turns out to be the first (without a SQL failure).
Announced == holdings.by # Bankroll ~> (announced \/ dbFailures > 0)

-----------------------------------------------------------------------------
\* "Snapshots are kept in solve order" (jobs.py), so that GET latest-result
\* shows "the agent's newest solve" (routes.py): with no solve between its
\* holdings and its snapshot, the newest snapshot is of the portfolio held.
LatestIsNewest ==
  (dbFailures = 0 /\ \A s \in Solves : pc[s] \notin {"record", "snapshot"})
    => LatestSnapshot = holdings.by

\* "The spot snapshot covers old and new holdings alike" (job.py): the prices a solve
\* has fetched are those of the portfolio it is about to value.
SpotCoversHoldings == \A s \in Solves : pc[s] = "priced" => Priceable(spot[s])

\* "Liquidate everything at spot, reallocate the full value" (job.py): the portfolio a
\* solve replaces is the one it has liquidated.
LiquidatesWhatItReplaces ==
  [][\A s \in Solves : holdings'.by = s /\ holdings.by # s
                         => valued[s] = holdings.by]_vars

\* "Admin-disabled agents are cut off from solving - reject before the QPU race"
\* (routes.py): no solve of a disabled agent begins.
DisabledNeverBegins ==
  [][\A s \in Solves : ~InThread(s) /\ InThread(s)' => ~disabled]_vars
=============================================================================
