---------------------------- MODULE SolvesProofs ----------------------------
(***************************************************************************)
(* The safety of Solves for any number of requests and rebalances, any     *)
(* gate, any baskets and any number of edits and SQL failures.             *)
(***************************************************************************)
EXTENDS Solves, FiniteSetTheorems, TLAPS

\* The stages of a solve that has written nothing yet, and the answer of one that
\* never will.
Traceless == {"idle", "waiting", "begun", "priced", "config", "raisedRefusal", "refused"}
\* From its valuation on.
Valued == {"config", "apply", "record", "snapshot", "solved"}

\* As much of the types as the invariant needs.
Typed ==
  /\ pc \in [Solves -> Stages] /\ valued \in [Solves -> Portfolios]
  /\ holdings.by \in Portfolios /\ permits \in Nat
  /\ \A s \in Scheduled : pc[s] # "waiting"

NoTrace == \A s \in Solves : pc[s] \in Traceless => s \notin touched

\* A rebalance on a thread means a portfolio, and its own valuation is of one.
Opened ==
  \A s \in Scheduled : /\ InThread(s) => holdings.by # Bankroll
                       /\ pc[s] \in Valued => valued[s] # Bankroll

\* A solve that nobody overlapped is the only one on a thread, and what it has valued
\* is what is still held.
Lone ==
  \A s \in alone :
    /\ s \in Solves /\ InThread(s) /\ \A t \in Solves : InThread(t) => t = s
    /\ pc[s] \in {"config", "apply"} => valued[s] = holdings.by

IInv == Typed /\ NoTrace /\ Opened /\ Lone /\ PermitsExact

USE DEF Solves, Portfolios

-----------------------------------------------------------------------------
(* Counting the manual solves on threads.                                  *)

OnThreads(f) == {s \in Manual : f[s] \in ThreadStages}

\* There are finitely many of them.
LEMMA ThreadsCount ==
  ASSUME NEW f
  PROVE  IsFiniteSet(OnThreads(f)) /\ Cardinality(OnThreads(f)) \in Nat
<1>1. OnThreads(f) \subseteq Solves
  BY DEF OnThreads
<1>2. IsFiniteSet(OnThreads(f))
  BY <1>1, SolvesAssumption, FS_Subset
<1> QED BY <1>2, FS_CardinalityType

\* One enters its thread.
LEMMA OneMore ==
  ASSUME NEW f \in [Solves -> Stages], NEW s \in Manual, NEW x \in ThreadStages,
         f[s] \notin ThreadStages
  PROVE  Cardinality(OnThreads([f EXCEPT ![s] = x])) = Cardinality(OnThreads(f)) + 1
<1>1. OnThreads([f EXCEPT ![s] = x]) = OnThreads(f) \union {s}
  BY DEF OnThreads
<1>2. s \notin OnThreads(f)
  BY DEF OnThreads
<1> QED BY <1>1, <1>2, ThreadsCount, FS_AddElement

\* One leaves its thread.
LEMMA OneLess ==
  ASSUME NEW f \in [Solves -> Stages], NEW s \in Manual, NEW x, x \notin ThreadStages,
         f[s] \in ThreadStages
  PROVE  Cardinality(OnThreads([f EXCEPT ![s] = x])) = Cardinality(OnThreads(f)) - 1
<1>1. OnThreads([f EXCEPT ![s] = x]) = OnThreads(f) \ {s}
  BY DEF OnThreads
<1>2. s \in OnThreads(f)
  BY DEF OnThreads
<1> QED BY <1>1, <1>2, ThreadsCount, FS_RemoveElement

\* A rebalance, or a solve that stays on its thread or off it, is not counted.
LEMMA SameCount ==
  ASSUME NEW f \in [Solves -> Stages], NEW s \in Solves, NEW x,
         s \notin Manual \/ (f[s] \in ThreadStages <=> x \in ThreadStages)
  PROVE  OnThreads([f EXCEPT ![s] = x]) = OnThreads(f)
BY DEF OnThreads

LEMMA PermitsAsCount == PermitsExact <=> permits + Cardinality(OnThreads(pc)) = Gate
BY DEF PermitsExact, OnThreads, InThread

-----------------------------------------------------------------------------
\* The invariant holds at the start.
LEMMA InitIInv == Init => IInv
<1> SUFFICES ASSUME Init PROVE IInv
  OBVIOUS
<1>1. Typed
  BY BoundsAssumption DEF Init, Typed, Stages
<1>2. NoTrace
  BY DEF Init, NoTrace
<1>3. Opened
  BY DEF Init, Opened, InThread, ThreadStages, Valued
<1>4. Lone
  BY DEF Init, Lone
<1>5. PermitsExact
  <2>1. {s \in Manual : InThread(s)} = {}
    BY DEF Init, InThread, ThreadStages
  <2>2. permits = Gate /\ Gate \in Nat
    BY BoundsAssumption DEF Init
  <2> QED BY <2>1, <2>2, FS_EmptySet DEF PermitsExact
<1> QED BY <1>1, <1>2, <1>3, <1>4, <1>5 DEF IInv

\* A step that moves no solve: the edits, the mark-to-market tick, rest.
LEMMA QuietKeeps ==
  ASSUME IInv, UNCHANGED <<pc, valued, holdings, permits, touched, alone>>
  PROVE  IInv'
BY DEF IInv, Typed, NoTrace, Opened, Lone, PermitsExact, InThread

\* A solve enters its thread, with a permit when it is a request's.
LEMMA BeginKeeps ==
  ASSUME IInv, NEW s \in Solves, NEW b, Start(s, b),
         pc[s] \in {"idle", "waiting"},
         s \in Scheduled => holdings.by # Bankroll /\ permits' = permits,
         s \in Manual => permits > 0 /\ permits' = permits - 1,
         UNCHANGED <<holdings, valued, touched>>
  PROVE  IInv'
<1>0. /\ pc' = [pc EXCEPT ![s] = "begun"] /\ pc \in [Solves -> Stages]
      /\ pc[s] \notin ThreadStages /\ "begun" \in ThreadStages
  BY DEF Start, GoTo, ThreadStages, IInv, Typed
<1>1. Typed'
  <2>1. pc' \in [Solves -> Stages]
    BY <1>0 DEF Stages
  <2>2. permits' \in Nat
    BY SolvesAssumption DEF IInv, Typed
  <2> QED BY <1>0, <2>1, <2>2 DEF IInv, Typed
<1>2. NoTrace'
  BY <1>0 DEF IInv, NoTrace, Traceless
<1>3. Opened'
  BY <1>0, SolvesAssumption DEF IInv, Opened, InThread, Valued
<1>4. Lone'
  <2>1. CASE \E t \in Solves : InThread(t)
    <3>1. alone' = {}
      BY <2>1 DEF Start
    <3> QED BY <3>1 DEF Lone
  <2>2. CASE ~\E t \in Solves : InThread(t)
    <3>1. alone' = {s}
      BY <2>2 DEF Start
    <3> QED BY <1>0, <2>2, <3>1 DEF Lone, InThread
  <2> QED BY <2>1, <2>2
<1>5. PermitsExact'
  <2>1. permits + Cardinality(OnThreads(pc)) = Gate
    BY PermitsAsCount DEF IInv
  <2>2. permits' + Cardinality(OnThreads(pc')) = Gate
    <3>1. CASE s \in Manual
      <4>1. Cardinality(OnThreads(pc')) = Cardinality(OnThreads(pc)) + 1
        BY <1>0, <3>1, OneMore
      <4> QED BY <2>1, <3>1, <4>1, ThreadsCount, BoundsAssumption DEF IInv, Typed
    <3>2. CASE s \notin Manual
      BY <1>0, <2>1, <3>2, SameCount
    <3> QED BY <3>1, <3>2
  <2> QED BY <2>2 DEF PermitsExact, OnThreads, InThread
<1> QED BY <1>1, <1>2, <1>3, <1>4, <1>5 DEF IInv

\* A solve that goes on stays on its thread, and every other where it is.
LEMMA StaysOnThread ==
  ASSUME IInv, NEW s \in Solves, NEW x \in ThreadStages, InThread(s), GoTo(s, x),
         UNCHANGED <<permits, alone>>
  PROVE  /\ pc' = [pc EXCEPT ![s] = x] /\ pc' \in [Solves -> Stages] /\ pc'[s] = x
         /\ \A t \in Solves : InThread(t)' <=> InThread(t)
         /\ PermitsExact'
<1>1. /\ pc' = [pc EXCEPT ![s] = x] /\ pc \in [Solves -> Stages]
      /\ pc[s] \in ThreadStages
  BY DEF GoTo, IInv, Typed, InThread
<1>2. pc' \in [Solves -> Stages] /\ pc'[s] = x
  BY <1>1 DEF Stages
<1>3. \A t \in Solves : InThread(t)' <=> InThread(t)
  BY <1>1 DEF InThread
<1>4. PermitsExact'
  BY <1>3 DEF IInv, PermitsExact
<1> QED BY <1>1, <1>2, <1>3, <1>4

\* A step of run_optimization that writes nothing and values nothing.
LEMMA UnwrittenKeeps ==
  ASSUME IInv, NEW s \in Solves, NEW x \in {"priced", "raisedRefusal"},
         pc[s] \in {"begun", "priced"}, GoTo(s, x),
         UNCHANGED <<permits, alone, holdings, valued, touched>>
  PROVE  IInv'
<1>1. InThread(s) /\ x \in ThreadStages
  BY DEF InThread, ThreadStages
<1>2. /\ pc' = [pc EXCEPT ![s] = x] /\ pc' \in [Solves -> Stages] /\ pc'[s] = x
      /\ \A t \in Solves : InThread(t)' <=> InThread(t)
      /\ PermitsExact'
  BY <1>1, StaysOnThread
<1>3. pc \in [Solves -> Stages]
  BY DEF IInv, Typed
<1>4. Typed'
  BY <1>2 DEF IInv, Typed
<1>5. NoTrace'
  BY <1>2, <1>3 DEF IInv, NoTrace, Traceless
<1>6. Opened'
  BY <1>2, <1>3 DEF IInv, Opened, Valued
<1>7. Lone'
  BY <1>2, <1>3 DEF IInv, Lone
<1> QED BY <1>2, <1>4, <1>5, <1>6, <1>7 DEF IInv

\* The holdings are valued: by a rebalance, never as a bankroll.
LEMMA ValueKeeps ==
  ASSUME IInv, NEW s \in Solves, ValueHoldings(s)
  PROVE  IInv'
<1>1. CASE Priceable(spot[s])
  <2>1. InThread(s) /\ "config" \in ThreadStages
    BY DEF ValueHoldings, InThread, ThreadStages
  <2>2. GoTo(s, "config") /\ UNCHANGED <<permits, alone, holdings, touched>>
    BY <1>1 DEF ValueHoldings, record
  <2>3. /\ pc' = [pc EXCEPT ![s] = "config"] /\ pc' \in [Solves -> Stages]
        /\ pc'[s] = "config"
        /\ \A t \in Solves : InThread(t)' <=> InThread(t)
        /\ PermitsExact'
    BY <2>1, <2>2, StaysOnThread
  <2>4. /\ pc \in [Solves -> Stages] /\ valued \in [Solves -> Portfolios]
        /\ valued' = [valued EXCEPT ![s] = holdings.by] /\ pc[s] = "priced"
    BY <1>1 DEF IInv, Typed, ValueHoldings, Liquidated
  <2>5. Typed'
    BY <2>2, <2>3, <2>4 DEF IInv, Typed
  <2>6. NoTrace'
    BY <2>2, <2>3, <2>4 DEF IInv, NoTrace, Traceless
  <2>7. Opened'
    BY <2>1, <2>2, <2>3, <2>4 DEF IInv, Opened, Valued
  <2>8. Lone'
    BY <2>2, <2>3, <2>4 DEF IInv, Lone
  <2> QED BY <2>3, <2>5, <2>6, <2>7, <2>8 DEF IInv
<1>2. CASE ~Priceable(spot[s])
  BY <1>2, UnwrittenKeeps DEF ValueHoldings, record
<1> QED BY <1>1, <1>2

\* A write after the valuation: the solve goes on or raises, and has left a trace.
LEMMA WriteKeeps ==
  ASSUME IInv, NEW s \in Solves,
         pc[s] \in {"config", "record", "snapshot"},
         NEW x \in {"apply", "snapshot", "solved", "raisedError"}, GoTo(s, x),
         pc[s] # "config" => x # "apply",
         touched' \in {touched, touched \union {s}},
         UNCHANGED <<permits, alone, holdings, valued>>
  PROVE  IInv'
<1>1. InThread(s) /\ x \in ThreadStages
  BY DEF InThread, ThreadStages
<1>2. /\ pc' = [pc EXCEPT ![s] = x] /\ pc' \in [Solves -> Stages] /\ pc'[s] = x
      /\ \A t \in Solves : InThread(t)' <=> InThread(t)
      /\ PermitsExact'
  BY <1>1, StaysOnThread
<1>3. pc \in [Solves -> Stages]
  BY DEF IInv, Typed
<1>4. Typed'
  BY <1>2 DEF IInv, Typed
<1>5. NoTrace'
  BY <1>2, <1>3 DEF IInv, NoTrace, Traceless
<1>6. Opened'
  BY <1>2, <1>3 DEF IInv, Opened, Valued
<1>7. Lone'
  BY <1>2, <1>3 DEF IInv, Lone
<1> QED BY <1>2, <1>4, <1>5, <1>6, <1>7 DEF IInv

\* A new portfolio: the solve that chose it is past its valuation.
LEMMA ApplyKeeps ==
  ASSUME IInv, NEW s \in Solves, Apply(s)
  PROVE  IInv'
<1>1. PICK x \in {"record", "raisedError"} : GoTo(s, x)
  BY DEF Apply, WriteThrough
<1>2. InThread(s) /\ x \in ThreadStages
  BY DEF Apply, InThread, ThreadStages
<1>3. /\ UNCHANGED <<permits, alone, valued>> /\ touched' = touched \union {s}
      /\ holdings'.by = s /\ pc[s] = "apply"
  BY DEF Apply, WriteThrough, local
<1>4. /\ pc' = [pc EXCEPT ![s] = x] /\ pc' \in [Solves -> Stages] /\ pc'[s] = x
      /\ \A t \in Solves : InThread(t)' <=> InThread(t)
      /\ PermitsExact'
  BY <1>1, <1>2, <1>3, StaysOnThread
<1>5. pc \in [Solves -> Stages]
  BY DEF IInv, Typed
<1>6. Typed'
  BY <1>3, <1>4 DEF IInv, Typed
<1>7. NoTrace'
  BY <1>3, <1>4, <1>5 DEF IInv, NoTrace, Traceless
<1>8. Opened'
  BY <1>3, <1>4, <1>5, SolvesAssumption DEF IInv, Opened, Valued
<1>9. Lone'
  BY <1>2, <1>3, <1>4, <1>5 DEF IInv, Lone
<1> QED BY <1>4, <1>6, <1>7, <1>8, <1>9 DEF IInv

\* Every step of run_optimization keeps the invariant.
LEMMA ThreadKeeps ==
  ASSUME IInv, NEW s \in Solves, Thread(s)
  PROVE  IInv'
<1>1. CASE Refuse(s)
  BY <1>1, UnwrittenKeeps DEF Refuse, record, local
<1>2. CASE Price(s)
  BY <1>2, UnwrittenKeeps DEF Price, record
<1>3. CASE ValueHoldings(s)
  BY <1>3, ValueKeeps
<1>4. CASE WriteConfig(s)
  <2>1. PICK x \in {"apply", "raisedError"} : GoTo(s, x)
    BY <1>4 DEF WriteConfig, WriteThrough
  <2>2. touched' \in {touched, touched \union {s}}
    BY <1>4 DEF WriteConfig, WriteThrough
  <2> QED BY <1>4, <2>1, <2>2, WriteKeeps DEF WriteConfig, local
<1>5. CASE Apply(s)
  BY <1>5, ApplyKeeps
<1>6. CASE RecordJob(s)
  <2>1. PICK x \in {"snapshot", "raisedError"} : GoTo(s, x)
    BY <1>6 DEF RecordJob, WriteThrough
  <2> QED BY <1>6, <2>1, WriteKeeps DEF RecordJob, WriteThrough, record, local
<1>7. CASE RecordSnapshot(s)
  <2>1. PICK x \in {"solved", "raisedError"} : GoTo(s, x)
    BY <1>7 DEF RecordSnapshot, WriteThrough
  <2> QED BY <1>7, <2>1, WriteKeeps DEF RecordSnapshot, WriteThrough, record, local
<1> QED BY <1>1, <1>2, <1>3, <1>4, <1>5, <1>6, <1>7 DEF Thread

\* A solve returns to the event loop, answered or raised, and so does its permit.
LEMMA ReturnKeeps ==
  ASSUME IInv, NEW s \in Solves, Return(s)
  PROVE  IInv'
<1>1. PICK x \in Answers : GoTo(s, x) /\ (x = "refused" => pc[s] = "raisedRefusal")
  BY DEF Return, Publish, Fail, Raised, Answers
<1>2. /\ Release(s) /\ Forget(s) /\ UNCHANGED <<holdings, touched>>
      /\ pc[s] \in ThreadStages
  BY DEF Return, Publish, Fail, Raised, ThreadStages, record
<1>3. /\ pc' = [pc EXCEPT ![s] = x] /\ pc \in [Solves -> Stages]
      /\ x \notin ThreadStages /\ x \notin Valued /\ (x # "refused" => x \notin Traceless)
      /\ valued' = [valued EXCEPT ![s] = Bankroll] /\ valued \in [Solves -> Portfolios]
      /\ alone' = alone \ {s}
  BY <1>1, <1>2 DEF GoTo, Forget, Answers, ThreadStages, Valued, Traceless, IInv, Typed
<1>4. Typed'
  <2>1. pc' \in [Solves -> Stages]
    BY <1>3 DEF Stages
  <2>2. permits' \in Nat
    BY <1>2 DEF IInv, Typed, Release
  <2> QED BY <1>2, <1>3, <2>1, <2>2 DEF IInv, Typed, Answers
<1>5. NoTrace'
  BY <1>1, <1>2, <1>3 DEF IInv, NoTrace, Traceless
<1>6. Opened'
  BY <1>2, <1>3 DEF IInv, Opened, InThread
<1>7. Lone'
  BY <1>2, <1>3 DEF IInv, Lone, InThread
<1>8. PermitsExact'
  <2>1. permits + Cardinality(OnThreads(pc)) = Gate
    BY PermitsAsCount DEF IInv
  <2>2. permits' + Cardinality(OnThreads(pc')) = Gate
    <3>1. CASE s \in Manual
      <4>1. Cardinality(OnThreads(pc')) = Cardinality(OnThreads(pc)) - 1
        BY <1>2, <1>3, <3>1, OneLess
      <4> QED BY <1>2, <2>1, <3>1, <4>1, ThreadsCount, BoundsAssumption
              DEF IInv, Typed, Release
    <3>2. CASE s \notin Manual
      <4>1. OnThreads(pc') = OnThreads(pc)
        BY <1>3, <3>2, SameCount
      <4>2. permits' = permits
        BY <1>2, <3>2 DEF Release, IInv, Typed
      <4> QED BY <2>1, <4>1, <4>2
    <3> QED BY <3>1, <3>2
  <2> QED BY <2>2 DEF PermitsExact, OnThreads, InThread
<1> QED BY <1>4, <1>5, <1>6, <1>7, <1>8 DEF IInv

\* A request that is turned away or queued.
LEMMA RequestKeeps ==
  ASSUME IInv, NEW s \in Solves, Request(s)
  PROVE  IInv'
<1>1. /\ pc[s] = "idle" /\ s \notin Scheduled
      /\ UNCHANGED <<holdings, valued, touched>>
  BY SolvesAssumption DEF Request, record
<1>2. CASE \E b : Start(s, b) /\ permits > 0 /\ permits' = permits - 1
  BY <1>1, <1>2, BeginKeeps
<1>3. CASE \E x \in {"refused", "waiting"} : GoTo(s, x) /\ UNCHANGED <<permits, alone>>
  <2>1. PICK x \in {"refused", "waiting"} : GoTo(s, x)
    BY <1>3
  <2>2. /\ pc' = [pc EXCEPT ![s] = x] /\ pc \in [Solves -> Stages]
        /\ UNCHANGED <<permits, alone>>
    BY <1>3, <2>1 DEF GoTo, IInv, Typed
  <2>3. \A t \in Solves : InThread(t)' <=> InThread(t)
    BY <1>1, <2>2 DEF InThread, ThreadStages
  <2>4. Typed'
    BY <1>1, <2>2 DEF IInv, Typed, Stages, Answers
  <2>5. NoTrace'
    BY <1>1, <2>2 DEF IInv, NoTrace, Traceless
  <2>6. Opened'
    BY <1>1, <2>2, <2>3 DEF IInv, Opened, Valued
  <2>7. Lone'
    BY <1>1, <2>2, <2>3 DEF IInv, Lone
  <2>8. PermitsExact'
    BY <2>2, <2>3 DEF IInv, PermitsExact
  <2> QED BY <2>4, <2>5, <2>6, <2>7, <2>8 DEF IInv
<1> QED BY <1>2, <1>3 DEF Request

\* Every step keeps the invariant.
LEMMA NextIInv == IInv /\ [Next]_vars => IInv'
<1> SUFFICES ASSUME IInv, [Next]_vars PROVE IInv'
  OBVIOUS
<1>1. ASSUME NEW s \in Solves, Request(s) PROVE IInv'
  BY <1>1, RequestKeeps
<1>2. ASSUME NEW s \in Solves, BeginManual(s) PROVE IInv'
  <2>1. s \in Manual
    BY <1>2 DEF BeginManual, IInv, Typed
  <2> QED BY <1>2, <2>1, SolvesAssumption, BeginKeeps DEF BeginManual, record
<1>3. ASSUME NEW s \in Solves, BeginScheduled(s) PROVE IInv'
  BY <1>3, SolvesAssumption, BeginKeeps DEF BeginScheduled, record
<1>4. ASSUME NEW s \in Solves, Thread(s) PROVE IInv'
  BY <1>4, ThreadKeeps
<1>5. ASSUME NEW s \in Solves, Return(s) PROVE IInv'
  BY <1>5, ReturnKeeps
<1>6. CASE PatchAssets \/ SetDisabled
  BY <1>6, QuietKeeps DEF PatchAssets, SetDisabled, record, local
<1>7. CASE MtmFetch \/ MtmMark \/ MtmWrite
  BY <1>7, QuietKeeps DEF MtmFetch, MtmMark, MtmWrite, mtmLeavesAlone, local
<1>8. CASE Rest \/ UNCHANGED vars
  BY <1>8, QuietKeeps DEF Rest, vars, record, local
<1> QED BY <1>1, <1>2, <1>3, <1>4, <1>5, <1>6, <1>7, <1>8 DEF Next

\* The invariant holds in every state.
THEOREM Invariance == Safe => []IInv
BY InitIInv, NextIInv, PTL DEF Safe

-----------------------------------------------------------------------------
\* run_optimization raises a refusal from many places, and from each of them the
\* agent and the stores are as they were.
THEOREM RefusalsLeaveNoTrace == Safe => []RefusedLeavesNoTrace
<1>1. IInv => RefusedLeavesNoTrace
  BY DEF IInv, NoTrace, Traceless, RefusedLeavesNoTrace
<1> QED BY Invariance, <1>1, PTL

\* The rebalance loop looked at the holdings when it began, long before is_first
\* is decided: however many solves replace the portfolio in between, the agent has
\* one.
THEOREM RebalancesNeverOpen == Safe => []ScheduledNeverOpens
<1>1. IInv => ScheduledNeverOpens
  BY DEF IInv, Opened, Valued, ScheduledNeverOpens, IsFirst
<1> QED BY Invariance, <1>1, PTL

\* A request takes its permit before run_optimization and gives it back once,
\* whichever way that ends.
THEOREM PermitsAreExact == Safe => []PermitsExact
<1>1. IInv => PermitsExact
  BY DEF IInv
<1> QED BY Invariance, <1>1, PTL

\* What a solve liquidates was read some steps before what it buys is stored: with
\* no other solve in between, it is what the agent held.
THEOREM ValueCarriedOver == Safe => CarriesValueOver
<1>1. ASSUME IInv, [Next]_vars, NEW s \in alone, holdings'.by = s, holdings.by # s
      PROVE  valued[s] = holdings.by
  <2>1. PICK t \in Solves : Apply(t)
    <3>1. CASE Next
      BY <1>1, <3>1 DEF Next, Request, BeginManual, BeginScheduled, Thread, Return,
           Refuse, Price, ValueHoldings, WriteConfig, RecordJob, RecordSnapshot,
           Publish, Fail, PatchAssets, SetDisabled, MtmFetch, MtmMark, MtmWrite,
           mtmLeavesAlone, Rest, vars, record
    <3>2. CASE UNCHANGED vars
      BY <1>1, <3>2 DEF vars, record
    <3> QED BY <1>1, <3>1, <3>2
  <2>2. holdings'.by = t /\ pc[t] = "apply"
    BY <2>1 DEF Apply
  <2> QED BY <1>1, <2>2 DEF IInv, Lone
<1>2. IInv /\ [Next]_vars
        => [\A s \in alone : holdings'.by = s /\ holdings.by # s
                               => valued[s] = holdings.by]_vars
  BY <1>1
<1> QED BY Invariance, <1>2, PTL DEF Safe, CarriesValueOver

-----------------------------------------------------------------------------
(* The first solve, and what has valued a portfolio: the holdings never go *)
(* back to the bankroll, so a solve that applies to a bankroll is a first. *)

FirstInv ==
  /\ dbFailures \in Nat
  /\ \A s \in Solves : pc[s] \in {"config", "apply"} /\ valued[s] # Bankroll
                       => holdings.by # Bankroll
  /\ OpeningIsTold

\* A solve moves on its thread, or leaves it without having applied a portfolio.
LEMMA FirstMoves ==
  ASSUME IInv, FirstInv, NEW s \in Solves, NEW x, pc' = [pc EXCEPT ![s] = x],
         pc[s] \notin {"record", "snapshot", "solved"},
         x \notin {"config", "apply"} \/ pc[s] = "config",
         UNCHANGED <<holdings, announced>>, dbFailures' \in Nat,
         dbFailures' >= dbFailures,
         \A t \in Solves : t # s \/ pc[t] = "config" => valued'[t] = valued[t]
  PROVE  FirstInv'
BY DEF FirstInv, OpeningIsTold, IsFirst, IInv, Typed

\* A write-through that a first solve made after its portfolio.
LEMMA FirstWrites ==
  ASSUME IInv, FirstInv, NEW s \in Solves, NEW x \in {"snapshot", "solved"},
         pc[s] \in {"record", "snapshot"}, WriteThrough(s, x),
         UNCHANGED <<holdings, announced, valued>>
  PROVE  FirstInv'
BY DEF FirstInv, OpeningIsTold, IsFirst, IInv, Typed, WriteThrough, GoTo, DbWorks, DbFails

\* The portfolio that a solve applies to a bankroll is a first solve's.
LEMMA FirstApplies ==
  ASSUME IInv, FirstInv, NEW s \in Solves, Apply(s)
  PROVE  FirstInv'
<1>1. /\ pc[s] = "apply" /\ holdings'.by = s /\ s # Bankroll
      /\ UNCHANGED <<announced, valued>>
  BY SolvesAssumption DEF Apply, pushed, local
<1>2. CASE dbFailures' = dbFailures /\ pc' = [pc EXCEPT ![s] = "record"]
  BY <1>1, <1>2 DEF FirstInv, OpeningIsTold, IsFirst, IInv, Typed
<1>3. CASE dbFailures' = dbFailures + 1 /\ pc' = [pc EXCEPT ![s] = "raisedError"]
  BY <1>1, <1>3 DEF FirstInv, OpeningIsTold, IInv, Typed
<1> QED BY <1>2, <1>3 DEF Apply, WriteThrough, GoTo, DbWorks, DbFails

\* The handler of a first solve tells the TV, of another what it told already.
LEMMA FirstReturns ==
  ASSUME IInv, FirstInv, NEW s \in Solves, Return(s)
  PROVE  FirstInv'
<1>1. /\ UNCHANGED <<holdings, dbFailures>>
      /\ \A t \in Solves \ {s} : valued'[t] = valued[t]
  BY DEF Return, Publish, Fail, Forget, record, IInv, Typed
<1>2. CASE Publish(s)
  <2>1. /\ pc' = [pc EXCEPT ![s] = "ok"]
        /\ announced' = (announced \/ valued[s] = Bankroll)
    BY <1>2 DEF Publish, GoTo, Events, IsFirst
  <2>2. CASE announced'
    BY <1>1, <2>1, <2>2 DEF FirstInv, OpeningIsTold, IInv, Typed
  <2>3. CASE ~announced'
    BY <1>1, <2>1, <2>3 DEF FirstInv, OpeningIsTold, IsFirst, IInv, Typed
  <2> QED BY <2>2, <2>3
<1>3. CASE Fail(s)
  <2>1. PICK x \in {"error", "refused"} : pc' = [pc EXCEPT ![s] = x]
    BY <1>3 DEF Fail, GoTo
  <2>2. pc[s] \in {"raisedRefusal", "raisedError"} /\ announced' = announced
    BY <1>3 DEF Fail, Raised, pushed
  <2> QED BY <1>1, <2>1, <2>2 DEF FirstInv, OpeningIsTold, IsFirst, IInv, Typed
<1> QED BY <1>2, <1>3 DEF Return

\* A solve thread's steps.
LEMMA FirstThread ==
  ASSUME IInv, FirstInv, NEW s \in Solves, Thread(s)
  PROVE  FirstInv'
<1>1. CASE Refuse(s) \/ Price(s)
  <2>1. PICK x \in {"raisedRefusal", "priced"} : pc' = [pc EXCEPT ![s] = x]
    BY <1>1 DEF Refuse, Price, GoTo
  <2>2. /\ pc[s] \in {"begun", "priced"}
        /\ UNCHANGED <<holdings, announced, dbFailures, valued>>
    BY <1>1 DEF Refuse, Price, record, pushed, local
  <2>3. dbFailures' \in Nat /\ dbFailures' >= dbFailures
    BY <2>2 DEF FirstInv
  <2> QED BY <2>1, <2>2, <2>3, FirstMoves
<1>2. CASE ValueHoldings(s)
  <2>1. pc[s] = "priced" /\ UNCHANGED <<holdings, announced, dbFailures>>
    BY <1>2 DEF ValueHoldings, record, pushed
  <2>2. CASE /\ pc' = [pc EXCEPT ![s] = "config"]
             /\ valued' = [valued EXCEPT ![s] = holdings.by]
    <3>1. /\ pc'[s] = "config" /\ valued'[s] = holdings.by
          /\ \A t \in Solves \ {s} : pc'[t] = pc[t] /\ valued'[t] = valued[t]
      BY <2>2 DEF IInv, Typed
    <3>2. OpeningIsTold'
      BY <2>1, <3>1 DEF FirstInv, OpeningIsTold, IsFirst
    <3> QED BY <2>1, <3>1, <3>2 DEF FirstInv
  <2>3. CASE pc' = [pc EXCEPT ![s] = "raisedRefusal"] /\ valued' = valued
    <3>1. dbFailures' \in Nat /\ dbFailures' >= dbFailures
      BY <2>1 DEF FirstInv
    <3> QED BY <2>1, <2>3, <3>1, FirstMoves
  <2> QED BY <1>2, <2>2, <2>3 DEF ValueHoldings, GoTo, Liquidated
<1>3. CASE WriteConfig(s)
  <2>1. pc[s] = "config" /\ UNCHANGED <<holdings, announced, valued>>
    BY <1>3 DEF WriteConfig, pushed, local
  <2>2. PICK x \in {"apply", "raisedError"} : pc' = [pc EXCEPT ![s] = x]
    BY <1>3 DEF WriteConfig, WriteThrough, GoTo
  <2>3. dbFailures' \in Nat /\ dbFailures' >= dbFailures
    BY <1>3 DEF WriteConfig, WriteThrough, DbWorks, DbFails, FirstInv
  <2> QED BY <2>1, <2>2, <2>3, FirstMoves
<1>4. CASE Apply(s)
  BY <1>4, FirstApplies
<1>5. CASE RecordJob(s) \/ RecordSnapshot(s)
  BY <1>5, FirstWrites DEF RecordJob, RecordSnapshot, record, pushed, local
<1> QED BY <1>1, <1>2, <1>3, <1>4, <1>5 DEF Thread

\* Every step keeps it.
LEMMA FirstStep ==
  ASSUME IInv, FirstInv, [Next]_vars
  PROVE  FirstInv'
<1>1. ASSUME NEW s \in Solves, Request(s) \/ BeginManual(s) \/ BeginScheduled(s)
      PROVE  FirstInv'
  <2>1. PICK x \in {"refused", "waiting", "begun"} : pc' = [pc EXCEPT ![s] = x]
    BY <1>1 DEF Request, BeginManual, BeginScheduled, Start, GoTo
  <2>2. /\ pc[s] \in {"idle", "waiting"}
        /\ UNCHANGED <<holdings, announced, dbFailures, valued>>
    BY <1>1 DEF Request, BeginManual, BeginScheduled, record, pushed
  <2>3. dbFailures' \in Nat /\ dbFailures' >= dbFailures
    BY <2>2 DEF FirstInv
  <2> QED BY <2>1, <2>2, <2>3, FirstMoves
<1>2. CASE UNCHANGED <<pc, holdings, announced, valued>> /\ (DbWorks \/ DbFails)
  BY <1>2 DEF FirstInv, OpeningIsTold, IsFirst, DbWorks, DbFails
<1>3. CASE PatchAssets \/ SetDisabled
  BY <1>2, <1>3 DEF PatchAssets, SetDisabled, record, pushed, local, DbWorks
<1>4. CASE MtmFetch \/ MtmMark \/ MtmWrite
  BY <1>2, <1>4
  DEF MtmFetch, MtmMark, MtmWrite, mtmLeavesAlone, local, DbWorks, SampleTaken,
      SampleFails
<1>5. CASE Rest \/ UNCHANGED vars
  BY <1>2, <1>5 DEF Rest, vars, record, pushed, local, DbWorks
<1> QED
  BY <1>1, <1>3, <1>4, <1>5, FirstThread, FirstReturns DEF Next

\* An agent that holds a portfolio has been announced or will be by a solve that
\* is under way, however many of its solves overlap and at whatever gate.
THEOREM OpeningsAreTold == Safe => []OpeningIsTold
<1>1. Init => FirstInv
  BY DEF Init, FirstInv, OpeningIsTold
<1>2. Safe => []FirstInv
  BY <1>1, FirstStep, Invariance, PTL DEF Safe
<1>3. FirstInv => OpeningIsTold
  BY DEF FirstInv
<1> QED BY <1>2, <1>3, PTL
=============================================================================
