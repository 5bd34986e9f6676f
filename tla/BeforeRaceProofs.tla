-------------------------- MODULE BeforeRaceProofs --------------------------
(***************************************************************************)
(* What a solve is before solvers race for it: admitted by the QPU budget, *)
(* and a problem, a QUBO and a gate that agree.                            *)
(*                                                                         *)
(* The safety of the budget holds for every set of agents and requests,    *)
(* and every limit, window and delay.  The cap counts admissions, the code *)
(* counts stored events.  The inductive invariant closes that gap: an      *)
(* admission whose event is gone lies a whole window back (Forgotten), and *)
(* a call about to be decided holds a clock reading at most MaxDelay old   *)
(* (Clocks).  So every earlier admission that could share a window of      *)
(* length Window - MaxDelay with a new one is among the events the new one *)
(* was tested against.                                                     *)
(*                                                                         *)
(* The problem is proved for every order, basket and data.  Its invariant  *)
(* (Solving) says what each stage leaves behind; the rest is algebra, of   *)
(* sums over finite sets, of the grid's powers of two and of quotients.    *)
(* The library's induction takes an operator: here it is a set that is     *)
(* closed (SetInduction), and recursive definitions are shown to have a    *)
(* solution (LoopFact).                                                    *)
(***************************************************************************)
EXTENDS QpuBudget, Portfolio, FiniteSetTheorems, NaturalsInduction, WellFoundedInduction, TLAPS

-----------------------------------------------------------------------------
(* The budget.                                                             *)

\* A call that waits for the lock read the clock at most MaxDelay ago.
Clocks == \A r \in Waiting : now[r] <= clock /\ clock <= now[r] + MaxDelay

\* Only admissions have events, and one without has left the window.
Forgotten ==
  /\ events \subseteq Admitted
  /\ \A r \in Admitted :
       now[r] <= clock /\ (r \in events \/ now[r] <= clock - Window)

\* No agent ever has more than Limit events stored.
StoredOf(a) == {e \in events : AgentOf[e] = a}
StoredCap == \A a \in Agents : Cardinality(StoredOf(a)) <= Limit

\* What a refusal was told: Limit admissions filled the budget, and it may come
\* back a window after the oldest.
Told(t, full) ==
  /\ full \subseteq Admitted /\ Cardinality(full) = Limit
  /\ \E o \in full : t = now[o] + Window /\ \A f \in full : now[o] <= now[f]
Refused == \A r \in Requests :
             pc[r] = "refused" => Told(refusal[r].retryAt, refusal[r].full)

IInv == TypeOK /\ Clocks /\ Forgotten /\ StoredCap /\ WindowCap /\ Refused

-----------------------------------------------------------------------------
(* Lemmas about the operators of the store.                                *)

\* Any non-empty set of requests has one with the oldest clock reading.
LEMMA OldestExists ==
  ASSUME TypeOK, NEW S \in SUBSET Requests, S # {}
  PROVE  \E o \in S : \A f \in S : now[o] <= now[f]
<1> DEFINE T == {now[f] : f \in S}
<1>1. T \subseteq Nat /\ T # {}
  BY DEF TypeOK
<1>2. PICK x \in T : \A y \in T : ~ (<<y, x>> \in OpToRel(<, Nat))
  <2> HIDE DEF T
  <2> QED BY <1>1, NatLessThanWellFounded, WFMin
<1>3. \A y \in T : x <= y
  <2> HIDE DEF T
  <2> SUFFICES ASSUME NEW y \in T, y < x PROVE FALSE
    BY <1>1
  <2>1. <<y, x>> \in OpToRel(<, Nat)
    BY <1>1 DEF OpToRel
  <2> QED BY <2>1, <1>2
<1>4. PICK o \in S : x = now[o]
  OBVIOUS
<1> QED BY <1>3, <1>4

\* Sets of requests are finite.
LEMMA Finite ==
  ASSUME NEW S \in SUBSET Requests
  PROVE  IsFiniteSet(S) /\ Cardinality(S) \in Nat
BY RequestsAssumption, FS_Subset, FS_CardinalityType

\* Pruning drops events only, and keeps those inside the window.
LEMMA ActiveFacts ==
  ASSUME TypeOK, NEW r \in Requests, NEW n \in Int
  PROVE  /\ Prune(n) \subseteq events
         /\ Active(r, n) \subseteq StoredOf(AgentOf[r])
         /\ Active(r, n) \in SUBSET Requests
         /\ IsFiniteSet(Active(r, n)) /\ Cardinality(Active(r, n)) \in Nat
<1>1. /\ Prune(n) \subseteq events
      /\ Active(r, n) \subseteq StoredOf(AgentOf[r])
      /\ Active(r, n) \in SUBSET Requests
  BY DEF Prune, Active, StoredOf, TypeOK
<1> QED BY <1>1, Finite

\* An exhausted budget names the admission that frees it.
LEMMA NextFacts ==
  ASSUME TypeOK, NEW r \in Requests, NEW n \in Int, Exhausted(r, n)
  PROVE  \E o \in Active(r, n) : /\ NextAvailableAt(r, n) = now[o] + Window
                                 /\ \A f \in Active(r, n) : now[o] <= now[f]
<1> DEFINE A == Active(r, n)
<1>1. A # {}
  BY ActiveFacts, FS_EmptySet, NumbersAssumption DEF Exhausted
<1>2. \E o \in A : \A f \in A : now[o] <= now[f]
  BY <1>1, ActiveFacts, OldestExists
<1>3. LET o == CHOOSE e \in A : \A f \in A : now[e] <= now[f]
      IN  o \in A /\ \A f \in A : now[o] <= now[f]
  BY <1>2
<1> QED BY <1>3 DEF NextAvailableAt

-----------------------------------------------------------------------------
LEMMA InitIInv == Init => IInv
<1> SUFFICES ASSUME Init PROVE IInv
  OBVIOUS
<1> USE RequestsAssumption, NumbersAssumption
<1>1. TypeOK
  BY DEF Init, TypeOK, Stages, NoRefusal
<1>2. Waiting = {} /\ Admitted = {} /\ events = {}
  BY DEF Init, Waiting, Admitted
<1>3. Clocks /\ Forgotten
  BY <1>2 DEF Clocks, Forgotten
<1>4. StoredCap
  <2>1. \A a : StoredOf(a) = {}
    BY <1>2 DEF StoredOf
  <2> QED BY <2>1, FS_EmptySet DEF StoredCap
<1>5. WindowCap
  <2>1. \A a, t : AdmittedWithin(a, t, Window - MaxDelay) = {}
    BY <1>2 DEF AdmittedWithin
  <2> QED BY <2>1, FS_EmptySet DEF WindowCap
<1>6. Refused
  BY DEF Refused, Init
<1> QED BY <1>1, <1>3, <1>4, <1>5, <1>6 DEF IInv

-----------------------------------------------------------------------------
(* A call that does not admit: it may prune with a clock reading n that is *)
(* at most the clock, and leaves the admissions as they are.               *)
LEMMA PruneKeeps ==
  ASSUME IInv, TypeOK', NEW n \in Int, n <= clock,
         clock' = clock, Admitted' = Admitted,
         \A r \in Admitted : now'[r] = now[r],
         events' = Prune(n) \/ events' = events
  PROVE  Forgotten' /\ StoredCap' /\ WindowCap'
<1> USE NumbersAssumption
<1>1. events' \subseteq events
  BY DEF Prune
<1>2. Forgotten'
  <2>1. \A r \in Admitted : r \in Requests /\ now[r] \in Nat
    BY DEF IInv, TypeOK, Admitted
  <2>2. \A r \in Admitted : r \in events => r \in events' \/ now[r] <= clock - Window
    BY <2>1 DEF Prune, IInv, TypeOK
  <2> QED BY <1>1, <2>1, <2>2 DEF IInv, Forgotten
<1>3. StoredCap'
  <2> SUFFICES ASSUME NEW a \in Agents PROVE Cardinality(StoredOf(a)') <= Limit
    BY DEF StoredCap
  <2>1. StoredOf(a) \in SUBSET Requests /\ StoredOf(a)' \in SUBSET StoredOf(a)
    BY <1>1 DEF StoredOf, IInv, TypeOK
  <2>2. /\ Cardinality(StoredOf(a)') <= Cardinality(StoredOf(a))
        /\ Cardinality(StoredOf(a)) \in Nat
        /\ Cardinality(StoredOf(a)') \in Nat
    BY <2>1, Finite, FS_Subset, FS_CardinalityType
  <2>3. Cardinality(StoredOf(a)) <= Limit
    BY DEF IInv, StoredCap
  <2> QED BY <2>2, <2>3
<1>4. WindowCap'
  <2>1. \A a, t : AdmittedWithin(a, t, Window - MaxDelay)'
                   = AdmittedWithin(a, t, Window - MaxDelay)
    BY DEF AdmittedWithin
  <2> QED BY <2>1 DEF IInv, WindowCap
<1> QED BY <1>2, <1>3, <1>4

\* A refusal stands as long as the admissions it names do.
LEMMA ToldStands ==
  ASSUME IInv, Admitted \subseteq Admitted',
         \A e \in Admitted : now'[e] = now[e]
  PROVE  \A t, full : Told(t, full) => Told(t, full)'
BY DEF Told

\* Refusing tells the truth about the budget.
LEMMA RefuseTold ==
  ASSUME IInv, NEW r \in Requests, Exhausted(r, now[r])
  PROVE  Told(NextAvailableAt(r, now[r]), Active(r, now[r]))
<1> DEFINE A == Active(r, now[r])
<1> USE NumbersAssumption
<1>1. now[r] \in Int /\ TypeOK /\ AgentOf[r] \in Agents
  BY RequestsAssumption DEF IInv, TypeOK
<1>2. A \subseteq StoredOf(AgentOf[r]) /\ Cardinality(A) \in Nat
  BY <1>1, ActiveFacts
<1>3. A \subseteq Admitted
  BY <1>2 DEF StoredOf, IInv, Forgotten
<1>4. Cardinality(A) = Limit
  <2>1. StoredOf(AgentOf[r]) \in SUBSET Requests
    BY <1>1 DEF StoredOf, TypeOK
  <2>2. /\ Cardinality(A) <= Cardinality(StoredOf(AgentOf[r]))
        /\ Cardinality(StoredOf(AgentOf[r])) \in Nat
    BY <2>1, <1>2, Finite, FS_Subset
  <2>3. Cardinality(StoredOf(AgentOf[r])) <= Limit
    BY <1>1 DEF IInv, StoredCap
  <2>4. Cardinality(A) >= Limit
    BY DEF Exhausted
  <2> QED BY <2>2, <2>3, <2>4, <1>2
<1> QED BY <1>1, <1>3, <1>4, NextFacts DEF Told
-----------------------------------------------------------------------------
(* The steps.                                                              *)

\* Reading the clock: the reading is fresh, the store is not touched.
LEMMA ReadStep ==
  ASSUME IInv, NEW r \in Requests, ReadClockToCheck(r) \/ ReadClockToReserve(r)
  PROVE  IInv'
<1> USE NumbersAssumption
<1>1. /\ pc[r] \in {"idle", "checked"} /\ clock' = clock /\ now' = [now EXCEPT ![r] = clock]
      /\ events' = events /\ refusal' = refusal
      /\ \E st \in {"checking", "reserving"} : pc' = [pc EXCEPT ![r] = st]
      /\ TypeOK
  BY DEF ReadClockToCheck, ReadClockToReserve, IInv
<1>2. TypeOK'
  BY <1>1 DEF TypeOK, Stages
<1>3. Admitted' = Admitted /\ r \notin Admitted
  BY <1>1 DEF Admitted, TypeOK
<1>4. \A e \in Admitted : now'[e] = now[e]
  BY <1>1, <1>3 DEF TypeOK, Admitted
<1>5. Forgotten' /\ StoredCap' /\ WindowCap'
  BY <1>1, <1>2, <1>3, <1>4, PruneKeeps DEF TypeOK
<1>6. Clocks'
  BY <1>1 DEF Clocks, Waiting, IInv, TypeOK
<1>7. Refused'
  <2> SUFFICES ASSUME NEW q \in Requests, pc'[q] = "refused"
               PROVE  Told(refusal[q].retryAt, refusal[q].full)'
    BY DEF Refused
  <2>1. pc[q] = "refused"
    BY <1>1 DEF TypeOK
  <2>2. Told(refusal[q].retryAt, refusal[q].full)
    BY <2>1 DEF IInv, Refused
  <2> QED BY <2>2, <1>1, <1>3, <1>4 DEF Told
<1> QED BY <1>2, <1>5, <1>6, <1>7 DEF IInv

\* A refusal, by the first check or by reserve.
LEMMA RefuseStep ==
  ASSUME IInv, NEW r \in Requests, pc[r] \in {"checking", "reserving"}, Refuse(r),
         UNCHANGED <<clock, now>>
  PROVE  IInv'
<1> USE NumbersAssumption
<1> DEFINE n == now[r]
           told == [retryAt |-> NextAvailableAt(r, n), full |-> Active(r, n)]
<1>1. /\ Exhausted(r, n) /\ pc' = [pc EXCEPT ![r] = "refused"]
      /\ refusal' = [refusal EXCEPT ![r] = told] /\ events' = Prune(n)
      /\ TypeOK /\ n \in Int
  BY DEF Refuse, IInv, TypeOK
<1>2. Told(told.retryAt, told.full)
  BY <1>1, RefuseTold
<1>3. told \in [retryAt : Nat, full : SUBSET Requests]
  <2>1. Active(r, n) \in SUBSET Requests /\ Prune(n) \subseteq events
    BY <1>1, ActiveFacts
  <2>2. NextAvailableAt(r, n) \in Nat
    BY <1>1, <2>1, NextFacts DEF TypeOK
  <2> QED BY <2>1, <2>2
<1>4. TypeOK'
  BY <1>1, <1>3, ActiveFacts DEF TypeOK, Stages
<1>5. Admitted' = Admitted /\ \A e \in Admitted : now'[e] = now[e]
  BY <1>1 DEF Admitted, TypeOK
<1>6. n <= clock
  BY DEF IInv, Clocks, Waiting
<1>7. Forgotten' /\ StoredCap' /\ WindowCap'
  BY <1>1, <1>4, <1>5, <1>6, PruneKeeps
<1>8. Clocks'
  BY <1>1 DEF Clocks, Waiting, IInv, TypeOK
<1>9. Refused'
  <2> SUFFICES ASSUME NEW q \in Requests, pc'[q] = "refused"
               PROVE  Told(refusal[q].retryAt, refusal[q].full)'
    BY DEF Refused
  <2>1. Told(refusal'[q].retryAt, refusal'[q].full)
    <3>1. CASE q = r
      BY <3>1, <1>1, <1>2 DEF TypeOK
    <3>2. CASE q # r
      BY <3>2, <1>1 DEF TypeOK, IInv, Refused
    <3> QED BY <3>1, <3>2
  <2> QED BY <2>1, <1>5 DEF Told
<1> QED BY <1>4, <1>7, <1>8, <1>9 DEF IInv

\* The first check passes: nothing is reserved yet.
LEMMA CheckStep ==
  ASSUME IInv, NEW r \in Requests, Check(r)
  PROVE  IInv'
<1>1. CASE Refuse(r)
  BY <1>1, RefuseStep DEF Check
<1>2. CASE ~Refuse(r)
  <2>1. /\ pc[r] = "checking" /\ pc' = [pc EXCEPT ![r] = "checked"]
        /\ events' = Prune(now[r]) /\ UNCHANGED <<clock, now, refusal>>
        /\ TypeOK /\ now[r] \in Int
    BY <1>2 DEF Check, IInv, TypeOK
  <2>2. TypeOK'
    BY <2>1, ActiveFacts DEF TypeOK, Stages
  <2>3. Admitted' = Admitted /\ \A e \in Admitted : now'[e] = now[e]
    BY <2>1 DEF Admitted, TypeOK
  <2>4. now[r] <= clock
    BY <2>1 DEF IInv, Clocks, Waiting
  <2>5. Forgotten' /\ StoredCap' /\ WindowCap'
    BY <2>1, <2>2, <2>3, <2>4, PruneKeeps
  <2>6. Clocks'
    BY <2>1 DEF Clocks, Waiting, IInv, TypeOK
  <2>7. Refused'
    <3> SUFFICES ASSUME NEW q \in Requests, pc'[q] = "refused"
                 PROVE  Told(refusal[q].retryAt, refusal[q].full)'
      BY DEF Refused
    <3>1. pc[q] = "refused"
      BY <2>1 DEF TypeOK
    <3>2. Told(refusal[q].retryAt, refusal[q].full)
      BY <3>1 DEF IInv, Refused
    <3> QED BY <3>2, <2>1, <2>3 DEF Told
  <2> QED BY <2>2, <2>5, <2>6, <2>7 DEF IInv
<1> QED BY <1>1, <1>2
\* Admitting: the other admissions a window could share with the new one are
\* among the active events it was tested against.
LEMMA AdmitCap ==
  ASSUME IInv, NEW r \in Requests, pc[r] = "reserving", ~Exhausted(r, now[r]),
         Admitted' = Admitted \union {r}, now' = now
  PROVE  WindowCap'
<1> USE NumbersAssumption
<1> DEFINE n == now[r]
           W == Window - MaxDelay
<1>1. TypeOK /\ n \in Int /\ n <= clock /\ clock <= n + MaxDelay
  BY DEF IInv, TypeOK, Clocks, Waiting
<1>2. SUFFICES ASSUME NEW a \in Agents, NEW t \in Int
               PROVE  Cardinality(AdmittedWithin(a, t, W)') <= Limit
  BY DEF WindowCap
<1>3. AdmittedWithin(a, t, W) \in SUBSET Requests
  BY DEF AdmittedWithin, Admitted
<1>4. Cardinality(AdmittedWithin(a, t, W)) <= Limit
  BY DEF IInv, WindowCap
<1>5. CASE AgentOf[r] = a /\ t <= n /\ n < t + W
  <2>1. AdmittedWithin(a, t, W)' = AdmittedWithin(a, t, W) \union {r}
    BY <1>5 DEF AdmittedWithin
  <2>2. AdmittedWithin(a, t, W) \subseteq Active(r, n)
    <3> SUFFICES ASSUME NEW e \in AdmittedWithin(a, t, W) PROVE e \in Active(r, n)
      OBVIOUS
    <3>1. e \in Admitted /\ e \in Requests /\ AgentOf[e] = a /\ t <= now[e]
          /\ now[e] \in Nat
      BY <1>1 DEF AdmittedWithin, Admitted, TypeOK
    <3>2. now[e] > n - Window /\ now[e] > clock - Window
      BY <3>1, <1>1, <1>5 DEF TypeOK
    <3>3. e \in events
      BY <3>1, <3>2, <1>1 DEF IInv, Forgotten, TypeOK
    <3> QED BY <3>1, <3>2, <3>3, <1>5 DEF Active, Prune
  <2>3. /\ Cardinality(AdmittedWithin(a, t, W)) <= Cardinality(Active(r, n))
        /\ Cardinality(Active(r, n)) \in Nat
        /\ Cardinality(AdmittedWithin(a, t, W)) \in Nat
    BY <2>2, <1>1, <1>3, ActiveFacts, Finite, FS_Subset
  <2>4. Cardinality(Active(r, n)) < Limit
    BY <2>3 DEF Exhausted
  <2>5. Cardinality(AdmittedWithin(a, t, W) \union {r})
          <= Cardinality(AdmittedWithin(a, t, W)) + 1
    BY <1>3, <2>3, Finite, FS_AddElement
  <2>6. Cardinality(AdmittedWithin(a, t, W) \union {r}) \in Nat
    BY <1>3, Finite
  <2>7. Cardinality(AdmittedWithin(a, t, W) \union {r}) <= Limit
    BY <2>3, <2>4, <2>5, <2>6
  <2> QED BY <2>1, <2>7
<1>6. CASE ~(AgentOf[r] = a /\ t <= n /\ n < t + W)
  <2>1. AdmittedWithin(a, t, W)' = AdmittedWithin(a, t, W)
    BY <1>6 DEF AdmittedWithin
  <2> QED BY <2>1, <1>4
<1> QED BY <1>5, <1>6

LEMMA ReserveStep ==
  ASSUME IInv, NEW r \in Requests, Reserve(r)
  PROVE  IInv'
<1> USE NumbersAssumption
<1>1. CASE Refuse(r)
  BY <1>1, RefuseStep DEF Reserve
<1>2. CASE ~Refuse(r)
  <2> DEFINE n == now[r]
  <2>1. /\ pc[r] = "reserving" /\ pc' = [pc EXCEPT ![r] = "admitted"]
        /\ ~Exhausted(r, n) /\ events' = Prune(n) \union {r}
        /\ UNCHANGED <<clock, now, refusal>>
        /\ TypeOK /\ n \in Int /\ n <= clock
    BY <1>2 DEF Reserve, IInv, TypeOK, Clocks, Waiting
  <2>2. TypeOK'
    BY <2>1, ActiveFacts DEF TypeOK, Stages
  <2>3. Admitted' = Admitted \union {r} /\ r \notin Admitted
    BY <2>1 DEF Admitted, TypeOK
  <2>4. WindowCap'
    BY <2>1, <2>3, AdmitCap
  <2>5. Forgotten'
    <3>1. events' \subseteq Admitted'
      BY <2>1, <2>3, ActiveFacts DEF IInv, Forgotten
    <3>2. ASSUME NEW e \in Admitted'
          PROVE  now[e] <= clock /\ (e \in events' \/ now[e] <= clock - Window)
      BY <2>1, <2>3 DEF IInv, Forgotten, Prune, TypeOK, Admitted
    <3> QED BY <3>1, <3>2, <2>1 DEF Forgotten
  <2>6. StoredCap'
    <3> SUFFICES ASSUME NEW a \in Agents PROVE Cardinality(StoredOf(a)') <= Limit
      BY DEF StoredCap
    <3>1. CASE a = AgentOf[r]
      <4>1. StoredOf(a)' = Active(r, n) \union {r}
        BY <2>1, <3>1 DEF StoredOf, Active
      <4>2. IsFiniteSet(Active(r, n)) /\ Cardinality(Active(r, n)) \in Nat
        BY <2>1, ActiveFacts
      <4>3. Cardinality(Active(r, n)) < Limit
        BY <4>2, <2>1 DEF Exhausted
      <4>4. \/ Cardinality(Active(r, n) \union {r}) = Cardinality(Active(r, n))
            \/ Cardinality(Active(r, n) \union {r}) = Cardinality(Active(r, n)) + 1
        BY <4>2, FS_AddElement
      <4>5. Cardinality(Active(r, n) \union {r}) <= Limit
        BY <4>2, <4>3, <4>4
      <4> QED BY <4>1, <4>5
    <3>2. CASE a # AgentOf[r]
      <4>1. StoredOf(a)' \in SUBSET StoredOf(a) /\ StoredOf(a) \in SUBSET Requests
        BY <2>1, <3>2, ActiveFacts DEF StoredOf, TypeOK
      <4>2. /\ Cardinality(StoredOf(a)') <= Cardinality(StoredOf(a))
            /\ Cardinality(StoredOf(a)) \in Nat /\ Cardinality(StoredOf(a)') \in Nat
        BY <4>1, Finite, FS_Subset, FS_CardinalityType
      <4>3. Cardinality(StoredOf(a)) <= Limit
        BY DEF IInv, StoredCap
      <4> QED BY <4>2, <4>3
    <3> QED BY <3>1, <3>2
  <2>7. Clocks'
    BY <2>1 DEF Clocks, Waiting, IInv, TypeOK
  <2>8. Refused'
    <3> SUFFICES ASSUME NEW q \in Requests, pc'[q] = "refused"
                 PROVE  Told(refusal[q].retryAt, refusal[q].full)'
      BY DEF Refused
    <3>1. pc[q] = "refused"
      BY <2>1 DEF TypeOK
    <3>2. Told(refusal[q].retryAt, refusal[q].full)
      BY <3>1 DEF IInv, Refused
    <3> QED BY <3>2, <2>1, <2>3 DEF Told
  <2> QED BY <2>2, <2>4, <2>5, <2>6, <2>7, <2>8 DEF IInv
<1> QED BY <1>1, <1>2

\* Show, Tick, Restart and stuttering admit and refuse nobody.
LEMMA OtherStep ==
  ASSUME IInv, Show \/ Tick \/ Restart \/ UNCHANGED vars
  PROVE  IInv'
<1> USE NumbersAssumption
<1>1. TypeOK
  BY DEF IInv
<1>2. /\ Admitted' = Admitted /\ UNCHANGED <<now, refusal>>
      /\ \A q \in Requests : pc'[q] = "refused" => pc[q] = "refused"
      /\ Waiting' \subseteq Waiting
  BY <1>1 DEF Show, Tick, Restart, vars, Admitted, Waiting, TypeOK
<1>3. Refused'
  <2> SUFFICES ASSUME NEW q \in Requests, pc'[q] = "refused"
               PROVE  Told(refusal[q].retryAt, refusal[q].full)'
    BY DEF Refused
  <2>1. Told(refusal[q].retryAt, refusal[q].full)
    BY <1>2 DEF IInv, Refused
  <2> QED BY <2>1, <1>2 DEF Told
<1>4. CASE Show
  <2>1. PICK n \in (clock - MaxDelay)..clock : events' = Prune(n)
    BY <1>4 DEF Show
  <2>2. n \in Int /\ n <= clock
    BY <1>1 DEF TypeOK
  <2>3. TypeOK' /\ clock' = clock
    BY <1>1, <1>4, <2>1, <2>2, ActiveFacts DEF Show, TypeOK, Prune
  <2>4. Forgotten' /\ StoredCap' /\ WindowCap'
    BY <2>1, <2>2, <2>3, <1>2, PruneKeeps
  <2>5. Clocks'
    BY <1>4 DEF Show, Clocks, Waiting, IInv
  <2> QED BY <1>3, <2>3, <2>4, <2>5 DEF IInv
<1>5. CASE Tick
  <2>1. TypeOK'
    BY <1>1, <1>5 DEF Tick, TypeOK
  <2>2. Clocks'
    BY <1>1, <1>5 DEF Tick, Clocks, Waiting, TypeOK, IInv
  <2>3. Forgotten'
    BY <1>1, <1>2, <1>5 DEF Tick, Forgotten, TypeOK, IInv, Admitted
  <2>4. StoredCap' /\ WindowCap'
    BY <1>2, <1>5 DEF Tick, StoredCap, StoredOf, WindowCap, AdmittedWithin, IInv
  <2> QED BY <1>3, <2>1, <2>2, <2>3, <2>4 DEF IInv
<1>6. CASE Restart \/ UNCHANGED vars
  <2>1. TypeOK' /\ UNCHANGED <<clock, events>>
    BY <1>1, <1>6 DEF Restart, vars, TypeOK, Stages
  <2>2. Clocks' /\ Forgotten'
    BY <1>2, <2>1 DEF Clocks, Forgotten, IInv
  <2>3. StoredCap' /\ WindowCap'
    BY <1>2, <2>1 DEF StoredCap, StoredOf, WindowCap, AdmittedWithin, IInv
  <2> QED BY <1>3, <2>1, <2>2, <2>3 DEF IInv
<1> QED BY <1>4, <1>5, <1>6

LEMMA NextIInv == IInv /\ [Next]_vars => IInv'
BY ReadStep, CheckStep, ReserveStep, OtherStep DEF Next
-----------------------------------------------------------------------------
\* What a refusal was told is when the budget frees.
LEMMA ToldIsFirstFree == IInv => RetryAtIsFirstFree
<1> USE NumbersAssumption
<1> SUFFICES ASSUME IInv, NEW r \in Requests, pc[r] = "refused"
             PROVE  LET stillActive(n) ==
                          {e \in refusal[r].full : now[e] > n - Window}
                    IN  /\ Cardinality(stillActive(refusal[r].retryAt)) < Limit
                        /\ Cardinality(stillActive(refusal[r].retryAt - 1)) >= Limit
  BY DEF RetryAtIsFirstFree
<1> DEFINE full == refusal[r].full
           t == refusal[r].retryAt
           still(n) == {e \in full : now[e] > n - Window}
<1>1. Told(t, full) /\ TypeOK
  BY DEF IInv, Refused
<1>2. full \in SUBSET Requests /\ Cardinality(full) = Limit /\ IsFiniteSet(full)
  BY <1>1, Finite DEF Told, Admitted
<1>3. PICK o \in full : t = now[o] + Window /\ \A f \in full : now[o] <= now[f]
  BY <1>1 DEF Told
<1>4. o \in Requests /\ now[o] \in Nat /\ \A f \in full : now[f] \in Nat
  BY <1>1, <1>2 DEF TypeOK
<1>5. still(t) \in SUBSET full /\ still(t) # full
  BY <1>3, <1>4
<1>6. still(t - 1) = full
  BY <1>3, <1>4
<1>7. Cardinality(still(t)) < Limit
  <2> HIDE DEF still, full
  <2>1. /\ Cardinality(still(t)) <= Cardinality(full)
        /\ Cardinality(full) = Cardinality(still(t)) => full = still(t)
    BY <1>2, <1>5, FS_Subset
  <2>2. Cardinality(still(t)) \in Nat
    BY <1>2, <1>5, Finite
  <2> QED BY <1>2, <1>5, <2>1, <2>2
<1> QED BY <1>2, <1>6, <1>7

LEMMA SpecIInv == Spec => []IInv
<1>1. Init => IInv
  BY InitIInv
<1>2. IInv /\ [Next]_vars => IInv'
  BY NextIInv
<1> QED BY <1>1, <1>2, PTL DEF Spec

-----------------------------------------------------------------------------
\* The types of the budget's state.
THEOREM TypeCorrect == Spec => []TypeOK
<1>1. IInv => TypeOK
  BY DEF IInv
<1> QED BY <1>1, SpecIInv, PTL

\* "8 QPU-admitted solves per rolling 10 minutes": in any window whatever, not
\* only in those TLC can open, no agent is admitted more than Limit times.
THEOREM CapHolds == Spec => []WindowCap
<1>1. IInv => WindowCap
  BY DEF IInv
<1> QED BY <1>1, SpecIInv, PTL

\* The form of the cap that the model checker evaluates.
THEOREM CapAtAdmissionsHolds == Spec => []WindowCapAtAdmissions
<1>1. IInv => WindowCapAtAdmissions
  <2> SUFFICES ASSUME IInv, NEW r \in Admitted
               PROVE  Cardinality(AdmittedWithin(AgentOf[r], now[r], Window - MaxDelay))
                        <= Limit
    BY DEF WindowCapAtAdmissions
  <2>1. AgentOf[r] \in Agents /\ now[r] \in Int
    BY RequestsAssumption DEF IInv, TypeOK, Admitted
  <2> QED BY <2>1 DEF IInv, WindowCap
<1> QED BY <1>1, SpecIInv, PTL

\* A refused solve is told exactly when the budget that refused it frees.
THEOREM RetryAtHolds == Spec => []RetryAtIsFirstFree
BY SpecIInv, ToldIsFirstFree, PTL

-----------------------------------------------------------------------------
(* Induction and recursion.                                                *)

\* A set of naturals that is not empty has a least element.
LEMMA LeastFact ==
  ASSUME NEW S, S \subseteq Nat, S # {}
  PROVE  \E m \in S : \A k \in S : m <= k
<1>1. PICK m \in S : \A k \in S : ~(<<k, m>> \in OpToRel(<, Nat))
  BY NatLessThanWellFounded, WFMin
<1>2. \A k \in S : ~(k < m)
  BY <1>1 DEF OpToRel
<1> QED BY <1>2

\* What holds of the empty set, and with a set of the set with one more, holds of a
\* finite set: an induction, over sets given as the members of P.
LEMMA SetInduction ==
  ASSUME NEW S, IsFiniteSet(S), NEW P, {} \in P,
         \A T \in SUBSET S : \A x \in S : T \in P /\ x \notin T => T \union {x} \in P
  PROVE  S \in P
<1> SUFFICES ASSUME S \notin P PROVE FALSE
  OBVIOUS
<1>1. \A T \in SUBSET S : IsFiniteSet(T) /\ Cardinality(T) \in Nat
  BY FS_Subset, FS_CardinalityType
<1> DEFINE Bad == {n \in Nat : \E T \in SUBSET S : T \notin P /\ Cardinality(T) = n}
<1>2. PICK n \in Bad : \A k \in Bad : n <= k
  <2>1. Cardinality(S) \in Bad
    BY <1>1
  <2> HIDE DEF Bad
  <2>2. Bad \subseteq Nat
    BY DEF Bad
  <2> QED BY <2>1, <2>2, LeastFact
<1>3. PICK T \in SUBSET S : T \notin P /\ Cardinality(T) = n
  BY <1>2
<1>4. PICK x \in T : TRUE
  BY <1>3
<1>5. Cardinality(T \ {x}) = n - 1 /\ n \in Nat /\ T \ {x} \in SUBSET S
  BY <1>1, <1>2, <1>3, <1>4, FS_RemoveElement
<1>6. T \ {x} \in P
  <2> SUFFICES ASSUME T \ {x} \notin P PROVE FALSE
    OBVIOUS
  <2>1. n - 1 \in Bad
    BY <1>1, <1>5
  <2> QED BY <2>1, <1>2, <1>5
<1>7. (T \ {x}) \union {x} = T
  BY <1>4
<1> QED BY <1>3, <1>4, <1>5, <1>6, <1>7

\* A recursive function over D, with values in R, that gets nearer to Stop with every
\* call, by the measure m.
Descends(D, R, Stop, base, then, next, m) ==
  /\ then \in [D -> [R -> R]] /\ next \in [D -> D] /\ m \in [D -> Nat]
  /\ \A s \in D : s \in Stop => base[s] \in R
  /\ \A s \in D : s \notin Stop => m[next[s]] < m[s]

\* It is defined.
LEMMA LoopFact ==
  ASSUME NEW D, NEW R, NEW Stop, NEW base, NEW then, NEW next, NEW m,
         Descends(D, R, Stop, base, then, next, m)
  PROVE  \E f \in [D -> R] :
           \A s \in D : f[s] = IF s \in Stop THEN base[s] ELSE then[s][f[next[s]]]
<1>0. /\ then \in [D -> [R -> R]] /\ next \in [D -> D] /\ m \in [D -> Nat]
      /\ \A s \in D : s \in Stop => base[s] \in R
      /\ \A s \in D : s \notin Stop => m[next[s]] < m[s]
  BY DEF Descends
<1> USE <1>0
<1> DEFINE Upto(n) == {s \in D : m[s] < n}
           Good(g, n) == /\ g \in [Upto(n) -> R]
                         /\ \A s \in Upto(n) :
                              g[s] = IF s \in Stop THEN base[s] ELSE then[s][g[next[s]]]
<1>1. \A n \in Nat : \E g : Good(g, n)
  <2> SUFFICES ASSUME NEW p \in Nat, ~ \E g : Good(g, p) PROVE FALSE
    OBVIOUS
  <2> DEFINE Bad == {n \in Nat : ~ \E g : Good(g, n)}
  <2>1. PICK n \in Bad : \A k \in Bad : n <= k
    <3>1. p \in Bad /\ Bad \subseteq Nat
      OBVIOUS
    <3> HIDE DEF Bad
    <3> QED BY <3>1, LeastFact
  <2>2. n # 0
    <3>1. Upto(0) = {}
      OBVIOUS
    <3>2. Good([s \in {} |-> 0], 0)
      BY <3>1
    <3>3. 0 \notin Bad
      BY <3>2
    <3> HIDE DEF Bad
    <3> QED BY <3>3, <2>1
  <2>3. PICK g : Good(g, n - 1)
    <3>1. n - 1 \in Nat /\ n \in Nat
      BY <2>1, <2>2
    <3>2. n - 1 \notin Bad
      <4> HIDE DEF Bad
      <4> QED BY <2>1, <3>1
    <3> QED BY <3>1, <3>2
  <2>4. \A s \in Upto(n) : s \notin Stop => next[s] \in Upto(n - 1)
    BY <2>1
  <2>5. Upto(n - 1) \subseteq Upto(n)
    BY <2>1
  <2> DEFINE h == [s \in Upto(n) |-> IF s \in Stop THEN base[s] ELSE then[s][g[next[s]]]]
  <2>6. h \in [Upto(n) -> R]
    BY <2>3, <2>4
  <2>7. \A t \in Upto(n - 1) : h[t] = g[t]
    BY <2>3, <2>5
  <2>8. Good(h, n)
    BY <2>4, <2>6, <2>7
  <2> QED BY <2>1, <2>8
<1>2. ASSUME NEW g, NEW h, NEW n \in Nat, NEW p \in Nat, Good(g, n), Good(h, p),
             NEW s \in Upto(n), s \in Upto(p)
      PROVE  g[s] = h[s]
  <2> SUFFICES ASSUME g[s] # h[s] PROVE FALSE
    OBVIOUS
  <2> DEFINE Bad == {k \in Nat : \E t \in D : t \in Upto(n) /\ t \in Upto(p)
                                              /\ m[t] = k /\ g[t] # h[t]}
  <2>1. PICK k \in Bad : \A j \in Bad : k <= j
    <3>1. m[s] \in Bad /\ Bad \subseteq Nat
      BY <1>2
    <3> HIDE DEF Bad
    <3> QED BY <3>1, LeastFact
  <2>2. PICK t \in D : t \in Upto(n) /\ t \in Upto(p) /\ m[t] = k /\ g[t] # h[t]
    BY <2>1
  <2>3. t \notin Stop
    BY <1>2, <2>2
  <2>4. /\ next[t] \in D /\ m[next[t]] \in Nat /\ m[next[t]] < k
        /\ next[t] \in Upto(n) /\ next[t] \in Upto(p)
    BY <2>2, <2>3
  <2>5. g[next[t]] = h[next[t]]
    <3> SUFFICES ASSUME g[next[t]] # h[next[t]] PROVE FALSE
      OBVIOUS
    <3>1. m[next[t]] \in Bad
      BY <2>4
    <3> QED BY <3>1, <2>1, <2>4
  <2> QED BY <1>2, <2>2, <2>3, <2>5
<1> DEFINE at(n) == CHOOSE g : Good(g, n)
           f == [s \in D |-> at(m[s] + 1)[s]]
<1>3. \A n \in Nat : Good(at(n), n)
  BY <1>1
<1> HIDE DEF at
<1>4. ASSUME NEW s \in D
      PROVE  /\ f[s] \in R
             /\ f[s] = IF s \in Stop THEN base[s] ELSE then[s][f[next[s]]]
  <2>1. m[s] + 1 \in Nat /\ s \in Upto(m[s] + 1)
    OBVIOUS
  <2>2. Good(at(m[s] + 1), m[s] + 1)
    <3> HIDE DEF Good
    <3> QED BY <1>3, <2>1
  <2>3. f[s] \in R
    BY <2>1, <2>2
  <2>4. CASE s \in Stop
    BY <2>1, <2>2, <2>3, <2>4
  <2>5. CASE s \notin Stop
    <3>1. /\ next[s] \in D /\ m[next[s]] + 1 \in Nat
          /\ next[s] \in Upto(m[s] + 1) /\ next[s] \in Upto(m[next[s]] + 1)
      BY <2>1, <2>5
    <3>2. Good(at(m[next[s]] + 1), m[next[s]] + 1)
      <4> HIDE DEF Good
      <4> QED BY <1>3, <3>1
    <3>3. at(m[s] + 1)[next[s]] = at(m[next[s]] + 1)[next[s]]
      <4> HIDE DEF Good, Upto
      <4> QED BY <1>2, <2>1, <2>2, <3>1, <3>2
    <3> QED BY <2>1, <2>2, <2>3, <2>5, <3>1, <3>3
  <2> QED BY <2>3, <2>4, <2>5
<1>5. f \in [D -> R]
  BY <1>4
<1> HIDE DEF f
<1> QED BY <1>4, <1>5

-----------------------------------------------------------------------------
(* Sums over finite sets.                                                  *)

\* The recursion that a sum stands for, on the subsets of S, with its choices.
Some(s) == CHOOSE x \in s : TRUE
Sums(f, w, S) ==
  f = [s \in SUBSET S |-> IF s = {} THEN 0 ELSE w[Some(s)] + f[s \ {Some(s)}]]

\* It is defined.
LEMMA SumDefined ==
  ASSUME NEW S, IsFiniteSet(S), NEW w, \A x \in S : w[x] \in Int
  PROVE  \E f \in [SUBSET S -> Int] : Sums(f, w, S) /\ SumFunctionOnSet(w, S) = f[S]
<1> DEFINE D == SUBSET S
           Stop == {{}}
           m == [s \in D |-> Cardinality(s)]
           next == [s \in D |-> s \ {Some(s)}]
           base == [s \in D |-> 0]
           then == [s \in D |-> [r \in Int |-> IF s = {} THEN 0 ELSE w[Some(s)] + r]]
<1>1. \A s \in D : s # {} => Some(s) \in s
  BY DEF Some
<1>2. \A s \in D : IsFiniteSet(s) /\ Cardinality(s) \in Nat
  BY FS_Subset, FS_CardinalityType
<1>3. m \in [D -> Nat] /\ next \in [D -> D] /\ base \in [D -> Int]
  BY <1>2
<1>4. then \in [D -> [Int -> Int]]
  BY <1>1
<1>5. \A s \in D : s \notin Stop => m[next[s]] < m[s]
  <2> SUFFICES ASSUME NEW s \in D, s # {} PROVE Cardinality(s \ {Some(s)}) < Cardinality(s)
    BY <1>3
  <2>1. Cardinality(s \ {Some(s)}) = Cardinality(s) - 1
    BY <1>1, <1>2, FS_RemoveElement
  <2> QED BY <2>1, <1>2
<1>6. \A s \in D : s \in Stop => base[s] \in Int
  OBVIOUS
<1>7. Descends(D, Int, Stop, base, then, next, m)
  <2> HIDE DEF D, Stop, m, next, base, then
  <2> QED BY <1>3, <1>4, <1>5, <1>6 DEF Descends
<1>8. \E f \in [D -> Int] :
        \A s \in D : f[s] = IF s \in Stop THEN base[s] ELSE then[s][f[next[s]]]
  <2> HIDE DEF D, Stop, m, next, base, then
  <2> QED BY <1>7, LoopFact
<1>9. PICK f \in [D -> Int] :
        \A s \in D : f[s] = IF s \in Stop THEN base[s] ELSE then[s][f[next[s]]]
  BY <1>8
<1>10. \A s \in D : (IF s \in Stop THEN base[s] ELSE then[s][f[next[s]]])
                   = IF s = {} THEN 0 ELSE w[Some(s)] + f[s \ {Some(s)}]
  BY <1>9
<1>11. Sums(f, w, S)
  <2>1. \A s \in D : f[s] = IF s = {} THEN 0 ELSE w[Some(s)] + f[s \ {Some(s)}]
    <3> HIDE DEF base, then, next
    <3> QED BY <1>9, <1>10
  <2> QED BY <2>1 DEF Sums
<1> DEFINE h == CHOOSE g : Sums(g, w, S)
<1>12. Sums(h, w, S)
  BY <1>11
<1>13. SumFunctionOnSet(w, S) = h[S]
  BY DEF SumFunctionOnSet, FoldFunctionOnSet, MapThenFoldSet, Sums, Some
<1>14. h = f
  <2> HIDE DEF h
  <2> DEFINE P == {s \in D : h[s] = f[s]}
  <2>1. \A s \in D : /\ h[s] = IF s = {} THEN 0 ELSE w[Some(s)] + h[s \ {Some(s)}]
                     /\ f[s] = IF s = {} THEN 0 ELSE w[Some(s)] + f[s \ {Some(s)}]
    BY <1>11, <1>12 DEF Sums
  <2>2. \A n \in Nat : \A s \in D : Cardinality(s) = n => h[s] = f[s]
    <3> SUFFICES ASSUME NEW p \in Nat, NEW t \in D, Cardinality(t) = p, h[t] # f[t] PROVE FALSE
      OBVIOUS
    <3> DEFINE Bad == {n \in Nat : \E s \in D : Cardinality(s) = n /\ h[s] # f[s]}
    <3>1. PICK n \in Bad : \A k \in Bad : n <= k
      <4>1. p \in Bad /\ Bad \subseteq Nat
        OBVIOUS
      <4> HIDE DEF Bad
      <4> QED BY <4>1, LeastFact
    <3>2. PICK s \in D : Cardinality(s) = n /\ h[s] # f[s]
      BY <3>1
    <3>3. s # {}
      BY <2>1, <3>2
    <3>4. /\ s \ {Some(s)} \in D /\ Cardinality(s \ {Some(s)}) = n - 1
          /\ n - 1 \in Nat /\ n \in Nat
      <4>1. Cardinality(s \ {Some(s)}) = Cardinality(s) - 1
        BY <1>1, <1>2, <3>3, FS_RemoveElement
      <4>2. s \ {Some(s)} \in D
        OBVIOUS
      <4>3. Cardinality(s \ {Some(s)}) \in Nat /\ Cardinality(s) \in Nat
        BY <1>2, <4>2
      <4> QED BY <3>2, <4>1, <4>2, <4>3
    <3>5. h[s \ {Some(s)}] = f[s \ {Some(s)}]
      <4>1. n - 1 \notin Bad
        <5> HIDE DEF Bad
        <5> QED BY <3>1, <3>4
      <4> QED BY <4>1, <3>4
    <3> QED BY <2>1, <3>2, <3>3, <3>5
  <2>3. \A s \in D : h[s] = f[s]
    BY <2>2, <1>2
  <2> QED BY <2>3, <1>11, <1>12 DEF Sums
<1> QED BY <1>9, <1>11, <1>13, <1>14

\* A sum of nothing, and a sum without the first element chosen.
LEMMA SumNone == \A w : SumFunctionOnSet(w, {}) = 0
<1> SUFFICES ASSUME NEW w PROVE SumFunctionOnSet(w, {}) = 0
  OBVIOUS
<1>1. PICK f \in [SUBSET {} -> Int] : Sums(f, w, {}) /\ SumFunctionOnSet(w, {}) = f[{}]
  BY SumDefined, FS_EmptySet
<1> QED BY <1>1 DEF Sums

LEMMA SumChosen ==
  ASSUME NEW S, IsFiniteSet(S), S # {}, NEW w, \A x \in S : w[x] \in Int
  PROVE  /\ SumFunctionOnSet(w, S) \in Int
         /\ SumFunctionOnSet(w, S) = w[Some(S)] + SumFunctionOnSet(w, S \ {Some(S)})
<1> DEFINE R == S \ {Some(S)}
<1>0. Some(S) \in S /\ IsFiniteSet(R)
  BY FS_Subset DEF Some
<1>1. PICK f \in [SUBSET S -> Int] : Sums(f, w, S) /\ SumFunctionOnSet(w, S) = f[S]
  BY SumDefined
<1>2. PICK g \in [SUBSET R -> Int] : Sums(g, w, R) /\ SumFunctionOnSet(w, R) = g[R]
  <2>1. \A x \in R : w[x] \in Int
    OBVIOUS
  <2> HIDE DEF R
  <2> QED BY <1>0, <2>1, SumDefined
<1>3. \A s \in SUBSET R : /\ f[s] = IF s = {} THEN 0 ELSE w[Some(s)] + f[s \ {Some(s)}]
                          /\ g[s] = IF s = {} THEN 0 ELSE w[Some(s)] + g[s \ {Some(s)}]
  BY <1>1, <1>2 DEF Sums
<1>4. \A s \in SUBSET R : f[s] = g[s]
  <2> SUFFICES ASSUME NEW t \in SUBSET R, f[t] # g[t] PROVE FALSE
    OBVIOUS
  <2>0. \A s \in SUBSET R : IsFiniteSet(s) /\ Cardinality(s) \in Nat
    BY <1>0, FS_Subset, FS_CardinalityType
  <2> DEFINE Bad == {n \in Nat : \E s \in SUBSET R : Cardinality(s) = n /\ f[s] # g[s]}
  <2>1. PICK n \in Bad : \A k \in Bad : n <= k
    <3>1. Cardinality(t) \in Bad /\ Bad \subseteq Nat
      BY <2>0
    <3> HIDE DEF Bad
    <3> QED BY <3>1, LeastFact
  <2>2. PICK s \in SUBSET R : Cardinality(s) = n /\ f[s] # g[s]
    BY <2>1
  <2>3. s # {} /\ Some(s) \in s
    <3>1. s # {}
      BY <1>3, <2>2
    <3> QED BY <3>1 DEF Some
  <2>4. /\ s \ {Some(s)} \in SUBSET R /\ Cardinality(s \ {Some(s)}) = n - 1
        /\ n - 1 \in Nat /\ n \in Nat
    <3>1. Cardinality(s \ {Some(s)}) = Cardinality(s) - 1
      BY <2>0, <2>3, FS_RemoveElement
    <3>2. s \ {Some(s)} \in SUBSET R
      OBVIOUS
    <3>3. Cardinality(s \ {Some(s)}) \in Nat /\ Cardinality(s) \in Nat
      BY <2>0, <3>2
    <3> QED BY <2>2, <3>1, <3>2, <3>3
  <2>5. f[s \ {Some(s)}] = g[s \ {Some(s)}]
    <3>1. n - 1 \notin Bad
      <4> HIDE DEF Bad
      <4> QED BY <2>1, <2>4
    <3> QED BY <3>1, <2>4
  <2> QED BY <1>3, <2>2, <2>3, <2>5
<1>5. f[S] = w[Some(S)] + f[R]
  BY <1>1 DEF Sums
<1>6. f[R] = g[R] /\ f[S] \in Int
  BY <1>4, <1>1
<1> QED BY <1>1, <1>2, <1>5, <1>6

\* A sum is an integer, and its terms come in any order.
LEMMA SumInt ==
  ASSUME NEW S, IsFiniteSet(S), NEW w, \A x \in S : w[x] \in Int
  PROVE  SumFunctionOnSet(w, S) \in Int
<1>1. CASE S = {}
  BY <1>1, SumNone
<1>2. CASE S # {}
  BY <1>2, SumChosen
<1> QED BY <1>1, <1>2

LEMMA SumLess ==
  ASSUME NEW S, IsFiniteSet(S), NEW w, \A x \in S : w[x] \in Int
  PROVE  \A x \in S : SumFunctionOnSet(w, S) = w[x] + SumFunctionOnSet(w, S \ {x})
<1> DEFINE P == {T \in SUBSET S :
                   \A x \in T : SumFunctionOnSet(w, T) = w[x] + SumFunctionOnSet(w, T \ {x})}
<1>1. \A T \in SUBSET S : /\ IsFiniteSet(T) /\ Cardinality(T) \in Nat
                          /\ SumFunctionOnSet(w, T) \in Int
  BY FS_Subset, FS_CardinalityType, SumInt
<1> SUFFICES ASSUME NEW U \in SUBSET S, U \notin P PROVE FALSE
  OBVIOUS
<1> DEFINE Bad == {n \in Nat : \E T \in SUBSET S : T \notin P /\ Cardinality(T) = n}
<1>2. PICK n \in Bad : \A k \in Bad : n <= k
  <2>1. Cardinality(U) \in Bad
    BY <1>1
  <2>2. Bad \subseteq Nat
    OBVIOUS
  <2> HIDE DEF Bad
  <2> QED BY <2>1, <2>2, LeastFact
<1>3. PICK T \in SUBSET S : T \notin P /\ Cardinality(T) = n
  BY <1>2
<1>4. PICK x \in T : SumFunctionOnSet(w, T) # w[x] + SumFunctionOnSet(w, T \ {x})
  BY <1>3
<1> DEFINE y == Some(T)
<1>5. /\ y \in T /\ SumFunctionOnSet(w, T) = w[y] + SumFunctionOnSet(w, T \ {y})
  BY <1>1, <1>4, SumChosen DEF Some
<1> HIDE DEF y
<1>6. x # y
  BY <1>4, <1>5
<1>7. ASSUME NEW z \in T PROVE T \ {z} \in P
  <2>1. Cardinality(T \ {z}) = n - 1 /\ n \in Nat /\ T \ {z} \in SUBSET S
    BY <1>1, <1>2, <1>3, FS_RemoveElement
  <2>2. Cardinality(T \ {z}) \in Nat
    BY <1>1
  <2> SUFFICES ASSUME T \ {z} \notin P PROVE FALSE
    OBVIOUS
  <2>3. n - 1 \in Bad
    BY <2>1, <2>2
  <2> HIDE DEF Bad
  <2> QED BY <1>2, <2>1, <2>3
<1>8. SumFunctionOnSet(w, T \ {y}) = w[x] + SumFunctionOnSet(w, (T \ {y}) \ {x})
  <2>1. T \ {y} \in P
    BY <1>5, <1>7
  <2> QED BY <2>1, <1>6
<1>9. SumFunctionOnSet(w, T \ {x}) = w[y] + SumFunctionOnSet(w, (T \ {x}) \ {y})
  <2>1. T \ {x} \in P
    BY <1>7
  <2> QED BY <2>1, <1>5, <1>6
<1>10. SumFunctionOnSet(w, (T \ {x}) \ {y}) = SumFunctionOnSet(w, (T \ {y}) \ {x})
  <2>1. (T \ {x}) \ {y} = (T \ {y}) \ {x}
    OBVIOUS
  <2> QED BY <2>1
<1>11. /\ w[x] \in Int /\ w[y] \in Int
       /\ SumFunctionOnSet(w, (T \ {y}) \ {x}) \in Int
  BY <1>1, <1>5
<1> HIDE DEF P, Bad
<1> QED BY <1>4, <1>5, <1>8, <1>9, <1>10, <1>11

\* One more term.
LEMMA SumMore ==
  ASSUME NEW S, IsFiniteSet(S), NEW w, \A x \in S : w[x] \in Int,
         NEW x, x \notin S, w[x] \in Int
  PROVE  SumFunctionOnSet(w, S \union {x}) = w[x] + SumFunctionOnSet(w, S)
<1>1. IsFiniteSet(S \union {x}) /\ (S \union {x}) \ {x} = S
  BY FS_AddElement
<1> QED BY <1>1, SumLess

\* The same terms, the same sum.
LEMMA SumSame ==
  ASSUME NEW S, IsFiniteSet(S), NEW v, NEW w, \A x \in S : w[x] \in Int /\ v[x] = w[x]
  PROVE  SumFunctionOnSet(v, S) = SumFunctionOnSet(w, S)
<1> DEFINE P == {T \in SUBSET S : SumFunctionOnSet(v, T) = SumFunctionOnSet(w, T)}
<1>1. {} \in P
  BY SumNone
<1>2. ASSUME NEW T \in SUBSET S, NEW x \in S, T \in P, x \notin T PROVE T \union {x} \in P
  <2>1. IsFiniteSet(T) /\ (\A y \in T : v[y] \in Int /\ w[y] \in Int) /\ v[x] \in Int
    BY FS_Subset
  <2>2. /\ SumFunctionOnSet(v, T \union {x}) = v[x] + SumFunctionOnSet(v, T)
        /\ SumFunctionOnSet(w, T \union {x}) = w[x] + SumFunctionOnSet(w, T)
    BY <1>2, <2>1, SumMore
  <2> QED BY <1>2, <2>2
<1>3. S \in P
  <2> HIDE DEF P
  <2> QED BY <1>1, <1>2, SetInduction
<1> QED BY <1>3

\* Terms that are nothing may be left out.
LEMMA SumPart ==
  ASSUME NEW S, IsFiniteSet(S), NEW R \in SUBSET S, NEW w, \A x \in S : w[x] \in Int,
         \A x \in S \ R : w[x] = 0
  PROVE  SumFunctionOnSet(w, S) = SumFunctionOnSet(w, R)
<1> DEFINE P == {T \in SUBSET S : SumFunctionOnSet(w, T) = SumFunctionOnSet(w, T \intersect R)}
<1>1. {} \in P
  <2>1. {} \intersect R = {}
    OBVIOUS
  <2> QED BY <2>1
<1>2. ASSUME NEW T \in SUBSET S, NEW x \in S, T \in P, x \notin T PROVE T \union {x} \in P
  <2>1. IsFiniteSet(T) /\ IsFiniteSet(T \intersect R) /\ T \intersect R \in SUBSET S
    BY FS_Subset
  <2>2. /\ SumFunctionOnSet(w, T \union {x}) = w[x] + SumFunctionOnSet(w, T)
        /\ SumFunctionOnSet(w, T) \in Int
    BY <1>2, <2>1, SumMore, SumInt
  <2>3. CASE x \in R
    <3>1. (T \union {x}) \intersect R = (T \intersect R) \union {x} /\ x \notin T \intersect R
      BY <1>2, <2>3
    <3>2. SumFunctionOnSet(w, (T \intersect R) \union {x})
            = w[x] + SumFunctionOnSet(w, T \intersect R)
      BY <2>1, <3>1, SumMore
    <3> QED BY <1>2, <2>2, <3>1, <3>2
  <2>4. CASE x \notin R
    <3>1. (T \union {x}) \intersect R = T \intersect R
      BY <2>4
    <3>2. SumFunctionOnSet(w, (T \union {x}) \intersect R) = SumFunctionOnSet(w, T \intersect R)
      BY <3>1
    <3>3. w[x] = 0 /\ SumFunctionOnSet(w, T \union {x}) = SumFunctionOnSet(w, T)
      BY <2>2, <2>4
    <3> QED BY <1>2, <3>2, <3>3
  <2> QED BY <2>3, <2>4
<1>3. S \in P
  <2> HIDE DEF P
  <2> QED BY <1>1, <1>2, SetInduction
<1>4. S \intersect R = R
  OBVIOUS
<1> QED BY <1>3, <1>4

\* A sum of ones counts.
LEMMA SumOnes ==
  ASSUME NEW S, IsFiniteSet(S), NEW w, \A x \in S : w[x] = 1
  PROVE  SumFunctionOnSet(w, S) = Cardinality(S)
<1> DEFINE P == {T \in SUBSET S : SumFunctionOnSet(w, T) = Cardinality(T)}
<1>1. {} \in P
  BY SumNone, FS_EmptySet
<1>2. ASSUME NEW T \in SUBSET S, NEW x \in S, T \in P, x \notin T PROVE T \union {x} \in P
  <2>1. IsFiniteSet(T) /\ (\A y \in T : w[y] \in Int) /\ w[x] \in Int
    BY FS_Subset
  <2>2. SumFunctionOnSet(w, T \union {x}) = w[x] + SumFunctionOnSet(w, T)
    BY <1>2, <2>1, SumMore
  <2>3. Cardinality(T \union {x}) = Cardinality(T) + 1 /\ Cardinality(T) \in Nat
    BY <1>2, <2>1, FS_AddElement, FS_CardinalityType
  <2> QED BY <1>2, <2>2, <2>3
<1>3. S \in P
  <2> HIDE DEF P
  <2> QED BY <1>1, <1>2, SetInduction
<1> QED BY <1>3

\* The values of a function on a finite set are finitely many.
LEMMA ValuesFinite ==
  ASSUME NEW S, IsFiniteSet(S), NEW f
  PROVE  IsFiniteSet({f[x] : x \in S})
<1> DEFINE T == {f[x] : x \in S}
           g == [x \in S |-> f[x]]
<1>1. g \in Surjection(S, T)
  <2>1. g \in [S -> T]
    OBVIOUS
  <2>2. \A t \in T : \E x \in S : g[x] = t
    OBVIOUS
  <2> HIDE DEF g, T
  <2> QED BY <2>1, <2>2 DEF Surjection
<1> HIDE DEF g
<1> QED BY <1>1, FS_Surjection

\* A sum of two weighed functions.
Combines(w, S, a, u, b, v) ==
  /\ a \in Int /\ b \in Int
  /\ \A x \in S : u[x] \in Int /\ v[x] \in Int /\ w[x] = a * u[x] + b * v[x]

LEMMA SumLinear ==
  ASSUME NEW S, IsFiniteSet(S), NEW w, NEW a, NEW u, NEW b, NEW v, Combines(w, S, a, u, b, v)
  PROVE  SumFunctionOnSet(w, S) = a * SumFunctionOnSet(u, S) + b * SumFunctionOnSet(v, S)
<1>0. /\ a \in Int /\ b \in Int
      /\ \A x \in S : u[x] \in Int /\ v[x] \in Int /\ w[x] = a * u[x] + b * v[x]
  BY DEF Combines
<1> DEFINE P == {T \in SUBSET S : SumFunctionOnSet(w, T)
                   = a * SumFunctionOnSet(u, T) + b * SumFunctionOnSet(v, T)}
<1>1. {} \in P
  BY <1>0, SumNone
<1>2. ASSUME NEW T \in SUBSET S, NEW x \in S, T \in P, x \notin T PROVE T \union {x} \in P
  <2>1. IsFiniteSet(T)
    BY FS_Subset
  <2>2. \A y \in T : w[y] \in Int /\ u[y] \in Int /\ v[y] \in Int
    BY <1>0
  <2>3. w[x] \in Int /\ u[x] \in Int /\ v[x] \in Int /\ w[x] = a * u[x] + b * v[x]
    BY <1>0
  <2>4. /\ SumFunctionOnSet(w, T \union {x}) = w[x] + SumFunctionOnSet(w, T)
        /\ SumFunctionOnSet(u, T \union {x}) = u[x] + SumFunctionOnSet(u, T)
        /\ SumFunctionOnSet(v, T \union {x}) = v[x] + SumFunctionOnSet(v, T)
    BY <1>2, <2>1, <2>2, <2>3, SumMore
  <2>5. SumFunctionOnSet(u, T) \in Int /\ SumFunctionOnSet(v, T) \in Int
    BY <2>1, <2>2, SumInt
  <2>6. SumFunctionOnSet(w, T) = a * SumFunctionOnSet(u, T) + b * SumFunctionOnSet(v, T)
    BY <1>2
  <2>7. SumFunctionOnSet(w, T \union {x})
          = a * (u[x] + SumFunctionOnSet(u, T)) + b * (v[x] + SumFunctionOnSet(v, T))
    BY <1>0, <2>3, <2>4, <2>5, <2>6
  <2> QED BY <2>4, <2>7
<1>3. S \in P
  <2> HIDE DEF P
  <2> QED BY <1>1, <1>2, SetInduction
<1> QED BY <1>3

\* A sum taken in two parts.
LEMMA SumSplit ==
  ASSUME NEW A, IsFiniteSet(A), NEW B, IsFiniteSet(B), A \intersect B = {},
         NEW w, \A x \in A \union B : w[x] \in Int
  PROVE  SumFunctionOnSet(w, A \union B) = SumFunctionOnSet(w, A) + SumFunctionOnSet(w, B)
<1> DEFINE P == {T \in SUBSET B : SumFunctionOnSet(w, A \union T)
                                    = SumFunctionOnSet(w, A) + SumFunctionOnSet(w, T)}
<1>0. SumFunctionOnSet(w, A) \in Int
  BY SumInt
<1>1. {} \in P
  <2>1. A \union {} = A
    OBVIOUS
  <2> QED BY <1>0, <2>1, SumNone
<1>2. ASSUME NEW T \in SUBSET B, NEW x \in B, T \in P, x \notin T PROVE T \union {x} \in P
  <2>1. IsFiniteSet(T) /\ IsFiniteSet(A \union T) /\ w[x] \in Int
    BY FS_Subset, FS_Union
  <2>2. (\A y \in T : w[y] \in Int) /\ (\A y \in A \union T : w[y] \in Int)
    OBVIOUS
  <2>3. x \notin A \union T /\ A \union (T \union {x}) = (A \union T) \union {x}
    BY <1>2
  <2>4. SumFunctionOnSet(w, (A \union T) \union {x}) = w[x] + SumFunctionOnSet(w, A \union T)
    BY <2>1, <2>2, <2>3, SumMore
  <2>5. SumFunctionOnSet(w, T \union {x}) = w[x] + SumFunctionOnSet(w, T)
    BY <1>2, <2>1, <2>2, SumMore
  <2>6. SumFunctionOnSet(w, T) \in Int
    BY <2>1, <2>2, SumInt
  <2>7. SumFunctionOnSet(w, A \union (T \union {x}))
          = SumFunctionOnSet(w, (A \union T) \union {x})
    BY <2>3
  <2> QED BY <1>0, <1>2, <2>1, <2>4, <2>5, <2>6, <2>7
<1>3. B \in P
  <2> HIDE DEF P
  <2> QED BY <1>1, <1>2, SetInduction
<1> QED BY <1>3

\* A sum over other names of the same elements.
Renames(v, T, w, S, r) ==
  /\ T = {r[x] : x \in S}
  /\ \A x \in S : w[x] \in Int /\ v[r[x]] = w[x]
  /\ \A x, y \in S : r[x] = r[y] => x = y

LEMMA SumRenamed ==
  ASSUME NEW S, IsFiniteSet(S), NEW T, NEW v, NEW w, NEW r, Renames(v, T, w, S, r)
  PROVE  SumFunctionOnSet(v, T) = SumFunctionOnSet(w, S)
<1>0. /\ T = {r[x] : x \in S}
      /\ \A x \in S : w[x] \in Int /\ v[r[x]] = w[x]
      /\ \A x, y \in S : r[x] = r[y] => x = y
  BY DEF Renames
<1> DEFINE Image(U) == {r[x] : x \in U}
           P == {U \in SUBSET S :
                   SumFunctionOnSet(v, Image(U)) = SumFunctionOnSet(w, U)}
<1>1. {} \in P
  <2>1. Image({}) = {}
    OBVIOUS
  <2> QED BY <2>1, SumNone
<1>2. ASSUME NEW U \in SUBSET S, NEW x \in S, U \in P, x \notin U PROVE U \union {x} \in P
  <2>1. IsFiniteSet(U) /\ \A y \in U : w[y] \in Int
    BY <1>0, FS_Subset
  <2>2. IsFiniteSet(Image(U))
    <3> HIDE DEF P
    <3> QED BY <2>1, ValuesFinite
  <2>3. /\ \A z \in Image(U) : v[z] \in Int
        /\ r[x] \notin Image(U) /\ v[r[x]] = w[x] /\ w[x] \in Int
    BY <1>0, <1>2
  <2>4. Image(U \union {x}) = Image(U) \union {r[x]}
    OBVIOUS
  <2>5. SumFunctionOnSet(w, U \union {x}) = w[x] + SumFunctionOnSet(w, U)
    BY <1>2, <2>1, <2>3, SumMore
  <2>6. SumFunctionOnSet(v, Image(U) \union {r[x]})
          = v[r[x]] + SumFunctionOnSet(v, Image(U))
    <3> HIDE DEF Image
    <3> QED BY <2>2, <2>3, SumMore
  <2>7. SumFunctionOnSet(v, Image(U)) = SumFunctionOnSet(w, U)
    BY <1>2
  <2>8. SumFunctionOnSet(v, Image(U \union {x})) = SumFunctionOnSet(w, U \union {x})
    <3> HIDE DEF Image
    <3> QED BY <2>3, <2>4, <2>5, <2>6, <2>7
  <2> QED BY <2>8
<1>3. S \in P
  <2> HIDE DEF P
  <2> QED BY <1>1, <1>2, SetInduction
<1>4. SumFunctionOnSet(v, Image(S)) = SumFunctionOnSet(w, S)
  BY <1>3
<1> QED BY <1>0, <1>4

\* A sum of sums: of the elements of S by the group, of A, they are in.
Grouped(w, S, A, g, c) ==
  /\ \A x \in S : w[x] \in Int /\ g[x] \in A
  /\ \A a \in A : c[a] = SumFunctionOnSet(w, {x \in S : g[x] = a})

LEMMA SumGrouped ==
  ASSUME NEW S, IsFiniteSet(S), NEW A, IsFiniteSet(A), NEW w, NEW g, NEW c,
         Grouped(w, S, A, g, c)
  PROVE  SumFunctionOnSet(w, S) = SumFunctionOnSet(c, A)
<1>0. /\ \A x \in S : w[x] \in Int /\ g[x] \in A
      /\ \A a \in A : c[a] = SumFunctionOnSet(w, {x \in S : g[x] = a})
  BY DEF Grouped
<1> DEFINE Of(T) == {x \in S : g[x] \in T}
           P == {T \in SUBSET A : SumFunctionOnSet(w, Of(T)) = SumFunctionOnSet(c, T)}
<1>1. {} \in P
  <2>1. Of({}) = {}
    OBVIOUS
  <2> QED BY <2>1, SumNone
<1>2. ASSUME NEW T \in SUBSET A, NEW a \in A, T \in P, a \notin T PROVE T \union {a} \in P
  <2> DEFINE one == {x \in S : g[x] = a}
  <2>1. IsFiniteSet(T) /\ IsFiniteSet(Of(T)) /\ IsFiniteSet(one)
    BY FS_Subset
  <2>2. \A b \in A : c[b] \in Int
    <3> SUFFICES ASSUME NEW b \in A PROVE c[b] \in Int
      OBVIOUS
    <3> DEFINE B == {x \in S : g[x] = b}
    <3>1. IsFiniteSet(B) /\ \A x \in B : w[x] \in Int
      BY <1>0, FS_Subset
    <3>2. c[b] = SumFunctionOnSet(w, B)
      BY <1>0
    <3> HIDE DEF B
    <3> QED BY <3>1, <3>2, SumInt
  <2>3. SumFunctionOnSet(c, T \union {a}) = c[a] + SumFunctionOnSet(c, T)
    BY <1>2, <2>1, <2>2, SumMore
  <2>4. Of(T \union {a}) = Of(T) \union one /\ Of(T) \intersect one = {}
    BY <1>2
  <2>5. \A x \in Of(T) \union one : w[x] \in Int
    BY <1>0
  <2>6. c[a] = SumFunctionOnSet(w, one)
    BY <1>0
  <2>7. SumFunctionOnSet(w, Of(T)) = SumFunctionOnSet(c, T)
    BY <1>2
  <2>8. SumFunctionOnSet(w, Of(T \union {a})) = SumFunctionOnSet(c, T \union {a})
    <3>1. \A x \in Of(T) : w[x] \in Int
      BY <1>0
    <3> HIDE DEF Of, one
    <3>2. SumFunctionOnSet(w, Of(T) \union one)
            = SumFunctionOnSet(w, Of(T)) + SumFunctionOnSet(w, one)
      BY <2>1, <2>4, <2>5, SumSplit
    <3>3. SumFunctionOnSet(w, Of(T)) \in Int /\ c[a] \in Int
      BY <2>1, <2>2, <3>1, SumInt
    <3>4. SumFunctionOnSet(w, Of(T \union {a})) = SumFunctionOnSet(w, Of(T) \union one)
      BY <2>4
    <3>5. SumFunctionOnSet(w, Of(T) \union one) = SumFunctionOnSet(c, T) + c[a]
      BY <2>6, <2>7, <3>2
    <3>6. SumFunctionOnSet(c, T) \in Int
      BY <2>7, <3>3
    <3> QED BY <2>3, <3>3, <3>4, <3>5, <3>6
  <2> QED BY <2>8
<1>3. A \in P
  <2> HIDE DEF P
  <2> QED BY <1>1, <1>2, SetInduction
<1>4. Of(A) = S
  BY <1>0
<1> QED BY <1>3, <1>4

\* A sum over pairs.
LEMMA SumPairs ==
  ASSUME NEW A, IsFiniteSet(A), NEW B, IsFiniteSet(B), NEW w,
         \A e \in A \X B : w[e] \in Int
  PROVE  SumFunctionOnSet(w, A \X B)
           = SumFunctionOnSet([a \in A |-> SumFunctionOnSet([b \in B |-> w[<<a, b>>]], B)], A)
<1> DEFINE S == A \X B
           g == [e \in S |-> e[1]]
           row(a) == [b \in B |-> w[<<a, b>>]]
           c == [a \in A |-> SumFunctionOnSet(row(a), B)]
<1>1. IsFiniteSet(S)
  BY FS_Product
<1>2. ASSUME NEW a \in A
      PROVE  c[a] = SumFunctionOnSet(w, {e \in S : g[e] = a})
  <2> DEFINE T == {e \in S : g[e] = a}
             r == [b \in B |-> <<a, b>>]
  <2>1. T = {r[b] : b \in B}
    OBVIOUS
  <2>2. \A b \in B : row(a)[b] \in Int /\ w[r[b]] = row(a)[b]
    OBVIOUS
  <2>3. \A x, y \in B : r[x] = r[y] => x = y
    OBVIOUS
  <2>4. Renames(w, T, row(a), B, r)
    <3> HIDE DEF T, r, row
    <3> QED BY <2>1, <2>2, <2>3 DEF Renames
  <2>5. SumFunctionOnSet(w, T) = SumFunctionOnSet(row(a), B)
    <3> HIDE DEF T, r, row
    <3> QED BY <2>4, SumRenamed
  <2> HIDE DEF row, T
  <2> QED BY <2>5 DEF T
<1>3. Grouped(w, S, A, g, c)
  <2>1. \A e \in S : w[e] \in Int /\ g[e] \in A
    OBVIOUS
  <2> HIDE DEF S, g, c
  <2> QED BY <1>2, <2>1 DEF Grouped
<1> HIDE DEF S, g, c
<1>4. SumFunctionOnSet(w, S) = SumFunctionOnSet(c, A)
  BY <1>1, <1>3, SumGrouped
<1> QED BY <1>4 DEF S, c

\* Amounts p on S, gathered by the group g into amounts a on A.
Gathers(S, A, g, p, a) ==
  /\ \A x \in S : p[x] \in Int /\ g[x] \in A
  /\ \A i \in A : a[i] = SumFunctionOnSet(p, {x \in S : g[x] = i})

\* A linear form of the amounts, and a quadratic one.
Linearly(w, v, S, A, g, p, a, c) ==
  /\ Gathers(S, A, g, p, a)
  /\ \A i \in A : c[i] \in Int /\ v[i] = a[i] * c[i]
  /\ \A x \in S : w[x] = p[x] * c[g[x]]
Pairwise(w, v, S, A, g, p, a, c) ==
  /\ Gathers(S, A, g, p, a)
  /\ \A i, j \in A : c[<<i, j>>] \in Int /\ v[<<i, j>>] = a[i] * a[j] * c[<<i, j>>]
  /\ \A x, y \in S : w[<<x, y>>] = p[x] * p[y] * c[<<g[x], g[y]>>]

LEMMA GatheredInt ==
  ASSUME NEW S, IsFiniteSet(S), NEW A, NEW g, NEW p, NEW a, Gathers(S, A, g, p, a)
  PROVE  \A i \in A : a[i] \in Int
<1> SUFFICES ASSUME NEW i \in A PROVE a[i] \in Int
  OBVIOUS
<1> DEFINE B == {x \in S : g[x] = i}
<1>1. IsFiniteSet(B) /\ \A x \in B : p[x] \in Int
  BY FS_Subset DEF Gathers
<1>2. a[i] = SumFunctionOnSet(p, B)
  BY DEF Gathers
<1> HIDE DEF B
<1> QED BY <1>1, <1>2, SumInt

\* The forms are the same in the gathered amounts.
LEMMA GatheredSum ==
  ASSUME NEW S, IsFiniteSet(S), NEW A, IsFiniteSet(A), NEW w, NEW v, NEW g, NEW p, NEW a,
         NEW c, Linearly(w, v, S, A, g, p, a, c)
  PROVE  SumFunctionOnSet(w, S) = SumFunctionOnSet(v, A)
<1>0. /\ Gathers(S, A, g, p, a)
      /\ \A i \in A : c[i] \in Int /\ v[i] = a[i] * c[i]
      /\ \A x \in S : p[x] \in Int /\ g[x] \in A /\ w[x] = p[x] * c[g[x]]
      /\ \A i \in A : a[i] = SumFunctionOnSet(p, {x \in S : g[x] = i})
  BY DEF Linearly, Gathers
<1>1. \A x \in S : w[x] \in Int /\ g[x] \in A
  BY <1>0
<1>2. ASSUME NEW i \in A
      PROVE  v[i] = SumFunctionOnSet(w, {x \in S : g[x] = i})
  <2> DEFINE B == {x \in S : g[x] = i}
  <2>1. IsFiniteSet(B)
    BY FS_Subset
  <2>2. Combines(w, B, c[i], p, 0, p)
    <3>1. \A x \in B : p[x] \in Int /\ w[x] = c[i] * p[x] + 0 * p[x]
      BY <1>0
    <3>2. c[i] \in Int /\ 0 \in Int
      BY <1>0
    <3> HIDE DEF B
    <3> QED BY <3>1, <3>2 DEF Combines
  <2>3. a[i] = SumFunctionOnSet(p, B) /\ a[i] \in Int /\ c[i] \in Int
    BY <1>0, GatheredInt
  <2>4. SumFunctionOnSet(w, B) = c[i] * SumFunctionOnSet(p, B) + 0 * SumFunctionOnSet(p, B)
    <3> HIDE DEF B
    <3> QED BY <2>1, <2>2, SumLinear
  <2>5. v[i] = SumFunctionOnSet(w, B)
    <3> HIDE DEF B
    <3> QED BY <1>0, <2>3, <2>4
  <2> QED BY <2>5
<1>3. Grouped(w, S, A, g, v)
  BY <1>1, <1>2 DEF Grouped
<1> QED BY <1>3, SumGrouped

LEMMA GatheredPairs ==
  ASSUME NEW S, IsFiniteSet(S), NEW A, IsFiniteSet(A), NEW w, NEW v, NEW g, NEW p, NEW a,
         NEW c, Pairwise(w, v, S, A, g, p, a, c)
  PROVE  SumFunctionOnSet(w, S \X S) = SumFunctionOnSet(v, A \X A)
<1>0. /\ Gathers(S, A, g, p, a)
      /\ \A i, j \in A : c[<<i, j>>] \in Int /\ v[<<i, j>>] = a[i] * a[j] * c[<<i, j>>]
      /\ \A x, y \in S : w[<<x, y>>] = p[x] * p[y] * c[<<g[x], g[y]>>]
      /\ \A x \in S : p[x] \in Int /\ g[x] \in A
      /\ \A i \in A : a[i] \in Int
  <2>1. Gathers(S, A, g, p, a)
    BY DEF Pairwise
  <2>2. \A i \in A : a[i] \in Int
    BY <2>1, GatheredInt
  <2> QED BY <2>1, <2>2 DEF Pairwise, Gathers
<1> DEFINE rowS(x) == [y \in S |-> w[<<x, y>>]]
           rowA(i) == [j \in A |-> v[<<i, j>>]]
           half(i) == [j \in A |-> a[j] * c[<<i, j>>]]
           f == [x \in S |-> SumFunctionOnSet(rowS(x), S)]
           h == [i \in A |-> SumFunctionOnSet(rowA(i), A)]
           d == [i \in A |-> SumFunctionOnSet(half(i), A)]
<1>1. SumFunctionOnSet(w, S \X S) = SumFunctionOnSet(f, S)
  <2>1. \A e \in S \X S : w[e] \in Int
    <3>1. ASSUME NEW x \in S, NEW y \in S PROVE w[<<x, y>>] \in Int
      <4>1. p[x] \in Int /\ p[y] \in Int /\ c[<<g[x], g[y]>>] \in Int
        BY <1>0
      <4> QED BY <1>0, <4>1
    <3> QED BY <3>1
  <2> QED BY <2>1, SumPairs
<1>2. SumFunctionOnSet(v, A \X A) = SumFunctionOnSet(h, A)
  <2>1. \A e \in A \X A : v[e] \in Int
    <3>1. ASSUME NEW i \in A, NEW j \in A PROVE v[<<i, j>>] \in Int
      <4>1. a[i] \in Int /\ a[j] \in Int /\ c[<<i, j>>] \in Int
        BY <1>0
      <4> QED BY <1>0, <4>1
    <3> QED BY <3>1
  <2> QED BY <2>1, SumPairs
<1>3. ASSUME NEW i \in A
      PROVE  d[i] \in Int /\ h[i] = a[i] * d[i]
  <2>1. \A j \in A : half(i)[j] \in Int
    BY <1>0
  <2>2. SumFunctionOnSet(half(i), A) \in Int
    <3> HIDE DEF half
    <3> QED BY <2>1, SumInt
  <2>3. Combines(rowA(i), A, a[i], half(i), 0, half(i))
    <3>1. \A j \in A : rowA(i)[j] = a[i] * half(i)[j] + 0 * half(i)[j]
      BY <1>0
    <3>2. a[i] \in Int /\ 0 \in Int
      BY <1>0
    <3> HIDE DEF half, rowA
    <3> QED BY <2>1, <3>1, <3>2 DEF Combines
  <2>4. SumFunctionOnSet(rowA(i), A)
          = a[i] * SumFunctionOnSet(half(i), A) + 0 * SumFunctionOnSet(half(i), A)
    <3> HIDE DEF half, rowA
    <3> QED BY <2>3, SumLinear
  <2>5. a[i] \in Int /\ d[i] = SumFunctionOnSet(half(i), A)
        /\ h[i] = SumFunctionOnSet(rowA(i), A)
    BY <1>0
  <2> HIDE DEF half, rowA, d, h
  <2> QED BY <2>2, <2>4, <2>5
<1>4. ASSUME NEW x \in S
      PROVE  f[x] = p[x] * d[g[x]]
  <2> DEFINE part == [y \in S |-> p[y] * c[<<g[x], g[y]>>]]
             cx == [j \in A |-> c[<<g[x], j>>]]
  <2>0. p[x] \in Int /\ g[x] \in A
    BY <1>0
  <2>1. SumFunctionOnSet(part, S) = SumFunctionOnSet(half(g[x]), A)
    <3>1. \A j \in A : cx[j] \in Int /\ half(g[x])[j] = a[j] * cx[j]
      BY <1>0, <2>0
    <3>2. \A y \in S : part[y] = p[y] * cx[g[y]]
      BY <1>0, <2>0
    <3> HIDE DEF part, cx, half
    <3>3. Linearly(part, half(g[x]), S, A, g, p, a, cx)
      BY <1>0, <3>1, <3>2 DEF Linearly
    <3> QED BY <3>3, GatheredSum
  <2>2. Combines(rowS(x), S, p[x], part, 0, part)
    <3>1. \A y \in S : part[y] \in Int /\ rowS(x)[y] = p[x] * part[y] + 0 * part[y]
      BY <1>0, <2>0
    <3> HIDE DEF part, rowS
    <3> QED BY <2>0, <3>1 DEF Combines
  <2>3. SumFunctionOnSet(rowS(x), S)
          = p[x] * SumFunctionOnSet(part, S) + 0 * SumFunctionOnSet(part, S)
    <3> HIDE DEF part, rowS
    <3> QED BY <2>2, SumLinear
  <2>4. f[x] = SumFunctionOnSet(rowS(x), S)
        /\ d[g[x]] = SumFunctionOnSet(half(g[x]), A) /\ d[g[x]] \in Int
    BY <1>3, <2>0
  <2> HIDE DEF part, rowS, half, d, f
  <2> QED BY <2>0, <2>1, <2>3, <2>4
<1> HIDE DEF f, h, d
<1>5. Linearly(f, h, S, A, g, p, a, d)
  BY <1>0, <1>3, <1>4 DEF Linearly
<1>6. SumFunctionOnSet(f, S) = SumFunctionOnSet(h, A)
  BY <1>5, GatheredSum
<1> QED BY <1>1, <1>2, <1>6

\* A sum of products, element by element of two sets, is the product of the sums.
Multiplies(w, A, B, f, h) ==
  /\ \A x \in A : f[x] \in Int
  /\ \A y \in B : h[y] \in Int
  /\ \A x \in A, y \in B : w[<<x, y>>] = f[x] * h[y]

LEMMA SumProducts ==
  ASSUME NEW A, IsFiniteSet(A), NEW B, IsFiniteSet(B), NEW w, NEW f, NEW h,
         Multiplies(w, A, B, f, h)
  PROVE  SumFunctionOnSet(w, A \X B) = SumFunctionOnSet(f, A) * SumFunctionOnSet(h, B)
<1> DEFINE row(x) == [y \in B |-> w[<<x, y>>]]
           r == [x \in A |-> SumFunctionOnSet(row(x), B)]
           F == SumFunctionOnSet(f, A)
           H == SumFunctionOnSet(h, B)
<1>0. F \in Int /\ H \in Int
  BY SumInt DEF Multiplies
<1>1. SumFunctionOnSet(w, A \X B) = SumFunctionOnSet(r, A)
  <2>1. \A e \in A \X B : w[e] \in Int
    <3> SUFFICES ASSUME NEW e \in A \X B PROVE w[e] \in Int
      OBVIOUS
    <3>1. e = <<e[1], e[2]>> /\ e[1] \in A /\ e[2] \in B
      OBVIOUS
    <3>2. w[<<e[1], e[2]>>] = f[e[1]] * h[e[2]] /\ f[e[1]] \in Int /\ h[e[2]] \in Int
      BY <3>1 DEF Multiplies
    <3> QED BY <3>1, <3>2
  <2> QED BY <2>1, SumPairs
<1>2. ASSUME NEW x \in A PROVE r[x] = H * f[x] + 0 * f[x]
  <2>1. Combines(row(x), B, f[x], h, 0, h)
    <3>1. \A y \in B : h[y] \in Int /\ row(x)[y] = f[x] * h[y]
      BY DEF Multiplies
    <3>2. f[x] \in Int
      BY DEF Multiplies
    <3> HIDE DEF row
    <3> QED BY <3>1, <3>2 DEF Combines
  <2>2. r[x] = SumFunctionOnSet(row(x), B)
    OBVIOUS
  <2>3. f[x] \in Int
    BY DEF Multiplies
  <2> HIDE DEF row, r
  <2>4. SumFunctionOnSet(row(x), B) = f[x] * SumFunctionOnSet(h, B) + 0 * SumFunctionOnSet(h, B)
    BY <2>1, SumLinear
  <2> QED BY <1>0, <2>2, <2>3, <2>4 DEF H
<1> HIDE DEF row, r, H
<1>3. Combines(r, A, H, f, 0, f)
  BY <1>0, <1>2 DEF Combines, Multiplies
<1>4. SumFunctionOnSet(r, A) = H * F + 0 * F
  BY <1>3, SumLinear DEF F
<1>5. SumFunctionOnSet(w, A \X B) = F * H
  <2> HIDE DEF F
  <2> QED BY <1>0, <1>1, <1>4
<1> QED BY <1>5 DEF F, H

\* A quadratic form of amounts that all grow by b.
Symmetric(A, s) == \A i, j \in A : s[<<i, j>>] \in Int /\ s[<<i, j>>] = s[<<j, i>>]
RowSums(A, s) == [i \in A |-> SumFunctionOnSet([j \in A |-> s[<<i, j>>]], A)]
Form(A, s, a) == SumFunctionOnSet([e \in A \X A |-> s[e] * a[e[1]] * a[e[2]]], A \X A)

LEMMA RowSumsInt ==
  ASSUME NEW A, IsFiniteSet(A), NEW s, Symmetric(A, s)
  PROVE  \A i \in A : RowSums(A, s)[i] \in Int
<1> SUFFICES ASSUME NEW i \in A PROVE RowSums(A, s)[i] \in Int
  OBVIOUS
<1> DEFINE row == [j \in A |-> s[<<i, j>>]]
<1>1. \A j \in A : row[j] \in Int
  BY DEF Symmetric
<1>2. RowSums(A, s)[i] = SumFunctionOnSet(row, A)
  BY DEF RowSums
<1> HIDE DEF row
<1> QED BY <1>1, <1>2, SumInt

LEMMA FormShift ==
  ASSUME NEW A, IsFiniteSet(A), NEW s, Symmetric(A, s),
         NEW a, \A i \in A : a[i] \in Int, NEW b \in Int
  PROVE  Form(A, s, [i \in A |-> b + a[i]])
           = b * b * SumFunctionOnSet(s, A \X A)
             + 2 * b * SumFunctionOnSet([i \in A |-> a[i] * RowSums(A, s)[i]], A)
             + Form(A, s, a)
<1> DEFINE AA == A \X A
           R == RowSums(A, s)
           w == [e \in AA |-> s[e] * (b + a[e[1]]) * (b + a[e[2]])]
           x == [e \in AA |-> s[e] * a[e[1]] * a[e[2]]]
           l == [e \in AA |-> s[e] * a[e[1]]]
           r == [e \in AA |-> s[e] * a[e[2]]]
           lr == [e \in AA |-> l[e] + r[e]]
           m == [e \in AA |-> b * s[e] + lr[e]]
           ar == [i \in A |-> a[i] * R[i]]
<1>1. IsFiniteSet(AA)
  BY FS_Product
<1>2. \A e \in AA : /\ e[1] \in A /\ e[2] \in A /\ e = <<e[1], e[2]>>
                    /\ s[e] \in Int /\ a[e[1]] \in Int /\ a[e[2]] \in Int
  <2> SUFFICES ASSUME NEW e \in AA
               PROVE  /\ e[1] \in A /\ e[2] \in A /\ e = <<e[1], e[2]>>
                      /\ s[e] \in Int /\ a[e[1]] \in Int /\ a[e[2]] \in Int
    OBVIOUS
  <2>1. e[1] \in A /\ e[2] \in A /\ e = <<e[1], e[2]>>
    OBVIOUS
  <2>2. s[<<e[1], e[2]>>] \in Int
    BY <2>1 DEF Symmetric
  <2> HIDE DEF AA
  <2> QED BY <2>1, <2>2
<1>3. \A e \in AA : /\ x[e] \in Int /\ l[e] \in Int /\ r[e] \in Int
                    /\ lr[e] \in Int /\ m[e] \in Int
  BY <1>2
<1>4. SumFunctionOnSet(l, AA) = SumFunctionOnSet(ar, A)
  <2> DEFINE row(i) == [j \in A |-> l[<<i, j>>]]
             srow(i) == [j \in A |-> s[<<i, j>>]]
             f == [i \in A |-> SumFunctionOnSet(row(i), A)]
  <2>1. SumFunctionOnSet(l, AA) = SumFunctionOnSet(f, A)
    <3> HIDE DEF l
    <3> QED BY <1>3, SumPairs, ZenonT(30)
  <2>2. ASSUME NEW i \in A PROVE f[i] = ar[i] /\ ar[i] \in Int
    <3>1. \A j \in A : srow(i)[j] \in Int /\ row(i)[j] = a[i] * srow(i)[j] + 0 * srow(i)[j]
      BY <1>2 DEF Symmetric
    <3>2. Combines(row(i), A, a[i], srow(i), 0, srow(i))
      <4> HIDE DEF row, srow
      <4> QED BY <3>1 DEF Combines
    <3>3. SumFunctionOnSet(row(i), A)
            = a[i] * SumFunctionOnSet(srow(i), A) + 0 * SumFunctionOnSet(srow(i), A)
      <4> HIDE DEF row, srow
      <4> QED BY <3>2, SumLinear
    <3>4. R[i] = SumFunctionOnSet(srow(i), A) /\ R[i] \in Int
      BY RowSumsInt DEF RowSums
    <3>5. f[i] = SumFunctionOnSet(row(i), A) /\ ar[i] = a[i] * R[i] /\ a[i] \in Int
      OBVIOUS
    <3> HIDE DEF row, srow, f, ar, R
    <3> QED BY <3>3, <3>4, <3>5
  <2> HIDE DEF f, ar
  <2>3. SumFunctionOnSet(f, A) = SumFunctionOnSet(ar, A)
    BY <2>2, SumSame
  <2> QED BY <2>1, <2>3
<1>5. SumFunctionOnSet(r, AA) = SumFunctionOnSet(l, AA)
  <2> DEFINE swap == [e \in AA |-> <<e[2], e[1]>>]
  <2>1. AA = {swap[e] : e \in AA}
    <3>1. \A e \in AA : <<e[2], e[1]>> \in AA /\ swap[<<e[2], e[1]>>] = e
      OBVIOUS
    <3>2. \A e \in AA : swap[e] \in AA
      OBVIOUS
    <3> HIDE DEF swap, AA
    <3> QED BY <3>1, <3>2
  <2>2. \A e \in AA : l[e] \in Int /\ r[swap[e]] = l[e]
    BY <1>2, <1>3 DEF Symmetric
  <2>3. \A e, d \in AA : swap[e] = swap[d] => e = d
    BY <1>2
  <2> HIDE DEF swap, l, r, AA
  <2>4. Renames(r, AA, l, AA, swap)
    BY <2>1, <2>2, <2>3 DEF Renames
  <2> QED BY <1>1, <2>4, SumRenamed
<1>6. Combines(w, AA, b, m, 1, x)
  <2>1. \A e \in AA : m[e] \in Int /\ x[e] \in Int
    BY <1>3
  <2>2. ASSUME NEW e \in AA PROVE w[e] = b * m[e] + 1 * x[e]
    <3>1. s[e] \in Int /\ a[e[1]] \in Int /\ a[e[2]] \in Int
      BY <1>2
    <3>2. /\ w[e] = s[e] * (b + a[e[1]]) * (b + a[e[2]])
          /\ x[e] = s[e] * a[e[1]] * a[e[2]]
          /\ m[e] = b * s[e] + (s[e] * a[e[1]] + s[e] * a[e[2]])
      OBVIOUS
    <3> HIDE DEF w, x, m
    <3> QED BY <3>1, <3>2
  <2> HIDE DEF w, m, x
  <2> QED BY <2>1, <2>2 DEF Combines
<1>7. Combines(m, AA, b, s, 1, lr)
  <2>1. \A e \in AA : s[e] \in Int /\ lr[e] \in Int /\ m[e] = b * s[e] + 1 * lr[e]
    BY <1>2, <1>3
  <2> HIDE DEF m, lr
  <2> QED BY <2>1 DEF Combines
<1>8. Combines(lr, AA, 1, l, 1, r)
  <2>1. \A e \in AA : l[e] \in Int /\ r[e] \in Int /\ lr[e] = 1 * l[e] + 1 * r[e]
    BY <1>3
  <2> HIDE DEF lr, l, r
  <2> QED BY <2>1 DEF Combines
<1>9. /\ Form(A, s, [i \in A |-> b + a[i]]) = SumFunctionOnSet(w, AA)
      /\ Form(A, s, a) = SumFunctionOnSet(x, AA)
  <2>1. [e \in AA |-> s[e] * [i \in A |-> b + a[i]][e[1]] * [i \in A |-> b + a[i]][e[2]]] = w
    OBVIOUS
  <2> QED BY <2>1 DEF Form
<1> HIDE DEF AA, w, x, l, r, lr, m, ar
<1>10. /\ SumFunctionOnSet(w, AA) = b * SumFunctionOnSet(m, AA) + 1 * SumFunctionOnSet(x, AA)
       /\ SumFunctionOnSet(m, AA) = b * SumFunctionOnSet(s, AA) + 1 * SumFunctionOnSet(lr, AA)
       /\ SumFunctionOnSet(lr, AA) = 1 * SumFunctionOnSet(l, AA) + 1 * SumFunctionOnSet(r, AA)
  BY <1>1, <1>6, <1>7, <1>8, SumLinear
<1>11. /\ SumFunctionOnSet(s, AA) \in Int /\ SumFunctionOnSet(l, AA) \in Int
       /\ SumFunctionOnSet(x, AA) \in Int
  BY <1>1, <1>2, <1>3, SumInt
<1>12. SumFunctionOnSet(w, AA) = b * b * SumFunctionOnSet(s, AA)
                                 + 2 * b * SumFunctionOnSet(ar, A) + SumFunctionOnSet(x, AA)
  BY <1>4, <1>5, <1>10, <1>11
<1> QED BY <1>9, <1>12 DEF AA, ar

-----------------------------------------------------------------------------
(* Quotients and common divisors.                                          *)

\* A quotient that leaves nothing, and what a remainder is.
LEMMA ExactFact ==
  ASSUME NEW a \in Int, NEW b \in Nat \ {0}
  PROVE  (b * a) \div b = a
<1> DEFINE z == b * a
           q == z \div b
           r == z % b
<1>1. z \in Int /\ z = b * a
  OBVIOUS
<1> HIDE DEF z
<1>2. z = b * q + r /\ r \in 0..b - 1 /\ q \in Int
  BY <1>1
<1> HIDE DEF q, r
<1>3. b * (a - q) = r
  BY <1>1, <1>2
<1>4. CASE a - q >= 1
  <2>1. b * (a - q) >= b * 1
    BY <1>2, <1>4
  <2> QED BY <1>2, <1>3, <2>1
<1>5. CASE a - q <= -1
  <2>1. b * (a - q) <= b * (-1)
    BY <1>2, <1>5
  <2> QED BY <1>2, <1>3, <2>1
<1>6. CASE a = q
  BY <1>6 DEF q, z
<1>7. a = q \/ a - q >= 1 \/ a - q <= -1
  BY <1>2
<1> QED BY <1>4, <1>5, <1>6, <1>7

\* Euclid's algorithm ends.
LEMMA GcdDefined ==
  \A x, y \in Nat : /\ gcd[<<x, y>>] \in Nat
                    /\ gcd[<<x, y>>] = IF y = 0 THEN x ELSE gcd[<<y, x % y>>]
<1> DEFINE D == Nat \X Nat
           Stop == {p \in D : p[2] = 0}
           base == [p \in D |-> p[1]]
           then == [p \in D |-> [r \in Nat |-> r]]
           next == [p \in D |-> IF p[2] = 0 THEN p ELSE <<p[2], p[1] % p[2]>>]
           m == [p \in D |-> p[2]]
           Body(f) == [p \in D |-> IF p[2] = 0 THEN p[1] ELSE f[<<p[2], p[1] % p[2]>>]]
<1>1. Descends(D, Nat, Stop, base, then, next, m)
  <2>1. then \in [D -> [Nat -> Nat]] /\ m \in [D -> Nat]
    OBVIOUS
  <2>2. \A p \in D : next[p] \in D
    <3> SUFFICES ASSUME NEW p \in D PROVE next[p] \in D
      OBVIOUS
    <3>1. p[1] \in Nat /\ p[2] \in Nat
      OBVIOUS
    <3>2. p[2] # 0 => p[1] % p[2] \in Nat
      BY <3>1
    <3> QED BY <3>1, <3>2
  <2>3. \A p \in D : p \in Stop => base[p] \in Nat
    OBVIOUS
  <2>4. \A p \in D : p \notin Stop => m[next[p]] < m[p]
    <3> SUFFICES ASSUME NEW p \in D, p \notin Stop PROVE m[next[p]] < m[p]
      OBVIOUS
    <3>1. p[1] \in Nat /\ p[2] \in Nat /\ p[2] # 0
      OBVIOUS
    <3>2. next[p] = <<p[2], p[1] % p[2]>> /\ next[p] \in D
      BY <2>2, <3>1
    <3>3. m[next[p]] = p[1] % p[2] /\ m[p] = p[2]
      BY <3>2
    <3>4. p[1] % p[2] < p[2]
      BY <3>1
    <3> QED BY <3>3, <3>4
  <2>5. next \in [D -> D]
    BY <2>2
  <2> HIDE DEF D, Stop, base, then, next, m
  <2> QED BY <2>1, <2>3, <2>4, <2>5 DEF Descends
<1>2. PICK f \in [D -> Nat] :
        \A p \in D : f[p] = IF p \in Stop THEN base[p] ELSE then[p][f[next[p]]]
  <2> HIDE DEF D, Stop, base, then, next, m
  <2> QED BY <1>1, LoopFact
<1>3. f = Body(f)
  <2>1. \A p \in D : f[p] = Body(f)[p]
    <3> SUFFICES ASSUME NEW p \in D PROVE f[p] = Body(f)[p]
      OBVIOUS
    <3>1. CASE p[2] = 0
      BY <1>2, <3>1
    <3>2. CASE p[2] # 0
      <4>1. next[p] = <<p[2], p[1] % p[2]>> /\ p \notin Stop
        BY <3>2
      <4>2. f[next[p]] \in Nat
        <5>1. next[p] \in D
          BY <3>2
        <5> HIDE DEF next, D
        <5> QED BY <1>2, <5>1
      <4>3. f[p] = f[next[p]]
        BY <1>2, <4>1, <4>2
      <4> QED BY <3>2, <4>1, <4>3
    <3> QED BY <3>1, <3>2
  <2> QED BY <1>2, <2>1
<1>4. gcd = CHOOSE h : h = Body(h)
  BY DEF gcd
<1>5. gcd = Body(gcd)
  <2> HIDE DEF Body
  <2> QED BY <1>3, <1>4
<1>6. \A p \in D : gcd[p] \in Nat
  <2> DEFINE Bad == {k \in Nat : \E x \in Nat : gcd[<<x, k>>] \notin Nat}
  <2>1. ASSUME Bad # {} PROVE FALSE
    <3>1. PICK k \in Bad : \A j \in Bad : k <= j
      <4>1. Bad \subseteq Nat
        OBVIOUS
      <4> HIDE DEF Bad
      <4> QED BY <2>1, <4>1, LeastFact
    <3>2. PICK x \in Nat : gcd[<<x, k>>] \notin Nat
      BY <3>1
    <3>3. k \in Nat /\ <<x, k>> \in D
      BY <3>1
    <3>4. gcd[<<x, k>>] = IF k = 0 THEN x ELSE gcd[<<k, x % k>>]
      BY <1>5, <3>3
    <3>5. k # 0 /\ gcd[<<k, x % k>>] \notin Nat
      BY <3>2, <3>4
    <3>6. x % k \in Nat /\ x % k < k
      BY <3>3, <3>5
    <3>7. x % k \in Bad
      BY <3>3, <3>5, <3>6
    <3> HIDE DEF Bad
    <3> QED BY <3>1, <3>3, <3>6, <3>7
  <2>2. \A p \in D : p = <<p[1], p[2]>> /\ p[1] \in Nat /\ p[2] \in Nat
    OBVIOUS
  <2>3. \A a, k \in Nat : gcd[<<a, k>>] \in Nat
    BY <2>1
  <2> HIDE DEF D, Bad
  <2> QED BY <2>2, <2>3
<1>7. \A x, y \in Nat : gcd[<<x, y>>] = IF y = 0 THEN x ELSE gcd[<<y, x % y>>]
  BY <1>5
<1> QED BY <1>6, <1>7

\* It finds a common divisor, which is not 0 unless both numbers are.
LEMMA CommonFact ==
  ASSUME NEW x \in Nat, NEW y \in Nat
  PROVE  /\ Common(x, y) \in Nat
         /\ x # 0 \/ y # 0 => Common(x, y) # 0
         /\ \E i, j \in Nat : x = i * Common(x, y) /\ y = j * Common(x, y)
<1> DEFINE Good(a, k) == /\ a # 0 \/ k # 0 => gcd[<<a, k>>] # 0
                         /\ \E i, j \in Nat : /\ a = i * gcd[<<a, k>>]
                                              /\ k = j * gcd[<<a, k>>]
           Bad == {k \in Nat : \E a \in Nat : ~Good(a, k)}
<1>1. ASSUME NEW a \in Nat PROVE Good(a, 0)
  <2>1. gcd[<<a, 0>>] = a
    BY GcdDefined
  <2>2. a = 1 * gcd[<<a, 0>>] /\ 0 = 0 * gcd[<<a, 0>>]
    BY <2>1
  <2> QED BY <2>1, <2>2
<1>2. ASSUME NEW a \in Nat, NEW k \in Nat, k # 0, Good(k, a % k) PROVE Good(a, k)
  <2> DEFINE g == gcd[<<a, k>>]
             r == a % k
             q == a \div k
  <2>1. r \in Nat /\ q \in Nat /\ a = k * q + r
    BY <1>2
  <2>2. g = gcd[<<k, r>>] /\ g \in Nat
    BY <1>2, GcdDefined
  <2>3. g # 0
    BY <1>2, <2>2
  <2>4. PICK i \in Nat, j \in Nat : k = i * g /\ r = j * g
    <3>1. \E i, j \in Nat : k = i * gcd[<<k, r>>] /\ r = j * gcd[<<k, r>>]
      BY <1>2
    <3> HIDE DEF g
    <3> QED BY <2>2, <3>1
  <2> HIDE DEF g, r, q
  <2>5. a = (i * q + j) * g
    <3>1. a = (i * g) * q + j * g
      BY <2>1, <2>4
    <3> QED BY <2>1, <2>2, <3>1
  <2>6. i * q + j \in Nat
    BY <2>1
  <2> QED BY <2>3, <2>4, <2>5, <2>6 DEF g
<1>3. ASSUME Bad # {} PROVE FALSE
  <2>1. PICK k \in Bad : \A j \in Bad : k <= j
    <3>1. Bad \subseteq Nat
      OBVIOUS
    <3> HIDE DEF Bad
    <3> QED BY <1>3, <3>1, LeastFact
  <2>2. PICK a \in Nat : ~Good(a, k)
    BY <2>1
  <2>3. k \in Nat
    BY <2>1
  <2> HIDE DEF Good
  <2>4. k # 0
    BY <1>1, <2>2
  <2>5. ~Good(k, a % k)
    BY <1>2, <2>2, <2>3, <2>4
  <2>6. a % k \in Nat /\ a % k < k
    BY <2>3, <2>4
  <2>7. a % k \in Bad
    BY <2>3, <2>5, <2>6
  <2> HIDE DEF Bad
  <2> QED BY <2>1, <2>3, <2>6, <2>7
<1>4. Good(x, y)
  <2> HIDE DEF Good
  <2> QED BY <1>3
<1> QED BY <1>4, GcdDefined DEF Common

\* The common divisor of a set of naturals, which is not 0 unless all of them are.
Units(f, S) ==
  f = [s \in SUBSET S |-> IF s = {} THEN 0 ELSE Common(Some(s), f[s \ {Some(s)}])]
DividedBy(g, s) ==
  /\ g \in Nat
  /\ (\E x \in s : x # 0) => g # 0
  /\ \A x \in s : \E i \in Nat : x = i * g

LEMMA UnitStep ==
  ASSUME NEW x \in Nat, NEW s \in SUBSET Nat, NEW r, DividedBy(r, s)
  PROVE  DividedBy(Common(x, r), s \union {x})
<1> DEFINE g == Common(x, r)
<1>1. r \in Nat
  BY DEF DividedBy
<1>2. g \in Nat /\ (x # 0 \/ r # 0 => g # 0)
  BY <1>1, CommonFact
<1>3. PICK i \in Nat, j \in Nat : x = i * g /\ r = j * g
  BY <1>1, CommonFact
<1> HIDE DEF g
<1>4. ASSUME NEW y \in s PROVE \E k \in Nat : y = k * g
  <2>1. PICK k \in Nat : y = k * r
    BY DEF DividedBy
  <2>2. y = (k * j) * g
    <3>1. \A a, b, c \in Int : a * (b * c) = (a * b) * c
      OBVIOUS
    <3> QED BY <1>2, <1>3, <2>1, <3>1
  <2> QED BY <2>2
<1>5. ASSUME \E y \in s \union {x} : y # 0 PROVE g # 0
  <2>1. x # 0 \/ r # 0
    BY <1>5 DEF DividedBy
  <2> QED BY <1>2, <2>1
<1>6. \A y \in s \union {x} : \E k \in Nat : y = k * g
  BY <1>3, <1>4
<1>7. DividedBy(g, s \union {x})
  BY <1>2, <1>5, <1>6 DEF DividedBy
<1> QED BY <1>7 DEF g

LEMMA UnitFact ==
  ASSUME NEW S \in SUBSET Nat, IsFiniteSet(S)
  PROVE  DividedBy(FoldSet(Common, 0, S), S)
<1> DEFINE D == SUBSET S
           Stop == {{}}
           m == [s \in D |-> Cardinality(s)]
           next == [s \in D |-> s \ {Some(s)}]
           base == [s \in D |-> 0]
           then == [s \in D |-> [r \in Nat |-> IF s = {} THEN 0 ELSE Common(Some(s), r)]]
<1>1. \A s \in D : s # {} => Some(s) \in s
  BY DEF Some
<1>2. \A s \in D : IsFiniteSet(s) /\ Cardinality(s) \in Nat
  BY FS_Subset, FS_CardinalityType
<1>3. m \in [D -> Nat] /\ next \in [D -> D] /\ base \in [D -> Nat]
  BY <1>2
<1>4. then \in [D -> [Nat -> Nat]]
  <2>1. \A x, y \in Nat : Common(x, y) \in Nat
    BY CommonFact
  <2>2. \A s \in D : \A r \in Nat : (IF s = {} THEN 0 ELSE Common(Some(s), r)) \in Nat
    BY <1>1, <2>1
  <2> QED BY <2>2
<1>5. \A s \in D : s \notin Stop => m[next[s]] < m[s]
  <2> SUFFICES ASSUME NEW s \in D, s # {} PROVE Cardinality(s \ {Some(s)}) < Cardinality(s)
    BY <1>3
  <2>1. Cardinality(s \ {Some(s)}) = Cardinality(s) - 1
    BY <1>1, <1>2, FS_RemoveElement
  <2> QED BY <2>1, <1>2
<1>6. \A s \in D : s \in Stop => base[s] \in Nat
  OBVIOUS
<1>7. Descends(D, Nat, Stop, base, then, next, m)
  <2> HIDE DEF D, Stop, m, next, base, then
  <2> QED BY <1>3, <1>4, <1>5, <1>6 DEF Descends
<1>8. \E f \in [D -> Nat] :
        \A s \in D : f[s] = IF s \in Stop THEN base[s] ELSE then[s][f[next[s]]]
  <2> HIDE DEF D, Stop, m, next, base, then
  <2> QED BY <1>7, LoopFact
<1>9. PICK f \in [D -> Nat] :
        \A s \in D : f[s] = IF s \in Stop THEN base[s] ELSE then[s][f[next[s]]]
  BY <1>8
<1>10. \A s \in D : (IF s \in Stop THEN base[s] ELSE then[s][f[next[s]]])
                   = IF s = {} THEN 0 ELSE Common(Some(s), f[s \ {Some(s)}])
  BY <1>9
<1>11. Units(f, S)
  <2>1. \A s \in D : f[s] = IF s = {} THEN 0 ELSE Common(Some(s), f[s \ {Some(s)}])
    <3> HIDE DEF base, then, next
    <3> QED BY <1>9, <1>10
  <2> QED BY <2>1 DEF Units
<1> DEFINE h == CHOOSE g : Units(g, S)
<1>12. Units(h, S)
  BY <1>11
<1>13. FoldSet(Common, 0, S) = h[S]
  BY DEF FoldSet, MapThenFoldSet, Units, Some
<1> HIDE DEF h
<1>14. \A s \in D : h[s] = IF s = {} THEN 0 ELSE Common(Some(s), h[s \ {Some(s)}])
  BY <1>12 DEF Units
<1>15. ASSUME NEW t \in D, ~DividedBy(h[t], t) PROVE FALSE
  <2> DEFINE Bad == {n \in Nat : \E s \in D : Cardinality(s) = n /\ ~DividedBy(h[s], s)}
  <2>1. PICK n \in Bad : \A k \in Bad : n <= k
    <3>1. Cardinality(t) \in Bad
      BY <1>2, <1>15
    <3>2. Bad \subseteq Nat
      OBVIOUS
    <3> HIDE DEF Bad
    <3> QED BY <3>1, <3>2, LeastFact
  <2>2. PICK s \in D : Cardinality(s) = n /\ ~DividedBy(h[s], s)
    BY <2>1
  <2>3. s # {} /\ Some(s) \in s
    <3>1. DividedBy(0, {})
      BY DEF DividedBy
    <3>2. s # {}
      BY <1>14, <2>2, <3>1
    <3> QED BY <3>2 DEF Some
  <2>4. /\ s \ {Some(s)} \in D /\ Cardinality(s \ {Some(s)}) = n - 1
        /\ n - 1 \in Nat /\ n \in Nat
    <3>1. Cardinality(s \ {Some(s)}) = Cardinality(s) - 1
      BY <1>2, <2>3, FS_RemoveElement
    <3>2. s \ {Some(s)} \in D
      OBVIOUS
    <3>3. Cardinality(s \ {Some(s)}) \in Nat /\ Cardinality(s) \in Nat
      BY <1>2, <3>2
    <3> QED BY <2>2, <3>1, <3>2, <3>3
  <2>5. DividedBy(h[s \ {Some(s)}], s \ {Some(s)})
    <3>1. n - 1 \notin Bad
      <4> HIDE DEF Bad
      <4> QED BY <2>1, <2>4
    <3> QED BY <3>1, <2>4
  <2>6. h[s] = Common(Some(s), h[s \ {Some(s)}]) /\ (s \ {Some(s)}) \union {Some(s)} = s
    BY <1>14, <2>3
  <2>7. Some(s) \in Nat /\ s \ {Some(s)} \in SUBSET Nat
    BY <2>3
  <2>8. DividedBy(Common(Some(s), h[s \ {Some(s)}]), (s \ {Some(s)}) \union {Some(s)})
    BY <2>5, <2>7, UnitStep
  <2> QED BY <2>2, <2>6, <2>8
<1>16. DividedBy(h[S], S)
  BY <1>15
<1> QED BY <1>13, <1>16

\* Sums of naturals are naturals, and no term is larger.
LEMMA SumNat ==
  ASSUME NEW S, IsFiniteSet(S), NEW w, \A x \in S : w[x] \in Nat
  PROVE  SumFunctionOnSet(w, S) \in Nat /\ \A x \in S : w[x] <= SumFunctionOnSet(w, S)
<1> DEFINE P == {T \in SUBSET S : SumFunctionOnSet(w, T) \in Nat}
<1>1. \A x \in S : w[x] \in Int
  OBVIOUS
<1>2. \A T \in SUBSET S : T \in P
  <2> SUFFICES ASSUME NEW T \in SUBSET S PROVE T \in P
    OBVIOUS
  <2>1. {} \in P
    BY SumNone
  <2>2. ASSUME NEW U \in SUBSET T, NEW x \in T, U \in P, x \notin U PROVE U \union {x} \in P
    <3>1. SumFunctionOnSet(w, U \union {x}) = w[x] + SumFunctionOnSet(w, U)
      BY <2>2, <1>1, FS_Subset, SumMore
    <3>2. w[x] \in Nat /\ SumFunctionOnSet(w, U) \in Nat /\ U \union {x} \in SUBSET S
      BY <2>2
    <3> QED BY <3>1, <3>2
  <2>3. IsFiniteSet(T)
    BY FS_Subset
  <2> HIDE DEF P
  <2> QED BY <2>1, <2>2, <2>3, SetInduction
<1>3. ASSUME NEW x \in S PROVE w[x] <= SumFunctionOnSet(w, S)
  <2>1. SumFunctionOnSet(w, S) = w[x] + SumFunctionOnSet(w, S \ {x})
    BY <1>1, SumLess
  <2>2. SumFunctionOnSet(w, S \ {x}) \in Nat
    BY <1>2
  <2> QED BY <2>1, <2>2
<1> QED BY <1>2, <1>3

\* A sum of smaller terms is no larger.
NoLarger(u, w, S) == \A x \in S : u[x] \in Int /\ w[x] \in Int /\ u[x] <= w[x]

LEMMA SumNoLarger ==
  ASSUME NEW S, IsFiniteSet(S), NEW u, NEW w, NoLarger(u, w, S)
  PROVE  /\ SumFunctionOnSet(u, S) <= SumFunctionOnSet(w, S)
         /\ SumFunctionOnSet(u, S) \in Int /\ SumFunctionOnSet(w, S) \in Int
<1> DEFINE d == [x \in S |-> w[x] - u[x]]
<1>0. \A x \in S : u[x] \in Int /\ w[x] \in Int /\ u[x] <= w[x] /\ d[x] = w[x] - u[x]
  BY DEF NoLarger
<1> HIDE DEF d
<1>1. \A x \in S : d[x] \in Nat
  BY <1>0
<1>2. SumFunctionOnSet(d, S) \in Nat
  BY <1>1, SumNat
<1>3. Combines(d, S, 1, w, -1, u)
  BY <1>0 DEF Combines
<1>4. SumFunctionOnSet(d, S) = 1 * SumFunctionOnSet(w, S) + (-1) * SumFunctionOnSet(u, S)
  BY <1>3, SumLinear
<1>5. SumFunctionOnSet(w, S) \in Int /\ SumFunctionOnSet(u, S) \in Int
  BY <1>0, SumInt
<1> QED BY <1>2, <1>4, <1>5

\* A sum of terms up to b, and one of terms with a sign.
LEMMA SumUpTo ==
  ASSUME NEW S, IsFiniteSet(S), NEW w, NEW b \in Int, \A x \in S : w[x] \in Int /\ w[x] <= b
  PROVE  SumFunctionOnSet(w, S) <= b * Cardinality(S)
<1> DEFINE one == [x \in S |-> 1]
           c   == [x \in S |-> b]
<1>0. \A x \in S : one[x] = 1 /\ c[x] = b
  OBVIOUS
<1> HIDE DEF one, c
<1>1. NoLarger(w, c, S)
  BY <1>0 DEF NoLarger
<1>2. Combines(c, S, b, one, 0, one)
  <2>1. b \in Int /\ 0 \in Int
    OBVIOUS
  <2>2. \A x \in S : one[x] \in Int /\ c[x] = b * one[x] + 0 * one[x]
    BY <1>0
  <2> QED BY <2>1, <2>2 DEF Combines
<1>3. SumFunctionOnSet(one, S) = Cardinality(S)
  BY <1>0, SumOnes
<1>4. SumFunctionOnSet(c, S) = b * Cardinality(S) + 0 * Cardinality(S)
  BY <1>2, <1>3, SumLinear
<1>5. Cardinality(S) \in Nat
  BY FS_CardinalityType
<1>6. SumFunctionOnSet(c, S) = b * Cardinality(S)
  BY <1>4, <1>5
<1> QED BY <1>1, <1>6, SumNoLarger

LEMMA SumSize ==
  ASSUME NEW S, IsFiniteSet(S), NEW w, NEW z, \A x \in S : w[x] \in Int /\ z[x] = Size(w[x])
  PROVE  /\ Size(SumFunctionOnSet(w, S)) <= SumFunctionOnSet(z, S)
         /\ SumFunctionOnSet(w, S) \in Int /\ SumFunctionOnSet(z, S) \in Nat
<1> DEFINE y == [x \in S |-> -w[x]]
<1>0. \A x \in S : /\ w[x] \in Int /\ y[x] = -w[x] /\ z[x] \in Nat
                   /\ w[x] <= z[x] /\ y[x] <= z[x]
  BY DEF Size
<1> HIDE DEF y
<1>1. NoLarger(w, z, S) /\ NoLarger(y, z, S)
  BY <1>0 DEF NoLarger
<1>2. Combines(y, S, -1, w, 0, w)
  BY <1>0 DEF Combines
<1>3. /\ SumFunctionOnSet(w, S) <= SumFunctionOnSet(z, S)
      /\ SumFunctionOnSet(y, S) <= SumFunctionOnSet(z, S)
      /\ SumFunctionOnSet(w, S) \in Int
  BY <1>1, SumNoLarger
<1>4. SumFunctionOnSet(y, S) = (-1) * SumFunctionOnSet(w, S) + 0 * SumFunctionOnSet(w, S)
  BY <1>2, SumLinear
<1>5. SumFunctionOnSet(z, S) \in Nat
  BY <1>0, SumNat
<1> QED BY <1>3, <1>4, <1>5 DEF Size

\* The least of a set of naturals, and the greatest of a bounded one.
LEMMA MinFact ==
  ASSUME NEW S \in SUBSET Nat, S # {}
  PROVE  Min(S) \in S /\ \A x \in S : Min(S) <= x
BY LeastFact DEF Min

LEMMA MaxFact ==
  ASSUME NEW B \in Nat, NEW S \in SUBSET (0..B), S # {}
  PROVE  Max(S) \in S /\ \A x \in S : x <= Max(S)
<1> DEFINE T == {B - x : x \in S}
<1>1. T \subseteq Nat /\ T # {}
  <2>1. \A x \in S : x \in 0..B /\ B - x \in Nat
    OBVIOUS
  <2> QED BY <2>1
<1>2. PICK m \in T : \A k \in T : m <= k
  <2> HIDE DEF T
  <2> QED BY <1>1, LeastFact
<1>3. PICK y \in S : m = B - y
  BY <1>2
<1>4. \A x \in S : x <= y
  BY <1>2, <1>3
<1> QED BY <1>4 DEF Max

-----------------------------------------------------------------------------
(* The sliders.                                                            *)

\* The powers of two, one by one.
LEMMA PowersFact ==
  /\ 1024 \in Powers /\ Grids \subseteq Powers /\ Powers \subseteq Nat
  /\ \A p \in Powers : p \in Nat /\ p <= 1024
  /\ \A p \in Powers : 4 <= p /\ p <= 256 => p \in Grids
<1>1. ASSUME NEW p \in 0..10 PROVE 2^p \in {1, 2, 4, 8, 16, 32, 64, 128, 256, 512, 1024}
  <2>0. CASE p = 0 BY <2>0
  <2>1. CASE p = 1 BY <2>1
  <2>2. CASE p = 2 BY <2>2
  <2>3. CASE p = 3 BY <2>3
  <2>4. CASE p = 4 BY <2>4
  <2>5. CASE p = 5 BY <2>5
  <2>6. CASE p = 6 BY <2>6
  <2>7. CASE p = 7 BY <2>7
  <2>8. CASE p = 8 BY <2>8
  <2>9. CASE p = 9 BY <2>9
  <2>10. CASE p = 10 BY <2>10
  <2> QED BY <2>0, <2>1, <2>2, <2>3, <2>4, <2>5, <2>6, <2>7, <2>8, <2>9, <2>10
<1>4. Powers \subseteq {1, 2, 4, 8, 16, 32, 64, 128, 256, 512, 1024}
  BY <1>1 DEF Powers
<1>5. {2^2, 2^3, 2^4, 2^5, 2^6, 2^7, 2^8, 2^10} \subseteq Powers
  BY DEF Powers
<1>6. {4, 8, 16, 32, 64, 128, 256, 1024} \subseteq Powers
  BY <1>5
<1> QED BY <1>4, <1>6 DEF Grids

\* The grid has a unit for each of the k assets.
LEMMA UnitsFact ==
  ASSUME NEW c \in Config, NEW k \in Nat, 3 <= k, k <= c.maxUnits, NEW n \in Nat
  PROVE  UnitsForGrid(c, k, n) \in Grids /\ k <= UnitsForGrid(c, k, n)
<1>1. /\ c.minUnits \in 4..256 /\ c.maxUnits \in 4..256
      /\ c.minUnits \in Grids /\ c.maxUnits \in Grids
  BY DEF Config, Grids
<1> DEFINE S == {p \in Powers : p >= Most(k, c.minUnits)}
           u == UnitsForCardinality(c, k)
<1>2. Min(S) \in Powers /\ Min(S) >= k /\ Min(S) >= c.minUnits
  <2>0. Most(k, c.minUnits) \in 0..256
    BY <1>1 DEF Most
  <2>1. 1024 \in S
    BY <2>0, PowersFact
  <2>4. S \in SUBSET Nat
    BY PowersFact, ZenonT(30)
  <2>2. Min(S) \in S
    <3> HIDE DEF S
    <3> QED BY <2>1, <2>4, MinFact
  <2>3. Min(S) \in Powers /\ Min(S) \in Nat /\ Min(S) >= Most(k, c.minUnits)
    BY <2>2, PowersFact, ZenonT(30)
  <2> HIDE DEF S
  <2> QED BY <1>1, <2>3 DEF Most
<1>3. u \in Grids /\ k <= u
  <2>1. u = Least(Min(S), c.maxUnits)
    BY DEF UnitsForCardinality
  <2> HIDE DEF S, u
  <2>2. Min(S) \in Nat /\ Min(S) <= 256 => Min(S) \in Grids
    BY <1>1, <1>2, PowersFact
  <2>3. Min(S) \in Nat
    BY <1>2, PowersFact, ZenonT(30)
  <2> QED BY <1>1, <1>2, <2>1, <2>2, <2>3 DEF Least
<1> DEFINE T == {p \in Powers : /\ p > c.minUnits /\ p <= c.maxUnits
                                /\ n * Log2(p) <= c.gridVars}
<1>4. u \in Nat /\ 4 <= u /\ u <= 256 /\ u \in Powers
  <2> HIDE DEF u
  <2> QED BY <1>3, PowersFact DEF Grids
<1>5. \A p \in T : p \in Powers /\ p \in Nat /\ 4 <= p /\ p <= 1024
  BY <1>1, PowersFact
<1> DEFINE V == {u} \union T
<1> HIDE DEF u, T
<1>6. V \in SUBSET (0..1024)
  BY <1>4, <1>5
<1>7. Max(V) \in V /\ u <= Max(V)
  <2>1. u \in V
    OBVIOUS
  <2> HIDE DEF V
  <2> QED BY <1>6, <2>1, MaxFact, SMTT(30)
<1>8. Max(V) \in Powers /\ Max(V) \in Nat /\ 4 <= Max(V)
  <2>1. \A p \in V : p \in Powers /\ p \in Nat /\ 4 <= p
    BY <1>4, <1>5
  <2> HIDE DEF V
  <2> QED BY <1>7, <2>1
<1>9. Max(V) <= 256 => Max(V) \in Grids
  <2> HIDE DEF V
  <2> QED BY <1>8, PowersFact
<1>10. UnitsForGrid(c, k, n) = Least(Max(V), c.maxUnits)
  BY DEF UnitsForGrid, u, T
<1> HIDE DEF V
<1> QED BY <1>1, <1>3, <1>4, <1>7, <1>8, <1>9, <1>10 DEF Least

\* A quotient rounded up, and one rounded down.
LEMMA CeilingFact ==
  ASSUME NEW m \in Nat \ {0}, NEW k \in Nat \ {0}
  PROVE  Ceiling(m, k) \in 1..m /\ m <= k * Ceiling(m, k)
<1> DEFINE q == (m + k - 1) \div k
           r == (m + k - 1) % k
<1>1. q \in Nat /\ r \in 0..k - 1 /\ m + k - 1 = k * q + r
  OBVIOUS
<1>2. Ceiling(m, k) = q
  BY DEF Ceiling
<1> HIDE DEF q, r
<1>3. m <= k * q
  BY <1>1
<1>4. q >= 1
  <2>1. q = 0 => k * q = 0
    OBVIOUS
  <2> QED BY <1>1, <1>3, <2>1
<1>5. q <= m
  <2> SUFFICES ASSUME q >= m + 1 PROVE FALSE
    BY <1>1
  <2>1. k * q >= k * (m + 1)
    BY <1>1
  <2>2. k * m >= m
    OBVIOUS
  <2> QED BY <1>1, <2>1, <2>2
<1> QED BY <1>1, <1>2, <1>3, <1>4, <1>5

LEMMA QuotientFact ==
  ASSUME NEW a \in Nat, NEW b \in Nat \ {0}, NEW q \in Nat, q * b <= a
  PROVE  a \div b \in Nat /\ q <= a \div b
<1> DEFINE d == a \div b
           r == a % b
<1>1. d \in Nat /\ r \in 0..b - 1 /\ a = b * d + r
  OBVIOUS
<1> HIDE DEF d, r
<1>2. q <= d
  <2> SUFFICES ASSUME d + 1 <= q PROVE FALSE
    BY <1>1
  <2>1. (d + 1) * b <= q * b
    BY <1>1
  <2> QED BY <1>1, <2>1
<1> QED BY <1>1, <1>2 DEF d

\* The slider's cap lies between an equal share and the whole budget.
LEMMA CapFact ==
  ASSUME NEW n \in Nat \ {0}, NEW cap \in 0..100, NEW f, f = MaxPositionCap(n, cap)
  PROVE  f.n \in Nat /\ f.d \in Nat \ {0} /\ f.n <= f.d /\ f.d <= n * f.n
<1>1. CASE n = 1
  BY <1>1 DEF MaxPositionCap, Fraction
<1>2. CASE n # 1
  <2>1. f.n = 10000 + cap * (85 * n - 100) /\ f.d = 10000 * n
    BY <1>2 DEF MaxPositionCap, Fraction
  <2>2. /\ cap * (85 * n - 100) \in Nat
        /\ cap * (85 * n - 100) <= 100 * (85 * n - 100)
    <3> DEFINE t == 85 * n - 100
    <3>1. t \in Nat
      BY <1>2
    <3> HIDE DEF t
    <3>2. cap * t \in Nat /\ cap * t <= 100 * t
      BY <3>1
    <3> QED BY <3>2 DEF t
  <2>3. f.n \in Nat /\ f.n >= 10000 /\ f.n <= 8500 * n
    BY <2>1, <2>2
  <2>4. n * 10000 <= n * f.n
    BY <2>3
  <2> QED BY <2>1, <2>3, <2>4
<1> QED BY <1>1, <1>2

\* The hold count, and what the box of an order is made from.
Held(o) == Most(3, Least(IF o.hold = All THEN o.n ELSE o.hold, Least(o.n, o.conf.maxUnits)))
Grid(o) == UnitsForGrid(o.conf, Held(o), o.n)

LEMMA HeldFact ==
  ASSUME NEW o \in Orders, o.mode # "convex"
  PROVE  /\ Held(o) \in 3..o.n /\ o.n \in Nat
         /\ Grid(o) \in Grids /\ Grid(o) \in 4..256 /\ Held(o) <= Grid(o)
<1>1. /\ o.conf \in Config /\ o.n \in Nat /\ o.n >= 3
      /\ o.hold = All \/ o.hold \in 3..100
  BY OrdersAssumption
<1>2. o.conf.maxUnits \in 4..256
  BY <1>1 DEF Config, Grids
<1> DEFINE h == IF o.hold = All THEN o.n ELSE o.hold
<1>6. h \in Nat /\ h >= 3
  BY <1>1
<1>7. Held(o) = Most(3, Least(h, Least(o.n, o.conf.maxUnits)))
  BY DEF Held
<1> HIDE DEF h
<1>3. Held(o) \in 3..o.n /\ Held(o) <= o.conf.maxUnits
  <2>1. \A a, b, c \in Nat : a >= 3 /\ b >= 3 /\ c >= 4 =>
          /\ Most(3, Least(a, Least(b, c))) \in 3..b
          /\ Most(3, Least(a, Least(b, c))) <= c
    BY DEF Most, Least
  <2>2. o.conf.maxUnits \in Nat /\ o.conf.maxUnits >= 4
    BY <1>2
  <2> QED BY <1>1, <1>6, <1>7, <2>1, <2>2
<1>4. Grid(o) \in Grids /\ Held(o) <= Grid(o)
  BY <1>1, <1>3, UnitsFact DEF Grid
<1>5. Grid(o) \in 4..256
  BY <1>4 DEF Grids
<1> QED BY <1>1, <1>3, <1>4, <1>5

\* A box of weights that k assets can share out: what the solvers count on.
Boxed(p, k, m) ==
  /\ p.k = k /\ p.units = m
  /\ p.wMin.n = 1 /\ p.wMin.d \in k..512
  /\ p.wMax.n \in Nat /\ p.wMax.d \in Nat \ {0} /\ p.wMax.n <= p.wMax.d
  /\ p.wMax.d <= p.wMax.n * p.wMin.d /\ p.wMax.d <= k * p.wMax.n

LEMMA SelectBox ==
  ASSUME NEW o \in Orders, o.mode = "select"
  PROVE  Boxed(MapSliders(o), Held(o), Grid(o))
<1> DEFINE p == MapSliders(o)
           k == Held(o)
           m == Grid(o)
           cap == MaxPositionCap(o.n, o.cap)
<1>1. k \in 3..256 /\ m \in 4..256 /\ k <= m /\ k \in 3..o.n /\ o.n \in Nat
  BY HeldFact
<1>2. /\ p.k = k /\ p.units = m
      /\ p.wMin = Smaller(Fraction(1, m), Fraction(1, 2 * k))
      /\ p.wMax = Larger(cap, Fraction(1, k))
  BY DEF MapSliders, CapOf, Held, Grid
<1>3. cap.n \in Nat /\ cap.d \in Nat \ {0} /\ cap.n <= cap.d
  BY CapFact, OrdersAssumption, <1>1
<1> HIDE DEF p, k, m, cap
<1>4. p.wMin.n = 1 /\ p.wMin.d \in k..512
  BY <1>1, <1>2 DEF Smaller, AtMost, Fraction
<1>5. CASE p.wMax = Fraction(1, k)
  <2>1. p.wMax.n = 1 /\ p.wMax.d = k
    BY <1>5 DEF Fraction
  <2> QED BY <1>1, <1>2, <1>4, <2>1 DEF Boxed, p, k, m
<1>6. CASE p.wMax = cap /\ ~(cap.n * k <= 1 * cap.d)
  <2>1. cap.d <= cap.n * k
    BY <1>1, <1>3, <1>6
  <2>2. cap.n * k <= cap.n * p.wMin.d
    BY <1>1, <1>3, <1>4
  <2> QED BY <1>1, <1>2, <1>3, <1>4, <1>6, <2>1, <2>2 DEF Boxed, p, k, m
<1> QED BY <1>2, <1>5, <1>6 DEF Larger, AtMost, Fraction

\* ... and in the integer grid, in whole units.
LEMMA PenalizedBox ==
  ASSUME NEW o \in Orders, o.mode = "penalized"
  PROVE  /\ Boxed(MapSliders(o), Held(o), Grid(o))
         /\ Ceiling(Grid(o), Held(o)) * MapSliders(o).wMax.d
              <= MapSliders(o).wMax.n * Grid(o)
<1> DEFINE p == MapSliders(o)
           k == Held(o)
           m == Grid(o)
           c == Ceiling(m, k)
           cap == MaxPositionCap(o.n, o.cap)
<1>1. k \in 3..256 /\ m \in 4..256 /\ k <= m /\ k \in 3..o.n /\ o.n \in Nat
  BY HeldFact
<1>2. /\ p.k = k /\ p.units = m /\ p.wMin = Fraction(1, m)
      /\ p.wMax = Larger(cap, Fraction(c, m))
  BY DEF MapSliders, CapOf, Held, Grid
<1>3. cap.n \in Nat /\ cap.d \in Nat \ {0} /\ cap.n <= cap.d
  BY CapFact, OrdersAssumption, <1>1
<1> HIDE DEF p, k, m, cap
<1>4. c \in 1..m /\ m <= k * c
  <2>1. k \in Nat \ {0} /\ m \in Nat \ {0}
    BY <1>1
  <2> QED BY <2>1, CeilingFact
<1> HIDE DEF c
<1>5. p.wMin.n = 1 /\ p.wMin.d = m
  BY <1>1, <1>2 DEF Fraction
<1>6. CASE p.wMax = Fraction(c, m)
  <2>1. p.wMax.n = c /\ p.wMax.d = m
    BY <1>6 DEF Fraction
  <2>2. m <= c * m
    BY <1>1, <1>4
  <2> QED BY <1>1, <1>2, <1>4, <1>5, <2>1, <2>2 DEF Boxed, p, k, m, c
<1>7. CASE p.wMax = cap /\ ~(cap.n * m <= c * cap.d)
  <2>1. c * cap.d <= cap.n * m
    BY <1>1, <1>3, <1>4, <1>7
  <2>2. cap.d <= c * cap.d
    BY <1>3, <1>4
  <2>3. cap.d <= k * cap.n
    <3>1. k * c * cap.d <= k * cap.n * m
      BY <1>1, <1>3, <1>4, <2>1
    <3>2. m * cap.d <= k * c * cap.d
      BY <1>1, <1>3, <1>4
    <3>4. k * cap.n * m = m * (k * cap.n)
      BY <1>1, <1>3
    <3>5. m \in Int /\ k \in Int /\ c \in Int /\ cap.d \in Int /\ cap.n \in Int
      BY <1>1, <1>3, <1>4
    <3>3. m * cap.d <= m * (k * cap.n)
      <4> DEFINE x == m * cap.d
                 y == k * c * cap.d
                 z == k * cap.n * m
      <4>1. x \in Int /\ y \in Int /\ z \in Int
        BY <3>5
      <4> HIDE DEF x, y, z
      <4>2. x <= y /\ y <= z
        BY <3>1, <3>2 DEF x, y, z
      <4>3. x <= z
        BY <4>1, <4>2
      <4> QED BY <3>4, <4>3 DEF x, z
    <3> QED BY <1>1, <1>3, <3>3
  <2>4. cap.d <= cap.n * m
    BY <1>1, <1>3, <1>4, <2>1, <2>2
  <2> QED BY <1>1, <1>2, <1>3, <1>4, <1>5, <1>7, <2>1, <2>3, <2>4 DEF Boxed, p, k, m, c
<1> QED BY <1>2, <1>6, <1>7 DEF Larger, AtMost, Fraction

\* Whatever the sliders, the problem's assertions hold.
LEMMA AlwaysAProblem ==
  ASSUME NEW o \in Orders
  PROVE  ProblemHolds(o, MapSliders(o))
<1> DEFINE p == MapSliders(o)
<1>1. CASE o.mode = "convex"
  <2> DEFINE cap == MaxPositionCap(o.n, o.cap)
  <2>1. o.n \in Nat \ {0} /\ o.cap \in 0..100
    BY OrdersAssumption
  <2>2. p.k = o.n /\ p.wMin.n = 1 /\ p.wMin.d = 4 * o.n /\ p.wMax = cap
    BY <1>1 DEF MapSliders, Fraction
  <2>3. cap.n \in Nat /\ cap.d \in Nat \ {0} /\ cap.n <= cap.d /\ cap.d <= o.n * cap.n
    BY <2>1, CapFact
  <2> HIDE DEF p, cap
  <2>4. cap.d <= cap.n * (4 * o.n)
    BY <2>1, <2>3
  <2> QED BY <2>1, <2>2, <2>3, <2>4 DEF ProblemHolds, AtMost, Fraction, p
<1>2. CASE o.mode # "convex"
  <2>1. o.mode \in {"select", "penalized"}
    BY <1>2, OrdersAssumption DEF Modes
  <2>2. Boxed(p, Held(o), Grid(o)) /\ Held(o) \in 3..o.n /\ o.n \in Nat
    BY <1>2, <2>1, SelectBox, PenalizedBox, HeldFact
  <2> HIDE DEF p
  <2> QED BY <2>2 DEF ProblemHolds, Boxed, AtMost, Fraction, p
<1> QED BY <1>1, <1>2

-----------------------------------------------------------------------------
(* The integer grid.                                                       *)

\* What the first j places of f add up to.
Reach(f, j) == {SumFunctionOnSet(f, ks) : ks \in SUBSET (0..j - 1)}

\* A place of the next power of two, or of the rest up to most, doubles the reach.
Doubles(f, j, most, t) ==
  /\ j \in Nat /\ most \in Nat /\ t \in Nat \ {0} /\ \A i \in 0..j : f[i] \in Int
  /\ f[j] = IF 2 * t - 1 <= most THEN t
            ELSE IF t - 1 <= most THEN most - (t - 1) ELSE 0
  /\ Reach(f, j) = 0..Least(most, t - 1)

LEMMA ReachStep ==
  ASSUME NEW f, NEW j, NEW most, NEW t, Doubles(f, j, most, t)
  PROVE  Reach(f, j + 1) = 0..Least(most, 2 * t - 1)
<1> USE DEF Doubles
<1>1. \A ks \in SUBSET (0..j) : /\ IsFiniteSet(ks) /\ (\A i \in ks : f[i] \in Int)
                                /\ SumFunctionOnSet(f, ks) \in Int
  <2> SUFFICES ASSUME NEW ks \in SUBSET (0..j)
               PROVE  /\ IsFiniteSet(ks) /\ (\A i \in ks : f[i] \in Int)
                      /\ SumFunctionOnSet(f, ks) \in Int
    OBVIOUS
  <2>1. IsFiniteSet(0..j)
    BY FS_Interval
  <2>2. IsFiniteSet(ks) /\ \A i \in ks : f[i] \in Int
    BY <2>1, FS_Subset
  <2> QED BY <2>2, SumInt
<1>2. 0..(j + 1) - 1 = 0..j /\ j \in 0..j
  OBVIOUS
<1>3. /\ Least(most, t - 1) \in Nat /\ Least(most, 2 * t - 1) \in Nat /\ f[j] \in Nat
      /\ Least(most, 2 * t - 1) = f[j] + Least(most, t - 1)
      /\ f[j] <= Least(most, t - 1) + 1
  BY DEF Least
<1>4. ASSUME NEW ks \in SUBSET (0..j)
      PROVE  SumFunctionOnSet(f, ks) \in 0..Least(most, 2 * t - 1)
  <2>1. CASE j \notin ks
    <3>1. ks \in SUBSET (0..j - 1)
      BY <2>1
    <3>2. SumFunctionOnSet(f, ks) \in Reach(f, j)
      BY <3>1 DEF Reach
    <3> QED BY <1>3, <3>2
  <2>2. CASE j \in ks
    <3>1. ks \ {j} \in SUBSET (0..j - 1)
      OBVIOUS
    <3>2. SumFunctionOnSet(f, ks \ {j}) \in Reach(f, j)
      BY <3>1 DEF Reach
    <3>3. SumFunctionOnSet(f, ks) = f[j] + SumFunctionOnSet(f, ks \ {j})
      BY <1>1, <2>2, SumLess
    <3> QED BY <1>3, <3>2, <3>3, SMTT(30)
  <2> QED BY <2>1, <2>2
<1>5. ASSUME NEW v \in 0..Least(most, 2 * t - 1)
      PROVE  \E ks \in SUBSET (0..j) : SumFunctionOnSet(f, ks) = v
  <2>1. CASE v <= Least(most, t - 1)
    <3>1. v \in Reach(f, j)
      BY <1>3, <2>1
    <3> QED BY <3>1 DEF Reach
  <2>2. CASE ~ (v <= Least(most, t - 1))
    <3>1. v - f[j] \in Reach(f, j)
      BY <1>3, <2>2
    <3>2. PICK ks \in SUBSET (0..j - 1) : SumFunctionOnSet(f, ks) = v - f[j]
      BY <3>1 DEF Reach
    <3>3. j \notin ks /\ ks \in SUBSET (0..j) /\ ks \union {j} \in SUBSET (0..j)
      OBVIOUS
    <3>4. IsFiniteSet(ks) /\ (\A i \in ks : f[i] \in Int) /\ f[j] \in Int
      BY <1>1, <1>3, <3>3
    <3>5. SumFunctionOnSet(f, ks \union {j}) = f[j] + SumFunctionOnSet(f, ks)
      BY <3>3, <3>4, SumMore
    <3> QED BY <1>3, <3>2, <3>3, <3>5
  <2> QED BY <2>1, <2>2
<1> QED BY <1>2, <1>4, <1>5 DEF Reach

\* The powers of two, one by one.
LEMMA PowerUp ==
  ASSUME NEW j \in 0..7
  PROVE  2^j \in Nat \ {0} /\ 2^(j + 1) = 2 * 2^j
<1>0. CASE j = 0 BY <1>0
<1>1. CASE j = 1 BY <1>1
<1>2. CASE j = 2 BY <1>2
<1>3. CASE j = 3 BY <1>3
<1>4. CASE j = 4 BY <1>4
<1>5. CASE j = 5 BY <1>5
<1>6. CASE j = 6 BY <1>6
<1>7. CASE j = 7 BY <1>7
<1> QED BY <1>0, <1>1, <1>2, <1>3, <1>4, <1>5, <1>6, <1>7

LEMMA LogFact ==
  ASSUME NEW m \in Grids
  PROVE  Log2(m) \in 2..8 /\ 2^Log2(m) = m
<1> DEFINE e == Log2(m)
<1>1. \E d \in 0..10 : 2^d = m
  BY PowersFact DEF Powers
<1>2. e \in 0..10 /\ 2^e = m
  BY <1>1 DEF Log2
<1>3. m \in 4..256
  BY DEF Grids
<1> HIDE DEF e
<1>4. e # 0 /\ e # 1 /\ e # 9 /\ e # 10
  <2>1. CASE e = 0 BY <1>2, <1>3, <2>1
  <2>2. CASE e = 1 BY <1>2, <1>3, <2>2
  <2>3. CASE e = 9 BY <1>2, <1>3, <2>3
  <2>4. CASE e = 10 BY <1>2, <1>3, <2>4
  <2> QED BY <2>1, <2>2, <2>3, <2>4
<1> QED BY <1>2, <1>4 DEF e

\* The increments up to the cap, or to the last place, are the sums of places.
LEMMA PlacesReach ==
  ASSUME NEW most \in Nat, NEW b \in 0..8
  PROVE  Reach(IncrementPlaceValues(most, b), b) = 0..Least(most, 2^b - 1)
<1> DEFINE f == IncrementPlaceValues(most, b)
           Bad == {j \in 0..b : Reach(f, j) # 0..Least(most, 2^j - 1)}
<1>1. \A j \in 0..b - 1 :
        f[j] = IF 2^(j + 1) - 1 <= most THEN 2^j
               ELSE IF 2^j - 1 <= most THEN most - (2^j - 1) ELSE 0
  BY DEF IncrementPlaceValues
<1> HIDE DEF f
<1>2. 0 \notin Bad
  <2>1. 0..0 - 1 = {}
    OBVIOUS
  <2>2. Reach(f, 0) = {0}
    BY <2>1, SumNone DEF Reach
  <2>3. 2^0 = 1
    OBVIOUS
  <2>4. Least(most, 2^0 - 1) = 0
    BY <2>3 DEF Least
  <2>5. 0..0 = {0}
    OBVIOUS
  <2> QED BY <2>2, <2>4, <2>5
<1> SUFFICES ASSUME b \in Bad PROVE FALSE
  BY DEF f
<1>3. Bad \subseteq Nat
  OBVIOUS
<1>4. PICK j \in Bad : \A k \in Bad : j <= k
  <2> HIDE DEF Bad
  <2> QED BY <1>3, LeastFact
<1>5. /\ j - 1 \in Nat /\ j - 1 \in 0..b - 1 /\ j - 1 \in 0..7 /\ j \in 0..b
      /\ (j - 1) + 1 = j
  <2>1. j # 0
    BY <1>2
  <2> QED BY <2>1
<1>6. Reach(f, j - 1) = 0..Least(most, 2^(j - 1) - 1)
  <2>1. j - 1 \notin Bad
    <3> HIDE DEF Bad
    <3> QED BY <1>4, <1>5
  <2> QED BY <1>5, <2>1
<1>7. /\ \A i \in 0..7 : 2^i \in Nat \ {0} /\ 2^(i + 1) = 2 * 2^i
  BY PowerUp
<1>8. \A i \in 0..j - 1 : f[i] \in Int
  <2> SUFFICES ASSUME NEW i \in 0..j - 1 PROVE f[i] \in Int
    OBVIOUS
  <2>1. i \in 0..b - 1 /\ i \in 0..7
    BY <1>5
  <2>2. 2^i \in Int
    BY <1>7, <2>1
  <2> QED BY <1>1, <2>1, <2>2
<1> DEFINE i == j - 1
           t == 2^i
<1>9. t \in Nat \ {0} /\ 2^(i + 1) = 2 * t
  BY <1>5, <1>7
<1>10. f[i] = IF 2 * t - 1 <= most THEN t ELSE IF t - 1 <= most THEN most - (t - 1) ELSE 0
  BY <1>1, <1>5, <1>9
<1>11. i \in Nat /\ i + 1 = j /\ Reach(f, i) = 0..Least(most, t - 1)
       /\ \A n \in 0..i : f[n] \in Int
  BY <1>5, <1>6, <1>8
<1>12. 2^j = 2 * t
  BY <1>9, <1>11
<1> HIDE DEF t, i, Bad
<1>13. Reach(f, i + 1) = 0..Least(most, 2 * t - 1)
  <2>1. Doubles(f, i, most, t)
    BY <1>9, <1>10, <1>11 DEF Doubles
  <2> QED BY <2>1, ReachStep
<1>14. Reach(f, j) = 0..Least(most, 2^j - 1)
  BY <1>11, <1>12, <1>13
<1> QED BY <1>4, <1>14 DEF Bad

\* GridReaches, of the integer grid of an order.
LEMMA GridFact ==
  ASSUME NEW o \in Orders, o.mode = "penalized", NEW p, p = MapSliders(o)
  PROVE  LET bits   == Increments(p)
             values == {SumFunctionOnSet(bits, ks) : ks \in SUBSET DOMAIN bits}
             top    == Least(MostIncrement(p), 2^IncrementBits(p.units) - 1)
         IN /\ values = 0..top
            /\ p.k <= p.units /\ p.k * (1 + top) >= p.units
<1> DEFINE k == Held(o)
           m == Grid(o)
           c == Ceiling(m, k)
           b == IncrementBits(m)
           most == MostIncrement(p)
           top == Least(most, 2^b - 1)
<1>1. k \in 3..256 /\ m \in 4..256 /\ k <= m /\ m \in Grids
  BY HeldFact
<1>2. Boxed(p, k, m) /\ c * p.wMax.d <= p.wMax.n * m
  BY PenalizedBox
<1>3. b \in 0..7 /\ 2 * 2^b = m /\ 2^b \in Nat
  <2>1. Log2(m) \in 2..8 /\ 2^Log2(m) = m
    <3> HIDE DEF m
    <3> QED BY <1>1, LogFact
  <2>2. b \in 0..7 /\ b + 1 = Log2(m)
    BY <2>1 DEF IncrementBits
  <2> HIDE DEF b, m
  <2> QED BY <2>1, <2>2, PowerUp
<1> HIDE DEF k, m, c, b
<1>4. c \in 1..m /\ m <= k * c
  <2>1. k \in Nat \ {0} /\ m \in Nat \ {0}
    BY <1>1
  <2> QED BY <2>1, CeilingFact DEF c
<1>5. most \in Nat /\ c <= 1 + most
  <2> DEFINE q == (p.wMax.n * m) \div p.wMax.d
  <2>1. p.wMax.n * m \in Nat /\ p.wMax.d \in Nat \ {0} /\ c \in Nat /\ p.units = m
    BY <1>1, <1>2, <1>4 DEF Boxed
  <2>2. q \in Nat /\ c <= q
    BY <1>2, <2>1, QuotientFact
  <2>3. most = Most(0, q - 1)
    BY <2>1 DEF MostIncrement
  <2> HIDE DEF q, most
  <2> QED BY <1>4, <2>2, <2>3 DEF Most
<1>6. Increments(p) = IncrementPlaceValues(most, b)
  BY <1>2 DEF Increments, Boxed, b
<1> HIDE DEF most
<1>7. DOMAIN Increments(p) = 0..b - 1
  BY <1>6 DEF IncrementPlaceValues
<1>8. Reach(Increments(p), b) = 0..top
  <2>1. b \in 0..8
    BY <1>3
  <2>2. Reach(IncrementPlaceValues(most, b), b) = 0..top
    BY <1>5, <2>1, PlacesReach
  <2> QED BY <1>6, <2>2
<1>9. k * (1 + top) >= m
  <2>1. CASE top = most
    <3>1. k * c <= k * (1 + most)
      BY <1>1, <1>4, <1>5
    <3> QED BY <1>1, <1>4, <1>5, <2>1, <3>1
  <2>2. CASE top = 2^b - 1
    <3>1. 2 * 2^b <= k * 2^b
      BY <1>1, <1>3
    <3> QED BY <1>3, <2>2, <3>1
  <2> QED BY <2>1, <2>2 DEF Least
<1>10. p.k = k /\ p.units = m /\ top = Least(MostIncrement(p), 2^IncrementBits(p.units) - 1)
  BY <1>2 DEF Boxed, b, most
<1> QED BY <1>1, <1>7, <1>8, <1>9, <1>10 DEF Reach

\* A finite set of integers has a greatest, and integers over one have a least place.
LEMMA MaxInt ==
  ASSUME NEW S \in SUBSET Int, IsFiniteSet(S), S # {}
  PROVE  Max(S) \in S /\ \A x \in S : x <= Max(S)
<1> DEFINE P == {T \in SUBSET S : T # {} => \E y \in T : \A x \in T : x <= y}
<1>1. {} \in P
  OBVIOUS
<1>2. ASSUME NEW T \in SUBSET S, NEW x \in S, T \in P, x \notin T PROVE T \union {x} \in P
  <2>1. CASE T = {}
    BY <2>1
  <2>2. CASE T # {}
    <3>1. PICK y \in T : \A z \in T : z <= y
      BY <1>2, <2>2
    <3>2. x \in Int /\ y \in Int
      OBVIOUS
    <3>3. CASE x <= y
      <4>1. \A z \in T \union {x} : z <= y
        BY <3>1, <3>3
      <4> QED BY <4>1
    <3>4. CASE y <= x
      <4>1. \A z \in T \union {x} : z \in Int /\ z <= x
        BY <3>1, <3>2, <3>4
      <4> QED BY <4>1
    <3> QED BY <3>2, <3>3, <3>4
  <2> QED BY <2>1, <2>2
<1>3. S \in P
  <2> HIDE DEF P
  <2> QED BY <1>1, <1>2, SetInduction
<1> QED BY <1>3 DEF Max

LEMMA LeastPlace ==
  ASSUME NEW S, IsFiniteSet(S), S # {}, NEW v, \A x \in S : v[x] \in Int
  PROVE  \E y \in S : \A x \in S : v[y] <= v[x]
<1> DEFINE P == {T \in SUBSET S : T # {} => \E y \in T : \A x \in T : v[y] <= v[x]}
<1>1. {} \in P
  OBVIOUS
<1>2. ASSUME NEW T \in SUBSET S, NEW x \in S, T \in P, x \notin T PROVE T \union {x} \in P
  <2>1. CASE T = {}
    BY <2>1
  <2>2. CASE T # {}
    <3>1. PICK y \in T : \A z \in T : v[y] <= v[z]
      BY <1>2, <2>2
    <3>2. v[x] \in Int /\ v[y] \in Int
      OBVIOUS
    <3>3. CASE v[y] <= v[x]
      <4>1. \A z \in T \union {x} : v[y] <= v[z]
        BY <3>1, <3>3
      <4> QED BY <4>1
    <3>4. CASE v[x] <= v[y]
      <4>1. \A z \in T \union {x} : v[z] \in Int /\ v[x] <= v[z]
        BY <3>1, <3>2, <3>4
      <4> QED BY <4>1
    <3> QED BY <3>2, <3>3, <3>4
  <2> QED BY <2>1, <2>2
<1>3. S \in P
  <2> HIDE DEF P
  <2> QED BY <1>1, <1>2, SetInduction
<1> QED BY <1>3

-----------------------------------------------------------------------------
(* The repair of a read and its weights.                                   *)

\* The data of an order's basket.
LEMMA BasketFact ==
  ASSUME order \in Orders
  PROVE  /\ N \in Nat \ {0} /\ Assets \subseteq Universe /\ Assets \subseteq Nat
         /\ IsFiniteSet(Assets) /\ Cardinality(Assets) = N
         /\ HalfGamma \in Nat \ {0}
         /\ \A i \in Assets : Mu[i] \in Int
         /\ \A i, j \in Assets : Rho[i][j] \in Int /\ Sigma(i, j) \in Int
<1>1. N \in Nat \ {0} /\ Assets \subseteq Universe
  BY OrdersAssumption, DataAssumption DEF N, Assets, Basket
<1>2. IsFiniteSet(Assets) /\ Cardinality(Assets) = N /\ Assets \subseteq Nat
  <2>1. Assets = 1..N
    BY DEF Assets, Basket, N
  <2>2. N \in Int /\ 1 \in Int /\ ~(1 > N) /\ N - 1 + 1 = N
    BY <1>1
  <2>3. IsFiniteSet(1..N) /\ Cardinality(1..N) = IF 1 > N THEN 0 ELSE N - 1 + 1
    <3> DEFINE top == N
    <3>1. top \in Int
      BY <2>2
    <3> HIDE DEF top
    <3>2. IsFiniteSet(1..top) /\ Cardinality(1..top) = IF 1 > top THEN 0 ELSE top - 1 + 1
      BY <3>1, FS_Interval
    <3> QED BY <3>2 DEF top
  <2>4. 1..N \subseteq Nat
    BY <2>2
  <2> QED BY <2>1, <2>2, <2>3, <2>4
<1>3. \A i \in Assets : Mu[i] \in Int /\ Sd[i] \in Int
  BY <1>1, DataAssumption
<1>4. \A i, j \in Assets : Rho[i][j] \in Int
  BY <1>1, DataAssumption
<1>5. \A i, j \in Assets : Sigma(i, j) \in Int
  BY <1>3, <1>4 DEF Sigma
<1> QED BY <1>1, <1>2, <1>3, <1>4, <1>5, DataAssumption

\* The scale of the frustration's beta, and the value of a subset, are integers.
LEMMA ScaleFact ==
  ASSUME order \in Orders, NEW k \in Nat
  PROVE  SelectScale(order, k) \in Int
<1> DEFINE D == {Size(HalfGamma * Sigma(i, i) - k * Mu[i]) : i \in Assets}
           pairs == {d \in Assets \X Assets : d[1] # d[2]}
           U == {2 * HalfGamma * Size(Sigma(e[1], e[2])) : e \in pairs}
<1>1. IsFiniteSet(D)
  <2> DEFINE f == [i \in Assets |-> Size(HalfGamma * Sigma(i, i) - k * Mu[i])]
  <2>1. D = {f[i] : i \in Assets}
    OBVIOUS
  <2> HIDE DEF f, D
  <2> QED BY <2>1, BasketFact, ValuesFinite
<1>2. IsFiniteSet(pairs)
  BY BasketFact, FS_Product, FS_Subset
<1>3. IsFiniteSet(U)
  <2> DEFINE f == [e \in pairs |-> 2 * HalfGamma * Size(Sigma(e[1], e[2]))]
  <2>1. U = {f[e] : e \in pairs}
    OBVIOUS
  <2> HIDE DEF pairs, f, U
  <2> QED BY <1>2, <2>1, ValuesFinite
<1>4. D \subseteq Int
  BY BasketFact DEF Size
<1>5. U \subseteq Int
  BY BasketFact DEF Size
<1>6. IsFiniteSet({1} \union D \union U)
  <2> HIDE DEF D, U
  <2> QED BY <1>1, <1>3, FS_Singleton, FS_Union
<1>7. SelectScale(order, k) = Max({1} \union D \union U)
  BY DEF SelectScale, Assets
<1> HIDE DEF D, U
<1>8. {1} \union D \union U \in SUBSET Int /\ {1} \union D \union U # {}
  BY <1>4, <1>5
<1>9. Max({1} \union D \union U) \in {1} \union D \union U
  BY <1>6, <1>8, MaxInt
<1> QED BY <1>7, <1>8, <1>9

LEMMA ShareFact ==
  ASSUME NEW c \in Config, NEW n \in Nat
  PROVE  BetaShare(c, n).n \in Nat /\ BetaShare(c, n).d \in Nat \ {0}
<1> DEFINE span == Most(1, c.betaFull - c.betaFrom)
<1>1. c.betaFull \in Nat /\ c.betaFrom \in Nat
  BY DEF Config
<1>2. span \in Nat \ {0}
  BY <1>1 DEF Most
<1>3. n >= c.betaFrom => Least(span, n - c.betaFrom) \in Nat
  <2> HIDE DEF span
  <2> QED BY <1>1, <1>2 DEF Least
<1>4. BetaShare(c, n) = IF n < c.betaFrom THEN Fraction(0, 1)
                        ELSE Fraction(3 * span + Least(span, n - c.betaFrom), 10 * span)
  BY DEF BetaShare
<1> HIDE DEF span
<1>5. CASE n < c.betaFrom
  BY <1>4, <1>5 DEF Fraction
<1>6. CASE ~(n < c.betaFrom)
  BY <1>1, <1>2, <1>3, <1>4, <1>6 DEF Fraction
<1> QED BY <1>5, <1>6

LEMMA ValueInt ==
  ASSUME order \in Orders, params.k \in Nat, NEW s \in SUBSET Assets
  PROVE  SubsetValue(s) \in Int
<1> DEFINE share == BetaShare(order.conf, N)
           pairs == {e \in s \X s : e[1] < e[2]}
           quad == [e \in s \X s |-> Sigma(e[1], e[2])]
           lin == [i \in s |-> Mu[i]]
           close == [e \in pairs |-> Rho[e[1]][e[2]]]
<1>1. IsFiniteSet(s) /\ IsFiniteSet(s \X s) /\ IsFiniteSet(pairs)
  <2>1. IsFiniteSet(s)
    BY BasketFact, FS_Subset
  <2>2. IsFiniteSet(s \X s)
    BY <2>1, FS_Product
  <2> QED BY <2>1, <2>2, FS_Subset
<1>2. SumFunction(quad) \in Int
  <2>1. DOMAIN quad = s \X s /\ \A e \in s \X s : quad[e] \in Int
    BY BasketFact
  <2> HIDE DEF quad
  <2> QED BY <1>1, <2>1, SumInt DEF SumFunction
<1>3. SumFunction(lin) \in Int
  <2>1. DOMAIN lin = s /\ \A i \in s : lin[i] \in Int
    BY BasketFact
  <2> HIDE DEF lin
  <2> QED BY <1>1, <2>1, SumInt DEF SumFunction
<1>4. SumFunction(close) \in Int
  <2>1. DOMAIN close = pairs /\ \A e \in pairs : close[e] \in Int
    BY BasketFact
  <2> HIDE DEF close, pairs
  <2> QED BY <1>1, <2>1, SumInt DEF SumFunction
<1>5. share.n \in Int /\ share.d \in Int
  BY ShareFact, BasketFact, OrdersAssumption
<1>6. SelectScale(order, params.k) \in Int
  BY ScaleFact
<1>7. SubsetValue(s) = 2 * share.d * (HalfGamma * SumFunction(quad)
                                        - params.k * SumFunction(lin))
                         + 2 * share.n * SelectScale(order, params.k) * SumFunction(close)
  BY DEF SubsetValue
<1>8. HalfGamma \in Int /\ params.k \in Int
  BY BasketFact
<1> HIDE DEF share, quad, lin, close
<1> QED BY <1>2, <1>3, <1>4, <1>5, <1>6, <1>7, <1>8

\* A round of the repair brings a subset one nearer to k.
LEMMA BestMoveFact ==
  ASSUME order \in Orders, params.k \in 0..N, NEW s \in SUBSET Assets,
         Cardinality(s) # params.k
  PROVE  /\ BestMove(s) \in SUBSET Assets
         /\ Cardinality(s) > params.k => Cardinality(BestMove(s)) = Cardinality(s) - 1
         /\ Cardinality(s) < params.k => Cardinality(BestMove(s)) = Cardinality(s) + 1
<1> DEFINE many == Cardinality(s) > params.k
           moves == IF many THEN s ELSE Assets \ s
           after == [i \in moves |-> IF many THEN s \ {i} ELSE s \union {i}]
           val == [i \in moves |-> SubsetValue(after[i])]
           best == {i \in moves : \A j \in moves : SubsetValue(after[i]) <= SubsetValue(after[j])}
<1>1. /\ IsFiniteSet(s) /\ Cardinality(s) \in Nat /\ IsFiniteSet(Assets)
      /\ Cardinality(Assets) = N /\ N \in Nat /\ params.k \in Nat /\ params.k <= N
  BY BasketFact, FS_Subset, FS_CardinalityType
<1>2. moves \subseteq Assets /\ IsFiniteSet(moves) /\ moves \subseteq Nat
  BY <1>1, BasketFact, FS_Subset
<1>3. moves # {}
  <2>1. CASE many
    <3>1. s # {}
      BY <1>1, <2>1, FS_EmptySet
    <3> QED BY <2>1, <3>1
  <2>2. CASE ~many
    <3>1. s # Assets
      BY <1>1, <2>2
    <3> QED BY <2>2, <3>1
  <2> QED BY <2>1, <2>2
<1>4. \A i \in moves : after[i] \in SUBSET Assets
  OBVIOUS
<1>5. \A i \in moves : val[i] \in Int /\ val[i] = SubsetValue(after[i])
  <2> HIDE DEF moves, after
  <2> QED BY <1>1, <1>4, ValueInt
<1>6. Min(best) \in moves
  <2>1. \E i \in moves : \A j \in moves : val[i] <= val[j]
    <3> HIDE DEF moves, val
    <3> QED BY <1>2, <1>3, <1>5, LeastPlace
  <2>2. best # {} /\ best \in SUBSET Nat
    <3> HIDE DEF moves, val, after
    <3> QED BY <1>2, <1>5, <2>1, ZenonT(30)
  <2>3. Min(best) \in best
    <3> HIDE DEF best
    <3> QED BY <2>2, MinFact
  <2> HIDE DEF moves, after
  <2> QED BY <2>3
<1>7. BestMove(s) = after[Min(best)]
  BY DEF BestMove
<1> HIDE DEF best
<1>8. CASE many
  <2>1. BestMove(s) = s \ {Min(best)} /\ Min(best) \in s
    BY <1>6, <1>7, <1>8
  <2>2. Cardinality(s \ {Min(best)}) = Cardinality(s) - 1
    BY <1>1, <2>1, FS_RemoveElement
  <2> QED BY <1>1, <1>8, <2>1, <2>2
<1>9. CASE ~many
  <2>1. BestMove(s) = s \union {Min(best)} /\ Min(best) \in Assets \ s
    BY <1>6, <1>7, <1>9
  <2>2. Cardinality(s \union {Min(best)}) = Cardinality(s) + 1
    BY <1>1, <2>1, FS_AddElement
  <2> QED BY <1>1, <1>9, <2>1, <2>2
<1> QED BY <1>8, <1>9

\* The repair ends in a subset of k assets.
LEMMA GreedyFact ==
  ASSUME order \in Orders, params.k \in 0..N, sample \subseteq Assets \X {0}
  PROVE  GreedyProject \in SUBSET Assets /\ Cardinality(GreedyProject) = params.k
<1> DEFINE k == params.k
           D == SUBSET Assets
           R == {s \in D : Cardinality(s) = k}
           base == [s \in D |-> s]
           then == [s \in D |-> [r \in R |-> r]]
           next == [s \in D |-> IF s \in R THEN s ELSE BestMove(s)]
           m == [s \in D |-> IF Cardinality(s) > k THEN Cardinality(s) - k
                             ELSE k - Cardinality(s)]
           Is(f) == f = [s \in D |-> IF Cardinality(s) = k THEN s ELSE f[BestMove(s)]]
           g == CHOOSE f : Is(f)
<1>1. k \in Nat /\ \A s \in D : Cardinality(s) \in Nat
  BY BasketFact, FS_Subset, FS_CardinalityType
<1>2. \A s \in D : s \notin R =>
        /\ BestMove(s) \in D
        /\ Cardinality(s) > k => Cardinality(BestMove(s)) = Cardinality(s) - 1
        /\ Cardinality(s) < k => Cardinality(BestMove(s)) = Cardinality(s) + 1
  BY BestMoveFact
<1>3. next \in [D -> D] /\ m \in [D -> Nat] /\ then \in [D -> [R -> R]]
  <2>1. next \in [D -> D]
    BY <1>2
  <2>2. m \in [D -> Nat]
    BY <1>1
  <2>3. then \in [D -> [R -> R]]
    OBVIOUS
  <2> QED BY <2>1, <2>2, <2>3
<1>4. \A s \in D : s \notin R => m[next[s]] < m[s]
  <2> SUFFICES ASSUME NEW s \in D, s \notin R PROVE m[next[s]] < m[s]
    OBVIOUS
  <2>1. next[s] = BestMove(s) /\ BestMove(s) \in D /\ Cardinality(s) # k
    BY <1>2
  <2>2. Cardinality(s) \in Nat /\ k \in Nat
    BY <1>1
  <2>3. CASE Cardinality(s) > k
    <3>1. Cardinality(BestMove(s)) = Cardinality(s) - 1
      BY <1>2, <2>3
    <3>2. m[s] = Cardinality(s) - k
      BY <2>3
    <3>3. m[BestMove(s)] = Cardinality(s) - 1 - k
      BY <2>1, <2>2, <2>3, <3>1
    <3> QED BY <2>1, <2>2, <3>2, <3>3
  <2>4. CASE Cardinality(s) < k
    <3>1. Cardinality(BestMove(s)) = Cardinality(s) + 1
      BY <1>2, <2>4
    <3>2. m[s] = k - Cardinality(s)
      BY <2>2, <2>4
    <3>3. m[BestMove(s)] = k - (Cardinality(s) + 1)
      BY <2>1, <2>2, <2>4, <3>1
    <3> QED BY <2>1, <2>2, <3>2, <3>3
  <2> QED BY <2>1, <2>2, <2>3, <2>4
<1>5. \E f : Is(f)
  <2>1. Descends(D, R, R, base, then, next, m)
    <3>1. \A s \in D : s \in R => base[s] \in R
      OBVIOUS
    <3> HIDE DEF D, R, base, then, next, m
    <3> QED BY <1>3, <1>4, <3>1 DEF Descends
  <2>2. \E f \in [D -> R] :
          \A s \in D : f[s] = IF s \in R THEN base[s] ELSE then[s][f[next[s]]]
    <3> HIDE DEF D, R, base, then, next, m
    <3> QED BY <2>1, LoopFact
  <2>3. PICK f \in [D -> R] :
          \A s \in D : f[s] = IF s \in R THEN base[s] ELSE then[s][f[next[s]]]
    BY <2>2
  <2>4. \A s \in D : f[s] = IF Cardinality(s) = k THEN s ELSE f[BestMove(s)]
    BY <1>2, <2>3
  <2>5. Is(f)
    <3> HIDE DEF D
    <3> QED BY <2>3, <2>4
  <2> QED BY <2>5
<1>6. g = [s \in D |-> IF Cardinality(s) = k THEN s ELSE g[BestMove(s)]]
  <2>1. Is(g)
    <3> HIDE DEF Is
    <3> QED BY <1>5
  <2> HIDE DEF g
  <2> QED BY <2>1
<1>7. GreedyProject = g[{v[1] : v \in sample}]
  BY DEF GreedyProject
<1>8. {v[1] : v \in sample} \in D
  OBVIOUS
<1> HIDE DEF g, Is
<1>9. \A s \in D : g[s] \in R
  <2> SUFFICES ASSUME NEW t \in D, g[t] \notin R PROVE FALSE
    OBVIOUS
  <2> DEFINE Bad == {n \in Nat : \E s \in D : m[s] = n /\ g[s] \notin R}
  <2>1. PICK n \in Bad : \A j \in Bad : n <= j
    <3>1. m[t] \in Bad /\ Bad \subseteq Nat
      <4> HIDE DEF m, D, R
      <4> QED BY <1>3
    <3> HIDE DEF Bad
    <3> QED BY <3>1, LeastFact
  <2>2. PICK s \in D : m[s] = n /\ g[s] \notin R
    BY <2>1
  <2>3. s \notin R
    BY <1>6, <2>2
  <2>4. g[s] = g[BestMove(s)] /\ next[s] = BestMove(s)
    BY <1>6, <2>3
  <2>5. next[s] \in D /\ m[next[s]] \in Nat /\ m[next[s]] < n
    <3> HIDE DEF D, R, next, m
    <3> QED BY <1>3, <1>4, <2>2, <2>3
  <2>6. m[next[s]] \in Bad
    <3> HIDE DEF D, R, next, m
    <3> QED BY <2>2, <2>4, <2>5
  <2>7. n \in Nat
    OBVIOUS
  <2> HIDE DEF Bad, m, next
  <2> QED BY <2>1, <2>5, <2>6, <2>7
<1> QED BY <1>7, <1>8, <1>9

\* A share of the budget for each of k assets, each within the box, passes the gate.
LEMMA SpreadFeasible ==
  ASSUME order \in Orders, order.mode = "select",
         NEW m, Boxed(params, params.k, m), params.k \in Nat \ {0},
         NEW s \in SUBSET Assets, Cardinality(s) = params.k,
         NEW w, NEW over \in Nat \ {0}, \A i \in s : w[i] \in Int /\ InBox(w[i], over),
         SumFunctionOnSet(w, s) = over
  PROVE  Feasible(Spread(s, w, over))
<1> DEFINE of == [i \in Assets |-> IF i \in s THEN w[i] ELSE 0]
           x == Spread(s, w, over)
           held == {i \in Assets : 1000 * of[i] > over}
           lo == params.wMin
           hi == params.wMax
<1>1. /\ lo.n = 1 /\ lo.d \in Nat \ {0} /\ lo.d <= 512
      /\ hi.n \in Nat /\ hi.d \in Nat \ {0}
  BY DEF Boxed
<1>2. x.of = of /\ x.over = over
  BY DEF Spread
<1>3. SumFunction(of) = over
  <2>1. IsFiniteSet(Assets) /\ IsFiniteSet(s) /\ DOMAIN of = Assets
    BY BasketFact, FS_Subset
  <2>2. /\ \A i \in Assets : of[i] \in Int
        /\ \A i \in Assets \ s : of[i] = 0
        /\ \A i \in s : w[i] \in Int /\ of[i] = w[i]
    OBVIOUS
  <2> HIDE DEF of
  <2>3. SumFunctionOnSet(of, Assets) = SumFunctionOnSet(of, s)
    BY <2>1, <2>2, SumPart
  <2>4. SumFunctionOnSet(of, s) = SumFunctionOnSet(w, s)
    BY <2>1, <2>2, SumSame
  <2> QED BY <2>1, <2>3, <2>4 DEF SumFunction
<1>4. ASSUME NEW i \in s
      PROVE  /\ w[i] \in Int /\ w[i] > 0 /\ 1000 * w[i] > over
             /\ over <= w[i] * lo.d /\ w[i] * hi.d <= hi.n * over
  <2>1. w[i] \in Int /\ over <= w[i] * lo.d /\ w[i] * hi.d <= hi.n * over
    BY <1>1 DEF InBox
  <2>2. w[i] > 0
    <3> SUFFICES ASSUME w[i] <= 0 PROVE FALSE
      BY <2>1
    <3>1. w[i] * lo.d <= 0
      BY <1>1, <2>1
    <3> QED BY <2>1, <3>1, <1>1
  <2>3. w[i] * lo.d <= w[i] * 512
    BY <1>1, <2>1, <2>2
  <2> QED BY <1>1, <2>1, <2>2, <2>3
<1>5. held = s
  <2>1. \A i \in s : i \in held
    BY <1>4
  <2>2. \A i \in Assets \ s : i \notin held
    OBVIOUS
  <2> QED BY <2>1, <2>2
<1>6. 1000 * Size(SumFunction(of) - over) <= over
  BY <1>3 DEF Size
<1>7. \A i \in Assets : 1000 * (of[i] * hi.d - hi.n * over) <= over * hi.d
  <2> SUFFICES ASSUME NEW i \in Assets
               PROVE  1000 * (of[i] * hi.d - hi.n * over) <= over * hi.d
    OBVIOUS
  <2>1. over * hi.d \in Nat /\ hi.n * over \in Nat
    BY <1>1
  <2>2. of[i] * hi.d \in Int /\ of[i] * hi.d <= hi.n * over
    <3>1. CASE i \in s
      BY <1>1, <1>4, <3>1
    <3>2. CASE i \notin s
      <4>1. of[i] = 0
        BY <3>2
      <4>2. of[i] * hi.d = 0
        BY <1>1, <4>1
      <4> QED BY <2>1, <4>2
    <3> QED BY <3>1, <3>2
  <2> HIDE DEF of, hi
  <2> QED BY <2>1, <2>2
<1>8. \A i \in held : 1000 * (lo.n * over - of[i] * lo.d) <= over * lo.d
  <2> SUFFICES ASSUME NEW i \in s
               PROVE  1000 * (lo.n * over - of[i] * lo.d) <= over * lo.d
    <3> HIDE DEF held, of, lo
    <3> QED BY <1>5
  <2>1. over * lo.d \in Nat /\ w[i] * lo.d \in Int /\ lo.n * over = over
    BY <1>1, <1>4
  <2>2. of[i] = w[i] /\ over <= w[i] * lo.d
    BY <1>4
  <2> HIDE DEF of, lo
  <2> QED BY <2>1, <2>2
<1>9. Cardinality(held) = params.k
  BY <1>5
<1>10. {i \in Assets : 1000 * x.of[i] > x.over} = held
  <2> HIDE DEF of, x
  <2> QED BY <1>2
<1> HIDE DEF of, x, held
<1>11. Feasible(x)
  <2>1. /\ 1000 * Size(SumFunction(x.of) - x.over) <= x.over
        /\ \A i \in Assets : 1000 * (x.of[i] * hi.d - hi.n * x.over) <= x.over * hi.d
        /\ \A i \in held : 1000 * (lo.n * x.over - x.of[i] * lo.d) <= x.over * lo.d
    <3> HIDE DEF hi, lo
    <3> QED BY <1>2, <1>6, <1>7, <1>8
  <2> DEFINE seen == {i \in Assets : 1000 * x.of[i] > x.over}
             floored == IF order.mode = "convex" THEN Assets ELSE seen
  <2>2. floored = held /\ seen = held
    BY <1>10
  <2> HIDE DEF floored, seen
  <2>3. Feasible(x) <=>
          /\ 1000 * Size(SumFunction(x.of) - x.over) <= x.over
          /\ \A i \in Assets : 1000 * (x.of[i] * hi.d - hi.n * x.over) <= x.over * hi.d
          /\ \A i \in floored : 1000 * (lo.n * x.over - x.of[i] * lo.d) <= x.over * lo.d
          /\ order.mode # "convex" => Cardinality(seen) = params.k
    BY Zenon DEF Feasible, floored, seen
  <2> QED BY <1>9, <2>1, <2>2, <2>3
<1> QED BY <1>11 DEF x

\* Whatever the optimizer returns, the weights of a subset of k assets pass the gate.
LEMMA WeighedFeasible ==
  ASSUME order \in Orders, order.mode = "select", params = MapSliders(order),
         NEW s \in SUBSET Assets, Cardinality(s) = params.k, NEW w \in OptimalWeights(s)
  PROVE  Feasible(w)
<1> DEFINE m == Grid(order)
           k == params.k
<1>1. Boxed(params, k, m) /\ k \in Nat \ {0}
  <2>1. Boxed(params, Held(order), m)
    BY SelectBox
  <2>2. k = Held(order)
    BY <2>1 DEF Boxed
  <2> QED BY <2>1, <2>2, HeldFact
<1> HIDE DEF m
<1>2. IsFiniteSet(s)
  BY BasketFact, FS_Subset
<1>3. CASE w = Spread(s, [i \in s |-> 1], k)
  <2> DEFINE ones == [i \in s |-> 1]
  <2>1. \A i \in s : ones[i] = 1
    OBVIOUS
  <2>2. SumFunctionOnSet(ones, s) = k
    <3> HIDE DEF ones
    <3> QED BY <1>2, <2>1, SumOnes
  <2>3. InBox(1, k)
    BY <1>1 DEF InBox, Boxed
  <2>4. \A i \in s : ones[i] \in Int /\ InBox(ones[i], k)
    BY <2>3
  <2> HIDE DEF ones
  <2>5. Feasible(Spread(s, ones, k))
    BY <1>1, <2>2, <2>4, SpreadFeasible
  <2> QED BY <1>3, <2>5 DEF ones
<1>4. CASE w # Spread(s, [i \in s |-> 1], k)
  <2>1. PICK t \in [s -> Tilts] : /\ SumFunction(t) = Parts
                                  /\ \A i \in s : InBox(t[i], Parts)
                                  /\ w = Spread(s, t, Parts)
    BY <1>4 DEF OptimalWeights
  <2>2. \A i \in s : t[i] \in Int /\ InBox(t[i], Parts)
    BY <2>1, DataAssumption
  <2>3. SumFunctionOnSet(t, s) = Parts
    BY <2>1 DEF SumFunction
  <2>4. Parts \in Nat \ {0}
    BY DataAssumption
  <2>5. Feasible(Spread(s, t, Parts))
    BY <1>1, <2>2, <2>3, <2>4, SpreadFeasible
  <2> QED BY <2>1, <2>5
<1> QED BY <1>3, <1>4

-----------------------------------------------------------------------------
(* Energies.                                                               *)

\* q is the full matrix of a quadratic and a linear part.
IsQubo(q, vs, quad, lin) ==
  /\ IsFiniteSet(vs)
  /\ \A u, v \in vs : /\ quad[<<u, v>>] \in Int /\ lin[v] \in Int
                      /\ q[<<u, v>>] = quad[<<u, v>>] + (IF u = v THEN lin[u] ELSE 0)

\* A matrix is its quadratic part, with the linear one on the diagonal.
OnDiagonal(q, vs, quad, lin) ==
  /\ DOMAIN q = vs \X vs
  /\ \A u, v \in vs : q[<<u, v>>] = quad[<<u, v>>] + (IF u = v THEN lin[u] ELSE 0)

LEMMA MatrixFact ==
  ASSUME NEW quad, NEW lin, NEW vs, DOMAIN quad = vs \X vs
  PROVE  OnDiagonal(Matrix(quad, lin), vs, quad, lin)
<1> DEFINE D == DOMAIN quad
<1>1. Matrix(quad, lin) = [e \in D |-> quad[e] + (IF e[1] = e[2] THEN lin[e[1]] ELSE 0)]
  BY DEF Matrix
<1> HIDE DEF D
<1>2. DOMAIN Matrix(quad, lin) = D
  BY <1>1
<1>3. \A e \in D : Matrix(quad, lin)[e] = quad[e] + (IF e[1] = e[2] THEN lin[e[1]] ELSE 0)
  BY <1>1
<1>4. \A u, v \in vs : <<u, v>> \in D
  BY DEF D
<1>5. \A u, v \in vs : Matrix(quad, lin)[<<u, v>>]
                         = quad[<<u, v>>] + (IF u = v THEN lin[u] ELSE 0)
  BY <1>3, <1>4
<1> QED BY <1>2, <1>5 DEF D, OnDiagonal

\* The energy of a sample, part by part.
LEMMA MatrixEnergy ==
  ASSUME NEW vs, NEW quad, NEW lin, IsQubo(qubo.q, vs, quad, lin), sample \subseteq vs
  PROVE  /\ Energy = SumFunctionOnSet(quad, sample \X sample) + SumFunctionOnSet(lin, sample)
         /\ SumFunctionOnSet(quad, sample \X sample) \in Int
         /\ SumFunctionOnSet(lin, sample) \in Int
<1> DEFINE S == sample
           q == qubo.q
           off == {d \in S \X S : d[1] # d[2]}
           on == {d \in S \X S : d[1] = d[2]}
           qd == [v \in S |-> q[<<v, v>>]]
           qo == [e \in off |-> q[e]]
           dq == [v \in S |-> quad[<<v, v>>]]
<1>1. /\ IsFiniteSet(S) /\ IsFiniteSet(S \X S) /\ IsFiniteSet(off) /\ IsFiniteSet(on)
  <2>1. IsFiniteSet(S) /\ IsFiniteSet(S \X S)
    BY FS_Subset, FS_Product DEF IsQubo
  <2> QED BY <2>1, FS_Subset
<1>2. \A u, v \in S : /\ quad[<<u, v>>] \in Int /\ lin[v] \in Int
                      /\ q[<<u, v>>] = quad[<<u, v>>] + (IF u = v THEN lin[u] ELSE 0)
  BY DEF IsQubo
<1>3. \A e \in S \X S : e[1] \in S /\ e[2] \in S /\ e = <<e[1], e[2]>> /\ quad[e] \in Int
  <2> SUFFICES ASSUME NEW e \in S \X S
               PROVE  e[1] \in S /\ e[2] \in S /\ e = <<e[1], e[2]>> /\ quad[e] \in Int
    OBVIOUS
  <2>1. e[1] \in S /\ e[2] \in S /\ e = <<e[1], e[2]>>
    OBVIOUS
  <2>2. quad[<<e[1], e[2]>>] \in Int
    BY <1>2, <2>1
  <2> QED BY <2>1, <2>2
<1>4. Energy = SumFunctionOnSet(qd, S) + SumFunctionOnSet(qo, off)
  BY DEF Energy, SumFunction
<1>5. SumFunctionOnSet(qo, off) = SumFunctionOnSet(quad, off)
  <2>1. \A e \in off : quad[e] \in Int /\ qo[e] = quad[e]
    <3> SUFFICES ASSUME NEW e \in off PROVE quad[e] \in Int /\ qo[e] = quad[e]
      OBVIOUS
    <3>1. e \in S \X S /\ e[1] # e[2] /\ qo[e] = q[e]
      OBVIOUS
    <3>2. e[1] \in S /\ e[2] \in S /\ e = <<e[1], e[2]>> /\ quad[e] \in Int
      BY <1>3, <3>1
    <3>3. q[<<e[1], e[2]>>] = quad[<<e[1], e[2]>>] + 0
      BY <1>2, <3>1, <3>2
    <3> HIDE DEF qo, off
    <3> QED BY <3>1, <3>2, <3>3
  <2> HIDE DEF qo, off
  <2> QED BY <1>1, <2>1, SumSame
<1>6. SumFunctionOnSet(quad, on) = SumFunctionOnSet(dq, S)
  <2> DEFINE r == [v \in S |-> <<v, v>>]
  <2>1. on = {r[v] : v \in S}
    <3>1. \A v \in S : r[v] \in on
      OBVIOUS
    <3>2. \A e \in on : e[1] \in S /\ e = r[e[1]]
      OBVIOUS
    <3> HIDE DEF on, r
    <3> QED BY <3>1, <3>2
  <2>2. \A v \in S : dq[v] \in Int /\ quad[r[v]] = dq[v]
    BY <1>2
  <2>3. \A x, y \in S : r[x] = r[y] => x = y
    OBVIOUS
  <2> HIDE DEF on, r, dq
  <2>4. Renames(quad, on, dq, S, r)
    BY <2>1, <2>2, <2>3 DEF Renames
  <2> QED BY <1>1, <2>4, SumRenamed
<1>7. SumFunctionOnSet(qd, S) = SumFunctionOnSet(dq, S) + SumFunctionOnSet(lin, S)
  <2>1. \A v \in S : dq[v] \in Int /\ lin[v] \in Int /\ qd[v] = 1 * dq[v] + 1 * lin[v]
    <3> SUFFICES ASSUME NEW v \in S
                 PROVE  dq[v] \in Int /\ lin[v] \in Int /\ qd[v] = 1 * dq[v] + 1 * lin[v]
      OBVIOUS
    <3>1. /\ quad[<<v, v>>] \in Int /\ lin[v] \in Int
          /\ q[<<v, v>>] = quad[<<v, v>>] + lin[v]
      BY <1>2
    <3>2. qd[v] = q[<<v, v>>] /\ dq[v] = quad[<<v, v>>]
      OBVIOUS
    <3> HIDE DEF qd, dq
    <3> QED BY <3>1, <3>2
  <2>2. SumFunctionOnSet(dq, S) \in Int /\ SumFunctionOnSet(lin, S) \in Int
    <3> HIDE DEF dq
    <3> QED BY <1>1, <2>1, SumInt
  <2> HIDE DEF qd, dq
  <2>3. Combines(qd, S, 1, dq, 1, lin)
    BY <2>1 DEF Combines
  <2>4. SumFunctionOnSet(qd, S) = 1 * SumFunctionOnSet(dq, S) + 1 * SumFunctionOnSet(lin, S)
    BY <1>1, <2>3, SumLinear
  <2> QED BY <2>2, <2>4
<1>8. SumFunctionOnSet(quad, S \X S)
        = SumFunctionOnSet(quad, off) + SumFunctionOnSet(quad, on)
  <2>1. off \union on = S \X S /\ off \intersect on = {}
    OBVIOUS
  <2>2. \A e \in off \union on : quad[e] \in Int
    BY <1>3, <2>1
  <2> HIDE DEF off, on
  <2>3. SumFunctionOnSet(quad, off \union on)
          = SumFunctionOnSet(quad, off) + SumFunctionOnSet(quad, on)
    BY <1>1, <2>1, <2>2, SumSplit
  <2> QED BY <2>1, <2>3
<1>9. SumFunctionOnSet(quad, S \X S) \in Int /\ SumFunctionOnSet(lin, S) \in Int
      /\ SumFunctionOnSet(quad, off) \in Int /\ SumFunctionOnSet(quad, on) \in Int
  <2>1. (\A e \in off : quad[e] \in Int) /\ (\A e \in on : quad[e] \in Int)
    BY <1>3
  <2>2. \A v \in S : lin[v] \in Int
    BY <1>2
  <2> HIDE DEF off, on
  <2> QED BY <1>1, <1>3, <2>1, <2>2, SumInt
<1> HIDE DEF off, on, qd, qo, dq
<1> QED BY <1>4, <1>5, <1>6, <1>7, <1>8, <1>9

\* The parts that the convex and the penalized encoding share, on the variables S of
\* places p: the objective, times t, and the penalty on the budget.
SharedQuad(quad, S, p, t, pk) ==
  \A u, v \in S : quad[<<u, v>>] = t * (HalfGamma * Sigma(u[1], v[1]) * p[u] * p[v])
                                   + PenaltyMult * pk * p[u] * p[v]
SharedLin(lin, S, p, t, pk, base, over) ==
  \A v \in S : lin[v] =
    t * (p[v] * (2 * HalfGamma * base * SumFunction([j \in Basket(order) |-> Sigma(v[1], j)])
                   - over * Mu[v[1]]))
      - 2 * PenaltyMult * pk * (over - N * base) * p[v]

\* s holds the covariances of the basket.
Covers(s) == s = [e \in Assets \X Assets |-> Sigma(e[1], e[2])]

LEMMA CoversFact ==
  ASSUME order \in Orders, NEW s, Covers(s)
  PROVE  Symmetric(Assets, s) /\ \A e \in Assets \X Assets : s[e] \in Int
<1>1. \A i, j \in Assets : Sigma(i, j) \in Int /\ Sigma(i, j) = Sigma(j, i)
  <2>1. \A i, j \in Assets : Rho[i][j] = Rho[j][i] /\ Rho[i][j] \in Int
    BY BasketFact, DataAssumption
  <2>2. \A i \in Assets : Sd[i] \in Int
    BY BasketFact, DataAssumption
  <2> QED BY <2>1, <2>2 DEF Sigma
<1>2. \A e \in Assets \X Assets : s[e] = Sigma(e[1], e[2]) /\ e[1] \in Assets /\ e[2] \in Assets
  BY DEF Covers
<1>3. \A i, j \in Assets : s[<<i, j>>] = Sigma(i, j)
  BY DEF Covers
<1> QED BY <1>1, <1>2, <1>3 DEF Symmetric

\* The arithmetic of it.
LEMMA SharedArithmetic ==
  ASSUME NEW t \in Int, NEW h \in Int, NEW k \in Int, NEW b \in Int, NEW o \in Int, NEW n \in Int,
         NEW X \in Int, NEW X0 \in Int, NEW Y \in Int, NEW M0 \in Int, NEW M1 \in Int, NEW T \in Int
  PROVE  t * h * X + k * (T * T)
           + (2 * t * h * b * Y - t * o * M1 - 2 * k * (o - n * b) * T)
           + t * (h * (b * b * X0) - o * (b * M0)) + k * ((n * b - o) * (n * b - o))
         = t * (h * (b * b * X0 + 2 * b * Y + X) - o * (b * M0 + M1))
           + k * ((n * b + T - o) * (n * b + T - o))
OBVIOUS

\* The linear part, in the amounts of the assets.
LEMMA SharedLinear ==
  ASSUME order \in Orders, NEW S, IsFiniteSet(S), NEW p, NEW g, NEW a,
         Gathers(S, Assets, g, p, a), \A v \in S : g[v] = v[1],
         NEW t \in Int, NEW pk \in Int, NEW base \in Int, NEW over \in Int,
         NEW lin, SharedLin(lin, S, p, t, pk, base, over),
         NEW s, Covers(s)
  PROVE  SumFunctionOnSet(lin, S)
           = 2 * t * HalfGamma * base
               * SumFunctionOnSet([i \in Assets |-> a[i] * RowSums(Assets, s)[i]], Assets)
             - t * over * SumFunctionOnSet([i \in Assets |-> Mu[i] * a[i]], Assets)
             - 2 * (PenaltyMult * pk) * (over - N * base) * SumFunctionOnSet(a, Assets)
<1> DEFINE A == Assets
           R == RowSums(A, s)
           ar == [i \in A |-> a[i] * R[i]]
           ma == [i \in A |-> Mu[i] * a[i]]
           b2 == 2 * t * HalfGamma * base
           m2 == -(t * over)
           c2 == -(2 * (PenaltyMult * pk) * (over - N * base))
           c == [i \in A |-> b2 * R[i] + m2 * Mu[i] + c2]
           L1 == [i \in A |-> b2 * ar[i] + m2 * ma[i]]
           L == [i \in A |-> a[i] * c[i]]
<1>0. /\ IsFiniteSet(A) /\ N \in Int /\ HalfGamma \in Int /\ PenaltyMult \in Int
      /\ \A i \in A : Mu[i] \in Int /\ a[i] \in Int
  <2>1. \A i \in A : a[i] \in Int
    BY GatheredInt
  <2> QED BY <2>1, BasketFact DEF PenaltyMult
<1>1. \A i \in A : R[i] \in Int /\ R[i] = SumFunction([j \in Basket(order) |-> Sigma(i, j)])
  <2>1. Symmetric(A, s)
    BY CoversFact
  <2>2. \A i \in A : R[i] \in Int
    BY <1>0, <2>1, RowSumsInt
  <2>3. ASSUME NEW i \in A
        PROVE  R[i] = SumFunction([j \in Basket(order) |-> Sigma(i, j)])
    <3> DEFINE row == [j \in A |-> s[<<i, j>>]]
               sig == [j \in A |-> Sigma(i, j)]
    <3>1. row = sig
      BY DEF Covers
    <3>2. R[i] = SumFunctionOnSet(row, A)
      BY DEF RowSums
    <3>3. SumFunction(sig) = SumFunctionOnSet(sig, A)
      BY DEF SumFunction
    <3>4. sig = [j \in Basket(order) |-> Sigma(i, j)]
      BY DEF Assets
    <3> HIDE DEF row, sig
    <3> QED BY <3>1, <3>2, <3>3, <3>4
  <2> QED BY <2>2, <2>3
<1> HIDE DEF A, R
<1>2. b2 \in Int /\ m2 \in Int /\ c2 \in Int
  BY <1>0
<1>3. \A i \in A : /\ ar[i] \in Int /\ ma[i] \in Int /\ L1[i] \in Int /\ c[i] \in Int
                   /\ L[i] = 1 * L1[i] + c2 * a[i]
  <2> SUFFICES ASSUME NEW i \in A
               PROVE  /\ ar[i] \in Int /\ ma[i] \in Int /\ L1[i] \in Int /\ c[i] \in Int
                      /\ L[i] = 1 * L1[i] + c2 * a[i]
    OBVIOUS
  <2>1. R[i] \in Int /\ a[i] \in Int /\ Mu[i] \in Int
    BY <1>0, <1>1
  <2> HIDE DEF b2, m2, c2
  <2>2. /\ ar[i] = a[i] * R[i] /\ ma[i] = Mu[i] * a[i] /\ c[i] = b2 * R[i] + m2 * Mu[i] + c2
        /\ L1[i] = b2 * ar[i] + m2 * ma[i] /\ L[i] = a[i] * c[i]
    OBVIOUS
  <2> HIDE DEF ar, ma, c, L1, L
  <2>3. ar[i] \in Int /\ ma[i] \in Int /\ c[i] \in Int
    BY <1>2, <2>1, <2>2
  <2>4. L1[i] \in Int
    BY <1>2, <2>2, <2>3
  <2>5. L[i] = b2 * (a[i] * R[i]) + m2 * (Mu[i] * a[i]) + c2 * a[i]
    BY <1>2, <2>1, <2>2
  <2> QED BY <1>2, <2>1, <2>2, <2>3, <2>4, <2>5
<1>4. ASSUME NEW v \in S PROVE lin[v] = p[v] * c[g[v]]
  <2>1. /\ g[v] = v[1] /\ v[1] \in A /\ p[v] \in Int
    BY DEF Gathers, A
  <2>2. lin[v] = t * (p[v] * (2 * HalfGamma * base * R[v[1]] - over * Mu[v[1]]))
                   - 2 * PenaltyMult * pk * (over - N * base) * p[v]
    BY <1>1, <2>1 DEF SharedLin
  <2>3. c[g[v]] = 2 * t * HalfGamma * base * R[v[1]] + (-(t * over)) * Mu[v[1]]
                  + (-(2 * (PenaltyMult * pk) * (over - N * base)))
    BY <2>1
  <2>4. R[v[1]] \in Int /\ Mu[v[1]] \in Int
    BY <1>0, <1>1, <2>1
  <2> HIDE DEF c
  <2> QED BY <1>0, <2>1, <2>2, <2>3, <2>4
<1> HIDE DEF b2, m2, c2, ar, ma, c, L1, L
<1>5. Linearly(lin, L, S, A, g, p, a, c)
  BY <1>3, <1>4 DEF Linearly, A, L
<1>6. SumFunctionOnSet(lin, S) = SumFunctionOnSet(L, A)
  BY <1>0, <1>5, GatheredSum
<1>7. Combines(L, A, 1, L1, c2, a) /\ Combines(L1, A, b2, ar, m2, ma)
  BY <1>0, <1>2, <1>3 DEF Combines, L1
<1>8. /\ SumFunctionOnSet(L, A) = 1 * SumFunctionOnSet(L1, A) + c2 * SumFunctionOnSet(a, A)
      /\ SumFunctionOnSet(L1, A) = b2 * SumFunctionOnSet(ar, A) + m2 * SumFunctionOnSet(ma, A)
  BY <1>0, <1>7, SumLinear
<1>9. /\ SumFunctionOnSet(ar, A) \in Int /\ SumFunctionOnSet(ma, A) \in Int
      /\ SumFunctionOnSet(a, A) \in Int
  BY <1>0, <1>3, SumInt
<1>10. SumFunctionOnSet(lin, S)
         = 2 * t * HalfGamma * base * SumFunctionOnSet(ar, A) - t * over * SumFunctionOnSet(ma, A)
           - 2 * (PenaltyMult * pk) * (over - N * base) * SumFunctionOnSet(a, A)
  BY <1>0, <1>6, <1>8, <1>9 DEF b2, m2, c2
<1> QED BY <1>10 DEF A, ar, ma, R

\* An objective is a quadratic form and a linear one.
LEMMA ObjectiveForm ==
  ASSUME NEW s, Covers(s), NEW w, NEW over
  PROVE  Objective(w, over)
           = HalfGamma * Form(Assets, s, w)
             - over * SumFunctionOnSet([i \in Assets |-> Mu[i] * w[i]], Assets)
<1> DEFINE f == [e \in Assets \X Assets |-> Sigma(e[1], e[2]) * w[e[1]] * w[e[2]]]
           h == [e \in Assets \X Assets |-> s[e] * w[e[1]] * w[e[2]]]
           m == [i \in Assets |-> Mu[i] * w[i]]
<1>1. f = h
  BY DEF Covers
<1>2. SumFunction(f) = SumFunctionOnSet(f, Assets \X Assets)
  BY DEF SumFunction
<1>3. SumFunction(m) = SumFunctionOnSet(m, Assets)
  BY DEF SumFunction
<1>4. Objective(w, over) = HalfGamma * SumFunction(f) - over * SumFunction(m)
  BY DEF Objective
<1>5. Form(Assets, s, w) = SumFunctionOnSet(h, Assets \X Assets)
  BY DEF Form
<1> HIDE DEF f, h, m
<1>6. SumFunction(f) = SumFunctionOnSet(h, Assets \X Assets)
  BY <1>1, <1>2
<1>7. Objective(w, over) = HalfGamma * SumFunctionOnSet(h, Assets \X Assets)
                             - over * SumFunctionOnSet(m, Assets)
  BY <1>3, <1>4, <1>6
<1> QED BY <1>5, <1>7 DEF m

\* Every asset at the base.
LEMMA ObjectiveBase ==
  ASSUME order \in Orders, NEW s, Covers(s), NEW b \in Int, NEW over \in Int
  PROVE  Objective([i \in Assets |-> b], over)
           = HalfGamma * (b * b * SumFunctionOnSet(s, Assets \X Assets))
             - over * (b * SumFunctionOnSet(Mu, Assets))
<1> DEFINE A == Assets
           w == [i \in A |-> b]
           h == [e \in A \X A |-> s[e] * w[e[1]] * w[e[2]]]
           m == [i \in A |-> Mu[i] * w[i]]
           bb == b * b
<1>0. IsFiniteSet(A) /\ IsFiniteSet(A \X A) /\ \A i \in A : Mu[i] \in Int
  BY BasketFact, FS_Product
<1>1. \A e \in A \X A : s[e] \in Int /\ h[e] = s[e] * b * b
  BY CoversFact
<1>2. \A i \in A : m[i] = b * Mu[i] + 0 * Mu[i]
  BY <1>0
<1>3. Form(A, s, w) = SumFunctionOnSet(h, A \X A)
  BY DEF Form
<1>4. bb \in Int /\ bb = b * b
  OBVIOUS
<1> HIDE DEF h, m, bb, A
<1>5. Combines(h, A \X A, bb, s, 0, s) /\ Combines(m, A, b, Mu, 0, Mu)
  <2>1. \A e \in A \X A : h[e] = bb * s[e] + 0 * s[e]
    BY <1>1, <1>4
  <2> QED BY <1>0, <1>1, <1>2, <1>4, <2>1 DEF Combines
<1>6. SumFunctionOnSet(s, A \X A) \in Int /\ SumFunctionOnSet(Mu, A) \in Int
  BY <1>0, <1>1, SumInt
<1>7. /\ SumFunctionOnSet(h, A \X A)
           = bb * SumFunctionOnSet(s, A \X A) + 0 * SumFunctionOnSet(s, A \X A)
      /\ SumFunctionOnSet(m, A) = b * SumFunctionOnSet(Mu, A) + 0 * SumFunctionOnSet(Mu, A)
  BY <1>0, <1>5, SumLinear
<1>8. /\ SumFunctionOnSet(h, A \X A) = b * b * SumFunctionOnSet(s, A \X A)
      /\ SumFunctionOnSet(m, A) = b * SumFunctionOnSet(Mu, A)
  BY <1>4, <1>6, <1>7
<1>9. Objective(w, over) = HalfGamma * Form(A, s, w) - over * SumFunctionOnSet(m, A)
  BY ObjectiveForm DEF A, m
<1> QED BY <1>3, <1>8, <1>9 DEF A

\* What an objective of weights above the base adds.
LEMMA ObjectiveShift ==
  ASSUME order \in Orders, NEW s, Covers(s), NEW b \in Int, NEW over \in Int,
         NEW a, \A i \in Assets : a[i] \in Int
  PROVE  /\ Objective([i \in Assets |-> b + a[i]], over)
              = HalfGamma
                  * (b * b * SumFunctionOnSet(s, Assets \X Assets)
                     + 2 * b * SumFunctionOnSet(
                                 [i \in Assets |-> a[i] * RowSums(Assets, s)[i]], Assets)
                     + Form(Assets, s, a))
                - over * (b * SumFunctionOnSet(Mu, Assets)
                          + SumFunctionOnSet([i \in Assets |-> Mu[i] * a[i]], Assets))
         /\ SumFunctionOnSet([i \in Assets |-> b + a[i]], Assets)
              = N * b + SumFunctionOnSet(a, Assets)
<1> DEFINE A == Assets
           w == [i \in A |-> b + a[i]]
           m == [i \in A |-> Mu[i] * w[i]]
           ma == [i \in A |-> Mu[i] * a[i]]
           one == [i \in A |-> 1]
<1>0. /\ IsFiniteSet(A) /\ Cardinality(A) = N /\ N \in Int
      /\ \A i \in A : Mu[i] \in Int /\ a[i] \in Int
  BY BasketFact
<1>1. Form(A, s, w) = b * b * SumFunctionOnSet(s, A \X A)
                      + 2 * b * SumFunctionOnSet([i \in A |-> a[i] * RowSums(A, s)[i]], A)
                      + Form(A, s, a)
  <2>1. Symmetric(A, s) /\ IsFiniteSet(A) /\ \A i \in A : a[i] \in Int
    BY <1>0, CoversFact
  <2> HIDE DEF A
  <2> QED BY <2>1, FormShift
<1>2. \A i \in A : ma[i] \in Int /\ m[i] = b * Mu[i] + 1 * ma[i]
                   /\ w[i] = b * one[i] + 1 * a[i] /\ one[i] = 1
  <2> SUFFICES ASSUME NEW i \in A
               PROVE  ma[i] \in Int /\ m[i] = b * Mu[i] + 1 * ma[i]
                      /\ w[i] = b * one[i] + 1 * a[i] /\ one[i] = 1
    OBVIOUS
  <2>1. /\ Mu[i] \in Int /\ a[i] \in Int
        /\ ma[i] = Mu[i] * a[i] /\ m[i] = Mu[i] * (b + a[i])
        /\ w[i] = b + a[i] /\ one[i] = 1
    BY <1>0
  <2> HIDE DEF ma, m, w, one
  <2> QED BY <2>1
<1>3. Objective(w, over) = HalfGamma * Form(A, s, w) - over * SumFunctionOnSet(m, A)
  BY ObjectiveForm
<1> HIDE DEF m, ma, one, w
<1>4. Combines(m, A, b, Mu, 1, ma) /\ Combines(w, A, b, one, 1, a)
  BY <1>0, <1>2 DEF Combines
<1>5. /\ SumFunctionOnSet(m, A) = b * SumFunctionOnSet(Mu, A) + 1 * SumFunctionOnSet(ma, A)
      /\ SumFunctionOnSet(w, A) = b * SumFunctionOnSet(one, A) + 1 * SumFunctionOnSet(a, A)
  BY <1>0, <1>4, SumLinear
<1>6. SumFunctionOnSet(one, A) = N
  BY <1>0, <1>2, SumOnes
<1>7. /\ SumFunctionOnSet(Mu, A) \in Int /\ SumFunctionOnSet(ma, A) \in Int
      /\ SumFunctionOnSet(a, A) \in Int
  BY <1>0, <1>2, SumInt
<1>8. SumFunctionOnSet(m, A) = b * SumFunctionOnSet(Mu, A) + SumFunctionOnSet(ma, A)
  BY <1>5, <1>7
<1>9. SumFunctionOnSet(w, A) = N * b + SumFunctionOnSet(a, A)
  BY <1>0, <1>5, <1>6, <1>7
<1>10. Objective(w, over)
         = HalfGamma * (b * b * SumFunctionOnSet(s, A \X A)
                        + 2 * b * SumFunctionOnSet([i \in A |-> a[i] * RowSums(A, s)[i]], A)
                        + Form(A, s, a))
           - over * (b * SumFunctionOnSet(Mu, A) + SumFunctionOnSet(ma, A))
  BY <1>1, <1>3, <1>8
<1> QED BY <1>9, <1>10 DEF w, ma

\* The quadratic part, in the amounts of the assets.
LEMMA SharedQuadratic ==
  ASSUME order \in Orders, NEW S, IsFiniteSet(S), NEW p, NEW g, NEW a,
         Gathers(S, Assets, g, p, a), \A v \in S : g[v] = v[1],
         NEW t \in Int, NEW pk \in Int, NEW quad, SharedQuad(quad, S, p, t, pk),
         NEW s, Covers(s)
  PROVE  /\ SumFunctionOnSet(quad, S \X S)
              = t * HalfGamma * Form(Assets, s, a)
                + PenaltyMult * pk * (SumFunctionOnSet(a, Assets) * SumFunctionOnSet(a, Assets))
         /\ Form(Assets, s, a) \in Int /\ SumFunctionOnSet(a, Assets) \in Int
<1> DEFINE A == Assets
           b2 == t * HalfGamma
           c2 == PenaltyMult * pk
           c == [e \in A \X A |-> b2 * s[e] + c2]
           v == [e \in A \X A |-> a[e[1]] * a[e[2]] * c[e]]
           x == [e \in A \X A |-> s[e] * a[e[1]] * a[e[2]]]
           y == [e \in A \X A |-> a[e[1]] * a[e[2]]]
<1>0. /\ IsFiniteSet(A) /\ IsFiniteSet(A \X A) /\ HalfGamma \in Int /\ PenaltyMult \in Int
      /\ b2 \in Int /\ c2 \in Int /\ \A i \in A : a[i] \in Int
  <2>1. \A i \in A : a[i] \in Int
    BY GatheredInt
  <2> QED BY <2>1, BasketFact, FS_Product DEF PenaltyMult
<1>1. \A e \in A \X A : s[e] \in Int
  BY CoversFact
<1>2. \A e \in A \X A : /\ x[e] \in Int /\ y[e] \in Int /\ c[e] \in Int
                        /\ v[e] = b2 * x[e] + c2 * y[e]
  <2> SUFFICES ASSUME NEW e \in A \X A
               PROVE  /\ x[e] \in Int /\ y[e] \in Int /\ c[e] \in Int
                      /\ v[e] = b2 * x[e] + c2 * y[e]
    OBVIOUS
  <2>1. s[e] \in Int /\ a[e[1]] \in Int /\ a[e[2]] \in Int
    BY <1>0, <1>1
  <2>2. /\ x[e] = s[e] * a[e[1]] * a[e[2]] /\ y[e] = a[e[1]] * a[e[2]]
        /\ v[e] = a[e[1]] * a[e[2]] * (b2 * s[e] + c2) /\ c[e] = b2 * s[e] + c2
    OBVIOUS
  <2> HIDE DEF x, y, v, c, b2, c2
  <2> QED BY <1>0, <2>1, <2>2
<1>3. ASSUME NEW u \in S, NEW r \in S PROVE quad[<<u, r>>] = p[u] * p[r] * c[<<g[u], g[r]>>]
  <2>1. /\ g[u] = u[1] /\ g[r] = r[1] /\ u[1] \in A /\ r[1] \in A
        /\ p[u] \in Int /\ p[r] \in Int
    BY DEF Gathers
  <2>2. quad[<<u, r>>] = t * (HalfGamma * Sigma(u[1], r[1]) * p[u] * p[r])
                         + PenaltyMult * pk * p[u] * p[r]
    BY DEF SharedQuad
  <2>3. c[<<g[u], g[r]>>] = t * HalfGamma * s[<<u[1], r[1]>>] + PenaltyMult * pk
    BY <2>1
  <2>4. s[<<u[1], r[1]>>] = Sigma(u[1], r[1]) /\ s[<<u[1], r[1]>>] \in Int
    BY <1>1, <2>1 DEF Covers
  <2> HIDE DEF c
  <2> QED BY <1>0, <2>1, <2>2, <2>3, <2>4
<1>4. Pairwise(quad, v, S, A, g, p, a, c)
  <2>1. \A i, j \in A : c[<<i, j>>] \in Int /\ v[<<i, j>>] = a[i] * a[j] * c[<<i, j>>]
    <3> SUFFICES ASSUME NEW i \in A, NEW j \in A
                 PROVE  c[<<i, j>>] \in Int /\ v[<<i, j>>] = a[i] * a[j] * c[<<i, j>>]
      OBVIOUS
    <3>1. <<i, j>> \in A \X A
      OBVIOUS
    <3>2. v[<<i, j>>] = a[i] * a[j] * c[<<i, j>>]
      BY <3>1
    <3> QED BY <1>2, <3>1, <3>2
  <2> HIDE DEF c, v
  <2> QED BY <1>3, <2>1 DEF Pairwise
<1>5. SumFunctionOnSet(y, A \X A) = SumFunctionOnSet(a, A) * SumFunctionOnSet(a, A)
  <2>1. IsFiniteSet(A) /\ \A i \in A : a[i] \in Int
    BY <1>0
  <2> HIDE DEF A
  <2>2. \A i, j \in A : y[<<i, j>>] = a[i] * a[j]
    OBVIOUS
  <2> HIDE DEF y
  <2>3. Multiplies(y, A, A, a, a)
    BY <2>1, <2>2 DEF Multiplies
  <2> QED BY <2>1, <2>3, SumProducts
<1>6. Form(A, s, a) = SumFunctionOnSet(x, A \X A)
  BY DEF Form
<1> HIDE DEF A, b2, c2, c, v, x, y
<1>7. SumFunctionOnSet(quad, S \X S) = SumFunctionOnSet(v, A \X A)
  BY <1>0, <1>4, GatheredPairs
<1>8. Combines(v, A \X A, b2, x, c2, y)
  BY <1>0, <1>2 DEF Combines
<1>9. SumFunctionOnSet(v, A \X A)
        = b2 * SumFunctionOnSet(x, A \X A) + c2 * SumFunctionOnSet(y, A \X A)
  BY <1>0, <1>8, SumLinear
<1>10. SumFunctionOnSet(x, A \X A) \in Int /\ SumFunctionOnSet(a, A) \in Int
  BY <1>0, <1>2, SumInt
<1>11. SumFunctionOnSet(quad, S \X S)
         = b2 * Form(A, s, a) + c2 * (SumFunctionOnSet(a, A) * SumFunctionOnSet(a, A))
  BY <1>5, <1>6, <1>7, <1>9
<1> QED BY <1>6, <1>10, <1>11 DEF A, b2, c2

\* What the shared parts cost is, up to the cost of nothing selected, the objective and the
\* penalty on the budget.
Level(w, base)     == w = [i \in Assets |-> base]
Raised(w, base, a) == w = [i \in Assets |-> base + a[i]]

LEMMA CoreEnergy ==
  ASSUME order \in Orders, NEW S, IsFiniteSet(S), NEW p, NEW g, NEW a,
         Gathers(S, Assets, g, p, a), \A v \in S : g[v] = v[1],
         NEW t \in Int, NEW pk \in Int, NEW base \in Int, NEW over \in Int,
         NEW quad, SharedQuad(quad, S, p, t, pk),
         NEW lin, SharedLin(lin, S, p, t, pk, base, over),
         NEW w0, Level(w0, base), NEW w1, Raised(w1, base, a)
  PROVE  SumFunctionOnSet(quad, S \X S) + SumFunctionOnSet(lin, S)
           + t * Objective(w0, over) + PenaltyMult * pk * Square(N * base - over)
         = t * Objective(w1, over)
           + PenaltyMult * pk * Square(SumFunctionOnSet(w1, Assets) - over)
<1> DEFINE A == Assets
           s == [e \in A \X A |-> Sigma(e[1], e[2])]
           Y == SumFunctionOnSet([i \in A |-> a[i] * RowSums(A, s)[i]], A)
           M1 == SumFunctionOnSet([i \in A |-> Mu[i] * a[i]], A)
           M0 == SumFunctionOnSet(Mu, A)
           X0 == SumFunctionOnSet(s, A \X A)
           X == Form(A, s, a)
           T == SumFunctionOnSet(a, A)
           k == PenaltyMult * pk
<1>0. /\ IsFiniteSet(A) /\ IsFiniteSet(A \X A) /\ N \in Int /\ HalfGamma \in Int /\ k \in Int
      /\ \A i \in A : a[i] \in Int /\ Mu[i] \in Int
  <2>1. \A i \in A : a[i] \in Int
    BY GatheredInt
  <2> QED BY <2>1, BasketFact, FS_Product DEF PenaltyMult
<1>1. Covers(s)
  BY DEF Covers
<1>2. Symmetric(A, s) /\ \A e \in A \X A : s[e] \in Int
  BY <1>1, CoversFact
<1>3. /\ SumFunctionOnSet(quad, S \X S) = t * HalfGamma * X + k * (T * T)
      /\ X \in Int /\ T \in Int
  <2> HIDE DEF s
  <2> QED BY <1>1, SharedQuadratic, ZenonT(30)
<1>4. SumFunctionOnSet(lin, S)
        = 2 * t * HalfGamma * base * Y - t * over * M1 - 2 * k * (over - N * base) * T
  <2> HIDE DEF s
  <2> QED BY <1>1, SharedLinear
<1>5. Objective([i \in A |-> base], over) = HalfGamma * (base * base * X0) - over * (base * M0)
  <2> HIDE DEF s
  <2> QED BY <1>1, ObjectiveBase
<1>6. /\ Objective([i \in A |-> base + a[i]], over)
           = HalfGamma * (base * base * X0 + 2 * base * Y + X) - over * (base * M0 + M1)
      /\ SumFunctionOnSet([i \in A |-> base + a[i]], A) = N * base + T
  <2> HIDE DEF s
  <2> QED BY <1>0, <1>1, ObjectiveShift, ZenonT(30)
<1>7. Y \in Int /\ M1 \in Int /\ M0 \in Int /\ X0 \in Int
  <2> DEFINE ar == [i \in A |-> a[i] * RowSums(A, s)[i]]
             ma == [i \in A |-> Mu[i] * a[i]]
  <2>1. \A i \in A : RowSums(A, s)[i] \in Int
    <3> HIDE DEF s, A
    <3> QED BY <1>0, <1>2, RowSumsInt
  <2>2. \A i \in A : ar[i] \in Int /\ ma[i] \in Int
    <3> HIDE DEF s, A
    <3> QED BY <1>0, <2>1
  <2>3. SumFunctionOnSet(ar, A) \in Int /\ SumFunctionOnSet(ma, A) \in Int
    <3> HIDE DEF ar, ma, A
    <3> QED BY <1>0, <2>2, SumInt
  <2>4. SumFunctionOnSet(Mu, A) \in Int /\ SumFunctionOnSet(s, A \X A) \in Int
    <3> HIDE DEF s, A
    <3> QED BY <1>0, <1>2, SumInt
  <2> QED BY <2>3, <2>4
<1> HIDE DEF Y, M1, M0, X0, X, T, s, A, k
<1>8. t * HalfGamma * X + k * (T * T)
        + (2 * t * HalfGamma * base * Y - t * over * M1 - 2 * k * (over - N * base) * T)
        + t * (HalfGamma * (base * base * X0) - over * (base * M0))
        + k * ((N * base - over) * (N * base - over))
      = t * (HalfGamma * (base * base * X0 + 2 * base * Y + X) - over * (base * M0 + M1))
        + k * ((N * base + T - over) * (N * base + T - over))
  BY <1>0, <1>3, <1>7, SharedArithmetic
<1> DEFINE Q == SumFunctionOnSet(quad, S \X S)
           L == SumFunctionOnSet(lin, S)
           O0 == Objective([i \in A |-> base], over)
           O1 == Objective([i \in A |-> base + a[i]], over)
           F0 == Square(N * base - over)
           F1 == Square(SumFunctionOnSet([i \in A |-> base + a[i]], A) - over)
<1>9. /\ F0 = (N * base - over) * (N * base - over)
      /\ F1 = (N * base + T - over) * (N * base + T - over)
  <2> DEFINE w == SumFunctionOnSet([i \in A |-> base + a[i]], A)
  <2>1. w = N * base + T
    BY <1>6
  <2>2. F1 = Square(w - over) /\ F0 = Square(N * base - over)
    OBVIOUS
  <2> HIDE DEF w, F1, F0
  <2>3. F1 = (w - over) * (w - over) /\ F0 = (N * base - over) * (N * base - over)
    BY <2>2, Zenon DEF Square
  <2> QED BY <1>0, <1>3, <2>1, <2>3
<1>10. /\ Q = t * HalfGamma * X + k * (T * T)
       /\ L = 2 * t * HalfGamma * base * Y - t * over * M1 - 2 * k * (over - N * base) * T
       /\ O0 = HalfGamma * (base * base * X0) - over * (base * M0)
       /\ O1 = HalfGamma * (base * base * X0 + 2 * base * Y + X) - over * (base * M0 + M1)
  BY <1>3, <1>4, <1>5, <1>6
<1> HIDE DEF Q, L, O0, O1, F0, F1
<1>11. Q + L + t * O0 + k * F0 = t * O1 + k * F1
  BY <1>0, <1>3, <1>7, <1>8, <1>9, <1>10
<1> QED BY <1>11 DEF A, k, Q, L, O0, O1, F0, F1, Level, Raised

-----------------------------------------------------------------------------
(* The convex encoding.                                                    *)

\* Places of the bits of a basket's assets.
IsPlaces(place, vs) ==
  /\ IsFiniteSet(vs) /\ vs # {} /\ DOMAIN place = vs
  /\ \A v \in vs : v[1] \in Assets /\ place[v] \in Int

\* The two parts of the objective are matrices of integers, and so are their scales.
LEMMA PartsFact ==
  ASSUME order \in Orders, NEW place, NEW vs, IsPlaces(place, vs),
         NEW base \in Int, NEW over \in Int
  PROVE  /\ DOMAIN QuadOf(place) = vs \X vs /\ DOMAIN LinOf(order, place, base, over) = vs
         /\ \A e \in vs \X vs : QuadOf(place)[e] \in Int
         /\ \A v \in vs : LinOf(order, place, base, over)[v] \in Int
         /\ TopPlace(place) \in Int /\ \A v \in vs : place[v] <= TopPlace(place)
<1>1. DOMAIN place = vs
  BY DEF IsPlaces
<1>2. ASSUME NEW e \in vs \X vs PROVE QuadOf(place)[e] \in Int
  <2>1. e[1] \in vs /\ e[2] \in vs
    OBVIOUS
  <2>2. /\ place[e[1]] \in Int /\ place[e[2]] \in Int /\ e[1][1] \in Assets /\ e[2][1] \in Assets
    BY <2>1 DEF IsPlaces
  <2>3. Sigma(e[1][1], e[2][1]) \in Int /\ HalfGamma \in Int
    BY <2>2, BasketFact
  <2>4. QuadOf(place)[e] = HalfGamma * Sigma(e[1][1], e[2][1]) * place[e[1]] * place[e[2]]
    BY <1>1 DEF QuadOf
  <2> QED BY <2>2, <2>3, <2>4
<1>3. ASSUME NEW v \in vs PROVE LinOf(order, place, base, over)[v] \in Int
  <2> DEFINE sig == [j \in Basket(order) |-> Sigma(v[1], j)]
  <2>1. place[v] \in Int /\ v[1] \in Assets
    BY DEF IsPlaces
  <2>2. Mu[v[1]] \in Int /\ HalfGamma \in Int /\ IsFiniteSet(Assets)
    BY <2>1, BasketFact
  <2>3. \A j \in Assets : sig[j] \in Int
    BY <2>1, BasketFact DEF Assets
  <2>4. SumFunction(sig) = SumFunctionOnSet(sig, Assets)
    BY DEF SumFunction, Assets
  <2> HIDE DEF sig
  <2>5. SumFunction(sig) \in Int
    BY <2>2, <2>3, <2>4, SumInt
  <2>6. LinOf(order, place, base, over)[v]
          = place[v] * (2 * HalfGamma * base * SumFunction(sig) - over * Mu[v[1]])
    BY <1>1 DEF LinOf, sig
  <2> QED BY <2>1, <2>2, <2>5, <2>6
<1>4. TopPlace(place) \in Int /\ \A v \in vs : place[v] <= TopPlace(place)
  <2> DEFINE P == {place[v] : v \in vs}
  <2>1. P \in SUBSET Int /\ P # {} /\ \A v \in vs : place[v] \in P
    BY DEF IsPlaces
  <2>2. IsFiniteSet(P)
    BY ValuesFinite DEF IsPlaces
  <2> HIDE DEF P
  <2>3. Max(P) \in P /\ \A x \in P : x <= Max(P)
    BY <2>1, <2>2, MaxInt
  <2>4. Max(P) \in Int /\ \A v \in vs : place[v] <= Max(P)
    BY <2>1, <2>3
  <2>5. TopPlace(place) = Max(P)
    BY <1>1 DEF TopPlace, P
  <2> QED BY <2>4, <2>5
<1>5. DOMAIN QuadOf(place) = vs \X vs
  BY <1>1 DEF QuadOf
<1>6. DOMAIN LinOf(order, place, base, over) = vs
  BY <1>1 DEF LinOf
<1> QED BY <1>2, <1>3, <1>4, <1>5, <1>6

\* The peak is an integer, and not 0.
LEMMA PeakFact ==
  ASSUME NEW vs, IsFiniteSet(vs), NEW quad, NEW lin, DOMAIN quad = vs \X vs, DOMAIN lin = vs,
         \A e \in vs \X vs : quad[e] \in Int, \A v \in vs : lin[v] \in Int
  PROVE  Peak(quad, lin) \in Nat \ {0}
<1> DEFINE sq == [e \in vs \X vs |-> Size(quad[e])]
           sl == [v \in vs |-> Size(lin[v])]
           Q == {Size(quad[e]) : e \in DOMAIN quad}
           L == {Size(lin[v]) : v \in DOMAIN lin}
           S == {1} \union Q \union L
<1>1. Q = {sq[e] : e \in vs \X vs} /\ L = {sl[v] : v \in vs}
  OBVIOUS
<1>2. (\A e \in vs \X vs : sq[e] \in Int) /\ \A v \in vs : sl[v] \in Int
  BY DEF Size
<1>3. IsFiniteSet(vs \X vs)
  BY FS_Product
<1> HIDE DEF sq, sl, Q, L
<1>4. IsFiniteSet(Q) /\ IsFiniteSet(L) /\ Q \subseteq Int /\ L \subseteq Int
  BY <1>1, <1>2, <1>3, ValuesFinite
<1>5. IsFiniteSet(S)
  BY <1>4, FS_Singleton, FS_Union
<1>6. S \in SUBSET Int /\ 1 \in S
  BY <1>4
<1>7. Peak(quad, lin) = Max(S)
  BY DEF Peak, Q, L
<1> HIDE DEF S
<1>8. Max(S) \in S /\ \A x \in S : x <= Max(S)
  BY <1>5, <1>6, MaxInt
<1>9. Max(S) \in Int /\ 1 <= Max(S)
  BY <1>6, <1>8
<1> QED BY <1>7, <1>9

\* A matrix and a vector that hold the shared parts are of integers.
HoldsShared(quad, lin, vs, place, t, pk, base, over) ==
  /\ t \in Int /\ pk \in Int /\ base \in Int /\ over \in Int
  /\ \A e \in vs \X vs : quad[e] = t * QuadOf(place)[e]
                                   + PenaltyMult * pk * place[e[1]] * place[e[2]]
  /\ \A v \in vs : lin[v] = t * LinOf(order, place, base, over)[v]
                            - 2 * PenaltyMult * pk * (over - N * base) * place[v]

LEMMA SharedInt ==
  ASSUME order \in Orders, NEW place, NEW vs, IsPlaces(place, vs),
         NEW t, NEW pk, NEW base, NEW over, NEW quad, NEW lin,
         HoldsShared(quad, lin, vs, place, t, pk, base, over)
  PROVE  /\ SharedQuad(quad, vs, place, t, pk) /\ SharedLin(lin, vs, place, t, pk, base, over)
         /\ \A u, v \in vs : quad[<<u, v>>] \in Int /\ lin[v] \in Int
<1>1. DOMAIN place = vs /\ N \in Int /\ PenaltyMult \in Int
  BY BasketFact DEF IsPlaces, PenaltyMult
<1>2. SharedQuad(quad, vs, place, t, pk)
  <2> SUFFICES ASSUME NEW u \in vs, NEW v \in vs
               PROVE  quad[<<u, v>>] = t * (HalfGamma * Sigma(u[1], v[1]) * place[u] * place[v])
                                       + PenaltyMult * pk * place[u] * place[v]
    BY DEF SharedQuad
  <2>1. <<u, v>> \in vs \X vs
    OBVIOUS
  <2>2. quad[<<u, v>>] = t * QuadOf(place)[<<u, v>>] + PenaltyMult * pk * place[u] * place[v]
    BY <2>1 DEF HoldsShared
  <2>3. QuadOf(place)[<<u, v>>] = HalfGamma * Sigma(u[1], v[1]) * place[u] * place[v]
    BY <1>1, <2>1 DEF QuadOf
  <2> QED BY <2>2, <2>3
<1>3. SharedLin(lin, vs, place, t, pk, base, over)
  <2> SUFFICES ASSUME NEW v \in vs
               PROVE  lin[v] =
                 t * (place[v] * (2 * HalfGamma * base
                                    * SumFunction([j \in Basket(order) |-> Sigma(v[1], j)])
                                  - over * Mu[v[1]]))
                 - 2 * PenaltyMult * pk * (over - N * base) * place[v]
    BY DEF SharedLin
  <2>1. LinOf(order, place, base, over)[v]
          = place[v] * (2 * HalfGamma * base
                          * SumFunction([j \in Basket(order) |-> Sigma(v[1], j)])
                        - over * Mu[v[1]])
    BY <1>1 DEF LinOf
  <2> QED BY <2>1 DEF HoldsShared
<1>4. ASSUME NEW u \in vs, NEW v \in vs PROVE quad[<<u, v>>] \in Int /\ lin[v] \in Int
  <2>1. <<u, v>> \in vs \X vs /\ <<u, v>>[1] = u /\ <<u, v>>[2] = v
    OBVIOUS
  <2>2. quad[<<u, v>>] = t * QuadOf(place)[<<u, v>>] + PenaltyMult * pk * place[u] * place[v]
    BY <2>1 DEF HoldsShared
  <2>3. /\ QuadOf(place)[<<u, v>>] \in Int /\ place[u] \in Int /\ place[v] \in Int
        /\ LinOf(order, place, base, over)[v] \in Int
    BY <2>1, PartsFact DEF IsPlaces, HoldsShared
  <2> QED BY <1>1, <2>2, <2>3 DEF HoldsShared
<1> QED BY <1>2, <1>3, <1>4

\* The grid of the convex encoding: whole places that add up, over whole amounts.
LEMMA WholeGrid ==
  ASSUME NEW n \in Nat \ {0}, NEW d \in Nat \ {0}, NEW w \in Nat, d <= n * w,
         NEW q \in Nat \ {0}
  PROVE  LET wide == 4 * n * d * q
         IN /\ wide \in Nat \ {0} /\ wide \div (4 * n) \in Nat
            /\ (w * (wide \div d) - wide \div (4 * n)) \div q \in Nat
<1> DEFINE wide == 4 * n * d * q
           n4 == 4 * n
<1>0. n4 \in Nat \ {0}
  OBVIOUS
<1>1. wide = n4 * (d * q) /\ wide = d * (n4 * q) /\ d * q \in Int /\ n4 * q \in Int
  OBVIOUS
<1>2. wide \div n4 = d * q /\ wide \div d = n4 * q
  <2> DEFINE x == d * q
             y == n4 * q
  <2> HIDE DEF wide, n4, x, y
  <2>1. x \in Int /\ y \in Int /\ wide = n4 * x /\ wide = d * y
    BY <1>1 DEF x, y
  <2>2. (n4 * x) \div n4 = x /\ (d * y) \div d = y
    BY <1>0, <2>1, ExactFact
  <2>3. wide \div n4 = x /\ wide \div d = y
    BY <2>1, <2>2
  <2> QED BY <2>3 DEF x, y
<1>3. w * (n4 * q) - d * q = q * (w * n4 - d) /\ w * n4 - d \in Nat
  <2>1. w * n4 = 4 * (n * w) /\ n * w \in Nat /\ d <= 4 * (n * w)
    OBVIOUS
  <2> HIDE DEF n4
  <2>2. w * n4 - d \in Nat
    BY <1>0, <2>1
  <2> QED BY <1>0, <2>2
<1>4. (w * (wide \div d) - wide \div n4) \div q = w * n4 - d
  <2> DEFINE z == w * n4 - d
  <2>1. z \in Int /\ w * (n4 * q) - d * q = q * z
    BY <1>3
  <2> HIDE DEF wide, n4, z
  <2>2. w * (wide \div d) - wide \div n4 = q * z
    BY <1>2, <2>1
  <2>3. (q * z) \div q = z
    BY <2>1, ExactFact
  <2>4. (w * (wide \div d) - wide \div n4) \div q = z
    BY <2>2, <2>3
  <2> QED BY <2>4 DEF z
<1>5. wide \in Nat \ {0}
  <2>1. d * q \in Nat \ {0}
    OBVIOUS
  <2> HIDE DEF wide, n4
  <2>2. n4 * (d * q) \in Nat \ {0}
    BY <1>0, <2>1
  <2> QED BY <1>1, <2>2
<1>6. d * q \in Nat
  OBVIOUS
<1> HIDE DEF wide
<1>7. wide \div n4 \in Nat /\ (w * (wide \div d) - wide \div n4) \div q \in Nat
  BY <1>2, <1>3, <1>4, <1>6
<1> QED BY <1>5, <1>7 DEF wide

LEMMA BitsFact ==
  ASSUME NEW b \in 1..8
  PROVE  2^b - 1 \in Nat \ {0} /\ \A k \in 0..b - 1 : 2^k \in Nat
<1>1. ASSUME NEW k \in 0..7 PROVE 2^k \in Nat \ {0} /\ 2^(k + 1) = 2 * 2^k
  BY PowerUp
<1>2. b - 1 \in 0..7 /\ (b - 1) + 1 = b
  OBVIOUS
<1>3. 2^(b - 1) \in Nat \ {0} /\ 2^b = 2 * 2^(b - 1)
  BY <1>1, <1>2
<1> DEFINE x == 2^(b - 1)
           y == 2^b
<1> HIDE DEF x, y
<1>4. x \in Nat \ {0} /\ y = 2 * x
  BY <1>3 DEF x, y
<1>5. y - 1 \in Nat \ {0}
  BY <1>4
<1>6. \A k \in 0..b - 1 : k \in 0..7
  OBVIOUS
<1> QED BY <1>1, <1>5, <1>6 DEF y

\* A QUBO of the shared parts.
SharedQubo(vs, quad, lin) ==
  /\ IsPlaces(qubo.place, vs) /\ IsQubo(qubo.q, vs, quad, lin) /\ DOMAIN qubo.q = vs \X vs
  /\ qubo.base \in Int /\ qubo.over \in Int /\ qubo.top \in Int /\ qubo.peak \in Nat \ {0}

\* The convex encoding is one, with nothing more.
LEMMA ConvexFact ==
  ASSUME order \in Orders, order.mode = "convex", params = MapSliders(order),
         qubo = EncodeConvex(order, params)
  PROVE  \E vs, quad, lin :
           /\ vs = Assets \X (0..BitsForBasket(order.conf, order.n) - 1)
           /\ SharedQubo(vs, quad, lin)
           /\ SharedQuad(quad, vs, qubo.place, Square(qubo.top), qubo.peak)
           /\ SharedLin(lin, vs, qubo.place, Square(qubo.top), qubo.peak, qubo.base, qubo.over)
<1> DEFINE p     == params
           b     == BitsForBasket(order.conf, order.n)
           wide  == p.wMin.d * p.wMax.d * (2^b - 1)
           floor == p.wMin.n * (wide \div p.wMin.d)
           bit   == (p.wMax.n * (wide \div p.wMax.d) - floor) \div (2^b - 1)
           unit  == Common(wide, Common(floor, bit))
           over  == wide \div unit
           base  == floor \div unit
           place == [v \in Basket(order) \X (0..b - 1) |-> (bit \div unit) * 2^v[2]]
           top   == TopPlace(place)
           rest  == over - order.n * base
           quad  == QuadOf(place)
           lin   == LinOf(order, place, base, over)
           peak  == Peak(quad, lin)
           full  == [e \in DOMAIN quad |-> Square(top) * quad[e]
                                           + PenaltyMult * peak * place[e[1]] * place[e[2]]]
           side  == [v \in DOMAIN place |-> Square(top) * lin[v]
                                            - 2 * PenaltyMult * peak * rest * place[v]]
           vs    == Assets \X (0..b - 1)
<1>1. /\ order.n \in Nat \ {0} /\ order.conf \in Config /\ order.cap \in 0..100 /\ N = order.n
  BY OrdersAssumption DEF N
<1>2. b \in 1..8
  BY <1>1 DEF BitsForBasket, Config
<1>3. 2^b - 1 \in Nat \ {0} /\ \A k \in 0..b - 1 : 2^k \in Nat
  BY <1>2, BitsFact
<1>4. /\ p.wMin.n = 1 /\ p.wMin.d = 4 * order.n /\ p.wMax = MaxPositionCap(order.n, order.cap)
  BY DEF MapSliders, Fraction
<1>5. /\ p.wMax.n \in Nat /\ p.wMax.d \in Nat \ {0} /\ p.wMax.d <= order.n * p.wMax.n
  BY <1>1, <1>4, CapFact
<1>6. wide \in Nat \ {0} /\ floor \in Nat /\ bit \in Nat
  <2> DEFINE q == 2^b - 1
             w == p.wMax.n
             d == p.wMax.d
             n == order.n
  <2> HIDE DEF q, w, d, n
  <2>0. n \in Nat \ {0} /\ d \in Nat \ {0} /\ w \in Nat /\ d <= n * w /\ q \in Nat \ {0}
    BY <1>1, <1>3, <1>5 DEF q, w, d, n
  <2> DEFINE wd == 4 * n * d * q
  <2>1. /\ wd \in Nat \ {0} /\ wd \div (4 * n) \in Nat
        /\ (w * (wd \div d) - wd \div (4 * n)) \div q \in Nat
    BY <2>0, WholeGrid
  <2>2. wide = wd
    BY <1>4 DEF q, d, n
  <2> HIDE DEF wd, wide
  <2>3. floor = 1 * (wd \div (4 * n))
    BY <1>4, <2>2 DEF n
  <2>4. floor = wd \div (4 * n)
    BY <2>1, <2>3
  <2> HIDE DEF floor
  <2>5. bit = (w * (wd \div d) - wd \div (4 * n)) \div q
    BY <2>2, <2>4 DEF w, d, q
  <2> QED BY <2>1, <2>2, <2>4, <2>5
<1> HIDE DEF wide, floor, bit, b
<1>7. unit \in Nat \ {0}
  BY <1>6, CommonFact
<1> HIDE DEF unit
<1>8. over \in Int /\ base \in Int /\ bit \div unit \in Int
  BY <1>6, <1>7
<1> HIDE DEF over, base
<1>9. IsPlaces(place, vs)
  <2>0. 1 \in Assets
    BY <1>1 DEF Assets, Basket
  <2>1. IsFiniteSet(Assets) /\ IsFiniteSet(0..b - 1) /\ 0 \in 0..b - 1
    <3>1. b - 1 \in Int /\ 0 <= b - 1
      BY <1>2
    <3> QED BY <3>1, BasketFact, FS_Interval
  <2>2. IsFiniteSet(vs) /\ vs # {}
    <3>1. <<1, 0>> \in vs
      BY <2>0, <2>1
    <3>2. IsFiniteSet(vs)
      BY <2>1, FS_Product
    <3> QED BY <3>1, <3>2
  <2>3. DOMAIN place = vs
    BY DEF Assets
  <2>4. ASSUME NEW v \in vs PROVE v[1] \in Assets /\ place[v] \in Int
    <3>1. v[1] \in Assets /\ v[2] \in 0..b - 1
      OBVIOUS
    <3>2. place[v] = (bit \div unit) * 2^v[2]
      BY DEF Assets
    <3>3. 2^v[2] \in Nat
      BY <1>3, <3>1
    <3> DEFINE x == 2^v[2]
               y == bit \div unit
    <3> HIDE DEF x, y, place
    <3>4. place[v] = y * x /\ x \in Nat /\ y \in Int
      BY <1>8, <3>2, <3>3 DEF x, y
    <3> QED BY <3>1, <3>4
  <2> HIDE DEF place, vs
  <2> QED BY <2>2, <2>3, <2>4 DEF IsPlaces
<1> HIDE DEF place, vs
<1>10. /\ DOMAIN quad = vs \X vs /\ DOMAIN lin = vs /\ DOMAIN place = vs
       /\ \A e \in vs \X vs : quad[e] \in Int
       /\ \A v \in vs : lin[v] \in Int
       /\ top \in Int
  <2>1. DOMAIN place = vs
    BY <1>9 DEF IsPlaces
  <2>0. base \in Int /\ over \in Int /\ IsPlaces(place, vs)
    BY <1>8, <1>9
  <2>2. DOMAIN QuadOf(place) = vs \X vs
    BY <2>0, PartsFact
  <2>3. DOMAIN LinOf(order, place, base, over) = vs
    BY <2>1 DEF LinOf
  <2>4. \A e \in vs \X vs : QuadOf(place)[e] \in Int
    BY <2>0, PartsFact
  <2>5. \A v \in vs : LinOf(order, place, base, over)[v] \in Int
    BY <2>0, PartsFact
  <2>6. TopPlace(place) \in Int
    BY <2>0, PartsFact
  <2> QED BY <2>1, <2>2, <2>3, <2>4, <2>5, <2>6
<1>11. peak \in Nat \ {0}
  <2> HIDE DEF quad, lin
  <2> QED BY <1>9, <1>10, PeakFact DEF IsPlaces
<1>12. Square(top) \in Int /\ rest = over - N * base
  BY <1>1, <1>10 DEF Square
<1>13. /\ SharedQuad(full, vs, place, Square(top), peak)
       /\ SharedLin(side, vs, place, Square(top), peak, base, over)
       /\ \A u, v \in vs : full[<<u, v>>] \in Int /\ side[v] \in Int
  <2>1. \A e \in vs \X vs : full[e] = Square(top) * QuadOf(place)[e]
                                      + PenaltyMult * peak * place[e[1]] * place[e[2]]
    BY <1>10
  <2>2. \A v \in vs : side[v] = Square(top) * LinOf(order, place, base, over)[v]
                                - 2 * PenaltyMult * peak * (over - N * base) * place[v]
    BY <1>10, <1>12
  <2> DEFINE t == Square(top)
  <2> HIDE DEF full, side, top, peak, t
  <2>3. t \in Int /\ peak \in Int
    BY <1>11, <1>12 DEF t
  <2>4. /\ SharedQuad(full, vs, place, t, peak) /\ SharedLin(side, vs, place, t, peak, base, over)
        /\ \A u, v \in vs : full[<<u, v>>] \in Int /\ side[v] \in Int
    <3>1. HoldsShared(full, side, vs, place, t, peak, base, over)
      BY <1>8, <2>1, <2>2, <2>3 DEF HoldsShared, t
    <3> QED BY <1>9, <3>1, SharedInt
  <2> QED BY <2>4 DEF t
<1>14. /\ qubo.q = Matrix(full, side) /\ qubo.place = place /\ qubo.base = base
       /\ qubo.over = over /\ qubo.top = top /\ qubo.peak = peak
  BY DEF EncodeConvex, wide, floor, bit, b, unit, over, base, place
<1>15. DOMAIN full = vs \X vs
  BY <1>10
<1> HIDE DEF quad, lin, full, side, top, peak
<1>16. IsQubo(qubo.q, vs, full, side) /\ DOMAIN qubo.q = vs \X vs
  <2>0. OnDiagonal(qubo.q, vs, full, side)
    <3> HIDE DEF vs
    <3> QED BY <1>14, <1>15, MatrixFact
  <2>1. \A u, v \in vs : qubo.q[<<u, v>>] = full[<<u, v>>] + (IF u = v THEN side[u] ELSE 0)
    BY <2>0 DEF OnDiagonal
  <2>2. DOMAIN qubo.q = vs \X vs
    BY <2>0 DEF OnDiagonal
  <2> QED BY <1>9, <1>13, <2>1, <2>2 DEF IsQubo, IsPlaces
<1>17. SharedQubo(vs, full, side)
  BY <1>8, <1>9, <1>10, <1>11, <1>14, <1>16 DEF SharedQubo
<1>18. vs = Assets \X (0..BitsForBasket(order.conf, order.n) - 1)
  BY DEF vs, b
<1> QED BY <1>13, <1>14, <1>17, <1>18

\* What a sample sets is gathered by asset.
LEMMA SampleGathers ==
  ASSUME NEW vs, IsPlaces(qubo.place, vs), sample \subseteq vs
  PROVE  /\ IsFiniteSet(sample)
         /\ Gathers(sample, Assets, [v \in sample |-> v[1]], qubo.place,
                    [i \in Assets |-> Places(i)])
<1> DEFINE g == [v \in sample |-> v[1]]
           a == [i \in Assets |-> Places(i)]
<1>1. IsFiniteSet(sample)
  BY FS_Subset DEF IsPlaces
<1>2. \A x \in sample : qubo.place[x] \in Int /\ g[x] \in Assets
  BY DEF IsPlaces
<1>3. ASSUME NEW i \in Assets
      PROVE  a[i] = SumFunctionOnSet(qubo.place, {x \in sample : g[x] = i})
  <2> DEFINE w == [v \in SetOf(i) |-> qubo.place[v]]
             T == {x \in sample : g[x] = i}
  <2>1. SetOf(i) = T
    BY DEF SetOf
  <2>2. a[i] = SumFunction(w)
    BY DEF Places
  <2>3. SumFunction(w) = SumFunctionOnSet(w, SetOf(i))
    BY DEF SumFunction
  <2>4. \A x \in T : qubo.place[x] \in Int /\ w[x] = qubo.place[x]
    BY <1>2, <2>1
  <2>5. IsFiniteSet(T)
    BY <1>1, FS_Subset
  <2> HIDE DEF w, T, a
  <2>6. SumFunctionOnSet(w, T) = SumFunctionOnSet(qubo.place, T)
    BY <2>4, <2>5, SumSame
  <2>7. a[i] = SumFunctionOnSet(qubo.place, T)
    BY <2>1, <2>2, <2>3, <2>6
  <2> QED BY <2>7 DEF T
<1> HIDE DEF g, a
<1>4. Gathers(sample, Assets, g, qubo.place, a)
  BY <1>2, <1>3 DEF Gathers
<1> QED BY <1>1, <1>4 DEF g, a

\* The shared parts, of a sample.
LEMMA SharedEnergy ==
  ASSUME order \in Orders, NEW vs, NEW quad, NEW lin, SharedQubo(vs, quad, lin),
         sample \subseteq vs, NEW qs, NEW ls,
         SharedQuad(qs, vs, qubo.place, Square(qubo.top), qubo.peak),
         SharedLin(ls, vs, qubo.place, Square(qubo.top), qubo.peak, qubo.base, qubo.over)
  PROVE  SumFunctionOnSet(qs, sample \X sample) + SumFunctionOnSet(ls, sample)
           + Floor + OffBudget(N * qubo.base)
         = Worth + OffBudget(Total)
<1> DEFINE S == sample
           p == qubo.place
           g == [v \in S |-> v[1]]
           a == [i \in Assets |-> Places(i)]
           t == Square(qubo.top)
           pk == qubo.peak
           base == qubo.base
           over == qubo.over
           w == [i \in Assets |-> base + a[i]]
<1>1. IsFiniteSet(S) /\ Gathers(S, Assets, g, p, a) /\ \A v \in S : g[v] = v[1]
  BY SampleGathers DEF SharedQubo
<1>2. t \in Int /\ pk \in Int /\ base \in Int /\ over \in Int
  BY DEF SharedQubo, Square
<1>3. SharedQuad(qs, S, p, t, pk) /\ SharedLin(ls, S, p, t, pk, base, over)
  BY DEF SharedQuad, SharedLin
<1>4. Amounts = w
  BY DEF Amounts
<1>5. Total = SumFunctionOnSet(w, Assets)
  BY <1>4 DEF Total, SumFunction
<1>6. Worth = t * Objective(w, over)
  BY <1>4 DEF Worth
<1>7. Floor = t * Objective([i \in Assets |-> base], over)
  BY DEF Floor
<1>8. /\ OffBudget(N * base) = PenaltyMult * pk * Square(N * base - over)
      /\ OffBudget(Total) = PenaltyMult * pk * Square(Total - over)
  BY DEF OffBudget
<1> HIDE DEF S, p, g, a, t, pk, base, over
<1> DEFINE w0 == [i \in Assets |-> base]
<1>9. Level(w0, base) /\ Raised(w, base, a)
  BY DEF Level, Raised
<1> HIDE DEF w, w0
<1>10. SumFunctionOnSet(qs, S \X S) + SumFunctionOnSet(ls, S)
           + t * Objective(w0, over) + PenaltyMult * pk * Square(N * base - over)
         = t * Objective(w, over)
           + PenaltyMult * pk * Square(SumFunctionOnSet(w, Assets) - over)
  BY <1>1, <1>2, <1>3, <1>9, CoreEnergy
<1>11. Floor = t * Objective(w0, over)
  BY <1>7 DEF w0
<1>12. SumFunctionOnSet(qs, S \X S) + SumFunctionOnSet(ls, S) + Floor + OffBudget(N * base)
         = Worth + OffBudget(Total)
  BY <1>5, <1>6, <1>8, <1>10, <1>11
<1> QED BY <1>12 DEF S, base

\* A read sets variables of the QUBO.
LEMMA ReadFact ==
  ASSUME NEW q, NEW vs, DOMAIN q = vs \X vs, NEW S, S \subseteq {e[1] : e \in DOMAIN q}
  PROVE  S \subseteq vs
<1>1. \A e \in vs \X vs : e[1] \in vs
  OBVIOUS
<1> QED BY <1>1

\* In the convex encoding, energies are the objective and the penalty on the budget.
LEMMA ConvexEnergy ==
  ASSUME order \in Orders, order.mode = "convex", params = MapSliders(order),
         qubo = EncodeConvex(order, params), sample \subseteq {e[1] : e \in DOMAIN qubo.q}
  PROVE  EnergyExplained
<1>1. PICK vs, quad, lin :
           /\ SharedQubo(vs, quad, lin)
           /\ SharedQuad(quad, vs, qubo.place, Square(qubo.top), qubo.peak)
           /\ SharedLin(lin, vs, qubo.place, Square(qubo.top), qubo.peak, qubo.base, qubo.over)
  BY ConvexFact
<1>2. sample \subseteq vs
  BY <1>1, ReadFact DEF SharedQubo
<1>3. Energy = SumFunctionOnSet(quad, sample \X sample) + SumFunctionOnSet(lin, sample)
  BY <1>1, <1>2, MatrixEnergy DEF SharedQubo
<1>4. SumFunctionOnSet(quad, sample \X sample) + SumFunctionOnSet(lin, sample)
        + Floor + OffBudget(N * qubo.base)
      = Worth + OffBudget(Total)
  BY <1>1, <1>2, SharedEnergy
<1> QED BY <1>3, <1>4 DEF EnergyExplained

-----------------------------------------------------------------------------
(* The penalties of the integer encoding.                                  *)

\* What the penalties of the integer encoding count in a sample: select bits, increments,
\* and, in both orders, pairs of an increment and the select bit of its asset.
CountSelect    == [v \in sample |-> IF Select(v) THEN 1 ELSE 0]
CountIncrement == [v \in sample |-> IF Select(v) THEN 0 ELSE 1]
CountUp   == [e \in sample \X sample |->
                IF e[1][1] = e[2][1] /\ Select(e[1]) /\ ~Select(e[2]) THEN 1 ELSE 0]
CountDown == [e \in sample \X sample |->
                IF e[1][1] = e[2][1] /\ ~Select(e[1]) /\ Select(e[2]) THEN 1 ELSE 0]
Linked == {v \in sample : ~Select(v) /\ v[1] \in Selected}

\* A read of select bits and increments.
IsRead(b) ==
  /\ IsFiniteSet(sample) /\ IsFiniteSet(Assets)
  /\ \A v \in sample : v[1] \in Assets /\ v = <<v[1], v[2]>> /\ v[2] \in 0..b

LEMMA CountSelected ==
  ASSUME NEW b, IsRead(b)
  PROVE  SumFunctionOnSet(CountSelect, sample) = Cardinality(Selected)
<1> DEFINE X == {v \in sample : Select(v)}
           r == [i \in Selected |-> <<i, 0>>]
           one == [i \in Selected |-> 1]
           f == CountSelect
<1>1. \A v \in sample : f[v] \in Int
  BY DEF CountSelect
<1>2. (\A v \in sample \ X : f[v] = 0) /\ \A v \in X : f[v] = 1
  BY DEF CountSelect
<1>3. X \in SUBSET sample
  OBVIOUS
<1>4. IsFiniteSet(Selected) /\ IsFiniteSet(sample)
  BY FS_Subset DEF Selected, IsRead
<1>5. X = {r[i] : i \in Selected}
  <2>1. ASSUME NEW i \in Selected PROVE r[i] \in X
    <3>1. <<i, 0>> \in sample /\ r[i] = <<i, 0>>
      BY DEF Selected
    <3> QED BY <3>1 DEF Select
  <2>2. ASSUME NEW v \in X PROVE \E i \in Selected : v = r[i]
    <3>1. v \in sample /\ v = <<v[1], 0>> /\ v[1] \in Assets
      BY DEF IsRead, Select
    <3>2. v[1] \in Selected
      BY <3>1 DEF Selected
    <3> QED BY <3>1, <3>2
  <2> HIDE DEF X, r
  <2> QED BY <2>1, <2>2
<1>6. \A x, y \in Selected : r[x] = r[y] => x = y
  OBVIOUS
<1>7. \A i \in Selected : one[i] = 1
  OBVIOUS
<1>8. \A i \in Selected : r[i] \in X
  BY <1>5
<1> HIDE DEF X, r, one, f
<1>9. SumFunctionOnSet(f, sample) = SumFunctionOnSet(f, X)
  BY <1>1, <1>2, <1>3, <1>4, SumPart
<1>10. Renames(f, X, one, Selected, r)
  BY <1>2, <1>5, <1>6, <1>7, <1>8 DEF Renames
<1>11. SumFunctionOnSet(f, X) = SumFunctionOnSet(one, Selected)
  BY <1>4, <1>10, SumRenamed
<1>12. SumFunctionOnSet(one, Selected) = Cardinality(Selected)
  BY <1>4, <1>7, SumOnes
<1> QED BY <1>9, <1>11, <1>12 DEF f

LEMMA CountIncrements ==
  ASSUME NEW b, IsRead(b)
  PROVE  SumFunctionOnSet(CountIncrement, sample) = Cardinality(Linked) + Cardinality(Stray)
<1> DEFINE f == CountIncrement
           Y == Linked \union Stray
<1>1. \A v \in sample : f[v] \in Int
  BY DEF CountIncrement
<1>2. Linked \subseteq sample /\ Stray \subseteq sample /\ Linked \intersect Stray = {}
  BY DEF Linked, Stray
<1>3. \A v \in sample \ Y : f[v] = 0
  BY DEF CountIncrement, Linked, Stray
<1>4. (\A v \in Linked : f[v] = 1) /\ \A v \in Stray : f[v] = 1
  BY DEF CountIncrement, Linked, Stray
<1>5. IsFiniteSet(sample) /\ IsFiniteSet(Linked) /\ IsFiniteSet(Stray)
  BY <1>2, FS_Subset DEF IsRead
<1>6. Y \in SUBSET sample
  BY <1>2
<1> HIDE DEF f
<1>7. SumFunctionOnSet(f, sample) = SumFunctionOnSet(f, Y)
  <2> HIDE DEF Y
  <2> QED BY <1>1, <1>3, <1>5, <1>6, SumPart
<1>8. SumFunctionOnSet(f, Y) = SumFunctionOnSet(f, Linked) + SumFunctionOnSet(f, Stray)
  BY <1>1, <1>2, <1>5, <1>6, SumSplit
<1>9. /\ SumFunctionOnSet(f, Linked) = Cardinality(Linked)
      /\ SumFunctionOnSet(f, Stray) = Cardinality(Stray)
  BY <1>4, <1>5, SumOnes
<1> QED BY <1>7, <1>8, <1>9 DEF f

LEMMA CountLinks ==
  ASSUME NEW b, IsRead(b)
  PROVE  /\ SumFunctionOnSet(CountUp, sample \X sample) = Cardinality(Linked)
         /\ SumFunctionOnSet(CountDown, sample \X sample) = Cardinality(Linked)
<1> DEFINE SS == sample \X sample
           P == {e \in SS : e[1][1] = e[2][1] /\ Select(e[1]) /\ ~Select(e[2])}
           R == {e \in SS : e[1][1] = e[2][1] /\ ~Select(e[1]) /\ Select(e[2])}
           bit(v) == <<v[1], 0>>
           p == [v \in Linked |-> <<bit(v), v>>]
           r == [v \in Linked |-> <<v, bit(v)>>]
           one == [v \in Linked |-> 1]
<1>1. Linked \subseteq sample /\ IsFiniteSet(sample) /\ IsFiniteSet(Linked) /\ IsFiniteSet(SS)
  <2>1. Linked \subseteq sample /\ IsFiniteSet(sample)
    BY DEF Linked, IsRead
  <2> QED BY <2>1, FS_Subset, FS_Product
<1>2. \A v \in Linked : /\ bit(v) \in sample /\ Select(bit(v)) /\ ~Select(v)
                        /\ bit(v)[1] = v[1] /\ v \in sample
  BY DEF Linked, Selected, Select
<1>3. \A v \in sample : Select(v) => v = <<v[1], 0>>
  BY DEF IsRead, Select
<1>4. \A u, v \in sample : u[1] = v[1] /\ Select(u) /\ ~Select(v) => v \in Linked /\ u = bit(v)
  <2> SUFFICES ASSUME NEW u \in sample, NEW v \in sample, u[1] = v[1], Select(u), ~Select(v)
               PROVE  v \in Linked /\ u = bit(v)
    OBVIOUS
  <2>1. u = <<v[1], 0>> /\ v[1] \in Assets
    BY <1>3 DEF IsRead
  <2>2. v[1] \in Selected
    BY <2>1 DEF Selected
  <2> QED BY <2>1, <2>2 DEF Linked
<1> HIDE DEF bit
<1>5. P = {p[v] : v \in Linked} /\ R = {r[v] : v \in Linked}
  <2>1. ASSUME NEW v \in Linked PROVE p[v] \in P /\ r[v] \in R
    BY <1>2
  <2>2. ASSUME NEW e \in P PROVE \E v \in Linked : e = p[v]
    <3>1. e[1] \in sample /\ e[2] \in sample /\ e = <<e[1], e[2]>>
      OBVIOUS
    <3>2. e[2] \in Linked /\ e[1] = bit(e[2])
      BY <1>4, <3>1
    <3>3. p[e[2]] = <<bit(e[2]), e[2]>>
      BY <3>2
    <3> QED BY <3>1, <3>2, <3>3
  <2>3. ASSUME NEW e \in R PROVE \E v \in Linked : e = r[v]
    <3>1. e[1] \in sample /\ e[2] \in sample /\ e = <<e[1], e[2]>>
      OBVIOUS
    <3>2. e[1] \in Linked /\ e[2] = bit(e[1])
      BY <1>4, <3>1
    <3>3. r[e[1]] = <<e[1], bit(e[1])>>
      BY <3>2
    <3> QED BY <3>1, <3>2, <3>3
  <2> HIDE DEF P, R, p, r
  <2> QED BY <2>1, <2>2, <2>3
<1>6. (\A x, y \in Linked : p[x] = p[y] => x = y) /\ \A x, y \in Linked : r[x] = r[y] => x = y
  OBVIOUS
<1>7. \A v \in Linked : one[v] = 1
  OBVIOUS
<1>8. /\ \A e \in SS : CountUp[e] \in Int /\ CountDown[e] \in Int
      /\ \A e \in SS \ P : CountUp[e] = 0
      /\ \A e \in SS \ R : CountDown[e] = 0
      /\ \A e \in P : CountUp[e] = 1
      /\ \A e \in R : CountDown[e] = 1
  BY DEF CountUp, CountDown
<1>9. P \in SUBSET SS /\ R \in SUBSET SS
  OBVIOUS
<1> HIDE DEF SS, P, R, p, r, one
<1>10. /\ SumFunctionOnSet(CountUp, SS) = SumFunctionOnSet(CountUp, P)
       /\ SumFunctionOnSet(CountDown, SS) = SumFunctionOnSet(CountDown, R)
  BY <1>1, <1>8, <1>9, SumPart
<1>11. \A v \in Linked : p[v] \in P /\ r[v] \in R
  BY <1>5
<1>12. Renames(CountUp, P, one, Linked, p) /\ Renames(CountDown, R, one, Linked, r)
  BY <1>5, <1>6, <1>7, <1>8, <1>11 DEF Renames
<1>13. /\ SumFunctionOnSet(CountUp, P) = SumFunctionOnSet(one, Linked)
       /\ SumFunctionOnSet(CountDown, R) = SumFunctionOnSet(one, Linked)
  BY <1>1, <1>12, SumRenamed
<1>14. SumFunctionOnSet(one, Linked) = Cardinality(Linked)
  BY <1>1, <1>7, SumOnes
<1> QED BY <1>10, <1>13, <1>14 DEF SS

\* The penalties on the count and the links, with w the weight of both and half of it half.
PenaltyQuad(xq, S, w, half) ==
  \A u, v \in S :
    xq[<<u, v>>] = (IF Select(u) /\ Select(v) THEN w ELSE 0) - LinkPair(u, v, half)
PenaltyLin(xl, S, w, k) == \A v \in S : xl[v] = IF Select(v) THEN -2 * k * w ELSE w

Penalties(xq, xl, S, w, half, k) ==
  /\ half \in Int /\ w = 2 * half /\ k \in Int
  /\ PenaltyQuad(xq, S, w, half) /\ PenaltyLin(xl, S, w, k)

LEMMA PenaltyEnergy ==
  ASSUME NEW b, IsRead(b), NEW xq, NEW xl, NEW w, NEW half, NEW k,
         Penalties(xq, xl, sample, w, half, k)
  PROVE  /\ SumFunctionOnSet(xq, sample \X sample) + SumFunctionOnSet(xl, sample)
              = w * Square(Cardinality(Selected) - k) - w * Square(k) + w * Cardinality(Stray)
         /\ \A e \in sample \X sample : xq[e] \in Int
         /\ \A v \in sample : xl[v] \in Int
         /\ Cardinality(Selected) \in Nat /\ Cardinality(Stray) \in Nat
<1> DEFINE S == sample
           cs == CountSelect
           ci == CountIncrement
           ff == [e \in S \X S |-> cs[e[1]] * cs[e[2]]]
           l == [e \in S \X S |-> CountUp[e] + CountDown[e]]
           n == Cardinality(Selected)
           m == Cardinality(Linked)
           o == Cardinality(Stray)
           a == -half
           c == -(2 * k * w)
<1>0. /\ half \in Int /\ w = 2 * half /\ k \in Int
      /\ PenaltyQuad(xq, S, w, half) /\ PenaltyLin(xl, S, w, k)
  BY DEF Penalties
<1>1. /\ IsFiniteSet(S) /\ IsFiniteSet(S \X S) /\ n \in Nat /\ m \in Nat /\ o \in Nat
  <2>1. IsFiniteSet(S) /\ IsFiniteSet(Assets)
    BY DEF IsRead
  <2>2. IsFiniteSet(Selected) /\ IsFiniteSet(Linked) /\ IsFiniteSet(Stray)
    BY <2>1, FS_Subset DEF Selected, Linked, Stray
  <2> QED BY <2>1, <2>2, FS_Product, FS_CardinalityType
<1>2. w \in Int /\ half \in Int /\ k \in Int /\ w = 2 * half /\ a \in Int /\ c \in Int
  BY <1>0
<1>3. \A v \in S : cs[v] = (IF Select(v) THEN 1 ELSE 0) /\ ci[v] = (IF Select(v) THEN 0 ELSE 1)
  BY DEF CountSelect, CountIncrement
<1>4. ASSUME NEW e \in S \X S
      PROVE  /\ ff[e] = (IF Select(e[1]) /\ Select(e[2]) THEN 1 ELSE 0)
             /\ CountUp[e] \in Int /\ CountDown[e] \in Int /\ l[e] = 1 * CountUp[e] + 1 * CountDown[e]
             /\ xq[e] = w * ff[e] + a * l[e]
  <2>1. e[1] \in S /\ e[2] \in S /\ e = <<e[1], e[2]>>
    OBVIOUS
  <2>2. ff[e] = (IF Select(e[1]) /\ Select(e[2]) THEN 1 ELSE 0)
    <3>1. ff[e] = cs[e[1]] * cs[e[2]]
      OBVIOUS
    <3> HIDE DEF ff, cs
    <3> QED BY <1>3, <2>1, <3>1
  <2>3. /\ CountUp[e] = IF e[1][1] = e[2][1] /\ Select(e[1]) /\ ~Select(e[2]) THEN 1 ELSE 0
        /\ CountDown[e] = IF e[1][1] = e[2][1] /\ ~Select(e[1]) /\ Select(e[2]) THEN 1 ELSE 0
    BY DEF CountUp, CountDown
  <2>4. l[e] = CountUp[e] + CountDown[e]
    OBVIOUS
  <2>5. LinkPair(e[1], e[2], half)
          = IF e[1][1] = e[2][1] /\ Select(e[1]) # Select(e[2]) THEN half ELSE 0
    BY DEF LinkPair
  <2>6. xq[<<e[1], e[2]>>]
          = (IF Select(e[1]) /\ Select(e[2]) THEN w ELSE 0) - LinkPair(e[1], e[2], half)
    BY <1>0, <2>1 DEF PenaltyQuad
  <2>7. xq[e] = (IF Select(e[1]) /\ Select(e[2]) THEN w ELSE 0) - LinkPair(e[1], e[2], half)
    BY <2>1, <2>6
  <2>8. Select(e[1]) \in BOOLEAN /\ Select(e[2]) \in BOOLEAN
    BY DEF Select
  <2>9. \/ Select(e[1]) = TRUE /\ Select(e[2]) = TRUE
        \/ Select(e[1]) = TRUE /\ Select(e[2]) = FALSE
        \/ Select(e[1]) = FALSE /\ Select(e[2]) = TRUE
        \/ Select(e[1]) = FALSE /\ Select(e[2]) = FALSE
    BY <2>8
  <2>20. Select(e[1]) = Select(e[2]) => LinkPair(e[1], e[2], half) = 0
    BY <2>5, Zenon
  <2> HIDE DEF ff, l
  <2>10. CASE Select(e[1]) = TRUE /\ Select(e[2]) = TRUE
    <3>1. LinkPair(e[1], e[2], half) = 0
      BY <2>10, <2>20
    <3> QED BY <1>2, <2>2, <2>3, <2>4, <2>7, <2>10, <3>1
  <2>11. CASE Select(e[1]) = TRUE /\ Select(e[2]) = FALSE
    BY <1>2, <2>2, <2>3, <2>4, <2>5, <2>7, <2>11
  <2>12. CASE Select(e[1]) = FALSE /\ Select(e[2]) = TRUE
    BY <1>2, <2>2, <2>3, <2>4, <2>5, <2>7, <2>12
  <2>13. CASE Select(e[1]) = FALSE /\ Select(e[2]) = FALSE
    <3>1. LinkPair(e[1], e[2], half) = 0
      BY <2>13, <2>20
    <3> QED BY <1>2, <2>2, <2>3, <2>4, <2>7, <2>13, <3>1
  <2> QED BY <2>9, <2>10, <2>11, <2>12, <2>13
<1>5. ASSUME NEW v \in S PROVE xl[v] = c * cs[v] + w * ci[v] /\ cs[v] \in Int /\ ci[v] \in Int
  <2>1. xl[v] = IF Select(v) THEN -2 * k * w ELSE w
    BY <1>0 DEF PenaltyLin
  <2> HIDE DEF cs, ci
  <2>2. CASE Select(v)
    BY <1>2, <1>3, <2>1, <2>2
  <2>3. CASE ~Select(v)
    BY <1>2, <1>3, <2>1, <2>3
  <2> QED BY <2>2, <2>3
<1>6. Multiplies(ff, S, S, cs, cs)
  <2>1. \A x, y \in S : ff[<<x, y>>] = cs[x] * cs[y]
    OBVIOUS
  <2> HIDE DEF ff, cs
  <2> QED BY <1>5, <2>1 DEF Multiplies
<1>7. /\ SumFunctionOnSet(cs, S) = n /\ SumFunctionOnSet(ci, S) = m + o
      /\ SumFunctionOnSet(CountUp, S \X S) = m /\ SumFunctionOnSet(CountDown, S \X S) = m
  BY CountSelected, CountIncrements, CountLinks
<1> HIDE DEF S, cs, ci, ff, l, n, m, o, a, c
<1>8. \A e \in S \X S : ff[e] \in Int /\ l[e] \in Int /\ xq[e] \in Int
  <2> SUFFICES ASSUME NEW e \in S \X S PROVE ff[e] \in Int /\ l[e] \in Int /\ xq[e] \in Int
    OBVIOUS
  <2>1. ff[e] \in Int /\ l[e] \in Int
    BY <1>4
  <2> QED BY <1>2, <1>4, <2>1
<1>9. SumFunctionOnSet(ff, S \X S) = n * n
  BY <1>1, <1>6, <1>7, SumProducts
<1>10. Combines(l, S \X S, 1, CountUp, 1, CountDown) /\ Combines(xq, S \X S, w, ff, a, l)
       /\ Combines(xl, S, c, cs, w, ci)
  BY <1>2, <1>4, <1>5, <1>8 DEF Combines
<1>11. /\ SumFunctionOnSet(l, S \X S) = 1 * m + 1 * m
       /\ SumFunctionOnSet(xq, S \X S) = w * (n * n) + a * SumFunctionOnSet(l, S \X S)
       /\ SumFunctionOnSet(xl, S) = c * n + w * (m + o)
  BY <1>1, <1>7, <1>9, <1>10, SumLinear
<1>12. SumFunctionOnSet(xq, S \X S) = w * (n * n) - w * m
  <2>1. SumFunctionOnSet(l, S \X S) = 2 * m
    BY <1>1, <1>11
  <2> QED BY <1>1, <1>2, <1>11, <2>1 DEF a
<1>13. \A v \in S : xl[v] \in Int
  BY <1>2, <1>5
<1>14. SumFunctionOnSet(xq, S \X S) + SumFunctionOnSet(xl, S)
         = w * ((n - k) * (n - k)) - w * (k * k) + w * o
  <2>1. w * (n * n) - w * m + ((-(2 * k * w)) * n + w * (m + o))
         = w * ((n - k) * (n - k)) - w * (k * k) + w * o
    BY <1>1, <1>2
  <2>2. SumFunctionOnSet(xl, S) = (-(2 * k * w)) * n + w * (m + o)
    BY <1>11 DEF c
  <2> DEFINE x == SumFunctionOnSet(xq, S \X S)
             y == SumFunctionOnSet(xl, S)
  <2>3. x = w * (n * n) - w * m /\ y = (-(2 * k * w)) * n + w * (m + o)
    BY <1>12, <2>2
  <2> HIDE DEF x, y
  <2>4. x + y = w * ((n - k) * (n - k)) - w * (k * k) + w * o
    BY <1>1, <1>2, <2>1, <2>3
  <2> QED BY <2>4 DEF x, y
<1> QED BY <1>1, <1>8, <1>13, <1>14 DEF S, n, o, Square

\* The increments are whole.
LEMMA IncrementInt ==
  ASSUME NEW most \in Int, NEW b \in 1..8
  PROVE  \A k \in 0..b - 1 : IncrementPlaceValues(most, b)[k] \in Int
<1> SUFFICES ASSUME NEW k \in 0..b - 1 PROVE IncrementPlaceValues(most, b)[k] \in Int
  OBVIOUS
<1>1. 2^k \in Nat
  BY BitsFact
<1>2. IncrementPlaceValues(most, b)[k]
        = IF 2^(k + 1) - 1 <= most THEN 2^k ELSE IF 2^k - 1 <= most THEN most - (2^k - 1) ELSE 0
  BY DEF IncrementPlaceValues
<1> DEFINE x == 2^k
           y == 2^(k + 1)
<1> HIDE DEF x, y
<1>3. /\ x \in Nat
      /\ IncrementPlaceValues(most, b)[k]
           = IF y - 1 <= most THEN x ELSE IF x - 1 <= most THEN most - (x - 1) ELSE 0
  BY <1>1, <1>2 DEF x, y
<1> QED BY <1>3

\* The parts of the QUBO of the integer encoding: the shared ones and the penalties.
PenalizedParts(b, vs, quad, lin, qs, ls, xq, xl, half) ==
  /\ b = IncrementBits(params.units) /\ vs = Assets \X (0..b)
  /\ \A v \in vs : qubo.place[v] = IF Select(v) THEN 1 ELSE Increments(params)[v[2] - 1]
  /\ SharedQubo(vs, quad, lin) /\ params.k \in Int
  /\ qubo.base = 0 /\ qubo.over = params.units
  /\ SharedQuad(qs, vs, qubo.place, Square(qubo.top), qubo.peak)
  /\ SharedLin(ls, vs, qubo.place, Square(qubo.top), qubo.peak, qubo.base, qubo.over)
  /\ \A u, v \in vs : qs[<<u, v>>] \in Int /\ ls[v] \in Int
  /\ half \in Int /\ Weight = 2 * half
  /\ PenaltyQuad(xq, vs, Weight, half) /\ PenaltyLin(xl, vs, Weight, params.k)
  /\ \A u, v \in vs : /\ quad[<<u, v>>] = qs[<<u, v>>] + xq[<<u, v>>]
                      /\ lin[v] = ls[v] + xl[v]
  /\ \A v \in vs : v[1] \in Assets /\ v = <<v[1], v[2]>> /\ v[2] \in 0..b

LEMMA PenalizedFact ==
  ASSUME order \in Orders, order.mode = "penalized", params = MapSliders(order),
         qubo = EncodePenalized(order, params)
  PROVE  \E b, vs, quad, lin, qs, ls, xq, xl, half :
           PenalizedParts(b, vs, quad, lin, qs, ls, xq, xl, half)
<1> DEFINE p     == params
           b     == IncrementBits(p.units)
           place == [v \in Basket(order) \X (0..b) |->
                       IF Select(v) THEN 1 ELSE Increments(p)[v[2] - 1]]
           top   == TopPlace(place)
           quad  == QuadOf(place)
           lin   == LinOf(order, place, 0, p.units)
           peak  == Peak(quad, lin)
           other == Square(top) * PenaltyMult * peak
           half  == other \div 2
           full  == [e \in DOMAIN quad |->
                      Square(top) * quad[e] + PenaltyMult * peak * place[e[1]] * place[e[2]]
                      + (IF Select(e[1]) /\ Select(e[2]) THEN other ELSE 0)
                      - LinkPair(e[1], e[2], other \div 2)]
           side  == [v \in DOMAIN place |->
                      Square(top) * lin[v] - 2 * p.units * PenaltyMult * peak * place[v]
                      + (IF Select(v) THEN -2 * p.k * other ELSE other)]
           vs    == Assets \X (0..b)
           qs    == [e \in vs \X vs |-> Square(top) * QuadOf(place)[e]
                                        + PenaltyMult * peak * place[e[1]] * place[e[2]]]
           ls    == [v \in vs |-> Square(top) * LinOf(order, place, 0, p.units)[v]
                                  - 2 * PenaltyMult * peak * (p.units - N * 0) * place[v]]
           xq    == [e \in vs \X vs |-> (IF Select(e[1]) /\ Select(e[2]) THEN other ELSE 0)
                                        - LinkPair(e[1], e[2], half)]
           xl    == [v \in vs |-> IF Select(v) THEN -2 * p.k * other ELSE other]
<1>1. /\ Boxed(p, Held(order), Grid(order)) /\ Grid(order) \in Grids /\ Held(order) \in Nat
      /\ Grid(order) \in 4..256
  <2>1. Boxed(MapSliders(order), Held(order), Grid(order))
    BY PenalizedBox
  <2>2. Held(order) \in 3..order.n /\ Grid(order) \in Grids /\ Grid(order) \in 4..256
    BY HeldFact
  <2> QED BY <2>1, <2>2
<1>2. /\ p.k \in Int /\ p.units \in Grids /\ p.units \in Int
      /\ p.wMax.n \in Nat /\ p.wMax.d \in Nat \ {0}
  BY <1>1 DEF Boxed
<1>3. b \in 1..7
  <2>1. Log2(p.units) \in 2..8
    BY <1>2, LogFact
  <2> QED BY <2>1 DEF IncrementBits
<1>4. MostIncrement(p) \in Int
  <2>1. (p.wMax.n * p.units) \div p.wMax.d \in Int
    <3> DEFINE x == p.wMax.n * p.units
    <3>1. x \in Int
      BY <1>2
    <3> HIDE DEF x
    <3>2. x \div p.wMax.d \in Int
      BY <1>2, <3>1
    <3> QED BY <3>2 DEF x
  <2> QED BY <2>1 DEF MostIncrement, Most
<1>5. \A k \in 0..b - 1 : Increments(p)[k] \in Int
  <2>1. b \in 1..8
    BY <1>3
  <2> HIDE DEF b
  <2>2. \A k \in 0..b - 1 : IncrementPlaceValues(MostIncrement(p), b)[k] \in Int
    BY <1>4, <2>1, IncrementInt
  <2> QED BY <2>2 DEF Increments, b
<1> HIDE DEF b
<1>6. \A v \in vs : v[1] \in Assets /\ v = <<v[1], v[2]>> /\ v[2] \in 0..b
  OBVIOUS
<1>7. IsPlaces(place, vs)
  <2>0. 1 \in Assets
    <3>1. order.n \in Nat \ {0}
      BY OrdersAssumption
    <3> QED BY <3>1 DEF Assets, Basket
  <2>1. IsFiniteSet(Assets) /\ IsFiniteSet(0..b) /\ 0 \in 0..b
    <3>1. b \in Int /\ 0 <= b
      BY <1>3
    <3> QED BY <3>1, BasketFact, FS_Interval
  <2>2. IsFiniteSet(vs) /\ vs # {}
    <3>1. <<1, 0>> \in vs
      BY <2>0, <2>1
    <3>2. IsFiniteSet(vs)
      BY <2>1, FS_Product
    <3> QED BY <3>1, <3>2
  <2>3. DOMAIN place = vs
    BY DEF Assets
  <2>4. ASSUME NEW v \in vs PROVE v[1] \in Assets /\ place[v] \in Int
    <3>1. v[1] \in Assets /\ v[2] \in 0..b
      OBVIOUS
    <3>2. place[v] = IF Select(v) THEN 1 ELSE Increments(p)[v[2] - 1]
      BY DEF Assets
    <3>3. ~Select(v) => v[2] - 1 \in 0..b - 1
      BY <1>3, <3>1 DEF Select
    <3> HIDE DEF place
    <3> QED BY <1>5, <3>1, <3>2, <3>3
  <2> HIDE DEF place, vs
  <2> QED BY <2>2, <2>3, <2>4 DEF IsPlaces
<1> HIDE DEF place, vs
<1>8. DOMAIN place = vs
  BY <1>7 DEF IsPlaces
<1>9. 0 \in Int /\ p.units \in Int
  BY <1>2
<1>10. /\ DOMAIN quad = vs \X vs /\ DOMAIN lin = vs /\ top \in Int
       /\ \A e \in vs \X vs : quad[e] \in Int
       /\ \A v \in vs : lin[v] \in Int
  <2>2. DOMAIN QuadOf(place) = vs \X vs
    BY <1>8 DEF QuadOf
  <2>3. DOMAIN LinOf(order, place, 0, p.units) = vs
    BY <1>8 DEF LinOf
  <2>4. \A e \in vs \X vs : QuadOf(place)[e] \in Int
    BY <1>7, <1>9, PartsFact
  <2>5. \A v \in vs : LinOf(order, place, 0, p.units)[v] \in Int
    <3>1. ASSUME NEW z \in Int, NEW o \in Int PROVE \A v \in vs : LinOf(order, place, z, o)[v] \in Int
      BY <1>7, PartsFact
    <3> HIDE DEF p
    <3> QED BY <1>9, <3>1
  <2>6. TopPlace(place) \in Int
    BY <1>7, <1>9, PartsFact
  <2> QED BY <2>2, <2>3, <2>4, <2>5, <2>6
<1>11. peak \in Nat \ {0}
  <2> HIDE DEF quad, lin
  <2> QED BY <1>7, <1>10, PeakFact DEF IsPlaces
<1>12. Square(top) \in Int /\ N \in Int
  BY <1>10, BasketFact DEF Square
<1>13. /\ SharedQuad(qs, vs, place, Square(top), peak)
       /\ SharedLin(ls, vs, place, Square(top), peak, 0, p.units)
       /\ \A u, v \in vs : qs[<<u, v>>] \in Int /\ ls[v] \in Int
  <2> DEFINE t == Square(top)
  <2>1. \A e \in vs \X vs : qs[e] = t * QuadOf(place)[e]
                                    + PenaltyMult * peak * place[e[1]] * place[e[2]]
    OBVIOUS
  <2>2. \A v \in vs : ls[v] = t * LinOf(order, place, 0, p.units)[v]
                              - 2 * PenaltyMult * peak * (p.units - N * 0) * place[v]
    OBVIOUS
  <2> HIDE DEF qs, ls, top, peak, t
  <2>3. t \in Int /\ peak \in Int
    BY <1>11, <1>12 DEF t
  <2>4. HoldsShared(qs, ls, vs, place, t, peak, 0, p.units)
    BY <1>9, <2>1, <2>2, <2>3 DEF HoldsShared
  <2>5. /\ SharedQuad(qs, vs, place, t, peak) /\ SharedLin(ls, vs, place, t, peak, 0, p.units)
        /\ \A u, v \in vs : qs[<<u, v>>] \in Int /\ ls[v] \in Int
    BY <1>7, <2>4, SharedInt
  <2> QED BY <2>5 DEF t
<1>14. other \in Int /\ half \in Int /\ other = 2 * half
  <2> DEFINE x == Square(top) * 6 * peak
  <2>1. x \in Int /\ other = 2 * x
    <3> DEFINE t == Square(top)
    <3> HIDE DEF t, peak
    <3>1. t \in Int /\ peak \in Int /\ other = t * 12 * peak /\ x = t * 6 * peak
      BY <1>11, <1>12 DEF PenaltyMult, t
    <3> QED BY <3>1
  <2> HIDE DEF x
  <2>2. (2 * x) \div 2 = x
    BY <2>1, ExactFact
  <2> QED BY <2>1, <2>2
<1>15. /\ qubo.q = Matrix(full, side) /\ qubo.place = place /\ qubo.base = 0
       /\ qubo.over = p.units /\ qubo.top = top /\ qubo.peak = peak
  BY DEF EncodePenalized, b, place
<1>16. DOMAIN full = vs \X vs
  BY <1>10
<1>17. ASSUME NEW u \in vs, NEW v \in vs
       PROVE  full[<<u, v>>] = qs[<<u, v>>] + xq[<<u, v>>] /\ side[v] = ls[v] + xl[v]
              /\ xq[<<u, v>>] \in Int /\ xl[v] \in Int
  <2> DEFINE t == Square(top)
             e == <<u, v>>
             pe == IF Select(u) /\ Select(v) THEN other ELSE 0
             le == LinkPair(u, v, half)
             pv == IF Select(v) THEN -2 * p.k * other ELSE other
             A == t * quad[e] + PenaltyMult * peak * place[u] * place[v]
  <2>1. e \in vs \X vs /\ e[1] = u /\ e[2] = v
    OBVIOUS
  <2>2. full[e] = A + pe - le
    BY <1>10, <2>1
  <2>3. qs[e] = A /\ xq[e] = pe - le
    BY <2>1
  <2>4. A \in Int /\ pe \in Int /\ le \in Int /\ pv \in Int
    <3>1. A \in Int
      BY <1>13, <2>3
    <3>2. le \in Int
      BY <1>14 DEF LinkPair
    <3>3. pe \in Int /\ pv \in Int
      <4> HIDE DEF other
      <4>1. -2 * p.k * other \in Int
        BY <1>2, <1>14
      <4> QED BY <1>14, <4>1
    <3> QED BY <3>1, <3>2, <3>3
  <2>5. side[v] = t * lin[v] - 2 * p.units * PenaltyMult * peak * place[v] + pv
    BY <1>8
  <2>6. ls[v] = t * lin[v] - 2 * PenaltyMult * peak * (p.units - N * 0) * place[v] /\ xl[v] = pv
    OBVIOUS
  <2>7. place[v] \in Int /\ lin[v] \in Int /\ t \in Int /\ peak \in Int /\ PenaltyMult \in Int
    BY <1>7, <1>10, <1>11, <1>12 DEF IsPlaces, PenaltyMult
  <2> HIDE DEF A, pe, le, pv, e, full, qs, xq, side, ls, xl, t, lin, peak
  <2>8. full[e] = qs[e] + xq[e] /\ xq[e] \in Int
    BY <2>2, <2>3, <2>4
  <2>9. 2 * p.units * PenaltyMult * peak * place[v]
          = 2 * PenaltyMult * peak * (p.units - N * 0) * place[v]
    BY <1>2, <1>12, <2>7
  <2>10. ls[v] \in Int /\ ls[v] = t * lin[v] - 2 * p.units * PenaltyMult * peak * place[v]
    BY <1>13, <2>6, <2>9
  <2>11. side[v] = ls[v] + xl[v] /\ xl[v] \in Int
    BY <2>4, <2>5, <2>6, <2>10
  <2> QED BY <2>8, <2>11 DEF e
<1>18. \A u, v \in vs : full[<<u, v>>] \in Int /\ side[v] \in Int
  <2> SUFFICES ASSUME NEW u \in vs, NEW v \in vs PROVE full[<<u, v>>] \in Int /\ side[v] \in Int
    OBVIOUS
  <2> HIDE DEF full, side, qs, ls, xq, xl
  <2>1. qs[<<u, v>>] \in Int /\ ls[v] \in Int /\ xq[<<u, v>>] \in Int /\ xl[v] \in Int
    BY <1>13, <1>17
  <2> QED BY <1>17, <2>1
<1>19. PenaltyQuad(xq, vs, other, half) /\ PenaltyLin(xl, vs, other, p.k)
  BY DEF PenaltyQuad, PenaltyLin
<1>20. Weight = other
  <2>1. Weight = PenaltyMult * peak * Square(top)
    BY <1>15 DEF Weight
  <2> DEFINE t == Square(top)
  <2> HIDE DEF t, peak
  <2>2. t \in Int /\ peak \in Int /\ PenaltyMult \in Int /\ Weight = PenaltyMult * peak * t
    BY <1>11, <1>12, <2>1 DEF t, PenaltyMult
  <2>3. PenaltyMult * peak * t = t * PenaltyMult * peak
    BY <2>2
  <2> QED BY <2>2, <2>3 DEF t
<1> HIDE DEF quad, lin, full, side, top, peak, qs, ls, xq, xl, other, half
<1>21. SharedQubo(vs, full, side)
  <2>0. OnDiagonal(qubo.q, vs, full, side)
    <3> HIDE DEF vs
    <3> QED BY <1>15, <1>16, MatrixFact
  <2>1. \A u, v \in vs : qubo.q[<<u, v>>] = full[<<u, v>>] + (IF u = v THEN side[u] ELSE 0)
    BY <2>0 DEF OnDiagonal
  <2>2. DOMAIN qubo.q = vs \X vs
    BY <2>0 DEF OnDiagonal
  <2>3. IsQubo(qubo.q, vs, full, side)
    BY <1>7, <1>18, <2>1 DEF IsQubo, IsPlaces
  <2> QED BY <1>7, <1>9, <1>10, <1>11, <1>15, <2>2, <2>3 DEF SharedQubo
<1>22. \A v \in vs : qubo.place[v] = IF Select(v) THEN 1 ELSE Increments(p)[v[2] - 1]
  BY <1>15 DEF place, vs, Assets
<1>23. b = IncrementBits(params.units) /\ vs = Assets \X (0..b)
  BY DEF b, vs
<1>24. PenalizedParts(b, vs, full, side, qs, ls, xq, xl, half)
  BY <1>2, <1>6, <1>13, <1>14, <1>15, <1>17, <1>19, <1>20, <1>21, <1>22, <1>23
  DEF PenalizedParts
<1> QED BY <1>24

\* The energy of a QUBO in two parts.
InParts(S, quad, lin, qs, ls, xq, xl) ==
  /\ \A u, v \in S : /\ qs[<<u, v>>] \in Int /\ xq[<<u, v>>] \in Int
                     /\ quad[<<u, v>>] = qs[<<u, v>>] + xq[<<u, v>>]
  /\ \A v \in S : ls[v] \in Int /\ xl[v] \in Int /\ lin[v] = ls[v] + xl[v]

LEMMA PartsEnergy ==
  ASSUME NEW S, IsFiniteSet(S), NEW quad, NEW lin, NEW qs, NEW ls, NEW xq, NEW xl,
         InParts(S, quad, lin, qs, ls, xq, xl)
  PROVE  /\ SumFunctionOnSet(quad, S \X S)
              = SumFunctionOnSet(qs, S \X S) + SumFunctionOnSet(xq, S \X S)
         /\ SumFunctionOnSet(lin, S) = SumFunctionOnSet(ls, S) + SumFunctionOnSet(xl, S)
         /\ SumFunctionOnSet(qs, S \X S) \in Int /\ SumFunctionOnSet(xq, S \X S) \in Int
         /\ SumFunctionOnSet(ls, S) \in Int /\ SumFunctionOnSet(xl, S) \in Int
<1>1. IsFiniteSet(S \X S)
  BY FS_Product
<1>2. ASSUME NEW e \in S \X S
      PROVE  qs[e] \in Int /\ xq[e] \in Int /\ quad[e] = 1 * qs[e] + 1 * xq[e]
  <2>1. e[1] \in S /\ e[2] \in S /\ e = <<e[1], e[2]>>
    OBVIOUS
  <2>2. /\ qs[<<e[1], e[2]>>] \in Int /\ xq[<<e[1], e[2]>>] \in Int
        /\ quad[<<e[1], e[2]>>] = qs[<<e[1], e[2]>>] + xq[<<e[1], e[2]>>]
    BY <2>1 DEF InParts
  <2>3. qs[e] \in Int /\ xq[e] \in Int /\ quad[e] = qs[e] + xq[e]
    BY <2>1, <2>2
  <2> QED BY <2>3
<1>3. Combines(quad, S \X S, 1, qs, 1, xq)
  BY <1>2 DEF Combines
<1>4. Combines(lin, S, 1, ls, 1, xl)
  <2>1. \A v \in S : ls[v] \in Int /\ xl[v] \in Int /\ lin[v] = 1 * ls[v] + 1 * xl[v]
    BY DEF InParts
  <2> QED BY <2>1 DEF Combines
<1>5. /\ SumFunctionOnSet(qs, S \X S) \in Int /\ SumFunctionOnSet(xq, S \X S) \in Int
      /\ SumFunctionOnSet(ls, S) \in Int /\ SumFunctionOnSet(xl, S) \in Int
  <2>1. \A v \in S : ls[v] \in Int /\ xl[v] \in Int
    BY DEF InParts
  <2> QED BY <1>1, <1>2, <2>1, SumInt
<1>6. /\ SumFunctionOnSet(quad, S \X S)
           = 1 * SumFunctionOnSet(qs, S \X S) + 1 * SumFunctionOnSet(xq, S \X S)
      /\ SumFunctionOnSet(lin, S) = 1 * SumFunctionOnSet(ls, S) + 1 * SumFunctionOnSet(xl, S)
  BY <1>1, <1>3, <1>4, SumLinear
<1> QED BY <1>5, <1>6

\* In the integer encoding, energies are the objective, and the penalties on the budget, the
\* count and the strays.
LEMMA PenalizedEnergy ==
  ASSUME order \in Orders, order.mode = "penalized", params = MapSliders(order),
         qubo = EncodePenalized(order, params), sample \subseteq {e[1] : e \in DOMAIN qubo.q}
  PROVE  EnergyExplained
<1>1. PICK b, vs, quad, lin, qs, ls, xq, xl, half :
        PenalizedParts(b, vs, quad, lin, qs, ls, xq, xl, half)
  BY PenalizedFact
<1>2. SharedQubo(vs, quad, lin)
  BY <1>1 DEF PenalizedParts
<1>3. sample \subseteq vs /\ IsFiniteSet(vs) /\ IsFiniteSet(sample) /\ IsFiniteSet(Assets)
  <2>1. sample \subseteq vs
    BY <1>2, ReadFact DEF SharedQubo
  <2>2. IsFiniteSet(vs)
    BY <1>2 DEF SharedQubo, IsPlaces
  <2> QED BY <2>1, <2>2, FS_Subset, BasketFact
<1> DEFINE S == sample
           w == Weight
<1>4. IsRead(b)
  BY <1>1, <1>3 DEF IsRead, PenalizedParts
<1>5. /\ half \in Int /\ w = 2 * half /\ params.k \in Int
      /\ PenaltyQuad(xq, S, w, half) /\ PenaltyLin(xl, S, w, params.k)
  BY <1>1, <1>3 DEF PenalizedParts, PenaltyQuad, PenaltyLin
<1> HIDE DEF w
<1>6. /\ SumFunctionOnSet(xq, S \X S) + SumFunctionOnSet(xl, S)
           = w * Square(Cardinality(Selected) - params.k) - w * Square(params.k)
             + w * Cardinality(Stray)
      /\ \A e \in S \X S : xq[e] \in Int
      /\ \A v \in S : xl[v] \in Int
      /\ Cardinality(Selected) \in Nat /\ Cardinality(Stray) \in Nat
  <2> DEFINE k == params.k
  <2>1. k \in Int /\ PenaltyLin(xl, S, w, k)
    BY <1>5
  <2> HIDE DEF k
  <2>2. /\ SumFunctionOnSet(xq, S \X S) + SumFunctionOnSet(xl, S)
             = w * Square(Cardinality(Selected) - k) - w * Square(k) + w * Cardinality(Stray)
        /\ \A e \in S \X S : xq[e] \in Int
        /\ \A v \in S : xl[v] \in Int
        /\ Cardinality(Selected) \in Nat /\ Cardinality(Stray) \in Nat
    <3>1. Penalties(xq, xl, sample, w, half, k)
      BY <1>5, <2>1 DEF Penalties
    <3> QED BY <1>4, <3>1, PenaltyEnergy
  <2> QED BY <2>2 DEF k
<1>7. Energy = SumFunctionOnSet(quad, S \X S) + SumFunctionOnSet(lin, S)
  BY <1>2, <1>3, MatrixEnergy DEF SharedQubo
<1>8. SumFunctionOnSet(qs, S \X S) + SumFunctionOnSet(ls, S) + Floor + OffBudget(N * qubo.base)
        = Worth + OffBudget(Total)
  <2>1. /\ SharedQuad(qs, vs, qubo.place, Square(qubo.top), qubo.peak)
        /\ SharedLin(ls, vs, qubo.place, Square(qubo.top), qubo.peak, qubo.base, qubo.over)
    BY <1>1 DEF PenalizedParts
  <2> QED BY <1>2, <1>3, <2>1, SharedEnergy
<1>9. InParts(S, quad, lin, qs, ls, xq, xl)
  <2>0. /\ \A u, v \in vs : qs[<<u, v>>] \in Int /\ ls[v] \in Int
        /\ \A u, v \in vs : /\ quad[<<u, v>>] = qs[<<u, v>>] + xq[<<u, v>>]
                            /\ lin[v] = ls[v] + xl[v]
    BY <1>1, Zenon DEF PenalizedParts
  <2>1. \A u, v \in S : /\ qs[<<u, v>>] \in Int /\ xq[<<u, v>>] \in Int
                        /\ quad[<<u, v>>] = qs[<<u, v>>] + xq[<<u, v>>]
    <3> SUFFICES ASSUME NEW u \in S, NEW v \in S
                 PROVE  /\ qs[<<u, v>>] \in Int /\ xq[<<u, v>>] \in Int
                        /\ quad[<<u, v>>] = qs[<<u, v>>] + xq[<<u, v>>]
      OBVIOUS
    <3>1. u \in vs /\ v \in vs /\ <<u, v>> \in S \X S
      BY <1>3
    <3> QED BY <1>6, <2>0, <3>1
  <2>2. ASSUME NEW v \in S PROVE ls[v] \in Int /\ xl[v] \in Int /\ lin[v] = ls[v] + xl[v]
    <3>1. v \in vs
      BY <1>3
    <3> QED BY <1>6, <2>0, <3>1
  <2> QED BY <2>1, <2>2 DEF InParts
<1>10. /\ SumFunctionOnSet(quad, S \X S)
            = SumFunctionOnSet(qs, S \X S) + SumFunctionOnSet(xq, S \X S)
       /\ SumFunctionOnSet(lin, S) = SumFunctionOnSet(ls, S) + SumFunctionOnSet(xl, S)
       /\ SumFunctionOnSet(qs, S \X S) \in Int /\ SumFunctionOnSet(xq, S \X S) \in Int
       /\ SumFunctionOnSet(ls, S) \in Int /\ SumFunctionOnSet(xl, S) \in Int
  BY <1>3, <1>9, PartsEnergy
<1>11. Floor = 0 /\ OffBudget(N * qubo.base) = OffBudget(0)
  <2>0. qubo.base = 0 /\ qubo.over \in Int /\ Square(qubo.top) \in Int /\ N \in Int
    BY <1>1, <1>2, BasketFact DEF PenalizedParts, SharedQubo, Square
  <2>1. N * qubo.base = 0
    BY <2>0
  <2> DEFINE s == [e \in Assets \X Assets |-> Sigma(e[1], e[2])]
             z == [i \in Assets |-> qubo.base]
             X0 == SumFunctionOnSet(s, Assets \X Assets)
             M0 == SumFunctionOnSet(Mu, Assets)
  <2>2. Covers(s)
    BY DEF Covers
  <2>3. Objective(z, qubo.over) = HalfGamma * (0 * 0 * X0) - qubo.over * (0 * M0)
    <3> DEFINE o == qubo.over
    <3> HIDE DEF s, o
    <3>1. 0 \in Int /\ o \in Int
      BY <2>0 DEF o
    <3>2. Objective([i \in Assets |-> 0], o) = HalfGamma * (0 * 0 * X0) - o * (0 * M0)
      BY <2>2, <3>1, ObjectiveBase
    <3>3. z = [i \in Assets |-> 0]
      BY <2>0
    <3> QED BY <3>2, <3>3 DEF o
  <2>4. X0 \in Int /\ M0 \in Int /\ HalfGamma \in Int
    <3>1. IsFiniteSet(Assets \X Assets) /\ \A e \in Assets \X Assets : s[e] \in Int
      <4> HIDE DEF s
      <4> QED BY <1>3, <2>2, FS_Product, CoversFact
    <3>2. \A i \in Assets : Mu[i] \in Int
      BY BasketFact
    <3> HIDE DEF s
    <3> QED BY <1>3, <3>1, <3>2, SumInt, BasketFact
  <2>5. Floor = Square(qubo.top) * Objective(z, qubo.over)
    BY DEF Floor
  <2> HIDE DEF X0, M0, z
  <2>6. Objective(z, qubo.over) = 0
    BY <2>0, <2>3, <2>4
  <2>7. Floor = Square(qubo.top) * 0
    BY <2>5, <2>6
  <2> QED BY <2>0, <2>1, <2>7
<1>12. /\ Worth + OffBudget(Total) \in Int /\ OffBudget(0) \in Int /\ w \in Int
       /\ Square(Cardinality(Selected) - params.k) \in Int /\ Square(params.k) \in Int
  <2>1. /\ Square(Cardinality(Selected) - params.k) \in Int /\ Square(params.k) \in Int
        /\ w \in Int
    BY <1>5, <1>6 DEF Square
  <2>2. OffBudget(0) \in Int
    BY <1>2 DEF OffBudget, SharedQubo, Square, PenaltyMult
  <2>3. SumFunctionOnSet(qs, S \X S) + SumFunctionOnSet(ls, S) + 0 + OffBudget(0) \in Int
    BY <1>10, <2>2
  <2> QED BY <1>8, <1>11, <2>1, <2>2, <2>3
<1> DEFINE Q == SumFunctionOnSet(qs, S \X S)
           L == SumFunctionOnSet(ls, S)
           X == SumFunctionOnSet(xq, S \X S)
           Y == SumFunctionOnSet(xl, S)
           W == Worth + OffBudget(Total)
           a == w * Square(Cardinality(Selected) - params.k)
           c == w * Square(params.k)
           d == w * Cardinality(Stray)
<1>13. /\ a \in Int /\ c \in Int /\ d \in Int
  BY <1>6, <1>12
<1>14. /\ Energy = (Q + X) + (L + Y) /\ Q + L + 0 + OffBudget(0) = W
       /\ X + Y = a - c + d
       /\ Q \in Int /\ L \in Int /\ X \in Int /\ Y \in Int /\ W \in Int /\ OffBudget(0) \in Int
  BY <1>6, <1>7, <1>8, <1>10, <1>11, <1>12
<1>15. EnergyExplained <=> Energy + OffBudget(0) + c = W + a + d
  BY DEF EnergyExplained, w
<1> HIDE DEF Q, L, X, Y, W, a, c, d
<1>16. Energy + OffBudget(0) + c = W + a + d
  <2>1. Energy \in Int
    BY <1>14
  <2> QED BY <1>13, <1>14, <2>1
<1> QED BY <1>15, <1>16

-----------------------------------------------------------------------------
(* The select encoding.                                                    *)

\* A sum over ordered pairs is twice the sum over pairs.
LEMMA OffDiagonal ==
  ASSUME NEW T, IsFiniteSet(T), T \subseteq Nat, NEW w,
         \A i, j \in T : /\ w[<<i, j>>] \in Int /\ w[<<i, j>>] = w[<<j, i>>]
                         /\ i = j => w[<<i, j>>] = 0
  PROVE  /\ SumFunctionOnSet(w, T \X T)
              = 2 * SumFunctionOnSet(w, {e \in T \X T : e[1] < e[2]})
         /\ SumFunctionOnSet(w, {e \in T \X T : e[1] < e[2]}) \in Int
<1> DEFINE P == {e \in T \X T : e[1] < e[2]}
           R == {e \in T \X T : e[2] < e[1]}
           swap == [e \in P |-> <<e[2], e[1]>>]
<1>1. \A e \in T \X T : /\ e[1] \in T /\ e[2] \in T /\ e = <<e[1], e[2]>>
                        /\ e[1] \in Nat /\ e[2] \in Nat
  <2> SUFFICES ASSUME NEW e \in T \X T
               PROVE  /\ e[1] \in T /\ e[2] \in T /\ e = <<e[1], e[2]>>
                      /\ e[1] \in Nat /\ e[2] \in Nat
    OBVIOUS
  <2>1. e[1] \in T /\ e[2] \in T /\ e = <<e[1], e[2]>>
    OBVIOUS
  <2> QED BY <2>1
<1>2. ASSUME NEW e \in T \X T PROVE w[e] \in Int /\ (e[1] = e[2] => w[e] = 0)
  <2>1. w[<<e[1], e[2]>>] \in Int /\ (e[1] = e[2] => w[<<e[1], e[2]>>] = 0)
    BY <1>1
  <2>2. e = <<e[1], e[2]>>
    BY <1>1
  <2> QED BY <2>1, <2>2
<1>3. IsFiniteSet(T \X T) /\ IsFiniteSet(P) /\ IsFiniteSet(R)
  <2>1. IsFiniteSet(T \X T)
    BY FS_Product
  <2> QED BY <2>1, FS_Subset
<1>4. P \union R \in SUBSET (T \X T) /\ P \intersect R = {}
  <2>1. \A e \in P : e \notin R
    BY <1>1
  <2> QED BY <2>1
<1>5. \A e \in (T \X T) \ (P \union R) : w[e] = 0
  <2> SUFFICES ASSUME NEW e \in T \X T, e \notin P, e \notin R PROVE w[e] = 0
    OBVIOUS
  <2>1. e[1] = e[2]
    BY <1>1
  <2> QED BY <1>2, <2>1
<1>6. \A e \in P \union R : w[e] \in Int
  BY <1>2, <1>4
<1>7. R = {swap[e] : e \in P}
  <2>1. ASSUME NEW e \in P PROVE swap[e] \in R
    BY <1>1
  <2>2. ASSUME NEW e \in R PROVE \E d \in P : e = swap[d]
    <3>1. e[1] \in T /\ e[2] \in T /\ e = <<e[1], e[2]>> /\ e[2] < e[1]
      BY <1>1
    <3>2. <<e[2], e[1]>> \in P
      BY <3>1
    <3>3. swap[<<e[2], e[1]>>] = e
      BY <3>1, <3>2
    <3> QED BY <3>2, <3>3
  <2> HIDE DEF P, R, swap
  <2> QED BY <2>1, <2>2
<1>8. \A x, y \in P : swap[x] = swap[y] => x = y
  <2> SUFFICES ASSUME NEW x \in P, NEW y \in P, swap[x] = swap[y] PROVE x = y
    OBVIOUS
  <2>1. x = <<x[1], x[2]>> /\ y = <<y[1], y[2]>>
    BY <1>1
  <2>2. x[1] = y[1] /\ x[2] = y[2]
    OBVIOUS
  <2> QED BY <2>1, <2>2
<1>9. ASSUME NEW e \in P PROVE w[swap[e]] = w[e]
  <2>1. e[1] \in T /\ e[2] \in T /\ e = <<e[1], e[2]>> /\ swap[e] = <<e[2], e[1]>>
    BY <1>1
  <2>2. w[<<e[2], e[1]>>] = w[<<e[1], e[2]>>]
    BY <2>1
  <2> QED BY <2>1, <2>2
<1> HIDE DEF P, R, swap
<1>10. Renames(w, R, w, P, swap)
  BY <1>6, <1>7, <1>8, <1>9 DEF Renames
<1>11. SumFunctionOnSet(w, R) = SumFunctionOnSet(w, P)
  BY <1>3, <1>10, SumRenamed
<1>12. SumFunctionOnSet(w, P \union R) = SumFunctionOnSet(w, P) + SumFunctionOnSet(w, R)
  BY <1>3, <1>4, <1>6, SumSplit
<1>13. SumFunctionOnSet(w, T \X T) = SumFunctionOnSet(w, P \union R)
  <2> DEFINE U == P \union R
  <2>1. U \in SUBSET (T \X T) /\ (\A e \in (T \X T) \ U : w[e] = 0)
        /\ \A e \in T \X T : w[e] \in Int
    BY <1>2, <1>4, <1>5
  <2> HIDE DEF U
  <2>2. SumFunctionOnSet(w, T \X T) = SumFunctionOnSet(w, U)
    BY <1>3, <2>1, SumPart
  <2> QED BY <2>2 DEF U
<1>14. SumFunctionOnSet(w, P) \in Int
  BY <1>3, <1>6, SumInt
<1>15. SumFunctionOnSet(w, T \X T) = 2 * SumFunctionOnSet(w, P)
  BY <1>11, <1>12, <1>13, <1>14
<1> QED BY <1>14, <1>15 DEF P

\* In the select encoding, energies are what the repair compares.
LEMMA SelectEnergy ==
  ASSUME order \in Orders, order.mode = "select", params = MapSliders(order),
         qubo = EncodeSelect(order, params), sample \subseteq {e[1] : e \in DOMAIN qubo.q}
  PROVE  EnergyExplained
<1> DEFINE S == sample
           T == Selected
           vs == Assets \X {0}
           share == BetaShare(order.conf, order.n)
           scale == SelectScale(order, params.k)
           h == 2 * share.d * HalfGamma
           m == share.n * scale
           c == -2 * share.d * params.k
           full == [e \in vs \X vs |->
                      2 * share.d * HalfGamma * Sigma(e[1][1], e[2][1])
                      + (IF e[1] = e[2] THEN 0
                         ELSE share.n * SelectScale(order, params.k) * Rho[e[1][1]][e[2][1]])]
           side == [v \in vs |-> -2 * share.d * params.k * Mu[v[1]]]
           sig == [e \in T \X T |-> Sigma(e[1], e[2])]
           off == [e \in T \X T |-> IF e[1] = e[2] THEN 0 ELSE Rho[e[1]][e[2]]]
           quad == [e \in T \X T |-> h * sig[e] + m * off[e]]
           lin == [i \in T |-> c * Mu[i]]
           P == {e \in T \X T : e[1] < e[2]}
           r == [i \in T |-> <<i, 0>>]
           rr == [e \in T \X T |-> <<r[e[1]], r[e[2]]>>]
<1>1. /\ order.conf \in Config /\ order.n \in Nat \ {0} /\ N = order.n
      /\ share.n \in Int /\ share.d \in Int /\ params.k \in Int /\ scale \in Int
      /\ HalfGamma \in Int /\ h \in Int /\ m \in Int /\ c \in Int
  <2>1. order.conf \in Config /\ order.n \in Nat \ {0} /\ N = order.n
    BY OrdersAssumption DEF N
  <2>2. share.n \in Int /\ share.d \in Int
    BY <2>1, ShareFact
  <2>3. params.k \in Nat
    <3>1. Boxed(MapSliders(order), Held(order), Grid(order)) /\ Held(order) \in 3..order.n
      BY SelectBox, HeldFact
    <3> QED BY <3>1 DEF Boxed
  <2>4. scale \in Int
    BY <2>3, ScaleFact
  <2>5. HalfGamma \in Int
    BY BasketFact
  <2> HIDE DEF share, scale
  <2> QED BY <2>1, <2>2, <2>3, <2>4, <2>5
<1>2. qubo.q = Matrix(full, side)
  BY DEF EncodeSelect, Assets
<1>3. /\ DOMAIN full = vs \X vs /\ DOMAIN qubo.q = vs \X vs
      /\ \A u, v \in vs : qubo.q[<<u, v>>] = full[<<u, v>>] + (IF u = v THEN side[u] ELSE 0)
  <2>1. DOMAIN full = vs \X vs
    OBVIOUS
  <2> HIDE DEF full, side, vs
  <2>2. OnDiagonal(qubo.q, vs, full, side)
    BY <1>2, <2>1, MatrixFact
  <2> QED BY <2>1, <2>2 DEF OnDiagonal
<1>4. /\ IsFiniteSet(Assets) /\ IsFiniteSet(vs) /\ IsFiniteSet(S) /\ IsFiniteSet(T)
      /\ S \subseteq vs /\ T \subseteq Assets /\ T \subseteq Nat
  <2>1. IsFiniteSet(Assets) /\ Assets \subseteq Nat
    BY BasketFact
  <2>2. IsFiniteSet(vs)
    BY <2>1, FS_Singleton, FS_Product
  <2> DEFINE q == qubo.q
  <2>3. S \subseteq vs
    <3>1. DOMAIN q = vs \X vs /\ S \subseteq {e[1] : e \in DOMAIN q}
      BY <1>3
    <3> HIDE DEF vs, q
    <3> QED BY <3>1, ReadFact
  <2>4. T \subseteq Assets
    BY DEF Selected
  <2> QED BY <2>1, <2>2, <2>3, <2>4, FS_Subset
<1>5. /\ \A i, j \in Assets : Sigma(i, j) \in Int /\ Rho[i][j] \in Int /\ Rho[i][j] = Rho[j][i]
      /\ \A i \in Assets : Mu[i] \in Int
  BY BasketFact, DataAssumption
<1>6. S = {r[i] : i \in T}
  <2>1. \A i \in T : r[i] \in S
    BY DEF Selected
  <2>2. ASSUME NEW v \in S PROVE \E i \in T : v = r[i]
    <3>1. v = <<v[1], 0>> /\ v[1] \in Assets
      BY <1>4
    <3>2. v[1] \in T
      BY <3>1 DEF Selected
    <3> QED BY <3>1, <3>2
  <2> HIDE DEF S, T, r
  <2> QED BY <2>1, <2>2
<1>7. /\ \A i \in T : r[i] \in S /\ r[i] \in vs /\ r[i][1] = i
      /\ \A i, j \in T : r[i] = r[j] => i = j
  BY <1>4, <1>6
<1>8. ASSUME NEW e \in T \X T
      PROVE  /\ e[1] \in T /\ e[2] \in T /\ e = <<e[1], e[2]>>
             /\ sig[e] \in Int /\ off[e] \in Int /\ quad[e] \in Int
             /\ quad[e] = h * sig[e] + m * off[e]
             /\ rr[e] = <<r[e[1]], r[e[2]]>> /\ rr[e] \in vs \X vs
             /\ full[rr[e]] = quad[e]
  <2>1. e[1] \in T /\ e[2] \in T /\ e = <<e[1], e[2]>> /\ e[1] \in Assets /\ e[2] \in Assets
    <3>1. e[1] \in T /\ e[2] \in T /\ e = <<e[1], e[2]>>
      <4> HIDE DEF T
      <4> QED
        OBVIOUS
    <3> HIDE DEF T
    <3> QED BY <1>4, <3>1
  <2>2. /\ sig[e] = Sigma(e[1], e[2])
        /\ off[e] = IF e[1] = e[2] THEN 0 ELSE Rho[e[1]][e[2]]
        /\ quad[e] = h * sig[e] + m * off[e]
        /\ rr[e] = <<r[e[1]], r[e[2]]>>
    OBVIOUS
  <2>3. sig[e] \in Int /\ off[e] \in Int
    <3> HIDE DEF sig, off
    <3> QED BY <1>5, <2>1, <2>2
  <2>4. quad[e] \in Int
    <3> HIDE DEF sig, off, quad, h, m
    <3> QED BY <1>1, <2>2, <2>3
  <2>5. rr[e] \in vs \X vs /\ rr[e][1] = r[e[1]] /\ rr[e][2] = r[e[2]]
    <3> HIDE DEF r, rr, vs
    <3> QED BY <1>7, <2>1, <2>2
  <2>6. /\ rr[e][1][1] = e[1] /\ rr[e][2][1] = e[2] /\ (rr[e][1] = rr[e][2] <=> e[1] = e[2])
    <3> HIDE DEF r, rr, vs
    <3> QED BY <1>7, <2>1, <2>5
  <2>7. full[rr[e]] = 2 * share.d * HalfGamma * Sigma(rr[e][1][1], rr[e][2][1])
                      + (IF rr[e][1] = rr[e][2] THEN 0
                         ELSE share.n * SelectScale(order, params.k)
                                * Rho[rr[e][1][1]][rr[e][2][1]])
    <3> HIDE DEF rr, share
    <3> QED BY <2>5
  <2>8. full[rr[e]] = h * sig[e] + (IF e[1] = e[2] THEN 0 ELSE m * Rho[e[1]][e[2]])
    <3> HIDE DEF full, rr, sig, share
    <3> QED BY <2>2, <2>6, <2>7
  <2>9. full[rr[e]] = h * sig[e] + m * off[e]
    <3> HIDE DEF full, rr, sig, off, share, h, m
    <3>1. CASE e[1] = e[2]
      BY <1>1, <2>2, <2>3, <2>8, <3>1
    <3>2. CASE e[1] # e[2]
      BY <1>1, <2>2, <2>3, <2>8, <3>2
    <3> QED BY <3>1, <3>2
  <2> HIDE DEF full, rr, sig, off, quad, r, h, m
  <2> QED BY <2>1, <2>2, <2>3, <2>4, <2>5, <2>9
<1>9. ASSUME NEW i \in T PROVE side[r[i]] = lin[i] /\ lin[i] = c * Mu[i] + 0 * Mu[i]
                               /\ lin[i] \in Int /\ Mu[i] \in Int
  <2>1. r[i] \in vs /\ r[i][1] = i /\ Mu[i] \in Int
    BY <1>4, <1>5, <1>7
  <2>2. side[r[i]] = -2 * share.d * params.k * Mu[r[i][1]] /\ lin[i] = c * Mu[i]
    BY <2>1
  <2>3. side[r[i]] = c * Mu[i]
    <3>1. Mu[r[i][1]] = Mu[i]
      BY <2>1
    <3> HIDE DEF side, r, share
    <3>2. side[r[i]] = -2 * share.d * params.k * Mu[i]
      BY <2>2, <3>1
    <3>3. -2 * share.d * params.k * Mu[i] = (-2 * share.d * params.k) * Mu[i]
      <4>1. \A x, y, z \in Int : -2 * x * y * z = (-2 * x * y) * z
        OBVIOUS
      <4>2. share.d \in Int /\ params.k \in Int /\ Mu[i] \in Int
        BY <1>1, <2>1
      <4> QED BY <4>1, <4>2
    <3> QED BY <3>2, <3>3
  <2> HIDE DEF side, lin, r, c
  <2> QED BY <1>1, <2>1, <2>2, <2>3
<1>10. IsQubo(qubo.q, vs, full, side)
  <2>1. ASSUME NEW u \in vs, NEW v \in vs
        PROVE  /\ full[<<u, v>>] \in Int /\ side[v] \in Int
               /\ qubo.q[<<u, v>>] = full[<<u, v>>] + (IF u = v THEN side[u] ELSE 0)
    <3>1. <<u, v>> \in vs \X vs /\ u[1] \in Assets /\ v[1] \in Assets
      OBVIOUS
    <3>2. qubo.q[<<u, v>>] = full[<<u, v>>] + (IF u = v THEN side[u] ELSE 0)
      <4> HIDE DEF full, side, vs
      <4> QED BY <1>3
    <3>3. /\ side[v] = -2 * share.d * params.k * Mu[v[1]]
          /\ full[<<u, v>>] = 2 * share.d * HalfGamma * Sigma(u[1], v[1])
                              + (IF u = v THEN 0 ELSE share.n * scale * Rho[u[1]][v[1]])
      BY <3>1
    <3>4. Sigma(u[1], v[1]) \in Int /\ Rho[u[1]][v[1]] \in Int /\ Mu[v[1]] \in Int
      BY <1>5, <3>1
    <3> HIDE DEF full, side, share, scale
    <3>5. side[v] \in Int
      BY <1>1, <3>3, <3>4
    <3>6. share.n * scale * Rho[u[1]][v[1]] \in Int
          /\ 2 * share.d * HalfGamma * Sigma(u[1], v[1]) \in Int
      BY <1>1, <3>4
    <3>7. full[<<u, v>>] \in Int
      BY <3>3, <3>6
    <3> QED BY <3>2, <3>5, <3>7
  <2> HIDE DEF full, side, vs
  <2> QED BY <1>4, <2>1 DEF IsQubo
<1>11. Energy = SumFunctionOnSet(full, S \X S) + SumFunctionOnSet(side, S)
  <2> HIDE DEF full, side, vs
  <2> QED BY <1>4, <1>10, MatrixEnergy
<1>12. S \X S = {rr[e] : e \in T \X T}
  <2>1. ASSUME NEW e \in T \X T PROVE rr[e] \in S \X S
    BY <1>7, <1>8
  <2>2. ASSUME NEW d \in S \X S PROVE \E e \in T \X T : d = rr[e]
    <3>1. d[1] \in S /\ d[2] \in S /\ d = <<d[1], d[2]>>
      OBVIOUS
    <3>2. PICK i \in T, j \in T : d[1] = r[i] /\ d[2] = r[j]
      <4> HIDE DEF r, S, T
      <4> QED BY <1>6, <3>1
    <3>3. <<i, j>> \in T \X T /\ rr[<<i, j>>] = <<r[i], r[j]>>
      OBVIOUS
    <3> HIDE DEF r, rr
    <3> QED BY <3>1, <3>2, <3>3
  <2> HIDE DEF rr, S, T
  <2> QED BY <2>1, <2>2
<1>13. ASSUME NEW x \in T \X T, NEW y \in T \X T, rr[x] = rr[y] PROVE x = y
  <2>1. /\ x[1] \in T /\ x[2] \in T /\ x = <<x[1], x[2]>> /\ rr[x] = <<r[x[1]], r[x[2]]>>
        /\ y[1] \in T /\ y[2] \in T /\ y = <<y[1], y[2]>> /\ rr[y] = <<r[y[1]], r[y[2]]>>
    BY <1>8
  <2> HIDE DEF rr, r, T
  <2>2. r[x[1]] = r[y[1]] /\ r[x[2]] = r[y[2]]
    <3>1. <<r[x[1]], r[x[2]]>> = <<r[y[1]], r[y[2]]>>
      BY <1>13, <2>1
    <3> QED BY <3>1
  <2> QED BY <1>7, <2>1, <2>2
<1>14. IsFiniteSet(T \X T)
  BY <1>4, FS_Product
<1>15. SumFunctionOnSet(off, T \X T) = 2 * SumFunctionOnSet(off, P)
       /\ SumFunctionOnSet(off, P) \in Int
  <2>1. \A i, j \in T : /\ off[<<i, j>>] \in Int /\ off[<<i, j>>] = off[<<j, i>>]
                        /\ i = j => off[<<i, j>>] = 0
    <3> SUFFICES ASSUME NEW i \in T, NEW j \in T
                 PROVE  /\ off[<<i, j>>] \in Int /\ off[<<i, j>>] = off[<<j, i>>]
                        /\ i = j => off[<<i, j>>] = 0
      OBVIOUS
    <3>1. /\ off[<<i, j>>] = IF i = j THEN 0 ELSE Rho[i][j]
          /\ off[<<j, i>>] = IF j = i THEN 0 ELSE Rho[j][i]
      OBVIOUS
    <3> HIDE DEF off
    <3> QED BY <1>4, <1>5, <3>1
  <2> HIDE DEF off, T
  <2> QED BY <1>4, <2>1, OffDiagonal
<1> HIDE DEF S, T, full, side, quad, lin, sig, off, r, rr, h, m, c, share, scale, vs
<1>16. Renames(full, S \X S, quad, T \X T, rr)
  BY <1>8, <1>12, <1>13 DEF Renames
<1>17. Renames(side, S, lin, T, r)
  BY <1>6, <1>7, <1>9 DEF Renames
<1>18. /\ SumFunctionOnSet(full, S \X S) = SumFunctionOnSet(quad, T \X T)
       /\ SumFunctionOnSet(side, S) = SumFunctionOnSet(lin, T)
  BY <1>4, <1>14, <1>16, <1>17, SumRenamed
<1>19. Combines(quad, T \X T, h, sig, m, off) /\ Combines(lin, T, c, Mu, 0, Mu)
  BY <1>1, <1>8, <1>9 DEF Combines
<1>20. /\ SumFunctionOnSet(quad, T \X T)
            = h * SumFunctionOnSet(sig, T \X T) + m * SumFunctionOnSet(off, T \X T)
       /\ SumFunctionOnSet(lin, T) = c * SumFunctionOnSet(Mu, T) + 0 * SumFunctionOnSet(Mu, T)
  BY <1>4, <1>14, <1>19, SumLinear
<1>21. SumFunctionOnSet(sig, T \X T) \in Int /\ SumFunctionOnSet(Mu, T) \in Int
  BY <1>4, <1>8, <1>9, <1>14, SumInt
<1> DEFINE A == SumFunctionOnSet(sig, T \X T)
           B == SumFunctionOnSet(off, P)
           C == SumFunctionOnSet(Mu, T)
<1>22. SubsetValue(T) = 2 * share.d * (HalfGamma * A - params.k * C) + 2 * share.n * scale * B
  <2> DEFINE s1 == [e \in T \X T |-> Sigma(e[1], e[2])]
             m1 == [i \in T |-> Mu[i]]
             p1 == {e \in T \X T : e[1] < e[2]}
             r1 == [e \in p1 |-> Rho[e[1]][e[2]]]
  <2>1. SubsetValue(T) = 2 * share.d * (HalfGamma * SumFunction(s1) - params.k * SumFunction(m1))
                         + 2 * share.n * scale * SumFunction(r1)
    BY <1>1 DEF SubsetValue, share, scale
  <2>2. SumFunction(s1) = A
    <3>1. s1 = sig
      BY DEF sig
    <3>2. SumFunction(s1) = SumFunctionOnSet(s1, T \X T)
      BY DEF SumFunction
    <3> HIDE DEF s1
    <3> QED BY <3>1, <3>2
  <2>3. SumFunction(m1) = C
    <3>1. SumFunction(m1) = SumFunctionOnSet(m1, T)
      BY DEF SumFunction
    <3>2. \A i \in T : Mu[i] \in Int /\ m1[i] = Mu[i]
      BY <1>9
    <3> HIDE DEF m1
    <3>3. SumFunctionOnSet(m1, T) = SumFunctionOnSet(Mu, T)
      BY <1>4, <3>2, SumSame
    <3> QED BY <3>1, <3>3
  <2>4. SumFunction(r1) = B
    <3>1. SumFunction(r1) = SumFunctionOnSet(r1, p1)
      BY DEF SumFunction
    <3>2. ASSUME NEW e \in p1 PROVE off[e] \in Int /\ r1[e] = off[e]
      <4>1. e \in T \X T /\ e[1] < e[2] /\ e[1] \in Nat /\ e[2] \in Nat
        BY <1>4
      <4>2. e[1] # e[2]
        BY <4>1
      <4>3. off[e] = Rho[e[1]][e[2]]
        BY <4>1, <4>2 DEF off
      <4> QED BY <1>8, <4>1, <4>3
    <3>3. IsFiniteSet(p1)
      BY <1>14, FS_Subset
    <3>4. p1 = P
      OBVIOUS
    <3> HIDE DEF r1, p1, P
    <3>5. SumFunctionOnSet(r1, p1) = SumFunctionOnSet(off, p1)
      BY <3>2, <3>3, SumSame
    <3> QED BY <3>1, <3>4, <3>5
  <2> HIDE DEF s1, m1, r1, A, B, C
  <2> QED BY <2>1, <2>2, <2>3, <2>4
<1>23. Energy = h * A + m * (2 * B) + (c * C + 0 * C)
  BY <1>11, <1>15, <1>18, <1>20
<1>24. A \in Int /\ B \in Int /\ C \in Int
  BY <1>15, <1>21
<1> HIDE DEF A, B, C
<1>25. h * A + m * (2 * B) + (c * C + 0 * C)
         = 2 * share.d * (HalfGamma * A - params.k * C) + 2 * share.n * scale * B
  BY <1>1, <1>24 DEF h, m, c
<1> QED BY <1>22, <1>23, <1>25 DEF EnergyExplained, T

-----------------------------------------------------------------------------
(* The integers of the codec.                                              *)

\* A full matrix of integers.
IsSquare(q, vs) ==
  /\ IsFiniteSet(vs) /\ DOMAIN q = vs \X vs
  /\ \A u, v \in vs : q[<<u, v>>] \in Int

\* The nearest whole ratio is no more than half off.
LEMMA RoundFact ==
  ASSUME NEW n \in Int, NEW d \in Nat \ {0}
  PROVE  /\ RoundedRatio(n, d) \in Int
         /\ 2 * (RoundedRatio(n, d) * d - n) <= d /\ 2 * (n - RoundedRatio(n, d) * d) <= d
<1> DEFINE low == n \div d
           r   == n % d
           odd == low % 2 = 1
<1>1. n = d * low + r /\ r \in 0..d - 1 /\ low \in Int
  OBVIOUS
<1>2. n - low * d = r /\ (low + 1) * d = low * d + d /\ low * d = d * low
  BY <1>1
<1>3. RoundedRatio(n, d)
        = IF 2 * (n - low * d) > d \/ (2 * (n - low * d) = d /\ odd) THEN low + 1 ELSE low
  BY DEF RoundedRatio
<1> HIDE DEF low, r, odd
<1>4. \/ RoundedRatio(n, d) = low /\ 2 * r <= d
      \/ RoundedRatio(n, d) = low + 1 /\ 2 * r >= d
  <2>1. 2 * (n - low * d) = 2 * r
    BY <1>2
  <2>2. RoundedRatio(n, d) = IF 2 * r > d \/ (2 * r = d /\ odd) THEN low + 1 ELSE low
    BY <1>3, <2>1
  <2> QED BY <1>1, <2>2
<1>5. CASE RoundedRatio(n, d) = low /\ 2 * r <= d
  <2>1. low * d - n = -r /\ n - low * d = r
    BY <1>1, <1>2
  <2> QED BY <1>1, <1>5, <2>1
<1>6. CASE RoundedRatio(n, d) = low + 1 /\ 2 * r >= d
  <2>1. (low + 1) * d - n = d - r /\ n - (low + 1) * d = r - d
    BY <1>1, <1>2
  <2> QED BY <1>1, <1>6, <2>1
<1> QED BY <1>4, <1>5, <1>6

\* ... so it is not 0 when the ratio is 1 or more, and not far above the ratio.
LEMMA RoundSize ==
  ASSUME NEW n \in Int, NEW d \in Nat \ {0}
  PROVE  /\ d <= Size(n) => RoundedRatio(n, d) # 0
         /\ 2 * d * Size(RoundedRatio(n, d)) <= 2 * Size(n) + d
<1> DEFINE r == RoundedRatio(n, d)
<1>1. r \in Int /\ 2 * (r * d - n) <= d /\ 2 * (n - r * d) <= d
  BY RoundFact
<1> HIDE DEF r
<1>2. ASSUME d <= Size(n) PROVE r # 0
  <2> SUFFICES ASSUME r = 0 PROVE FALSE
    OBVIOUS
  <2>1. r * d = 0
    OBVIOUS
  <2> QED BY <1>1, <1>2, <2>1 DEF Size
<1>3. 2 * d * Size(r) <= 2 * Size(n) + d
  <2>1. CASE r >= 0
    <3>1. 2 * d * r = 2 * (r * d)
      BY <1>1
    <3>2. r * d \in Int
      BY <1>1
    <3> QED BY <1>1, <2>1, <3>1, <3>2 DEF Size
  <2>2. CASE r < 0
    <3>1. 2 * d * (-r) = -2 * (r * d)
      BY <1>1
    <3>2. r * d \in Int
      BY <1>1
    <3> QED BY <1>1, <2>2, <3>1, <3>2 DEF Size
  <2> QED BY <1>1, <2>1, <2>2
<1> QED BY <1>2, <1>3 DEF r

\* A row of a square.
Row(vs, v) == {d \in vs \X vs : d[1] = v}
RowSize(u, vs, v) == SumFunctionOnSet([e \in Row(vs, v) |-> Size(u[e])], Row(vs, v))

LEMMA RowFact ==
  ASSUME NEW vs, IsFiniteSet(vs), NEW v \in vs
  PROVE  IsFiniteSet(Row(vs, v)) /\ Cardinality(Row(vs, v)) = Cardinality(vs)
<1>1. Row(vs, v) = {v} \X vs
  BY DEF Row
<1>2. IsFiniteSet({v}) /\ Cardinality({v}) = 1
  BY FS_Singleton
<1>3. IsFiniteSet({v} \X vs) /\ Cardinality({v} \X vs) = 1 * Cardinality(vs)
  BY <1>2, FS_Product
<1>4. Cardinality(vs) \in Nat
  BY FS_CardinalityType
<1> QED BY <1>1, <1>3, <1>4

LEMMA RowSizeFact ==
  ASSUME NEW vs, IsFiniteSet(vs), NEW u, \A e \in vs \X vs : u[e] \in Int, NEW v \in vs
  PROVE  RowSize(u, vs, v) \in Nat /\ \A e \in Row(vs, v) : Size(u[e]) <= RowSize(u, vs, v)
<1> DEFINE z == [e \in Row(vs, v) |-> Size(u[e])]
<1>1. \A e \in Row(vs, v) : z[e] \in Nat /\ z[e] = Size(u[e])
  BY DEF Row, Size
<1>2. IsFiniteSet(Row(vs, v))
  BY RowFact
<1> HIDE DEF z
<1>3. /\ SumFunctionOnSet(z, Row(vs, v)) \in Nat
      /\ \A e \in Row(vs, v) : z[e] <= SumFunctionOnSet(z, Row(vs, v))
  BY <1>1, <1>2, SumNat
<1> QED BY <1>1, <1>3 DEF RowSize, z

\* The terms of a matrix, divided by their unit, and the largest sum of a row.
Scaled(q, vs, u, peak) ==
  /\ peak \in Nat \ {0}
  /\ \A e \in vs \X vs : /\ u[e] \in Int
                         /\ ToXqmx(q)[e] = RoundedRatio(Precision * u[e], peak)
  /\ \A v \in vs : RowSize(u, vs, v) <= peak
  /\ \E v \in vs : RowSize(u, vs, v) = peak

LEMMA ScaledFact ==
  ASSUME NEW q, NEW vs, IsSquare(q, vs), \E e \in DOMAIN q : Terms(q)[e] # 0
  PROVE  \E u, peak : Scaled(q, vs, u, peak)
<1> DEFINE t == Terms(q)
           sizes == {Size(t[e]) : e \in DOMAIN q}
           unit == FoldSet(Common, 0, sizes)
           u == [e \in vs \X vs |-> t[e] \div unit]
           sums == {Incident(q, e[1]) : e \in DOMAIN q}
           peak == Max(sums) \div unit
<1>0. IsFiniteSet(vs) /\ IsFiniteSet(vs \X vs) /\ DOMAIN q = vs \X vs
  BY FS_Product DEF IsSquare
<1>1. \A e \in vs \X vs : t[e] \in Int
  <2> SUFFICES ASSUME NEW e \in vs \X vs PROVE t[e] \in Int
    OBVIOUS
  <2>1. e = <<e[1], e[2]>> /\ e[1] \in vs /\ e[2] \in vs
    OBVIOUS
  <2>2. q[<<e[1], e[2]>>] \in Int /\ q[<<e[2], e[1]>>] \in Int
    BY <2>1 DEF IsSquare
  <2>3. t[e] = IF e[1] = e[2] THEN q[e] ELSE q[e] + q[<<e[2], e[1]>>]
    BY <1>0 DEF Terms
  <2> QED BY <2>1, <2>2, <2>3
<1>2. PICK e0 \in vs \X vs : t[e0] # 0
  BY <1>0
<1> HIDE DEF t
<1>3. sizes \in SUBSET Nat /\ IsFiniteSet(sizes)
  <2>1. \A e \in vs \X vs : Size(t[e]) \in Nat
    BY <1>1 DEF Size
  <2> DEFINE f == [e \in vs \X vs |-> Size(t[e])]
  <2>2. sizes = {f[e] : e \in vs \X vs}
    BY <1>0
  <2>3. IsFiniteSet({f[e] : e \in vs \X vs})
    <3> HIDE DEF f
    <3> QED BY <1>0, ValuesFinite
  <2> QED BY <1>0, <2>1, <2>2, <2>3
<1>4. DividedBy(unit, sizes)
  <2> HIDE DEF sizes
  <2> QED BY <1>3, UnitFact
<1>5. unit \in Nat \ {0} /\ \A e \in vs \X vs : \E i \in Nat : Size(t[e]) = i * unit
  <2>1. \A e \in vs \X vs : Size(t[e]) \in sizes
    BY <1>0
  <2>2. Size(t[e0]) # 0
    BY <1>1, <1>2 DEF Size
  <2> HIDE DEF sizes, unit
  <2> QED BY <1>4, <2>1, <2>2 DEF DividedBy
<1> HIDE DEF unit, sizes
<1>6. ASSUME NEW e \in vs \X vs
      PROVE  /\ u[e] \in Int /\ t[e] = unit * u[e]
             /\ Size(t[e]) = unit * Size(u[e]) /\ Size(u[e]) \in Nat
  <2>0. u[e] = t[e] \div unit
    OBVIOUS
  <2> HIDE DEF u
  <2>1. PICK i \in Nat : Size(t[e]) = i * unit
    BY <1>5
  <2>2. t[e] \in Int
    BY <1>1
  <2>3. CASE t[e] >= 0
    <3>1. t[e] = unit * i
      BY <1>5, <2>1, <2>2, <2>3 DEF Size
    <3>2. (unit * i) \div unit = i
      BY <1>5, ExactFact
    <3>3. u[e] = i
      BY <2>0, <3>1, <3>2
    <3> QED BY <3>1, <3>3, <2>1, <2>2, <2>3 DEF Size
  <2>4. CASE t[e] < 0
    <3> DEFINE j == -i
    <3>0. j \in Int /\ j <= 0 /\ i = -j
      OBVIOUS
    <3> HIDE DEF j
    <3>1. t[e] = unit * j
      <4>1. -t[e] = i * unit
        BY <2>1, <2>4 DEF Size
      <4>2. i * unit = -(unit * j)
        BY <1>5, <3>0
      <4> QED BY <1>5, <2>2, <3>0, <4>1, <4>2
    <3>2. (unit * j) \div unit = j
      BY <1>5, <3>0, ExactFact
    <3>3. u[e] = j
      BY <2>0, <3>1, <3>2
    <3>4. Size(u[e]) = i
      BY <3>0, <3>3 DEF Size
    <3>5. Size(t[e]) = unit * i
      BY <1>5, <2>1
    <3> QED BY <3>0, <3>1, <3>3, <3>4, <3>5
  <2> QED BY <2>2, <2>3, <2>4
<1> HIDE DEF u
<1>7. \A e \in vs \X vs : u[e] \in Int
  BY <1>6
<1>8. ASSUME NEW v \in vs
      PROVE  /\ Incident(q, v) = unit * RowSize(u, vs, v) /\ RowSize(u, vs, v) \in Nat
             /\ Incident(q, v) \in Int
  <2> DEFINE z == [e \in Row(vs, v) |-> Size(u[e])]
             y == [e \in Row(vs, v) |-> Size(t[e])]
  <2>1. \A e \in Row(vs, v) : z[e] \in Int /\ y[e] = unit * z[e] + 0 * z[e]
    <3> SUFFICES ASSUME NEW e \in Row(vs, v) PROVE z[e] \in Int /\ y[e] = unit * z[e] + 0 * z[e]
      OBVIOUS
    <3>1. e \in vs \X vs
      BY DEF Row
    <3>2. Size(t[e]) = unit * Size(u[e]) /\ Size(u[e]) \in Nat
      BY <1>6, <3>1
    <3>3. unit * Size(u[e]) \in Int /\ 0 * Size(u[e]) = 0
      BY <1>5, <3>2
    <3> QED BY <3>2, <3>3
  <2>2. Incident(q, v) = SumFunctionOnSet(y, Row(vs, v))
    BY <1>0 DEF Incident, SumFunction, Row, t
  <2> HIDE DEF z, y
  <2>3. Combines(y, Row(vs, v), unit, z, 0, z)
    BY <1>5, <2>1 DEF Combines
  <2>4. SumFunctionOnSet(y, Row(vs, v))
          = unit * SumFunctionOnSet(z, Row(vs, v)) + 0 * SumFunctionOnSet(z, Row(vs, v))
    BY <1>0, <2>3, RowFact, SumLinear
  <2>5. RowSize(u, vs, v) \in Nat
    BY <1>0, <1>7, RowSizeFact
  <2>6. SumFunctionOnSet(z, Row(vs, v)) = RowSize(u, vs, v)
    BY DEF RowSize, z
  <2> QED BY <1>5, <2>2, <2>4, <2>5, <2>6
<1>9. PICK v0 \in vs : Max(sums) = Incident(q, v0) /\ \A v \in vs : Incident(q, v) <= Max(sums)
  <2>1. sums \in SUBSET Int
    BY <1>0, <1>8
  <2>2. IsFiniteSet(sums)
    <3> DEFINE f == [e \in vs \X vs |-> Incident(q, e[1])]
    <3>1. sums = {f[e] : e \in vs \X vs}
      BY <1>0
    <3> HIDE DEF f, sums
    <3> QED BY <1>0, <3>1, ValuesFinite
  <2>3. \A v \in vs : Incident(q, v) \in sums
    <3> SUFFICES ASSUME NEW v \in vs PROVE Incident(q, v) \in sums
      OBVIOUS
    <3>1. <<v, v>> \in DOMAIN q /\ <<v, v>>[1] = v
      BY <1>0
    <3> QED BY <3>1
  <2>4. e0[1] \in vs
    OBVIOUS
  <2>5. Max(sums) \in sums /\ \A x \in sums : x <= Max(sums)
    <3> HIDE DEF sums
    <3> QED BY <2>1, <2>2, <2>3, <2>4, MaxInt
  <2>6. \A x \in sums : \E v \in vs : x = Incident(q, v)
    BY <1>0
  <2> HIDE DEF sums
  <2> QED BY <2>3, <2>5, <2>6
<1>10. peak = RowSize(u, vs, v0)
  <2>1. (unit * RowSize(u, vs, v0)) \div unit = RowSize(u, vs, v0)
    BY <1>5, <1>8, ExactFact
  <2>2. Max(sums) = unit * RowSize(u, vs, v0)
    BY <1>8, <1>9
  <2> HIDE DEF sums
  <2> QED BY <2>1, <2>2
<1>11. \A v \in vs : RowSize(u, vs, v) <= RowSize(u, vs, v0)
  <2> SUFFICES ASSUME NEW v \in vs PROVE RowSize(u, vs, v) <= RowSize(u, vs, v0)
    OBVIOUS
  <2> DEFINE a == RowSize(u, vs, v)
             b == RowSize(u, vs, v0)
  <2> HIDE DEF a, b
  <2>1. a \in Nat /\ b \in Nat /\ unit * a <= unit * b
    BY <1>8, <1>9 DEF a, b
  <2>2. a <= b
    <3> SUFFICES ASSUME a >= b + 1 PROVE FALSE
      BY <2>1
    <3>1. unit * a >= unit * (b + 1)
      BY <1>5, <2>1
    <3>2. unit * (b + 1) = unit * b + unit
      BY <1>5, <2>1
    <3> QED BY <1>5, <2>1, <3>1, <3>2
  <2> QED BY <2>2 DEF a, b
<1>12. peak \in Nat \ {0}
  <2>1. e0[1] \in vs /\ e0 \in Row(vs, e0[1])
    BY DEF Row
  <2>2. u[e0] \in Int /\ u[e0] # 0
    <3>1. t[e0] = unit * u[e0] /\ u[e0] \in Int
      BY <1>6
    <3> QED BY <1>2, <1>5, <3>1
  <2>3. Size(u[e0]) <= RowSize(u, vs, e0[1]) /\ Size(u[e0]) \in Nat \ {0}
    <3>1. Size(u[e0]) <= RowSize(u, vs, e0[1])
      BY <1>0, <1>7, <2>1, RowSizeFact
    <3> QED BY <2>2, <3>1 DEF Size
  <2>4. RowSize(u, vs, e0[1]) <= RowSize(u, vs, v0) /\ RowSize(u, vs, e0[1]) \in Nat
        /\ RowSize(u, vs, v0) \in Nat
    BY <1>8, <1>11, <2>1
  <2> HIDE DEF peak
  <2> QED BY <1>10, <2>3, <2>4
<1>13. \A e \in vs \X vs : ToXqmx(q)[e] = RoundedRatio(Precision * u[e], peak)
  BY <1>0 DEF ToXqmx, t, u, sums, unit, sizes
<1> HIDE DEF peak
<1>14. Scaled(q, vs, u, peak)
  BY <1>7, <1>10, <1>11, <1>12, <1>13 DEF Scaled
<1> QED BY <1>14

\* The arithmetic of a row: the sum X of the sizes of its integers, each no further than
\* half from its share of the Precision, and the largest size of a long row.
LEMMA RowArithmetic ==
  ASSUME NEW P \in Nat \ {0}, NEW pk \in Nat \ {0}, NEW I \in Nat, I <= pk,
         NEW c \in Nat, c <= P, NEW X \in Nat,
         2 * pk * X <= 2 * P * I + pk * c
  PROVE  2 * X <= 3 * P
<1>1. P * I <= P * pk /\ pk * c <= pk * P /\ pk * P = P * pk
  OBVIOUS
<1>2. 2 * P * I = 2 * (P * I) /\ P * I \in Int /\ P * pk \in Int /\ pk * c \in Int
  OBVIOUS
<1>3. 2 * pk * X = pk * (2 * X) /\ pk * (3 * P) = 3 * (P * pk)
  OBVIOUS
<1>4. pk * (2 * X) <= pk * (3 * P)
  <2> DEFINE a == P * I
             b == P * pk
             d == pk * c
             e == pk * (2 * X)
  <2> HIDE DEF a, b, d, e
  <2>1. a <= b /\ d <= b /\ a \in Int /\ b \in Int /\ d \in Int /\ e <= 2 * a + d /\ e \in Int
    BY <1>1, <1>2, <1>3 DEF a, b, d, e
  <2>2. e <= 3 * b
    BY <2>1
  <2> QED BY <1>3, <2>2 DEF b, e
<1>5. CASE 2 * X >= 3 * P + 1
  <2>1. pk * (2 * X) >= pk * (3 * P + 1)
    BY <1>5
  <2>2. pk * (3 * P + 1) = pk * (3 * P) + pk
    OBVIOUS
  <2> DEFINE e == pk * (2 * X)
             f == pk * (3 * P)
  <2> HIDE DEF e, f
  <2>3. e \in Int /\ f \in Int /\ e <= f /\ e >= f + pk
    BY <1>4, <2>1, <2>2 DEF e, f
  <2> QED BY <2>3
<1> QED BY <1>5

\* The integers of a row.
LEMMA RowFits ==
  ASSUME NEW q, NEW vs, IsFiniteSet(vs), Cardinality(vs) <= Precision,
         NEW u, NEW peak, Scaled(q, vs, u, peak), NEW x, x = ToXqmx(q), NEW v \in vs
  PROVE  /\ \A e \in vs \X vs : x[e] \in Int
         /\ RowSize(x, vs, v) \in Nat /\ 2 * RowSize(x, vs, v) <= 3 * Precision
<1> DEFINE R == Row(vs, v)
           z == [e \in R |-> Size(x[e])]
           y == [e \in R |-> Size(u[e])]
           a == [e \in R |-> 2 * peak * z[e]]
           b == [e \in R |-> 2 * Precision * y[e] + peak * 1]
           one == [e \in R |-> 1]
<1>0. peak \in Nat \ {0} /\ Precision \in Nat \ {0}
  BY PrecisionAssumption DEF Scaled
<1>1. \A e \in vs \X vs :
        /\ u[e] \in Int /\ Precision * u[e] \in Int
        /\ x[e] = RoundedRatio(Precision * u[e], peak)
  BY <1>0 DEF Scaled
<1>2. \A e \in vs \X vs :
        x[e] \in Int /\ 2 * peak * Size(x[e]) <= 2 * Size(Precision * u[e]) + peak
  <2> SUFFICES ASSUME NEW e \in vs \X vs
               PROVE  x[e] \in Int /\ 2 * peak * Size(x[e]) <= 2 * Size(Precision * u[e]) + peak
    OBVIOUS
  <2> DEFINE n == Precision * u[e]
  <2>1. n \in Int /\ x[e] = RoundedRatio(n, peak)
    BY <1>1
  <2> HIDE DEF n
  <2>2. x[e] \in Int
    BY <1>0, <2>1, RoundFact
  <2>3. 2 * peak * Size(x[e]) <= 2 * Size(n) + peak
    BY <1>0, <2>1, RoundSize
  <2> QED BY <2>2, <2>3 DEF n
<1>3. \A e \in vs \X vs : Size(Precision * u[e]) = Precision * Size(u[e])
  <2>1. \A m \in Int : Size(Precision * m) = Precision * Size(m)
    <3> SUFFICES ASSUME NEW m \in Int PROVE Size(Precision * m) = Precision * Size(m)
      OBVIOUS
    <3>1. CASE m >= 0
      <4>1. Precision * m >= 0
        BY <1>0, <3>1
      <4> QED BY <1>0, <3>1, <4>1 DEF Size
    <3>2. CASE m < 0
      <4>1. Precision * m < 0 /\ -(Precision * m) = Precision * (-m)
        BY <1>0, <3>2
      <4> QED BY <1>0, <3>2, <4>1 DEF Size
    <3> QED BY <3>1, <3>2
  <2> QED BY <1>1, <2>1
<1>4. R \subseteq vs \X vs /\ IsFiniteSet(R) /\ Cardinality(R) = Cardinality(vs)
  BY RowFact DEF Row
<1> HIDE DEF R
<1>5. \A e \in R : /\ z[e] = Size(x[e]) /\ y[e] = Size(u[e]) /\ z[e] \in Nat /\ y[e] \in Nat
  <2>1. \A e \in R : x[e] \in Int /\ u[e] \in Int
    BY <1>1, <1>2, <1>4
  <2> QED BY <2>1 DEF Size
<1>6. \A e \in R : 2 * peak * Size(x[e]) <= 2 * (Precision * Size(u[e])) + peak
  BY <1>2, <1>3, <1>4
<1> HIDE DEF z, y
<1>7. \A e \in R : /\ a[e] \in Int /\ b[e] \in Int /\ a[e] <= b[e]
                   /\ a[e] = (2 * peak) * z[e] + 0 * z[e]
                   /\ b[e] = (2 * Precision) * y[e] + peak * one[e]
  <2> SUFFICES ASSUME NEW e \in R
               PROVE  /\ a[e] \in Int /\ b[e] \in Int /\ a[e] <= b[e]
                      /\ a[e] = (2 * peak) * z[e] + 0 * z[e]
                      /\ b[e] = (2 * Precision) * y[e] + peak * one[e]
    OBVIOUS
  <2> DEFINE ze == z[e]
             ye == y[e]
  <2>1. a[e] = 2 * peak * ze /\ b[e] = 2 * Precision * ye + peak * 1 /\ one[e] = 1
    OBVIOUS
  <2>2. ze \in Nat /\ ye \in Nat /\ 2 * peak * ze <= 2 * (Precision * ye) + peak
    BY <1>5, <1>6
  <2> HIDE DEF ze, ye, a, b, one
  <2>3. a[e] \in Int /\ b[e] \in Int
    BY <1>0, <2>1, <2>2
  <2>4. /\ 2 * Precision * ye = 2 * (Precision * ye) /\ peak * 1 = peak
        /\ 2 * peak * ze = (2 * peak) * ze + 0 * ze
    BY <1>0, <2>2
  <2>5. a[e] <= b[e]
    BY <2>1, <2>2, <2>4
  <2>6. b[e] = (2 * Precision) * ye + peak * one[e]
    BY <2>1
  <2> QED BY <2>1, <2>3, <2>4, <2>5, <2>6 DEF ze, ye
<1>8. \A e \in R : one[e] = 1
  OBVIOUS
<1> HIDE DEF a, b, one
<1>9. SumFunctionOnSet(a, R) <= SumFunctionOnSet(b, R)
  <2>1. NoLarger(a, b, R)
    BY <1>7 DEF NoLarger
  <2> QED BY <1>4, <2>1, SumNoLarger
<1>10. SumFunctionOnSet(z, R) \in Nat /\ SumFunctionOnSet(y, R) \in Nat
  BY <1>4, <1>5, SumNat
<1>11. SumFunctionOnSet(a, R) = (2 * peak) * SumFunctionOnSet(z, R) + 0 * SumFunctionOnSet(z, R)
  <2>0. 2 * peak \in Int /\ 0 \in Int
    BY <1>0
  <2>1. Combines(a, R, 2 * peak, z, 0, z)
    BY <1>5, <1>7, <2>0 DEF Combines
  <2> QED BY <1>4, <2>1, SumLinear
<1>12. SumFunctionOnSet(b, R)
         = (2 * Precision) * SumFunctionOnSet(y, R) + peak * SumFunctionOnSet(one, R)
  <2>0. 2 * Precision \in Int /\ peak \in Int
    BY <1>0
  <2>1. \A e \in R : one[e] \in Int
    BY <1>8
  <2>2. Combines(b, R, 2 * Precision, y, peak, one)
    BY <1>5, <1>7, <2>0, <2>1 DEF Combines
  <2> QED BY <1>4, <2>2, SumLinear
<1>13. SumFunctionOnSet(one, R) = Cardinality(vs) /\ Cardinality(vs) \in Nat
  BY <1>4, <1>8, SumOnes, FS_CardinalityType
<1>14. SumFunctionOnSet(y, R) <= peak /\ SumFunctionOnSet(z, R) = RowSize(x, vs, v)
  BY DEF Scaled, RowSize, R, y, z
<1>15. 2 * SumFunctionOnSet(z, R) <= 3 * Precision
  <2> DEFINE I == SumFunctionOnSet(y, R)
             X == SumFunctionOnSet(z, R)
             c == Cardinality(vs)
  <2>1. I \in Nat /\ X \in Nat /\ c \in Nat /\ I <= peak /\ c <= Precision
    BY <1>10, <1>13, <1>14
  <2>2. (2 * peak) * X + 0 * X <= (2 * Precision) * I + peak * c
    BY <1>9, <1>11, <1>12, <1>13
  <2> HIDE DEF I, X, c
  <2>3. 2 * peak * X <= 2 * Precision * I + peak * c
    BY <1>0, <2>1, <2>2
  <2>4. 2 * X <= 3 * Precision
    BY <1>0, <2>1, <2>3, RowArithmetic
  <2> QED BY <2>4 DEF X
<1> QED BY <1>2, <1>10, <1>14, <1>15

\* Not all of them are 0.
LEMMA RowKept ==
  ASSUME NEW q, NEW vs, IsFiniteSet(vs), Cardinality(vs) <= Precision,
         NEW u, NEW peak, Scaled(q, vs, u, peak), NEW x, x = ToXqmx(q)
  PROVE  \E e \in vs \X vs : x[e] # 0
<1>0. peak \in Nat \ {0} /\ Precision \in Nat \ {0}
  BY PrecisionAssumption DEF Scaled
<1>1. PICK v \in vs : RowSize(u, vs, v) = peak
  BY DEF Scaled
<1> DEFINE R == Row(vs, v)
           y == [e \in R |-> Size(u[e])]
           m == [e \in R |-> -Size(u[e])]
<1>2. R \subseteq vs \X vs /\ IsFiniteSet(R) /\ Cardinality(R) = Cardinality(vs) /\ <<v, v>> \in R
  BY RowFact DEF Row
<1>3. \A e \in vs \X vs : u[e] \in Int /\ x[e] = RoundedRatio(Precision * u[e], peak)
  BY DEF Scaled
<1>4. SumFunctionOnSet(y, R) = peak
  BY <1>1 DEF RowSize
<1> HIDE DEF R
<1>5. \A e \in R : y[e] = Size(u[e]) /\ y[e] \in Nat /\ m[e] = -y[e] /\ m[e] \in Int
  <2>1. \A e \in R : u[e] \in Int
    BY <1>2, <1>3
  <2> QED BY <2>1 DEF Size
<1> HIDE DEF y, m
<1>6. PICK e \in R : \A d \in R : y[d] <= y[e]
  <2>1. \A d \in R : m[d] \in Int
    BY <1>5
  <2>2. R # {}
    BY <1>2
  <2>3. \E e \in R : \A d \in R : m[e] <= m[d]
    BY <1>2, <2>1, <2>2, LeastPlace
  <2> QED BY <1>5, <2>3
<1>7. peak <= y[e] * Cardinality(vs)
  <2>1. y[e] \in Int /\ \A d \in R : y[d] \in Int /\ y[d] <= y[e]
    BY <1>5, <1>6
  <2>2. SumFunctionOnSet(y, R) <= y[e] * Cardinality(R)
    BY <1>2, <2>1, SumUpTo
  <2> QED BY <1>2, <1>4, <2>2
<1>8. e \in vs \X vs /\ u[e] \in Int /\ y[e] = Size(u[e]) /\ y[e] \in Nat
  BY <1>2, <1>3, <1>5
<1>9. Size(Precision * u[e]) = Precision * Size(u[e])
  <2>1. CASE u[e] >= 0
    <3>1. Precision * u[e] >= 0
      BY <1>0, <1>8, <2>1
    <3> QED BY <1>0, <1>8, <2>1, <3>1 DEF Size
  <2>2. CASE u[e] < 0
    <3>1. Precision * u[e] < 0 /\ -(Precision * u[e]) = Precision * (-u[e])
      BY <1>0, <1>8, <2>2
    <3> QED BY <1>0, <1>8, <2>2, <3>1 DEF Size
  <2> QED BY <1>8, <2>1, <2>2
<1>10. peak <= Size(Precision * u[e])
  <2> DEFINE c == Cardinality(vs)
             n == y[e]
  <2>1. c \in Nat /\ c <= Precision /\ n \in Nat /\ peak <= n * c
    BY <1>7, <1>8, FS_CardinalityType
  <2> HIDE DEF c, n
  <2>2. n * c <= n * Precision /\ n * Precision = Precision * n /\ n * c \in Int
        /\ n * Precision \in Int
    BY <1>0, <2>1
  <2>3. peak <= Precision * n
    BY <1>0, <2>1, <2>2
  <2> QED BY <1>8, <1>9, <2>3 DEF n
<1>11. x[e] # 0
  <2> DEFINE n == Precision * u[e]
  <2>1. n \in Int /\ x[e] = RoundedRatio(n, peak) /\ peak <= Size(n)
    BY <1>0, <1>3, <1>8, <1>10
  <2> HIDE DEF n
  <2> QED BY <1>0, <2>1, RoundSize
<1> QED BY <1>8, <1>11

\* A field is at most twice the sum of its row.
LEMMA FieldFact ==
  ASSUME NEW x, NEW vs, IsFiniteSet(vs), DOMAIN x = vs \X vs,
         \A e \in vs \X vs : x[e] \in Int, NEW v \in vs
  PROVE  Field(x, v) \in Int /\ Size(Field(x, v)) <= 2 * RowSize(x, vs, v)
<1> DEFINE R == Row(vs, v)
           d == <<v, v>>
           O == {e \in DOMAIN x : e[1] = v /\ e[2] # v}
           f == [e \in O |-> x[e]]
           z == [e \in R |-> Size(x[e])]
<1>1. IsFiniteSet(R) /\ d \in R
  BY RowFact DEF Row
<1>2. O = R \ {d}
  <2>1. \A e \in vs \X vs : e = <<e[1], e[2]>>
    OBVIOUS
  <2>2. \A e \in R : e \in vs \X vs /\ e[1] = v
    BY DEF Row
  <2>3. \A e \in R : e # d => e[2] # v
    BY <2>1, <2>2
  <2>4. d[2] = v
    OBVIOUS
  <2>5. \A e \in O : e \in R /\ e # d
    BY <2>4 DEF Row
  <2>6. \A e \in R : e \in DOMAIN x /\ e[1] = v
    BY DEF Row
  <2> HIDE DEF R, d
  <2> QED BY <2>3, <2>5, <2>6
<1>3. \A e \in R : x[e] \in Int /\ z[e] = Size(x[e])
  BY DEF Row
<1>4. Field(x, v) = 2 * x[d] + SumFunctionOnSet(f, O)
  BY DEF Field, SumFunction
<1>5. \A e \in O : f[e] = x[e]
  OBVIOUS
<1>6. RowSize(x, vs, v) = SumFunctionOnSet(z, R)
  BY DEF RowSize
<1> HIDE DEF R, O, f, z, d
<1>7. IsFiniteSet(O)
  BY <1>1, <1>2, FS_Subset
<1>8. SumFunctionOnSet(z, R) = z[d] + SumFunctionOnSet(z, O)
  <2>1. \A e \in R : z[e] \in Int
    BY <1>3 DEF Size
  <2> QED BY <1>1, <1>2, <2>1, SumLess
<1>9. /\ Size(SumFunctionOnSet(f, O)) <= SumFunctionOnSet(z, O)
      /\ SumFunctionOnSet(f, O) \in Int /\ SumFunctionOnSet(z, O) \in Nat
  <2>1. \A e \in O : f[e] \in Int /\ z[e] = Size(f[e])
    BY <1>2, <1>3, <1>5
  <2> QED BY <1>7, <2>1, SumSize
<1>10. x[d] \in Int /\ z[d] = Size(x[d])
  BY <1>1, <1>3
<1> DEFINE s == SumFunctionOnSet(f, O)
           t == SumFunctionOnSet(z, O)
           y == x[d]
<1> HIDE DEF s, t, y
<1>11. /\ s \in Int /\ t \in Nat /\ y \in Int /\ Size(s) <= t
       /\ Field(x, v) = 2 * y + s /\ RowSize(x, vs, v) = Size(y) + t
  BY <1>4, <1>6, <1>8, <1>9, <1>10 DEF s, t, y
<1>12. 2 * y + s \in Int /\ Size(2 * y + s) <= 2 * (Size(y) + t)
  BY <1>11 DEF Size
<1> QED BY <1>11, <1>12

\* A square of no more variables than the Precision fits.
LEMMA FitsFact ==
  ASSUME NEW vs, IsSquare(qubo.q, vs), Cardinality(vs) <= Precision
  PROVE  XqmxFits
<1> SUFFICES ASSUME \E e \in DOMAIN qubo.q : Terms(qubo.q)[e] # 0
             PROVE  LET x == ToXqmx(qubo.q)
                    IN /\ \E e \in DOMAIN x : x[e] # 0
                       /\ \A e \in DOMAIN x :
                            1000 * Most(Size(Field(x, e[1])), Size(x[e])) <= 4 * 2147 * Precision
  BY DEF XqmxFits
<1> DEFINE q == qubo.q
           x == ToXqmx(q)
<1>1. IsSquare(q, vs) /\ \E e \in DOMAIN q : Terms(q)[e] # 0
  OBVIOUS
<1>2. DOMAIN q = vs \X vs /\ IsFiniteSet(vs)
  BY DEF IsSquare
<1>3. DOMAIN x = vs \X vs
  BY <1>2 DEF ToXqmx
<1> HIDE DEF q, x
<1>4. PICK u, peak : Scaled(q, vs, u, peak)
  BY <1>1, ScaledFact
<1>5. \E e \in vs \X vs : x[e] # 0
  BY <1>2, <1>4, RowKept DEF x
<1>6. ASSUME NEW e \in vs \X vs
      PROVE  1000 * Most(Size(Field(x, e[1])), Size(x[e])) <= 4 * 2147 * Precision
  <2>0. e[1] \in vs /\ e \in Row(vs, e[1])
    BY DEF Row
  <2>1. /\ \A d \in vs \X vs : x[d] \in Int
        /\ RowSize(x, vs, e[1]) \in Nat /\ 2 * RowSize(x, vs, e[1]) <= 3 * Precision
    BY <1>2, <1>4, <2>0, RowFits DEF x
  <2>2. Field(x, e[1]) \in Int /\ Size(Field(x, e[1])) <= 2 * RowSize(x, vs, e[1])
    BY <1>2, <1>3, <2>0, <2>1, FieldFact
  <2>3. Size(x[e]) <= RowSize(x, vs, e[1]) /\ x[e] \in Int
    BY <1>2, <2>0, <2>1, RowSizeFact
  <2> DEFINE a == Field(x, e[1])
             b == x[e]
             r == RowSize(x, vs, e[1])
  <2> HIDE DEF a, b, r
  <2>4. /\ a \in Int /\ b \in Int /\ r \in Nat /\ 2 * r <= 3 * Precision
        /\ Size(a) <= 2 * r /\ Size(b) <= r /\ Precision \in Nat
    BY <2>1, <2>2, <2>3, PrecisionAssumption DEF a, b, r
  <2>5. 1000 * Most(Size(a), Size(b)) <= 4 * 2147 * Precision
    BY <2>4 DEF Most, Size
  <2> QED BY <2>5 DEF a, b
<1> QED BY <1>3, <1>5, <1>6 DEF x, q

\* A basket's variables: b of each asset.
LEMMA BasketBits ==
  ASSUME order \in Orders, NEW b \in Nat
  PROVE  /\ IsFiniteSet(Assets \X (0..b - 1))
         /\ Cardinality(Assets \X (0..b - 1)) = order.n * b
<1>1. IsFiniteSet(Assets) /\ Cardinality(Assets) = order.n
  BY BasketFact DEF N
<1>2. IsFiniteSet(0..b - 1) /\ Cardinality(0..b - 1) = b
  <2>1. 0 \in Int /\ b - 1 \in Int
    OBVIOUS
  <2>2. /\ IsFiniteSet(0..b - 1)
        /\ Cardinality(0..b - 1) = IF 0 > b - 1 THEN 0 ELSE (b - 1) - 0 + 1
    BY <2>1, FS_Interval
  <2> QED BY <2>2
<1> DEFINE T == 0..b - 1
           vs == Assets \X T
<1>3. IsFiniteSet(vs) /\ Cardinality(vs) = Cardinality(Assets) * Cardinality(T)
  <2>1. IsFiniteSet(T)
    BY <1>2
  <2> HIDE DEF T
  <2> QED BY <1>1, <2>1, FS_Product
<1>4. Cardinality(T) = b
  BY <1>2
<1> HIDE DEF T
<1>5. Cardinality(vs) = order.n * b
  <2> HIDE DEF vs
  <2> QED BY <1>1, <1>3, <1>4
<1> QED BY <1>3, <1>5 DEF T, vs

\* The QUBO of each encoding is a full matrix of integers, on as many variables as counted.
LEMMA SelectSquare ==
  ASSUME order \in Orders, order.mode = "select", params = MapSliders(order),
         qubo = EncodeSelect(order, params)
  PROVE  IsSquare(qubo.q, Assets \X {0})
<1> DEFINE vs == Assets \X {0}
           share == BetaShare(order.conf, order.n)
           scale == SelectScale(order, params.k)
           full == [e \in vs \X vs |->
                      2 * share.d * HalfGamma * Sigma(e[1][1], e[2][1])
                      + (IF e[1] = e[2] THEN 0
                         ELSE share.n * SelectScale(order, params.k) * Rho[e[1][1]][e[2][1]])]
           side == [v \in vs |-> -2 * share.d * params.k * Mu[v[1]]]
<1>1. /\ share.n \in Int /\ share.d \in Int /\ params.k \in Int /\ scale \in Int
      /\ HalfGamma \in Int
  <2>1. order.conf \in Config /\ order.n \in Nat
    BY OrdersAssumption
  <2>2. share.n \in Int /\ share.d \in Int
    BY <2>1, ShareFact
  <2>3. params.k \in Nat
    <3>1. Boxed(MapSliders(order), Held(order), Grid(order)) /\ Held(order) \in 3..order.n
      BY SelectBox, HeldFact
    <3> QED BY <3>1 DEF Boxed
  <2>4. scale \in Int
    BY <2>3, ScaleFact
  <2>5. HalfGamma \in Int
    BY BasketFact
  <2> HIDE DEF share, scale
  <2> QED BY <2>1, <2>2, <2>3, <2>4, <2>5
<1>2. qubo.q = Matrix(full, side)
  BY DEF EncodeSelect, Assets
<1>3. /\ DOMAIN full = vs \X vs /\ DOMAIN qubo.q = vs \X vs
      /\ \A u, v \in vs : qubo.q[<<u, v>>] = full[<<u, v>>] + (IF u = v THEN side[u] ELSE 0)
  <2>1. DOMAIN full = vs \X vs
    OBVIOUS
  <2> HIDE DEF full, side, vs
  <2>2. OnDiagonal(qubo.q, vs, full, side)
    BY <1>2, <2>1, MatrixFact
  <2> QED BY <2>1, <2>2 DEF OnDiagonal
<1>4. IsFiniteSet(vs)
  BY BasketFact, FS_Singleton, FS_Product
<1>5. ASSUME NEW u \in vs, NEW v \in vs PROVE qubo.q[<<u, v>>] \in Int
  <2>1. u[1] \in Assets /\ v[1] \in Assets
    OBVIOUS
  <2>2. Sigma(u[1], v[1]) \in Int /\ Rho[u[1]][v[1]] \in Int /\ Mu[u[1]] \in Int
    BY <2>1, BasketFact
  <2>3. qubo.q[<<u, v>>] = full[<<u, v>>] + (IF u = v THEN side[u] ELSE 0)
    <3> HIDE DEF full, side, vs
    <3> QED BY <1>3
  <2>4. full[<<u, v>>] = 2 * share.d * HalfGamma * Sigma(u[1], v[1])
                         + (IF u = v THEN 0 ELSE share.n * scale * Rho[u[1]][v[1]])
    OBVIOUS
  <2>5. side[u] = -2 * share.d * params.k * Mu[u[1]]
    OBVIOUS
  <2> DEFINE a == Sigma(u[1], v[1])
             b == Rho[u[1]][v[1]]
             c == Mu[u[1]]
             k == params.k
             d == share.d
             s == share.n
             t == scale
  <2> HIDE DEF a, b, c, k, d, s, t, full, side, share, scale, vs
  <2>6. /\ a \in Int /\ b \in Int /\ c \in Int /\ k \in Int /\ d \in Int /\ s \in Int /\ t \in Int
        /\ full[<<u, v>>] = 2 * d * HalfGamma * a + (IF u = v THEN 0 ELSE s * t * b)
        /\ side[u] = -2 * d * k * c
    BY <1>1, <2>2, <2>4, <2>5 DEF a, b, c, k, d, s, t
  <2>7. full[<<u, v>>] \in Int
    <3>1. 2 * d * HalfGamma * a \in Int /\ s * t * b \in Int
      BY <1>1, <2>6
    <3> QED BY <2>6, <3>1
  <2>8. side[u] \in Int
    <3>1. -2 * d * k * c \in Int
      BY <2>6
    <3> QED BY <2>6, <3>1
  <2> QED BY <2>3, <2>7, <2>8
<1> QED BY <1>3, <1>4, <1>5 DEF IsSquare

LEMMA SharedSquare ==
  ASSUME NEW vs, NEW quad, NEW lin, SharedQubo(vs, quad, lin)
  PROVE  IsSquare(qubo.q, vs)
<1>1. IsFiniteSet(vs) /\ DOMAIN qubo.q = vs \X vs
  BY DEF SharedQubo, IsPlaces
<1>2. ASSUME NEW u \in vs, NEW v \in vs PROVE qubo.q[<<u, v>>] \in Int
  <2>1. /\ quad[<<u, v>>] \in Int /\ lin[u] \in Int
        /\ qubo.q[<<u, v>>] = quad[<<u, v>>] + (IF u = v THEN lin[u] ELSE 0)
    BY DEF SharedQubo, IsQubo
  <2> QED BY <2>1
<1> QED BY <1>1, <1>2 DEF IsSquare

LEMMA EncodedSquare ==
  ASSUME order \in Orders, params = MapSliders(order), qubo = Encode(order, params)
  PROVE  \E vs : IsSquare(qubo.q, vs) /\ Cardinality(vs) = VarCount(order, params)
<1>0. order.mode \in Modes /\ order.n \in Nat
  BY OrdersAssumption
<1>1. CASE order.mode = "convex"
  <2> DEFINE b == BitsForBasket(order.conf, order.n)
  <2>1. b \in Nat
    BY OrdersAssumption DEF BitsForBasket, Config
  <2>2. qubo = EncodeConvex(order, params) /\ VarCount(order, params) = order.n * b
    BY <1>1 DEF Encode, VarCount
  <2>3. PICK vs, quad, lin : SharedQubo(vs, quad, lin) /\ vs = Assets \X (0..b - 1)
    BY <1>1, <2>2, ConvexFact
  <2> HIDE DEF b
  <2>4. IsSquare(qubo.q, vs)
    BY <2>3, SharedSquare
  <2> QED BY <2>1, <2>2, <2>3, <2>4, BasketBits
<1>2. CASE order.mode = "penalized"
  <2> DEFINE b == IncrementBits(params.units)
  <2>1. b \in Nat
    <3>1. Boxed(MapSliders(order), Held(order), Grid(order)) /\ Grid(order) \in Grids
      BY <1>2, PenalizedBox, HeldFact
    <3>2. params.units \in Grids
      BY <3>1 DEF Boxed
    <3>3. Log2(params.units) \in 2..8
      BY <3>2, LogFact
    <3> QED BY <3>3 DEF IncrementBits
  <2>2. qubo = EncodePenalized(order, params) /\ VarCount(order, params) = order.n * (1 + b)
    BY <1>2 DEF Encode, VarCount
  <2>3. PICK a, vs, quad, lin, qs, ls, xq, xl, half :
          PenalizedParts(a, vs, quad, lin, qs, ls, xq, xl, half)
    BY <1>2, <2>2, PenalizedFact
  <2>4. vs = Assets \X (0..b)
    BY <2>3 DEF PenalizedParts
  <2> HIDE DEF b
  <2>5. SharedQubo(vs, quad, lin)
    BY <2>3 DEF PenalizedParts
  <2>6. IsSquare(qubo.q, vs) /\ vs = Assets \X (0..(1 + b) - 1)
    <3>1. (1 + b) - 1 = b
      BY <2>1
    <3> QED BY <2>4, <2>5, <3>1, SharedSquare
  <2>7. 1 + b \in Nat
    BY <2>1
  <2> QED BY <2>2, <2>6, <2>7, BasketBits
<1>3. CASE order.mode = "select"
  <2>1. qubo = EncodeSelect(order, params) /\ VarCount(order, params) = order.n
    BY <1>3 DEF Encode, VarCount
  <2>2. IsSquare(qubo.q, Assets \X {0})
    BY <1>3, <2>1, SelectSquare
  <2>3. 1 \in Nat /\ 0..1 - 1 = {0} /\ order.n * 1 = order.n
    BY <1>0
  <2>4. Cardinality(Assets \X (0..1 - 1)) = order.n * 1
    BY <2>3, BasketBits
  <2>5. Cardinality(Assets \X {0}) = order.n
    BY <2>3, <2>4
  <2> QED BY <2>1, <2>2, <2>5
<1> QED BY <1>0, <1>1, <1>2, <1>3 DEF Modes

\* Every QUBO that is encoded fits the codec.
LEMMA EncodedFits ==
  ASSUME order \in Orders, params = MapSliders(order), qubo = Encode(order, params),
         VarCount(order, params) <= MaxVars
  PROVE  XqmxFits
<1>1. PICK vs : IsSquare(qubo.q, vs) /\ Cardinality(vs) = VarCount(order, params)
  BY EncodedSquare
<1>2. Cardinality(vs) \in Nat
  BY <1>1, FS_CardinalityType DEF IsSquare
<1>3. Cardinality(vs) <= Precision
  BY <1>1, <1>2, PrecisionAssumption
<1> QED BY <1>1, <1>3, FitsFact

\* Every energy is explained.
LEMMA EncodedEnergy ==
  ASSUME order \in Orders, params = MapSliders(order), qubo = Encode(order, params),
         sample \subseteq {e[1] : e \in DOMAIN qubo.q}
  PROVE  EnergyExplained
<1>0. order.mode \in Modes
  BY OrdersAssumption
<1>1. CASE order.mode = "convex"
  BY <1>1, ConvexEnergy DEF Encode
<1>2. CASE order.mode = "penalized"
  BY <1>2, PenalizedEnergy DEF Encode
<1>3. CASE order.mode = "select"
  BY <1>3, SelectEnergy DEF Encode
<1> QED BY <1>0, <1>1, <1>2, <1>3 DEF Modes

-----------------------------------------------------------------------------
(* The gate.                                                               *)

\* A read of the integer encoding, with increments up to most.
GridRead(b, most) ==
  /\ IsRead(b) /\ b \in 1..7 /\ most \in Nat
  /\ \A v \in sample :
       qubo.place[v] = IF Select(v) THEN 1 ELSE IncrementPlaceValues(most, b)[v[2] - 1]

\* Increments are not negative.
LEMMA IncrementNat ==
  ASSUME NEW most \in Nat, NEW b \in 1..8
  PROVE  \A k \in 0..b - 1 : IncrementPlaceValues(most, b)[k] \in Nat
<1> SUFFICES ASSUME NEW k \in 0..b - 1 PROVE IncrementPlaceValues(most, b)[k] \in Nat
  OBVIOUS
<1>1. 2^k \in Nat
  BY BitsFact
<1>2. IncrementPlaceValues(most, b)[k]
        = IF 2^(k + 1) - 1 <= most THEN 2^k ELSE IF 2^k - 1 <= most THEN most - (2^k - 1) ELSE 0
  BY DEF IncrementPlaceValues
<1> DEFINE x == 2^k
           y == 2^(k + 1)
<1> HIDE DEF x, y
<1>3. /\ x \in Nat
      /\ IncrementPlaceValues(most, b)[k]
           = IF y - 1 <= most THEN x ELSE IF x - 1 <= most THEN most - (x - 1) ELSE 0
  BY <1>1, <1>2 DEF x, y
<1>4. CASE x - 1 <= most
  <2>1. most - (x - 1) \in Nat
    BY <1>3, <1>4
  <2> QED BY <1>3, <2>1
<1>5. CASE ~(x - 1 <= most)
  BY <1>3, <1>5
<1> QED BY <1>4, <1>5

\* An asset that is selected gets a unit and its increments, no more than the cap allows;
\* one that is not, without strays, gets nothing.
LEMMA GridPlaces ==
  ASSUME NEW b, NEW most, GridRead(b, most), NEW i \in Assets
  PROVE  /\ Places(i) \in Nat
         /\ i \in Selected => 1 <= Places(i) /\ Places(i) <= 1 + most
         /\ i \notin Selected /\ Stray = {} => Places(i) = 0
<1> DEFINE S == SetOf(i)
           f == IncrementPlaceValues(most, b)
           pl == [v \in S |-> qubo.place[v]]
           d == <<i, 0>>
           O == S \ {d}
           ks == {v[2] - 1 : v \in O}
           r == [v \in O |-> v[2] - 1]
<1>1. IsFiniteSet(S) /\ \A v \in S : v \in sample /\ v = <<i, v[2]>> /\ v[2] \in 0..b
  BY FS_Subset DEF GridRead, IsRead, SetOf
<1>2. b \in 1..7 /\ b \in 1..8 /\ most \in Nat
  BY DEF GridRead
<1>3. \A k \in 0..b - 1 : f[k] \in Nat
  BY <1>2, IncrementNat
<1>4. \A v \in S : pl[v] = IF v[2] = 0 THEN 1 ELSE f[v[2] - 1]
  BY <1>1 DEF GridRead, Select
<1>5. Places(i) = SumFunctionOnSet(pl, S)
  BY DEF Places, SumFunction
<1>6. \A v \in O : v[2] \in 1..b /\ v[2] - 1 \in 0..b - 1 /\ v = <<i, v[2]>> /\ v \in S
  BY <1>1, <1>2
<1>7. i \in Selected => d \in S
  BY DEF Selected, SetOf
<1>8. i \notin Selected /\ Stray = {} => S = {}
  <2> SUFFICES ASSUME i \notin Selected, Stray = {}, NEW v \in S PROVE FALSE
    OBVIOUS
  <2>1. v \in sample /\ v[1] = i /\ v = <<i, v[2]>>
    BY <1>1
  <2>2. CASE v[2] = 0
    BY <2>1, <2>2 DEF Selected
  <2>3. CASE v[2] # 0
    BY <2>1, <2>3 DEF Stray, Select
  <2> QED BY <2>2, <2>3
<1> HIDE DEF S, f, pl
<1>9. \A v \in S : pl[v] \in Nat
  <2> SUFFICES ASSUME NEW v \in S PROVE pl[v] \in Nat
    OBVIOUS
  <2>1. v[2] \in 0..b
    BY <1>1
  <2>2. v[2] # 0 => v[2] - 1 \in 0..b - 1
    BY <1>2, <2>1
  <2> QED BY <1>3, <1>4, <2>2
<1>10. Places(i) \in Nat
  BY <1>1, <1>5, <1>9, SumNat
<1>11. i \notin Selected /\ Stray = {} => Places(i) = 0
  BY <1>5, <1>8, SumNone
<1>12. ASSUME i \in Selected PROVE 1 <= Places(i) /\ Places(i) <= 1 + most
  <2>0. d \in S /\ d[2] = 0
    BY <1>7, <1>12
  <2>1. pl[d] = 1
    BY <1>4, <2>0
  <2>2. Places(i) = pl[d] + SumFunctionOnSet(pl, O)
    BY <1>1, <1>5, <1>9, <2>0, SumLess
  <2>3. IsFiniteSet(O) /\ \A v \in O : pl[v] \in Int
    BY <1>1, <1>9, FS_Subset
  <2>4. Renames(f, ks, pl, O, r)
    <3>1. ks = {r[v] : v \in O}
      OBVIOUS
    <3>2. ASSUME NEW v \in O PROVE r[v] = v[2] - 1 /\ pl[v] = f[r[v]]
      <4>1. v[2] # 0 /\ v \in S
        BY <1>6
      <4>2. r[v] = v[2] - 1
        OBVIOUS
      <4>3. pl[v] = f[v[2] - 1]
        BY <1>4, <4>1
      <4> QED BY <4>2, <4>3
    <3>3. ASSUME NEW v \in O, NEW u \in O, r[v] = r[u] PROVE v = u
      <4>1. v[2] - 1 = u[2] - 1 /\ v[2] \in 1..b /\ u[2] \in 1..b
        BY <1>6, <3>2, <3>3
      <4>2. v[2] = u[2]
        BY <1>2, <4>1
      <4>3. v = <<i, v[2]>> /\ u = <<i, u[2]>>
        BY <1>6
      <4> QED BY <4>2, <4>3
    <3> HIDE DEF ks, r, O
    <3> QED BY <2>3, <3>1, <3>2, <3>3 DEF Renames
  <2>5. SumFunctionOnSet(f, ks) = SumFunctionOnSet(pl, O)
    <3> HIDE DEF ks, r, O
    <3> QED BY <2>3, <2>4, SumRenamed
  <2>6. ks \in SUBSET (0..b - 1)
    BY <1>6
  <2>7. SumFunctionOnSet(f, ks) \in Reach(f, b)
    <3> HIDE DEF ks
    <3> QED BY <2>6 DEF Reach
  <2>8. Reach(f, b) = 0..Least(most, 2^b - 1)
    <3>1. b \in 0..8
      BY <1>2
    <3> QED BY <1>2, <3>1, PlacesReach DEF f
  <2> DEFINE s == SumFunctionOnSet(pl, O)
             t == 2^b - 1
  <2>9. s \in 0..Least(most, t)
    <3> HIDE DEF ks, O
    <3> QED BY <2>5, <2>7, <2>8
  <2>10. t \in Nat
    BY <1>2, BitsFact
  <2> HIDE DEF s, t
  <2>11. s \in Nat /\ s <= most
    BY <1>2, <2>9, <2>10 DEF Least
  <2>12. Places(i) = 1 + s
    BY <2>1, <2>2 DEF s
  <2> QED BY <1>2, <2>11, <2>12
<1> QED BY <1>10, <1>11, <1>12

\* A quotient is rounded down.
LEMMA RoundedDown ==
  ASSUME NEW a \in Nat, NEW c \in Nat \ {0}
  PROVE  (a \div c) * c <= a
<1> DEFINE g == a \div c
           m == a % c
<1>1. a = c * g + m /\ m \in 0..c - 1 /\ g \in Int
  OBVIOUS
<1> HIDE DEF g, m
<1>2. g * c = c * g /\ c * g \in Int /\ m \in Nat
  BY <1>1
<1>3. g * c <= a
  BY <1>1, <1>2
<1> QED BY <1>3 DEF g

\* The box of the integer grid: a unit at least, and most + 1 at most.
GridBox(most) ==
  /\ params.units \in 4..256 /\ most \in Nat
  /\ params.wMin.n = 1 /\ params.wMin.d = params.units
  /\ params.wMax.n \in Nat /\ params.wMax.d \in Nat \ {0}
  /\ (1 + most) * params.wMax.d <= params.wMax.n * params.units

LEMMA GridBoxFact ==
  ASSUME order \in Orders, order.mode = "penalized", params = MapSliders(order)
  PROVE  GridBox(MostIncrement(params))
<1> DEFINE p == params
           x == p.wMax.n * p.units
           y == x \div p.wMax.d
<1>1. Boxed(p, Held(order), Grid(order)) /\ Grid(order) \in 4..256
  BY PenalizedBox, HeldFact
<1>2. /\ p.units \in 4..256 /\ p.wMin.n = 1 /\ p.wMax.n \in Nat /\ p.wMax.d \in Nat \ {0}
      /\ p.wMax.d <= p.wMax.n * p.wMin.d
  BY <1>1 DEF Boxed
<1>3. p.wMin.d = p.units
  BY DEF MapSliders, Fraction
<1>4. x \in Nat /\ p.wMax.d <= x
  BY <1>2, <1>3
<1>5. MostIncrement(p) = Most(0, y - 1)
  BY DEF MostIncrement
<1> HIDE DEF x
<1>6. y \in Nat /\ 1 <= y
  <2>1. 1 * p.wMax.d <= x
    BY <1>2, <1>4
  <2> QED BY <1>2, <1>4, <2>1, QuotientFact
<1>7. y * p.wMax.d <= x
  <2> QED BY <1>2, <1>4, RoundedDown
<1> HIDE DEF y
<1>8. MostIncrement(p) = y - 1 /\ y - 1 \in Nat /\ 1 + (y - 1) = y
  BY <1>5, <1>6 DEF Most
<1>9. (1 + MostIncrement(p)) * p.wMax.d <= p.wMax.n * p.units
  BY <1>7, <1>8 DEF x
<1> QED BY <1>2, <1>3, <1>8, <1>9 DEF GridBox

\* Amounts of whole units pass the gate if they spend the budget, on k assets.
LEMMA UnitsGate ==
  ASSUME order \in Orders, order.mode = "penalized", NEW most, GridBox(most),
         weights.over = params.units, DOMAIN weights.of = Assets,
         \A i \in Assets : weights.of[i] \in Nat,
         \A i \in Selected : 1 <= weights.of[i] /\ weights.of[i] <= 1 + most,
         \A i \in Assets \ Selected : weights.of[i] = 0
  PROVE  Feasible(weights)
           <=> SumFunction(weights.of) = params.units /\ Cardinality(Selected) = params.k
<1> DEFINE w == weights.of
           U == params.units
           held == {i \in Assets : 1000 * w[i] > U}
           total == SumFunction(w)
           d == params.wMax.d
           n == params.wMax.n
<1>1. /\ U \in 4..256 /\ most \in Nat /\ n \in Nat /\ d \in Nat \ {0}
      /\ (1 + most) * d <= n * U /\ params.wMin.n = 1 /\ params.wMin.d = U
  BY DEF GridBox
<1>2. \A i \in Assets : w[i] \in Nat /\ (i \in Selected => 1 <= w[i] /\ w[i] <= 1 + most)
                        /\ (i \notin Selected => w[i] = 0)
  OBVIOUS
<1>3. total \in Int
  <2>1. IsFiniteSet(Assets) /\ total = SumFunctionOnSet(w, Assets)
    BY BasketFact DEF SumFunction
  <2> HIDE DEF w, total
  <2> QED BY <1>2, <2>1, SumInt
<1>4. Selected \subseteq Assets
  BY DEF Selected
<1> HIDE DEF w, U, d, n, total
<1>5. held = Selected
  <2>1. \A i \in Assets : 1000 * w[i] > U <=> i \in Selected
    <3> SUFFICES ASSUME NEW i \in Assets PROVE 1000 * w[i] > U <=> i \in Selected
      OBVIOUS
    <3>1. CASE i \in Selected
      BY <1>1, <1>2, <3>1
    <3>2. CASE i \notin Selected
      BY <1>1, <1>2, <3>2
    <3> QED BY <3>1, <3>2
  <2> QED BY <1>4, <2>1
<1>6. 1000 * Size(total - U) <= U <=> total = U
  BY <1>1, <1>3 DEF Size
<1>7. \A i \in Assets : 1000 * (w[i] * d - n * U) <= U * d
  <2> SUFFICES ASSUME NEW i \in Assets PROVE 1000 * (w[i] * d - n * U) <= U * d
    OBVIOUS
  <2>1. w[i] \in Nat /\ w[i] <= 1 + most
    BY <1>1, <1>2
  <2>2. w[i] * d <= (1 + most) * d
    BY <1>1, <2>1
  <2> DEFINE a == w[i] * d
             b == (1 + most) * d
             c == n * U
             e == U * d
  <2>3. a \in Int /\ b \in Int /\ c \in Int /\ e \in Nat
    BY <1>1, <2>1
  <2> HIDE DEF a, b, c, e
  <2>4. a <= b /\ b <= c
    BY <1>1, <2>2 DEF a, b, c
  <2>5. 1000 * (a - c) <= e
    BY <2>3, <2>4
  <2> QED BY <2>5 DEF a, c, e
<1>8. \A i \in Selected : 1000 * (1 * U - w[i] * U) <= U * U
  <2> SUFFICES ASSUME NEW i \in Selected PROVE 1000 * (1 * U - w[i] * U) <= U * U
    OBVIOUS
  <2>1. w[i] \in Nat /\ 1 <= w[i]
    BY <1>2, <1>4
  <2>2. 1 * U <= w[i] * U /\ U * U \in Nat /\ w[i] * U \in Int /\ 1 * U \in Int
    BY <1>1, <2>1
  <2> QED BY <2>2
<1>9. Feasible(weights)
        <=> /\ 1000 * Size(total - U) <= U
            /\ \A i \in Assets : 1000 * (w[i] * d - n * U) <= U * d
            /\ \A i \in held : 1000 * (params.wMin.n * U - w[i] * params.wMin.d)
                                  <= U * params.wMin.d
            /\ Cardinality(held) = params.k
  BY DEF Feasible, w, U, d, n, total
<1>10. \A i \in held : 1000 * (params.wMin.n * U - w[i] * params.wMin.d) <= U * params.wMin.d
  BY <1>1, <1>5, <1>8
<1> HIDE DEF held
<1>11. Feasible(weights) <=> total = U /\ Cardinality(held) = params.k
  BY <1>6, <1>7, <1>9, <1>10
<1> QED BY <1>5, <1>11 DEF total, w, U

\* What the integer encoding rewards is what the gate accepts.
LEMMA PenalizedGate ==
  ASSUME order \in Orders, order.mode = "penalized", params = MapSliders(order),
         qubo = EncodePenalized(order, params), sample \subseteq {e[1] : e \in DOMAIN qubo.q},
         weights = DecodePenalized, Stray = {}
  PROVE  Feasible(weights) <=> Total = params.units /\ Cardinality(Selected) = params.k
<1> DEFINE most == MostIncrement(params)
<1>1. PICK b, vs, quad, lin, qs, ls, xq, xl, half :
        PenalizedParts(b, vs, quad, lin, qs, ls, xq, xl, half)
  BY PenalizedFact
<1>2. GridBox(most)
  BY GridBoxFact
<1>3. b \in 1..7 /\ b = IncrementBits(params.units)
  <2>1. Boxed(MapSliders(order), Held(order), Grid(order)) /\ Grid(order) \in Grids
    BY PenalizedBox, HeldFact
  <2>2. params.units \in Grids
    BY <2>1 DEF Boxed
  <2>3. Log2(params.units) \in 2..8
    BY <2>2, LogFact
  <2> QED BY <1>1, <2>3 DEF IncrementBits, PenalizedParts
<1>4. DOMAIN qubo.q = vs \X vs /\ IsFiniteSet(vs) /\ qubo.base = 0
  BY <1>1 DEF PenalizedParts, SharedQubo, IsPlaces
<1>5. sample \subseteq vs
  <2> DEFINE q == qubo.q
  <2>1. DOMAIN q = vs \X vs /\ sample \subseteq {e[1] : e \in DOMAIN q}
    BY <1>4
  <2> HIDE DEF q
  <2> QED BY <2>1, ReadFact
<1>6. GridRead(b, most)
  <2>1. IsFiniteSet(sample) /\ IsFiniteSet(Assets)
    BY <1>4, <1>5, FS_Subset, BasketFact
  <2>2. \A v \in sample : v[1] \in Assets /\ v = <<v[1], v[2]>> /\ v[2] \in 0..b
    BY <1>1, <1>5 DEF PenalizedParts
  <2>3. IsRead(b)
    BY <2>1, <2>2 DEF IsRead
  <2>4. Increments(params) = IncrementPlaceValues(most, b)
    BY <1>3 DEF Increments
  <2>5. \A v \in sample :
          qubo.place[v] = IF Select(v) THEN 1 ELSE IncrementPlaceValues(most, b)[v[2] - 1]
    BY <1>1, <1>5, <2>4 DEF PenalizedParts
  <2>6. most \in Nat
    BY <1>2 DEF GridBox
  <2> HIDE DEF most
  <2> QED BY <1>3, <2>3, <2>5, <2>6 DEF GridRead
<1> HIDE DEF most
<1>7. \A i \in Assets : /\ Places(i) \in Nat
                        /\ i \in Selected => 1 <= Places(i) /\ Places(i) <= 1 + most
                        /\ i \notin Selected => Places(i) = 0
  BY <1>6, GridPlaces
<1>8. /\ weights.over = params.units
      /\ weights.of = [i \in Assets |-> IF i \in Selected THEN Places(i) ELSE 0]
  BY DEF DecodePenalized
<1>9. \A i \in Assets : weights.of[i] = Places(i)
  BY <1>7, <1>8
<1>10. Selected \subseteq Assets /\ DOMAIN weights.of = Assets
  BY <1>8 DEF Selected
<1>11. Feasible(weights)
         <=> SumFunction(weights.of) = params.units /\ Cardinality(Selected) = params.k
  BY <1>2, <1>7, <1>8, <1>9, <1>10, UnitsGate
<1>12. Total = SumFunction(weights.of)
  <2>1. \A i \in Assets : Amounts[i] = Places(i)
    BY <1>4, <1>7 DEF Amounts
  <2>2. Amounts = [i \in Assets |-> Amounts[i]]
    BY DEF Amounts
  <2>3. weights.of = [i \in Assets |-> weights.of[i]]
    BY <1>8
  <2>4. Amounts = weights.of
    BY <1>9, <2>1, <2>2, <2>3
  <2> QED BY <2>4 DEF Total
<1> QED BY <1>11, <1>12

-----------------------------------------------------------------------------
(* Every solve.                                                            *)

SolveStages == {"asked", "mapped", "encoded", "sampled", "finished"}

\* What each stage of a solve leaves behind: the problem is the one of the sliders, the QUBO
\* the one of the problem, a read one of its variables, and the weights are decoded from it;
\* in the select encoding, they pass the gate.
Solving ==
  /\ order \in Orders /\ stage \in SolveStages
  /\ stage # "asked" => params = MapSliders(order)
  /\ stage \in {"encoded", "sampled", "finished"} =>
       qubo = Encode(order, params) /\ VarCount(order, params) <= MaxVars
  /\ stage \in {"sampled", "finished"} => sample \subseteq {e[1] : e \in DOMAIN qubo.q}
  /\ stage = "finished" =>
       /\ order.mode = "select" => Feasible(weights)
       /\ order.mode = "penalized" => weights = DecodePenalized

LEMMA SolveInitFact == SolveInit => Solving
BY DEF SolveInit, Solving, SolveStages

\* A read of select bits is repaired and weighed into what passes the gate.
LEMMA FinishFact ==
  ASSUME Solving, Finish, order.mode = "select"
  PROVE  Feasible(weights')
<1>1. /\ order \in Orders /\ params = MapSliders(order) /\ qubo = EncodeSelect(order, params)
      /\ sample \subseteq {e[1] : e \in DOMAIN qubo.q}
      /\ weights' \in OptimalWeights(GreedyProject)
  BY DEF Solving, Finish, Encode
<1>2. sample \subseteq Assets \X {0}
  <2> DEFINE q == qubo.q
             vs == Assets \X {0}
  <2>1. DOMAIN q = vs \X vs /\ sample \subseteq {e[1] : e \in DOMAIN q}
    BY <1>1, SelectSquare DEF IsSquare
  <2> HIDE DEF q, vs
  <2>2. sample \subseteq vs
    BY <2>1, ReadFact
  <2> QED BY <2>2 DEF vs
<1>3. params.k \in 0..N
  <2>1. Boxed(MapSliders(order), Held(order), Grid(order))
    BY <1>1, SelectBox
  <2>2. params.k = Held(order)
    BY <1>1, <2>1 DEF Boxed
  <2>3. Held(order) \in 3..order.n
    BY <1>1, HeldFact
  <2> QED BY <2>2, <2>3 DEF N
<1>4. GreedyProject \in SUBSET Assets /\ Cardinality(GreedyProject) = params.k
  BY <1>1, <1>2, <1>3, GreedyFact
<1> QED BY <1>1, <1>4, WeighedFeasible

LEMMA SolveNextFact == Solving /\ [SolveNext]_solveVars => Solving'
<1> SUFFICES ASSUME Solving, [SolveNext]_solveVars PROVE Solving'
  OBVIOUS
<1>1. ASSUME order' = order PROVE Assets' = Assets
  BY <1>1 DEF Assets, Basket
<1>2. ASSUME order' = order, params' = params, NEW w, Feasible(w), weights' = w
      PROVE  Feasible(weights)'
  BY <1>2 DEF Feasible, Assets, Basket, N
<1>3. ASSUME order' = order, params' = params, qubo' = qubo, sample' = sample
      PROVE  DecodePenalized' = DecodePenalized
  BY <1>3 DEF DecodePenalized, Selected, Places, SetOf, Assets, Basket
<1>4. CASE Map
  BY <1>4 DEF Map, Solving, SolveStages
<1>5. CASE EncodeQubo
  BY <1>5 DEF EncodeQubo, Solving, SolveStages
<1>6. CASE Sample
  <2>1. /\ order' = order /\ params' = params /\ qubo' = qubo
        /\ stage = "encoded" /\ stage' = "sampled"
        /\ sample' \subseteq {e[1] : e \in DOMAIN qubo.q}
    BY <1>6 DEF Sample
  <2> QED BY <2>1 DEF Solving, SolveStages
<1>7. CASE Finish
  <2>1. /\ order' = order /\ params' = params /\ qubo' = qubo /\ sample' = sample
        /\ stage = "sampled" /\ stage' = "finished"
    BY <1>7 DEF Finish
  <2>2. order.mode = "select" => Feasible(weights)'
    BY <1>2, <1>7, <2>1, FinishFact
  <2>3. order.mode = "penalized" => weights' = DecodePenalized'
    BY <1>3, <1>7, <2>1 DEF Finish
  <2> QED BY <2>1, <2>2, <2>3 DEF Solving, SolveStages
<1>8. CASE UNCHANGED solveVars
  <2>1. /\ order' = order /\ params' = params /\ sample' = sample /\ stage' = stage
        /\ qubo' = qubo /\ weights' = weights
    BY <1>8 DEF solveVars
  <2>2. Feasible(weights) => Feasible(weights)'
    BY <1>2, <2>1
  <2>3. DecodePenalized' = DecodePenalized
    BY <1>3, <2>1
  <2> QED BY <2>1, <2>2, <2>3 DEF Solving, SolveStages
<1> QED BY <1>4, <1>5, <1>6, <1>7, <1>8 DEF SolveNext

LEMMA SolvingSolvable == Solving => AlwaysSolvable
<1> SUFFICES ASSUME Solving PROVE AlwaysSolvable
  OBVIOUS
<1>1. ASSUME stage # "asked" PROVE ProblemHolds(order, params) /\ GridReaches
  <2>1. order \in Orders /\ params = MapSliders(order)
    BY <1>1 DEF Solving
  <2> QED BY <2>1, AlwaysAProblem, GridFact DEF GridReaches
<1> QED BY <1>1 DEF AlwaysSolvable, Solving

\* What the QUBO rewards is what the decoder and the gate see.
LEMMA SolvingExact == Solving => EncodingExact
<1> SUFFICES ASSUME Solving PROVE EncodingExact
  OBVIOUS
<1>1. order \in Orders
  BY DEF Solving
<1>2. ASSUME stage = "encoded" PROVE XqmxFits
  BY <1>1, <1>2, EncodedFits DEF Solving
<1>3. ASSUME stage = "sampled" PROVE EnergyExplained
  BY <1>1, <1>3, EncodedEnergy DEF Solving
<1>4. ASSUME stage = "finished", order.mode = "penalized"
      PROVE  Feasible(weights) /\ Stray = {}
               <=> Total = params.units /\ Cardinality(Selected) = params.k /\ Stray = {}
  <2>1. /\ params = MapSliders(order) /\ qubo = EncodePenalized(order, params)
        /\ sample \subseteq {e[1] : e \in DOMAIN qubo.q} /\ weights = DecodePenalized
    BY <1>4 DEF Solving, Encode
  <2> QED BY <1>1, <1>4, <2>1, PenalizedGate
<1> QED BY <1>2, <1>3, <1>4 DEF EncodingExact

\* Whatever the sliders, the basket and the mode, the problem a solve becomes can be
\* solved, and in the select encoding every read, repaired and weighed, passes the
\* router's gate: for every configuration of grids, basket, data and answer of the
\* optimizer (slider_map.py; types.py: __post_init__; sampling.py).
THEOREM AlwaysSolvableHolds == SolveSpec => []AlwaysSolvable
<1>1. SolveSpec => []Solving
  BY SolveInitFact, SolveNextFact, PTL DEF SolveSpec
<1> QED BY <1>1, SolvingSolvable, PTL

\* The energy that a sampler minimizes is the objective plus the penalties, up to a
\* constant; in the integer encoding, a sample without penalties decodes to a portfolio
\* that passes the gate, and one with penalties does not; and the integers sent to Quip
\* stay within its codec's range: for every configuration, basket and data, and every
\* sample (qubo_encoder.py, qubo_decoder.py, feasibility.py, xquad_model.py).
THEOREM EncodingExactHolds == SolveSpec => []EncodingExact
<1>1. SolveSpec => []Solving
  BY SolveInitFact, SolveNextFact, PTL DEF SolveSpec
<1> QED BY <1>1, SolvingExact, PTL

=============================================================================
