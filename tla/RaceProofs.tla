----------------------------- MODULE RaceProofs -----------------------------
(***************************************************************************)
(* The race for any deployment, objectives, times, exceptions, stragglers  *)
(* and deadline: its rows, its winner and its label.                       *)
(***************************************************************************)
EXTENDS Race, SequenceTheorems, FiniteSetTheorems, FunctionTheorems, TLAPS

-----------------------------------------------------------------------------
(* The invariant.                                                          *)

\* A row of the race before the verdict.
RaceRow ==
  {r \in [provider : Providers, role : {"CPU", "QPU"},
          status : {"failed", "feasible", "infeasible", "timeout"}, feasible : BOOLEAN,
          time : Times \union {None}, objective : Objectives \union {Tempting, None},
          best : {FALSE}] : r.feasible => r.objective \in Int /\ r.time \in Nat}

\* One row per provider.
Rows(rows) ==
  /\ rows \in Seq(RaceRow)
  /\ \A i, j \in 1..Len(rows) : rows[i].provider = rows[j].provider => i = j

\* The field is fixed and names nobody twice; an answer that was taken is there, and is
\* in the batch or has its row, not both.
Racing ==
  /\ field \in Seq(Providers)
  /\ \A i, j \in 1..Len(field) : field[i] = field[j] => i = j
  /\ future \in [ToSet(field) -> Solution \union {Running, Raised}]
  /\ phase \in {"taking", "waiting", "yielding", "closing", "decided"}
  /\ batch \subseteq ToSet(field) /\ \A p \in batch : future[p].state # "running"
  /\ phase # "yielding" => batch = {}
  /\ phase # "decided" =>
       /\ Rows(runs)
       /\ \A i \in 1..Len(runs) : runs[i].provider \in ToSet(field) \ batch

IInv == Racing /\ RowsExact /\ WinnerUndominated /\ LabelsAgree

-----------------------------------------------------------------------------
(* The start.                                                              *)

\* The values of a solution.
LEMMA ValuesFact ==
  /\ Objectives \subseteq Int /\ Tempting \in Int /\ Times \subseteq Nat /\ None \notin Int
BY ValuesAssumption

\* The providers.
LEMMA ProvidersFact ==
  /\ Providers = {"gurobi", "sa", "dwave", "xqpu", "xcpu"}
  /\ \A p \in Providers : RoleOf[p] \in {"CPU", "QPU"}
BY DEF Providers, RoleOf

\* Two lists that name nobody twice, nor one another's, make a third.
LEMMA JoinFact ==
  ASSUME NEW S, NEW s \in Seq(S), NEW t \in Seq(S),
         \A i, j \in 1..Len(s) : s[i] = s[j] => i = j,
         \A i, j \in 1..Len(t) : t[i] = t[j] => i = j,
         \A i \in 1..Len(s), j \in 1..Len(t) : s[i] # t[j]
  PROVE  /\ s \o t \in Seq(S) /\ Len(s \o t) = Len(s) + Len(t)
         /\ \A i \in 1..Len(s) : (s \o t)[i] = s[i]
         /\ \A i \in 1..Len(t) : (s \o t)[Len(s) + i] = t[i]
         /\ \A i \in 1..Len(s \o t) : i \in 1..Len(s) \/ i - Len(s) \in 1..Len(t)
         /\ \A i, j \in 1..Len(s \o t) : (s \o t)[i] = (s \o t)[j] => i = j
<1>1. /\ s \o t \in Seq(S) /\ Len(s \o t) = Len(s) + Len(t) /\ Len(s) \in Nat /\ Len(t) \in Nat
      /\ \A i \in 1..(Len(s) + Len(t)) :
           (s \o t)[i] = IF i <= Len(s) THEN s[i] ELSE t[i - Len(s)]
  BY ConcatProperties
<1>2. /\ \A i \in 1..Len(s) : (s \o t)[i] = s[i]
      /\ \A i \in 1..Len(s \o t) :
           i \in 1..Len(s) \/ (i - Len(s) \in 1..Len(t) /\ (s \o t)[i] = t[i - Len(s)])
  BY <1>1
<1>3. \A i \in 1..Len(t) : (s \o t)[Len(s) + i] = t[i]
  <2> SUFFICES ASSUME NEW i \in 1..Len(t) PROVE (s \o t)[Len(s) + i] = t[i]
    OBVIOUS
  <2>1. /\ Len(s) + i \in 1..(Len(s) + Len(t)) /\ ~(Len(s) + i <= Len(s))
        /\ Len(s) + i - Len(s) = i
    BY <1>1
  <2> QED BY <1>1, <2>1
<1>4. ASSUME NEW i \in 1..Len(s \o t), NEW j \in 1..Len(s \o t), (s \o t)[i] = (s \o t)[j]
      PROVE  i = j
  <2>1. i \in 1..Len(s) <=> j \in 1..Len(s)
    BY <1>2, <1>4
  <2>2. CASE i \in 1..Len(s)
    BY <1>2, <1>4, <2>1, <2>2
  <2>3. CASE i \notin 1..Len(s)
    <3>1. i - Len(s) = j - Len(s)
      BY <1>2, <1>4, <2>1, <2>3
    <3> QED BY <1>1, <3>1
  <2> QED BY <2>2, <2>3
<1> QED BY <1>1, <1>2, <1>3, <1>4

\* A list of at most one name.
LEMMA ShortFact ==
  ASSUME NEW S, NEW x \in S, NEW s, s = <<x>> \/ s = <<>>
  PROVE  /\ s \in Seq(S)
         /\ \A i \in 1..Len(s) : i = 1 /\ s[i] = x
<1>1. CASE s = <<x>>
  <2>1. s \in Seq(S) /\ Len(s) = 1 /\ s[1] = x
    BY <1>1
  <2> QED BY <2>1
<1>2. CASE s = <<>>
  BY <1>2
<1> QED BY <1>1, <1>2

\* A deployment's field names nobody twice.
LEMMA FieldFact ==
  ASSUME NEW s, NEW b \in BOOLEAN
  PROVE  /\ Field(s, b) \in Seq(Providers)
         /\ \A i, j \in 1..Len(Field(s, b)) : Field(s, b)[i] = Field(s, b)[j] => i = j
<1>1. ASSUME NEW first \in {<<"gurobi">>, <<>>}
      PROVE  /\ first \o <<"sa">> \in Seq(Providers)
             /\ \A i, j \in 1..Len(first \o <<"sa">>) :
                  (first \o <<"sa">>)[i] = (first \o <<"sa">>)[j] => i = j
             /\ \A i \in 1..Len(first \o <<"sa">>) : (first \o <<"sa">>)[i] \in {"gurobi", "sa"}
  <2>1. /\ first \in Seq({"gurobi", "sa"}) /\ <<"sa">> \in Seq({"gurobi", "sa"})
        /\ \A i, j \in 1..Len(first) : first[i] = first[j] => i = j
        /\ \A i, j \in 1..Len(<<"sa">>) : <<"sa">>[i] = <<"sa">>[j] => i = j
        /\ \A i \in 1..Len(first), j \in 1..Len(<<"sa">>) : first[i] # <<"sa">>[j]
    <3> DEFINE one == <<"sa">>
    <3>1. one \in Seq({"gurobi", "sa"}) /\ \A i \in 1..Len(one) : i = 1 /\ one[i] = "sa"
      BY ShortFact
    <3>2. /\ first \in Seq({"gurobi", "sa"})
          /\ \A i \in 1..Len(first) : i = 1 /\ first[i] = "gurobi"
      <4>1. "gurobi" \in {"gurobi", "sa"} /\ (first = <<"gurobi">> \/ first = <<>>)
        BY <1>1
      <4> QED BY <4>1, ShortFact, ZenonT(30)
    <3> HIDE DEF one
    <3>3. /\ first \in Seq({"gurobi", "sa"}) /\ one \in Seq({"gurobi", "sa"})
          /\ \A i, j \in 1..Len(first) : first[i] = first[j] => i = j
          /\ \A i, j \in 1..Len(one) : one[i] = one[j] => i = j
          /\ \A i \in 1..Len(first), j \in 1..Len(one) : first[i] # one[j]
      BY <3>1, <3>2
    <3> QED BY <3>3 DEF one
  <2>2. /\ first \o <<"sa">> \in Seq({"gurobi", "sa"})
        /\ \A i, j \in 1..Len(first \o <<"sa">>) :
             (first \o <<"sa">>)[i] = (first \o <<"sa">>)[j] => i = j
    BY <2>1, JoinFact
  <2> QED BY <2>2, ProvidersFact
<1>2. ASSUME NEW last \in {<<"xcpu">>, <<"xqpu">>, <<"dwave">>, <<>>}
      PROVE  /\ last \in Seq(Providers)
             /\ \A i, j \in 1..Len(last) : last[i] = last[j] => i = j
             /\ \A i \in 1..Len(last) : last[i] \notin {"gurobi", "sa"}
  <2>1. PICK x \in {"xcpu", "xqpu", "dwave"} : last = <<x>> \/ last = <<>>
    BY <1>2
  <2>2. x \in Providers /\ x \notin {"gurobi", "sa"}
    BY ProvidersFact
  <2>3. last \in Seq(Providers) /\ \A i \in 1..Len(last) : i = 1 /\ last[i] = x
    BY <2>1, <2>2, ShortFact
  <2> QED BY <2>2, <2>3
<1>3. \A first \in {<<"gurobi">>, <<>>}, last \in {<<"xcpu">>, <<"xqpu">>, <<"dwave">>, <<>>} :
        LET whole == (first \o <<"sa">>) \o last IN
        /\ whole \in Seq(Providers)
        /\ \A i, j \in 1..Len(whole) : whole[i] = whole[j] => i = j
  <2> SUFFICES ASSUME NEW first \in {<<"gurobi">>, <<>>},
                      NEW last \in {<<"xcpu">>, <<"xqpu">>, <<"dwave">>, <<>>}
               PROVE  /\ (first \o <<"sa">>) \o last \in Seq(Providers)
                      /\ \A i, j \in 1..Len((first \o <<"sa">>) \o last) :
                           ((first \o <<"sa">>) \o last)[i] = ((first \o <<"sa">>) \o last)[j]
                             => i = j
    OBVIOUS
  <2> DEFINE head == first \o <<"sa">>
  <2>1. /\ head \in Seq(Providers) /\ last \in Seq(Providers)
        /\ \A i, j \in 1..Len(head) : head[i] = head[j] => i = j
        /\ \A i, j \in 1..Len(last) : last[i] = last[j] => i = j
        /\ \A i \in 1..Len(head), j \in 1..Len(last) : head[i] # last[j]
    BY <1>1, <1>2, ZenonT(30)
  <2> HIDE DEF head
  <2>2. /\ head \o last \in Seq(Providers)
        /\ \A i, j \in 1..Len(head \o last) : (head \o last)[i] = (head \o last)[j] => i = j
    BY <2>1, JoinFact
  <2> QED BY <2>2 DEF head
<1> QED BY <1>3 DEF Field

\* The invariant holds at the start.
LEMMA InitIInv == Init => IInv
<1> SUFFICES ASSUME Init PROVE IInv
  OBVIOUS
<1>1. field \in Seq(Providers) /\ \A i, j \in 1..Len(field) : field[i] = field[j] => i = j
  BY FieldFact DEF Init
<1>2. Racing
  BY <1>1 DEF Init, Racing, Rows
<1> QED BY <1>2 DEF Init, IInv, RowsExact, WinnerUndominated, LabelsAgree, Won, Decided

-----------------------------------------------------------------------------
(* The race, step by step, up to the verdict.                              *)

\* A thread answers or raises: no answer that was taken changes.
LEMMA FinishKeeps ==
  ASSUME Racing, NEW p \in ToSet(field), Finish(p)
  PROVE  Racing'
<1>1. PICK answer \in Solution \union {Raised} : future' = [future EXCEPT ![p] = answer]
  BY DEF Finish
<1>2. p \notin batch /\ UNCHANGED <<setting, field, phase, batch, deadline, runs, result>>
  BY DEF Finish, Racing
<1>3. future' \in [ToSet(field) -> Solution \union {Running, Raised}]
  BY <1>1 DEF Racing
<1>4. \A q \in batch : future'[q] = future[q]
  BY <1>1, <1>2 DEF Racing
<1> QED BY <1>2, <1>3, <1>4 DEF Racing

\* What has finished and has no row yet is taken as a whole.
LEMMA TakeKeeps ==
  ASSUME Racing, Take
  PROVE  Racing'
<1>1. /\ batch' = Done /\ phase' = "yielding" /\ phase # "decided" /\ batch = {}
      /\ UNCHANGED <<setting, field, future, deadline, runs, result>>
  BY DEF Take, Racing
<1>2. /\ Done \subseteq ToSet(field) /\ \A p \in Done : future[p].state # "running"
      /\ \A i \in 1..Len(runs) : runs[i].provider \notin Done
  BY DEF Done, Taken
<1> QED BY <1>1, <1>2 DEF Racing

\* The row of an answer.
LEMMA RowFact ==
  ASSUME NEW p \in Providers
  PROVE  /\ FailedRow(p) \in RaceRow /\ FailedRow(p).provider = p
         /\ \A s \in Solution : AnswerRow(p, s) \in RaceRow /\ AnswerRow(p, s).provider = p
<1>1. RoleOf[p] \in {"CPU", "QPU"}
  BY ProvidersFact
<1>2. FailedRow(p) \in RaceRow /\ FailedRow(p).provider = p
  BY <1>1 DEF FailedRow, Row, RaceRow
<1>3. ASSUME NEW s \in Solution
      PROVE  AnswerRow(p, s) \in RaceRow /\ AnswerRow(p, s).provider = p
  <2>1. /\ s.feasible \in BOOLEAN /\ s.time \in Times
        /\ s.objective \in Objectives \union {Tempting}
    BY DEF Solution
  <2>2. s.time \in Nat /\ s.objective \in Int
    BY <2>1, ValuesFact
  <2> QED BY <1>1, <2>1, <2>2 DEF AnswerRow, Row, RaceRow
<1> QED BY <1>2, <1>3

\* A row more: its provider leaves the batch.
LEMMA YieldKeeps ==
  ASSUME Racing, NEW p \in ToSet(field), Yield(p)
  PROVE  Racing'
<1> DEFINE row == IF future[p].state = "raised" THEN FailedRow(p) ELSE AnswerRow(p, future[p])
<1>1. /\ phase = "yielding" /\ p \in batch /\ batch' = batch \ {p} /\ runs' = Append(runs, row)
      /\ UNCHANGED <<setting, field, future, phase, deadline, result>>
  BY DEF Yield
<1>2. p \in Providers
  BY DEF Racing, ToSet
<1>3. row \in RaceRow /\ row.provider = p
  <2>1. future[p] \in Solution \/ future[p] = Raised
    BY <1>1 DEF Racing, Running
  <2>2. future[p].state # "raised" => future[p] \in Solution
    BY <2>1 DEF Raised
  <2> QED BY <1>2, <2>2, RowFact
<1> HIDE DEF row
<1>4. /\ Rows(runs) /\ runs \in Seq(RaceRow)
      /\ \A i \in 1..Len(runs) : runs[i].provider \in ToSet(field) \ batch
  BY <1>1 DEF Racing, Rows
<1>5. /\ runs' \in Seq(RaceRow) /\ Len(runs) \in Nat /\ Len(runs') = Len(runs) + 1
      /\ runs'[Len(runs) + 1] = row /\ \A i \in 1..Len(runs) : runs'[i] = runs[i]
      /\ \A i \in 1..Len(runs') : i \in 1..Len(runs) \/ i = Len(runs) + 1
  BY <1>1, <1>3, <1>4
<1>6. Rows(runs')
  BY <1>1, <1>3, <1>4, <1>5 DEF Rows
<1>7. \A i \in 1..Len(runs') : runs'[i].provider \in ToSet(field) \ batch'
  BY <1>1, <1>3, <1>4, <1>5
<1>8. batch' \subseteq ToSet(field) /\ \A q \in batch' : future[q].state # "running"
  BY <1>1 DEF Racing
<1> QED BY <1>1, <1>6, <1>7, <1>8 DEF Racing

\* The loop's turn, and the deadline.
LEMMA TurnKeeps ==
  ASSUME Racing, NextBatch \/ Deadline \/ Rest
  PROVE  Racing'
<1>1. CASE NextBatch
  <2>1. /\ UNCHANGED <<field, future, batch, runs>> /\ phase = "yielding" /\ batch = {}
        /\ phase' \in {"closing", "waiting"}
    BY <1>1 DEF NextBatch
  <2> QED BY <2>1 DEF Racing
<1>2. CASE Deadline \/ Rest
  <2>1. UNCHANGED <<field, future, phase, batch, runs>>
    BY <1>2 DEF Deadline, Rest, vars
  <2> QED BY <2>1 DEF Racing
<1> QED BY <1>1, <1>2

-----------------------------------------------------------------------------
(* The first of the smallest.                                              *)

\* A set of naturals that is not empty has a least element.
LEMMA Least ==
  ASSUME NEW S, S \subseteq Nat, S # {}
  PROVE  \E m \in S : \A k \in S : m <= k
<1>1. PICK m \in S : \A k \in S : ~(<<k, m>> \in OpToRel(<, Nat))
  BY NatLessThanWellFounded, WFMin
<1>2. \A k \in S : ~(k < m)
  BY <1>1 DEF OpToRel
<1> QED BY <1>2

\* Sets of row numbers are finite.
LEMMA Finite ==
  ASSUME NEW n \in Nat, NEW I \in SUBSET (1..n)
  PROVE  IsFiniteSet(I) /\ Cardinality(I) \in Nat
<1>1. IsFiniteSet(1..n)
  BY FS_Interval
<1>2. IsFiniteSet(I)
  BY <1>1, FS_Subset
<1> QED BY <1>2, FS_CardinalityType

\* min() finds one whenever there is a row: the one that fewest rows precede.
LEMMA FirstMinFact ==
  ASSUME NEW n \in Nat, NEW I \in SUBSET (1..n), NEW key \in [I -> Int \X Int]
  PROVE  /\ I = {} => FirstMin(key) = None
         /\ I # {} => /\ FirstMin(key) \in I
                      /\ \A j \in I \ {FirstMin(key)} : Precedes(FirstMin(key), j, key)
<1> DEFINE Before(i) == {j \in I : Precedes(j, i, key)}
           Few == {Cardinality(Before(i)) : i \in I}
           First(i) == \A j \in I \ {i} : Precedes(i, j, key)
<1>1. DOMAIN key = I
  OBVIOUS
<1>2. \A i \in I : /\ key[i] = <<key[i][1], key[i][2]>>
                   /\ key[i][1] \in Int /\ key[i][2] \in Int /\ i \in Nat
  OBVIOUS
<1>3. \A i \in I : IsFiniteSet(Before(i)) /\ Cardinality(Before(i)) \in Nat
  <2> SUFFICES ASSUME NEW i \in I
               PROVE  IsFiniteSet(Before(i)) /\ Cardinality(Before(i)) \in Nat
    OBVIOUS
  <2>1. Before(i) \in SUBSET (1..n)
    OBVIOUS
  <2> HIDE DEF Before
  <2> QED BY <2>1, Finite
<1>4. \A i, j, k \in I : Precedes(i, j, key) /\ Precedes(j, k, key) => Precedes(i, k, key)
  BY <1>2 DEF Precedes, Less
<1>5. \A i \in I : ~Precedes(i, i, key)
  BY <1>2 DEF Precedes, Less
<1>6. \A i, j \in I : i = j \/ Precedes(i, j, key) \/ Precedes(j, i, key)
  <2> SUFFICES ASSUME NEW i \in I, NEW j \in I
               PROVE  i = j \/ Precedes(i, j, key) \/ Precedes(j, i, key)
    OBVIOUS
  <2>1. key[i] = key[j] \/ Less(key[i], key[j]) \/ Less(key[j], key[i])
    BY <1>2 DEF Less
  <2> QED BY <1>2, <2>1 DEF Precedes
<1>7. ASSUME I # {}
      PROVE  \E i \in I : First(i)
  <2>1. Few # {} /\ Few \subseteq Nat
    BY <1>3, <1>7
  <2> HIDE DEF Few
  <2>2. PICK least \in Few : \A c \in Few : least <= c
    BY <2>1, Least
  <2>3. PICK i \in I : least = Cardinality(Before(i))
    BY <2>2 DEF Few
  <2>4. Before(i) = {}
    <3> SUFFICES ASSUME NEW j \in Before(i) PROVE FALSE
      OBVIOUS
    <3>1. j \in I /\ Precedes(j, i, key)
      OBVIOUS
    <3>2. Before(j) \in SUBSET Before(i) /\ j \notin Before(j)
      BY <1>4, <1>5, <3>1
    <3> HIDE DEF Before
    <3>3. Cardinality(Before(j)) <= Cardinality(Before(i)) /\ Before(j) # Before(i)
      BY <1>3, <3>1, <3>2, FS_Subset
    <3>4. Cardinality(Before(j)) # Cardinality(Before(i))
      BY <1>3, <3>1, <3>2, <3>3, FS_Subset
    <3>5. Cardinality(Before(j)) \in Few
      BY <3>1 DEF Few
    <3> QED BY <1>3, <2>2, <2>3, <3>1, <3>3, <3>4, <3>5
  <2>5. First(i)
    BY <1>6, <2>4
  <2> QED BY <2>5
<1> HIDE DEF First
<1>8. ASSUME I # {}
      PROVE  FirstMin(key) \in I /\ First(FirstMin(key))
  <2>1. FirstMin(key) = CHOOSE i \in I : First(i)
    BY <1>1, <1>8 DEF FirstMin, First
  <2> QED BY <1>7, <1>8, <2>1
<1> QED BY <1>1, <1>8 DEF First, FirstMin

\* With numbers for keys, by time and by objective.
LEMMA ByTimeFact ==
  ASSUME NEW n \in Nat, NEW I \in SUBSET (1..n), NEW rows, \A i \in I : rows[i].time \in Int
  PROVE  LET i == FirstMin(ByTime(rows, I)) IN
         /\ I = {} => i = None
         /\ I # {} => i \in I /\ \A j \in I : rows[i].time <= rows[j].time
<1> DEFINE key == ByTime(rows, I)
<1>1. key \in [I -> Int \X Int] /\ \A i \in I : key[i] = <<rows[i].time, 0>>
  BY DEF ByTime
<1> HIDE DEF key
<1>2. /\ I = {} => FirstMin(key) = None
      /\ I # {} => /\ FirstMin(key) \in I
                   /\ \A j \in I \ {FirstMin(key)} : Precedes(FirstMin(key), j, key)
  BY <1>1, FirstMinFact
<1>3. ASSUME NEW i \in I, NEW j \in I, Precedes(i, j, key) PROVE rows[i].time <= rows[j].time
  BY <1>1, <1>3 DEF Precedes, Less
<1>4. ASSUME I # {}, NEW j \in I PROVE rows[FirstMin(key)].time <= rows[j].time
  <2>1. CASE j = FirstMin(key)
    BY <1>4, <2>1
  <2>2. CASE j # FirstMin(key)
    BY <1>2, <1>3, <1>4, <2>2
  <2> QED BY <2>1, <2>2
<1> QED BY <1>2, <1>4 DEF key

LEMMA ByObjectiveFact ==
  ASSUME NEW n \in Nat, NEW I \in SUBSET (1..n), NEW rows, NEW second \in [I -> Int],
         \A i \in I : rows[i].objective \in Int
  PROVE  LET i == FirstMin([k \in I |-> <<rows[k].objective, second[k]>>]) IN
         /\ I = {} => i = None
         /\ I # {} => i \in I /\ \A j \in I : rows[i].objective <= rows[j].objective
<1> DEFINE key == [k \in I |-> <<rows[k].objective, second[k]>>]
<1>1. key \in [I -> Int \X Int] /\ \A i \in I : key[i] = <<rows[i].objective, second[i]>>
  OBVIOUS
<1> HIDE DEF key
<1>2. /\ I = {} => FirstMin(key) = None
      /\ I # {} => /\ FirstMin(key) \in I
                   /\ \A j \in I \ {FirstMin(key)} : Precedes(FirstMin(key), j, key)
  BY <1>1, FirstMinFact
<1>3. ASSUME NEW i \in I, NEW j \in I, Precedes(i, j, key)
      PROVE  rows[i].objective <= rows[j].objective
  BY <1>1, <1>3 DEF Precedes, Less
<1>4. ASSUME I # {}, NEW j \in I PROVE rows[FirstMin(key)].objective <= rows[j].objective
  <2>1. CASE j = FirstMin(key)
    BY <1>4, <2>1
  <2>2. CASE j # FirstMin(key)
    BY <1>2, <1>3, <1>4, <2>2
  <2> QED BY <2>1, <2>2
<1> QED BY <1>2, <1>4 DEF key

-----------------------------------------------------------------------------
(* The rows after the race.                                                *)

\* A list that names nobody twice names as many as it is long.
LEMMA LengthFact ==
  ASSUME NEW S, NEW s \in Seq(S), \A i, j \in 1..Len(s) : s[i] = s[j] => i = j
  PROVE  IsFiniteSet(ToSet(s)) /\ Cardinality(ToSet(s)) = Len(s)
<1>1. Len(s) \in Nat /\ DOMAIN s = 1..Len(s)
  OBVIOUS
<1>2. s \in Bijection(1..Len(s), ToSet(s))
  <2>1. s \in [1..Len(s) -> ToSet(s)]
    BY <1>1 DEF ToSet
  <2>2. \A t \in ToSet(s) : \E i \in 1..Len(s) : s[i] = t
    BY <1>1 DEF ToSet
  <2> QED BY <2>1, <2>2, Fun_IsBij
<1>3. IsFiniteSet(1..Len(s)) /\ Cardinality(1..Len(s)) = Len(s)
  BY <1>1, FS_Interval
<1> QED BY <1>2, <1>3, FS_Bijection DEF ExistsBijection

\* Places can be put in order, and the order has each of them once.
LEMMA InOrderFact ==
  ASSUME NEW n \in Nat, NEW I \in SUBSET (1..n)
  PROVE  /\ Cardinality(I) \in Nat /\ InOrder(I) \in [1..Cardinality(I) -> I]
         /\ \A k, m \in 1..Cardinality(I) : InOrder(I)[k] = InOrder(I)[m] => k = m
         /\ \A i \in I : \E k \in 1..Cardinality(I) : InOrder(I)[k] = i
<1> DEFINE c == Cardinality(I)
           Below(i) == {j \in I : j < i}
           rank == [i \in I |-> Cardinality(Below(i)) + 1]
           Increasing(o) == \A k, m \in 1..c : k < m => o[k] < o[m]
<1>1. IsFiniteSet(I) /\ c \in Nat /\ IsFiniteSet(1..c) /\ Cardinality(1..c) = c
  <2>1. IsFiniteSet(I) /\ c \in Nat
    BY Finite
  <2> HIDE DEF c
  <2> QED BY <2>1, FS_Interval
<1>2. \A i \in I : i \in Nat
  OBVIOUS
<1>3. ASSUME NEW i \in I
      PROVE  IsFiniteSet(Below(i)) /\ Cardinality(Below(i)) \in Nat /\ Cardinality(Below(i)) < c
  <2>1. Below(i) \in SUBSET I /\ i \in I /\ i \notin Below(i)
    BY <1>2
  <2> HIDE DEF Below
  <2>2. IsFiniteSet(Below(i)) /\ Cardinality(Below(i)) <= c /\ Cardinality(Below(i)) # c
    BY <1>1, <2>1, FS_Subset
  <2>3. Cardinality(Below(i)) \in Nat
    BY <2>2, FS_CardinalityType
  <2> HIDE DEF c
  <2> QED BY <1>1, <2>2, <2>3
<1>4. ASSUME NEW i \in I, NEW j \in I, i < j
      PROVE  Cardinality(Below(i)) < Cardinality(Below(j))
  <2>1. Below(i) \in SUBSET Below(j) /\ Below(i) # Below(j)
    <3>1. i \in Below(j) /\ i \notin Below(i)
      BY <1>2, <1>4
    <3>2. \A k \in I : k < i => k < j
      BY <1>2, <1>4
    <3> QED BY <3>1, <3>2
  <2>2. IsFiniteSet(Below(j))
    BY <1>3
  <2>3. Cardinality(Below(i)) \in Nat /\ Cardinality(Below(j)) \in Nat
    BY <1>3
  <2> HIDE DEF Below
  <2>4. /\ Cardinality(Below(i)) <= Cardinality(Below(j))
        /\ Cardinality(Below(i)) # Cardinality(Below(j))
    BY <2>1, <2>2, FS_Subset
  <2> QED BY <2>3, <2>4
<1>5. rank \in [I -> 1..c]
  <2>1. \A i \in I : Cardinality(Below(i)) + 1 \in 1..c
    <3> HIDE DEF Below, c
    <3> QED BY <1>1, <1>3
  <2> QED BY <2>1
<1>6. \A i, j \in I : i < j => rank[i] < rank[j]
  <2>1. \A i \in I : rank[i] = Cardinality(Below(i)) + 1 /\ Cardinality(Below(i)) \in Nat
    BY <1>3
  <2> HIDE DEF rank, Below
  <2> QED BY <1>4, <2>1
<1> HIDE DEF rank
<1>7. \A i, j \in I : rank[i] = rank[j] => i = j
  <2> SUFFICES ASSUME NEW i \in I, NEW j \in I, rank[i] = rank[j] PROVE i = j
    OBVIOUS
  <2>1. rank[i] \in Int /\ rank[j] \in Int /\ i \in Nat /\ j \in Nat
    BY <1>2, <1>5
  <2>2. ~(i < j) /\ ~(j < i)
    BY <1>6, <2>1
  <2> QED BY <2>1, <2>2
<1>8. rank \in Surjection(I, 1..c)
  <2>1. rank \in Injection(I, 1..c)
    BY <1>5, <1>7 DEF Injection, IsInjective
  <2>2. Cardinality(I) = Cardinality(1..c)
    BY <1>1
  <2> HIDE DEF c
  <2> QED BY <1>1, <2>1, <2>2, FS_Injection
<1> DEFINE order == [k \in 1..c |-> CHOOSE i \in I : rank[i] = k]
<1>9. \A k \in 1..c : order[k] \in I /\ rank[order[k]] = k
  <2>1. \A k \in 1..c : \E i \in I : rank[i] = k
    BY <1>8 DEF Surjection
  <2> QED BY <2>1
<1>10. order \in [1..c -> I]
  BY <1>9
<1> HIDE DEF order
<1>11. Increasing(order)
  <2> SUFFICES ASSUME NEW k \in 1..c, NEW m \in 1..c, k < m PROVE order[k] < order[m]
    OBVIOUS
  <2>1. order[k] \in I /\ order[m] \in I /\ rank[order[k]] = k /\ rank[order[m]] = m
    BY <1>9
  <2>2. k \in Int /\ m \in Int /\ ~(m < k) /\ m # k
    OBVIOUS
  <2> HIDE DEF c
  <2>3. ~(order[m] < order[k])
    BY <1>6, <2>1, <2>2
  <2>4. order[m] # order[k] /\ order[k] \in Nat /\ order[m] \in Nat
    BY <1>2, <2>1, <2>2
  <2> QED BY <2>3, <2>4
<1>12. InOrder(I) \in [1..c -> I] /\ Increasing(InOrder(I))
  <2>1. InOrder(I) = CHOOSE o \in [1..c -> I] : Increasing(o)
    BY DEF InOrder
  <2> HIDE DEF Increasing, c
  <2> QED BY <1>10, <1>11, <2>1
<1>13. \A k, m \in 1..c : InOrder(I)[k] = InOrder(I)[m] => k = m
  <2> SUFFICES ASSUME NEW k \in 1..c, NEW m \in 1..c, InOrder(I)[k] = InOrder(I)[m] PROVE k = m
    OBVIOUS
  <2>1. InOrder(I)[k] \in Nat /\ InOrder(I)[m] \in Nat
    BY <1>2, <1>12
  <2>2. ~(k < m) /\ ~(m < k)
    BY <1>12, <2>1
  <2> QED BY <2>2
<1>14. \A i \in I : \E k \in 1..c : InOrder(I)[k] = i
  <2>1. InOrder(I) \in Injection(1..c, I)
    BY <1>12, <1>13 DEF Injection, IsInjective
  <2>2. InOrder(I) \in Surjection(1..c, I)
    <3> HIDE DEF c
    <3>1. Cardinality(1..c) = Cardinality(I)
      BY <1>1 DEF c
    <3> QED BY <1>1, <2>1, <3>1, FS_Injection
  <2> QED BY <2>2 DEF Surjection
<1> QED BY <1>1, <1>12, <1>13, <1>14

\* Who is not taken gets a row, once, and no other.
LEMMA TimeoutFact ==
  ASSUME Racing
  PROVE  /\ TimeoutRows \in Seq(RaceRow)
         /\ \A k \in 1..Len(TimeoutRows) :
              ~TimeoutRows[k].feasible /\ TimeoutRows[k].provider \in ToSet(field) \ Taken
         /\ \A p \in ToSet(field) \ Taken :
              \E k \in 1..Len(TimeoutRows) : TimeoutRows[k].provider = p
         /\ \A k, m \in 1..Len(TimeoutRows) :
              TimeoutRows[k].provider = TimeoutRows[m].provider => k = m
<1> DEFINE c == Cardinality(Late)
           order == InOrder(Late)
           row(p) == Row(p, "timeout", FALSE, None, None)
<1>1. /\ field \in Seq(Providers) /\ Len(field) \in Nat /\ DOMAIN field = 1..Len(field)
      /\ \A i, j \in 1..Len(field) : field[i] = field[j] => i = j
      /\ \A i \in 1..Len(field) : field[i] \in Providers
  BY DEF Racing
<1>2. Late \in SUBSET (1..Len(field)) /\ \A i \in Late : field[i] \notin Taken
  BY DEF Late, TimedOut
<1>3. \A p \in ToSet(field) \ Taken : \E i \in Late : field[i] = p
  BY <1>1 DEF Late, TimedOut, ToSet
<1>4. /\ c \in Nat /\ order \in [1..c -> Late]
      /\ \A k, m \in 1..c : order[k] = order[m] => k = m
      /\ \A i \in Late : \E k \in 1..c : order[k] = i
  BY <1>1, <1>2, InOrderFact
<1>5. \A p \in Providers : row(p) \in RaceRow /\ row(p).provider = p /\ ~row(p).feasible
  BY ProvidersFact DEF Row, RaceRow
<1>6. TimeoutRows = [k \in 1..c |-> row(field[order[k]])]
  BY DEF TimeoutRows
<1> HIDE DEF c, order, row
<1>7. \A k \in 1..c : field[order[k]] \in Providers /\ order[k] \in Late
  BY <1>1, <1>2, <1>4
<1>8. /\ TimeoutRows \in Seq(RaceRow) /\ Len(TimeoutRows) = c
      /\ \A k \in 1..c : TimeoutRows[k] = row(field[order[k]])
  BY <1>4, <1>5, <1>6, <1>7
<1>9. \A k \in 1..c : /\ TimeoutRows[k].provider = field[order[k]] /\ ~TimeoutRows[k].feasible
                      /\ field[order[k]] \in ToSet(field) \ Taken
  BY <1>1, <1>2, <1>5, <1>7, <1>8 DEF ToSet
<1>10. \A k, m \in 1..c : field[order[k]] = field[order[m]] => k = m
  <2>1. \A k \in 1..c : order[k] \in 1..Len(field)
    BY <1>2, <1>7
  <2>2. \A k, m \in 1..c : field[order[k]] = field[order[m]] => order[k] = order[m]
    BY <1>1, <2>1
  <2> QED BY <1>4, <2>2
<1> QED BY <1>3, <1>4, <1>8, <1>9, <1>10

\* The rows before the verdict: one for each provider of the field.
LEMMA AllRowsFact ==
  ASSUME Racing, phase = "closing"
  PROVE  LET all == runs \o TimeoutRows IN
         /\ Rows(all) /\ Len(all) = Len(field) /\ Rows(runs)
         /\ {all[i].provider : i \in 1..Len(all)} = ToSet(field)
         /\ Len(runs) \in Nat /\ Len(all) \in Nat /\ Len(runs) <= Len(all)
         /\ \A i \in 1..Len(runs) : all[i] = runs[i]
         /\ Feasible(all) = Feasible(runs)
<1> DEFINE all == runs \o TimeoutRows
           n == Len(runs)
           t == Len(TimeoutRows)
<1>1. /\ Rows(runs) /\ runs \in Seq(RaceRow) /\ batch = {}
      /\ \A i \in 1..n : runs[i].provider \in ToSet(field)
  BY DEF Racing, Rows
<1>2. Taken = {runs[i].provider : i \in 1..n}
  BY <1>1 DEF Taken
<1>3. /\ all \in Seq(RaceRow) /\ Len(all) = n + t /\ n \in Nat /\ t \in Nat
      /\ \A i \in 1..(n + t) : all[i] = IF i <= n THEN runs[i] ELSE TimeoutRows[i - n]
  BY <1>1, TimeoutFact, ConcatProperties
<1> HIDE DEF all, t, n
<1>4. /\ \A i \in 1..n : i \in 1..Len(all) /\ all[i] = runs[i]
      /\ \A i \in 1..Len(all) :
           i \in 1..n \/ (i \notin 1..n /\ i - n \in 1..t /\ all[i] = TimeoutRows[i - n])
  BY <1>3
<1>5. \A k \in 1..t : k + n \in 1..Len(all) /\ all[k + n] = TimeoutRows[k]
  <2> SUFFICES ASSUME NEW k \in 1..t PROVE k + n \in 1..Len(all) /\ all[k + n] = TimeoutRows[k]
    OBVIOUS
  <2>1. k + n \in 1..(n + t) /\ ~(k + n <= n) /\ (k + n) - n = k
    BY <1>3
  <2> QED BY <1>3, <2>1
<1>6. Rows(all)
  <2> SUFFICES ASSUME NEW i \in 1..Len(all), NEW j \in 1..Len(all),
                      all[i].provider = all[j].provider
               PROVE  i = j
    BY <1>3 DEF Rows
  <2>1. CASE i \in 1..n /\ j \in 1..n
    BY <1>1, <1>4, <2>1 DEF Rows, n
  <2>2. CASE i \notin 1..n /\ j \notin 1..n
    <3>1. i - n = j - n
      BY <1>4, <2>2, TimeoutFact DEF t
    <3> QED BY <1>3, <3>1
  <2>3. \A k \in 1..n, m \in 1..t : runs[k].provider # TimeoutRows[m].provider
    BY <1>2, TimeoutFact DEF t
  <2> QED BY <1>4, <2>1, <2>2, <2>3
<1>7. {all[i].provider : i \in 1..Len(all)} = ToSet(field)
  <2>1. \A i \in 1..Len(all) : all[i].provider \in ToSet(field)
    BY <1>1, <1>4, TimeoutFact DEF t
  <2>2. \A p \in ToSet(field) : \E i \in 1..Len(all) : all[i].provider = p
    BY <1>2, <1>4, <1>5, TimeoutFact DEF t
  <2> QED BY <2>1, <2>2
<1>8. Len(all) = Len(field)
  <2> DEFINE names == [i \in 1..Len(all) |-> all[i].provider]
  <2>1. \A r \in RaceRow : r.provider \in Providers
    BY DEF RaceRow
  <2>2. \A i \in 1..Len(all) : all[i] \in RaceRow
    BY <1>3
  <2>3. names \in Seq(Providers) /\ Len(names) = Len(all) /\ DOMAIN names = 1..Len(all)
    BY <1>3, <2>1, <2>2
  <2>4. \A i, j \in 1..Len(names) : names[i] = names[j] => i = j
    BY <1>6, <2>3 DEF Rows
  <2>5. ToSet(names) = ToSet(field)
    BY <1>7, <2>3 DEF ToSet
  <2> HIDE DEF names
  <2>6. Cardinality(ToSet(names)) = Len(names)
    BY <2>3, <2>4, LengthFact
  <2>7. Cardinality(ToSet(field)) = Len(field)
    BY LengthFact DEF Racing
  <2> QED BY <2>3, <2>5, <2>6, <2>7
<1>9. Feasible(all) = Feasible(runs)
  <2>1. \A k \in 1..t : ~TimeoutRows[k].feasible
    BY TimeoutFact DEF t
  <2> QED BY <1>3, <1>4, <2>1 DEF Feasible, n
<1> QED BY <1>1, <1>3, <1>4, <1>6, <1>7, <1>8, <1>9 DEF all, n

\* The values of a feasible row.
LEMMA FeasibleFact ==
  ASSUME NEW rows, Rows(rows)
  PROVE  /\ Len(rows) \in Nat /\ Feasible(rows) \in SUBSET (1..Len(rows))
         /\ \A i \in Feasible(rows) :
              /\ rows[i] \in RaceRow /\ rows[i].feasible
              /\ rows[i].objective \in Int /\ rows[i].time \in Int
              /\ rows[i].provider \in Providers /\ rows[i].role \in {"CPU", "QPU"}
<1>1. rows \in Seq(RaceRow)
  BY DEF Rows
<1>2. \A i \in Feasible(rows) : i \in 1..Len(rows) /\ rows[i] \in RaceRow /\ rows[i].feasible
  BY <1>1 DEF Feasible
<1>3. \A r \in RaceRow : /\ r.feasible => r.objective \in Int /\ r.time \in Int
                         /\ r.provider \in Providers /\ r.role \in {"CPU", "QPU"}
  BY DEF RaceRow
<1> QED BY <1>1, <1>2, <1>3 DEF Feasible

\* What is as good as the best, and the gap's arithmetic: between the best and one as good
\* as it, all are as good as the best, and as one another's better.
LEMMA QualityFact ==
  ASSUME NEW b \in Int, NEW r \in Int, NEW w \in Int, b <= r, r <= w, SameQuality(w, b)
  PROVE  SameQuality(r, b) /\ SameQuality(r, w)
BY DEF SameQuality, Abs, Greater

\* pick_winner: a feasible row if there is any, undominated.
LEMMA WinnerFact ==
  ASSUME NEW rows, Rows(rows)
  PROVE  LET w == PickWinner(rows) IN
         /\ Feasible(rows) = {} => w = None
         /\ Feasible(rows) # {} =>
              /\ w \in Feasible(rows)
              /\ \A i \in Feasible(rows) :
                   /\ ~(rows[i].time < rows[w].time /\ rows[i].objective <= rows[w].objective)
                   /\ setting.by = "objective" /\ rows[i].objective < rows[w].objective
                        => SameQuality(rows[i].objective, rows[w].objective)
<1> DEFINE F == Feasible(rows)
           G == AsGoodAsBest(rows)
           w == PickWinner(rows)
<1>1. /\ Len(rows) \in Nat /\ F \in SUBSET (1..Len(rows))
      /\ \A i \in F : rows[i].objective \in Int /\ rows[i].time \in Int
  BY FeasibleFact
<1>2. G \in SUBSET F /\ (F # {} => G # {}) /\
      \A k \in F : (\A j \in F : rows[k].objective <= rows[j].objective) =>
        \A i \in F : i \in G <=> SameQuality(rows[i].objective, rows[k].objective)
  <2>1. G \in SUBSET F
    BY DEF AsGoodAsBest
  <2>2. ASSUME NEW k \in F, \A j \in F : rows[k].objective <= rows[j].objective, NEW i \in F
        PROVE  i \in G <=> SameQuality(rows[i].objective, rows[k].objective)
    <3>1. ASSUME NEW m \in F, \A j \in F : rows[m].objective <= rows[j].objective
          PROVE  rows[m].objective = rows[k].objective
      BY <1>1, <2>2, <3>1
    <3> QED BY <2>2, <3>1 DEF AsGoodAsBest
  <2>3. ASSUME F # {} PROVE G # {}
    <3> DEFINE second == [i \in F |-> rows[i].time]
               k == FirstMin([i \in F |-> <<rows[i].objective, second[i]>>])
    <3>1. second \in [F -> Int]
      BY <1>1
    <3>2. k \in F /\ \A j \in F : rows[k].objective <= rows[j].objective
      <4> HIDE DEF second, F
      <4> QED BY <1>1, <2>3, <3>1, ByObjectiveFact
    <3> HIDE DEF k, second
    <3>3. SameQuality(rows[k].objective, rows[k].objective)
      BY <1>1, <3>2 DEF SameQuality, Abs, Greater
    <3> QED BY <2>2, <3>2, <3>3
  <2> QED BY <2>1, <2>2, <2>3
<1> HIDE DEF F, G, w
<1>3. CASE F = {}
  <2>1. w = None
    <3>1. (IF setting.by = "objective" THEN G ELSE F) = {}
      BY <1>2, <1>3
    <3>2. w = FirstMin(ByTime(rows, {}))
      BY <3>1 DEF w, G, F, PickWinner
    <3> QED BY <3>2, <1>1, ByTimeFact
  <2> QED BY <1>3, <2>1 DEF F, w
<1>4. CASE F # {} /\ setting.by # "objective"
  <2>1. w = FirstMin(ByTime(rows, F))
    BY <1>4 DEF w, F, PickWinner
  <2>2. w \in F /\ \A j \in F : rows[w].time <= rows[j].time
    BY <1>1, <1>4, <2>1, ByTimeFact
  <2>3. \A i \in F : ~(rows[i].time < rows[w].time)
    BY <1>1, <2>2
  <2> QED BY <1>4, <2>2, <2>3 DEF F, w
<1>5. CASE F # {} /\ setting.by = "objective"
  <2>1. w = FirstMin(ByTime(rows, G))
    BY <1>5 DEF w, G, PickWinner
  <2>2. w \in G /\ \A j \in G : rows[w].time <= rows[j].time
    <3>1. G \in SUBSET (1..Len(rows)) /\ G # {} /\ \A i \in G : rows[i].time \in Int
      BY <1>1, <1>2, <1>5
    <3> QED BY <1>1, <2>1, <3>1, ByTimeFact
  <2> DEFINE second == [i \in F |-> rows[i].time]
             k == FirstMin([i \in F |-> <<rows[i].objective, second[i]>>])
  <2>3. k \in F /\ \A j \in F : rows[k].objective <= rows[j].objective
    <3>1. second \in [F -> Int]
      BY <1>1
    <3> HIDE DEF second
    <3> QED BY <1>1, <1>5, <3>1, ByObjectiveFact
  <2> HIDE DEF k
  <2>4. w \in F /\ SameQuality(rows[w].objective, rows[k].objective)
    BY <1>2, <2>2, <2>3
  <2>5. ASSUME NEW i \in F, rows[i].objective <= rows[w].objective
        PROVE  /\ ~(rows[i].time < rows[w].time)
               /\ SameQuality(rows[i].objective, rows[w].objective)
    <3>1. /\ SameQuality(rows[i].objective, rows[k].objective)
          /\ SameQuality(rows[i].objective, rows[w].objective)
      BY <1>1, <2>3, <2>4, <2>5, QualityFact
    <3>2. i \in G
      BY <1>2, <2>3, <3>1
    <3> QED BY <1>1, <2>2, <2>4, <3>1, <3>2
  <2>6. \A i \in F : rows[i].objective < rows[w].objective =>
                      rows[i].objective <= rows[w].objective
    BY <1>1, <2>4
  <2> QED BY <1>5, <2>4, <2>5, <2>6 DEF F, w
<1> QED BY <1>3, <1>4, <1>5

\* The badge goes to a feasible row, and marking changes the marks only.
LEMMA MarkedFact ==
  ASSUME NEW rows, Rows(rows), NEW w \in Feasible(rows)
  PROVE  LET marked == Marked(rows, w)
             best   == PickBest(rows, w)
         IN  /\ best \in Feasible(rows) /\ Len(marked) = Len(rows)
             /\ DOMAIN marked = 1..Len(rows) /\ Feasible(marked) = Feasible(rows)
             /\ \A i \in 1..Len(rows) :
                  /\ marked[i].provider = rows[i].provider /\ marked[i].role = rows[i].role
                  /\ marked[i].feasible = rows[i].feasible
                  /\ marked[i].objective = rows[i].objective /\ marked[i].time = rows[i].time
                  /\ marked[i].status = "winner" <=> i = w
                  /\ marked[i].best <=> i = best
<1> DEFINE best == PickBest(rows, w)
           marked == Marked(rows, w)
<1>1. /\ Len(rows) \in Nat /\ Feasible(rows) \in SUBSET (1..Len(rows))
      /\ \A i \in Feasible(rows) : rows[i].objective \in Int
  BY FeasibleFact
<1>2. best \in Feasible(rows)
  <2>1. CASE setting.by = "objective"
    BY <2>1 DEF PickBest
  <2>2. CASE setting.by # "objective"
    <3> DEFINE second == [i \in Feasible(rows) |-> IF i = w THEN 0 ELSE 1]
    <3>1. second \in [Feasible(rows) -> Int]
      OBVIOUS
    <3>2. best = FirstMin([i \in Feasible(rows) |-> <<rows[i].objective, second[i]>>])
      BY <2>2 DEF PickBest
    <3> HIDE DEF second, best
    <3> QED BY <1>1, <3>1, <3>2, ByObjectiveFact
  <2> QED BY <2>1, <2>2
<1> HIDE DEF best
<1>3. marked = [i \in 1..Len(rows) |->
         [rows[i] EXCEPT !.status = IF rows[i].provider = rows[w].provider THEN "winner" ELSE @,
                         !.best = rows[i].provider = rows[best].provider]]
  BY DEF Marked, best
<1> HIDE DEF marked
<1>4. Len(marked) = Len(rows) /\ DOMAIN marked = 1..Len(rows)
  <2>1. DOMAIN marked = 1..Len(rows) /\ marked = [i \in 1..Len(rows) |-> marked[i]]
    BY <1>3
  <2>2. \E S : marked \in [1..Len(rows) -> S]
    <3> WITNESS {marked[i] : i \in 1..Len(rows)}
    <3> QED BY <2>1
  <2>3. PICK S : marked \in [1..Len(rows) -> S]
    BY <2>2
  <2>4. marked \in Seq(S)
    BY <1>1, <2>3
  <2> QED BY <1>1, <2>1, <2>4
<1>5. ASSUME NEW i \in 1..Len(rows)
      PROVE  /\ marked[i].provider = rows[i].provider /\ marked[i].role = rows[i].role
             /\ marked[i].feasible = rows[i].feasible
             /\ marked[i].objective = rows[i].objective /\ marked[i].time = rows[i].time
             /\ marked[i].status = "winner" <=> i = w
             /\ marked[i].best <=> i = best
  <2>1. rows[i] \in RaceRow /\ w \in 1..Len(rows) /\ best \in 1..Len(rows)
    BY <1>1, <1>2 DEF Rows
  <2>2. rows[i].provider = rows[w].provider <=> i = w
    BY <2>1 DEF Rows
  <2>3. rows[i].provider = rows[best].provider <=> i = best
    BY <2>1 DEF Rows
  <2>4. rows[i].status # "winner"
    BY <2>1 DEF RaceRow
  <2>5. marked[i] = [rows[i] EXCEPT
                       !.status = IF rows[i].provider = rows[w].provider THEN "winner" ELSE @,
                       !.best = rows[i].provider = rows[best].provider]
    BY <1>3
  <2>6. rows[i] = [provider |-> rows[i].provider, role |-> rows[i].role,
                   status |-> rows[i].status, feasible |-> rows[i].feasible,
                   time |-> rows[i].time, objective |-> rows[i].objective,
                   best |-> rows[i].best]
    BY <2>1 DEF RaceRow
  <2>7. /\ marked[i].provider = rows[i].provider /\ marked[i].role = rows[i].role
        /\ marked[i].feasible = rows[i].feasible
        /\ marked[i].objective = rows[i].objective /\ marked[i].time = rows[i].time
        /\ marked[i].status = IF rows[i].provider = rows[w].provider THEN "winner"
                              ELSE rows[i].status
        /\ marked[i].best = (rows[i].provider = rows[best].provider)
    BY <2>5, <2>6
  <2>8. marked[i].status = "winner" <=> i = w
    BY <2>2, <2>4, <2>7
  <2>9. marked[i].best <=> i = best
    BY <2>3, <2>7, Zenon
  <2> QED BY <2>7, <2>8, <2>9
<1>6. Feasible(marked) = Feasible(rows)
  BY <1>4, <1>5 DEF Feasible
<1> QED BY <1>2, <1>4, <1>5, <1>6 DEF best, marked

\* The two ends of a race.
LEMMA DecideFact ==
  ASSUME Racing, Decide
  PROVE  LET all == runs \o TimeoutRows
             w == PickWinner(runs)
         IN  /\ phase = "closing" /\ UNCHANGED <<setting, field, future, batch, deadline>>
             /\ Decided'
             /\ \/ /\ Feasible(runs) = {} /\ runs' = all /\ result' = [outcome |-> "raised"]
                   /\ ~Won'
                \/ /\ Feasible(runs) # {} /\ w \in Feasible(runs) /\ w # None
                   /\ runs' = Marked(all, w)
                   /\ result'.winner = runs[w].provider
                   /\ result'.outcome = LiveOutcome(runs, w)
                   /\ LiveOutcome(runs, w) # "raised" /\ Won'
<1>1. phase = "closing" /\ Rows(runs)
  BY DEF Decide, Racing
<1>2. LiveOutcome(runs, PickWinner(runs)) # "raised"
  BY DEF LiveOutcome, ClassifyOutcome
<1>3. \A i \in Feasible(runs) : i # None
  BY <1>1, FeasibleFact, ValuesFact
<1>4. CASE Feasible(runs) = {}
  <2>1. PickWinner(runs) = None
    BY <1>1, <1>4, WinnerFact
  <2> QED BY <1>1, <1>4, <2>1 DEF Decide, Won, Decided
<1>5. CASE Feasible(runs) # {}
  <2>1. PickWinner(runs) \in Feasible(runs) /\ PickWinner(runs) # None
    BY <1>1, <1>3, <1>5, WinnerFact
  <2> QED BY <1>1, <1>2, <1>5, <2>1 DEF Decide, Won, Decided
<1> QED BY <1>4, <1>5

\* Whoever answers, raises or is late has one row; one wins and one has the badge.
LEMMA DecideRows ==
  ASSUME Racing, Decide
  PROVE  RowsExact'
<1> DEFINE all == runs \o TimeoutRows
           w == PickWinner(runs)
           best == PickBest(all, w)
<1>1. /\ Rows(all) /\ Len(all) = Len(field) /\ Len(all) \in Nat
      /\ {all[i].provider : i \in 1..Len(all)} = ToSet(field)
      /\ Feasible(all) = Feasible(runs)
  BY DecideFact, AllRowsFact
<1>2. field' = field
  BY DecideFact
<1>3. CASE Feasible(runs) = {}
  <2>1. runs' = all /\ result' = [outcome |-> "raised"] /\ ~Won'
    BY <1>3, DecideFact
  <2> HIDE DEF all
  <2>2. ToSet(all) = {all[i] : i \in 1..Len(all)}
    BY <1>1 DEF ToSet, Rows
  <2>3. {r.provider : r \in ToSet(all)} = ToSet(field)
    BY <1>1, <2>2
  <2>4. \A r \in ToSet(all) : ~r.feasible
    BY <1>1, <1>3, <2>2 DEF Feasible
  <2> QED BY <1>1, <1>2, <2>1, <2>3, <2>4 DEF RowsExact, ToSet
<1>4. CASE Feasible(runs) # {}
  <2>1. /\ w \in Feasible(runs) /\ runs' = Marked(all, w) /\ result'.outcome # "raised" /\ Won'
    BY <1>4, DecideFact
  <2> HIDE DEF all, w
  <2>2. /\ best \in Feasible(all) /\ Len(runs') = Len(all) /\ DOMAIN runs' = 1..Len(all)
        /\ Feasible(runs') = Feasible(all)
        /\ \A i \in 1..Len(all) : /\ runs'[i].provider = all[i].provider
                                  /\ runs'[i].status = "winner" <=> i = w
                                  /\ runs'[i].best <=> i = best
    BY <1>1, <2>1, MarkedFact
  <2> HIDE DEF best
  <2>3. ToSet(runs') = {runs'[i] : i \in 1..Len(all)}
    BY <2>2 DEF ToSet
  <2>4. w \in 1..Len(all) /\ best \in 1..Len(all) /\ runs'[w].feasible /\ runs'[best].feasible
    BY <1>1, <2>1, <2>2 DEF Feasible
  <2>5. {r.provider : r \in ToSet(runs')} = ToSet(field)
    BY <1>1, <2>2, <2>3
  <2>6. {r \in ToSet(runs') : r.status = "winner"} = {runs'[w]}
    BY <2>2, <2>3, <2>4
  <2>7. {r \in ToSet(runs') : r.best} = {runs'[best]}
    BY <2>2, <2>3, <2>4
  <2>8. \A r \in ToSet(runs') : r.status = "winner" \/ r.best => r.feasible
    BY <2>2, <2>3, <2>4
  <2>9. ~\A r \in ToSet(runs') : ~r.feasible
    BY <2>3, <2>4
  <2>10. Cardinality({runs'[w]}) = 1 /\ Cardinality({runs'[best]}) = 1
    BY FS_Singleton
  <2>11. Len(runs') = Len(field')
    BY <1>1, <1>2, <2>2
  <2> QED BY <1>2, <2>1, <2>5, <2>6, <2>7, <2>8, <2>9, <2>10, <2>11, ZenonT(30) DEF RowsExact, ToSet
<1> QED BY <1>3, <1>4

\* The winner is undominated among the stored rows.
LEMMA DecideWinner ==
  ASSUME Racing, Decide
  PROVE  WinnerUndominated'
<1> DEFINE all == runs \o TimeoutRows
           w == PickWinner(runs)
<1>1. CASE Feasible(runs) = {}
  BY <1>1, DecideFact DEF WinnerUndominated
<1>2. CASE Feasible(runs) # {}
  <2>1. /\ w \in Feasible(runs) /\ runs' = Marked(all, w) /\ setting' = setting
        /\ Rows(all) /\ Rows(runs) /\ Feasible(all) = Feasible(runs)
        /\ \A i \in 1..Len(runs) : all[i] = runs[i]
    BY <1>2, DecideFact, AllRowsFact
  <2>2. \A i \in Feasible(runs) :
          /\ ~(runs[i].time < runs[w].time /\ runs[i].objective <= runs[w].objective)
          /\ setting.by = "objective" /\ runs[i].objective < runs[w].objective
               => SameQuality(runs[i].objective, runs[w].objective)
    BY <1>2, <2>1, WinnerFact
  <2> HIDE DEF all, w
  <2>3. /\ DOMAIN runs' = 1..Len(all) /\ Len(runs') = Len(all)
        /\ Feasible(runs') = Feasible(all)
        /\ \A i \in 1..Len(all) :
             /\ runs'[i].objective = all[i].objective /\ runs'[i].time = all[i].time
             /\ runs'[i].status = "winner" <=> i = w
    BY <2>1, MarkedFact
  <2>4. \A i \in Feasible(runs) : /\ i \in 1..Len(all) /\ runs'[i].objective = runs[i].objective
                                  /\ runs'[i].time = runs[i].time
    BY <2>1, <2>3 DEF Feasible
  <2>5. \A r \in ToSet(runs') : r.feasible => \E i \in Feasible(runs) : r = runs'[i]
    <3>1. \A r \in ToSet(runs') : \E i \in 1..Len(runs') : r = runs'[i]
      BY <2>3 DEF ToSet
    <3> QED BY <2>1, <2>3, <3>1 DEF Feasible
  <2>6. \A r \in ToSet(runs') : r.status = "winner" => r = runs'[w]
    BY <2>3 DEF ToSet
  <2>7. ASSUME NEW v \in ToSet(runs'), NEW r \in ToSet(runs'), v.status = "winner", r.feasible
        PROVE  /\ ~(r.time < v.time /\ r.objective <= v.objective)
               /\ setting'.by = "objective" /\ r.objective < v.objective
                    => SameQuality(r.objective, v.objective)
    <3>1. PICK i \in Feasible(runs) : r = runs'[i]
      BY <2>5, <2>7
    <3>2. v = runs'[w]
      BY <2>6, <2>7
    <3> QED BY <2>1, <2>2, <2>4, <3>1, <3>2
  <2> QED BY <2>7 DEF WinnerUndominated, ToSet, SameQuality
<1> QED BY <1>1, <1>2

\* The label of the stored rows, of which the race's own are among the first, unchanged
\* but for the marks, and the others are late, or a Quip order's.
LEMMA SnapshotFact ==
  ASSUME NEW old, Rows(old), NEW w \in Feasible(old), NEW rows, Len(rows) \in Nat,
         Len(old) <= Len(rows),
         \A i \in 1..Len(old) :
           /\ rows[i].provider = old[i].provider /\ rows[i].role = old[i].role
           /\ rows[i].feasible = old[i].feasible
           /\ rows[i].objective = old[i].objective /\ rows[i].time = old[i].time,
         \A i \in 1..Len(rows) : i \notin 1..Len(old) =>
           /\ rows[i].provider # old[w].provider
           /\ ~rows[i].feasible \/ rows[i].role = "NETWORK"
  PROVE  SnapshotOutcome(rows, old[w].provider) = LiveOutcome(old, w)
<1> DEFINE I == Others(old, w)
           key == ByObjective(old, I)
           f == FirstMin(key)
<1>1. /\ Len(old) \in Nat /\ Feasible(old) \in SUBSET (1..Len(old)) /\ w \in 1..Len(old)
      /\ \A i \in Feasible(old) : /\ old[i].feasible /\ old[i].objective # None
                                  /\ old[i].objective \in Int /\ old[i].time \in Int
                                  /\ old[i].role # "NETWORK"
  BY FeasibleFact, ValuesFact, SMTT(30)
<1>2. \A i \in 1..Len(old) : i \in 1..Len(rows)
  BY <1>1
<1>3. (CHOOSE i \in 1..Len(rows) : rows[i].provider = old[w].provider) = w
  <2>1. \A i \in 1..Len(rows) : rows[i].provider = old[w].provider => i = w
    BY <1>1 DEF Rows
  <2>2. w \in 1..Len(rows) /\ rows[w].provider = old[w].provider
    BY <1>1, <1>2
  <2> QED BY <2>1, <2>2
<1>4. Scored(rows, old[w].provider) = I
  <2>1. ASSUME NEW i \in Scored(rows, old[w].provider) PROVE i \in I
    <3>1. /\ i \in 1..Len(rows) /\ rows[i].feasible /\ rows[i].provider # old[w].provider
          /\ rows[i].role # "NETWORK"
      BY DEF Scored, Feasible
    <3>2. i \in 1..Len(old)
      BY <3>1
    <3> QED BY <3>1, <3>2 DEF Others, Feasible
  <2>2. ASSUME NEW i \in I PROVE i \in Scored(rows, old[w].provider)
    <3>1. i \in Feasible(old) /\ i \in 1..Len(old) /\ old[i].provider # old[w].provider
      BY <1>1 DEF Others
    <3> QED BY <1>1, <1>2, <3>1 DEF Scored, Feasible
  <2> QED BY <2>1, <2>2
<1>5. I \in SUBSET Feasible(old)
  BY DEF Others
<1>6. ByObjective(rows, I) = key
  <2>1. \A i \in I : rows[i].objective = old[i].objective /\ rows[i].time = old[i].time
    BY <1>1, <1>5
  <2> HIDE DEF I
  <2> QED BY <2>1 DEF ByObjective
<1>7. f \in I \/ f = None
  <2> DEFINE second == [i \in I |-> old[i].time]
  <2>1. /\ second \in [I -> Int] /\ I \in SUBSET (1..Len(old))
        /\ \A i \in I : old[i].objective \in Int
    BY <1>1, <1>5
  <2>2. f = FirstMin([k \in I |-> <<old[k].objective, second[k]>>])
    BY DEF ByObjective
  <2> HIDE DEF I, second, f, key
  <2>3. I = {} => f = None
    BY <1>1, <2>1, <2>2, ByObjectiveFact, ZenonT(30)
  <2>4. ASSUME I # {} PROVE f \in I
    <3>1. /\ FirstMin([k \in I |-> <<old[k].objective, second[k]>>]) \in I
          /\ \A j \in I : old[FirstMin([k \in I |-> <<old[k].objective, second[k]>>])].objective
                           <= old[j].objective
      BY <1>1, <2>1, <2>4, ByObjectiveFact, ZenonT(30)
    <3> QED BY <2>2, <3>1
  <2> QED BY <2>3, <2>4
<1>8. ClassifyOutcome(rows, w, f) = ClassifyOutcome(old, w, f)
  <2> HIDE DEF f, I
  <2>1. CASE f = None
    BY <2>1 DEF ClassifyOutcome
  <2>2. CASE f # None
    <3>1. f \in 1..Len(old)
      BY <1>1, <1>5, <1>7, <2>2
    <3>2. /\ rows[f].objective = old[f].objective /\ rows[f].time = old[f].time
          /\ rows[w].objective = old[w].objective /\ rows[w].time = old[w].time
      BY <1>1, <3>1
    <3> QED BY <3>2 DEF ClassifyOutcome
  <2> QED BY <2>1, <2>2
<1>9. SnapshotOutcome(rows, old[w].provider) = ClassifyOutcome(rows, w, f)
  BY <1>3, <1>4, <1>6 DEF SnapshotOutcome
<1>10. LiveOutcome(old, w) = ClassifyOutcome(old, w, f)
  BY DEF LiveOutcome
<1> QED BY <1>8, <1>9, <1>10

\* A Quip order's row is nobody's in the race.
LEMMA LateFact ==
  \A late \in LateRows : late.role = "NETWORK" /\ late.provider = "quip"
BY DEF LateRows, Row, RoleOf

\* The stored rows, with a Quip order's or without, say how the race was won.
LEMMA DecideLabels ==
  ASSUME Racing, Decide
  PROVE  LabelsAgree'
<1> DEFINE all == runs \o TimeoutRows
           w == PickWinner(runs)
<1>1. CASE Feasible(runs) = {}
  BY <1>1, DecideFact DEF LabelsAgree
<1>2. CASE Feasible(runs) # {}
  <2>1. /\ w \in Feasible(runs) /\ runs' = Marked(all, w)
        /\ result'.winner = runs[w].provider /\ result'.outcome = LiveOutcome(runs, w)
        /\ Rows(all) /\ Rows(runs) /\ Feasible(all) = Feasible(runs)
        /\ Len(runs) \in Nat /\ Len(all) \in Nat /\ Len(runs) <= Len(all)
        /\ \A i \in 1..Len(runs) : all[i] = runs[i]
    BY <1>2, DecideFact, AllRowsFact
  <2> HIDE DEF all, w
  <2>2. /\ DOMAIN runs' = 1..Len(all) /\ Len(runs') = Len(all)
        /\ Feasible(runs') = Feasible(all)
        /\ \A i \in 1..Len(all) :
             /\ runs'[i].provider = all[i].provider /\ runs'[i].role = all[i].role
             /\ runs'[i].feasible = all[i].feasible
             /\ runs'[i].objective = all[i].objective /\ runs'[i].time = all[i].time
    BY <2>1, MarkedFact
  <2>3. w \in 1..Len(runs) /\ runs[w].provider \in Providers /\ runs[w].provider # "quip"
    BY <2>1, FeasibleFact, ProvidersFact
  <2>4. /\ \A i \in 1..Len(runs) :
             /\ runs'[i].provider = runs[i].provider /\ runs'[i].role = runs[i].role
             /\ runs'[i].feasible = runs[i].feasible
             /\ runs'[i].objective = runs[i].objective /\ runs'[i].time = runs[i].time
        /\ \A i \in 1..Len(all) : i \notin 1..Len(runs) =>
             runs'[i].provider # runs[w].provider /\ ~runs'[i].feasible
    <3>1. \A i \in 1..Len(runs) : i \in 1..Len(all)
      BY <2>1
    <3>2. ASSUME NEW i \in 1..Len(all), i \notin 1..Len(runs)
          PROVE  runs'[i].provider # runs[w].provider /\ ~runs'[i].feasible
      <4>1. i # w /\ all[w] = runs[w] /\ w \in 1..Len(all)
        BY <2>1, <2>3, <3>1, <3>2
      <4>2. all[i].provider # all[w].provider
        BY <2>1, <4>1 DEF Rows
      <4>3. i \notin Feasible(runs)
        BY <3>2 DEF Feasible
      <4>4. ~all[i].feasible
        BY <2>1, <4>3 DEF Feasible
      <4> QED BY <2>2, <4>1, <4>2, <4>4
    <3> QED BY <2>1, <2>2, <3>1, <3>2
  <2>5. SnapshotOutcome(runs', runs[w].provider) = LiveOutcome(runs, w)
    <3>1. Len(runs') \in Nat /\ Len(runs) <= Len(runs')
      BY <2>1, <2>2
    <3>2. \A i \in 1..Len(runs') : i \notin 1..Len(runs) =>
            /\ runs'[i].provider # runs[w].provider
            /\ ~runs'[i].feasible \/ runs'[i].role = "NETWORK"
      BY <2>2, <2>4
    <3> QED BY <2>1, <2>4, <3>1, <3>2, SnapshotFact, SMTT(30)
  <2>6. ASSUME NEW late \in LateRows
        PROVE  SnapshotOutcome(Append(runs', late), runs[w].provider) = LiveOutcome(runs, w)
    <3> DEFINE rows == Append(runs', late)
    <3>1. /\ Len(rows) = Len(all) + 1 /\ rows[Len(all) + 1] = late
          /\ \A i \in 1..Len(all) : rows[i] = runs'[i]
      BY <2>1, <2>2
    <3> HIDE DEF rows
    <3>2. \A i \in 1..Len(rows) : i \in 1..Len(all) \/ i = Len(all) + 1
      BY <2>1, <3>1
    <3>3. /\ Len(rows) \in Nat /\ Len(runs) <= Len(rows)
          /\ \A i \in 1..Len(runs) : i \in 1..Len(all)
      BY <2>1, <3>1
    <3>4. late.role = "NETWORK" /\ late.provider # runs[w].provider
      BY <2>3, LateFact
    <3>5. \A i \in 1..Len(runs) :
            /\ rows[i].provider = runs[i].provider /\ rows[i].role = runs[i].role
            /\ rows[i].feasible = runs[i].feasible
            /\ rows[i].objective = runs[i].objective /\ rows[i].time = runs[i].time
      BY <2>4, <3>1, <3>3
    <3>6. \A i \in 1..Len(rows) : i \notin 1..Len(runs) =>
            /\ rows[i].provider # runs[w].provider
            /\ ~rows[i].feasible \/ rows[i].role = "NETWORK"
      BY <2>4, <3>1, <3>2, <3>4
    <3>7. SnapshotOutcome(rows, runs[w].provider) = LiveOutcome(runs, w)
      BY <2>1, <3>3, <3>5, <3>6, SnapshotFact
    <3> QED BY <3>7 DEF rows
  <2> QED BY <2>1, <2>5, <2>6 DEF LabelsAgree
<1> QED BY <1>1, <1>2

-----------------------------------------------------------------------------
(* The last step, and all of them.                                         *)

\* The verdict comes last, and the race is over.
LEMMA DecideKeeps ==
  ASSUME Racing, Decide
  PROVE  IInv'
<1>1. /\ phase' = "decided" /\ UNCHANGED <<field, future, batch>> /\ phase = "closing"
  BY DEF Decide
<1>2. Racing'
  BY <1>1 DEF Racing
<1> QED BY <1>2, DecideRows, DecideWinner, DecideLabels DEF IInv

\* Every step keeps it.
LEMMA NextIInv ==
  ASSUME IInv, [Next]_vars
  PROVE  IInv'
<1>1. CASE Decide
  BY <1>1, DecideKeeps DEF IInv
<1>2. CASE Take \/ (\E p \in ToSet(field) : Yield(p)) \/ NextBatch
  <2>1. Racing'
    BY <1>2, TakeKeeps, YieldKeeps, TurnKeeps DEF IInv
  <2>2. ~Decided'
    BY <1>2 DEF Take, Yield, NextBatch, Decided
  <2> QED BY <2>1, <2>2 DEF IInv, RowsExact, WinnerUndominated, LabelsAgree, Won
<1>3. CASE (\E p \in ToSet(field) : Finish(p)) \/ Deadline \/ Rest \/ UNCHANGED vars
  <2>1. Racing'
    <3>1. CASE UNCHANGED vars
      BY <3>1 DEF IInv, vars, Racing
    <3> QED BY <1>3, <3>1, FinishKeeps, TurnKeeps DEF IInv
  <2>2. UNCHANGED <<setting, field, phase, runs, result>>
    BY <1>3 DEF Finish, Deadline, Rest, vars
  <2> QED BY <2>1, <2>2
          DEF IInv, RowsExact, WinnerUndominated, LabelsAgree, Won, Decided, ToSet
<1> QED BY <1>1, <1>2, <1>3 DEF Next, RacingThread

\* The invariant holds in every state.
THEOREM Invariance == Spec => []IInv
BY InitIInv, NextIInv, PTL DEF Spec

\* race(): for any deployment, answers, exceptions and deadline, every provider has exactly
\* one row, one of them wins and one has the badge, and the race raises only without a
\* feasible answer.
THEOREM RowsExactHolds == Spec => []RowsExact
BY Invariance, PTL DEF IInv

\* pick_winner: for any objectives and times, no answer of the race beats the winner on
\* quality and time, nor materially on quality when quality decides.
THEOREM WinnerUndominatedHolds == Spec => []WinnerUndominated
BY Invariance, PTL DEF IInv

\* race_comparison: for any objectives and times, the stored rows say how the race was won
\* as the race did, whatever became of the Quip order next to it.
THEOREM LabelsAgreeHolds == Spec => []LabelsAgree
BY Invariance, PTL DEF IInv
=============================================================================
