----------------------------- MODULE Portfolio -----------------------------
(***************************************************************************)
(* One solve, from the sliders to the weights a solver returns: the        *)
(* sliders become a problem (financial/slider_map.py), the problem a QUBO  *)
(* (qubo_encoder.py), and a sample of the QUBO weights again               *)
(* (qubo_decoder.py, projection.py, weighting.py, solvers/sampling.py),    *)
(* which pass the router's gate or not (feasibility.py).                   *)
(*                                                                         *)
(* The code computes in floats.  Here a fraction is a pair of integers and *)
(* a matrix is scaled until it is one of integers: the formulas are exact  *)
(* and rounding is left out.                                               *)
(***************************************************************************)
EXTENDS Integers, FiniteSets, FiniteSetsExt

CONSTANTS
  Orders,     \* what is asked: [conf, mode, n, hold, cap]
  Mu, Sd,     \* of asset i: expected return, standard deviation
  Rho,        \* Rho[i][j]: correlation, a whole number here
  HalfGamma,  \* gamma / 2
  Tilts,      \* weights the QP solver may return, in parts of Parts
  Parts,
  All,        \* hold: no hold count given
  Precision,  \* to_xqmx's largest incident sum
  MaxVars     \* bound: larger QUBOs are mapped and not sampled

\* conf is config.py: units and bits of the grids, and the reach of beta.  The grids are
\* powers of two and finer than nothing the gate can see (CARDINALITY_MIN_UNITS is 8,
\* CARDINALITY_MAX_UNITS 32); no basket is smaller than the least hold count
\* (MIN_BASKET_SIZE is 15).
Universe == DOMAIN Mu
Modes == {"convex", "select", "penalized"}
Grids == {4, 8, 16, 32, 64, 128, 256}
Config == [minUnits : Grids, maxUnits : Grids, gridVars : Nat, bits : 1..8,
           bitsLarge : 1..8, bitVars : Nat, betaFrom : Nat, betaFull : Nat]
ASSUME OrdersAssumption ==
  \A o \in Orders : /\ o.conf \in Config /\ o.mode \in Modes /\ o.cap \in 0..100
                    /\ o.n \in Nat \ {0} /\ (o.mode # "convex" => o.n >= 3)
                    /\ o.hold = All \/ o.hold \in 3..100
ASSUME DataAssumption ==
  /\ Mu \in [Universe -> Int] /\ Sd \in [Universe -> Nat]
  /\ Rho \in [Universe -> [Universe -> Int]]
  /\ \A i, j \in Universe : Rho[i][j] = Rho[j][i]
  /\ \A o \in Orders : 1..o.n \subseteq Universe
  /\ {HalfGamma, Parts} \subseteq Nat \ {0} /\ Tilts \subseteq Int
\* A variable for each unit of the largest sum, 1e6 in the code, is more than any QUBO has.
ASSUME PrecisionAssumption ==
  /\ Precision \in Nat \ {0} /\ MaxVars \in Nat /\ MaxVars <= Precision

VARIABLES
  stage,    \* how far the solve is
  order, params,
  qubo,     \* the scaled QUBO: [vars, q, scaled parts of its penalties]
  sample,   \* the variables that a read sets
  weights   \* [of, over]: asset i gets of[i] / over

solveVars == <<stage, order, params, qubo, sample, weights>>

Least(a, b) == IF a < b THEN a ELSE b
Most(a, b)  == IF a > b THEN a ELSE b
Size(i)     == IF i < 0 THEN -i ELSE i
Ceiling(a, b) == (a + b - 1) \div b
Square(n) == n * n
Powers      == {2^p : p \in 0..10}
Log2(p)     == CHOOSE e \in 0..10 : 2^e = p

\* Fractions
Fraction(n, d) == [n |-> n, d |-> d]
AtMost(f, g)   == f.n * g.d <= g.n * f.d
Larger(f, g)   == IF AtMost(f, g) THEN g ELSE f
Smaller(f, g)  == IF AtMost(f, g) THEN f ELSE g

-----------------------------------------------------------------------------
(* The sliders.                                                            *)

\* units_for_cardinality: a power of two with a unit for each of k assets
UnitsForCardinality(c, k) ==
  Least(Min({p \in Powers : p >= Most(k, c.minUnits)}), c.maxUnits)

\* units_for_grid: the finest grid that keeps the QUBO small
UnitsForGrid(c, k, n) ==
  Least(Max({UnitsForCardinality(c, k)}
            \union {p \in Powers : /\ p > c.minUnits /\ p <= c.maxUnits
                                   /\ n * Log2(p) <= c.gridVars}),
        c.maxUnits)

\* max_position_cap: from 1/n up to W_MAX_CEILING, 85 %
MaxPositionCap(n, cap) ==
  IF n = 1 THEN Fraction(1, 1) ELSE Fraction(10000 + cap * (85 * n - 100), 10000 * n)

\* mutant: the cap may stay below what the grid needs
PlainCap(mode, n, cap, k, m) == Larger(MaxPositionCap(n, cap), Fraction(1, k))

\* the per-asset cap, with a unit of the grid as the least holding (U_MIN = 1)
CapOf(mode, n, cap, k, m) ==
  Larger(MaxPositionCap(n, cap),
         IF mode = "select" THEN Fraction(1, k) ELSE Fraction(Ceiling(m, k), m))

MapSliders(o) ==
  IF o.mode = "convex"
  THEN [k |-> o.n, units |-> 0, wMin |-> Fraction(1, 4 * o.n),
        wMax |-> MaxPositionCap(o.n, o.cap)]
  ELSE LET k == Most(3, Least(IF o.hold = All THEN o.n ELSE o.hold,
                              Least(o.n, o.conf.maxUnits)))
           m == UnitsForGrid(o.conf, k, o.n)
       IN [k |-> k, units |-> m,
           wMin |-> IF o.mode = "select" THEN Smaller(Fraction(1, m), Fraction(1, 2 * k))
                    ELSE Fraction(1, m),
           wMax |-> CapOf(o.mode, o.n, o.cap, k, m)]

\* The assertions of PortfolioProblem
ProblemHolds(o, p) ==
  /\ AtMost(p.wMax, Fraction(1, 1)) /\ AtMost(p.wMin, p.wMax)
  /\ 0 < p.k /\ p.k <= o.n
  /\ p.k * p.wMin.n <= p.wMin.d
  /\ p.k * p.wMax.n >= p.wMax.d

-----------------------------------------------------------------------------
(* The problem.                                                            *)

Basket(o) == 1..o.n
N == order.n
Assets == Basket(order)
Sigma(i, j) == Sd[i] * Sd[j] * Rho[i][j]

\* PortfolioProblem.objective for weights a[i] / over, times over^2, without beta
Objective(a, over) ==
  HalfGamma * SumFunction([e \in Assets \X Assets |-> Sigma(e[1], e[2]) * a[e[1]] * a[e[2]]])
    - over * SumFunction([i \in Assets |-> Mu[i] * a[i]])

-----------------------------------------------------------------------------
(* The QUBOs.  A variable is a pair: <<i, 0>> is the bit that selects asset *)
(* i, or bit k of its weight.  q[p, r] is a full symmetric matrix.          *)

Matrix(quad, lin) ==
  [e \in DOMAIN quad |-> quad[e] + (IF e[1] = e[2] THEN lin[e[1]] ELSE 0)]
Peak(quad, lin) ==
  Max({1} \union {Size(quad[e]) : e \in DOMAIN quad} \union {Size(lin[v]) : v \in DOMAIN lin})

TopPlace(place) == Max({place[v] : v \in DOMAIN place})

PenaltyOnPar == 1   \* mutant: penalties and objective have the same peak
PenaltyMult == 12   \* of the budget, the count and the links alike

\* w = (base + sum of the places set) / over: the objective's two parts, times over^2
QuadOf(place) ==
  [e \in (DOMAIN place) \X (DOMAIN place) |->
     HalfGamma * Sigma(e[1][1], e[2][1]) * place[e[1]] * place[e[2]]]
LinOf(o, place, base, over) ==
  [v \in DOMAIN place |->
     place[v] * (2 * HalfGamma * base * SumFunction([j \in Basket(o) |-> Sigma(v[1], j)])
                   - over * Mu[v[1]])]

gcd[p \in Nat \X Nat] == IF p[2] = 0 THEN p[1] ELSE gcd[<<p[2], p[1] % p[2]>>]
Common(a, b) == gcd[<<a, b>>]

\* encode_qubo: n * bits variables, scaled by over^2 * topPlace^2.
BitsForBasket(c, n) == IF n * c.bits <= c.bitVars THEN c.bits ELSE c.bitsLarge

EncodeConvex(o, p) ==
  LET b     == BitsForBasket(o.conf, o.n)
      wide  == p.wMin.d * p.wMax.d * (2^b - 1)
      floor == p.wMin.n * (wide \div p.wMin.d)
      bit   == (p.wMax.n * (wide \div p.wMax.d) - floor) \div (2^b - 1)
      unit  == Common(wide, Common(floor, bit))
      over  == wide \div unit
      base  == floor \div unit
      place == [v \in Basket(o) \X (0..b - 1) |-> (bit \div unit) * 2^v[2]]
      top   == TopPlace(place)
      rest  == over - o.n * base
      quad  == QuadOf(place)
      lin   == LinOf(o, place, base, over)
      peak  == Peak(quad, lin)
  IN [q |-> Matrix([e \in DOMAIN quad |-> Square(top) * quad[e]
                                          + PenaltyMult * peak * place[e[1]] * place[e[2]]],
                   [v \in DOMAIN place |-> Square(top) * lin[v]
                                           - 2 * PenaltyMult * peak * rest * place[v]]),
      place |-> place, base |-> base, over |-> over, top |-> top, peak |-> peak]

\* increment_place_values: 1, 2, 4 ... up to what the cap leaves, then the remainder.
IncrementPlaceValues(most, b) ==
  [k \in 0..b - 1 |-> IF 2^(k + 1) - 1 <= most THEN 2^k
                      ELSE IF 2^k - 1 <= most THEN most - (2^k - 1) ELSE 0]

IncrementBits(m) == Log2(m) - 1
MostIncrement(p) == Most(0, (p.wMax.n * p.units) \div p.wMax.d - 1)
Increments(p)    == IncrementPlaceValues(MostIncrement(p), IncrementBits(p.units))

Select(v) == v[2] = 0

\* mutant: only one half of the penalty is on the matrix
LinkHalf(v, r, link) == IF v[1] = r[1] /\ Select(v) /\ ~Select(r) THEN link ELSE 0

\* The linking penalty on the pair of an increment bit and the select bit of its asset
LinkPair(v, r, link) == IF v[1] = r[1] /\ Select(v) # Select(r) THEN link ELSE 0

\* encode_penalized: select and increment bits, scaled by units^2 * topPlace^2
EncodePenalized(o, p) ==
  LET place == [v \in Basket(o) \X (0..IncrementBits(p.units)) |->
                  IF Select(v) THEN 1 ELSE Increments(p)[v[2] - 1]]
      top   == TopPlace(place)
      quad  == QuadOf(place)
      lin   == LinOf(o, place, 0, p.units)
      peak  == Peak(quad, lin)
      other == Square(top) * PenaltyMult * peak
  IN [q |-> Matrix([e \in DOMAIN quad |->
                      Square(top) * quad[e] + PenaltyMult * peak * place[e[1]] * place[e[2]]
                      + (IF Select(e[1]) /\ Select(e[2]) THEN other ELSE 0)
                      - LinkPair(e[1], e[2], other \div 2)],
                   [v \in DOMAIN place |->
                      Square(top) * lin[v] - 2 * p.units * PenaltyMult * peak * place[v]
                      + (IF Select(v) THEN -2 * p.k * other ELSE other)]),
      place |-> place, base |-> 0, over |-> p.units, top |-> top, peak |-> peak]

\* resolve_frustration_beta: 0.3 of the objective's scale at betaFrom assets, rising to
\* 0.4 at betaFull; nothing below
BetaShare(c, n) ==
  LET span == Most(1, c.betaFull - c.betaFrom)
  IN IF n < c.betaFrom THEN Fraction(0, 1)
     ELSE Fraction(3 * span + Least(span, n - c.betaFrom), 10 * span)

\* select_objective_scale, times k^2
SelectScale(o, k) ==
  Max({1} \union {Size(HalfGamma * Sigma(i, i) - k * Mu[i]) : i \in Basket(o)}
          \union {2 * HalfGamma * Size(Sigma(e[1], e[2])) :
                    e \in {d \in Basket(o) \X Basket(o) : d[1] # d[2]}})

\* encode_select: one bit an asset, scaled by 2 k^2 times the denominator of beta's share
EncodeSelect(o, p) ==
  LET share == BetaShare(o.conf, o.n)
      vs    == Basket(o) \X {0}
  IN [q |-> Matrix([e \in vs \X vs |->
                      2 * share.d * HalfGamma * Sigma(e[1][1], e[2][1])
                      + (IF e[1] = e[2] THEN 0
                         ELSE share.n * SelectScale(o, p.k) * Rho[e[1][1]][e[2][1]])],
                   [v \in vs |-> -2 * share.d * p.k * Mu[v[1]]])]

Encode(o, p) == CASE o.mode = "convex"    -> EncodeConvex(o, p)
                  [] o.mode = "select"    -> EncodeSelect(o, p)
                  [] o.mode = "penalized" -> EncodePenalized(o, p)

\* to_xqmx: the terms as integers, scaled so that the largest sum of the terms that meet
\* in one variable is Precision, and rounded half to even.  The unit of q is no matter.
RoundedRatio(n, d) ==
  LET low == n \div d
      twice == 2 * (n - low * d)
  IN IF twice > d \/ (twice = d /\ low % 2 = 1) THEN low + 1 ELSE low

Terms(q) == [e \in DOMAIN q |-> IF e[1] = e[2] THEN q[e] ELSE q[e] + q[<<e[2], e[1]>>]]
Incident(q, v) == SumFunction([e \in {d \in DOMAIN q : d[1] = v} |-> Size(Terms(q)[e])])
ToXqmx(q) ==
  LET unit == FoldSet(Common, 0, {Size(Terms(q)[e]) : e \in DOMAIN q})
      peak == Max({Incident(q, e[1]) : e \in DOMAIN q}) \div unit
  IN [e \in DOMAIN q |-> RoundedRatio(Precision * (Terms(q)[e] \div unit), peak)]

VarCount(o, p) == CASE o.mode = "convex"    -> o.n * BitsForBasket(o.conf, o.n)
                    [] o.mode = "select"    -> o.n
                    [] o.mode = "penalized" -> o.n * (1 + IncrementBits(p.units))

-----------------------------------------------------------------------------
(* From a sample to weights.                                               *)

SetOf(i)  == {v \in sample : v[1] = i}
Places(i) == SumFunction([v \in SetOf(i) |-> qubo.place[v]])
Selected  == {i \in Assets : <<i, 0>> \in sample}

\* decode_bitstring with normalize: near the budget, the weights are scaled onto it.
DecodeConvex ==
  LET w     == [i \in Assets |-> qubo.base + Places(i)]
      total == SumFunction(w)
  IN [of |-> w, over |-> IF 10 * Size(total - qubo.over) <= qubo.over THEN total ELSE qubo.over]

\* _decode_penalized: increments of an asset that is not selected are ignored
DecodePenalized ==
  [of |-> [i \in Assets |-> IF i \in Selected THEN Places(i) ELSE 0], over |-> params.units]

\* _subset_value, scaled as the QUBO
SubsetValue(support) ==
  LET share == BetaShare(order.conf, N)
      pairs == {e \in support \X support : e[1] < e[2]}
  IN 2 * share.d * (HalfGamma * SumFunction([e \in support \X support |-> Sigma(e[1], e[2])])
                      - params.k * SumFunction([i \in support |-> Mu[i]]))
     + 2 * share.n * SelectScale(order, params.k)
         * SumFunction([e \in pairs |-> Rho[e[1]][e[2]]])

\* One round of greedy_project: the asset whose leaving, or coming, makes the best subset;
\* the first of them on a tie (min over small ints).
BestMove(support) ==
  LET moves == IF Cardinality(support) > params.k THEN support ELSE Assets \ support
      after == [i \in moves |-> IF Cardinality(support) > params.k THEN support \ {i}
                                ELSE support \union {i}]
  IN after[Min({i \in moves : \A j \in moves : SubsetValue(after[i]) <= SubsetValue(after[j])})]

GreedyProject ==
  LET project[support \in SUBSET Assets] ==
        IF Cardinality(support) = params.k THEN support ELSE project[BestMove(support)]
  IN project[{v[1] : v \in sample}]

Spread(support, w, over) == [of |-> [i \in Assets |-> IF i \in support THEN w[i] ELSE 0],
                             over |-> over]

InBox(w, over) ==
  /\ w * params.wMin.d >= params.wMin.n * over
  /\ w * params.wMax.d <= params.wMax.n * over

\* optimal_weights: SLSQP returns any point; one outside the box or off the budget is
\* replaced by equal weights.
OptimalWeights(support) ==
  LET k == Cardinality(support)
      kept(w) == SumFunction(w) = Parts /\ \A i \in support : InBox(w[i], Parts)
  IN {Spread(support, w, Parts) : w \in {t \in [support -> Tilts] : kept(t)}}
     \union {Spread(support, [i \in support |-> 1], k)}

\* check_feasibility, with its tolerances of 1/1000
Feasible(w) ==
  LET held == {i \in Assets : 1000 * w.of[i] > w.over}
      floored == IF order.mode = "convex" THEN Assets ELSE held
  IN /\ 1000 * Size(SumFunction(w.of) - w.over) <= w.over
     /\ \A i \in Assets :
          1000 * (w.of[i] * params.wMax.d - params.wMax.n * w.over) <= w.over * params.wMax.d
     /\ \A i \in floored :
          1000 * (params.wMin.n * w.over - w.of[i] * params.wMin.d) <= w.over * params.wMin.d
     /\ order.mode # "convex" => Cardinality(held) = params.k

-----------------------------------------------------------------------------

NotYet == [k |-> 0]

SolveInit ==
  /\ stage = "asked" /\ order \in Orders
  /\ params = NotYet /\ qubo = NotYet /\ sample = {} /\ weights = NotYet

Map ==
  /\ stage = "asked" /\ stage' = "mapped"
  /\ params' = MapSliders(order)
  /\ UNCHANGED <<order, qubo, sample, weights>>

EncodeQubo ==
  /\ stage = "mapped" /\ VarCount(order, params) <= MaxVars
  /\ stage' = "encoded"
  /\ qubo' = Encode(order, params)
  /\ UNCHANGED <<order, params, sample, weights>>

\* A sampler may return any assignment.
Sample ==
  /\ stage = "encoded" /\ stage' = "sampled"
  /\ \E vs \in SUBSET {e[1] : e \in DOMAIN qubo.q} : sample' = vs
  /\ UNCHANGED <<order, params, qubo, weights>>

Finish ==
  /\ stage = "sampled" /\ stage' = "finished"
  /\ \/ order.mode = "convex" /\ weights' = DecodeConvex
     \/ order.mode = "penalized" /\ weights' = DecodePenalized
     \/ order.mode = "select" /\ weights' \in OptimalWeights(GreedyProject)
  /\ UNCHANGED <<order, params, qubo, sample>>

SolveNext == Map \/ EncodeQubo \/ Sample \/ Finish
SolveSpec == SolveInit /\ [][SolveNext]_solveVars

-----------------------------------------------------------------------------
(* Properties.                                                             *)

\* In the integer encoding, held assets can share out the units: enough places for the
\* budget, and every increment up to the cap or half the grid.
GridReaches ==
  order.mode = "penalized" =>
    LET bits   == Increments(params)
        values == {SumFunctionOnSet(bits, ks) : ks \in SUBSET DOMAIN bits}
        top    == Least(MostIncrement(params), 2^IncrementBits(params.units) - 1)
    IN /\ values = 0..top
       /\ params.k <= params.units /\ params.k * (1 + top) >= params.units

\* Whatever the sliders, the basket and the mode, the problem they become can be solved:
\* the budget is within reach of the box and of the integer grid, and in the select
\* encoding every read, repaired and weighed, passes the router's gate (slider_map.py;
\* types.py: __post_init__; sampling.py: "every read yields a feasible portfolio").
AlwaysSolvable ==
  /\ stage # "asked" => ProblemHolds(order, params) /\ GridReaches
  /\ stage = "finished" /\ order.mode = "select" => Feasible(weights)

\* QuboMatrix.to_dict and a sampler: the energy of the sample
Energy ==
  SumFunction([v \in sample |-> qubo.q[<<v, v>>]])
  + SumFunction([e \in {d \in sample \X sample : d[1] # d[2]} |-> qubo.q[e]])

Amounts   == [i \in Assets |-> qubo.base + Places(i)]
Total     == SumFunction(Amounts)
Stray     == {v \in sample : ~Select(v) /\ v[1] \notin Selected}
Worth     == Square(qubo.top) * Objective(Amounts, qubo.over)
Floor     == Square(qubo.top) * Objective([i \in Assets |-> qubo.base], qubo.over)
OffBudget(amount) == PenaltyMult * qubo.peak * Square(amount - qubo.over)
Weight    == PenaltyMult * qubo.peak * Square(qubo.top)

\* The energy a sampler minimizes is, up to a constant, the objective of the weights the
\* sample stands for plus its penalties.
EnergyExplained ==
  CASE order.mode = "convex" ->
         Energy + Floor + OffBudget(N * qubo.base) = Worth + OffBudget(Total)
    [] order.mode = "select" -> Energy = SubsetValue(Selected)
    [] order.mode = "penalized" ->
         Energy + OffBudget(0) + Weight * Square(params.k)
           = Worth + OffBudget(Total) + Weight * Square(Cardinality(Selected) - params.k)
             + Weight * Cardinality(Stray)

\* The Quip codec takes spin biases up to 2.147483 times Precision: a field is half the
\* linear term and a quarter of the couplings of a variable.  Of a QUBO with terms, some
\* are left, and none grows past the codec.
Field(x, v) ==
  2 * x[<<v, v>>] + SumFunction([e \in {d \in DOMAIN x : d[1] = v /\ d[2] # v} |-> x[e]])
XqmxFits ==
  (\E e \in DOMAIN qubo.q : Terms(qubo.q)[e] # 0) =>
    LET x == ToXqmx(qubo.q)
    IN /\ \E e \in DOMAIN x : x[e] # 0
       /\ \A e \in DOMAIN x :
            1000 * Most(Size(Field(x, e[1])), Size(x[e])) <= 4 * 2147 * Precision

\* What the QUBO rewards is what the decoder and the gate then see: energies are the
\* objective plus penalties, and a sample without penalties decodes to a portfolio that
\* passes the gate, while one with penalties does not unless strays alone cause them
\* (qubo_encoder.py against qubo_decoder.py and feasibility.py).  As integers for Quip,
\* its coefficients stay within the codec's range (xquad_model.py).
EncodingExact ==
  /\ stage = "sampled" => EnergyExplained
  /\ stage = "encoded" => XqmxFits
  /\ stage = "finished" /\ order.mode = "penalized" =>
       (Feasible(weights) /\ Stray = {} <=>
        Total = params.units /\ Cardinality(Selected) = params.k /\ Stray = {})

\* With the integer encoding, the samples of least energy hold k assets, spend the budget
\* and set no increment of another asset (encode_penalized): twelve times the largest
\* coefficient outweighs what the objective of these baskets can gain by cheating.
EnergyOf(vs) == SumFunction([e \in vs \X vs |-> qubo.q[e]])
HasPenalty(vs) ==
  LET held == {v[1] : v \in {u \in vs : Select(u)}}
  IN \/ SumFunctionOnSet(qubo.place, vs) # params.units
     \/ Cardinality(held) # params.k
     \/ \E v \in vs : v[1] \notin held
OptimumFeasible ==
  stage = "encoded" /\ order.mode = "penalized" =>
    LET energy == [vs \in SUBSET DOMAIN qubo.place |-> EnergyOf(vs)]
        least  == Min({energy[vs] : vs \in DOMAIN energy})
    IN \A vs \in DOMAIN energy : energy[vs] = least => ~HasPenalty(vs)
=============================================================================
