---------------------------- MODULE MCPortfolio ----------------------------
(***************************************************************************)
(* Every basket size and hold count of the deployed configuration is       *)
(* mapped; QUBOs of three and four assets, on a grid of eight units or two *)
(* bits, are encoded and sampled in full.                                  *)
(***************************************************************************)
EXTENDS Portfolio

Deployed == [minUnits |-> 8, maxUnits |-> 32, gridVars |-> 72, bits |-> 4, bitsLarge |-> 2,
             bitVars |-> 60, betaFrom |-> 15, betaFull |-> 28]
Tiny     == [Deployed EXCEPT !.maxUnits = 8, !.bits = 2, !.betaFrom = 3, !.betaFull = 5]

Order(c, m, n, h, v) == [conf |-> c, mode |-> m, n |-> n, hold |-> h, cap |-> v]

\* Data of the universe of 28; only the first four are ever in a QUBO here.
MCMu   == [i \in 1..28 |-> IF i = 1 THEN 3 ELSE IF i = 2 THEN 1 ELSE 2]
MCSd   == [i \in 1..28 |-> IF i = 1 THEN 2 ELSE 1]
MCRho  == LET close == {{1, 2}, {2, 4}, {3, 4}}
          IN [i \in 1..28 |-> [j \in 1..28 |-> IF i = j \/ {i, j} \in close THEN 1
                                              ELSE IF {i, j} = {1, 3} THEN -1 ELSE 0]]
MCAll  == 0
MCOrders ==
  {Order(Deployed, m, n, h, v) :
     m \in Modes, n \in 15..28, h \in {MCAll} \union 3..29, v \in {0, 33, 50, 100}}
  \union {Order(Tiny, m, n, h, v) : m \in {"select", "penalized"}, n \in {3, 4},
                                    h \in {MCAll, 3}, v \in {0, 50, 100}}
  \union {Order(Tiny, "convex", 4, MCAll, v) : v \in {0, 25, 50}}
=============================================================================
