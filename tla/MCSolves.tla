------------------------------ MODULE MCSolves ------------------------------
(***************************************************************************)
(* Two requests of the player and one scheduled rebalance of one agent.    *)
(* Two baskets with nothing in common are enough for a portfolio to leave  *)
(* the prices another solve asked for.  Who announces a new agent does not *)
(* depend on the basket: its run has one.                                  *)
(***************************************************************************)
EXTENDS Solves, TLC

CONSTANTS m1, m2, s1, x, y

MCManual    == {m1, m2}
MCScheduled == {s1}
MCTickers   == {x, y}
MCBaskets   == {{x}, {y}}
OneBasket   == {{x}}
Symmetry    == Permutations(MCManual) \union Permutations(MCTickers)
=============================================================================
