---------------------------- MODULE MCVisitors ----------------------------
(***************************************************************************)
(* Two spellings of one address and another address; the booth tablet and  *)
(* a phone behind one IP address.  Places come back within the horizon.    *)
(***************************************************************************)
EXTENDS Visitors, TLC

CONSTANTS i1, i2, i3

MCIds       == {i1, i2, i3}
MCCanonical == [a |-> "a", A |-> "a", b |-> "b"]
MCPeople    == {[address |-> "a", optIn |-> TRUE], [address |-> "A", optIn |-> FALSE],
                [address |-> "b", optIn |-> TRUE], [address |-> None, optIn |-> TRUE]}
MCSenders   == {[ip |-> "venue", trusted |-> TRUE], [ip |-> "venue", trusted |-> FALSE]}
Symmetry    == Permutations(MCIds)
=============================================================================
