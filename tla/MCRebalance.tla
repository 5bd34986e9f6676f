---------------------------- MODULE MCRebalance ----------------------------
(* Rebalance for TLC.                                                      *)
EXTENDS Rebalance

CONSTANTS a1, a2
MCRoster == <<a1, a2>>
MCSlots == {Off, 2}

Hydrated == {p \in Profiles : p.slider # Off /\ p.holds}
Quiet    == {p \in Profiles : p.slider = Off /\ (p.due # None \/ ~p.holds)}
MCFound  == [a \in Agents |-> IF a = a1 THEN Hydrated ELSE Quiet]
=============================================================================
