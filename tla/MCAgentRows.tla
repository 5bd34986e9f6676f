---------------------------- MODULE MCAgentRows ----------------------------
(* AgentRows for TLC.                                                      *)
EXTENDS AgentRows, TLC

MCPatchBodies == {<<"sliders">>}
Symmetry == Permutations(FlagEdits)
=============================================================================
