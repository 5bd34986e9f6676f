---------------------------- MODULE MCQuipOrders ----------------------------
(***************************************************************************)
(* Orders of four solves compete for two slots, so that orders are refused *)
(* and queued, through two deaths or redeploys of the process and one      *)
(* failed transaction.  The liveness run needs fewer jobs: a single slot   *)
(* and two solves already refuse, queue, drop and lose orders.             *)
(* Jobs are interchangeable, so the safety run uses symmetry; the liveness *)
(* run, where that is unsound, does not.                                   *)
(***************************************************************************)
EXTENDS QuipOrders, TLC

CONSTANTS j1, j2, j3, j4

FourJobs == {j1, j2, j3, j4}
TwoJobs  == {j1, j2}
Symmetry == Permutations(FourJobs)
=============================================================================
