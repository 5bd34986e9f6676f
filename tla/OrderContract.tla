--------------------------- MODULE OrderContract ---------------------------
(***************************************************************************)
(* What the Quip order queue promises about one solver-result row of a job *)
(* snapshot, whatever threads, database failures and restarts lie behind   *)
(* it:                                                                     *)
(*   - a row is opened once, as pending, when the solve is recorded;       *)
(*   - it settles once, and a settled row never changes again;             *)
(*   - the player is told only a result that is already durable, so what   *)
(*     was pushed to the phone is what every later reload shows.           *)
(* QuipOrders implements it with row <- rowDb, the rows in SQL.            *)
(***************************************************************************)
CONSTANTS Jobs, Settled

VARIABLES row,    \* row[j]: the durable status of job j's Quip row
          told    \* told[j]: the status last pushed to the agent's open pages

contractVars == <<row, told>>

Init ==
  /\ row  = [j \in Jobs |-> "none"]
  /\ told = [j \in Jobs |-> "none"]

Open(j) ==
  /\ row[j] = "none"
  /\ row' = [row EXCEPT ![j] = "pending"]
  /\ UNCHANGED told

\* Startup settles every row a dead process left pending in one transaction,
\* so one step may settle several rows.
Settle ==
  /\ row' \in [Jobs -> {"none", "pending"} \union Settled]
  /\ \A j \in Jobs :
       row'[j] # row[j] => row[j] = "pending" /\ row'[j] \in Settled
  /\ UNCHANGED told

Tell(j) ==
  /\ row[j] \in Settled
  /\ told' = [told EXCEPT ![j] = row[j]]
  /\ UNCHANGED row

Next == Settle \/ \E j \in Jobs : Open(j) \/ Tell(j)

Spec == Init /\ [][Next]_contractVars
=============================================================================
