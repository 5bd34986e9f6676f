----------------------------- MODULE AgentRows -----------------------------
(***************************************************************************)
(* One agent's record in memory (persistence/agents.py) and its row in SQL *)
(* (DbAgentStore of persistence/db.py), under everything that writes it:   *)
(* PATCH and the admin's flags on the event loop, solves and result        *)
(* e-mails on worker threads, and the scheduled rebalance loop.            *)
(*                                                                         *)
(* A write changes memory under the store's lock, then runs a SQL          *)
(* transaction outside it.  apply_solve and ensure_rebalance_schedule      *)
(* fill most of their statement from the live record, read in between.     *)
(*                                                                         *)
(* A column holds the operation that wrote it.  total, pl_usd and pl_pct   *)
(* are left out: the valuation tick moves them in memory and not in SQL,   *)
(* by design.  What the solve itself reads and decides is module Solves.   *)
(***************************************************************************)
EXTENDS Naturals, Sequences, FiniteSets

CONSTANTS
  Retunes,       \* POST optimize requests
  Passes,        \* what the rebalance loop does with this agent when it comes by
  Patches,       \* PATCHes of the sliders, the basket or both
  PatchBodies,   \* what their bodies hold, in the order update_agent writes it
  FlagEdits,     \* PATCHes of the admin's flags
  OffSliders,    \* the operations whose sliders turn scheduled rebalances off
  None,          \* an empty column
  Old,           \* written by an earlier process
  MaxDbFailures, \* bound: SQL transactions that raise
  MaxRestarts    \* bound: process deaths

Writers == Retunes \union Passes \union Patches \union FlagEdits

ASSUME WritersAssumption ==
  /\ IsFiniteSet(Writers)
  /\ {None, Old} \intersect Writers = {} /\ None # Old
  /\ Retunes \intersect (Passes \union Patches \union FlagEdits) = {}
  /\ Passes \intersect (Patches \union FlagEdits) = {} /\ Patches \intersect FlagEdits = {}
ASSUME BodiesAssumption ==
  PatchBodies \subseteq {<<"sliders">>, <<"assets">>, <<"sliders", "assets">>}
ASSUME BoundsAssumption == MaxDbFailures \in Nat /\ MaxRestarts \in Nat

VARIABLES
  mem,         \* the AgentRecord
  sql,         \* its row, and its rows in agent_holdings
  todo,        \* todo[o]: the writes operation o has yet to complete
  stage,       \* stage[o]: where o is in the first of them
  statement,   \* statement[o]: the values its SQL statement was built with
  rebalancer,  \* whether the task of run_scheduled_rebalance_loop is alive
  alone,       \* alone[o]: no other write of its columns overlapped this one (history)
  skewed,      \* columns whose last write overlapped another or raised (history)
  mayHold,     \* flags that SQL may hold: answered last, or raised since (history)
  dbFailures, restarts

stores  == <<mem, sql>>
history == <<alone, skewed, mayHold>>
bounds  == <<dbFailures, restarts>>
vars == <<stores, todo, stage, statement, rebalancer, history, bounds>>

Values == Writers \union {None, Old}
Flags  == [hidden : BOOLEAN, disabled : BOOLEAN]
Shown  == [hidden |-> FALSE, disabled |-> FALSE]
\* holdings is holdings_units, figures stands for jobs_solved and
\* primary_provider, solved for last_solved_at and rebalance_interval_hours,
\* next for next_rebalance_at, stamp for last_update_email_at.
Row == [sliders : Values, assets : Values, holdings : Values, figures : Values,
        solved : Values, next : Values, stamp : Values, flags : Flags]
Fields == {"sliders", "assets", "holdings", "figures", "solved", "next", "stamp", "flags"}

-----------------------------------------------------------------------------
(* The writes of the store.                                                *)

ColumnsWithoutSchedule(k) ==  \* mutant: apply_solve does not store the schedule
  CASE k = "solve" -> {"holdings", "figures"}
    [] k = "ensure" -> {"solved", "next"}
    [] k = "defer" -> {"next"}
    [] OTHER -> {k}

\* What each write's SQL statement sets.
Columns(k) ==
  CASE k = "solve" -> {"holdings", "figures", "solved", "next"}
    [] k = "ensure" -> {"solved", "next"}
    [] k = "defer" -> {"next"}
    [] OTHER -> {k}

\* These two take their values from the live record, when the statement is built.
ReadsLive(k) == k \in {"solve", "ensure"}

\* _next_rebalance_at: none when the record's sliders say Off.
Due(o) == IF mem.sliders \in OffSliders THEN None ELSE o

\* The record after the memory half of write k of o.
Remembered(o, k) ==
  CASE k = "sliders" -> [mem EXCEPT !.sliders = o]
    [] k = "assets"  -> [mem EXCEPT !.assets = o]
    [] k = "solve"   -> [mem EXCEPT !.holdings = o, !.figures = o, !.solved = o,
                                    !.next = Due(o)]
    [] k = "ensure"  -> IF mem.holdings = None \/ mem.next # None THEN mem
                        ELSE [mem EXCEPT !.solved = o, !.next = Due(o)]
    [] k = "defer"   -> [mem EXCEPT !.next = o]
    [] k = "stamp"   -> [mem EXCEPT !.stamp = o]

MergedAsGiven(old, body) ==  \* mutant: un-hiding an agent leaves it disabled
  [hidden   |-> IF body.hidden = None THEN old.hidden ELSE body.hidden,
   disabled |-> IF body.disabled = None THEN old.disabled ELSE body.disabled]

\* patch_agent: what is not in the body stays, and un-hiding clears disabled.
Merged(old, body) ==
  LET hidden == IF body.hidden = None THEN old.hidden ELSE body.hidden
      disabled == IF body.disabled = None THEN old.disabled ELSE body.disabled
  IN  [hidden |-> hidden, disabled |-> hidden /\ disabled]

Bodies == [hidden : BOOLEAN \union {None}, disabled : BOOLEAN \union {None}]
Rejected(old, body) ==
  body.disabled = TRUE /\ ~(IF body.hidden = None THEN old.hidden ELSE body.hidden)

Blank == [f \in Fields |-> None]
Only(k, row) == [f \in Fields |-> IF f \in Columns(k) THEN row[f] ELSE None]

-----------------------------------------------------------------------------
(* Where operations are.                                                   *)

Running(o)  == stage[o] \notin {"idle", "ended"}
Kind(o)     == Head(todo[o])
InFlight(o) == stage[o] \in {"remembered", "executing"}
Writing(o, c) == InFlight(o) /\ c \in Columns(Kind(o))
Overlap(o, k) == \E c \in Columns(k) : \E p \in Writers \ {o} : Writing(p, c)

\* Handlers run on the loop from their first statement to their answer; the
\* rebalance loop runs ensure and defer on it.
OnLoop(o) ==
  \/ o \in Patches \union FlagEdits /\ Running(o)
  \/ o \in Passes /\ Running(o) /\ (Kind(o) = "ensure" \/ (Kind(o) = "defer" /\ InFlight(o)))
LoopFree == \A o \in Writers : ~OnLoop(o)
NeedsLoop(o) == o \in Passes /\ Kind(o) = "defer"

Init ==
  \* A new agent, or one that an earlier process left with a portfolio: without
  \* schedule, from a table older than those columns, or with one.
  /\ \E holdings \in {None, Old} : \E solved \in {None, holdings} :
       mem = [sliders |-> None, assets |-> None, holdings |-> holdings,
              figures |-> holdings, solved |-> solved, next |-> solved,
              stamp |-> None, flags |-> Shown]
  /\ sql = mem
  /\ todo = [o \in Writers |-> <<>>]
  /\ stage = [o \in Writers |-> "idle"]
  /\ statement = [o \in Writers |-> Blank]
  /\ rebalancer = "alive"
  /\ alone = [o \in Writers |-> FALSE] /\ skewed = {} /\ mayHold = {Shown}
  /\ dbFailures = 0 /\ restarts = 0

Begin(o, plans) ==
  /\ stage[o] = "idle"
  /\ stage' = [stage EXCEPT ![o] = "ready"]
  /\ \E plan \in plans : todo' = [todo EXCEPT ![o] = plan]
  /\ UNCHANGED <<stores, statement, rebalancer, history, bounds>>

\* optimize, of an agent that is not disabled, from the moment its race is won:
\* the body's sliders and basket, the solve, and then maybe a result e-mail.
BeginRetune(o) ==
  /\ o \in Retunes /\ LoopFree /\ ~mem.flags.disabled
  /\ Begin(o, {<<"sliders", "assets", "solve">>, <<"solve", "stamp">>})

BeginPatch(o) ==
  /\ o \in Patches /\ LoopFree
  /\ Begin(o, PatchBodies)

\* The rebalance loop comes by an enabled agent that holds a portfolio: it
\* starts a missing schedule, or, when due, solves, or is refused by the QPU
\* budget and defers.
BeginPass(o) ==
  /\ o \in Passes /\ rebalancer = "alive" /\ LoopFree
  /\ \A p \in Passes : ~Running(p)
  /\ ~mem.flags.disabled /\ mem.holdings # None
  /\ \/ /\ mem.next = None
        /\ mem.sliders \in OffSliders => mem.solved = None
        /\ Begin(o, {<<"ensure">>})
     \/ /\ mem.next # None
        /\ Begin(o, {<<"solve">>, <<"solve", "stamp">>, <<"defer">>})

-----------------------------------------------------------------------------
(* One write: memory, the statement, the transaction.                      *)

MarkOverlap(o, k) ==
  alone' = [p \in Writers |-> IF p = o THEN ~Overlap(o, k)
                              ELSE alone[p] /\ \A c \in Columns(k) : ~Writing(p, c)]

Remember(o) ==
  /\ stage[o] = "ready" /\ o \notin FlagEdits
  /\ NeedsLoop(o) => LoopFree
  /\ mem' = Remembered(o, Kind(o))
  /\ MarkOverlap(o, Kind(o))
  /\ IF ReadsLive(Kind(o))
       THEN stage' = [stage EXCEPT ![o] = "remembered"] /\ UNCHANGED statement
       ELSE /\ stage' = [stage EXCEPT ![o] = "executing"]
            /\ statement' = [statement EXCEPT ![o] = Only(Kind(o), mem')]
  /\ UNCHANGED <<sql, todo, rebalancer, skewed, mayHold, bounds>>

\* The values of an UPDATE are taken from the live record, the holdings' rows
\* from the solve's own argument.
BuildStatement(o) ==
  /\ stage[o] = "remembered"
  /\ stage' = [stage EXCEPT ![o] = "executing"]
  /\ statement' = [statement EXCEPT ![o] =
       Only(Kind(o), IF Kind(o) = "solve" THEN [mem EXCEPT !.holdings = o] ELSE mem)]
  /\ UNCHANGED <<stores, todo, rebalancer, history, bounds>>

SetFlagsWhenChanged(o) ==  \* mutant: a patch that changes nothing in memory is not stored
  /\ o \in FlagEdits /\ stage[o] = "idle" /\ LoopFree
  /\ \E body \in Bodies :
       /\ ~Rejected(mem.flags, body)
       /\ mem' = [mem EXCEPT !.flags = Merged(mem.flags, body)]
  /\ IF mem'.flags = mem.flags
       THEN /\ stage' = [stage EXCEPT ![o] = "ended"]
            /\ mayHold' = {mem.flags}
            /\ UNCHANGED <<todo, statement, alone>>
       ELSE /\ todo' = [todo EXCEPT ![o] = <<"flags">>]
            /\ stage' = [stage EXCEPT ![o] = "executing"]
            /\ statement' = [statement EXCEPT ![o] = Only("flags", mem')]
            /\ MarkOverlap(o, "flags")
            /\ UNCHANGED mayHold
  /\ UNCHANGED <<sql, rebalancer, skewed, bounds>>

\* patch_agent up to the transaction of set_flags; a rejected body (a 400)
\* changes nothing.
SetFlags(o) ==
  /\ o \in FlagEdits /\ stage[o] = "idle" /\ LoopFree
  /\ \E body \in Bodies :
       /\ ~Rejected(mem.flags, body)
       /\ mem' = [mem EXCEPT !.flags = Merged(mem.flags, body)]
  /\ todo' = [todo EXCEPT ![o] = <<"flags">>]
  /\ stage' = [stage EXCEPT ![o] = "executing"]
  /\ statement' = [statement EXCEPT ![o] = Only("flags", mem')]
  /\ MarkOverlap(o, "flags")
  /\ UNCHANGED <<sql, rebalancer, skewed, mayHold, bounds>>

\* Each write is one transaction: apply_solve replaces the holdings' rows in the
\* transaction that updates the agent.
Land(o) ==
  sql' = [f \in Fields |-> IF f \in Columns(Kind(o)) THEN statement[o][f] ELSE sql[f]]

UndoneButHoldings(o) ==  \* mutant: the holdings' rows have a transaction of their own
  sql' = [sql EXCEPT !.holdings = IF Kind(o) = "solve" THEN o ELSE @]
Undone(o) == UNCHANGED sql

\* The handler or thread goes on to its next write, or answers.
Commit(o) ==
  /\ stage[o] = "executing" /\ Land(o)
  /\ todo' = [todo EXCEPT ![o] = Tail(@)]
  /\ stage' = [stage EXCEPT ![o] = IF Len(todo[o]) = 1 THEN "ended" ELSE "ready"]
  /\ statement' = [statement EXCEPT ![o] = Blank]
  /\ alone' = [alone EXCEPT ![o] = FALSE]
  /\ skewed' = IF alone[o] THEN skewed \ Columns(Kind(o)) ELSE skewed \union Columns(Kind(o))
  /\ mayHold' = IF o \in FlagEdits THEN {statement[o].flags} ELSE mayHold
  /\ UNCHANGED <<mem, rebalancer, bounds>>

\* The transaction raises: rolled back, or committed with its answer lost.  A
\* request answers 500, and a result e-mail's sender logs it.  The rebalance loop
\* logs a solve that raised, but its own ensure and defer stand in no try block,
\* and end its task.
Raise(o) ==
  /\ stage[o] = "executing"
  /\ dbFailures < MaxDbFailures /\ dbFailures' = dbFailures + 1
  /\ Land(o) \/ Undone(o)
  /\ todo' = [todo EXCEPT ![o] = <<>>]
  /\ stage' = [stage EXCEPT ![o] = "ended"]
  /\ statement' = [statement EXCEPT ![o] = Blank]
  /\ rebalancer' = IF Kind(o) \in {"ensure", "defer"} THEN "dead" ELSE rebalancer
  /\ alone' = [alone EXCEPT ![o] = FALSE]
  /\ skewed' = skewed \union Columns(Kind(o))
  /\ mayHold' = IF o \in FlagEdits THEN mayHold \union {statement[o].flags} ELSE mayHold
  /\ UNCHANGED <<mem, restarts>>

LoadedWithoutFlags == [sql EXCEPT !.flags = None]  \* mutant: a column _load forgets
Loaded == sql

\* The process dies with what it was doing, and the next one loads the row.
Restart ==
  /\ restarts < MaxRestarts /\ restarts' = restarts + 1
  /\ mem' = Loaded
  /\ todo' = [o \in Writers |-> <<>>]
  /\ stage' = [o \in Writers |-> IF Running(o) THEN "ended" ELSE stage[o]]
  /\ statement' = [o \in Writers |-> Blank]
  /\ rebalancer' = "alive"
  /\ alone' = [o \in Writers |-> FALSE] /\ skewed' = {}
  /\ UNCHANGED <<sql, mayHold, dbFailures>>

Rest == (\A o \in Writers : ~Running(o)) /\ UNCHANGED vars

Step(o) ==
  \/ BeginRetune(o) \/ BeginPatch(o) \/ BeginPass(o) \/ SetFlags(o)
  \/ Remember(o) \/ BuildStatement(o) \/ Commit(o) \/ Raise(o)
Next == (\E o \in Writers : Step(o)) \/ Restart \/ Rest

Spec == Init /\ [][Next]_vars

-----------------------------------------------------------------------------
(* Properties.                                                             *)

Plans == {<<>>, <<"sliders", "assets", "solve">>, <<"assets", "solve">>, <<"solve">>,
          <<"solve", "stamp">>, <<"stamp">>, <<"sliders">>, <<"assets">>,
          <<"sliders", "assets">>, <<"ensure">>, <<"defer">>, <<"flags">>}

\* Types: the record, the row and every statement hold values of their columns,
\* and every operation is at a stage of a plan of the code.
TypeOK ==
  /\ mem \in Row /\ sql \in Row
  /\ todo \in [Writers -> Plans]
  /\ stage \in [Writers -> {"idle", "ready", "remembered", "executing", "ended"}]
  /\ statement \in [Writers -> [Fields -> Values \union Flags]]
  /\ rebalancer \in {"alive", "dead"}
  /\ alone \in [Writers -> BOOLEAN] /\ skewed \subseteq Fields /\ mayHold \subseteq Flags
  /\ dbFailures \in 0..MaxDbFailures /\ restarts \in 0..MaxRestarts

\* A column that nobody is writing is the same in memory and in SQL, unless
\* writes of it overlapped or raised and no undisturbed write of it has completed
\* since: one write that runs alone brings the two stores together again, whatever
\* went wrong before and whatever other columns are being written (the write-through
\* of DbAgentStore).
InStep ==
  \A f \in Fields : f \notin skewed /\ (\A o \in Writers : ~Writing(o, f)) => sql[f] = mem[f]

\* What an admin was last told holds in SQL, and so after any crash, until a later
\* flag change is stored or raises (set_flags behind PATCH /admin/agents).
FlagsStand == sql.flags \in mayHold

\* build_leaderboard shows every record in memory that is not hidden, whatever its
\* disabled flag.
OnBoard(row) == ~row.flags.hidden

\* No disabled agent is on the leaderboard, nor on that of a process that starts from
\* SQL now, also when the flags merged with a request's come from a change that SQL
\* never took (api/admin.py).
DisabledIsHidden == \A row \in {mem, sql} : row.flags.disabled => ~OnBoard(row)

\* A portfolio in SQL has its solve time with it: whenever the process dies, the next
\* one finds no portfolio that apply_solve half stored.
PortfolioIsDated == sql.holdings \notin {None, Old} => sql.solved # None

-----------------------------------------------------------------------------
\* "DB write-through store with the in-memory dict retained" (db.py), "apply solve"
\* among its writes (BACKEND_DAG.md): without a failure, and with nothing under way,
\* SQL has the portfolio that memory has.
SolvesWriteThrough ==
  dbFailures = 0 /\ (\A o \in Writers : ~Running(o))
    => sql.holdings = mem.holdings /\ sql.figures = mem.figures
=============================================================================
