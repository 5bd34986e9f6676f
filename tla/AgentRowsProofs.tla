-------------------------- MODULE AgentRowsProofs --------------------------
(***************************************************************************)
(* The write-through of one agent, for any operations, any sliders that    *)
(* mean Off and any number of SQL failures and process deaths.             *)
(***************************************************************************)
EXTENDS AgentRows, SequenceTheorems, TLAPS

Stages == {"idle", "ready", "remembered", "executing", "ended"}
\* The writes that may follow another in an operation, and those that stand alone.
Later == {"sliders", "assets", "solve", "stamp"}
Kinds == Later \union {"ensure", "defer", "flags"}
Cells == [Fields -> Values \union Flags]

\* Where operations are: a flag edit and the loop's own writes are single writes, and
\* the loop is with this agent once at a time.
InPlace(o) ==
  Running(o) =>
    /\ todo[o] # <<>> /\ \A i \in 2..Len(todo[o]) : todo[o][i] \in Later
    /\ IF o \in FlagEdits THEN todo[o] = <<"flags">> ELSE Kind(o) # "flags"
    /\ Kind(o) \in {"ensure", "defer"} => o \in Passes
    /\ stage[o] = "remembered" => ReadsLive(Kind(o))
Placed ==
  /\ stage \in [Writers -> Stages] /\ todo \in [Writers -> Seq(Kinds)]
  /\ \A o \in Writers : InPlace(o)
  /\ \A p, q \in Passes : Running(p) /\ Running(q) => p = q

\* The record, the row and the statements have their columns.
Stored == mem \in Cells /\ sql \in Cells /\ statement \in [Writers -> Cells]

\* What an undisturbed write is about to store is what memory holds.
Built ==
  \A o \in Writers : alone[o] =>
    /\ stage[o] = "executing" => \A c \in Columns(Kind(o)) : statement[o][c] = mem[c]
    /\ stage[o] = "remembered" /\ Kind(o) = "solve" => mem.holdings = o

\* Every combination of flags that is held, stored or on its way is one the admin
\* endpoint allows.
Allowed(f) == f \in Flags /\ (f.disabled => f.hidden)
Flagged ==
  /\ Allowed(mem.flags) /\ Allowed(sql.flags) /\ sql.flags \in mayHold
  /\ \A o \in FlagEdits : stage[o] = "executing" => Allowed(statement[o].flags)

\* A portfolio being stored has its solve time, which the loop's schedule keeps: a
\* schedule that is started where there was none gets one.
Dated ==
  /\ sql.holdings \notin {None, Old} => sql.solved # None
  /\ \A o \in Writers :
       /\ stage[o] = "ready" /\ Kind(o) = "ensure"
            => mem.holdings # None /\ (mem.next # None => mem.solved # None)
       /\ stage[o] = "remembered" => mem.solved # None
       /\ stage[o] = "executing" /\ Kind(o) \in {"solve", "ensure"}
            => statement[o].solved # None

IInv == Placed /\ Stored /\ Built /\ InStep /\ Flagged /\ Dated

-----------------------------------------------------------------------------
(* The operators of the model.                                             *)

\* Every write sets columns that exist, and only set_flags the flags.
LEMMA ColumnsFact ==
  ASSUME NEW k \in Kinds
  PROVE  /\ Columns(k) \subseteq Fields
         /\ ("flags" \in Columns(k) <=> k = "flags")
         /\ ("solved" \in Columns(k) <=> k \in {"solve", "ensure"})
         /\ ("holdings" \in Columns(k) <=> k = "solve")
BY DEF Kinds, Later, Columns, Fields

\* The memory half of a write touches its columns only, and gives up neither a
\* portfolio nor its time.
LEMMA RememberedFact ==
  ASSUME mem \in Cells, NEW o \in Writers, NEW k \in Kinds \ {"flags"}
  PROVE  /\ Remembered(o, k) \in Cells
         /\ \A f \in Fields \ Columns(k) : Remembered(o, k)[f] = mem[f]
         /\ mem.solved # None => Remembered(o, k).solved # None
         /\ mem.holdings # None => Remembered(o, k).holdings # None
         /\ k = "solve" => /\ Remembered(o, k).holdings = o
                           /\ Remembered(o, k).solved # None
         /\ k = "ensure" => /\ Remembered(o, k).solved \in {mem.solved, o}
                            /\ mem.holdings # None /\ mem.next = None
                                 => Remembered(o, k).solved # None
         /\ k \notin {"ensure", "defer", "solve"} => Remembered(o, k).next = mem.next
<1>1. o # None /\ o \in Values /\ Due(o) \in Values
  BY WritersAssumption DEF Due, Values
<1>2. CASE k = "sliders"
  BY <1>1, <1>2 DEF Remembered, Cells, Fields, Columns
<1>3. CASE k = "assets"
  BY <1>1, <1>3 DEF Remembered, Cells, Fields, Columns
<1>4. CASE k = "solve"
  BY <1>1, <1>4 DEF Remembered, Cells, Fields, Columns
<1>5. CASE k = "ensure"
  BY <1>1, <1>5 DEF Remembered, Cells, Fields, Columns
<1>6. CASE k = "defer"
  BY <1>1, <1>6 DEF Remembered, Cells, Fields, Columns
<1>7. CASE k = "stamp"
  BY <1>1, <1>7 DEF Remembered, Cells, Fields, Columns
<1> QED BY <1>2, <1>3, <1>4, <1>5, <1>6, <1>7 DEF Kinds, Later

\* A statement holds the columns it was built from.
LEMMA OnlyFact ==
  ASSUME NEW row \in Cells, NEW k
  PROVE  Only(k, row) \in Cells /\ \A c \in Columns(k) \intersect Fields : Only(k, row)[c] = row[c]
BY DEF Only, Cells, Values

LEMMA BlankFact == Blank \in Cells
BY DEF Blank, Cells, Values

\* patch_agent never leaves a disabled agent visible.
LEMMA MergedFact ==
  ASSUME NEW old \in Flags, NEW body \in Bodies
  PROVE  Allowed(Merged(old, body))
BY WritersAssumption DEF Merged, Allowed, Flags, Bodies

\* What is left of a sequence after its first element.
LEMMA TailFact ==
  ASSUME NEW S, NEW s \in Seq(S), s # <<>>, Len(s) # 1
  PROVE  /\ Tail(s) \in Seq(S) /\ Tail(s) # <<>>
         /\ Head(Tail(s)) = s[2] /\ 2 \in 2..Len(s)
         /\ \A i \in 2..Len(Tail(s)) : Tail(s)[i] = s[i + 1] /\ i + 1 \in 2..Len(s)
<1>0. Len(s) \in Nat \ {0}
  BY EmptySeq
<1>1. Len(s) \in Nat /\ Len(s) >= 2
  <2>1. \A n \in Nat \ {0} : n # 1 => n \in Nat /\ n >= 2
    OBVIOUS
  <2> QED BY <1>0, <2>1
<1>2. Tail(s) \in Seq(S) /\ Len(Tail(s)) = Len(s) - 1
  BY <1>1
<1>3. \A i \in 1..Len(Tail(s)) : Tail(s)[i] = s[i + 1]
  BY <1>1, <1>2
<1>4. Tail(s) # <<>> /\ Head(Tail(s)) = Tail(s)[1]
  BY <1>1, <1>2
<1>5. Head(Tail(s)) = s[2]
  BY <1>1, <1>2, <1>3, <1>4
<1>6. \A i \in 2..Len(Tail(s)) : i \in 1..Len(Tail(s)) /\ i + 1 \in 2..Len(s)
  BY <1>1, <1>2
<1> QED BY <1>1, <1>2, <1>3, <1>4, <1>5, <1>6

\* The first write of an operation is of a kind.
LEMMA KindFact ==
  ASSUME Placed, NEW o \in Writers, Running(o)
  PROVE  Kind(o) \in Kinds /\ todo[o] \in Seq(Kinds) /\ todo[o] # <<>>
BY DEF Placed, InPlace, Kind

-----------------------------------------------------------------------------
\* The invariant holds at the start.
LEMMA InitIInv == Init => IInv
<1> SUFFICES ASSUME Init PROVE IInv
  OBVIOUS
<1>1. Placed
  <2>1. stage \in [Writers -> Stages] /\ \A o \in Writers : ~Running(o)
    BY DEF Init, Stages, Running
  <2>2. todo \in [Writers -> Seq(Kinds)]
    BY DEF Init
  <2> QED BY <2>1, <2>2 DEF Placed, InPlace, Writers
<1>2. Stored
  <2>1. PICK holdings \in {None, Old}, solved \in {None, Old} :
          mem = [sliders |-> None, assets |-> None, holdings |-> holdings,
                 figures |-> holdings, solved |-> solved, next |-> solved,
                 stamp |-> None, flags |-> Shown]
    BY DEF Init
  <2>2. Shown \in Flags /\ None \in Values /\ Old \in Values
    BY DEF Shown, Flags, Values
  <2>3. mem \in Cells
    BY <2>1, <2>2 DEF Cells, Fields
  <2> QED BY <2>3, BlankFact DEF Init, Stored
<1>3. Built
  BY DEF Init, Built
<1>4. InStep
  BY DEF Init, InStep
<1>5. Flagged
  BY WritersAssumption DEF Init, Flagged, Allowed, Flags, Shown, Writers
<1>6. Dated
  BY DEF Init, Dated
<1> QED BY <1>1, <1>2, <1>3, <1>4, <1>5, <1>6 DEF IInv

-----------------------------------------------------------------------------
(* Where operations are.                                                   *)

\* An operation begins with a plan of the code.
LEMMA BeginPlaced ==
  ASSUME Placed, NEW o \in Writers, BeginRetune(o) \/ BeginPatch(o) \/ BeginPass(o)
  PROVE  Placed'
<1>1. PICK plan : /\ stage[o] = "idle" /\ stage' = [stage EXCEPT ![o] = "ready"]
                  /\ todo' = [todo EXCEPT ![o] = plan]
                  /\ plan \in {<<"sliders", "assets", "solve">>, <<"solve", "stamp">>,
                               <<"solve">>, <<"sliders">>, <<"assets">>,
                               <<"sliders", "assets">>, <<"ensure">>, <<"defer">>}
                  /\ plan \in {<<"ensure">>, <<"defer">>} => o \in Passes
                  /\ o \notin FlagEdits
                  /\ o \in Passes => \A p \in Passes : ~Running(p)
  <2>1. CASE BeginRetune(o)
    BY <2>1, WritersAssumption DEF BeginRetune, Begin
  <2>2. CASE BeginPatch(o)
    BY <2>2, WritersAssumption, BodiesAssumption DEF BeginPatch, Begin
  <2>3. CASE BeginPass(o)
    BY <2>3, WritersAssumption DEF BeginPass, Begin
  <2> QED BY <2>1, <2>2, <2>3
<1>2. /\ plan \in Seq(Kinds) /\ plan # <<>> /\ Head(plan) # "flags"
      /\ \A i \in 2..Len(plan) : plan[i] \in Later
      /\ Head(plan) \in {"ensure", "defer"} => o \in Passes
  <2>1. CASE plan = <<"sliders", "assets", "solve">>
    BY <1>1, <2>1 DEF Kinds, Later
  <2>2. CASE plan = <<"solve", "stamp">>
    BY <1>1, <2>2 DEF Kinds, Later
  <2>3. CASE plan = <<"sliders", "assets">>
    BY <1>1, <2>3 DEF Kinds, Later
  <2>4. CASE plan = <<"solve">>
    BY <1>1, <2>4 DEF Kinds, Later
  <2>5. CASE plan = <<"sliders">>
    BY <1>1, <2>5 DEF Kinds, Later
  <2>6. CASE plan = <<"assets">>
    BY <1>1, <2>6 DEF Kinds, Later
  <2>7. CASE plan = <<"ensure">>
    BY <1>1, <2>7 DEF Kinds, Later
  <2>8. CASE plan = <<"defer">>
    BY <1>1, <2>8 DEF Kinds, Later
  <2> QED BY <1>1, <2>1, <2>2, <2>3, <2>4, <2>5, <2>6, <2>7, <2>8
<1>3. /\ stage' \in [Writers -> Stages] /\ todo' \in [Writers -> Seq(Kinds)]
      /\ stage'[o] = "ready" /\ todo'[o] = plan
      /\ \A p \in Writers \ {o} : stage'[p] = stage[p] /\ todo'[p] = todo[p]
  BY <1>1, <1>2 DEF Placed, Stages
<1>4. \A p, q \in Passes : Running(p)' /\ Running(q)' => p = q
  BY <1>1, <1>3 DEF Running, Placed, Writers
<1>5. InPlace(o)'
  BY <1>1, <1>2, <1>3 DEF InPlace, Kind
<1>6. \A p \in Writers \ {o} : InPlace(p)'
  BY <1>3 DEF Placed, InPlace, Running, Kind
<1> QED BY <1>3, <1>4, <1>5, <1>6 DEF Placed

\* A write goes from stage to stage, and a flag edit begins with it.
LEMMA WritePlaced ==
  ASSUME Placed, NEW o \in Writers,
         \/ SetFlags(o)
         \/ Remember(o) \/ BuildStatement(o)
  PROVE  Placed'
<1>1. CASE SetFlags(o)
  <2>1. o \in FlagEdits /\ o \notin Passes
    BY <1>1, WritersAssumption DEF SetFlags
  <2>2. /\ stage' = [stage EXCEPT ![o] = "executing"]
        /\ todo' = [todo EXCEPT ![o] = <<"flags">>]
    BY <1>1 DEF SetFlags
  <2>3. /\ stage' \in [Writers -> Stages] /\ todo' \in [Writers -> Seq(Kinds)]
        /\ stage'[o] = "executing" /\ todo'[o] = <<"flags">>
        /\ \A p \in Writers \ {o} : stage'[p] = stage[p] /\ todo'[p] = todo[p]
    BY <2>2 DEF Placed, Stages, Kinds
  <2>4. \A p, q \in Passes : Running(p)' /\ Running(q)' => p = q
    BY <2>1, <2>3 DEF Running, Placed, Writers
  <2>5. InPlace(o)'
    BY <2>1, <2>3 DEF InPlace, Kind
  <2>6. \A p \in Writers \ {o} : InPlace(p)'
    BY <2>3 DEF Placed, InPlace, Running, Kind
  <2> QED BY <2>3, <2>4, <2>5, <2>6 DEF Placed
<1>2. CASE Remember(o) \/ BuildStatement(o)
  <2>1. PICK x \in {"remembered", "executing"} :
          /\ stage' = [stage EXCEPT ![o] = x] /\ todo' = todo /\ Running(o)
          /\ x = "remembered" => ReadsLive(Kind(o))
    BY <1>2 DEF Remember, BuildStatement, Running
  <2>2. /\ stage' \in [Writers -> Stages] /\ stage'[o] = x
        /\ \A p \in Writers \ {o} : stage'[p] = stage[p]
        /\ \A p \in Writers : Running(p)' => Running(p)
    BY <2>1 DEF Placed, Stages, Running
  <2>3. InPlace(o)'
    BY <2>1, <2>2 DEF Placed, InPlace, Kind
  <2>4. \A p \in Writers \ {o} : InPlace(p)'
    BY <2>1, <2>2 DEF Placed, InPlace, Kind, Running
  <2> QED BY <2>1, <2>2, <2>3, <2>4 DEF Placed, Writers
<1> QED BY <1>1, <1>2

\* A write is over, and the next of the operation follows, if there is one.
LEMMA EndPlaced ==
  ASSUME Placed, NEW o \in Writers, Commit(o) \/ Raise(o)
  PROVE  Placed'
<1>0. /\ stage \in [Writers -> Stages] /\ todo \in [Writers -> Seq(Kinds)]
      /\ Running(o) /\ InPlace(o)
  BY DEF Commit, Raise, Running, Placed
<1>1. CASE /\ stage' = [stage EXCEPT ![o] = "ended"]
           /\ todo' \in {[todo EXCEPT ![o] = <<>>], [todo EXCEPT ![o] = Tail(todo[o])]}
  <2>1. todo[o] \in Seq(Kinds) /\ todo[o] # <<>>
    BY <1>0 DEF InPlace
  <2>2. Tail(todo[o]) \in Seq(Kinds) /\ <<>> \in Seq(Kinds)
    BY <2>1
  <2>3. stage' \in [Writers -> Stages] /\ stage'[o] = "ended"
    BY <1>0, <1>1 DEF Stages
  <2>4. todo' \in [Writers -> Seq(Kinds)]
    BY <1>0, <1>1, <2>2
  <2>5. \A p \in Writers \ {o} : stage'[p] = stage[p] /\ todo'[p] = todo[p]
    BY <1>0, <1>1
  <2>6. \A p, q \in Passes : Running(p)' /\ Running(q)' => p = q
    BY <2>3, <2>5 DEF Placed, Running, Writers
  <2>7. InPlace(o)'
    BY <2>3 DEF InPlace, Running
  <2>8. \A p \in Writers \ {o} : InPlace(p)'
    BY <2>5 DEF Placed, InPlace, Running, Kind
  <2> QED BY <2>3, <2>4, <2>6, <2>7, <2>8 DEF Placed
<1>2. CASE /\ stage' = [stage EXCEPT ![o] = "ready"] /\ Len(todo[o]) # 1
           /\ todo' = [todo EXCEPT ![o] = Tail(todo[o])]
  <2>1. /\ Tail(todo[o]) \in Seq(Kinds) /\ Tail(todo[o]) # <<>>
        /\ Head(Tail(todo[o])) = todo[o][2] /\ 2 \in 2..Len(todo[o])
        /\ \A i \in 2..Len(Tail(todo[o])) :
             Tail(todo[o])[i] = todo[o][i + 1] /\ i + 1 \in 2..Len(todo[o])
    BY <1>0, <1>2, TailFact DEF InPlace
  <2>2. todo[o] # <<"flags">>
    <3>1. Len(<<"flags">>) = 1
      OBVIOUS
    <3> QED BY <1>2, <3>1
  <2>3. o \notin FlagEdits /\ \A i \in 2..Len(todo[o]) : todo[o][i] \in Later
    BY <1>0, <2>2 DEF InPlace
  <2>4. /\ stage' \in [Writers -> Stages] /\ stage'[o] = "ready"
        /\ todo' \in [Writers -> Seq(Kinds)] /\ todo'[o] = Tail(todo[o])
        /\ \A p \in Writers \ {o} : stage'[p] = stage[p] /\ todo'[p] = todo[p]
    BY <1>0, <1>2, <2>1 DEF Stages
  <2>5. \A p, q \in Passes : Running(p)' /\ Running(q)' => p = q
    BY <1>0, <2>4 DEF Placed, Running, Writers
  <2>6. Kind(o)' \in Later /\ \A i \in 2..Len(todo'[o]) : todo'[o][i] \in Later
    BY <2>1, <2>3, <2>4 DEF Kind
  <2>7. InPlace(o)'
    BY <2>1, <2>3, <2>4, <2>6 DEF InPlace, Later
  <2>8. \A p \in Writers \ {o} : InPlace(p)'
    BY <2>4 DEF Placed, InPlace, Running, Kind
  <2> QED BY <2>4, <2>5, <2>7, <2>8 DEF Placed
<1> QED BY <1>1, <1>2 DEF Commit, Raise

\* Every step keeps every operation in its place.
LEMMA NextPlaced == Placed /\ [Next]_vars => Placed'
<1> SUFFICES ASSUME Placed, [Next]_vars PROVE Placed'
  OBVIOUS
<1>1. ASSUME NEW o \in Writers, Step(o) PROVE Placed'
  BY <1>1, BeginPlaced, WritePlaced, EndPlaced DEF Step
<1>2. CASE Restart
  <2>1. stage' \in [Writers -> Stages] /\ \A o \in Writers : ~Running(o)'
    BY <1>2 DEF Restart, Placed, Stages, Running
  <2>2. todo' \in [Writers -> Seq(Kinds)]
    BY <1>2 DEF Restart
  <2> QED BY <2>1, <2>2 DEF Placed, InPlace, Writers
<1>3. CASE UNCHANGED vars
  BY <1>3 DEF vars, Placed, InPlace, Running, Kind
<1> QED BY <1>1, <1>2, <1>3 DEF Next, Rest

-----------------------------------------------------------------------------
(* One write, step by step.  Rest of the invariant: all but the places.    *)

Held == Stored /\ Built /\ InStep /\ Flagged /\ Dated

\* Beginning an operation writes nothing; the loop starts a schedule only for an
\* agent with a portfolio and without one.
LEMMA BeginKeeps ==
  ASSUME IInv, NEW o \in Writers, BeginRetune(o) \/ BeginPatch(o) \/ BeginPass(o)
  PROVE  Held'
<1>1. /\ stage[o] = "idle" /\ stage' = [stage EXCEPT ![o] = "ready"]
      /\ UNCHANGED <<stores, statement, history>>
      /\ \A p \in Writers \ {o} : todo'[p] = todo[p]
  BY DEF BeginRetune, BeginPatch, BeginPass, Begin, IInv, Placed
<1>2. /\ stage'[o] = "ready" /\ \A p \in Writers \ {o} : stage'[p] = stage[p]
      /\ UNCHANGED <<mem, sql, statement, alone, skewed, mayHold>>
  BY <1>1 DEF stores, history, IInv, Placed
<1>3. Stored'
  BY <1>2 DEF IInv, Stored
<1>4. Built'
  BY <1>1, <1>2 DEF IInv, Built, Kind
<1>5. InStep'
  BY <1>1, <1>2 DEF IInv, InStep, Writing, InFlight, Kind
<1>6. Flagged'
  BY <1>1, <1>2, WritersAssumption DEF IInv, Flagged, Writers
<1>7. Dated'
  <2>1. todo'[o] = <<"ensure">> => mem.holdings # None /\ mem.next = None
    <3>1. CASE BeginRetune(o)
      BY <3>1 DEF BeginRetune, Begin, IInv, Placed
    <3>2. CASE BeginPatch(o)
      BY <3>2, BodiesAssumption DEF BeginPatch, Begin, IInv, Placed
    <3>3. CASE BeginPass(o)
      BY <3>3 DEF BeginPass, Begin, IInv, Placed
    <3> QED BY <3>1, <3>2, <3>3
  <2>2. Kind(o)' = "ensure" => todo'[o] = <<"ensure">>
    <3>1. CASE BeginRetune(o)
      BY <3>1 DEF BeginRetune, Begin, IInv, Placed, Kind
    <3>2. CASE BeginPatch(o)
      BY <3>2, BodiesAssumption DEF BeginPatch, Begin, IInv, Placed, Kind
    <3>3. CASE BeginPass(o)
      BY <3>3 DEF BeginPass, Begin, IInv, Placed, Kind
    <3> QED BY <3>1, <3>2, <3>3
  <2>3. (Kind(o)' = "ensure" => mem.holdings # None /\ mem.next = None)
    BY <2>1, <2>2
  <2> QED BY <1>1, <1>2, <2>3 DEF IInv, Dated, Kind
<1> QED BY <1>3, <1>4, <1>5, <1>6, <1>7 DEF Held

\* What the memory half of a write leaves alone.  An undisturbed write of another
\* operation shares no column with it.
LEMMA OthersUndisturbed ==
  ASSUME IInv, NEW o \in Writers, NEW k \in Kinds, MarkOverlap(o, k),
         mem' \in Cells, \A f \in Fields \ Columns(k) : mem'[f] = mem[f],
         \A p \in Writers \ {o} : stage'[p] = stage[p] /\ todo'[p] = todo[p]
                                  /\ statement'[p] = statement[p]
  PROVE  \A p \in Writers \ {o} : alone'[p] =>
           /\ stage'[p] = "executing" =>
                \A c \in Columns(Kind(p)') : statement'[p][c] = mem'[c]
           /\ stage'[p] = "remembered" /\ Kind(p)' = "solve" => mem'.holdings = p
<1> SUFFICES ASSUME NEW p \in Writers \ {o}, alone'[p], stage[p] \in {"remembered", "executing"}
             PROVE  /\ stage[p] = "executing" =>
                         \A c \in Columns(Kind(p)) : statement[p][c] = mem'[c]
                    /\ stage[p] = "remembered" /\ Kind(p) = "solve" => mem'.holdings = p
  BY DEF Kind
<1>1. alone[p] /\ \A c \in Columns(k) : ~Writing(p, c)
  BY DEF MarkOverlap
<1>2. Kind(p) \in Kinds
  BY KindFact DEF IInv, Running
<1>3. \A c \in Columns(Kind(p)) : c \in Fields \ Columns(k)
  BY <1>1, <1>2, ColumnsFact DEF Writing, InFlight
<1>4. Kind(p) = "solve" => "holdings" \in Columns(Kind(p))
  BY <1>2, ColumnsFact
<1> QED BY <1>1, <1>3, <1>4 DEF IInv, Built

\* A column nobody writes after the memory half of a write is none of its own.
LEMMA OthersInStep ==
  ASSUME IInv, NEW o \in Writers, ~InFlight(o), InFlight(o)',
         \A f \in Fields \ Columns(Kind(o)') : mem'[f] = mem[f],
         \A p \in Writers \ {o} : stage'[p] = stage[p] /\ todo'[p] = todo[p],
         UNCHANGED <<sql, skewed>>
  PROVE  InStep'
<1> SUFFICES ASSUME NEW f \in Fields, f \notin skewed, \A p \in Writers : ~Writing(p, f)'
             PROVE  sql[f] = mem'[f]
  BY DEF InStep
<1>1. f \notin Columns(Kind(o)')
  BY DEF Writing
<1>2. \A p \in Writers : ~Writing(p, f)
  BY DEF Writing, InFlight, Kind
<1> QED BY <1>1, <1>2 DEF IInv, InStep

\* The memory half of a write.
LEMMA RememberKeeps ==
  ASSUME IInv, NEW o \in Writers, Remember(o)
  PROVE  Held'
<1> DEFINE k == Kind(o)
<1>1. k \in Kinds \ {"flags"} /\ stage[o] = "ready" /\ Running(o) /\ InPlace(o)
  BY KindFact DEF Remember, IInv, Placed, InPlace, Running
<1>2. /\ mem' = Remembered(o, k) /\ MarkOverlap(o, k)
      /\ UNCHANGED <<sql, todo, skewed, mayHold>>
  BY DEF Remember
<1>3. mem \in Cells /\ sql \in Cells /\ statement \in [Writers -> Cells]
  BY DEF IInv, Stored
<1>4. /\ mem' \in Cells /\ \A f \in Fields \ Columns(k) : mem'[f] = mem[f]
      /\ mem.solved # None => mem'.solved # None
      /\ mem.holdings # None => mem'.holdings # None
      /\ k = "solve" => mem'.holdings = o /\ mem'.solved # None
      /\ k = "ensure" => /\ mem'.solved \in {mem.solved, o}
                         /\ mem.holdings # None /\ mem.next = None => mem'.solved # None
      /\ k \notin {"ensure", "defer", "solve"} => mem'.next = mem.next
  BY <1>1, <1>2, <1>3, RememberedFact
<1>5. PICK x \in {"remembered", "executing"} :
        /\ stage' = [stage EXCEPT ![o] = x]
        /\ x = "remembered" => ReadsLive(k) /\ statement' = statement
        /\ x = "executing" => /\ ~ReadsLive(k)
                              /\ statement' = [statement EXCEPT ![o] = Only(k, mem')]
  BY DEF Remember
<1>6. /\ Only(k, mem') \in Cells
      /\ \A c \in Columns(k) : Only(k, mem')[c] = mem'[c]
  BY <1>1, <1>4, OnlyFact, ColumnsFact
<1>7. /\ stage'[o] = x /\ Kind(o)' = k
      /\ \A p \in Writers \ {o} : stage'[p] = stage[p] /\ todo'[p] = todo[p]
                                  /\ statement'[p] = statement[p] /\ Kind(p)' = Kind(p)
      /\ x = "executing" => statement'[o] = Only(k, mem')
  BY <1>2, <1>3, <1>5 DEF IInv, Placed, Kind
<1>8. Stored'
  BY <1>2, <1>3, <1>4, <1>5, <1>6 DEF Stored
<1>9. Built'
  <2>1. \A p \in Writers \ {o} : alone'[p] =>
          /\ stage'[p] = "executing" =>
               \A c \in Columns(Kind(p)') : statement'[p][c] = mem'[c]
          /\ stage'[p] = "remembered" /\ Kind(p)' = "solve" => mem'.holdings = p
    BY <1>1, <1>2, <1>4, <1>7, OthersUndisturbed
  <2>2. /\ stage'[o] = "executing" =>
             \A c \in Columns(Kind(o)') : statement'[o][c] = mem'[c]
        /\ stage'[o] = "remembered" /\ Kind(o)' = "solve" => mem'.holdings = o
    BY <1>4, <1>6, <1>7
  <2> QED BY <2>1, <2>2 DEF Built
<1>10. InStep'
  <2>1. ~InFlight(o) /\ InFlight(o)'
    BY <1>1, <1>7 DEF InFlight
  <2> QED BY <1>2, <1>4, <1>7, <2>1, OthersInStep
<1>11. Flagged'
  <2>1. mem'.flags = mem.flags
    BY <1>1, <1>4, ColumnsFact DEF Fields
  <2>2. o \notin FlagEdits
    BY DEF Remember
  <2> QED BY <1>2, <1>7, <2>1, <2>2 DEF IInv, Flagged, Writers
<1>12. Dated'
  <2>1. ASSUME NEW p \in Writers, p # o, stage'[p] = "ready", Kind(p)' = "ensure"
        PROVE  mem'.holdings # None /\ (mem'.next # None => mem'.solved # None)
    <3>1. /\ stage[p] = "ready" /\ Kind(p) = "ensure" /\ p \in Passes
          /\ mem.holdings # None /\ (mem.next # None => mem.solved # None)
      BY <1>7, <2>1 DEF IInv, Dated, Placed, InPlace, Running
    <3>2. k \notin {"ensure", "defer"}
      BY <1>1, <2>1, <3>1 DEF IInv, Placed, InPlace, Running
    <3> QED BY <1>4, <3>1, <3>2
  <2>2. k = "ensure" => mem'.solved # None
    BY <1>1, <1>4 DEF IInv, Dated
  <2>3. stage'[o] = "remembered" => mem'.solved # None
    BY <1>4, <1>5, <1>7, <2>2 DEF ReadsLive
  <2>4. stage'[o] = "executing" => Kind(o)' \notin {"solve", "ensure"}
    BY <1>5, <1>7 DEF ReadsLive
  <2>5. \A p \in Writers : stage'[p] = "remembered" => mem'.solved # None
    BY <1>4, <1>7, <2>3 DEF IInv, Dated
  <2>6. \A p \in Writers : stage'[p] = "executing" /\ Kind(p)' \in {"solve", "ensure"}
                              => statement'[p].solved # None
    BY <1>7, <2>4 DEF IInv, Dated
  <2>7. sql'.holdings \notin {None, Old} => sql'.solved # None
    BY <1>2 DEF IInv, Dated
  <2>8. stage'[o] # "ready"
    BY <1>7
  <2> QED BY <2>1, <2>5, <2>6, <2>7, <2>8 DEF Dated
<1> QED BY <1>8, <1>9, <1>10, <1>11, <1>12 DEF Held

\* The statement is built from the live record: of an undisturbed write, from what the
\* write itself left there.
LEMMA BuildKeeps ==
  ASSUME IInv, NEW o \in Writers, BuildStatement(o)
  PROVE  Held'
<1> DEFINE k == Kind(o)
<1> DEFINE row == IF k = "solve" THEN [mem EXCEPT !.holdings = o] ELSE mem
<1>1. stage[o] = "remembered" /\ Running(o) /\ k \in Kinds /\ InPlace(o)
  BY KindFact DEF BuildStatement, IInv, Placed, Running
<1>2. k \in {"solve", "ensure"}
  BY <1>1 DEF InPlace, ReadsLive
<1>3. mem \in Cells /\ sql \in Cells /\ statement \in [Writers -> Cells]
  BY DEF IInv, Stored
<1>4. /\ row \in Cells /\ row.solved = mem.solved
      /\ alone[o] => \A c \in Fields : row[c] = mem[c]
  <2>1. o \in Values
    BY DEF Values
  <2>2. alone[o] /\ k = "solve" => mem.holdings = o
    BY <1>1 DEF IInv, Built
  <2> QED BY <1>3, <2>1, <2>2 DEF Cells, Fields
<1>5. /\ Only(k, row) \in Cells /\ \A c \in Columns(k) : Only(k, row)[c] = row[c]
      /\ Columns(k) \subseteq Fields /\ "solved" \in Columns(k)
  BY <1>1, <1>2, <1>4, OnlyFact, ColumnsFact
<1>6. /\ stage'[o] = "executing" /\ statement'[o] = Only(k, row)
      /\ statement' = [statement EXCEPT ![o] = Only(k, row)]
      /\ \A p \in Writers \ {o} : stage'[p] = stage[p] /\ statement'[p] = statement[p]
      /\ \A p \in Writers : Kind(p)' = Kind(p)
      /\ UNCHANGED <<mem, sql, alone, skewed, mayHold>>
  BY <1>3 DEF BuildStatement, stores, history, IInv, Placed, Kind
<1>7. Stored'
  BY <1>3, <1>5, <1>6 DEF Stored
<1>8. Built'
  BY <1>4, <1>5, <1>6 DEF IInv, Built
<1>9. InStep'
  <2>1. \A p \in Writers : \A f \in Fields : Writing(p, f)' <=> Writing(p, f)
    BY <1>1, <1>6 DEF Writing, InFlight
  <2> QED BY <1>6, <2>1 DEF IInv, InStep
<1>10. Flagged'
  <2>1. o \notin FlagEdits
    BY <1>1, <1>2 DEF InPlace, Kind
  <2> QED BY <1>6, <2>1 DEF IInv, Flagged, Writers
<1>11. Dated'
  <2>1. Only(k, row).solved # None
    BY <1>1, <1>4, <1>5 DEF IInv, Dated
  <2> QED BY <1>6, <2>1 DEF IInv, Dated
<1> QED BY <1>7, <1>8, <1>9, <1>10, <1>11 DEF Held

\* An admin's change: merged with the flags in memory, an allowed combination.
LEMMA SetFlagsKeeps ==
  ASSUME IInv, NEW o \in Writers, SetFlags(o)
  PROVE  Held'
<1>1. mem \in Cells /\ sql \in Cells /\ statement \in [Writers -> Cells]
  BY DEF IInv, Stored
<1>2. PICK body \in Bodies : mem' = [mem EXCEPT !.flags = Merged(mem.flags, body)]
  BY DEF SetFlags
<1>3. Allowed(Merged(mem.flags, body)) /\ Merged(mem.flags, body) \in Values \union Flags
  BY MergedFact DEF IInv, Flagged, Allowed
<1>4. mem' \in Cells /\ Allowed(mem'.flags) /\ \A f \in Fields \ {"flags"} : mem'[f] = mem[f]
  BY <1>1, <1>2, <1>3 DEF Cells, Fields
<1>5. Columns("flags") = {"flags"} /\ "flags" \in Kinds
  BY DEF Columns, Kinds
<1>6. /\ Only("flags", mem') \in Cells
      /\ \A c \in Columns("flags") : Only("flags", mem')[c] = mem'[c]
  BY <1>4, <1>5, OnlyFact DEF Fields
<1>7. /\ stage[o] = "idle" /\ stage'[o] = "executing" /\ Kind(o)' = "flags"
      /\ statement' = [statement EXCEPT ![o] = Only("flags", mem')]
      /\ statement'[o] = Only("flags", mem')
      /\ \A p \in Writers \ {o} : stage'[p] = stage[p] /\ todo'[p] = todo[p]
                                  /\ statement'[p] = statement[p] /\ Kind(p)' = Kind(p)
      /\ MarkOverlap(o, "flags") /\ UNCHANGED <<sql, skewed, mayHold>>
  BY <1>1 DEF SetFlags, IInv, Placed, Kind
<1>8. Stored'
  BY <1>1, <1>4, <1>6, <1>7 DEF Stored
<1>9. Built'
  <2>1. \A p \in Writers \ {o} : alone'[p] =>
          /\ stage'[p] = "executing" =>
               \A c \in Columns(Kind(p)') : statement'[p][c] = mem'[c]
          /\ stage'[p] = "remembered" /\ Kind(p)' = "solve" => mem'.holdings = p
    BY <1>4, <1>5, <1>7, OthersUndisturbed
  <2>2. /\ stage'[o] = "executing" =>
             \A c \in Columns(Kind(o)') : statement'[o][c] = mem'[c]
        /\ stage'[o] = "remembered" /\ Kind(o)' = "solve" => mem'.holdings = o
    BY <1>6, <1>7
  <2> QED BY <2>1, <2>2 DEF Built
<1>10. InStep'
  <2>1. ~InFlight(o) /\ InFlight(o)'
    BY <1>7 DEF InFlight
  <2> QED BY <1>4, <1>5, <1>7, <2>1, OthersInStep
<1>11. Flagged'
  <2>1. Only("flags", mem').flags = mem'.flags
    BY <1>5, <1>6
  <2> QED BY <1>4, <1>7, <2>1 DEF IInv, Flagged, Writers
<1>12. Dated'
  <2>1. mem'.holdings = mem.holdings /\ mem'.solved = mem.solved /\ mem'.next = mem.next
    BY <1>4 DEF Fields
  <2> QED BY <1>7, <2>1 DEF IInv, Dated
<1> QED BY <1>8, <1>9, <1>10, <1>11, <1>12 DEF Held

\* The transaction lands or is rolled back, and the write is over: an undisturbed one
\* that landed has brought its columns together.
LEMMA EndKeeps ==
  ASSUME IInv, NEW o \in Writers, Commit(o) \/ Raise(o)
  PROVE  Held'
<1> DEFINE k == Kind(o)
<1>1. stage[o] = "executing" /\ Running(o) /\ k \in Kinds /\ InPlace(o)
  BY KindFact DEF Commit, Raise, IInv, Placed, Running
<1>2. mem \in Cells /\ sql \in Cells /\ statement \in [Writers -> Cells]
  BY DEF IInv, Stored
<1>3. /\ statement' = [statement EXCEPT ![o] = Blank] /\ mem' = mem
      /\ alone' = [alone EXCEPT ![o] = FALSE]
      /\ Land(o) \/ UNCHANGED sql
  BY DEF Commit, Raise, Undone
<1>4. /\ stage'[o] \in {"ready", "ended"}
      /\ \A p \in Writers \ {o} : stage'[p] = stage[p] /\ todo'[p] = todo[p]
                                  /\ statement'[p] = statement[p] /\ Kind(p)' = Kind(p)
      /\ \A p \in Writers \ {o} : alone'[p] => alone[p]
  BY <1>2, <1>3 DEF Commit, Raise, IInv, Placed, Kind
<1>5. /\ Columns(k) \subseteq Fields /\ ("flags" \in Columns(k) <=> k = "flags")
      /\ ("solved" \in Columns(k) <=> k \in {"solve", "ensure"})
      /\ ("holdings" \in Columns(k) <=> k = "solve")
  BY <1>1, ColumnsFact
<1>6. /\ sql' \in Cells
      /\ Land(o) => \A f \in Fields :
                      sql'[f] = IF f \in Columns(k) THEN statement[o][f] ELSE sql[f]
      /\ \A f \in Fields \ Columns(k) : sql'[f] = sql[f]
  BY <1>2, <1>3 DEF Land, Cells
<1>7. Stored'
  BY <1>2, <1>3, <1>6, BlankFact DEF Stored
<1>8. Built'
  <2>1. ~alone'[o] \/ stage'[o] \notin {"executing", "remembered"}
    BY <1>4
  <2> QED BY <1>3, <1>4, <2>1 DEF IInv, Built
<1>9. InStep'
  <2> SUFFICES ASSUME NEW f \in Fields, f \notin skewed',
                      \A p \in Writers : ~Writing(p, f)'
               PROVE  sql'[f] = mem[f]
    BY <1>3 DEF InStep
  <2>1. \A p \in Writers \ {o} : ~Writing(p, f)
    BY <1>4 DEF Writing, InFlight
  <2>2. CASE f \in Columns(k)
    <3>1. Commit(o) /\ alone[o]
      BY <2>2 DEF Commit, Raise
    <3>2. statement[o][f] = mem[f]
      BY <1>1, <2>2, <3>1 DEF IInv, Built
    <3> QED BY <1>6, <2>2, <3>1, <3>2 DEF Commit
  <2>3. CASE f \notin Columns(k)
    <3>1. f \notin skewed
      BY <2>3 DEF Commit, Raise
    <3>2. \A p \in Writers : ~Writing(p, f)
      BY <2>1, <2>3 DEF Writing
    <3> QED BY <1>6, <2>3, <3>1, <3>2 DEF IInv, InStep
  <2> QED BY <2>2, <2>3
<1>10. Flagged'
  <2>1. CASE o \in FlagEdits
    <3>1. k = "flags" /\ Allowed(statement[o].flags)
      BY <1>1, <2>1 DEF InPlace, Kind, IInv, Flagged
    <3>2. Land(o) => sql'.flags = statement[o].flags
      BY <1>5, <1>6, <3>1 DEF Fields
    <3>3. Allowed(sql'.flags) /\ sql'.flags \in mayHold'
      BY <1>3, <2>1, <3>1, <3>2 DEF Commit, Raise, IInv, Flagged
    <3> QED BY <1>3, <1>4, <3>3 DEF IInv, Flagged, Writers
  <2>2. CASE o \notin FlagEdits
    <3>1. sql'.flags = sql.flags
      BY <1>1, <1>5, <1>6, <2>2 DEF InPlace, Fields
    <3>2. mayHold' = mayHold
      BY <2>2 DEF Commit, Raise
    <3> QED BY <1>3, <1>4, <2>2, <3>1, <3>2 DEF IInv, Flagged, Writers
  <2> QED BY <2>1, <2>2
<1>11. Dated'
  <2>1. k \in {"solve", "ensure"} => statement[o].solved # None
    BY <1>1 DEF IInv, Dated
  <2>2. sql'.holdings \notin {None, Old} => sql'.solved # None
    BY <1>3, <1>5, <1>6, <2>1 DEF IInv, Dated, Fields
  <2>3. stage'[o] = "ready" => Kind(o)' # "ensure"
    <3>1. CASE stage'[o] = "ready"
      <4>1. Commit(o) /\ Len(todo[o]) # 1 /\ todo' = [todo EXCEPT ![o] = Tail(todo[o])]
        BY <3>1 DEF Commit, Raise, IInv, Placed
      <4>2. todo[o] \in Seq(Kinds) /\ todo[o] # <<>> /\ todo \in [Writers -> Seq(Kinds)]
        BY <1>1 DEF IInv, Placed, InPlace
      <4>3. Head(Tail(todo[o])) = todo[o][2] /\ 2 \in 2..Len(todo[o])
        BY <4>1, <4>2, TailFact
      <4>4. Kind(o)' \in Later
        BY <1>1, <4>1, <4>2, <4>3 DEF InPlace, Kind
      <4> QED BY <4>4 DEF Later
    <3> QED BY <3>1
  <2> QED BY <1>3, <1>4, <2>2, <2>3 DEF IInv, Dated
<1> QED BY <1>7, <1>8, <1>9, <1>10, <1>11 DEF Held

\* A restart forgets what was under way and takes memory from SQL.
LEMMA RestartKeeps ==
  ASSUME IInv, Restart
  PROVE  Held'
<1>1. /\ mem' = sql /\ sql' = sql /\ mayHold' = mayHold
      /\ statement' = [o \in Writers |-> Blank] /\ alone' = [o \in Writers |-> FALSE]
      /\ \A o \in Writers : stage'[o] \in {"idle", "ended"}
  BY DEF Restart, Loaded, Running, IInv, Placed, Stages
<1>2. Stored'
  BY <1>1, BlankFact DEF IInv, Stored
<1>3. Built' /\ InStep'
  BY <1>1 DEF Built, InStep
<1>4. Flagged' /\ Dated'
  BY <1>1 DEF IInv, Flagged, Dated, Writers
<1> QED BY <1>2, <1>3, <1>4 DEF Held

-----------------------------------------------------------------------------
\* Every step keeps the invariant.
LEMMA NextIInv == IInv /\ [Next]_vars => IInv'
<1> SUFFICES ASSUME IInv, [Next]_vars PROVE IInv'
  OBVIOUS
<1>1. Placed'
  BY NextPlaced DEF IInv
<1>2. Held'
  <2>1. ASSUME NEW o \in Writers, Step(o) PROVE Held'
    BY <2>1, BeginKeeps, SetFlagsKeeps, RememberKeeps, BuildKeeps, EndKeeps DEF Step
  <2>2. CASE UNCHANGED vars
    BY <2>2 DEF vars, stores, history, IInv, Held, Stored, Built, InStep, Flagged, Dated,
                Writing, InFlight, Kind
  <2> QED BY <2>1, <2>2, RestartKeeps DEF Next, Rest
<1> QED BY <1>1, <1>2 DEF IInv, Held

\* The invariant holds in every state.
THEOREM Invariance == Spec => []IInv
BY InitIInv, NextIInv, PTL DEF Spec

-----------------------------------------------------------------------------
\* DbAgentStore: a column at rest is the same in memory and in SQL, unless its writes
\* overlapped or raised and none has run undisturbed since.
THEOREM InStepHolds == Spec => []InStep
<1>1. IInv => InStep
  BY DEF IInv
<1> QED BY Invariance, <1>1, PTL

\* set_flags: what the admin was told last is what a restart finds.
THEOREM FlagsStandHolds == Spec => []FlagsStand
<1>1. IInv => FlagsStand
  BY DEF IInv, Flagged, FlagsStand
<1> QED BY Invariance, <1>1, PTL

\* patch_agent: a disabled agent is on nobody's leaderboard, now or after a restart.
THEOREM DisabledIsHiddenHolds == Spec => []DisabledIsHidden
<1>1. IInv => DisabledIsHidden
  BY DEF IInv, Flagged, Allowed, DisabledIsHidden, OnBoard
<1> QED BY Invariance, <1>1, PTL

\* apply_solve: a portfolio in SQL has its solve time with it.
THEOREM PortfolioIsDatedHolds == Spec => []PortfolioIsDated
<1>1. IInv => PortfolioIsDated
  BY DEF IInv, Dated, PortfolioIsDated
<1> QED BY Invariance, <1>1, PTL
=============================================================================
