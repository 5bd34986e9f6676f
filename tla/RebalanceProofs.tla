-------------------------- MODULE RebalanceProofs --------------------------
(***************************************************************************)
(* The rebalance loop for any agents, schedules, backoff, e-mail window,   *)
(* and any number of retunes, edits, failures and readings of the clock.   *)
(***************************************************************************)
EXTENDS Rebalance, SequenceTheorems, TLAPS

Schedules == [slider : Slots, due : Nat \union {None}, hours : Slots, solved : BOOLEAN,
              holds : BOOLEAN, disabled : BOOLEAN]
Phases == {"asleep", "visiting", "solving", "mailing", "dead", "stopped"}
InPass == phase \in {"visiting", "solving", "mailing"}

\* Types, and that a pass never reads a clock ahead of time.
Typed ==
  /\ clock \in Nat /\ passNow \in Nat /\ passNow <= clock
  /\ record \in [Agents -> Schedules]
  /\ phase \in Phases /\ left \in Seq(Agents)
  /\ phase \in {"solving", "mailing"} => left # <<>>
  /\ attempted \in [Agents -> Nat]

\* A scheduled rebalance that finds the slider Off leaves no due time behind, and none
\* is under way after it.
Switched ==
  /\ offRuns \in [Agents -> {0, 1}]
  /\ \A a \in Agents : offRuns[a] = 1 => record[a].slider = Off /\ record[a].due = None
  /\ phase = "solving" => offRuns[Head(left)] = 0

\* Of an agent whose dispatches never overlapped, one is under way at most, the stamp
\* is the newest reading sent, and what is being sent is due.
MailTypes ==
  /\ stamp \in [Agents -> Nat \union {None}] /\ sent \in [Agents -> Nat \union {None}]
  /\ mail \in [Dispatchers -> [stage : {"none", "called", "sending"},
                               to : Agents \union {None}, now : Nat \union {None}]]
  /\ \A d \in Dispatchers : Busy(d) => mail[d].to \in Agents /\ mail[d].now \in Nat
DueWhenSent(d) ==
  mail[d].stage = "sending" /\ mail[d].to \notin crossed
    => \/ stamp[mail[d].to] = None
       \/ mail[d].now - stamp[mail[d].to] >= Window
Alone ==
  \A d, e \in Dispatchers :
    Busy(d) /\ Busy(e) /\ mail[d].to = mail[e].to /\ mail[d].to \notin crossed => d = e
Mailed ==
  /\ MailTypes /\ Alone
  /\ \A a \in Agents : a \notin crossed => sent[a] = stamp[a]
  /\ \A d \in Dispatchers : DueWhenSent(d)

\* The last attempt began before the reading of this pass, or is of this pass; the one
\* before it, before the reading the last was noted with.
Ages == 0..Backoff
AgesTyped(a) == ages[a] \in Seq(Ages) /\ Len(ages[a]) \in {0, 1, 2}
LastBefore(a) ==
  Len(ages[a]) >= 1 /\ InPass =>
    LET age == ages[a][Len(ages[a])]
    IN  age = Backoff \/ clock - age <= passNow \/ attempted[a] = passNow
FirstBefore(a) ==
  Len(ages[a]) = 2 => ages[a][1] = Backoff \/ clock - ages[a][1] <= attempted[a]
Spaced ==
  /\ DOMAIN ages = Agents
  /\ \A a \in Agents : AgesTyped(a) /\ LastBefore(a) /\ FirstBefore(a)

IInv == Typed /\ Switched /\ Mailed /\ Spaced

-----------------------------------------------------------------------------
\* A schedule stays one, and is empty when the slider is Off.
LEMMA ScheduledFact ==
  ASSUME clock \in Nat, NEW r \in Schedules
  PROVE  /\ Scheduled(r) \in Schedules /\ Applied(r) \in Schedules
         /\ Scheduled(r).slider = r.slider /\ Applied(r).slider = r.slider
         /\ r.slider = Off => Scheduled(r).due = None /\ Applied(r).due = None
<1>1. r.slider = Off \/ clock + r.slider \in Nat
  BY SlotsAssumption DEF Schedules
<1>2. Scheduled(r) \in Schedules
  BY <1>1 DEF Scheduled, Schedules
<1> QED BY <1>2 DEF Scheduled, Applied, Schedules

\* The invariant holds at the start.
LEMMA InitIInv == Init => IInv
<1> SUFFICES ASSUME Init PROVE IInv
  OBVIOUS
<1>1. Typed
  <2>1. Profiles \subseteq Schedules
    <3>1. ASSUME NEW r \in Profiles PROVE r \in Schedules
      <4>1. /\ r.slider \in Slots /\ r.due \in Nat \union {None} /\ r.hours \in Slots
            /\ r.solved \in BOOLEAN /\ r.holds \in BOOLEAN /\ r.disabled \in BOOLEAN
        <5>1. /\ r.slider \in Slots /\ r.due \in {None, 0}
              /\ r.hours \in {Off} \union (Slots \ {Off})
          BY <3>1 DEF Profiles
        <5>2. r.solved \in {TRUE, FALSE}
          BY <3>1 DEF Profiles
        <5>3. r.holds \in {TRUE, FALSE}
          BY <3>1 DEF Profiles
        <5>4. r.disabled \in {TRUE, FALSE}
          BY <3>1 DEF Profiles
        <5>5. r.due \in Nat \union {None} /\ r.hours \in Slots
          BY <5>1, SlotsAssumption
        <5> QED BY <5>1, <5>2, <5>3, <5>4, <5>5, Zenon
      <4>2. r = [slider |-> r.slider, due |-> r.due, hours |-> r.hours,
                 solved |-> r.solved, holds |-> r.holds, disabled |-> r.disabled]
        BY <3>1 DEF Profiles
      <4> QED BY <4>1, <4>2 DEF Schedules
    <3> QED BY <3>1
  <2> QED BY <2>1 DEF Init, Typed, Phases
<1>2. Switched
  BY DEF Init, Switched
<1>3. Mailed
  BY DEF Init, Mailed, MailTypes, Alone, DueWhenSent, Busy, NoMail
<1>4. Spaced
  BY BoundsAssumption DEF Init, Spaced, AgesTyped, LastBefore, FirstBefore
<1> QED BY <1>1, <1>2, <1>3, <1>4 DEF IInv

-----------------------------------------------------------------------------
(* Types.                                                                  *)

\* Going on to the next agent.
LEMMA GoOnTyped ==
  ASSUME left \in Seq(Agents), left # <<>>, GoOn \/ Die
  PROVE  left' \in Seq(Agents) /\ phase' \in {"visiting", "dead"}
<1>1. Tail(left) \in Seq(Agents)
  OBVIOUS
<1>2. <<>> \in Seq(Agents)
  OBVIOUS
<1> QED BY <1>1, <1>2 DEF GoOn, Die

\* The task's own steps.
LEMMA LoopTyped ==
  ASSUME Typed, LoopStep \/ SolveEnds \/ Stop
  PROVE  Typed'
<1>1. CASE BeginPass
  BY <1>1, RosterAssumption DEF BeginPass, Typed, Phases
<1>2. CASE Skip
  BY <1>2 DEF Skip, Typed
<1>3. CASE Ensure
  <2>1. Head(left) \in Agents /\ record[Head(left)] \in Schedules
    BY <1>3 DEF Ensure, Typed
  <2>2. record' \in [Agents -> Schedules]
    BY <1>3, <2>1, ScheduledFact DEF Ensure, Typed
  <2>3. left' \in Seq(Agents) /\ phase' \in {"visiting", "dead"}
    BY <1>3, GoOnTyped DEF Ensure, Typed
  <2> QED BY <1>3, <2>2, <2>3 DEF Ensure, Typed, Phases
<1>4. CASE Attempt
  BY <1>4 DEF Attempt, StampAttempt, Typed, Phases
<1>5. CASE EndPass
  BY <1>5 DEF EndPass, Typed, Phases
<1>6. CASE Solved
  <2>1. Head(left) \in Agents /\ record[Head(left)] \in Schedules
    BY <1>6 DEF Solved, Typed
  <2>2. record' \in [Agents -> Schedules]
    BY <1>6, <2>1, ScheduledFact DEF Solved, Typed
  <2> QED BY <1>6, <2>2 DEF Solved, Typed, Phases
<1>7. CASE Failed
  <2>1. Head(left) \in Agents /\ record[Head(left)] \in Schedules
    BY <1>7 DEF Failed, Typed
  <2>2. record' \in [Agents -> Schedules]
    BY <1>7, <2>1, ScheduledFact DEF Failed, Typed
  <2>3. left' \in Seq(Agents) /\ phase' \in {"visiting", "dead"}
    BY <1>7, GoOnTyped DEF Failed, Typed
  <2> QED BY <1>7, <2>2, <2>3 DEF Failed, Typed, Phases
<1>8. CASE Refused
  <2>1. Head(left) \in Agents /\ record[Head(left)] \in Schedules
    BY <1>8 DEF Refused, Typed
  <2>2. record' \in [Agents -> Schedules]
    <3>1. PICK retryAt \in {None} \union (passNow + 1)..(clock + Backoff) :
            record' = IF retryAt = None THEN record
                      ELSE [record EXCEPT ![Head(left)].due = retryAt]
      BY <1>8 DEF Refused
    <3>2. retryAt = None \/ retryAt \in Nat
      BY BoundsAssumption DEF Typed
    <3> QED BY <2>1, <3>1, <3>2 DEF Typed, Schedules
  <2>3. left' \in Seq(Agents) /\ phase' \in {"visiting", "dead"}
    BY <1>8, GoOnTyped DEF Refused, Typed
  <2> QED BY <1>8, <2>2, <2>3 DEF Refused, Typed, Phases
<1>9. CASE Stop
  BY <1>9 DEF Stop, Typed, Phases
<1> QED BY <1>1, <1>2, <1>3, <1>4, <1>5, <1>6, <1>7, <1>8, <1>9 DEF LoopStep, SolveEnds

\* What moves next to it.
LEMMA OthersTyped ==
  ASSUME Typed,
         \/ \E d \in Dispatchers : MailStep(d) \/ Retune(d)
         \/ PatchSlider \/ SetDisabled \/ Tick \/ UNCHANGED vars
  PROVE  Typed'
<1>1. ASSUME NEW d \in Dispatchers, MailStep(d) PROVE Typed'
  <2>1. UNCHANGED <<clock, record, passNow, attempted>>
    BY <1>1 DEF MailStep, CheckMail, SendMail
  <2>2. CASE UNCHANGED <<phase, left>>
    BY <2>1, <2>2 DEF Typed
  <2>3. CASE phase = "mailing" /\ GoOn
    <3>1. left' \in Seq(Agents) /\ phase' = "visiting"
      BY <2>3 DEF Typed, GoOn
    <3> QED BY <2>1, <3>1 DEF Typed, Phases
  <2> QED BY <1>1, <2>2, <2>3 DEF MailStep, CheckMail, SendMail, Over
<1>2. ASSUME NEW d \in Dispatchers, Retune(d) PROVE Typed'
  <2>1. PICK a \in Agents : \E slider \in {record[a].slider, Off} :
          record' = [record EXCEPT ![a] = Applied([record[a] EXCEPT !.slider = slider])]
    BY <1>2 DEF Retune
  <2>2. PICK slider \in {record[a].slider, Off} :
          record' = [record EXCEPT ![a] = Applied([record[a] EXCEPT !.slider = slider])]
    BY <2>1
  <2>3. [record[a] EXCEPT !.slider = slider] \in Schedules
    BY SlotsAssumption DEF Typed, Schedules
  <2>4. record' \in [Agents -> Schedules]
    BY <2>2, <2>3, ScheduledFact DEF Typed
  <2> QED BY <1>2, <2>4 DEF Retune, Typed, loop
<1>3. CASE PatchSlider \/ SetDisabled
  <2>1. \A r \in Schedules : \A slider \in Slots :
          [r EXCEPT !.slider = slider] \in Schedules
    BY DEF Schedules
  <2>2. record' \in [Agents -> Schedules]
    <3>1. CASE PatchSlider
      <4>1. PICK a \in Agents, slider \in Slots :
              record' = [record EXCEPT ![a] = [record[a] EXCEPT !.slider = slider]]
        BY <3>1 DEF PatchSlider
      <4>2. record[a] \in Schedules
        BY DEF Typed
      <4>3. [record[a] EXCEPT !.slider = slider] \in Schedules
        BY <2>1, <4>2
      <4> QED BY <4>1, <4>3 DEF Typed
    <3>2. CASE SetDisabled
      <4>1. PICK a \in Agents : record' = [record EXCEPT ![a].disabled = ~@]
        BY <3>2 DEF SetDisabled
      <4>2. record \in [Agents -> Schedules]
        BY DEF Typed
      <4> QED BY <4>1, <4>2 DEF Schedules
    <3> QED BY <1>3, <3>1, <3>2
  <2> QED BY <1>3, <2>2 DEF PatchSlider, SetDisabled, Typed, loop
<1>4. CASE Tick
  BY <1>4 DEF Tick, Typed, loop
<1>5. CASE UNCHANGED vars
  BY <1>5 DEF vars, Typed, loop
<1> QED BY <1>1, <1>2, <1>3, <1>4, <1>5

\* Every step keeps the types.
LEMMA NextTyped == Typed /\ [Next]_vars => Typed'
BY LoopTyped, OthersTyped DEF Next, Rest

-----------------------------------------------------------------------------
(* The slider Off.                                                         *)

\* A new schedule is empty when the slider is Off, and so is that of a rebalance
\* counted against it.
LEMMA AppliedSwitched ==
  ASSUME Typed, Switched, left # <<>>, NEW x \in {0, 1},
         LET a == Head(left)
         IN  /\ record' = [record EXCEPT ![a] = Applied(@)]
             /\ CountOff(a) /\ offRuns[a] = 0,
         phase' # "solving"
  PROVE  Switched'
<1> DEFINE a == Head(left)
<1>1. a \in Agents /\ record[a] \in Schedules
  BY DEF Typed
<1>2. /\ record'[a].slider = record[a].slider
      /\ record[a].slider = Off => record'[a].due = None
      /\ \A b \in Agents \ {a} : record'[b] = record[b]
  BY <1>1, ScheduledFact DEF Typed
<1>3. /\ offRuns' = [offRuns EXCEPT ![a] = IF record[a].slider = Off THEN 1 ELSE 0]
      /\ offRuns \in [Agents -> {0, 1}]
  BY DEF CountOff, Switched
<1> QED BY <1>1, <1>2, <1>3 DEF Switched

\* Every step keeps Switched.
LEMMA NextSwitched == Typed /\ Switched /\ [Next]_vars => Switched'
<1> SUFFICES ASSUME Typed, Switched, [Next]_vars PROVE Switched'
  OBVIOUS
<1>1. CASE BeginPass \/ Skip \/ EndPass \/ Stop
  BY <1>1 DEF BeginPass, Skip, EndPass, Stop, Switched, runs
<1>2. CASE Ensure
  <2>1. Head(left) \in Agents /\ record[Head(left)] \in Schedules
    BY <1>2 DEF Ensure, Typed
  <2>2. /\ record' = [record EXCEPT ![Head(left)] = Scheduled(record[Head(left)])]
        /\ offRuns' = offRuns /\ phase' # "solving"
    BY <1>2 DEF Ensure, GoOn, Die, runs
  <2> QED BY <2>1, <2>2, ScheduledFact DEF Typed, Switched
<1>3. CASE Attempt
  <2>1. /\ Head(left) \in Agents /\ record[Head(left)].due # None
        /\ UNCHANGED <<record, offRuns, left>>
    BY <1>3 DEF Attempt, Typed
  <2> QED BY <2>1 DEF Switched
<1>4. CASE Solved
  BY <1>4, AppliedSwitched DEF Solved, Typed, Switched
<1>5. CASE Failed
  <2>1. left # <<>> /\ offRuns[Head(left)] = 0 /\ phase' # "solving"
    BY <1>5 DEF Failed, GoOn, Typed, Switched
  <2>2. CASE UNCHANGED <<record, offRuns>>
    BY <2>1, <2>2 DEF Switched
  <2> QED BY <1>5, <2>1, <2>2, AppliedSwitched DEF Failed
<1>6. CASE Refused
  <2>1. Head(left) \in Agents /\ offRuns[Head(left)] = 0 /\ offRuns' = offRuns
    BY <1>6 DEF Refused, Typed, Switched, runs
  <2>2. PICK due : record' \in {record, [record EXCEPT ![Head(left)].due = due]}
    BY <1>6 DEF Refused
  <2>3. \A b \in Agents \ {Head(left)} : record'[b] = record[b]
    BY <2>1, <2>2 DEF Typed
  <2>4. phase' # "solving"
    BY <1>6 DEF Refused, GoOn, Die
  <2> QED BY <2>1, <2>3, <2>4 DEF Switched
<1>7. ASSUME NEW d \in Dispatchers, MailStep(d) PROVE Switched'
  <2>1. UNCHANGED <<record, offRuns>>
    BY <1>7 DEF MailStep, CheckMail, SendMail, runs
  <2>2. UNCHANGED <<phase, left>> \/ phase' = "visiting"
    BY <1>7 DEF MailStep, CheckMail, SendMail, Over, GoOn
  <2> QED BY <2>1, <2>2 DEF Switched
<1>8. ASSUME NEW d \in Dispatchers, Retune(d) PROVE Switched'
  <2>1. PICK a \in Agents : \E slider \in {record[a].slider, Off} :
          /\ record' = [record EXCEPT ![a] = Applied([record[a] EXCEPT !.slider = slider])]
          /\ offRuns' = [offRuns EXCEPT ![a] = IF slider = record[a].slider THEN @ ELSE 0]
    BY <1>8 DEF Retune
  <2>2. PICK slider \in {record[a].slider, Off} :
          /\ record' = [record EXCEPT ![a] = Applied([record[a] EXCEPT !.slider = slider])]
          /\ offRuns' = [offRuns EXCEPT ![a] = IF slider = record[a].slider THEN @ ELSE 0]
    BY <2>1
  <2>3. /\ [record[a] EXCEPT !.slider = slider] \in Schedules
        /\ [record[a] EXCEPT !.slider = slider].slider = slider
    BY SlotsAssumption DEF Typed, Schedules
  <2>4. /\ record'[a].slider = slider /\ (slider = Off => record'[a].due = None)
        /\ \A b \in Agents \ {a} : record'[b] = record[b] /\ offRuns'[b] = offRuns[b]
        /\ offRuns'[a] \in {offRuns[a], 0} /\ (offRuns'[a] # 0 => slider = record[a].slider)
        /\ offRuns' \in [Agents -> {0, 1}]
    BY <2>2, <2>3, ScheduledFact DEF Typed, Switched
  <2>5. UNCHANGED <<phase, left>>
    BY <1>8 DEF Retune, loop
  <2>6. phase = "solving" => Head(left) \in Agents
    BY DEF Typed
  <2> QED BY <2>4, <2>5, <2>6 DEF Switched
<1>9. CASE PatchSlider
  <2>1. PICK a \in Agents, slider \in Slots :
          /\ record' = [record EXCEPT ![a].slider = slider]
          /\ offRuns' = [offRuns EXCEPT ![a] = 0] /\ UNCHANGED <<phase, left>>
    BY <1>9 DEF PatchSlider, loop
  <2>2. /\ offRuns' \in [Agents -> {0, 1}] /\ offRuns'[a] = 0
        /\ \A b \in Agents \ {a} : record'[b] = record[b] /\ offRuns'[b] = offRuns[b]
    BY <2>1 DEF Typed, Switched
  <2>3. phase = "solving" => Head(left) \in Agents
    BY DEF Typed
  <2> QED BY <2>1, <2>2, <2>3 DEF Switched
<1>10. CASE SetDisabled
  <2>1. PICK a \in Agents : /\ record' = [record EXCEPT ![a].disabled = ~@]
                            /\ offRuns' = offRuns /\ UNCHANGED <<phase, left>>
    BY <1>10 DEF SetDisabled, loop, runs
  <2>2. \A b \in Agents : record'[b].slider = record[b].slider /\ record'[b].due = record[b].due
    BY <2>1 DEF Typed, Schedules
  <2> QED BY <2>1, <2>2 DEF Switched
<1>11. CASE Tick \/ Rest \/ UNCHANGED vars
  BY <1>11 DEF Tick, Rest, vars, Switched, loop, runs
<1> QED BY <1>1, <1>2, <1>3, <1>4, <1>5, <1>6, <1>7, <1>8, <1>9, <1>10, <1>11
        DEF Next, LoopStep, SolveEnds

-----------------------------------------------------------------------------
(* The e-mails.                                                            *)

\* A new dispatch: its agent is crossed if another is under way.
LEMMA CallMailed ==
  ASSUME Mailed, NEW d \in Dispatchers, NEW a \in Agents, NEW now \in Nat,
         Call(d, a, now), UNCHANGED <<stamp, sent>>
  PROVE  Mailed'
<1>1. /\ mail' = [mail EXCEPT ![d] = [stage |-> "called", to |-> a, now |-> now]]
      /\ mail'[d] = [stage |-> "called", to |-> a, now |-> now]
      /\ \A e \in Dispatchers \ {d} : mail'[e] = mail[e]
  BY DEF Call, Mailed, MailTypes
<1>2. /\ \A b \in Agents : b \notin crossed' => b \notin crossed
      /\ a \notin crossed' => ~\E e \in Dispatchers \ {d} : Busy(e) /\ mail[e].to = a
  BY DEF Call
<1>3. MailTypes'
  BY <1>1 DEF Mailed, MailTypes, Busy
<1>4. Alone'
  BY <1>1, <1>2 DEF Mailed, MailTypes, Alone, Busy
<1>5. \A e \in Dispatchers : DueWhenSent(e)'
  BY <1>1, <1>2 DEF Mailed, MailTypes, DueWhenSent, Busy
<1> QED BY <1>2, <1>3, <1>4, <1>5 DEF Mailed

\* A dispatch is over, with no e-mail or with one noted.
LEMMA OverMailed ==
  ASSUME Mailed, NEW d \in Dispatchers, Busy(d), mail' = [mail EXCEPT ![d] = NoMail],
         UNCHANGED crossed,
         \/ UNCHANGED <<stamp, sent>>
         \/ /\ mail[d].stage = "sending" /\ Note(d)
            /\ sent' = [sent EXCEPT ![mail[d].to] =
                          IF @ # None /\ @ > mail[d].now THEN @ ELSE mail[d].now]
  PROVE  Mailed'
<1> DEFINE a == mail[d].to
<1> DEFINE now == mail[d].now
<1>1. a \in Agents /\ now \in Nat /\ None \notin Nat
  BY SlotsAssumption DEF Mailed, MailTypes
<1>2. /\ mail'[d].stage = "none"
      /\ \A e \in Dispatchers \ {d} : mail'[e] = mail[e]
      /\ mail' \in [Dispatchers -> [stage : {"none", "called", "sending"},
                                    to : Agents \union {None}, now : Nat \union {None}]]
  BY DEF NoMail, Mailed, MailTypes
<1>3. CASE UNCHANGED <<stamp, sent>>
  BY <1>2, <1>3 DEF Mailed, MailTypes, Alone, DueWhenSent, Busy
<1>4. CASE /\ mail[d].stage = "sending" /\ Note(d)
           /\ sent' = [sent EXCEPT ![a] = IF @ # None /\ @ > now THEN @ ELSE now]
  <2>1. /\ stamp' \in [Agents -> Nat \union {None}] /\ stamp'[a] = now
        /\ \A b \in Agents \ {a} : stamp'[b] = stamp[b] /\ sent'[b] = sent[b]
        /\ sent' \in [Agents -> Nat \union {None}]
        /\ sent'[a] = IF sent[a] # None /\ sent[a] > now THEN sent[a] ELSE now
    BY <1>1, <1>4 DEF Note, Mailed, MailTypes
  <2>2. a \notin crossed => sent'[a] = stamp'[a]
    <3>1. CASE a \notin crossed /\ sent[a] # None
      <4>1. stamp[a] = sent[a] /\ sent[a] \in Nat /\ now - stamp[a] >= Window
        BY <1>4, <3>1, <1>1 DEF Mailed, MailTypes, DueWhenSent
      <4> QED BY <1>1, <2>1, <4>1, BoundsAssumption
    <3> QED BY <2>1, <3>1
  <2>3. MailTypes' /\ Alone'
    BY <1>2, <2>1 DEF Mailed, MailTypes, Alone, Busy
  <2>4. ASSUME NEW e \in Dispatchers, e # d, mail[e].stage = "sending", mail[e].to \notin crossed
        PROVE  mail[e].to # a /\ mail[e].to \in Agents
    BY <1>4, <2>4 DEF Mailed, MailTypes, Alone, Busy
  <2>5. \A e \in Dispatchers : DueWhenSent(e)'
    BY <1>2, <2>1, <2>4 DEF Mailed, DueWhenSent
  <2> QED BY <2>1, <2>2, <2>3, <2>5 DEF Mailed
<1> QED BY <1>3, <1>4

\* Every step keeps Mailed.
LEMMA NextMailed == Typed /\ Mailed /\ [Next]_vars => Mailed'
<1> SUFFICES ASSUME Typed, Mailed, [Next]_vars PROVE Mailed'
  OBVIOUS
<1>1. CASE UNCHANGED mails
  BY <1>1 DEF mails, Mailed, MailTypes, Alone, DueWhenSent, Busy
<1>2. CASE Solved
  <2>1. Head(left) \in Agents /\ Loop \in Dispatchers
    BY <1>2 DEF Solved, Typed, Dispatchers
  <2> QED BY <1>2, <2>1, CallMailed DEF Solved, Typed
<1>3. CASE Stop
  <2>1. /\ mail' = [d \in Dispatchers |-> NoMail] /\ UNCHANGED <<stamp, sent, crossed>>
    BY <1>3 DEF Stop
  <2> QED BY <2>1 DEF Mailed, MailTypes, Alone, DueWhenSent, Busy, NoMail
<1>4. ASSUME NEW d \in Dispatchers, Retune(d) PROVE Mailed'
  <2>1. PICK a \in Agents : Call(d, a, clock)
    BY <1>4 DEF Retune
  <2> QED BY <1>4, <2>1, CallMailed DEF Retune, Typed
<1>5. ASSUME NEW d \in Dispatchers, CheckMail(d) PROVE Mailed'
  <2>1. CASE Over(d)
    BY <1>5, <2>1, OverMailed DEF CheckMail, Over, Busy
  <2>2. CASE /\ MailDue(mail[d].to, mail[d].now)
             /\ mail' = [mail EXCEPT ![d].stage = "sending"]
    <3>1. /\ mail'[d].stage = "sending" /\ mail'[d].to = mail[d].to
          /\ mail'[d].now = mail[d].now /\ Busy(d)
          /\ \A e \in Dispatchers \ {d} : mail'[e] = mail[e]
          /\ UNCHANGED <<stamp, sent, crossed>>
          /\ mail' \in [Dispatchers -> [stage : {"none", "called", "sending"},
                                        to : Agents \union {None}, now : Nat \union {None}]]
      BY <1>5, <2>2 DEF CheckMail, Mailed, MailTypes, Busy
    <3>2. MailTypes' /\ Alone'
      BY <3>1 DEF Mailed, MailTypes, Alone, Busy
    <3>3. \A e \in Dispatchers : DueWhenSent(e)'
      BY <2>2, <3>1 DEF Mailed, DueWhenSent, MailDue
    <3> QED BY <3>1, <3>2, <3>3 DEF Mailed
  <2> QED BY <1>5, <2>1, <2>2 DEF CheckMail
<1>6. ASSUME NEW d \in Dispatchers, SendMail(d) PROVE Mailed'
  BY <1>6, OverMailed DEF SendMail, Over, Busy
<1>7. BeginPass \/ Skip \/ Ensure \/ Attempt \/ EndPass \/ Failed \/ Refused
        \/ PatchSlider \/ SetDisabled \/ Tick \/ Rest \/ UNCHANGED vars
        => UNCHANGED mails
  BY DEF BeginPass, Skip, Ensure, Attempt, EndPass, Failed, Refused, PatchSlider,
         SetDisabled, Tick, Rest, vars
<1> QED BY <1>1, <1>2, <1>3, <1>4, <1>5, <1>6, <1>7
        DEF Next, LoopStep, SolveEnds, MailStep

-----------------------------------------------------------------------------
(* The attempts.                                                           *)

\* The last two of a sequence of at most three.
LEMMA LastTwoFact ==
  ASSUME NEW S, NEW x \in S, NEW s \in Seq(S), Len(s) \in {0, 1, 2}
  PROVE  LET t == LastTwo(Append(s, x))
         IN  /\ t \in Seq(S) /\ Len(t) \in {1, 2} /\ t[Len(t)] = x
             /\ Len(t) = 2 => Len(s) >= 1 /\ t[1] = s[Len(s)]
<1> DEFINE u == Append(s, x)
<1>1. Len(s) \in Nat
  BY LenProperties
<1>2. /\ u \in Seq(S) /\ Len(u) = Len(s) + 1 /\ u[Len(s) + 1] = x /\ u # <<>>
      /\ \A i \in 1..Len(s) : u[i] = s[i]
  BY <1>1, AppendProperties
<1> HIDE DEF u
<1>3. ASSUME Len(s) = 2
      PROVE  /\ LastTwo(u) \in Seq(S) /\ Len(LastTwo(u)) \in {1, 2}
             /\ LastTwo(u)[Len(LastTwo(u))] = x
             /\ Len(LastTwo(u)) = 2 => Len(s) >= 1 /\ LastTwo(u)[1] = s[Len(s)]
  <2>1. LastTwo(u) = Tail(u)
    BY <1>2, <1>3 DEF LastTwo
  <2>2. /\ Tail(u) \in Seq(S) /\ Len(Tail(u)) = 2
        /\ \A i \in 1..2 : Tail(u)[i] = u[i + 1]
    <3>1. /\ Tail(u) \in Seq(S) /\ Len(Tail(u)) = Len(u) - 1
          /\ \A i \in 1..Len(Tail(u)) : Tail(u)[i] = u[i + 1]
      BY <1>2, HeadTailProperties
    <3> QED BY <1>2, <1>3, <3>1, SMTT(30)
  <2>3. u[3] = x /\ u[2] = s[2]
    BY <1>2, <1>3
  <2>4. /\ Tail(u) \in Seq(S) /\ Len(Tail(u)) = 2 /\ Tail(u)[2] = x /\ Tail(u)[1] = s[2]
    BY <2>2, <2>3, SMTT(30)
  <2>5. /\ LastTwo(u) \in Seq(S) /\ Len(LastTwo(u)) = 2
        /\ LastTwo(u)[2] = x /\ LastTwo(u)[1] = s[2]
    BY <2>1, <2>4
  <2>6. LastTwo(u)[Len(LastTwo(u))] = x /\ LastTwo(u)[1] = s[Len(s)] /\ Len(s) >= 1
    BY <1>3, <2>5
  <2> QED BY <2>5, <2>6
<1>4. ASSUME Len(s) # 2
      PROVE  /\ LastTwo(u) \in Seq(S) /\ Len(LastTwo(u)) \in {1, 2}
             /\ LastTwo(u)[Len(LastTwo(u))] = x
             /\ Len(LastTwo(u)) = 2 => Len(s) >= 1 /\ LastTwo(u)[1] = s[Len(s)]
  <2>1. Len(s) = 0 \/ Len(s) = 1
    BY <1>4
  <2>2. Len(u) = 1 \/ Len(u) = 2
    BY <1>2, <2>1
  <2>3. LastTwo(u) = u
    BY <1>2, <2>2 DEF LastTwo
  <2>4. LastTwo(u)[Len(s) + 1] = x /\ Len(LastTwo(u)) = Len(s) + 1
    BY <1>2, <2>3
  <2>5. Len(LastTwo(u)) = 2 => Len(s) >= 1 /\ LastTwo(u)[1] = s[Len(s)]
    <3>1. CASE Len(s) = 0
      BY <2>4, <3>1
    <3>2. CASE Len(s) = 1
      BY <1>2, <2>3, <3>2
    <3> QED BY <2>1, <3>1, <3>2
  <2> QED BY <1>2, <2>1, <2>2, <2>3, <2>4, <2>5
<1> QED BY <1>3, <1>4 DEF u

\* An attempt begins in a later pass than the one before, by the backoff.
LEMMA AttemptSpaced ==
  ASSUME Typed, Spaced, Attempt
  PROVE  Spaced'
<1>0. /\ Head(left) \in Agents /\ BackedOff(Head(left))
      /\ ages' = [ages EXCEPT ![Head(left)] = LastTwo(Append(ages[Head(left)], 0))]
      /\ attempted' = [attempted EXCEPT ![Head(left)] = passNow]
      /\ phase = "visiting" /\ UNCHANGED <<clock, passNow>>
  BY DEF Attempt, Typed, Skipped, StampAttempt
<1>1. PICK a \in Agents :
        /\ passNow - attempted[a] >= Backoff
        /\ ages' = [ages EXCEPT ![a] = LastTwo(Append(ages[a], 0))]
        /\ attempted' = [attempted EXCEPT ![a] = passNow]
        /\ phase = "visiting" /\ UNCHANGED <<clock, passNow>>
  BY <1>0 DEF BackedOff
<1> DEFINE t == LastTwo(Append(ages[a], 0))
<1>2. /\ t \in Seq(Ages) /\ Len(t) \in {1, 2} /\ t[Len(t)] = 0
      /\ Len(t) = 2 => Len(ages[a]) >= 1 /\ t[1] = ages[a][Len(ages[a])]
  <2>1. 0 \in Ages
    BY BoundsAssumption DEF Ages
  <2> QED BY <1>1, <2>1, LastTwoFact DEF Spaced, AgesTyped
<1>3. /\ ages'[a] = t /\ attempted'[a] = passNow
      /\ \A b \in Agents \ {a} : ages'[b] = ages[b] /\ attempted'[b] = attempted[b]
      /\ DOMAIN ages' = Agents
  BY <1>1 DEF Spaced, Typed
<1> HIDE DEF t
<1>4. \A b \in Agents : AgesTyped(b)'
  BY <1>2, <1>3 DEF Spaced, AgesTyped
<1>5. \A b \in Agents : LastBefore(b)'
  BY <1>1, <1>3 DEF Spaced, LastBefore, InPass
<1>6. FirstBefore(a)'
  <2>1. CASE Len(t) = 2
    <3>1. \/ t[1] = Backoff \/ clock - t[1] <= passNow \/ attempted[a] = passNow
      BY <1>1, <1>2, <2>1 DEF Spaced, LastBefore, InPass
    <3>2. attempted[a] # passNow
      BY <1>1, BoundsAssumption DEF Typed
    <3> QED BY <1>1, <1>3, <3>1, <3>2 DEF FirstBefore
  <2> QED BY <1>3, <2>1 DEF FirstBefore
<1>7. \A b \in Agents \ {a} : FirstBefore(b)'
  BY <1>1, <1>3 DEF Spaced, FirstBefore
<1> QED BY <1>3, <1>4, <1>5, <1>6, <1>7 DEF Spaced

\* Time passes for every age that still counts.
LEMMA TickSpaced ==
  ASSUME Typed, Spaced, Tick
  PROVE  Spaced'
<1>1. /\ clock' = clock + 1 /\ clock \in Nat /\ Backoff \in Nat
      /\ UNCHANGED <<phase, passNow, attempted>>
      /\ ages' = [a \in Agents |-> [i \in 1..Len(ages[a]) |->
                    IF ages[a][i] < Backoff THEN ages[a][i] + 1 ELSE Backoff]]
  BY BoundsAssumption DEF Tick, Typed, loop
<1>2. ASSUME NEW a \in Agents
      PROVE  /\ AgesTyped(a)' /\ Len(ages'[a]) = Len(ages[a])
             /\ \A i \in 1..Len(ages[a]) :
                  /\ ages[a][i] \in Nat /\ ages'[a][i] \in Nat
                  /\ ages'[a][i] = Backoff \/ ages'[a][i] = ages[a][i] + 1
  <2>1. PICK n \in {0, 1, 2} : Len(ages[a]) = n /\ ages[a] \in Seq(Ages)
    BY DEF Spaced, AgesTyped
  <2>2. \A i \in 1..n : ages[a][i] \in Ages
    BY <2>1
  <2>3. ages'[a] = [i \in 1..n |-> IF ages[a][i] < Backoff THEN ages[a][i] + 1 ELSE Backoff]
    BY <1>1, <2>1
  <2>4. \A i \in 1..n :
          /\ ages[a][i] \in Nat /\ ages'[a][i] \in Ages /\ ages'[a][i] \in Nat
          /\ ages'[a][i] = Backoff \/ ages'[a][i] = ages[a][i] + 1
    BY <1>1, <2>2, <2>3 DEF Ages
  <2>5. ages'[a] \in Seq(Ages) /\ Len(ages'[a]) = n
    BY <2>3, <2>4
  <2> QED BY <2>1, <2>4, <2>5 DEF AgesTyped
<1>3. \A a \in Agents : LastBefore(a)'
  <2> SUFFICES ASSUME NEW a \in Agents, Len(ages[a]) >= 1, InPass
               PROVE  LET age == ages'[a][Len(ages[a])]
                      IN  age = Backoff \/ clock' - age <= passNow \/ attempted[a] = passNow
    BY <1>1, <1>2 DEF LastBefore, InPass
  <2>1. Len(ages[a]) \in 1..Len(ages[a])
    BY DEF Spaced, AgesTyped
  <2>2. LET age == ages[a][Len(ages[a])]
        IN  age = Backoff \/ clock - age <= passNow \/ attempted[a] = passNow
    BY DEF Spaced, LastBefore
  <2>3. passNow \in Nat
    BY DEF Typed
  <2>4. /\ ages[a][Len(ages[a])] \in Nat /\ ages'[a][Len(ages[a])] \in Nat
        /\ \/ ages'[a][Len(ages[a])] = Backoff
           \/ ages'[a][Len(ages[a])] = ages[a][Len(ages[a])] + 1
    BY <1>2, <2>1
  <2>5. ages[a][Len(ages[a])] = Backoff => ages'[a][Len(ages[a])] = Backoff
    BY <1>1, <2>1 DEF Spaced, AgesTyped
  <2> QED BY <1>1, <2>2, <2>3, <2>4, <2>5
<1>4. \A a \in Agents : FirstBefore(a)'
  <2> SUFFICES ASSUME NEW a \in Agents, Len(ages[a]) = 2
               PROVE  ages'[a][1] = Backoff \/ clock' - ages'[a][1] <= attempted[a]
    BY <1>1, <1>2 DEF FirstBefore
  <2>1. ages[a][1] = Backoff \/ clock - ages[a][1] <= attempted[a]
    BY DEF Spaced, FirstBefore
  <2>2. attempted[a] \in Nat /\ 1 \in 1..Len(ages[a])
    BY DEF Typed
  <2>3. /\ ages[a][1] \in Nat /\ ages'[a][1] \in Nat
        /\ ages'[a][1] = Backoff \/ ages'[a][1] = ages[a][1] + 1
    BY <1>2, <2>2
  <2>4. ages[a][1] = Backoff => ages'[a][1] = Backoff
    BY <1>1, <2>2
  <2> QED BY <1>1, <2>1, <2>2, <2>3, <2>4
<1> QED BY <1>1, <1>2, <1>3, <1>4 DEF Spaced

\* Every step keeps Spaced.
LEMMA NextSpaced == Typed /\ Spaced /\ [Next]_vars => Spaced'
<1> SUFFICES ASSUME Typed, Spaced, [Next]_vars PROVE Spaced'
  OBVIOUS
<1>1. CASE /\ UNCHANGED <<clock, passNow, attempted, ages>> /\ (InPass' => InPass)
  BY <1>1 DEF Spaced, AgesTyped, LastBefore, FirstBefore
<1>2. CASE BeginPass
  <2>1. /\ UNCHANGED <<clock, attempted, ages>> /\ passNow' = clock
    BY <1>2 DEF BeginPass, runs
  <2>2. \A a \in Agents : LastBefore(a)'
    <3> SUFFICES ASSUME NEW a \in Agents, Len(ages[a]) >= 1
                 PROVE  clock - ages[a][Len(ages[a])] <= clock
      BY <2>1 DEF LastBefore
    <3>1. ages[a][Len(ages[a])] \in Ages
      BY DEF Spaced, AgesTyped
    <3> QED BY <3>1, BoundsAssumption DEF Typed, Ages
  <2> QED BY <2>1, <2>2 DEF Spaced, AgesTyped, FirstBefore
<1>3. CASE EndPass \/ Stop
  BY <1>3 DEF EndPass, Stop, runs, Spaced, AgesTyped, LastBefore, FirstBefore, InPass
<1>4. CASE Attempt
  BY <1>4, AttemptSpaced
<1>5. CASE Tick
  BY <1>5, TickSpaced
<1>6. Skip \/ Ensure \/ SolveEnds
        => UNCHANGED <<clock, passNow, attempted, ages>> /\ (InPass' => InPass)
  BY DEF Skip, Ensure, SolveEnds, Solved, Failed, Refused, runs, InPass
<1>7. ASSUME NEW d \in Dispatchers, MailStep(d) \/ Retune(d)
      PROVE  UNCHANGED <<clock, passNow, attempted, ages>> /\ (InPass' => InPass)
  BY <1>7 DEF MailStep, CheckMail, SendMail, Over, GoOn, Retune, loop, runs, InPass
<1>8. PatchSlider \/ SetDisabled \/ Rest \/ UNCHANGED vars
        => UNCHANGED <<clock, passNow, attempted, ages>> /\ (InPass' => InPass)
  BY DEF PatchSlider, SetDisabled, Rest, vars, loop, runs, InPass
<1> QED BY <1>1, <1>2, <1>3, <1>4, <1>5, <1>6, <1>7, <1>8 DEF Next, LoopStep

-----------------------------------------------------------------------------
\* The invariant holds in every state.
THEOREM Invariance == Spec => []IInv
<1>1. IInv /\ [Next]_vars => IInv'
  BY NextTyped, NextSwitched, NextMailed, NextSpaced DEF IInv
<1> QED BY InitIInv, <1>1, PTL DEF Spec

\* _next_rebalance_at: after the slider is Off, one scheduled rebalance at most.
THEOREM OffRunsOnceHolds == Spec => []OffRunsOnce
<1>1. IInv => OffRunsOnce
  BY DEF IInv, Switched, OffRunsOnce
<1> QED BY Invariance, <1>1, PTL

\* maybe_send_update_email: a window between two e-mails whose dispatches did not
\* overlap.
THEOREM MailsKeepWindowHolds == Spec => []MailsKeepWindow
<1>1. IInv => MailsKeepWindow
  BY DEF IInv, Mailed, MailTypes, DueWhenSent, Busy, MailsKeepWindow
<1> QED BY Invariance, <1>1, PTL

\* last_attempt_at: three attempts of an agent span the backoff, for any roster and
\* however long the solves of the others take.
THEOREM AttemptsSpreadHold == Spec => AttemptsSpread
<1>1. ASSUME IInv, [Next]_vars, NEW a \in Agents, phase = "visiting", phase' = "solving",
             Head(left) = a, Len(ages[a]) = 2
      PROVE  ages[a][1] = Backoff
  <2>1. Attempt
    BY <1>1 DEF Next, LoopStep, BeginPass, Skip, Ensure, EndPass, GoOn, Die, SolveEnds,
         Solved, Failed, Refused, Stop, MailStep, CheckMail, SendMail, Over, Retune,
         PatchSlider, SetDisabled, Tick, Rest, vars, loop
  <2>2. passNow - attempted[a] >= Backoff
    BY <1>1, <2>1 DEF Attempt, Skipped, BackedOff
  <2>3. ages[a][1] \in Ages
    BY <1>1 DEF IInv, Spaced, AgesTyped
  <2>4. ages[a][1] = Backoff \/ clock - ages[a][1] <= attempted[a]
    BY <1>1 DEF IInv, Spaced, FirstBefore
  <2> QED BY <1>1, <2>2, <2>3, <2>4, BoundsAssumption, SMTT(30) DEF IInv, Typed, Ages
<1>2. IInv /\ [Next]_vars
        => [\A a \in Agents : phase = "visiting" /\ phase' = "solving" /\ Head(left) = a
                               /\ Len(ages[a]) = 2 => ages[a][1] = Backoff]_vars
  BY <1>1
<1> QED BY Invariance, <1>2, PTL DEF Spec, AttemptsSpread
=============================================================================
