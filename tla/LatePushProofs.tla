--------------------------- MODULE LatePushProofs ---------------------------
(***************************************************************************)
(* A late row on its way to the phone, for any number of solves, valuation *)
(* frames, lost sockets and failed requests, and a queue of any length.    *)
(***************************************************************************)
EXTENDS LatePush, SequenceTheorems, TLAPS

\* Races of recorded jobs whose rows say settled only if they are.
TrueRaces ==
  {race \in [job : Jobs, pending : BOOLEAN] : race.pending \/ race.job \in settled}
Reads == {Idle, Asked, [at |-> "done"]} \union {Answer(race) : race \in TrueRaces \union {None}}
Frames == settled \union {Update}

\* Whatever is under way between the store and the page says of a row only what the
\* store has said before; a re-read is of a page with a race on it.
Honest ==
  /\ jobs \in Nat /\ settled \subseteq Jobs /\ publishing \subseteq settled
  /\ queue \in Seq(Frames) /\ wire \in Seq(Frames)
  /\ frame \in settled \union {None} /\ shown \in TrueRaces \union {None}
  /\ load \in Reads /\ reread \in Reads
  /\ retunes \subseteq {Asked} \union {Answer(race) : race \in TrueRaces}
  /\ reread # Idle => shown # None
  /\ reread.at = "answered" => reread.race # None

\* One retune is under way at most, and one sent behind the first load answers with a
\* race at least as new as the page's.
Ordered ==
  /\ \A r, s \in retunes : r = s
  /\ ~Open => retunes = {}
  /\ retunes # {} /\ ~early => load.at = "done"
  /\ \A r \in retunes :
       r.at = "answered" /\ ~early /\ shown # None => shown.job <= r.race.job

IInv == Honest /\ Ordered

-----------------------------------------------------------------------------
\* The kinds of answers differ.
LEMMA CallsFact ==
  /\ Idle.at = "idle" /\ Asked.at = "asked" /\ Idle # Asked
  /\ \A race : Answer(race).at = "answered" /\ Answer(race).race = race
  /\ Idle.at # "answered" /\ Asked.at # "answered"
  /\ \A race : Answer(race) # Idle /\ Answer(race) # Asked
BY DEF Idle, Asked, Answer

\* What was true stays true while jobs are recorded and rows settled.
LEMMA StaysTrue ==
  ASSUME Honest, jobs' \in Nat, jobs' >= jobs, settled \subseteq settled',
         settled' \subseteq Jobs'
  PROVE  /\ TrueRaces \subseteq TrueRaces' /\ Reads \subseteq Reads'
         /\ Frames \subseteq Frames'
         /\ \A s \in Seq(Frames) : s \in Seq(Frames')
<1>1. Jobs \subseteq Jobs'
  BY DEF Honest, Jobs
<1>2. TrueRaces \subseteq TrueRaces'
  BY <1>1 DEF TrueRaces
<1>3. Reads \subseteq Reads'
  BY <1>2 DEF Reads
<1>4. Frames \subseteq Frames'
  BY DEF Frames
<1>5. \A s \in Seq(Frames) : s \in Seq(Frames')
  BY <1>4
<1> QED BY <1>2, <1>3, <1>4, <1>5

\* A frame makes a race true that was.
LEMMA WithFrameTrue ==
  ASSUME Honest, NEW race \in TrueRaces, NEW f \in settled \union {None}
  PROVE  WithFrame(race, f) \in TrueRaces /\ WithFrame(race, f).job = race.job
<1>1. race \in [job : Jobs, pending : BOOLEAN] /\ race.job \in Nat
  BY DEF TrueRaces, Jobs, Honest
<1>2. CASE race.job = f
  <2>1. f \in settled
    BY <1>1, <1>2, BoundsAssumption
  <2>2. [race EXCEPT !.pending = FALSE] \in [job : Jobs, pending : BOOLEAN]
        /\ [race EXCEPT !.pending = FALSE].job = race.job
    BY <1>1
  <2> QED BY <1>2, <2>1, <2>2 DEF WithFrame, TrueRaces
<1>3. CASE race.job # f
  BY <1>3 DEF WithFrame
<1> QED BY <1>2, <1>3

\* A race from an answer shows as itself or with the last frame applied.
LEMMA ShowsTrue ==
  ASSUME Honest, NEW race \in TrueRaces, Shows(race)
  PROVE  shown' \in TrueRaces /\ shown'.job = race.job
<1>1. frame \in settled \union {None}
  BY DEF Honest
<1>2. WithFrame(race, frame) \in TrueRaces /\ WithFrame(race, frame).job = race.job
  BY <1>1, WithFrameTrue
<1> QED BY <1>2 DEF Shows

LEMMA NoneIsNoRace == None \notin TrueRaces
<1> SUFFICES ASSUME None \in TrueRaces PROVE FALSE
  OBVIOUS
<1>1. None \in [job : Nat, pending : BOOLEAN]
  BY DEF TrueRaces, Jobs
<1> QED BY <1>1, BoundsAssumption

-----------------------------------------------------------------------------
\* The invariant holds at the start.
LEMMA InitIInv == Init => IInv
<1> SUFFICES ASSUME Init PROVE IInv
  OBVIOUS
<1>1. Honest
  BY CallsFact DEF Init, Honest, Reads, Frames, Jobs
<1>2. Ordered
  BY DEF Init, Ordered, Open
<1> QED BY <1>1, <1>2 DEF IInv

-----------------------------------------------------------------------------
(* Honesty, step by step.                                                  *)

\* What latest_result reads is true.
LEMMA LatestTrue ==
  ASSUME Honest
  PROVE  /\ Latest \in TrueRaces \union {None}
         /\ jobs # 0 => Latest \in TrueRaces
<1>1. CASE jobs = 0
  BY <1>1 DEF Latest
<1>2. CASE jobs # 0
  <2>1. jobs \in Jobs
    BY <1>2 DEF Honest, Jobs
  <2>2. Latest = [job |-> jobs, pending |-> jobs \notin settled]
    BY <1>2 DEF Latest, Race
  <2>3. (jobs \notin settled) \in BOOLEAN
    OBVIOUS
  <2>4. Latest \in [job : Jobs, pending : BOOLEAN]
    BY <2>1, <2>2, <2>3
  <2>5. Latest.pending \/ Latest.job \in settled
    BY <2>2
  <2> QED BY <2>4, <2>5 DEF TrueRaces
<1> QED BY <1>1, <1>2

\* A solve is recorded: one more race, its row pending or settled.
LEMMA RecordFact ==
  ASSUME Honest, NEW pending \in BOOLEAN, Record(pending)
  PROVE  /\ jobs' = jobs + 1 /\ jobs' \in Nat /\ jobs' >= jobs
         /\ settled \subseteq settled' /\ settled' \subseteq Jobs'
         /\ Race(jobs', pending) \in TrueRaces'
         /\ publishing' = publishing
<1>1. jobs' = jobs + 1 /\ jobs \in Nat /\ publishing' = publishing
  BY DEF Record, Honest
<1>2. settled' = IF pending THEN settled ELSE settled \union {jobs'}
  BY DEF Record
<1>3. Jobs \subseteq Jobs' /\ jobs' \in Jobs'
  BY <1>1 DEF Jobs
<1>4. settled \subseteq settled' /\ settled' \subseteq Jobs'
  BY <1>2, <1>3 DEF Honest
<1>5. Race(jobs', pending) \in TrueRaces'
  BY <1>2, <1>3 DEF Race, TrueRaces
<1> QED BY <1>1, <1>4, <1>5

\* The steps that only record a solve or settle a row.
LEMMA StoreHonest ==
  ASSUME Honest, OtherSolve \/ Settle
  PROVE  Honest'
<1>1. CASE OtherSolve
  <2>1. PICK pending \in BOOLEAN : Record(pending)
    BY <1>1 DEF OtherSolve
  <2>2. /\ jobs' \in Nat /\ jobs' >= jobs
        /\ settled \subseteq settled' /\ settled' \subseteq Jobs'
        /\ publishing' = publishing
    BY <2>1, RecordFact
  <2>3. /\ TrueRaces \subseteq TrueRaces' /\ Reads \subseteq Reads'
        /\ \A s \in Seq(Frames) : s \in Seq(Frames')
    BY <2>2, StaysTrue
  <2> QED BY <1>1, <2>2, <2>3 DEF OtherSolve, Honest, socket, page, calls
<1>2. CASE Settle
  <2>1. PICK j \in Jobs \ settled :
          settled' = settled \union {j} /\ publishing' = publishing \union {j}
    BY <1>2 DEF Settle
  <2>2. jobs' = jobs /\ jobs' \in Nat /\ Jobs' = Jobs
    BY <1>2 DEF Settle, Honest, Jobs
  <2>3. settled \subseteq settled' /\ settled' \subseteq Jobs' /\ publishing' \subseteq settled'
    BY <2>1, <2>2 DEF Honest
  <2>4. jobs' >= jobs
    BY <2>2 DEF Honest
  <2>5. /\ TrueRaces \subseteq TrueRaces' /\ Reads \subseteq Reads'
        /\ \A s \in Seq(Frames) : s \in Seq(Frames')
    BY <2>2, <2>3, <2>4, StaysTrue
  <2> QED BY <1>2, <2>2, <2>3, <2>5 DEF Settle, Honest, socket, page, calls
<1> QED BY <1>1, <1>2

\* The frames' steps leave the store as it is.
LEMMA FramesHonest ==
  ASSUME Honest, PublishResult \/ PublishUpdate \/ Pump \/ Accept \/ Receive \/ Drop
  PROVE  Honest'
<1>1. CASE PublishResult
  <2>1. PICK j \in publishing : publishing' = publishing \ {j} /\ Publish(j)
    BY <1>1 DEF PublishResult
  <2>2. j \in Frames
    BY DEF Honest, Frames
  <2>3. queue' \in Seq(Frames) /\ wire' = wire
    BY <2>1, <2>2 DEF Publish, Honest
  <2> QED BY <1>1, <2>1, <2>3 DEF PublishResult, Honest, page, calls, Frames, TrueRaces,
                                   Reads, Jobs
<1>2. CASE PublishUpdate
  <2>1. Update \in Frames
    BY DEF Frames
  <2>2. queue' \in Seq(Frames) /\ wire' = wire
    BY <1>2, <2>1 DEF PublishUpdate, Publish, Honest
  <2> QED BY <1>2, <2>2 DEF PublishUpdate, Honest, server, page, calls, Frames, TrueRaces,
                             Reads, Jobs
<1>3. CASE Pump
  <2>1. queue' \in Seq(Frames) /\ wire' \in Seq(Frames)
    BY <1>3 DEF Pump, Honest
  <2> QED BY <1>3, <2>1 DEF Pump, Honest, server, page, calls, Frames, TrueRaces, Reads, Jobs
<1>4. CASE Accept
  <2>1. queue' \in Seq(Frames) /\ wire' \in Seq(Frames)
    BY <1>4 DEF Accept
  <2> QED BY <1>4, <2>1 DEF Accept, Honest, server, page, calls, Frames, TrueRaces, Reads,
                             Jobs
<1>5. CASE Receive
  <2>1. wire' \in Seq(Frames) /\ Head(wire) \in Frames
    BY <1>5 DEF Receive, Honest
  <2>2. CASE Head(wire) = Update
    BY <1>5, <2>1, <2>2 DEF Receive, Honest, server, calls, Frames, TrueRaces, Reads, Jobs
  <2>3. CASE Head(wire) # Update
    <3>1. Head(wire) \in settled /\ frame' = Head(wire)
      BY <1>5, <2>1, <2>3 DEF Receive, Frames
    <3>2. shown' = WithFrame(shown, Head(wire))
      BY <1>5, <2>3 DEF Receive
    <3>3. shown' \in TrueRaces \union {None} /\ (shown # None => shown' \in TrueRaces)
      <4>1. CASE shown = None
        BY <3>2, <4>1 DEF WithFrame
      <4>2. CASE shown # None
        BY <3>1, <3>2, <4>2, WithFrameTrue DEF Honest
      <4> QED BY <4>1, <4>2
    <3> QED BY <1>5, <2>1, <3>1, <3>3, NoneIsNoRace
            DEF Receive, Honest, server, calls, Frames, TrueRaces, Reads, Jobs
  <2> QED BY <2>2, <2>3
<1>6. CASE Drop
  <2>1. queue' \in Seq(Frames) /\ wire' \in Seq(Frames)
    BY <1>6 DEF Drop
  <2> QED BY <1>6, <2>1, CallsFact DEF Drop, Honest, server, Frames, TrueRaces, Reads, Jobs
<1> QED BY <1>1, <1>2, <1>3, <1>4, <1>5, <1>6

\* Requests are sent, answered and fail.
LEMMA RequestsHonest ==
  ASSUME Honest,
         \/ ReadForLoad \/ ReadForReread \/ OpenPage \/ LoadFails \/ Retune \/ RetuneFails
         \/ Live \/ RereadFails
  PROVE  Honest'
<1>1. CASE ReadForLoad
  <2>1. load' \in Reads
    BY <1>1, LatestTrue DEF ReadForLoad, Reads
  <2> QED BY <1>1, <2>1 DEF ReadForLoad, Honest, server, socket, page, Frames, TrueRaces,
                             Reads, Jobs
<1>2. CASE ReadForReread
  <2>1. shown # None
    BY <1>2, CallsFact DEF ReadForReread, Honest
  <2>2. jobs # 0
    BY <2>1 DEF Honest, TrueRaces, Jobs
  <2>3. Latest \in TrueRaces /\ Latest # None
    BY <2>2, LatestTrue, NoneIsNoRace
  <2>4. reread' \in Reads /\ reread'.race # None
    BY <1>2, <2>3, CallsFact DEF ReadForReread, Reads
  <2> QED BY <1>2, <2>1, <2>4 DEF ReadForReread, Honest, server, socket, page, Frames,
                                   TrueRaces, Reads, Jobs
<1>3. CASE OpenPage
  BY <1>3 DEF OpenPage, Honest, server, socket, Frames, TrueRaces, Reads, Jobs
<1>4. CASE LoadFails
  BY <1>4 DEF LoadFails, LoadEnds, Honest, server, socket, page, Frames, TrueRaces, Reads,
              Jobs
<1>5. CASE Retune
  BY <1>5 DEF Retune, Honest, server, socket, page, Frames, TrueRaces, Reads, Jobs
<1>6. CASE RetuneFails
  BY <1>6 DEF RetuneFails, Honest, server, socket, page, Frames, TrueRaces, Reads, Jobs
<1>7. CASE Live
  BY <1>7, CallsFact DEF Live, RereadIfPending, Honest, server, socket, Frames, TrueRaces,
                          Reads, Jobs
<1>8. CASE RereadFails
  BY <1>8, CallsFact DEF RereadFails, Honest, server, socket, page, Frames, TrueRaces,
                          Reads, Jobs
<1> QED BY <1>1, <1>2, <1>3, <1>4, <1>5, <1>6, <1>7, <1>8

\* A retune is solved: its answer says of the row what the store says.
LEMMA SolveHonest ==
  ASSUME Honest, Solve
  PROVE  Honest'
<1>1. PICK pending \in BOOLEAN :
        /\ Record(pending)
        /\ retunes' = (retunes \ {Asked}) \union {Answer(Race(jobs', pending))}
  BY DEF Solve
<1>2. /\ jobs' \in Nat /\ jobs' >= jobs
      /\ settled \subseteq settled' /\ settled' \subseteq Jobs'
      /\ Race(jobs', pending) \in TrueRaces' /\ publishing' = publishing
  BY <1>1, RecordFact
<1>3. /\ TrueRaces \subseteq TrueRaces' /\ Reads \subseteq Reads'
      /\ \A s \in Seq(Frames) : s \in Seq(Frames')
  BY <1>2, StaysTrue
<1>4. retunes' \subseteq {Asked} \union {Answer(race) : race \in TrueRaces'}
  BY <1>1, <1>2, <1>3 DEF Honest
<1> QED BY <1>2, <1>3, <1>4 DEF Solve, Honest, socket, page

\* Answers arrive on the page.
LEMMA ArrivalsHonest ==
  ASSUME Honest, LoadArrives \/ RetuneAnswered \/ RereadArrives
  PROVE  /\ Honest'
         /\ shown # None => shown' # None
<1>1. CASE LoadArrives
  <2>1. load.race \in TrueRaces \union {None}
    BY <1>1, CallsFact DEF LoadArrives, Honest, Reads
  <2>2. shown' \in TrueRaces \union {None} /\ (shown # None => shown' # None)
    BY <1>1, <2>1, ShowsTrue, NoneIsNoRace DEF LoadArrives, Honest
  <2> QED BY <1>1, <2>2 DEF LoadArrives, LoadEnds, Honest, server, socket, Frames,
                             TrueRaces, Reads, Jobs
<1>2. CASE RetuneAnswered
  <2>1. PICK r \in retunes : r.at = "answered" /\ retunes' = retunes \ {r} /\ Shows(r.race)
    BY <1>2 DEF RetuneAnswered
  <2>2. r.race \in TrueRaces
    BY <2>1, CallsFact DEF Honest
  <2>3. shown' \in TrueRaces /\ shown' # None
    BY <2>1, <2>2, ShowsTrue, NoneIsNoRace
  <2> QED BY <1>2, <2>1, <2>3 DEF RetuneAnswered, Honest, server, socket, Frames, TrueRaces,
                                   Reads, Jobs
<1>3. CASE RereadArrives
  <2>1. reread.race \in TrueRaces /\ shown # None
    BY <1>3, CallsFact DEF RereadArrives, Honest, Reads
  <2>2. shown' = shown \/ shown' = reread.race
    BY <1>3 DEF RereadArrives, TakeRows
  <2> QED BY <1>3, <2>1, <2>2, NoneIsNoRace, CallsFact
          DEF RereadArrives, Honest, server, socket, Frames, TrueRaces, Reads, Jobs
<1> QED BY <1>1, <1>2, <1>3

-----------------------------------------------------------------------------
\* Every step keeps honesty, and a race on the page gives way to a race only.
LEMMA NextHonest ==
  ASSUME Honest, [Next]_vars
  PROVE  Honest'
<1>1. CASE UNCHANGED vars
  BY <1>1 DEF vars, server, socket, page, calls, Honest, Frames, TrueRaces, Reads, Jobs
<1>2. CASE Rest
  BY <1>1, <1>2 DEF Rest
<1> QED BY <1>1, <1>2, StoreHonest, FramesHonest, RequestsHonest, SolveHonest, ArrivalsHonest
        DEF Next, Server, Page

-----------------------------------------------------------------------------
(* Order.                                                                  *)

\* The race of a page keeps its job when a frame is applied to it.
LEMMA ReceiveKeepsJob ==
  ASSUME Honest, Receive
  PROVE  /\ shown = None => shown' = None
         /\ shown # None => shown'.job = shown.job
<1>1. Head(wire) \in Frames
  BY DEF Receive, Honest
<1>2. shown' = shown \/ (shown' = WithFrame(shown, Head(wire)) /\ Head(wire) \in settled)
  BY <1>1 DEF Receive, Frames
<1>3. shown # None => shown \in TrueRaces
  BY DEF Honest
<1>4. shown = None => WithFrame(shown, Head(wire)) = None
  BY DEF WithFrame
<1>5. shown # None /\ Head(wire) \in settled
        => WithFrame(shown, Head(wire)).job = shown.job
  BY <1>3, WithFrameTrue
<1> QED BY <1>2, <1>4, <1>5

\* The page's race changes its job only with an answer to the load or to a retune.
LEMMA JobKept ==
  ASSUME Honest, [Next]_vars, ~LoadArrives, ~RetuneAnswered
  PROVE  /\ shown = None => shown' = None
         /\ shown # None => shown'.job = shown.job
<1>1. CASE Receive
  BY <1>1, ReceiveKeepsJob
<1>2. CASE RereadArrives
  <2>1. shown # None
    BY <1>2, CallsFact DEF RereadArrives, Honest
  <2> QED BY <1>2, <2>1 DEF RereadArrives, TakeRows
<1>3. CASE ~Receive /\ ~RereadArrives
  <2>1. shown' = shown
    BY <1>3 DEF Next, Server, Page, OtherSolve, Settle, PublishResult, PublishUpdate, Pump,
         Accept, ReadForLoad, ReadForReread, Solve, OpenPage, LoadFails, Retune, RetuneFails,
         Live, RereadFails, Drop, Rest, vars, page
  <2> QED BY <2>1
<1> QED BY <1>1, <1>2, <1>3

\* The steps of a retune.
LEMMA RetuneOrdered ==
  ASSUME IInv, Retune \/ RetuneFails \/ Solve \/ RetuneAnswered
  PROVE  Ordered'
<1>1. CASE Retune
  <2>1. retunes' = {Asked} /\ early' = (load.at # "done") /\ load' = load /\ Open'
    BY <1>1 DEF Retune, page, Open
  <2> QED BY <2>1, CallsFact DEF Ordered
<1>2. CASE RetuneFails
  <2>1. /\ retunes' \subseteq retunes /\ retunes # {}
        /\ UNCHANGED <<shown, load, early>> /\ (Open => Open')
    BY <1>2 DEF RetuneFails, page, Open
  <2> QED BY <2>1 DEF IInv, Ordered
<1>3. CASE Solve
  <2>1. PICK pending \in BOOLEAN :
          /\ retunes' = {Answer(Race(jobs + 1, pending))} /\ retunes # {}
          /\ UNCHANGED <<shown, load, early>> /\ (Open => Open')
    BY <1>3 DEF Solve, Record, page, Open, IInv, Ordered
  <2>2. Answer(Race(jobs + 1, pending)).race.job = jobs + 1
    BY CallsFact DEF Race
  <2>3. shown # None => shown.job <= jobs + 1
    BY DEF IInv, Honest, TrueRaces, Jobs
  <2> QED BY <2>1, <2>2, <2>3 DEF IInv, Ordered
<1>4. CASE RetuneAnswered
  <2>1. retunes' = {}
    BY <1>4 DEF RetuneAnswered, IInv, Ordered
  <2> QED BY <2>1 DEF Ordered
<1> QED BY <1>1, <1>2, <1>3, <1>4

\* Every step keeps the order.
LEMMA NextOrdered ==
  ASSUME IInv, [Next]_vars
  PROVE  Ordered'
<1>1. CASE Retune \/ RetuneFails \/ Solve \/ RetuneAnswered
  BY <1>1, RetuneOrdered
<1>2. CASE LoadArrives
  <2>1. load.at # "done" /\ UNCHANGED <<retunes, early>> /\ (Open => Open')
    BY <1>2 DEF LoadArrives, Open
  <2>2. load'.at = "done"
    BY <1>2 DEF LoadArrives, LoadEnds
  <2> QED BY <2>1, <2>2 DEF IInv, Ordered
<1>3. CASE LoadFails \/ ReadForLoad
  <2>1. load.at # "done" /\ UNCHANGED <<retunes, early, shown, status>>
    BY <1>3, CallsFact DEF LoadFails, ReadForLoad, page
  <2> QED BY <2>1 DEF IInv, Ordered, Open
<1>4. CASE OpenPage
  <2>1. retunes = {} /\ retunes' = {}
    BY <1>4 DEF OpenPage, IInv, Ordered
  <2> QED BY <2>1 DEF Ordered
<1>5. CASE ~(Retune \/ RetuneFails \/ Solve \/ RetuneAnswered \/ LoadArrives
              \/ OpenPage \/ LoadFails \/ ReadForLoad)
  <2>1. UNCHANGED <<retunes, early, load>> /\ (Open => Open')
    BY <1>5 DEF Next, Server, Page, OtherSolve, Settle, PublishResult, PublishUpdate, Pump,
         Accept, ReadForReread, RereadArrives, Live, Receive, RereadFails, Drop, Rest, vars,
         calls, page, Open
  <2>2. /\ shown = None => shown' = None
        /\ shown # None => shown'.job = shown.job
    BY <1>5, JobKept DEF IInv
  <2> QED BY <2>1, <2>2 DEF IInv, Ordered
<1> QED BY <1>1, <1>2, <1>3, <1>4, <1>5

-----------------------------------------------------------------------------
\* The invariant holds in every state.
THEOREM Invariance == Spec => []IInv
<1>1. IInv /\ [Next]_vars => IInv'
  BY NextHonest, NextOrdered DEF IInv
<1> QED BY InitIInv, <1>1, PTL DEF Spec

\* applySolverResults and the re-read: a row shown as settled is settled in the store,
\* however many races, frames and requests cross each other.
THEOREM ShownIsTrueHolds == Spec => []ShownIsTrue
<1>1. IInv => ShownIsTrue
  BY DEF IInv, Honest, TrueRaces, ShownIsTrue
<1> QED BY Invariance, <1>1, PTL

\* Profile.tsx: behind the first load, no answer, frame or re-read brings an older race
\* back, for any number of races and lost sockets.
THEOREM NeverAnOlderRaceHolds == Spec => NeverAnOlderRace
<1>1. ASSUME IInv, [Next]_vars, shown # None, load.at = "done", ~early
      PROVE  shown'.job >= shown.job
  <2>1. shown.job \in Nat
    BY <1>1 DEF IInv, Honest, TrueRaces, Jobs
  <2>2. ~LoadArrives
    BY <1>1 DEF LoadArrives
  <2>3. CASE RetuneAnswered
    <3>1. PICK r \in retunes : r.at = "answered" /\ Shows(r.race)
      BY <2>3 DEF RetuneAnswered
    <3>2. r.race \in TrueRaces
      BY <1>1, <3>1, CallsFact DEF IInv, Honest
    <3>3. shown'.job = r.race.job /\ r.race.job \in Nat
      BY <1>1, <3>1, <3>2, ShowsTrue DEF IInv, Honest, TrueRaces, Jobs
    <3>4. shown.job <= r.race.job
      BY <1>1, <3>1 DEF IInv, Ordered
    <3> QED BY <2>1, <3>3, <3>4
  <2>4. CASE ~RetuneAnswered
    <3>1. shown'.job = shown.job
      BY <1>1, <2>2, <2>4, JobKept DEF IInv
    <3> QED BY <2>1, <3>1
  <2> QED BY <2>3, <2>4
<1>2. IInv /\ [Next]_vars
        => [shown # None /\ load.at = "done" /\ ~early => shown'.job >= shown.job]_vars
  BY <1>1
<1> QED BY Invariance, <1>2, PTL DEF Spec, NeverAnOlderRace
=============================================================================
