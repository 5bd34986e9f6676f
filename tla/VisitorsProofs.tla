--------------------------- MODULE VisitorsProofs ---------------------------
(***************************************************************************)
(* Accounts, the limiter and the send-off, for any people, senders, limits *)
(* and spellings, ids that may collide, and any number of failures, deaths *)
(* and re-runs.                                                            *)
(***************************************************************************)
EXTENDS Visitors, SequenceTheorems, FiniteSetTheorems, FunctionTheorems, TLAPS

-----------------------------------------------------------------------------
(* The accounts.                                                           *)

Typed ==
  /\ served \in 0..MaxSignUps
  /\ DOMAIN memory \subseteq Ids /\ \A id \in DOMAIN memory : memory[id] \in Account
  /\ DOMAIN rows \subseteq Ids /\ \A id \in DOMAIN rows : rows[id] \in Account
  /\ signing \in Attempt \union {None}

\* The id that a sign-up under way has taken in memory, SQL not yet having it.
Holding(id) == signing # None /\ signing.id = id

\* Memory is SQL, but for the sign-up under way.
Backed ==
  /\ \A id \in DOMAIN memory : Holding(id) \/ (id \in DOMAIN rows /\ memory[id] = rows[id])
  /\ \A id \in Ids : Holding(id) => id \in DOMAIN memory /\ memory[id] = signing.account

\* A link's agent is in SQL for good, and in memory until its id is drawn again.
Opened ==
  \A l \in links :
    /\ l.id \in DOMAIN rows /\ rows[l.id].token = l.token
    /\ \/ l.id \in collided
       \/ l.id \in DOMAIN memory /\ memory[l.id].token = l.token /\ ~Holding(l.id)

Accounted == Typed /\ Backed /\ Opened /\ OneAgentPerEmail

-----------------------------------------------------------------------------
(* The send-off.                                                           *)

SendOff == [phase : {"off", "sending", "noting", "ended"}, list : Seq(Ids), todo : Seq(Ids),
            already : SUBSET Ids, failed : Nat]
InHand(id) == sendoff.phase = "noting" /\ id = Addressee
Running == sendoff.phase \in {"sending", "noting"}

\* Whom the file or the process knows of has had a mail; who had one is known of, or is
\* in hand, or a fault has hit the note; and a process without failures has mailed
\* everybody on its list but those it has still to do.
Delivered ==
  /\ sendoff \in SendOff /\ mailed \in [Ids -> Nat] /\ noted \subseteq Ids
  /\ sendoff.phase = "noting" => sendoff.todo # <<>>
  /\ sendoff.phase = "ended" => sendoff.todo = <<>>
  /\ Running => noted \subseteq sendoff.already
  /\ \A id \in Ids :
       /\ id \in noted \union sendoff.already \/ InHand(id) => mailed[id] >= 1
       /\ mailed[id] >= 1 => id \in noted \union doubted \/ InHand(id)
       /\ mailed[id] >= 2 => id \in doubted
  /\ sendoff.failed = 0 =>
       \A i \in 1..Len(sendoff.list) :
         \/ mailed[sendoff.list[i]] >= 1
         \/ \E k \in 1..Len(sendoff.todo) : sendoff.todo[k] = sendoff.list[i]

-----------------------------------------------------------------------------
(* The limiter, as facts of a deque, of the history and of the clock.      *)

History == Seq([sender : Senders, at : Nat])

\* The entries of a deque, and of the history, that are younger than c.
Younger(bucket, c) == {k \in 1..Len(bucket) : bucket[k] > c}
GrantedYounger(history, S, c) ==
  {i \in 1..Len(history) : history[i].sender \in S /\ history[i].at > c}
GrantedIn(history, S, window, t) ==
  {i \in GrantedYounger(history, S, t - window) : history[i].at <= t}

\* A deque's times are those of the clock, oldest first.
Ordered(bucket, clock) ==
  /\ bucket \in Seq(Nat)
  /\ \A k \in 1..Len(bucket) : bucket[k] <= clock
  /\ \A k, m \in 1..Len(bucket) : k <= m => bucket[k] <= bucket[m]

\* What a deque stands for: it may have lost entries, but of those that can still count
\* against a sign-up it has one for each that the senders in S were granted; and no
\* window of the history has more than the cap.
Tracks(bucket, history, clock, S, window, cap) ==
  /\ Ordered(bucket, clock)
  /\ \A c \in Int : c >= clock - window =>
       Cardinality(GrantedYounger(history, S, c)) = Cardinality(Younger(bucket, c))
  /\ \A t \in Int : Cardinality(GrantedIn(history, S, window, t)) <= cap

Public(ip) == {s \in Senders : s.ip = ip /\ ~s.trusted}

Limited ==
  /\ now \in Nat /\ granted \in History
  /\ \A i \in 1..Len(granted) : granted[i].at <= now
  /\ perIp \in [Ips -> Seq(Nat)]
  /\ Tracks(global, granted, now, Senders, Hour, PerHour)
  /\ PerIp > 0 => \A ip \in Ips : Tracks(perIp[ip], granted, now, Public(ip), Window, PerIp)

IInv == Accounted /\ Delivered /\ Limited

-----------------------------------------------------------------------------
(* The accounts, step by step.                                             *)

\* None is not an id, nor an attempt.
LEMMA NoneFact ==
  /\ None \notin Ids /\ None \notin Nat /\ None \notin Attempt
BY NoneAssumption

\* The limiter lets a sign-up through: an attempt begins, or the form is refused.
LEMMA RequestKeeps ==
  ASSUME Accounted, NEW s \in Senders, NEW p \in People, NEW ok \in BOOLEAN, Request(s, p, ok)
  PROVE  Accounted'
<1>1. /\ signing = None /\ served < MaxSignUps /\ served' = served + 1
      /\ UNCHANGED <<memory, rows, links, collided>>
  BY DEF Request, Grant
<1>2. served' \in 1..MaxSignUps /\ served' \in 0..MaxSignUps
  BY <1>1, LimitsAssumption DEF Accounted, Typed
<1>3. [address |-> p.address, optIn |-> p.optIn, token |-> served'] \in Account
  BY <1>2, PeopleAssumption DEF Account
<1>4. signing' \in Attempt \union {None} /\ (signing' = None \/ signing'.id = None)
  BY <1>3 DEF Request, Try, Attempt
<1>5. \A id \in Ids : ~Holding(id) /\ ~Holding(id)'
  BY <1>1, <1>4, NoneFact DEF Holding
<1>6. Typed'
  BY <1>1, <1>2, <1>4 DEF Accounted, Typed
<1>7. Backed'
  BY <1>1, <1>5 DEF Accounted, Typed, Backed
<1>8. Opened'
  BY <1>1, <1>5 DEF Accounted, Typed, Opened
<1> QED BY <1>1, <1>6, <1>7, <1>8 DEF Accounted, OneAgentPerEmail

\* A row in memory, under an id that may be in use.
LEMMA RegisterKeeps ==
  ASSUME Accounted, Register
  PROVE  Accounted'
<1>1. /\ signing # None /\ signing.id = None /\ signing \in Attempt
      /\ UNCHANGED <<rows, links, served>>
  BY DEF Register, Accounted, Typed
<1>2. \A id \in Ids : ~Holding(id)
  BY <1>1, NoneFact DEF Holding
<1>3. CASE NotSigning /\ UNCHANGED <<memory, collided>>
  <2>1. \A id \in Ids : ~Holding(id)'
    BY <1>3 DEF NotSigning, Holding
  <2> QED BY <1>1, <1>2, <1>3, <2>1
          DEF NotSigning, Accounted, Typed, Backed, Opened, OneAgentPerEmail
<1>4. ASSUME NEW id \in Ids,
             memory' = [i \in DOMAIN memory \union {id} |->
                          IF i = id THEN signing.account ELSE memory[i]],
             signing' = [signing EXCEPT !.id = id],
             collided' = collided \union ({id} \intersect DOMAIN memory)
      PROVE  Accounted'
  <2>1. signing' \in Attempt /\ signing'.id = id /\ signing'.account = signing.account
    BY <1>1, <1>4 DEF Attempt
  <2>2. \A i : Holding(i)' <=> i = id
    BY <2>1, NoneFact DEF Holding
  <2>3. signing.account \in Account
    BY <1>1 DEF Attempt
  <2>4. /\ DOMAIN memory' = DOMAIN memory \union {id} /\ memory'[id] = signing.account
        /\ \A i \in DOMAIN memory : i # id => memory'[i] = memory[i]
    BY <1>4
  <2>5. Typed'
    BY <1>1, <2>1, <2>3, <2>4 DEF Accounted, Typed
  <2>6. Backed'
    BY <1>1, <1>2, <2>1, <2>2, <2>4 DEF Accounted, Typed, Backed
  <2>7. Opened'
    BY <1>1, <1>2, <1>4, <2>2, <2>4 DEF Accounted, Typed, Opened
  <2> QED BY <1>1, <2>5, <2>6, <2>7 DEF Accounted, OneAgentPerEmail
<1> QED BY <1>3, <1>4 DEF Register

\* The row of the attempt joins SQL: no other one has its id or its address.
LEMMA StoredFact ==
  ASSUME Accounted, NEW id \in Ids, NEW account \in Account,
         Insertable(id, account), rows' = Stored(id, account)
  PROVE  /\ DOMAIN rows' = DOMAIN rows \union {id} /\ rows'[id] = account
         /\ \A i \in DOMAIN rows : rows'[i] = rows[i]
         /\ DOMAIN rows' \subseteq Ids /\ \A i \in DOMAIN rows' : rows'[i] \in Account
         /\ OneAgentPerEmail'
<1>1. /\ DOMAIN rows' = DOMAIN rows \union {id} /\ rows'[id] = account
      /\ id \notin DOMAIN rows /\ \A i \in DOMAIN rows : rows'[i] = rows[i]
  BY DEF Stored, Insertable
<1>2. \A i \in DOMAIN rows : /\ ~SameAddress(rows[i].address, account.address)
                             /\ ~SameAddress(account.address, rows[i].address)
  BY DEF Insertable, IndexedSame, SameAddress
<1>3. OneAgentPerEmail'
  BY <1>1, <1>2 DEF Accounted, OneAgentPerEmail, SameAddress
<1> QED BY <1>1, <1>3 DEF Accounted, Typed

LEMMA PoppedFact ==
  ASSUME NEW id, memory' = Popped(id)
  PROVE  /\ DOMAIN memory' = DOMAIN memory \ {id}
         /\ \A i \in DOMAIN memory' : memory'[i] = memory[i]
BY DEF Popped

\* The insert commits and the link is handed out.
LEMMA InsertKeeps ==
  ASSUME Accounted, Insert
  PROVE  Accounted'
<1> DEFINE id == signing.id
<1>1. /\ signing \in Attempt /\ id \in Ids /\ signing.account \in Account
      /\ Insertable(id, signing.account) /\ rows' = Stored(id, signing.account)
      /\ signing' = None /\ links' = links \union {Link}
      /\ UNCHANGED <<memory, collided, served>>
  BY DEF Insert, NotSigning, Accounted, Typed, Attempt
<1>2. /\ DOMAIN rows' = DOMAIN rows \union {id} /\ rows'[id] = signing.account
      /\ \A i \in DOMAIN rows : rows'[i] = rows[i]
      /\ DOMAIN rows' \subseteq Ids /\ \A i \in DOMAIN rows' : rows'[i] \in Account
      /\ OneAgentPerEmail'
  BY <1>1, StoredFact
<1>3. (\A i : Holding(i) <=> i = id) /\ \A i : ~Holding(i)'
  BY <1>1, NoneFact DEF Holding
<1>4. id \in DOMAIN memory /\ memory[id] = signing.account
  BY <1>1, <1>3 DEF Accounted, Backed
<1>5. Typed'
  BY <1>1, <1>2 DEF Accounted, Typed
<1>6. Backed'
  BY <1>1, <1>2, <1>3, <1>4 DEF Accounted, Backed
<1>7. Opened'
  BY <1>1, <1>2, <1>3, <1>4 DEF Accounted, Opened, Link
<1> QED BY <1>2, <1>5, <1>6, <1>7 DEF Accounted

\* The insert clashes or fails: the row leaves memory again.
LEMMA RollBackKeeps ==
  ASSUME Accounted, InsertClashes \/ InsertFails
  PROVE  Accounted'
<1> DEFINE id == signing.id
<1>1. /\ signing \in Attempt /\ signing # None /\ id \in Ids /\ signing.account \in Account
      /\ memory' = Popped(id)
      /\ UNCHANGED <<links, collided, served>>
  BY DEF InsertClashes, InsertFails, Accounted, Typed, Attempt
<1>2. \A i : Holding(i) <=> i = id
  BY <1>1 DEF Holding
<1>3. signing' \in Attempt \union {None} /\ \A i \in Ids : ~Holding(i)'
  <2>1. CASE InsertFails
    BY <2>1 DEF InsertFails, NotSigning, Holding
  <2>2. CASE InsertClashes
    <3>1. signing.tries \in 1..3
      BY <1>1 DEF Attempt
    <3>2. \/ signing' = None
          \/ signing.tries < 3 /\ signing' = Try(signing.account, signing.tries + 1)
      BY <2>2 DEF InsertClashes
    <3>3. signing.tries < 3 => Try(signing.account, signing.tries + 1) \in Attempt
      BY <1>1, <3>1 DEF Try, Attempt
    <3>4. Try(signing.account, signing.tries + 1).id = None
      BY DEF Try
    <3> QED BY <3>2, <3>3, <3>4, NoneFact DEF Holding
  <2> QED BY <2>1, <2>2
<1>4. /\ \A i \in DOMAIN rows : i \in DOMAIN rows' /\ rows'[i] = rows[i]
      /\ DOMAIN rows' \subseteq Ids /\ \A i \in DOMAIN rows' : rows'[i] \in Account
      /\ OneAgentPerEmail'
  <2>1. CASE rows' = rows
    BY <2>1 DEF Accounted, Typed, OneAgentPerEmail
  <2>2. CASE rows' # rows
    <3>1. Insertable(id, signing.account) /\ rows' = Stored(id, signing.account)
      BY <2>2 DEF InsertFails, InsertClashes
    <3> QED BY <1>1, <3>1, StoredFact
  <2> QED BY <2>1, <2>2
<1>5. /\ DOMAIN memory' = DOMAIN memory \ {id}
      /\ \A i \in DOMAIN memory' : memory'[i] = memory[i]
  BY <1>1, PoppedFact
<1>6. Typed'
  BY <1>1, <1>3, <1>4, <1>5 DEF Accounted, Typed
<1>7. Backed'
  BY <1>2, <1>3, <1>4, <1>5 DEF Accounted, Typed, Backed
<1>8. Opened'
  BY <1>1, <1>2, <1>3, <1>4, <1>5 DEF Accounted, Typed, Opened
<1> QED BY <1>4, <1>6, <1>7, <1>8 DEF Accounted

\* The service starts from SQL, or the booth closes.
LEMMA LoadKeeps ==
  ASSUME Accounted, Restart \/ Close
  PROVE  Accounted'
<1>1. /\ memory' = rows /\ rows' = rows /\ links' = links /\ served' = served
      /\ signing' = None /\ collided' = {}
  BY DEF Restart, Close, Cleared, NotSigning
<1>2. \A i : ~Holding(i)'
  BY <1>1 DEF Holding
<1> QED BY <1>1, <1>2 DEF Accounted, Typed, Backed, Opened, OneAgentPerEmail

SendOffStep ==
  Begin \/ Skip \/ Send \/ SendFails \/ Note \/ NoteFails \/ EndSendOff \/ SendOffDies

\* Every step keeps the accounts.
LEMMA NextAccounted ==
  ASSUME Accounted, [Next]_vars
  PROVE  Accounted'
<1>1. CASE SendOffStep \/ Tick \/ UNCHANGED vars \/ \E s \in Senders : Refuse(s)
  <2>1. UNCHANGED <<accounts, served>>
    BY <1>1 DEF SendOffStep, Begin, Skip, Send, SendFails, Note, NoteFails, EndSendOff,
         SendOffDies, Tick, Refuse, vars
  <2> QED BY <2>1 DEF accounts, Accounted, Typed, Backed, Opened, OneAgentPerEmail, Holding
<1> QED BY <1>1, RequestKeeps, RegisterKeeps, InsertKeeps, RollBackKeeps, LoadKeeps
        DEF Next, SendOffStep

-----------------------------------------------------------------------------
(* The send-off, step by step.                                             *)

\* Its list is a sequence of recipients.
LEMMA ListFact ==
  ASSUME Accounted, NEW all \in SetToSeqs(Recipients), NEW limit \in 0..Cardinality(Recipients)
  PROVE  SubSeq(all, 1, limit) \in Seq(Ids)
<1>1. Recipients \subseteq Ids
  BY DEF Recipients, Accounted, Typed
<1>2. Cardinality(Recipients) \in Nat
  BY <1>1, LimitsAssumption, FS_Subset, FS_CardinalityType
<1>3. all \in Seq(Recipients) /\ Len(all) = Cardinality(Recipients)
  BY <1>2 DEF SetToSeqs
<1>4. all \in Seq(Ids)
  BY <1>1, <1>3
<1> QED BY <1>2, <1>3, <1>4

\* A run begins with what the file says.
LEMMA BeginKeeps ==
  ASSUME IInv, Begin
  PROVE  Delivered'
<1>1. PICK all \in SetToSeqs(Recipients), limit \in 0..Cardinality(Recipients) :
        sendoff' = [phase |-> "sending", list |-> SubSeq(all, 1, limit),
                    todo |-> SubSeq(all, 1, limit), already |-> noted, failed |-> 0]
  BY DEF Begin
<1>2. SubSeq(all, 1, limit) \in Seq(Ids)
  BY <1>1, ListFact DEF IInv
<1>3. sendoff' \in SendOff
  BY <1>1, <1>2 DEF SendOff, IInv, Delivered
<1>4. /\ UNCHANGED <<noted, mailed, doubted>> /\ ~Running
      /\ sendoff'.phase = "sending" /\ sendoff'.already = noted
      /\ sendoff'.list = sendoff'.todo
  BY <1>1 DEF Begin, Running
<1> QED BY <1>3, <1>4 DEF IInv, Delivered, InHand, Running

\* The head of what is to do is an agent's id, the rest a shorter list.
LEMMA HeadFact ==
  ASSUME NEW s \in Seq(Ids), s # <<>>
  PROVE  /\ Head(s) \in Ids /\ Tail(s) \in Seq(Ids)
         /\ \A k \in 1..Len(s) : s[k] = Head(s) \/ \E m \in 1..Len(Tail(s)) : Tail(s)[m] = s[k]
<1>1. Head(s) = s[1] /\ Len(s) \in Nat \ {0} /\ s[1] \in Ids
  OBVIOUS
<1>2. Tail(s) \in Seq(Ids) /\ Len(Tail(s)) = Len(s) - 1
  OBVIOUS
<1>3. \A m \in 1..Len(Tail(s)) : Tail(s)[m] = s[m + 1]
  OBVIOUS
<1>4. ASSUME NEW k \in 1..Len(s), k # 1
      PROVE  \E m \in 1..Len(Tail(s)) : Tail(s)[m] = s[k]
  <2>1. k - 1 \in 1..Len(Tail(s)) /\ (k - 1) + 1 = k
    BY <1>1, <1>2, <1>4
  <2> QED BY <1>3, <2>1
<1> QED BY <1>1, <1>2, <1>4

\* What is left of a list after its head was mailed, or failed.
LEMMA RestFact ==
  ASSUME Delivered, sendoff.todo # <<>>, sendoff'.list = sendoff.list,
         sendoff'.todo = Tail(sendoff.todo),
         mailed' \in [Ids -> Nat], \A id \in Ids : mailed'[id] >= mailed[id],
         \/ sendoff'.failed = sendoff.failed /\ mailed'[Addressee] >= 1
         \/ sendoff'.failed = sendoff.failed + 1
  PROVE  sendoff'.failed = 0 =>
           \A i \in 1..Len(sendoff'.list) :
             \/ mailed'[sendoff'.list[i]] >= 1
             \/ \E k \in 1..Len(sendoff'.todo) : sendoff'.todo[k] = sendoff'.list[i]
<1> SUFFICES ASSUME sendoff'.failed = 0, NEW i \in 1..Len(sendoff.list)
             PROVE  \/ mailed'[sendoff.list[i]] >= 1
                    \/ \E k \in 1..Len(sendoff'.todo) : sendoff'.todo[k] = sendoff.list[i]
  OBVIOUS
<1>1. /\ sendoff.todo \in Seq(Ids) /\ sendoff.list \in Seq(Ids) /\ sendoff.failed \in Nat
      /\ mailed \in [Ids -> Nat]
  BY DEF Delivered, SendOff
<1>2. sendoff.failed = 0 /\ mailed'[Addressee] >= 1
  BY <1>1
<1>3. CASE mailed[sendoff.list[i]] >= 1
  <2>1. sendoff.list[i] \in Ids
    BY <1>1
  <2> QED BY <1>1, <1>3, <2>1
<1>4. CASE \E k \in 1..Len(sendoff.todo) : sendoff.todo[k] = sendoff.list[i]
  <2>1. PICK k \in 1..Len(sendoff.todo) : sendoff.todo[k] = sendoff.list[i]
    BY <1>4
  <2>2. sendoff.todo[k] = Addressee
          \/ \E m \in 1..Len(Tail(sendoff.todo)) : Tail(sendoff.todo)[m] = sendoff.todo[k]
    BY <1>1, HeadFact DEF Addressee
  <2> QED BY <1>2, <2>1, <2>2
<1> QED BY <1>2, <1>3, <1>4 DEF Delivered

\* One who has had a mail is passed over.
LEMMA SkipKeeps ==
  ASSUME Delivered, Skip
  PROVE  Delivered'
<1>1. /\ sendoff.phase = "sending" /\ sendoff.todo # <<>> /\ Addressee \in sendoff.already
      /\ sendoff' = [sendoff EXCEPT !.todo = Tail(@)]
      /\ UNCHANGED <<noted, mailed, doubted>>
  BY DEF Skip, Sending
<1>2. Tail(sendoff.todo) \in Seq(Ids) /\ Addressee \in Ids
  BY <1>1, HeadFact DEF Delivered, SendOff, Addressee
<1>3. /\ sendoff' \in SendOff /\ sendoff'.phase = "sending"
      /\ sendoff'.already = sendoff.already /\ sendoff'.list = sendoff.list
      /\ sendoff'.todo = Tail(sendoff.todo) /\ sendoff'.failed = sendoff.failed
  BY <1>1, <1>2 DEF Delivered, SendOff
<1>4. mailed[Addressee] >= 1
  BY <1>1, <1>2 DEF Delivered
<1>5. mailed' \in [Ids -> Nat] /\ \A id \in Ids : mailed'[id] >= mailed[id]
  BY <1>1 DEF Delivered
<1>6. sendoff'.failed = 0 =>
           \A i \in 1..Len(sendoff'.list) :
             \/ mailed'[sendoff'.list[i]] >= 1
             \/ \E k \in 1..Len(sendoff'.todo) : sendoff'.todo[k] = sendoff'.list[i]
  BY <1>1, <1>3, <1>4, <1>5, RestFact
<1> QED BY <1>1, <1>3, <1>5, <1>6 DEF Delivered, InHand, Running

\* A mail goes out: to one who has had none, or whose note a fault has hit.
LEMMA SendKeeps ==
  ASSUME Delivered, Send
  PROVE  Delivered'
<1>1. /\ sendoff.phase = "sending" /\ sendoff.todo # <<>> /\ Addressee \notin sendoff.already
      /\ mailed' = [mailed EXCEPT ![Addressee] = @ + 1]
      /\ sendoff' = [sendoff EXCEPT !.phase = "noting"]
      /\ UNCHANGED <<noted, doubted>>
  BY DEF Send, Sending, Deliver
<1>2. Addressee \in Ids
  BY <1>1, HeadFact DEF Delivered, SendOff, Addressee
<1>3. /\ sendoff' \in SendOff /\ sendoff'.phase = "noting"
      /\ sendoff'.already = sendoff.already /\ sendoff'.list = sendoff.list
      /\ sendoff'.todo = sendoff.todo /\ sendoff'.failed = sendoff.failed
  BY <1>1 DEF Delivered, SendOff
<1>4. Addressee' = Addressee
  BY <1>3 DEF Addressee
<1>5. /\ mailed' \in [Ids -> Nat] /\ mailed'[Addressee] = mailed[Addressee] + 1
      /\ \A id \in Ids : id # Addressee => mailed'[id] = mailed[id]
      /\ mailed[Addressee] \in Nat /\ \A id \in Ids : mailed[id] \in Nat
  BY <1>1, <1>2 DEF Delivered
<1>6. noted \subseteq sendoff.already /\ \A id \in Ids : ~InHand(id)
  BY <1>1 DEF Delivered, Running, InHand
<1>7. mailed[Addressee] >= 1 => Addressee \in doubted
  BY <1>1, <1>2, <1>6 DEF Delivered
<1>8. \A id \in Ids : InHand(id)' <=> id = Addressee
  BY <1>3, <1>4 DEF InHand
<1>9. \A id \in Ids :
       /\ id \in noted \union sendoff.already \/ InHand(id)' => mailed'[id] >= 1
       /\ mailed'[id] >= 1 => id \in noted \union doubted \/ InHand(id)'
       /\ mailed'[id] >= 2 => id \in doubted
  BY <1>5, <1>6, <1>7, <1>8 DEF Delivered
<1>10. sendoff.failed = 0 =>
       \A i \in 1..Len(sendoff.list) :
         \/ mailed'[sendoff.list[i]] >= 1
         \/ \E k \in 1..Len(sendoff.todo) : sendoff.todo[k] = sendoff.list[i]
  <2>1. \A i \in 1..Len(sendoff.list) : sendoff.list[i] \in Ids
    BY DEF Delivered, SendOff
  <2>2. \A id \in Ids : mailed[id] >= 1 => mailed'[id] >= 1
    BY <1>5
  <2> QED BY <2>1, <2>2 DEF Delivered
<1> QED BY <1>1, <1>3, <1>5, <1>6, <1>9, <1>10 DEF Delivered, Running

\* A send raises, with its mail delivered or not.
LEMMA SendFailsKeeps ==
  ASSUME Delivered, SendFails
  PROVE  Delivered'
<1>1. /\ sendoff.phase = "sending" /\ sendoff.todo # <<>> /\ Addressee \notin sendoff.already
      /\ sendoff' = [sendoff EXCEPT !.todo = Tail(@), !.failed = @ + 1]
      /\ noted' = noted
  BY DEF SendFails, Sending, Failed
<1>2. Tail(sendoff.todo) \in Seq(Ids) /\ Addressee \in Ids
  BY <1>1, HeadFact DEF Delivered, SendOff, Addressee
<1>3. /\ sendoff' \in SendOff /\ sendoff'.phase = "sending"
      /\ sendoff'.already = sendoff.already /\ sendoff'.list = sendoff.list
      /\ sendoff'.todo = Tail(sendoff.todo) /\ sendoff'.failed = sendoff.failed + 1
  <2>1. sendoff \in SendOff /\ sendoff.failed + 1 \in Nat
    BY DEF Delivered, SendOff
  <2> QED BY <1>1, <1>2, <2>1 DEF SendOff
<1>4. PICK n \in {0, 1} :
        /\ mailed' = [mailed EXCEPT ![Addressee] = @ + n]
        /\ doubted' = doubted \union (IF n = 1 THEN {Addressee} ELSE {})
  BY DEF SendFails, Deliver, Doubt
<1>5. /\ mailed' \in [Ids -> Nat] /\ mailed'[Addressee] = mailed[Addressee] + n
      /\ \A id \in Ids : id # Addressee => mailed'[id] = mailed[id]
      /\ \A id \in Ids : mailed[id] \in Nat
  BY <1>2, <1>4 DEF Delivered
<1>6. noted \subseteq sendoff.already /\ \A id \in Ids : ~InHand(id) /\ ~InHand(id)'
  BY <1>1, <1>3 DEF Delivered, Running, InHand
<1>7. \A id \in Ids : id \in doubted => id \in doubted'
  BY <1>4
<1>8. CASE n = 0
  BY <1>1, <1>3, <1>4, <1>5, <1>6, <1>8 DEF Delivered, Running, SendOff
<1>9. CASE n = 1
  <2>1. Addressee \in doubted'
    BY <1>4, <1>9
  <2>2. \A id \in Ids :
       /\ id \in noted \union sendoff.already => mailed'[id] >= 1
       /\ mailed'[id] >= 1 => id \in noted \union doubted'
       /\ mailed'[id] >= 2 => id \in doubted'
    BY <1>5, <1>6, <1>7, <1>9, <2>1 DEF Delivered
  <2>3. sendoff'.failed # 0
    BY <1>3 DEF Delivered, SendOff
  <2> QED BY <1>1, <1>3, <1>5, <1>6, <2>2, <2>3 DEF Delivered, Running
<1> QED BY <1>8, <1>9

\* The note is written, or raises and leaves the file as it was or empty.
LEMMA NoteKeeps ==
  ASSUME Delivered, Note \/ NoteFails
  PROVE  Delivered'
<1>1. /\ sendoff.phase = "noting" /\ mailed' = mailed
      /\ \/ sendoff' = [sendoff EXCEPT !.phase = "sending", !.todo = Tail(@),
                                       !.already = Noted(@)]
         \/ sendoff' = [sendoff EXCEPT !.phase = "sending", !.todo = Tail(@),
                                       !.already = Noted(@), !.failed = @ + 1]
  BY DEF Note, NoteFails
<1>2. sendoff.todo # <<>> /\ Running
  BY <1>1 DEF Delivered, Running
<1>3. Tail(sendoff.todo) \in Seq(Ids) /\ Addressee \in Ids
  BY <1>2, HeadFact DEF Delivered, SendOff, Addressee
<1>4. Noted(sendoff.already) = sendoff.already \union {Addressee}
  BY DEF Noted
<1>5. /\ sendoff' \in SendOff /\ sendoff'.phase = "sending"
      /\ sendoff'.already = sendoff.already \union {Addressee}
      /\ sendoff'.list = sendoff.list /\ sendoff'.todo = Tail(sendoff.todo)
      /\ sendoff'.failed \in {sendoff.failed, sendoff.failed + 1}
  <2>1. /\ sendoff \in SendOff /\ sendoff.failed + 1 \in Nat
        /\ Noted(sendoff.already) \in SUBSET Ids
    BY <1>3, <1>4 DEF Delivered, SendOff
  <2> QED BY <1>1, <1>3, <1>4, <2>1 DEF SendOff
<1>6. InHand(Addressee) /\ \A id \in Ids : InHand(id) <=> id = Addressee
  BY <1>1 DEF InHand
<1>7. \A id \in Ids : ~InHand(id)'
  BY <1>5 DEF InHand
<1>8. mailed[Addressee] >= 1 /\ \A id \in sendoff.already : id \in Ids
  BY <1>3, <1>6 DEF Delivered, SendOff
<1>9. noted \subseteq sendoff.already
  BY <1>2 DEF Delivered
<1>10. /\ noted' \subseteq sendoff'.already /\ doubted \subseteq doubted'
       /\ \A id \in Ids :
            id \in noted \union doubted \/ id = Addressee => id \in noted' \union doubted'
  <2>1. CASE Note
    BY <1>4, <1>5, <1>9, <2>1 DEF Note
  <2>2. CASE NoteFails
    BY <1>4, <1>5, <1>9, <2>2 DEF NoteFails, Doubt
  <2> QED BY <2>1, <2>2
<1>11. \A id \in Ids :
       /\ id \in noted' \union sendoff'.already => mailed[id] >= 1
       /\ mailed[id] >= 1 => id \in noted' \union doubted'
       /\ mailed[id] >= 2 => id \in doubted'
  BY <1>5, <1>6, <1>8, <1>10 DEF Delivered
<1>12. mailed' \in [Ids -> Nat] /\ \A id \in Ids : mailed'[id] >= mailed[id]
  BY <1>1 DEF Delivered
<1>13. sendoff'.failed = 0 =>
           \A i \in 1..Len(sendoff'.list) :
             \/ mailed'[sendoff'.list[i]] >= 1
             \/ \E k \in 1..Len(sendoff'.todo) : sendoff'.todo[k] = sendoff'.list[i]
  BY <1>1, <1>2, <1>5, <1>8, <1>12, RestFact
<1>14. noted' \subseteq Ids
  BY <1>3, <1>5, <1>8, <1>10
<1> QED BY <1>1, <1>5, <1>7, <1>10, <1>11, <1>12, <1>13, <1>14 DEF Delivered, Running

\* The process ends, or dies with the file as it was or half written.
LEMMA OverKeeps ==
  ASSUME Delivered, EndSendOff \/ SendOffDies
  PROVE  Delivered'
<1>1. CASE EndSendOff
  <2>1. /\ sendoff.phase = "sending" /\ sendoff' = [sendoff EXCEPT !.phase = "ended"]
        /\ sendoff.todo = <<>> /\ UNCHANGED <<noted, mailed, doubted>>
    BY <1>1 DEF EndSendOff
  <2>2. /\ sendoff' \in SendOff /\ sendoff'.phase = "ended"
        /\ sendoff'.already = sendoff.already /\ sendoff'.list = sendoff.list
        /\ sendoff'.todo = sendoff.todo /\ sendoff'.failed = sendoff.failed
    BY <2>1 DEF Delivered, SendOff
  <2> QED BY <2>1, <2>2 DEF Delivered, InHand, Running
<1>2. CASE SendOffDies
  <2>1. /\ Running /\ sendoff' = [sendoff EXCEPT !.phase = "off"] /\ mailed' = mailed
    BY <1>2 DEF SendOffDies, Running
  <2>2. /\ sendoff' \in SendOff /\ sendoff'.phase = "off"
        /\ sendoff'.already = sendoff.already /\ sendoff'.list = sendoff.list
        /\ sendoff'.todo = sendoff.todo /\ sendoff'.failed = sendoff.failed
    BY <2>1 DEF Delivered, SendOff
  <2>3. /\ noted' \subseteq noted /\ doubted \subseteq doubted'
        /\ \A id \in Ids :
             id \in noted \union doubted \/ InHand(id) => id \in noted' \union doubted'
    <3>1. noted \subseteq sendoff.already
      BY <2>1 DEF Delivered
    <3>2. CASE noted' = noted /\ Doubt(IF sendoff.phase = "noting" THEN {Addressee} ELSE {})
      BY <3>2 DEF Doubt, InHand
    <3>3. CASE noted' = {} /\ Doubt(Noted(sendoff.already))
      BY <3>1, <3>3 DEF Doubt, Noted, InHand
    <3> QED BY <1>2, <3>2, <3>3 DEF SendOffDies
  <2>4. \A id \in Ids : ~InHand(id)'
    BY <2>2 DEF InHand
  <2> QED BY <2>1, <2>2, <2>3, <2>4 DEF Delivered, Running
<1> QED BY <1>1, <1>2

\* Every step keeps the send-off's part; the service's steps do not touch it.
LEMMA NextDelivered ==
  ASSUME IInv, [Next]_vars
  PROVE  Delivered'
<1>1. CASE SendOffStep
  BY <1>1, BeginKeeps, SkipKeeps, SendKeeps, SendFailsKeeps, NoteKeeps, OverKeeps
  DEF SendOffStep, IInv
<1>2. CASE ~SendOffStep
  <2>1. UNCHANGED sending
    BY <1>2 DEF SendOffStep, Next, Refuse, Request, Register, Insert, InsertClashes,
         InsertFails, Tick, Restart, Close, vars
  <2> QED BY <2>1 DEF sending, IInv, Delivered, InHand, Addressee, Running
<1> QED BY <1>1, <1>2

-----------------------------------------------------------------------------
(* The limiter: what its operations do to a deque.                         *)

\* A set of naturals that is not empty has a least element.
LEMMA Least ==
  ASSUME NEW S, S \subseteq Nat, S # {}
  PROVE  \E m \in S : \A k \in S : m <= k
<1>1. PICK m \in S : \A k \in S : ~(<<k, m>> \in OpToRel(<, Nat))
  BY NatLessThanWellFounded, WFMin
<1>2. \A k \in S : ~(k < m)
  BY <1>1 DEF OpToRel
<1> QED BY <1>2

\* Sets of indices are finite.
LEMMA Finite ==
  ASSUME NEW n \in Nat, NEW I \in SUBSET (1..n)
  PROVE  IsFiniteSet(I) /\ Cardinality(I) \in Nat
<1>1. IsFiniteSet(1..n)
  BY FS_Interval
<1>2. IsFiniteSet(I)
  BY <1>1, FS_Subset
<1> QED BY <1>2, FS_CardinalityType

\* _prune leaves what is younger than the cutoff, when the deque is in order.
LEMMA PruneFact ==
  ASSUME NEW clock, NEW bucket, Ordered(bucket, clock), NEW cutoff \in Int
  PROVE  \E p \in 0..Len(bucket) :
           /\ Prune(bucket, cutoff) = SubSeq(bucket, p + 1, Len(bucket))
           /\ \A i \in 1..p : bucket[i] <= cutoff
           /\ \A i \in (p + 1)..Len(bucket) : bucket[i] > cutoff
<1> DEFINE Stops(n) == n < Len(bucket) => bucket[n + 1] > cutoff
           S == {n \in 0..Len(bucket) : Stops(n)}
<1>1. bucket \in Seq(Nat) /\ Len(bucket) \in Nat /\ \A i \in 1..Len(bucket) : bucket[i] \in Nat
  BY DEF Ordered
<1>2. Len(bucket) \in S /\ S \subseteq Nat
  BY <1>1
<1>3. PICK least \in S : \A k \in S : least <= k
  BY <1>2, Least
<1>4. \A i \in 1..least : bucket[i] <= cutoff
  <2> SUFFICES ASSUME NEW i \in 1..least PROVE bucket[i] <= cutoff
    OBVIOUS
  <2>1. i - 1 \in 0..Len(bucket) /\ (i - 1) + 1 = i /\ i - 1 < Len(bucket) /\ ~(least <= i - 1)
    BY <1>1, <1>2, <1>3
  <2>2. ~Stops(i - 1)
    BY <1>3, <2>1
  <2>3. ~(bucket[i] > cutoff)
    BY <2>1, <2>2
  <2>4. bucket[i] \in Nat
    BY <1>1, <2>1
  <2> QED BY <2>3, <2>4
<1> DEFINE Popped1(n) == /\ \A i \in 1..n : bucket[i] <= cutoff
                         /\ n < Len(bucket) => bucket[n + 1] > cutoff
           p == CHOOSE n \in 0..Len(bucket) : Popped1(n)
<1>5. \E n \in 0..Len(bucket) : Popped1(n)
  BY <1>3, <1>4
<1>6. p \in 0..Len(bucket) /\ Popped1(p)
  <2> HIDE DEF Popped1
  <2> QED BY <1>5
<1>7. Prune(bucket, cutoff) = SubSeq(bucket, p + 1, Len(bucket))
  BY DEF Prune
<1>8. \A i \in (p + 1)..Len(bucket) : bucket[i] > cutoff
  <2> SUFFICES ASSUME NEW i \in (p + 1)..Len(bucket) PROVE bucket[i] > cutoff
    OBVIOUS
  <2> HIDE DEF p
  <2>1. p + 1 \in 1..Len(bucket) /\ i \in 1..Len(bucket) /\ p + 1 <= i /\ p < Len(bucket)
    BY <1>1, <1>6
  <2>2. bucket[p + 1] > cutoff /\ bucket[p + 1] <= bucket[i]
    BY <1>6, <2>1 DEF Ordered
  <2> QED BY <1>1, <2>1, <2>2
<1> HIDE DEF p
<1> QED BY <1>6, <1>7, <1>8

\* Pruning keeps the order, loses no entry younger than the cutoff, and leaves no other.
LEMMA PruneKeeps ==
  ASSUME NEW clock, NEW bucket, Ordered(bucket, clock), NEW cutoff \in Int
  PROVE  /\ Ordered(Prune(bucket, cutoff), clock)
         /\ \A c \in Int : c >= cutoff =>
              Cardinality(Younger(Prune(bucket, cutoff), c)) = Cardinality(Younger(bucket, c))
         /\ Len(Prune(bucket, cutoff)) = Cardinality(Younger(bucket, cutoff))
<1>1. PICK p \in 0..Len(bucket) :
        /\ Prune(bucket, cutoff) = SubSeq(bucket, p + 1, Len(bucket))
        /\ \A i \in 1..p : bucket[i] <= cutoff
        /\ \A i \in (p + 1)..Len(bucket) : bucket[i] > cutoff
  BY PruneFact
<1> DEFINE B == Prune(bucket, cutoff)
           n == Len(bucket)
<1>2. bucket \in Seq(Nat) /\ n \in Nat /\ \A i \in 1..n : bucket[i] \in Nat
  BY DEF Ordered
<1>3. /\ B \in Seq(Nat) /\ Len(B) = n - p
      /\ \A k \in 1..(n - p) : k + p \in 1..n /\ B[k] = bucket[k + p]
  <2>1. \A i \in (p + 1)..n : bucket[i] \in Nat
    BY <1>2
  <2>2. /\ B \in Seq(Nat) /\ Len(B) = IF p + 1 <= n THEN n - (p + 1) + 1 ELSE 0
        /\ \A i \in 1..(n - (p + 1) + 1) : B[i] = bucket[(p + 1) + i - 1]
    BY <1>1, <1>2, <2>1, SubSeqProperties
  <2>3. /\ n - (p + 1) + 1 = n - p
        /\ \A i \in 1..(n - p) : (p + 1) + i - 1 = i + p /\ i + p \in 1..n
    BY <1>2
  <2>4. p + 1 <= n \/ n - p = 0
    BY <1>2
  <2> HIDE DEF n, B
  <2> QED BY <1>2, <2>2, <2>3, <2>4
<1> HIDE DEF B
<1>4. Ordered(B, clock)
  <2>1. \A k \in 1..Len(B) : B[k] <= clock
    BY <1>2, <1>3 DEF Ordered
  <2>2. \A k, m \in 1..Len(B) : k <= m => B[k] <= B[m]
    <3> SUFFICES ASSUME NEW k \in 1..Len(B), NEW m \in 1..Len(B), k <= m
                 PROVE  B[k] <= B[m]
      OBVIOUS
    <3>1. /\ k + p \in 1..n /\ m + p \in 1..n /\ k + p <= m + p
          /\ B[k] = bucket[k + p] /\ B[m] = bucket[m + p]
      BY <1>2, <1>3, SMTT(30)
    <3> QED BY <3>1 DEF Ordered
  <2> QED BY <1>3, <2>1, <2>2 DEF Ordered
<1>5. ASSUME NEW c \in Int, c >= cutoff
      PROVE  Cardinality(Younger(B, c)) = Cardinality(Younger(bucket, c))
  <2> DEFINE shift == [k \in Younger(B, c) |-> k + p]
  <2>1. \A k \in Younger(B, c) : k \in Nat /\ k + p \in Younger(bucket, c)
    BY <1>2, <1>3, SMTT(30) DEF Younger
  <2>2. \A k, m \in Younger(B, c) : k + p = m + p => k = m
    BY <2>1
  <2>3. \A i \in Younger(bucket, c) : i - p \in Younger(B, c) /\ (i - p) + p = i
    <3> SUFFICES ASSUME NEW i \in 1..n, bucket[i] > c
                 PROVE  i - p \in Younger(B, c) /\ (i - p) + p = i
      BY DEF Younger
    <3>1. ~(i \in 1..p)
      BY <1>1, <1>2, <1>5
    <3>2. i - p \in 1..(n - p) /\ (i - p) + p = i
      BY <1>2, <3>1
    <3> QED BY <1>3, <3>2 DEF Younger
  <2>4. shift \in Bijection(Younger(B, c), Younger(bucket, c))
    <3>1. shift \in [Younger(B, c) -> Younger(bucket, c)]
      BY <2>1
    <3>2. \A a, b \in Younger(B, c) : shift[a] = shift[b] => a = b
      BY <2>2
    <3>3. \A t \in Younger(bucket, c) : \E s \in Younger(B, c) : shift[s] = t
      <4> SUFFICES ASSUME NEW t \in Younger(bucket, c)
                   PROVE  \E s \in Younger(B, c) : shift[s] = t
        OBVIOUS
      <4> QED BY <2>3
    <3> HIDE DEF shift
    <3> QED BY <3>1, <3>2, <3>3, Fun_IsBij
  <2>5. IsFiniteSet(Younger(B, c))
    <3>1. Len(B) \in Nat /\ Younger(B, c) \in SUBSET (1..Len(B))
      BY <1>3 DEF Younger
    <3> QED BY <3>1, Finite
  <2> QED BY <2>4, <2>5, FS_Bijection DEF ExistsBijection
<1>6. Len(B) = Cardinality(Younger(bucket, cutoff))
  <2>1. Younger(bucket, cutoff) = (p + 1)..n
    <3>1. \A i \in 1..n : i \in 1..p \/ i \in (p + 1)..n
      BY <1>2
    <3>2. \A i \in 1..p : ~(bucket[i] > cutoff)
      BY <1>1, <1>2
    <3>3. \A i \in (p + 1)..n : i \in 1..n /\ bucket[i] > cutoff
      BY <1>1, <1>2
    <3> QED BY <3>1, <3>2, <3>3 DEF Younger
  <2>2. Cardinality((p + 1)..n) = IF p + 1 > n THEN 0 ELSE n - (p + 1) + 1
    <3>1. p + 1 \in Int /\ n \in Int
      BY <1>2
    <3> HIDE DEF n
    <3> QED BY <3>1, FS_Interval
  <2>3. (p + 1 > n => n - p = 0) /\ n - (p + 1) + 1 = n - p
    BY <1>2
  <2> QED BY <1>3, <2>1, <2>2, <2>3
<1> QED BY <1>4, <1>5, <1>6 DEF B

\* An entry at the right end counts for every cutoff before it.
LEMMA AppendYounger ==
  ASSUME NEW bucket \in Seq(Nat), NEW t \in Nat, NEW c \in Int
  PROVE  Cardinality(Younger(Append(bucket, t), c)) =
           Cardinality(Younger(bucket, c)) + (IF t > c THEN 1 ELSE 0)
<1> DEFINE n == Len(bucket)
           B == Append(bucket, t)
<1>1. /\ n \in Nat /\ Len(B) = n + 1 /\ B[n + 1] = t
      /\ \A i \in 1..n : B[i] = bucket[i]
  OBVIOUS
<1>2. 1..(n + 1) = 1..n \union {n + 1} /\ n + 1 \notin 1..n
  BY <1>1
<1>3. Younger(bucket, c) \in SUBSET (1..n) /\ n + 1 \notin Younger(bucket, c)
  BY <1>2 DEF Younger
<1>4. IsFiniteSet(Younger(bucket, c)) /\ Cardinality(Younger(bucket, c)) \in Nat
  BY <1>1, <1>3, Finite
<1> HIDE DEF B
<1>5. Younger(B, c) = IF t > c THEN Younger(bucket, c) \union {n + 1} ELSE Younger(bucket, c)
  BY <1>1, <1>2 DEF Younger
<1> HIDE DEF n
<1>6. Cardinality(Younger(bucket, c) \union {n + 1}) = Cardinality(Younger(bucket, c)) + 1
  BY <1>3, <1>4, FS_AddElement
<1>7. Cardinality(Younger(B, c)) = Cardinality(Younger(bucket, c)) + (IF t > c THEN 1 ELSE 0)
  BY <1>4, <1>5, <1>6
<1> QED BY <1>7 DEF B

\* So does an entry of the history, when it is of a sender in S.
LEMMA AppendGranted ==
  ASSUME NEW history \in History, NEW s \in Senders, NEW t \in Nat, NEW S, NEW c \in Int
  PROVE  LET longer == Append(history, [sender |-> s, at |-> t]) IN
         /\ IsFiniteSet(GrantedYounger(history, S, c))
         /\ Len(history) + 1 \notin GrantedYounger(history, S, c)
         /\ GrantedYounger(longer, S, c) = GrantedYounger(history, S, c) \union
              (IF s \in S /\ t > c THEN {Len(history) + 1} ELSE {})
         /\ Cardinality(GrantedYounger(longer, S, c)) =
              Cardinality(GrantedYounger(history, S, c)) + (IF s \in S /\ t > c THEN 1 ELSE 0)
<1> DEFINE n == Len(history)
           entry == [sender |-> s, at |-> t]
           H == Append(history, entry)
<1>0. entry \in [sender : Senders, at : Nat] /\ entry.sender = s /\ entry.at = t
  OBVIOUS
<1>1. /\ n \in Nat /\ Len(H) = n + 1 /\ H[n + 1] = entry
      /\ \A i \in 1..n : H[i] = history[i]
  <2> HIDE DEF entry
  <2> QED BY <1>0 DEF History
<1>2. 1..(n + 1) = 1..n \union {n + 1} /\ n + 1 \notin 1..n
  BY <1>1
<1>3. /\ GrantedYounger(history, S, c) \in SUBSET (1..n)
      /\ n + 1 \notin GrantedYounger(history, S, c)
  BY <1>2 DEF GrantedYounger
<1>4. /\ IsFiniteSet(GrantedYounger(history, S, c))
      /\ Cardinality(GrantedYounger(history, S, c)) \in Nat
  BY <1>1, <1>3, Finite
<1> HIDE DEF H, entry
<1>5. GrantedYounger(H, S, c) = GrantedYounger(history, S, c) \union
        (IF s \in S /\ t > c THEN {n + 1} ELSE {})
  BY <1>0, <1>1, <1>2 DEF GrantedYounger
<1> HIDE DEF n
<1>6. Cardinality(GrantedYounger(H, S, c)) =
        Cardinality(GrantedYounger(history, S, c)) + (IF s \in S /\ t > c THEN 1 ELSE 0)
  <2>1. Cardinality(GrantedYounger(history, S, c) \union {n + 1}) =
          Cardinality(GrantedYounger(history, S, c)) + 1
    BY <1>3, <1>4, FS_AddElement
  <2>2. CASE s \in S /\ t > c
    <3>1. GrantedYounger(H, S, c) = GrantedYounger(history, S, c) \union {n + 1}
      BY <1>5, <2>2
    <3> QED BY <2>1, <2>2, <3>1
  <2>3. CASE ~(s \in S /\ t > c)
    <3>1. GrantedYounger(H, S, c) = GrantedYounger(history, S, c)
      BY <1>5, <2>3
    <3> QED BY <1>4, <2>3, <3>1
  <2> QED BY <2>2, <2>3
<1> QED BY <1>3, <1>4, <1>5, <1>6 DEF H, entry, n

-----------------------------------------------------------------------------
(* The limiter: a deque and the history it stands for.                     *)

\* A service that has just started has granted nothing.
LEMMA TracksNothing ==
  ASSUME NEW clock \in Nat, NEW S, NEW window \in Nat, NEW cap \in Nat
  PROVE  Tracks(<<>>, <<>>, clock, S, window, cap)
<1>1. \A c \in Int : GrantedYounger(<<>>, S, c) = {} /\ Younger(<<>>, c) = {}
  BY DEF GrantedYounger, Younger
<1>2. \A t \in Int : GrantedIn(<<>>, S, window, t) = {}
  BY DEF GrantedIn, GrantedYounger
<1>3. Cardinality({}) = 0
  BY FS_EmptySet
<1>4. Ordered(<<>>, clock)
  BY DEF Ordered
<1>5. \A c \in Int : Cardinality(GrantedYounger(<<>>, S, c)) = Cardinality(Younger(<<>>, c))
  BY <1>1
<1>6. \A t \in Int : Cardinality(GrantedIn(<<>>, S, window, t)) <= cap
  <2> SUFFICES ASSUME NEW t \in Int PROVE Cardinality(GrantedIn(<<>>, S, window, t)) <= cap
    OBVIOUS
  <2>1. Cardinality(GrantedIn(<<>>, S, window, t)) = 0
    BY <1>2, <1>3
  <2> QED BY <2>1
<1> QED BY <1>4, <1>5, <1>6 DEF Tracks

\* Time passes: fewer cutoffs matter.
LEMMA TracksLater ==
  ASSUME NEW bucket, NEW history, NEW clock \in Nat, NEW S, NEW window \in Nat, NEW cap,
         Tracks(bucket, history, clock, S, window, cap)
  PROVE  Tracks(bucket, history, clock + 1, S, window, cap)
<1>1. \A c \in Int : c >= clock + 1 - window => c >= clock - window
  OBVIOUS
<1>2. \A k \in 1..Len(bucket) : bucket[k] \in Nat /\ bucket[k] <= clock
  BY DEF Tracks, Ordered
<1>3. Ordered(bucket, clock + 1)
  BY <1>2 DEF Tracks, Ordered
<1> QED BY <1>1, <1>3 DEF Tracks

\* The deque is pruned: what is left is what the window has been granted.
LEMMA TracksPruned ==
  ASSUME NEW bucket, NEW history, NEW clock \in Nat, NEW S, NEW window \in Nat, NEW cap,
         Tracks(bucket, history, clock, S, window, cap)
  PROVE  /\ Tracks(Prune(bucket, clock - window), history, clock, S, window, cap)
         /\ Len(Prune(bucket, clock - window)) =
              Cardinality(GrantedYounger(history, S, clock - window))
<1>1. Ordered(bucket, clock) /\ clock - window \in Int /\ clock - window >= clock - window
  BY DEF Tracks
<1> QED BY <1>1, PruneKeeps, ZenonT(30) DEF Tracks

\* The history goes on, the window's entries as they were: with a sender not in S.
LEMMA TracksOther ==
  ASSUME NEW bucket, NEW history \in History, NEW clock \in Nat, NEW S, NEW window \in Nat,
         NEW cap, Tracks(bucket, history, clock, S, window, cap),
         NEW s \in Senders, s \notin S
  PROVE  Tracks(bucket, Append(history, [sender |-> s, at |-> clock]), clock, S, window, cap)
<1> DEFINE H == Append(history, [sender |-> s, at |-> clock])
<1>1. \A c \in Int : GrantedYounger(H, S, c) = GrantedYounger(history, S, c)
  <2> SUFFICES ASSUME NEW c \in Int
               PROVE  GrantedYounger(H, S, c) = GrantedYounger(history, S, c)
    OBVIOUS
  <2> QED BY AppendGranted
<1>2. \A i \in 1..Len(history) : H[i] = history[i]
  BY DEF History
<1> HIDE DEF H
<1>3. \A t \in Int : GrantedIn(H, S, window, t) = GrantedIn(history, S, window, t)
  BY <1>1, <1>2 DEF GrantedIn, GrantedYounger
<1>4. Tracks(bucket, H, clock, S, window, cap)
  BY <1>1, <1>3 DEF Tracks
<1> QED BY <1>4 DEF H

\* A sender in S is let through below the cap: the windows that end before now are as
\* they were, and the others hold at most what the pruned deque held, and this one.
LEMMA TracksGranted ==
  ASSUME NEW bucket, NEW history \in History, NEW clock \in Nat, NEW S, NEW window \in Nat,
         NEW cap \in Nat, Tracks(bucket, history, clock, S, window, cap),
         \A i \in 1..Len(history) : history[i].at <= clock,
         Cardinality(GrantedYounger(history, S, clock - window)) < cap,
         NEW s \in S, s \in Senders
  PROVE  Tracks(Append(bucket, clock), Append(history, [sender |-> s, at |-> clock]),
                clock, S, window, cap)
<1> DEFINE n == Len(history)
           H == Append(history, [sender |-> s, at |-> clock])
           B == Append(bucket, clock)
<1>1. Ordered(bucket, clock) /\ bucket \in Seq(Nat)
  BY DEF Tracks, Ordered
<1>2. Ordered(B, clock)
  <2>1. /\ B \in Seq(Nat) /\ Len(B) = Len(bucket) + 1 /\ B[Len(bucket) + 1] = clock
        /\ \A i \in 1..Len(bucket) : B[i] = bucket[i] /\ bucket[i] <= clock
        /\ Len(bucket) \in Nat
    BY <1>1 DEF Ordered
  <2>2. \A k \in 1..Len(B) : k \in 1..Len(bucket) \/ k = Len(bucket) + 1
    BY <2>1
  <2> HIDE DEF B
  <2>3. ASSUME NEW k \in 1..Len(B), NEW m \in 1..Len(B), k <= m
        PROVE  B[k] <= B[m]
    <3>1. CASE m = Len(bucket) + 1
      <4>1. CASE k = m
        BY <1>1, <2>1, <3>1, <4>1
      <4>2. CASE k \in 1..Len(bucket)
        BY <1>1, <2>1, <3>1, <4>2
      <4> QED BY <2>2, <3>1, <4>1, <4>2
    <3>2. CASE m \in 1..Len(bucket)
      <4>1. k \in 1..Len(bucket)
        BY <2>1, <2>2, <2>3, <3>2
      <4> QED BY <1>1, <2>1, <2>3, <3>2, <4>1 DEF Ordered
    <3> QED BY <2>2, <3>1, <3>2
  <2> QED BY <2>1, <2>2, <2>3 DEF Ordered
<1>3. ASSUME NEW c \in Int, c >= clock - window
      PROVE  Cardinality(GrantedYounger(H, S, c)) = Cardinality(Younger(B, c))
  <2>1. Cardinality(GrantedYounger(H, S, c)) =
          Cardinality(GrantedYounger(history, S, c)) + (IF clock > c THEN 1 ELSE 0)
    BY AppendGranted
  <2>2. Cardinality(Younger(B, c)) =
          Cardinality(Younger(bucket, c)) + (IF clock > c THEN 1 ELSE 0)
    BY <1>1, AppendYounger
  <2>3. Cardinality(GrantedYounger(history, S, c)) = Cardinality(Younger(bucket, c))
    BY <1>3 DEF Tracks
  <2> QED BY <2>1, <2>2, <2>3
<1>4. /\ n \in Nat /\ Len(H) = n + 1 /\ H[n + 1].at = clock /\ n + 1 \notin 1..n
      /\ \A i \in 1..n : H[i] = history[i]
  BY DEF History
<1>5. ASSUME NEW t \in Int
      PROVE  Cardinality(GrantedIn(H, S, window, t)) <= cap
  <2>1. GrantedYounger(H, S, t - window) = GrantedYounger(history, S, t - window) \union
          (IF clock > t - window THEN {n + 1} ELSE {})
    BY AppendGranted
  <2>2. CASE t < clock
    <3>1. ~(H[n + 1].at <= t)
      BY <1>4, <2>2
    <3>2. GrantedIn(H, S, window, t) = GrantedIn(history, S, window, t)
      <4> HIDE DEF H, n
      <4>1. \A i \in GrantedYounger(history, S, t - window) : H[i] = history[i]
        BY <1>4 DEF GrantedYounger, n
      <4> QED BY <2>1, <3>1, <4>1 DEF GrantedIn
    <3> QED BY <3>2 DEF Tracks
  <2>3. CASE t >= clock
    <3> DEFINE G == GrantedYounger(history, S, clock - window)
    <3>1. \A i \in 1..n : history[i].at \in Nat
      <4>1. history \in Seq([sender : Senders, at : Nat])
        BY DEF History
      <4>2. \A R : history \in Seq(R) => \A i \in 1..Len(history) : history[i] \in R
        OBVIOUS
      <4>3. \A i \in 1..n : history[i] \in [sender : Senders, at : Nat]
        BY <4>1, <4>2
      <4> HIDE DEF n
      <4> QED BY <4>3
    <3>2. GrantedYounger(history, S, t - window) \subseteq G
      BY <2>3, <3>1 DEF GrantedYounger
    <3>3. GrantedIn(H, S, window, t) \subseteq G \union {n + 1}
      BY <2>1, <3>2 DEF GrantedIn
    <3>4. IsFiniteSet(G) /\ n + 1 \notin G
      <4>1. clock - window \in Int
        OBVIOUS
      <4> QED BY <4>1, AppendGranted
    <3> HIDE DEF G, H, n
    <3>5. Cardinality(G) \in Nat
      BY <3>4, FS_CardinalityType
    <3>6. IsFiniteSet(G \union {n + 1}) /\ Cardinality(G \union {n + 1}) = Cardinality(G) + 1
      BY <3>4, FS_AddElement
    <3>7. /\ IsFiniteSet(GrantedIn(H, S, window, t))
          /\ Cardinality(GrantedIn(H, S, window, t)) <= Cardinality(G \union {n + 1})
      BY <3>3, <3>6, FS_Subset
    <3>8. Cardinality(GrantedIn(H, S, window, t)) \in Nat
      BY <3>7, FS_CardinalityType
    <3>9. Cardinality(G) < cap
      BY DEF G
    <3> QED BY <3>5, <3>6, <3>7, <3>8, <3>9
  <2> QED BY <2>2, <2>3
<1> HIDE DEF B, H
<1>6. Tracks(B, H, clock, S, window, cap)
  BY <1>2, <1>3, <1>5 DEF Tracks
<1> QED BY <1>6 DEF B, H

-----------------------------------------------------------------------------
(* The limiter, step by step.                                              *)

\* The limits, and an address's deque, pruned when there is such a cap.
LEMMA LimitsFact ==
  ASSUME Limited
  PROVE  /\ now \in Nat /\ granted \in History
         /\ Window \in Nat /\ Hour \in Nat /\ PerIp \in Nat /\ PerHour \in Nat
         /\ Tracks(Young(global, Hour), granted, now, Senders, Hour, PerHour)
         /\ Len(Young(global, Hour)) =
              Cardinality(GrantedYounger(granted, Senders, now - Hour))
         /\ PerIp > 0 => \A ip \in Ips :
              /\ Tracks(Young(perIp[ip], Window), granted, now, Public(ip), Window, PerIp)
              /\ Young(perIp[ip], Window) \in Seq(Nat)
              /\ Len(Young(perIp[ip], Window)) =
                   Cardinality(GrantedYounger(granted, Public(ip), now - Window))
<1>1. /\ now \in Nat /\ granted \in History
      /\ Window \in Nat /\ Hour \in Nat /\ PerIp \in Nat /\ PerHour \in Nat
  BY LimitsAssumption DEF Limited
<1>2. /\ Tracks(Young(global, Hour), granted, now, Senders, Hour, PerHour)
      /\ Len(Young(global, Hour)) =
           Cardinality(GrantedYounger(granted, Senders, now - Hour))
  <2>1. Tracks(global, granted, now, Senders, Hour, PerHour)
    BY DEF Limited
  <2> QED BY <1>1, <2>1, TracksPruned DEF Young
<1>3. ASSUME PerIp > 0, NEW ip \in Ips
      PROVE  /\ Tracks(Young(perIp[ip], Window), granted, now, Public(ip), Window, PerIp)
             /\ Young(perIp[ip], Window) \in Seq(Nat)
             /\ Len(Young(perIp[ip], Window)) =
                  Cardinality(GrantedYounger(granted, Public(ip), now - Window))
  <2>1. Tracks(perIp[ip], granted, now, Public(ip), Window, PerIp)
    BY <1>3 DEF Limited
  <2>2. /\ Tracks(Young(perIp[ip], Window), granted, now, Public(ip), Window, PerIp)
        /\ Len(Young(perIp[ip], Window)) =
             Cardinality(GrantedYounger(granted, Public(ip), now - Window))
    BY <1>1, <2>1, TracksPruned DEF Young
  <2> QED BY <2>2 DEF Tracks, Ordered
<1> QED BY <1>1, <1>2, <1>3

\* A sign-up is refused: the deques that were looked at are pruned.
LEMMA RefuseLimited ==
  ASSUME Limited, NEW s \in Senders, Refuse(s)
  PROVE  Limited'
<1>1. /\ UNCHANGED <<now, granted>> /\ global' = Young(global, Hour)
      /\ \/ perIp' = perIp
         \/ PerIp > 0 /\ perIp' = [perIp EXCEPT ![s.ip] = Young(@, Window)]
  BY DEF Refuse, IpFull, CapsIp
<1>2. s.ip \in Ips /\ perIp \in [Ips -> Seq(Nat)]
  BY DEF Ips, Limited
<1>3. perIp' \in [Ips -> Seq(Nat)] /\ (PerIp > 0 => \A ip \in Ips :
        Tracks(perIp'[ip], granted, now, Public(ip), Window, PerIp))
  <2>1. CASE perIp' = perIp
    BY <1>2, <2>1 DEF Limited
  <2>2. CASE PerIp > 0 /\ perIp' = [perIp EXCEPT ![s.ip] = Young(@, Window)]
    <3>1. \A ip \in Ips : perIp'[ip] = IF ip = s.ip THEN Young(perIp[ip], Window)
                                       ELSE perIp[ip]
      BY <1>2, <2>2
    <3>2. Young(perIp[s.ip], Window) \in Seq(Nat)
      BY <1>2, <2>2, LimitsFact
    <3>3. perIp' \in [Ips -> Seq(Nat)]
      BY <1>2, <2>2, <3>2
    <3> QED BY <2>2, <3>1, <3>3, LimitsFact DEF Limited
  <2> QED BY <1>1, <2>1, <2>2
<1>4. Tracks(global', granted, now, Senders, Hour, PerHour)
  BY <1>1, LimitsFact
<1> QED BY <1>1, <1>3, <1>4 DEF Limited

\* A sign-up is let through: it is one more of the booth's, and of its address's when it
\* is a public one and there is such a cap.
LEMMA GrantLimited ==
  ASSUME Limited, NEW s \in Senders, Grant(s)
  PROVE  Limited'
<1> DEFINE H == Append(granted, [sender |-> s, at |-> now])
<1>1. /\ now' = now /\ granted' = H /\ global' = Append(Young(global, Hour), now)
      /\ perIp' = IF CapsIp(s) THEN [perIp EXCEPT ![s.ip] = Append(Young(@, Window), now)]
                  ELSE perIp
      /\ ~GloballyFull /\ ~IpFull(s)
  BY DEF Grant
<1>2. /\ s.ip \in Ips /\ perIp \in [Ips -> Seq(Nat)] /\ now \in Nat /\ granted \in History
      /\ Window \in Nat /\ Hour \in Nat /\ PerIp \in Nat /\ PerHour \in Nat
      /\ \A i \in 1..Len(granted) : granted[i].at <= now
  BY LimitsFact DEF Ips, Limited
<1>3. H \in History /\ \A i \in 1..Len(H) : H[i].at <= now
  <2>1. [sender |-> s, at |-> now] \in [sender : Senders, at : Nat]
    BY <1>2
  <2>2. H \in History
    BY <1>2, <2>1 DEF History
  <2>3. /\ Len(H) = Len(granted) + 1 /\ Len(granted) \in Nat
        /\ \A i \in 1..Len(granted) : H[i] = granted[i]
        /\ H[Len(granted) + 1] = [sender |-> s, at |-> now]
    BY <1>2, <2>1 DEF History
  <2>4. \A i \in 1..Len(H) : i \in 1..Len(granted) \/ i = Len(granted) + 1
    BY <2>3
  <2>5. [sender |-> s, at |-> now].at <= now
    BY <1>2
  <2> HIDE DEF H
  <2> QED BY <1>2, <2>2, <2>3, <2>4, <2>5
<1> HIDE DEF H
<1>4. Tracks(global', H, now, Senders, Hour, PerHour)
  <2>1. Cardinality(GrantedYounger(granted, Senders, now - Hour)) < PerHour
    <3>1. GrantedYounger(granted, Senders, now - Hour) \in SUBSET (1..Len(granted))
      BY DEF GrantedYounger
    <3>2. Len(granted) \in Nat
      BY <1>2 DEF History
    <3>3. Cardinality(GrantedYounger(granted, Senders, now - Hour)) \in Nat
      BY <3>1, <3>2, Finite
    <3> QED BY <1>1, <1>2, <3>3, LimitsFact DEF GloballyFull
  <2> QED BY <1>1, <1>2, <2>1, LimitsFact, TracksGranted DEF H
<1>5. ASSUME PerIp > 0, NEW ip \in Ips, CapsIp(s), ip = s.ip
      PROVE  Tracks(Append(Young(perIp[ip], Window), now), H, now, Public(ip), Window, PerIp)
  <2>1. Cardinality(GrantedYounger(granted, Public(ip), now - Window)) < PerIp
    <3>1. GrantedYounger(granted, Public(ip), now - Window) \in SUBSET (1..Len(granted))
      BY DEF GrantedYounger
    <3>2. Len(granted) \in Nat
      BY <1>2 DEF History
    <3>3. Cardinality(GrantedYounger(granted, Public(ip), now - Window)) \in Nat
      BY <3>1, <3>2, Finite
    <3> QED BY <1>1, <1>2, <1>5, <3>3, LimitsFact, SMTT(30) DEF IpFull
  <2>2. s \in Public(ip)
    BY <1>5 DEF Public, CapsIp
  <2> QED BY <1>2, <1>5, <2>1, <2>2, LimitsFact, TracksGranted DEF H
<1>6. ASSUME PerIp > 0, NEW ip \in Ips, s \notin Public(ip)
      PROVE  Tracks(perIp[ip], H, now, Public(ip), Window, PerIp)
  <2>1. Tracks(perIp[ip], granted, now, Public(ip), Window, PerIp)
    BY <1>6 DEF Limited
  <2> QED BY <1>2, <1>6, <2>1, TracksOther DEF H
<1>7. perIp' \in [Ips -> Seq(Nat)] /\ (PerIp > 0 => \A ip \in Ips :
        Tracks(perIp'[ip], H, now, Public(ip), Window, PerIp))
  <2>1. CASE CapsIp(s)
    <3>1. PerIp > 0 /\ perIp' = [perIp EXCEPT ![s.ip] = Append(Young(@, Window), now)]
      BY <1>1, <2>1 DEF CapsIp
    <3>2. Young(perIp[s.ip], Window) \in Seq(Nat)
      BY <1>2, <3>1, LimitsFact
    <3>3. Append(Young(perIp[s.ip], Window), now) \in Seq(Nat)
      BY <1>2, <3>2
    <3>4. perIp' \in [Ips -> Seq(Nat)]
      BY <1>2, <3>1, <3>3
    <3>5. \A ip \in Ips : perIp'[ip] = IF ip = s.ip THEN Append(Young(perIp[ip], Window), now)
                                       ELSE perIp[ip]
      BY <1>2, <3>1
    <3>6. \A ip \in Ips : ip # s.ip => s \notin Public(ip)
      BY DEF Public
    <3> QED BY <1>5, <1>6, <2>1, <3>1, <3>4, <3>5, <3>6
  <2>2. CASE ~CapsIp(s)
    <3>1. PerIp > 0 => s.trusted
      BY <2>2 DEF CapsIp
    <3>2. PerIp > 0 => \A ip \in Ips : s \notin Public(ip)
      BY <3>1 DEF Public
    <3> QED BY <1>1, <1>2, <1>6, <2>2, <3>2
  <2> QED BY <2>1, <2>2
<1> QED BY <1>1, <1>2, <1>3, <1>4, <1>7 DEF Limited

\* Time passes.
LEMMA TickLimited ==
  ASSUME Limited, Tick
  PROVE  Limited'
<1>1. /\ now' = now + 1 /\ now' \in Nat /\ UNCHANGED <<granted, perIp, global>>
      /\ now \in Nat /\ Window \in Nat /\ Hour \in Nat
  BY LimitsFact DEF Tick
<1>2. Tracks(global, granted, now + 1, Senders, Hour, PerHour)
  BY <1>1, TracksLater DEF Limited
<1>3. PerIp > 0 => \A ip \in Ips :
        Tracks(perIp[ip], granted, now + 1, Public(ip), Window, PerIp)
  BY <1>1, TracksLater DEF Limited
<1>4. \A i \in 1..Len(granted) : granted[i].at <= now + 1
  <2>1. \A R : granted \in Seq(R) => \A i \in 1..Len(granted) : granted[i] \in R
    BY DEF Limited, History
  <2>2. \A i \in 1..Len(granted) : granted[i] \in [sender : Senders, at : Nat]
    BY <2>1 DEF Limited, History
  <2>3. \A i \in 1..Len(granted) : granted[i].at \in Nat /\ granted[i].at <= now
    BY <2>2 DEF Limited
  <2> QED BY <1>1, <2>3
<1> QED BY <1>1, <1>2, <1>3, <1>4 DEF Limited

\* The limiter is a new one.
LEMMA ClearedLimited ==
  ASSUME Cleared, now' \in Nat
  PROVE  Limited'
<1>1. /\ granted' = <<>> /\ global' = <<>> /\ perIp' = [ip \in Ips |-> <<>>]
      /\ Window \in Nat /\ Hour \in Nat /\ PerIp \in Nat /\ PerHour \in Nat
  BY LimitsAssumption DEF Cleared
<1>2. Tracks(<<>>, <<>>, now', Senders, Hour, PerHour)
  BY <1>1, TracksNothing
<1>3. \A ip \in Ips : Tracks(<<>>, <<>>, now', Public(ip), Window, PerIp)
  BY <1>1, TracksNothing
<1> QED BY <1>1, <1>2, <1>3 DEF Limited, History

\* Every step keeps the limiter's part.
LEMMA NextLimited ==
  ASSUME Limited, [Next]_vars
  PROVE  Limited'
<1>1. CASE UNCHANGED limiter
  BY <1>1 DEF limiter, Limited
<1>2. CASE \E s \in Senders : Refuse(s) \/ Grant(s)
  BY <1>2, RefuseLimited, GrantLimited
<1>3. CASE Tick
  BY <1>3, TickLimited
<1>4. CASE Restart \/ Close
  <2>1. now' \in Nat
    BY <1>4 DEF Restart, Close, Limited
  <2> QED BY <1>4, <2>1, ClearedLimited DEF Restart, Close
<1>5. \/ UNCHANGED limiter \/ (\E s \in Senders : Refuse(s) \/ Grant(s))
      \/ Tick \/ Restart \/ Close
  BY DEF Next, Request, Register, Insert, InsertClashes, InsertFails, Begin, Skip, Send,
         SendFails, Note, NoteFails, EndSendOff, SendOffDies, vars, limiter
<1> QED BY <1>1, <1>2, <1>3, <1>4, <1>5

\* What SignUpsCapped counts is what the invariant counts.
LEMMA CountFact ==
  ASSUME Limited, NEW t \in Int
  PROVE  /\ GrantedWithin(LAMBDA s : TRUE, Hour, t) =
              Cardinality(GrantedIn(granted, Senders, Hour, t))
         /\ \A ip \in Ips : GrantedWithin(LAMBDA s : s.ip = ip /\ ~s.trusted, Window, t) =
                            Cardinality(GrantedIn(granted, Public(ip), Window, t))
<1>1. \A i \in 1..Len(granted) : granted[i].sender \in Senders
  <2>1. \A R : granted \in Seq(R) => \A i \in 1..Len(granted) : granted[i] \in R
    BY DEF Limited, History
  <2>2. \A i \in 1..Len(granted) : granted[i] \in [sender : Senders, at : Nat]
    BY <2>1 DEF Limited, History
  <2> QED BY <2>2
<1>2. GrantedIn(granted, Senders, Hour, t) =
        {i \in 1..Len(granted) : granted[i].at <= t /\ granted[i].at > t - Hour}
  BY <1>1 DEF GrantedIn, GrantedYounger
<1>3. GrantedWithin(LAMBDA s : TRUE, Hour, t) = Cardinality(
        {i \in 1..Len(granted) : granted[i].at <= t /\ granted[i].at > t - Hour})
  BY DEF GrantedWithin
<1>4. ASSUME NEW ip \in Ips
      PROVE  GrantedWithin(LAMBDA s : s.ip = ip /\ ~s.trusted, Window, t) =
               Cardinality(GrantedIn(granted, Public(ip), Window, t))
  <2>1. GrantedIn(granted, Public(ip), Window, t) =
          {i \in 1..Len(granted) :
             /\ granted[i].sender.ip = ip /\ ~granted[i].sender.trusted
             /\ granted[i].at <= t /\ granted[i].at > t - Window}
    BY <1>1 DEF GrantedIn, GrantedYounger, Public
  <2>2. GrantedWithin(LAMBDA s : s.ip = ip /\ ~s.trusted, Window, t) = Cardinality(
          {i \in 1..Len(granted) :
             /\ granted[i].sender.ip = ip /\ ~granted[i].sender.trusted
             /\ granted[i].at <= t /\ granted[i].at > t - Window})
    BY DEF GrantedWithin
  <2> QED BY <2>1, <2>2
<1> QED BY <1>2, <1>3, <1>4

-----------------------------------------------------------------------------
\* The invariant holds at the start.
LEMMA InitIInv == Init => IInv
<1> SUFFICES ASSUME Init PROVE IInv
  OBVIOUS
<1>1. DOMAIN memory = {} /\ DOMAIN rows = {}
  BY DEF Init
<1>2. Accounted
  BY <1>1, LimitsAssumption
  DEF Init, Accounted, Typed, Backed, Opened, Holding, OneAgentPerEmail
<1>3. Delivered
  BY DEF Init, Delivered, SendOff, InHand, Running
<1>4. Limited
  <2>1. /\ granted = <<>> /\ global = <<>> /\ perIp = [ip \in Ips |-> <<>>] /\ now = 0
        /\ Window \in Nat /\ Hour \in Nat /\ PerIp \in Nat /\ PerHour \in Nat
    BY LimitsAssumption DEF Init
  <2>2. Tracks(<<>>, <<>>, 0, Senders, Hour, PerHour)
    BY <2>1, TracksNothing
  <2>3. \A ip \in Ips : Tracks(<<>>, <<>>, 0, Public(ip), Window, PerIp)
    BY <2>1, TracksNothing
  <2> QED BY <2>1, <2>2, <2>3 DEF Limited, History
<1> QED BY <1>2, <1>3, <1>4 DEF IInv

-----------------------------------------------------------------------------
\* The invariant holds in every state.
THEOREM Invariance == Spec => []IInv
<1>1. IInv /\ [Next]_vars => IInv'
  BY NextAccounted, NextDelivered, NextLimited DEF IInv
<1> QED BY InitIInv, <1>1, PTL DEF Spec

\* DbAgentStore.create: one agent per e-mail, memory no more than SQL, and every link
\* handed out opens its agent, for any number of people, ids and failures.
THEOREM AccountsStandHolds == Spec => []AccountsStand
<1>1. ASSUME IInv PROVE AccountsStand
  <2>1. MemoryIsBacked
    BY <1>1 DEF IInv, Accounted, Backed, Holding, MemoryIsBacked
  <2>2. LinksOpen
    <3> SUFFICES ASSUME signing = None, NEW l \in links, l.id \notin collided
                 PROVE  Authorized(l.id, l.token) = "owner"
      BY DEF LinksOpen
    <3>1. /\ l.id \in DOMAIN memory /\ memory[l.id].token = l.token
          /\ memory[l.id] \in Account
      BY <1>1 DEF IInv, Accounted, Opened, Typed
    <3>2. l.token \in Nat /\ l.token # None
      BY <3>1, NoneFact, LimitsAssumption DEF Account
    <3> QED BY <3>1, <3>2 DEF Authorized
  <2> QED BY <1>1, <2>1, <2>2 DEF IInv, Accounted, AccountsStand
<1> QED BY Invariance, <1>1, PTL

\* send_seeoff: nobody missed without a failure, and nobody mailed twice without a
\* fault at that one's note, for any number of recipients, runs and faults.
THEOREM OncePerRecipientHolds == Spec => []OncePerRecipient
<1>1. ASSUME IInv PROVE OncePerRecipient
  <2>1. \A id \in noted : mailed[id] >= 1
    BY <1>1 DEF IInv, Delivered
  <2>2. ASSUME sendoff.phase = "ended", sendoff.failed = 0, NEW i \in 1..Len(sendoff.list)
        PROVE  mailed[sendoff.list[i]] >= 1
    <3>1. sendoff.todo = <<>>
      BY <1>1, <2>2 DEF IInv, Delivered
    <3>2. ~\E k \in 1..Len(sendoff.todo) : TRUE
      BY <3>1
    <3> QED BY <1>1, <2>2, <3>2 DEF IInv, Delivered
  <2> QED BY <1>1, <2>1, <2>2 DEF IInv, Delivered, OncePerRecipient
<1> QED BY Invariance, <1>1, PTL

\* ratelimit.py check: for any limits, senders and deaths of the service, no window of the
\* limiter's life, wherever it starts, holds more sign-ups than its cap.
THEOREM SignUpsCappedHolds == Spec => []SignUpsCapped
<1>1. ASSUME IInv PROVE SignUpsCapped
  <2> SUFFICES ASSUME NEW t \in 0..Horizon
               PROVE  /\ GrantedWithin(LAMBDA s : TRUE, Hour, t) <= PerHour
                      /\ PerIp > 0 => \A ip \in Ips :
                           GrantedWithin(LAMBDA s : s.ip = ip /\ ~s.trusted, Window, t) <= PerIp
    BY DEF SignUpsCapped
  <2>1. t \in Int /\ Limited
    BY <1>1 DEF IInv
  <2> QED BY <2>1, CountFact DEF Limited, Tracks
<1> QED BY Invariance, <1>1, PTL

\* The windows that end now are full.
HourFull == GrantedWithin(LAMBDA s : TRUE, Hour, now) >= PerHour
IpWindowFull(sender) ==
  GrantedWithin(LAMBDA s : s.ip = sender.ip /\ ~s.trusted, Window, now) >= PerIp
RefusalsAreDue ==
  [][\A s \in Senders :
       Refuse(s) => HourFull \/ (PerIp > 0 /\ ~s.trusted /\ IpWindowFull(s))]_vars

\* The other half of the cap, for any limits and senders: nobody is refused while the hour
\* has a place and, for a public sign-up, its address has one; a restart frees them all.
THEOREM RefusalsAreDueHolds == Spec => RefusalsAreDue
<1>1. ASSUME Limited, NEW s \in Senders, Refuse(s)
      PROVE  HourFull \/ (PerIp > 0 /\ ~s.trusted /\ IpWindowFull(s))
  <2>1. /\ now \in Int /\ s.ip \in Ips /\ \A i \in 1..Len(granted) : granted[i].at <= now
    BY <1>1 DEF Limited, Ips
  <2>2. \A S, window :
          GrantedIn(granted, S, window, now) = GrantedYounger(granted, S, now - window)
    BY <2>1 DEF GrantedIn, GrantedYounger
  <2>3. CASE GloballyFull
    BY <1>1, <2>1, <2>2, <2>3, LimitsFact, CountFact DEF GloballyFull, HourFull
  <2>4. CASE IpFull(s)
    BY <1>1, <2>1, <2>2, <2>4, LimitsFact, CountFact DEF IpFull, CapsIp, IpWindowFull
  <2> QED BY <1>1, <2>3, <2>4 DEF Refuse
<1>2. IInv /\ [Next]_vars =>
        [\A s \in Senders :
           Refuse(s) => HourFull \/ (PerIp > 0 /\ ~s.trusted /\ IpWindowFull(s))]_vars
  BY <1>1 DEF IInv
<1> QED BY Invariance, <1>2, PTL DEF Spec, RefusalsAreDue
=============================================================================
