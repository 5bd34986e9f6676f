----------------------------- MODULE Visitors -----------------------------
(***************************************************************************)
(* A visitor's account, from sign-up to the send-off mail.                 *)
(*                                                                         *)
(* Sign-up (create_agent of api/routes.py): the rate limiter, the agent's  *)
(* row in memory, then its row in SQL, with the unique index on the e-mail *)
(* behind the check in memory.  The handler runs on the event loop from    *)
(* start to end, so one sign-up is under way at a time, but the process    *)
(* may die, and a transaction fail or lose its answer, at every step.      *)
(*                                                                         *)
(* Send-off (notifications/seeoff.py): after the booth closes, a process   *)
(* of its own mails everybody who opted in, and notes each one in a file   *)
(* so that a re-run skips them.                                            *)
(***************************************************************************)
EXTENDS Integers, FiniteSets, SequencesExt

CONSTANTS
  People,        \* what visitors enter: [address, optIn : BOOLEAN]
  Canonical,     \* Canonical[a]: the address a, trimmed and in lower case
  Senders,       \* where requests come from: [ip, trusted : BOOLEAN]
  Ids,           \* agent ids: uuid4().hex[:8], which may collide
  None,          \* no address
  PerIp, Window, \* SIGNUP_RATE_PER_IP (0: no such cap), SIGNUP_RATE_WINDOW_S
  PerHour, Hour, \* SIGNUP_RATE_GLOBAL_PER_HOUR, and its window
  Horizon,       \* bound: time
  MaxSignUps,    \* bound: requests the limiter lets through
  MaxRestarts,   \* bound: deaths of the service
  MaxDbFailures, \* bound: transactions that fail
  MaxMailFaults, \* bound: mails, notes and send-off processes that fail
  MaxSendOffs    \* bound: send-offs started

ASSUME PeopleAssumption ==
  /\ \A p \in People : p.address \in DOMAIN Canonical \union {None} /\ p.optIn \in BOOLEAN
  /\ None \notin DOMAIN Canonical
ASSUME LimitsAssumption ==
  /\ {PerIp, Window, PerHour, Hour, Horizon, MaxSignUps} \subseteq Nat
  /\ IsFiniteSet(Ids)

\* What create_agent makes of a form: token is that of the agent's link.
Account == [address : DOMAIN Canonical \union {None}, optIn : BOOLEAN, token : 1..MaxSignUps]
Attempt == [account : Account, tries : 1..3, id : Ids \union {None}]

ASSUME NoneAssumption == None \notin Ids \union Nat /\ None \notin Attempt

VARIABLES
  now,       \* time.monotonic()
  perIp,     \* perIp[ip]: times in that deque of the limiter
  global,    \* times in the limiter's booth-wide deque
  memory,    \* the agent store: id -> account
  rows,      \* the table of agents: id -> account
  signing,   \* the sign-up under way
  served,    \* requests let through so far; the latest one's number is its token
  booth,     \* "open" or "closed"
  noted,     \* ids in seeoff_sent.json
  sendoff,   \* the send-off process
  faults,    \* faults so far, by kind
  granted,   \* history: what the limiter let through since the service started
  links,     \* history: links handed out, [id, token]
  collided,  \* history: ids that another sign-up drew again, since the service started
  mailed,    \* history: send-off mails delivered per id
  doubted    \* history: ids whose note a fault has hit

limiter == <<now, perIp, global, granted>>
accounts == <<memory, rows, signing, links, collided>>
sending == <<noted, sendoff, mailed, doubted>>
vars == <<limiter, accounts, served, booth, sending, faults>>

-----------------------------------------------------------------------------
(* The rate limiter.                                                       *)

\* mutant: an entry leaves a tick too soon
PruneEarly(bucket, cutoff) == SelectSeq(bucket, LAMBDA t : t > cutoff + 1)

\* _prune: entries leave the left of a deque until one is younger than the cutoff
Prune(bucket, cutoff) ==
  LET popped == CHOOSE n \in 0..Len(bucket) :
                  /\ \A i \in 1..n : bucket[i] <= cutoff
                  /\ n < Len(bucket) => bucket[n + 1] > cutoff
  IN  SubSeq(bucket, popped + 1, Len(bucket))

Ips == {s.ip : s \in Senders}
CapsIp(s) == ~s.trusted /\ PerIp > 0

Young(bucket, window) == Prune(bucket, now - window)

GloballyFull == Len(Young(global, Hour)) >= PerHour
IpFull(s) == CapsIp(s) /\ Len(Young(perIp[s.ip], Window)) >= PerIp

\* check() refuses: 429.  The deques it has looked at are pruned all the same.
Refuse(s) ==
  /\ booth = "open" /\ signing = None
  /\ GloballyFull \/ IpFull(s)
  /\ global' = Young(global, Hour)
  /\ perIp' = IF GloballyFull THEN perIp
              ELSE [perIp EXCEPT ![s.ip] = Young(@, Window)]
  /\ UNCHANGED <<now, granted, accounts, served, booth, sending, faults>>

\* check() records the sign-up, which keeps its place whatever comes of it.
Grant(s) ==
  /\ booth = "open" /\ signing = None /\ served < MaxSignUps
  /\ ~GloballyFull /\ ~IpFull(s)
  /\ global' = Append(Young(global, Hour), now)
  /\ perIp' = IF CapsIp(s) THEN [perIp EXCEPT ![s.ip] = Append(Young(@, Window), now)]
              ELSE perIp
  /\ granted' = Append(granted, [sender |-> s, at |-> now])
  /\ served' = served + 1
  /\ UNCHANGED now

Tick ==
  /\ booth = "open" /\ now < Horizon
  /\ now' = now + 1
  /\ UNCHANGED <<perIp, global, granted, accounts, served, booth, sending, faults>>

-----------------------------------------------------------------------------
(* One sign-up.                                                            *)

SameAddress(a, b) == a # None /\ b # None /\ Canonical[a] = Canonical[b]
\* mutant: the index tells spellings of one address apart
SameSpelling(a, b) == a # None /\ a = b

NotSigning == signing' = None
Try(account, tries) == [account |-> account, tries |-> tries, id |-> None]

\* The basket is checked behind the limiter: 422.
Request(s, p, basketIsValid) ==
  /\ Grant(s)
  /\ signing' = IF basketIsValid
                THEN Try([address |-> p.address, optIn |-> p.optIn, token |-> served'], 1)
                ELSE None
  /\ UNCHANGED <<memory, rows, links, collided, booth, sending, faults>>

TakenInMemory(address) == \E id \in DOMAIN memory : SameAddress(memory[id].address, address)

\* AgentStore.create: 409 for an address that memory knows, else a row in memory
\* under an id that nothing checks.
Register ==
  /\ signing # None /\ signing.id = None
  /\ \/ /\ TakenInMemory(signing.account.address)
        /\ NotSigning
        /\ UNCHANGED <<memory, collided>>
     \/ /\ ~TakenInMemory(signing.account.address)
        /\ \E id \in Ids :
             /\ memory' = [i \in DOMAIN memory \union {id} |->
                             IF i = id THEN signing.account ELSE memory[i]]
             /\ signing' = [signing EXCEPT !.id = id]
             /\ collided' = collided \union ({id} \intersect DOMAIN memory)
  /\ UNCHANGED <<limiter, rows, links, served, booth, sending, faults>>

\* The primary key, and ux_agents_env_email on lower(email).
IndexedSame(a, b) == SameAddress(a, b)
Insertable(id, account) ==
  /\ id \notin DOMAIN rows
  /\ \A i \in DOMAIN rows : ~IndexedSame(rows[i].address, account.address)

Stored(id, account) == [i \in DOMAIN rows \union {id} |->
                          IF i = id THEN account ELSE rows[i]]
Popped(id) == [i \in DOMAIN memory \ {id} |-> memory[i]]

\* What the answer's QR code holds, and the confirmation e-mail, whose failure is logged.
Link == [id |-> signing.id, token |-> signing.account.token]

\* DbAgentStore.create: the insert commits, and the answer carries the link.
Insert ==
  /\ signing # None /\ signing.id # None
  /\ Insertable(signing.id, signing.account)
  /\ rows' = Stored(signing.id, signing.account)
  /\ links' = links \union {Link}
  /\ NotSigning
  /\ UNCHANGED <<limiter, memory, collided, served, booth, sending, faults>>

\* IntegrityError, of the key or of the index: the row leaves memory, three tries.
InsertClashes ==
  /\ signing # None /\ signing.id # None
  /\ ~Insertable(signing.id, signing.account)
  /\ memory' = Popped(signing.id)
  /\ signing' = IF signing.tries < 3 THEN Try(signing.account, signing.tries + 1) ELSE None
  /\ UNCHANGED <<limiter, rows, links, collided, served, booth, sending, faults>>

\* Any other failure of the transaction.  It may have committed, its answer lost.
InsertFails ==
  /\ signing # None /\ signing.id # None
  /\ faults.db < MaxDbFailures /\ faults' = [faults EXCEPT !.db = @ + 1]
  /\ memory' = Popped(signing.id)
  /\ \/ rows' = rows
     \/ /\ Insertable(signing.id, signing.account)
        /\ rows' = Stored(signing.id, signing.account)
  /\ NotSigning
  /\ UNCHANGED <<limiter, links, collided, served, booth, sending>>

-----------------------------------------------------------------------------
(* The service's life.                                                     *)

Cleared ==
  /\ perIp' = [ip \in Ips |-> <<>>] /\ global' = <<>> /\ granted' = <<>>
  /\ NotSigning /\ collided' = {}

\* The service dies at any step and starts again: _load reads every row, and the
\* limiter's deques are empty.
Restart ==
  /\ booth = "open" /\ faults.restarts < MaxRestarts
  /\ faults' = [faults EXCEPT !.restarts = @ + 1]
  /\ memory' = rows
  /\ Cleared
  /\ UNCHANGED <<now, rows, links, served, booth, sending>>

\* The booth closes: from here on the send-off is all that happens.
Close ==
  /\ booth = "open" /\ booth' = "closed"
  /\ memory' = rows
  /\ Cleared /\ now' = 0
  /\ UNCHANGED <<rows, links, served, sending, faults>>

\* require_agent_token
Authorized(id, token) ==
  IF id \notin DOMAIN memory THEN "not found"
  ELSE IF token = None THEN "missing token"
  ELSE IF memory[id].token # token THEN "invalid token" ELSE "owner"

-----------------------------------------------------------------------------
(* The send-off.                                                           *)

\* seeoff_recipients: who opted in and has an address
Recipients == {id \in DOMAIN rows : rows[id].optIn /\ rows[id].address # None}

Doubt(ids) == doubted' = doubted \union ids
MailFault == faults.mail < MaxMailFaults /\ faults' = [faults EXCEPT !.mail = @ + 1]

\* send_seeoff starts: the rows come in any order, and --limit cuts the list before
\* those who have had their mail are dropped from it.
Begin ==
  /\ booth = "closed" /\ sendoff.phase \in {"off", "ended"}
  /\ faults.runs < MaxSendOffs /\ faults' = [faults EXCEPT !.runs = @ + 1]
  /\ \E all \in SetToSeqs(Recipients), limit \in 0..Cardinality(Recipients) :
       LET list == SubSeq(all, 1, limit) IN
       sendoff' = [phase |-> "sending", list |-> list, todo |-> list,
                   already |-> noted, failed |-> 0]
  /\ UNCHANGED <<limiter, accounts, served, booth, noted, mailed, doubted>>

Sending == sendoff.phase = "sending" /\ sendoff.todo # <<>>
Addressee == Head(sendoff.todo)
Deliver(n) == mailed' = [mailed EXCEPT ![Addressee] = @ + n]
Failed == sendoff' = [sendoff EXCEPT !.todo = Tail(@), !.failed = @ + 1]

Skip ==
  /\ Sending /\ Addressee \in sendoff.already
  /\ sendoff' = [sendoff EXCEPT !.todo = Tail(@)]
  /\ UNCHANGED <<limiter, accounts, served, booth, noted, mailed, doubted, faults>>

\* provider.send returns: the mail is out.
Send ==
  /\ Sending /\ Addressee \notin sendoff.already
  /\ Deliver(1)
  /\ sendoff' = [sendoff EXCEPT !.phase = "noting"]
  /\ UNCHANGED <<limiter, accounts, served, booth, noted, doubted, faults>>

\* It raises: the mail service refused, or its answer got lost after it delivered.
SendFails ==
  /\ Sending /\ Addressee \notin sendoff.already
  /\ MailFault /\ Failed
  /\ \/ Deliver(0) /\ Doubt({})
     \/ Deliver(1) /\ Doubt({Addressee})
  /\ UNCHANGED <<limiter, accounts, served, booth, noted>>

\* mutant: the file keeps the latest one only
NotedAlone(already) == {Addressee}
Noted(already) == already \union {Addressee}

\* The note: the whole set is written over the file.
Note ==
  /\ sendoff.phase = "noting"
  /\ sendoff' = [sendoff EXCEPT !.phase = "sending", !.todo = Tail(@),
                                !.already = Noted(@)]
  /\ noted' = Noted(sendoff.already)
  /\ UNCHANGED <<limiter, accounts, served, booth, mailed, doubted, faults>>

\* The write raises: the file is as it was, or cut short, which reads as empty.  The
\* id is in the set already, so the next write that succeeds notes it too.
NoteFails ==
  /\ sendoff.phase = "noting"
  /\ MailFault
  /\ sendoff' = [sendoff EXCEPT !.phase = "sending", !.todo = Tail(@),
                                !.already = Noted(@), !.failed = @ + 1]
  /\ \/ noted' = noted /\ Doubt({Addressee})
     \/ noted' = {} /\ Doubt(Noted(sendoff.already))
  /\ UNCHANGED <<limiter, accounts, served, booth, mailed>>

EndSendOff ==
  /\ sendoff.phase = "sending" /\ sendoff.todo = <<>>
  /\ sendoff' = [sendoff EXCEPT !.phase = "ended"]
  /\ UNCHANGED <<limiter, accounts, served, booth, noted, mailed, doubted, faults>>

\* The process dies between two steps, or with the file half written.
SendOffDies ==
  /\ sendoff.phase \in {"sending", "noting"}
  /\ MailFault
  /\ sendoff' = [sendoff EXCEPT !.phase = "off"]
  /\ \/ noted' = noted /\ Doubt(IF sendoff.phase = "noting" THEN {Addressee} ELSE {})
     \/ /\ sendoff.phase = "noting"
        /\ noted' = {} /\ Doubt(Noted(sendoff.already))
  /\ UNCHANGED <<limiter, accounts, served, booth, mailed>>

-----------------------------------------------------------------------------

Init ==
  /\ now = 0 /\ perIp = [ip \in Ips |-> <<>>] /\ global = <<>> /\ granted = <<>>
  /\ memory = <<>> /\ rows = <<>> /\ signing = None /\ links = {} /\ collided = {}
  /\ served = 0 /\ booth = "open"
  /\ noted = {} /\ mailed = [id \in Ids |-> 0] /\ doubted = {}
  /\ sendoff = [phase |-> "off", list |-> <<>>, todo |-> <<>>, already |-> {}, failed |-> 0]
  /\ faults = [db |-> 0, restarts |-> 0, mail |-> 0, runs |-> 0]

Next ==
  \/ \E s \in Senders : Refuse(s) \/ (\E p \in People, ok \in BOOLEAN : Request(s, p, ok))
  \/ Register \/ Insert \/ InsertClashes \/ InsertFails
  \/ Tick \/ Restart \/ Close
  \/ Begin \/ Skip \/ Send \/ SendFails \/ Note \/ NoteFails \/ EndSendOff \/ SendOffDies

Spec == Init /\ [][Next]_vars

-----------------------------------------------------------------------------
(* Properties.                                                             *)

TypeOK ==
  /\ now \in 0..Horizon /\ booth \in {"open", "closed"}
  /\ global \in Seq(0..Horizon) /\ \A ip \in Ips : perIp[ip] \in Seq(0..Horizon)
  /\ {memory, rows} \subseteq UNION {[D -> Account] : D \in SUBSET Ids}
  /\ noted \subseteq Ids /\ doubted \subseteq Ids /\ mailed \in [Ids -> Nat]
  /\ sendoff.phase \in {"off", "sending", "noting", "ended"}

GrantedWithin(S(_), window, t) ==
  Cardinality({i \in 1..Len(granted) :
                 S(granted[i].sender) /\ granted[i].at <= t /\ granted[i].at > t - window})

\* No hour of the service's life, wherever it starts, lets more than PerHour sign-ups
\* through, kiosk and public together, and no window more than PerIp of the public ones
\* of one address (ratelimit.py: check prunes, counts and appends under the lock).
SignUpsCapped ==
  \A t \in 0..Horizon :
    /\ GrantedWithin(LAMBDA s : TRUE, Hour, t) <= PerHour
    /\ PerIp > 0 => \A ip \in Ips :
         GrantedWithin(LAMBDA s : s.ip = ip /\ ~s.trusted, Window, t) <= PerIp

OneAgentPerEmail ==
  \A i, j \in DOMAIN rows : SameAddress(rows[i].address, rows[j].address) => i = j

MemoryIsBacked ==
  signing = None => \A id \in DOMAIN memory : id \in DOMAIN rows /\ memory[id] = rows[id]

LinksOpen ==
  signing = None => \A l \in links : l.id \in collided \/ Authorized(l.id, l.token) = "owner"

\* In SQL no two agents share an e-mail however it is spelled; between sign-ups memory
\* holds only what SQL holds; and every link handed out opens the agent it was made for,
\* restarts included, unless another sign-up drew its id (db.py: create; auth.py).
AccountsStand == OneAgentPerEmail /\ MemoryIsBacked /\ LinksOpen

\* The send-off misses nobody and mails nobody twice: whoever the file names has had the
\* mail, a process that ends without a failure has reached its whole list, and a second
\* mail only follows a fault at that one's note (seeoff.py: send_seeoff and its file).
OncePerRecipient ==
  /\ \A id \in noted : mailed[id] >= 1
  /\ sendoff.phase = "ended" /\ sendoff.failed = 0 =>
       \A i \in 1..Len(sendoff.list) : mailed[sendoff.list[i]] >= 1
  /\ \A id \in Ids : mailed[id] >= 2 => id \in doubted

-----------------------------------------------------------------------------
\* "Already-sent agents (per the state file) are skipped on a real send so a re-run never
\* double-sends" (seeoff.py): nobody gets two mails.
NeverDoubleSends == \A id \in Ids : mailed[id] <= 1
=============================================================================
