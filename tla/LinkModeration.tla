--------------------------- MODULE LinkModeration ---------------------------
(***************************************************************************)
(* Operators pause and resume the link of one artifact; its owner is told  *)
(* by email and may appeal. A request reads the artifact and whom to tell, *)
(* records the move in one guarded batch, reads the recipient again and    *)
(* sends. People, ownership and visibility change in between.              *)
(***************************************************************************)
EXTENDS Naturals, Sequences, FiniteSets

CONSTANTS
    Humans, Bot,
    Operators,  \* requests of operators that may be in flight at once
    Appeals,    \* requests to appeal that may be in flight at once
    Cooldown,   \* ticks between appeals
    MaxTime,
    MaxMoves,   \* moves recorded
    MaxChanges, \* changes of people and the artifact
    MaxFaults   \* requests that end without a word, mails that fail

ModerationAssumption ==
    /\ Bot \notin Humans
    /\ {Cooldown, MaxTime, MaxMoves, MaxChanges, MaxFaults} \subseteq Nat

Nobody == "nobody"
Moves == {"suspend", "resume"}
Idle == [step |-> "idle"]

VARIABLES
    art,       \* the artifact: there, shared by link, its owner
    paused,    \* link_suspended_at is set
    boss,      \* the workspace's owner
    address,   \* each person's email address, as a version
    verified,  \* people whose address is verified
    removed,   \* people removed from the workspace
    log,       \* the moves recorded
    appealed,  \* stamps of the appeals recorded
    op, appeal, clock, changes, faults,
    since,     \* history: owners of the artifact since each move
    told       \* history: the notices sent

people == <<boss, address, verified, removed>>
vars == <<art, paused, people, log, appealed, op, appeal, clock, changes, faults, since, told>>

Init ==
    /\ art \in [here: {TRUE}, link: {TRUE}, owner: Humans \union {Bot}]
    /\ paused = FALSE
    /\ boss \in Humans
    /\ address = [h \in Humans |-> 0]
    /\ verified \in {Humans, Humans \ {boss}}
    /\ removed = {}
    /\ log = <<>>
    /\ appealed = {}
    /\ op = [o \in Operators |-> Idle]
    /\ appeal = [a \in Appeals |-> Idle]
    /\ clock = Cooldown + 1
    /\ changes = 0
    /\ faults = 0
    /\ since = <<>>
    /\ told = {}

-----------------------------------------------------------------------------
(* An operator's request                                                   *)

\* A move leaves the state it is for.
MayMove(move) ==
    /\ art.here
    /\ IF move = "suspend" THEN art.link /\ ~paused ELSE paused

\* suspendLink and resumeLink, with ownerOf
Begin(o, move) ==
    /\ op[o].step = "idle"
    /\ MayMove(move)
    /\ op' = [op EXCEPT ![o] =
          [step |-> "recipients", move |-> move, owner |-> art.owner, changes |-> changes,
           address |-> IF art.owner = Bot THEN 0 ELSE address[art.owner],
           notify |-> move = "suspend" \/ art.link]]
    /\ UNCHANGED <<art, paused, people, log, appealed, appeal, clock, changes, faults, since, told>>

\* notificationRecipients: the owner, and for a bot's artifact the workspace's.
Recipient(q) ==
    CASE q.owner # Bot -> q.owner
      [] q.owner = Bot /\ boss \in verified -> boss
      [] OTHER -> Nobody

Gather(o) ==
    LET q == op[o]
        to == Recipient(q)
    IN
    /\ q.step = "recipients"
    /\ op' = [op EXCEPT ![o] =
          [step |-> "batch", move |-> q.move, owner |-> q.owner, changes |-> q.changes, notify |-> q.notify,
           to |-> to, address |-> IF q.owner = Bot /\ to = boss THEN address[boss] ELSE q.address]]
    /\ UNCHANGED <<art, paused, people, log, appealed, appeal, clock, changes, faults, since, told>>

\* The event, the audit entry and the flag, in one batch.
Record(o) ==
    LET q == op[o] IN
    /\ q.step = "batch"
    /\ MayMove(q.move)
    /\ Len(log) < MaxMoves
    /\ log' = Append(log, [move |-> q.move, to |-> IF q.notify THEN q.to ELSE Nobody,
                           address |-> q.address, changes |-> q.changes])
    /\ since' = Append(since, {art.owner})
    /\ paused' = (q.move = "suspend")
    /\ op' = [op EXCEPT ![o] = IF q.notify /\ q.to # Nobody
                THEN [step |-> "recheck", move |-> q.move, owner |-> q.owner, to |-> q.to,
                      address |-> q.address, event |-> Len(log) + 1]
                ELSE Idle]
    /\ UNCHANGED <<art, people, appealed, appeal, clock, changes, faults, told>>

\* already: somebody else made the move, or the artifact is gone.
Already(o) ==
    /\ op[o].step = "batch"
    /\ ~MayMove(op[o].move)
    /\ op' = [op EXCEPT ![o] = Idle]
    /\ UNCHANGED <<art, paused, people, log, appealed, appeal, clock, changes, faults, since, told>>

\* mutant: the recipient is taken as read before the move
StillStands(q) == TRUE

\* mutant: a recipient owns the artifact, also a bot's
StandsAsOwner(q) ==
    /\ art.here /\ art.owner = q.to
    /\ q.move = "resume" => art.link
    /\ q.to \in verified
    /\ address[q.to] = q.address

\* The recipient stands as before: same part, same verified address; a resumed
\* link is still one.
Stands(q) ==
    /\ art.here
    /\ IF q.owner # Bot THEN art.owner = q.to ELSE art.owner = Bot /\ boss = q.to
    /\ q.move = "resume" => art.link
    /\ q.to \in verified
    /\ address[q.to] = q.address

Recheck(o) ==
    LET q == op[o] IN
    /\ q.step = "recheck"
    /\ op' = [op EXCEPT ![o] = IF Stands(q)
                THEN [step |-> "send", owner |-> q.owner, to |-> q.to, event |-> q.event,
                      address |-> address[q.to]]
                ELSE Idle]
    /\ UNCHANGED <<art, paused, people, log, appealed, appeal, clock, changes, faults, since, told>>

\* sendOwnerNotice; the reason is for an artifact's own owner.
Send(o) ==
    LET q == op[o] IN
    /\ q.step = "send"
    /\ told' = told \union {[to |-> q.to, address |-> q.address, event |-> q.event, reason |-> q.owner # Bot]}
    /\ op' = [op EXCEPT ![o] = Idle]
    /\ UNCHANGED <<art, paused, people, log, appealed, appeal, clock, changes, faults, since>>

\* The Worker ends, or the mail is refused; the operator who repeats the request
\* finds the move made.
Break(o) ==
    /\ faults < MaxFaults
    /\ op[o].step # "idle"
    /\ faults' = faults + 1
    /\ op' = [op EXCEPT ![o] = Idle]
    /\ UNCHANGED <<art, paused, people, log, appealed, appeal, clock, changes, since, told>>

-----------------------------------------------------------------------------
(* An appeal                                                               *)

Preflight(a, h) ==
    /\ appeal[a].step = "idle"
    /\ art.here /\ art.owner = h /\ h \notin removed
    /\ paused
    /\ appeal' = [appeal EXCEPT ![a] = [step |-> "insert", by |-> h, now |-> clock]]
    /\ UNCHANGED <<art, paused, people, log, appealed, op, clock, changes, faults, since, told>>

\* No appeal since an hour before.
NoneRecent(now) == ~\E t \in appealed : t + Cooldown >= now

Insert(a) ==
    LET q == appeal[a] IN
    /\ q.step = "insert"
    /\ appeal' = [appeal EXCEPT ![a] = Idle]
    /\ appealed' = IF art.here /\ art.owner = q.by /\ paused /\ NoneRecent(q.now)
                   THEN appealed \union {q.now} ELSE appealed
    /\ UNCHANGED <<art, paused, people, log, op, clock, changes, faults, since, told>>

-----------------------------------------------------------------------------
(* Around the requests                                                     *)

Change == changes < MaxChanges /\ changes' = changes + 1

\* A removed person's artifacts go to somebody else.
Transfer(h) ==
    /\ Change
    /\ art.here /\ art.owner \in Humans \ {h} /\ h \notin removed
    /\ art' = [art EXCEPT !.owner = h]
    /\ since' = [e \in DOMAIN since |-> since[e] \union {h}]
    /\ UNCHANGED <<paused, people, log, appealed, op, appeal, clock, faults, told>>

\* Hidden and shared again; a pause stays.
Toggle ==
    /\ Change
    /\ art.here
    /\ art' = [art EXCEPT !.link = ~@]
    /\ UNCHANGED <<paused, people, log, appealed, op, appeal, clock, faults, since, told>>

Delete ==
    /\ Change
    /\ art.here
    /\ art' = [art EXCEPT !.here = FALSE]
    /\ UNCHANGED <<paused, people, log, appealed, op, appeal, clock, faults, since, told>>

Readdress(h) ==
    /\ Change
    /\ address' = [address EXCEPT ![h] = @ + 1]
    /\ UNCHANGED <<art, paused, boss, verified, removed, log, appealed, op, appeal, clock, faults, since, told>>

NewBoss(h) ==
    /\ Change
    /\ h # boss
    /\ boss' = h
    /\ UNCHANGED <<art, paused, address, verified, removed, log, appealed, op, appeal, clock, faults, since, told>>

RemovePerson(h) ==
    /\ Change
    /\ h \notin removed \union {boss}
    /\ removed' = removed \union {h}
    /\ UNCHANGED <<art, paused, boss, address, verified, log, appealed, op, appeal, clock, faults, since, told>>

Tick ==
    /\ clock < MaxTime
    /\ clock' = clock + 1
    /\ UNCHANGED <<art, paused, people, log, appealed, op, appeal, changes, faults, since, told>>

-----------------------------------------------------------------------------
Progress(o) == Gather(o) \/ Record(o) \/ Already(o) \/ Recheck(o) \/ Send(o)

Next ==
    \/ \E o \in Operators : \/ \E move \in Moves : Begin(o, move)
                            \/ Progress(o)
                            \/ Break(o)
    \/ \E a \in Appeals : (\E h \in Humans : Preflight(a, h)) \/ Insert(a)
    \/ \E h \in Humans : Transfer(h) \/ Readdress(h) \/ NewBoss(h) \/ RemovePerson(h)
    \/ Toggle \/ Delete \/ Tick

Fairness == \A o \in Operators : WF_vars(Progress(o))

Spec == Init /\ [][Next]_vars
FairSpec == Spec /\ Fairness

-----------------------------------------------------------------------------
TypeOK ==
    /\ art \in [here: BOOLEAN, link: BOOLEAN, owner: Humans \union {Bot}]
    /\ paused \in BOOLEAN
    /\ \A o \in Operators : "to" \in DOMAIN op[o] => op[o].to \in Humans \union {Nobody}
    /\ log \in Seq([move: Moves, to: Humans \union {Nobody}, address: 0 .. MaxChanges, changes: 0 .. MaxChanges])
    /\ Len(since) = Len(log)
    /\ \A n \in told : n.to \in Humans /\ n.event \in DOMAIN log

\* Pauses and resumptions alternate, whoever races, and the flag is the last of
\* them: every change of the flag has its record and every record changed it.
RecordIsHistory ==
    /\ \A i \in DOMAIN log : log[i].move = IF i % 2 = 1 THEN "suspend" ELSE "resume"
    /\ paused <=> Len(log) % 2 = 1

\* The reason of a pause reaches only somebody who owned the artifact after it was
\* recorded, at the address they had when the operator looked.
ReasonIsForTheOwner ==
    \A n \in told : n.reason => n.to \in since[n.event] /\ n.address = log[n.event].address

\* Between two recorded appeals lies an hour, however many are sent at once.
AppealsSpaced == \A s, t \in appealed : s < t => s + Cooldown < t

\* Who is to be told of a move is told, unless people or the artifact changed
\* meanwhile or their address is not verified.
OwnerIsTold ==
    \A e \in 1 .. MaxMoves :
        (e \in DOMAIN log /\ log[e].to \in verified)
            ~> \/ \E n \in told : n.event = e
               \/ e \in DOMAIN log /\ changes # log[e].changes
=============================================================================
