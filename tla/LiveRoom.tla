------------------------------- MODULE LiveRoom -------------------------------
(***************************************************************************)
(* The Durable Object that keeps the live connections of one artifact:     *)
(* src/apps/web/workers/artifact-live-room.ts.                             *)
(*                                                                         *)
(* Each action is one synchronous turn of the object; requests, socket     *)
(* events, alarms and the queue of alarm updates interleave at its awaits. *)
(* Times are what is left of them: Tick counts every timer down, 0 is due  *)
(* and Never is null.                                                      *)
(***************************************************************************)
EXTENDS Integers, FiniteSets, Sequences, SequencesExt

CONSTANTS
  Socket,       \* the connections that may be asked for, each once
  Presence,     \* what a viewer may show: a user with a name
  UserOf,       \* the user of each presence
  RoomCap, UserCap,
  Deadlines,    \* what an admission may have left of its authorization
  Interval,     \* PRESENCE_INTERVAL_MS
  MaxUpdates,   \* bound: events are delivered while fewer updates wait
  MaxFaults,    \* bound: storage writes, sends and acceptances that fail
  Nobody, Alarm, None

LongestDeadline == CHOOSE d \in Deadlines : \A e \in Deadlines : e <= d

ASSUME TimeAssumption ==
  /\ Deadlines \subseteq Nat \ {0} /\ Interval \in Nat \ {0}
  /\ \A d \in Deadlines : d > Interval /\ d <= LongestDeadline
  /\ LongestDeadline \in Deadlines

ASSUME RoomAssumption ==
  /\ IsFiniteSet(Socket) /\ RoomCap \in Nat /\ UserCap \in Nat /\ MaxFaults \in Nat
  /\ None \notin Presence /\ None \notin Seq(Presence)
  /\ {Nobody, Alarm} \cap Socket = {} /\ Nobody # Alarm

Never == LongestDeadline + 1
Timer == 0 .. Never
User == {UserOf[p] : p \in Presence}

VARIABLES
  sock,     \* the sockets as the runtime keeps them, with their attachments
  room,     \* the object's memory
  saved,    \* PRESENCE_KEY in the object's storage
  alarm,    \* the object's alarm
  updates,  \* the alarmUpdate chain: who waits for each update, the head runs
  step,     \* how far the head is, with the alarm it read
  phase,    \* how far each connection's fetch is
  faults

vars == <<sock, room, saved, alarm, updates, step, phase, faults>>

Phases == {"none", "charging", "setup", "setup2", "failing", "live", "refused"}
Reserving(s) == s \in room.reserved

TypeOK ==
  /\ sock \in [Socket -> [ready : {"none", "open", "closing", "closed"},
                          presence : Presence \cup {None}, deadline : Timer,
                          seen : Seq(Presence) \cup {None}]]
  /\ room.records \subseteq Socket /\ room.cleanup \subseteq room.records
  /\ room.users \in Seq(User) /\ room.tabs \in [User -> Seq(Socket)]
  /\ room.reserved \subseteq Socket
  /\ room.occupancy \in [User -> Nat] /\ room.reservations \in Nat
  /\ {room.nextExpiry, room.cleanupDue, room.due, saved.due, alarm} \subseteq Timer
  /\ room.expiryDirty \in BOOLEAN
  /\ updates \in Seq(Socket \cup {Nobody, Alarm})
  /\ step \in [at : {"start", "read", "put"}, installed : Timer]
  /\ phase \in [Socket -> Phases]
  /\ faults \in 0 .. MaxFaults

-----------------------------------------------------------------------------
(* The memory of the object: r is [m |-> room, k |-> sock].                *)

Sooner(a, b) == IF a < b THEN a ELSE b
Least(T) == CHOOSE t \in T : \A u \in T : t <= u

\* The users who are here, as they came, and the tabs of each.
Eligible(m) == UNION {ToSet(m.tabs[u]) : u \in User}

\* presenceBody: the first tab speaks for its user
Body(r) == [i \in DOMAIN r.m.users |-> r.k[Head(r.m.tabs[r.m.users[i]])].presence]

MarkPresenceDirty(r) ==
  [r EXCEPT !.m.due = IF @ = Never THEN Interval ELSE @]

UserId(r, s) == UserOf[r.k[s].presence]

Activate(r, s, changed) ==
  LET u == UserId(r, s)
      opened == [r EXCEPT !.m.tabs[u] = Append(@, s),
                          !.m.nextExpiry = Sooner(@, r.k[s].deadline)]
      added == [opened EXCEPT !.m.users = Append(@, u)]
  IN IF r.m.tabs[u] # <<>> THEN opened
     ELSE IF changed THEN MarkPresenceDirty(added) ELSE added

Forget(r, s) ==
  IF s \notin r.m.records THEN r
  ELSE [r EXCEPT !.m.records = @ \ {s},
                 !.m.occupancy[UserId(r, s)] = @ - 1,
                 !.m.cleanup = @ \ {s},
                 !.m.cleanupDue = IF r.m.cleanup \subseteq {s} THEN Never ELSE @]

Without(q, x) == RemoveAt(q, CHOOSE i \in DOMAIN q : q[i] = x)

\* The first half of invalidate: s no longer counts for presence or expiry.
Retire(r, s) ==
  LET u == UserId(r, s)
      left == Without(r.m.tabs[u], s)
      gone == [r EXCEPT !.m.tabs[u] = left,
                        !.m.users = IF left = <<>> THEN Without(@, u) ELSE @,
                        !.m.expiryDirty = @ \/ /\ r.k[s].deadline = r.m.nextExpiry
                                               /\ \A t \in Eligible(r.m) \ {s} :
                                                    r.k[t].deadline # r.k[s].deadline]
  IN IF Body(gone) = Body(r) THEN gone ELSE MarkPresenceDirty(gone)

\* invalidateSocket
Shut(r, s) == [r EXCEPT !.k[s].deadline = 0,
                        !.k[s].ready = IF @ = "closed" THEN @ ELSE "closing"]

ToSweep(r, s) == [r EXCEPT !.m.cleanup = @ \cup {s},
                           !.m.cleanupDue = IF @ = Never THEN Interval ELSE @]

Ended(r, s) == IF r.k[s].ready = "closed" THEN Forget(r, s) ELSE ToSweep(r, s)

Invalidate(r, s) ==
  Ended(Shut(IF s \in Eligible(r.m) THEN Retire(r, s) ELSE r, s), s)

\* FoldLeft, as a function that can be reasoned about
InOrder(Op(_, _), r, list) ==
  LET after[i \in 0 .. Len(list)] == IF i = 0 THEN r ELSE Op(after[i - 1], list[i])
  IN after[Len(list)]

InvalidateAll(r, S) == InOrder(Invalidate, r, SetToSeq(S))

\* mutant: the deadlines that are left are not looked at
ExpireForgettingRest(r) ==
  IF ~r.m.expiryDirty /\ r.m.nextExpiry > 0 THEN r
  ELSE [InvalidateAll(r, {s \in Eligible(r.m) : r.k[s].deadline = 0})
          EXCEPT !.m.nextExpiry = Never, !.m.expiryDirty = FALSE]

\* The next expiry, from the deadlines that are left.
ReckonedAnew(r) ==
  LET left == {r.k[s].deadline : s \in Eligible(r.m)}
  IN [r EXCEPT !.m.nextExpiry = Least(left \cup {Never}), !.m.expiryDirty = FALSE]

Expire(r) ==
  IF ~r.m.expiryDirty /\ r.m.nextExpiry > 0 THEN r
  ELSE ReckonedAnew(InvalidateAll(r, {s \in Eligible(r.m) : r.k[s].deadline = 0}))

IsValid(r, s) == s \in Eligible(r.m) /\ r.k[s].ready = "open" /\ r.k[s].deadline > 0

\* valid: an eligible record that is not valid any more is invalidated
Validate(r, s) ==
  IF s \in Eligible(r.m) /\ ~IsValid(r, s) THEN Invalidate(r, s) ELSE r

ValidateAll(r, S) == InvalidateAll(r, {s \in S \cap Eligible(r.m) : ~IsValid(r, s)})

\* send to every valid one of S; the send to a socket of lost throws
SendTo(r, S, lost, body) ==
  LET checked == ValidateAll(r, S)
      valid == {s \in S : IsValid(checked, s)}
      sent == [checked EXCEPT !.k = [s \in Socket |->
                 IF s \in valid \ lost /\ body # None
                   THEN [@[s] EXCEPT !.seen = body] ELSE @[s]]]
  IN InvalidateAll(sent, valid \cap lost)

Earliest(r) == Least({r.m.nextExpiry, r.m.due, r.m.cleanupDue})
Schedule(r) == [due |-> r.m.due, published |-> r.m.published]

-----------------------------------------------------------------------------
EmptyRoom ==
  [records |-> {}, users |-> <<>>, tabs |-> [u \in User |-> <<>>], reserved |-> {},
   reservations |-> 0, occupancy |-> [u \in User |-> 0], nextExpiry |-> Never, expiryDirty |-> FALSE,
   cleanup |-> {}, cleanupDue |-> Never, due |-> Never, published |-> <<>>]

NoSocket == [ready |-> "none", presence |-> None, deadline |-> Never, seen |-> None]
AtStart == [at |-> "start", installed |-> Never]

\* A room that was never used: its first construction published the empty room.
Init ==
  /\ sock = [s \in Socket |-> NoSocket]
  /\ room = EmptyRoom
  /\ saved = [due |-> Never, published |-> <<>>]
  /\ alarm = Never
  /\ updates = <<>> /\ step = AtStart
  /\ phase = [s \in Socket |-> "none"]
  /\ faults = 0

Here == [m |-> room, k |-> sock]
Becomes(r) == room' = r.m /\ sock' = r.k

Quiet == Len(updates) < MaxUpdates
Queue(who) == updates' = Append(updates, who)
Fault == faults < MaxFaults /\ faults' = faults + 1

\* The sends of one turn that throw: none, or one and a fault.
Lost(lost) ==
  \/ lost = {} /\ UNCHANGED faults
  \/ (\E s \in Socket : lost = {s}) /\ Fault

-----------------------------------------------------------------------------
(* fetch: the admission of one connection *)

Release(r, s) ==
  IF s \notin r.m.reserved THEN r
  ELSE [r EXCEPT !.m.reserved = @ \ {s}, !.m.reservations = @ - 1,
                 !.m.occupancy[UserId(r, s)] = @ - 1]

\* mutant: admissions under way are not counted
FitsUnreserved(r, p) ==
  Cardinality(r.m.records) < RoomCap /\ r.m.occupancy[UserOf[p]] < UserCap

Fits(r, p) ==
  /\ Cardinality(r.m.records) + r.m.reservations < RoomCap
  /\ r.m.occupancy[UserOf[p]] < UserCap

Arrive(s, p, d) ==
  /\ phase[s] = "none"
  /\ LET r == Expire([Here EXCEPT !.k[s].presence = p, !.k[s].deadline = d])
     IN Becomes(IF Fits(r, p)
                  THEN [r EXCEPT !.m.reserved = @ \cup {s}, !.m.reservations = @ + 1,
                                 !.m.occupancy[UserOf[p]] = @ + 1]
                  ELSE r)
  /\ phase' = [phase EXCEPT ![s] = "charging"]
  /\ UNCHANGED <<saved, alarm, updates, step, faults>>

\* chargeAttempt has answered: no budget, no capacity, or too late.
Refuse(s) ==
  /\ phase[s] = "charging"
  /\ Becomes(Release(Here, s))
  /\ phase' = [phase EXCEPT ![s] = "refused"]
  /\ UNCHANGED <<saved, alarm, updates, step, faults>>

\* The write of the budget failed.
ChargeFails(s) ==
  /\ phase[s] = "charging" /\ Quiet /\ Fault
  /\ Queue(s)
  /\ phase' = [phase EXCEPT ![s] = "failing"]
  /\ UNCHANGED <<sock, room, saved, alarm, step>>

\* The reservation becomes a record.
Recorded(s) ==
  [Here EXCEPT !.m.records = @ \cup {s}, !.m.reserved = @ \ {s}, !.m.reservations = @ - 1]

Admittable(s) ==
  /\ phase[s] = "charging" /\ Quiet
  /\ Reserving(s) /\ sock[s].deadline > 0

Accept(s) ==
  /\ Admittable(s)
  /\ Becomes(Activate([Recorded(s) EXCEPT !.k[s].ready = "open"], s, TRUE))
  /\ Queue(s)
  /\ phase' = [phase EXCEPT ![s] = "setup"]
  /\ UNCHANGED <<saved, alarm, step, faults>>

\* acceptWebSocket throws
AcceptFails(s) ==
  /\ Admittable(s) /\ Fault
  /\ Becomes(Invalidate(Recorded(s), s))
  /\ Queue(s)
  /\ phase' = [phase EXCEPT ![s] = "failing"]
  /\ UNCHANGED <<saved, alarm, step>>

\* What the fetch of s does when the update it awaits is over.
Fail(s, r) ==
  /\ Becomes(Invalidate(r, s))
  /\ updates' = Append(Tail(updates), s)
  /\ phase' = [phase EXCEPT ![s] = "failing"]

Finish(s, r, p) ==
  /\ Becomes(r)
  /\ updates' = Tail(updates)
  /\ phase' = [phase EXCEPT ![s] = p]

\* Even a return to what was published must then reach the newcomer.
PublishedUnknown(r) == MarkPresenceDirty([r EXCEPT !.m.published = None])

ContinueSetup(s, r, lost) ==
  LET sent == SendTo(r, {s}, lost, Body(r))
      unpublished == Body(r) # sent.m.published
  IN IF ~IsValid(r, s) THEN Fail(s, Validate(r, s))
     ELSE IF unpublished
       THEN /\ Becomes(PublishedUnknown(sent))
            /\ updates' = Append(Tail(updates), s)
            /\ phase' = [phase EXCEPT ![s] = "setup2"]
     ELSE IF IsValid(sent, s) THEN Finish(s, sent, "live") ELSE Fail(s, sent)

Continue(s, r, lost) ==
  \/ phase[s] = "setup" /\ ContinueSetup(s, r, lost)
  \/ phase[s] = "setup2" /\ IsValid(r, s) /\ Finish(s, r, "live")
  \/ phase[s] = "setup2" /\ ~IsValid(r, s) /\ Fail(s, Validate(r, s))
  \/ phase[s] = "failing" /\ Finish(s, Release(r, s), "refused")

-----------------------------------------------------------------------------
(* updateAlarm, one at a time *)

\* The update at the head is over, and memory is r.
Return(r, lost) ==
  \/ /\ Head(updates) \in Socket /\ Continue(Head(updates), r, lost)
  \/ /\ Head(updates) \notin Socket /\ lost = {}
     /\ Becomes(r) /\ updates' = Tail(updates)
     /\ UNCHANGED phase

ReadAlarm ==
  /\ updates # <<>> /\ step.at = "start"
  /\ step' = [at |-> "read", installed |-> alarm]
  /\ UNCHANGED <<sock, room, saved, alarm, updates, phase, faults>>

\* After the last await: the alarm is set to the earliest obligation, unless the
\* one that was read is the same; two that are overdue may be the same or not.
SetAlarm(r) ==
  \/ alarm' = Earliest(r) /\ (step.installed = 0 \/ step.installed # Earliest(r))
  \/ UNCHANGED alarm /\ step.installed = Earliest(r)

PutSchedule ==
  /\ step.at = "read"
  /\ LET r == Expire(Here)
     IN Schedule(r) # saved /\ Becomes(r) /\ saved' = Schedule(r)
  /\ step' = [step EXCEPT !.at = "put"]
  /\ UNCHANGED <<alarm, updates, phase, faults>>

Update(lost) ==
  /\ \/ step.at = "put"
     \/ step.at = "read" /\ Schedule(Expire(Here)) = saved
  /\ LET r == IF step.at = "put" THEN Here ELSE Expire(Here)
     IN SetAlarm(r) /\ Return(r, lost)
  /\ Lost(lost)
  /\ step' = AtStart
  /\ UNCHANGED saved

\* A storage call of the update fails. The runtime delivers an alarm again
\* whose handler failed.
UpdateFails ==
  /\ updates # <<>> /\ Fault
  /\ LET s == Head(updates)
         r == IF step.at = "read" THEN Expire(Here) ELSE Here
     IN \/ s \in Socket /\ phase[s] # "failing" /\ Fail(s, r) /\ UNCHANGED alarm
        \/ s \in Socket /\ phase[s] = "failing" /\ Finish(s, Release(r, s), "refused")
             /\ UNCHANGED alarm
        \/ s \notin Socket /\ Becomes(r) /\ updates' = Tail(updates)
             /\ alarm' = (IF s = Alarm THEN 0 ELSE alarm) /\ UNCHANGED phase
  /\ step' = AtStart
  /\ UNCHANGED saved

-----------------------------------------------------------------------------
(* Events *)

\* notifyCommentsChanged, notifyViewCountChanged, notifyVersionChanged
Notify(lost) ==
  /\ Quiet /\ Lost(lost)
  /\ Becomes(SendTo(Here, room.records, lost, None))
  /\ Queue(Nobody)
  /\ UNCHANGED <<saved, alarm, step, phase>>

PeerCloses(s) ==
  /\ sock[s].ready \in {"open", "closing"}
  /\ sock' = [sock EXCEPT ![s].ready = "closed"]
  /\ UNCHANGED <<room, saved, alarm, updates, step, phase, faults>>

\* The event of a close may never come.
WebSocketClose(s) ==
  /\ sock[s].ready = "closed" /\ s \in room.records /\ Quiet
  /\ Becomes(Forget(Invalidate(Here, s), s))
  /\ Queue(Nobody)
  /\ UNCHANGED <<saved, alarm, step, phase, faults>>

WebSocketError(s) ==
  /\ sock[s].ready = "open" /\ Quiet
  /\ Becomes(IF s \in room.records THEN Invalidate(Here, s) ELSE Here)
  /\ Queue(Nobody)
  /\ UNCHANGED <<saved, alarm, step, phase, faults>>

\* mutant: one sweep is enough
SweepOnce(r) ==
  IF r.m.cleanupDue > 0 THEN r
  ELSE LET closed == {s \in r.m.cleanup : r.k[s].ready = "closed"}
       IN [InvalidateAll(r, closed) EXCEPT !.m.cleanupDue = Never]

\* The cleanup sweep of the alarm handler; invalidate forgets what is closed.
Sweep(r) ==
  IF r.m.cleanupDue > 0 THEN r
  ELSE LET swept == InvalidateAll(r, r.m.cleanup)
       IN [swept EXCEPT !.m.cleanupDue = IF swept.m.cleanup = {} THEN Never ELSE Interval]

\* The presence it publishes
Publish(r, lost) ==
  IF r.m.due > 0 THEN r
  ELSE LET checked == ValidateAll(r, r.m.records)
           body == Body(checked)
           done == [checked EXCEPT !.m.due = Never, !.m.published = body]
       IN IF body = checked.m.published THEN done
          ELSE SendTo(done, done.m.records, lost, body)

\* The runtime runs one alarm at a time.
Fire(lost) ==
  /\ alarm = 0 /\ Alarm \notin ToSet(updates)
  /\ Lost(lost)
  /\ Becomes(Publish(Sweep(Expire(Here)), lost))
  /\ alarm' = Never
  /\ Queue(Alarm)
  /\ UNCHANGED <<saved, step, phase>>

-----------------------------------------------------------------------------
(* constructor: the object is evicted and built again *)

Retained(k) == {s \in Socket : k[s].ready \in {"open", "closing"}}

Restore(r, s) ==
  LET counted == [r EXCEPT !.m.records = @ \cup {s}, !.m.occupancy[UserId(r, s)] = @ + 1]
  IN IF r.k[s].deadline > 0 /\ r.k[s].ready = "open"
       THEN Activate(counted, s, FALSE) ELSE Invalidate(counted, s)

RestoreAll(r, order) == InOrder(Restore, r, order)

Rebuild(k, order) ==
  LET start == [m |-> [EmptyRoom EXCEPT !.due = saved.due, !.published = saved.published],
                k |-> k]
      restored == RestoreAll(start, order)
  IN Expire(IF Body(restored) = restored.m.published THEN restored
            ELSE MarkPresenceDirty(restored))

Construct(k) ==
  \E order \in SetToSeqs(Retained(k)) :
    LET r == Rebuild(k, order)
    IN Becomes(r) /\ saved' = Schedule(r) /\ alarm' = Earliest(r)

\* Nothing is under way, and the sockets outlive the object.
Hibernate ==
  /\ updates = <<>> /\ \A s \in Socket : phase[s] \in {"none", "live", "refused"}
  /\ Construct(sock)
  /\ UNCHANGED <<updates, step, phase, faults>>

\* The object is lost with its sockets, whatever it was doing.
Restart ==
  /\ Fault
  /\ Construct([s \in Socket |->
       IF s \in Retained(sock) THEN [sock[s] EXCEPT !.ready = "closed"] ELSE sock[s]])
  /\ updates' = <<>> /\ step' = AtStart
  /\ phase' = [s \in Socket |-> IF phase[s] = "none" THEN "none"
                                ELSE IF phase[s] = "live" THEN "live" ELSE "refused"]

Down(t) == IF t \in {0, Never} THEN t ELSE t - 1

Tick ==
  /\ sock' = [s \in Socket |-> [sock[s] EXCEPT !.deadline = Down(@)]]
  /\ room' = [room EXCEPT !.nextExpiry = Down(@), !.cleanupDue = Down(@), !.due = Down(@)]
  /\ saved' = [saved EXCEPT !.due = Down(@)]
  /\ alarm' = Down(alarm)
  /\ step' = [step EXCEPT !.installed = Down(@)]
  /\ UNCHANGED <<updates, phase, faults>>

Losses == {{}} \cup {{s} : s \in Socket}

Next ==
  \/ \E s \in Socket, p \in Presence, d \in Deadlines : Arrive(s, p, d)
  \/ \E s \in Socket : \/ Refuse(s) \/ ChargeFails(s) \/ Accept(s) \/ AcceptFails(s)
                       \/ PeerCloses(s) \/ WebSocketClose(s) \/ WebSocketError(s)
  \/ ReadAlarm \/ PutSchedule \/ UpdateFails
  \/ \E lost \in Losses : Update(lost) \/ Notify(lost) \/ Fire(lost)
  \/ Hibernate \/ Restart \/ Tick

Spec == Init /\ [][Next]_vars

\* The progress that the runtime guarantees, told by what it changes: the update
\* at the head goes on, a request is answered by its budget, an alarm that is due
\* is delivered, and a socket that was closed ends.
UpdateGoesOn ==
  /\ updates # <<>>
  /\ step' \in [at : {"start", "read", "put"}, installed : Timer] \ {step}

ChargeReturns(s) ==
  /\ phase[s] = "charging"
  /\ \E p \in {"setup", "failing", "refused"} : phase' = [phase EXCEPT ![s] = p]

AlarmDelivered ==
  /\ alarm = 0 /\ Alarm \notin ToSet(updates)
  /\ Queue(Alarm)

CloseEnds(s) ==
  /\ sock[s].ready = "closing"
  /\ sock' = [sock EXCEPT ![s].ready = "closed"]

Fairness ==
  /\ WF_vars(Tick) /\ WF_step(UpdateGoesOn) /\ WF_updates(AlarmDelivered)
  /\ \A s \in Socket : WF_phase(ChargeReturns(s)) /\ WF_sock(CloseEnds(s))

FairSpec == Spec /\ Fairness

-----------------------------------------------------------------------------
(* Properties *)

\* The counters that admission reads agree with the connections there are, so
\* that no interleaving of admissions, failures and closes lets the room or a
\* user hold more connections than its cap, or loses a place for good.
Held(u) == {s \in room.records \cup room.reserved : UserOf[sock[s].presence] = u}

WithinCaps ==
  /\ room.reservations = Cardinality(room.reserved)
  /\ \A u \in User : room.occupancy[u] = Cardinality(Held(u))
  /\ Retained(sock) \subseteq room.records
  /\ Cardinality(room.records \cup room.reserved) <= RoomCap
  /\ \A u \in User : Cardinality(Held(u)) <= UserCap

\* What the room owes, taken from its connections and not from its caches: the
\* expiry of every eligible one, the cleanup of every other, and its presence.
Owed ==
  {sock[s].deadline : s \in Eligible(room)} \cup {room.due}
  \cup (IF room.cleanup = {} THEN {} ELSE {room.cleanupDue})

\* When no update waits, the alarm is set no later than the first thing owed:
\* no obligation is left with nothing to wake the object for it.
AlarmCoversObligations ==
  updates = <<>> /\ faults = 0 => \A t \in Owed : alarm <= t

\* Every record that is not eligible is one the cleanup will come back to.
NothingHalfClosed ==
  room.records = Eligible(room) \cup room.cleanup

\* With no presence message outstanding, every connection whose setup is over
\* was last shown who is there now, as long as no update of the alarm failed: a
\* message that went out and was not recorded may be forgotten with the memory.
EveryoneSeesPresence ==
  room.due = Never =>
    \A s \in Eligible(room) : phase[s] = "live" => sock[s].seen = Body(Here)

\* Every place that is taken comes free, whatever single call fails.
EveryPlaceReturned ==
  \A s \in Socket : (s \in room.records \cup room.reserved)
                      ~> (s \notin room.records \cup room.reserved)
=============================================================================
