------------------------------ MODULE MCProgress ------------------------------
(* What must eventually happen in four components, one at a time: "of" tells   *)
(* which moves; the others stay as they began.                                  *)
(*   room:       two sockets of one viewer in a room with one place             *)
(*   roles:      two operations on a workspace that has nobody for an owner     *)
(*   billing:    two events of two subscriptions and two deliveries             *)
(*   moderation: two operators on one link                                      *)
EXTENDS Naturals, Sequences, FiniteSets, TLC
CONSTANTS s1, s2, ana, nobody, Alarm, noName, NoUser,
          u1, u2, c1, c2, sub1, sub2, h1, h2, bot
VARIABLES
  of,
  sock, room, saved, alarm, updates, step, phase, roomFaults,
  role, status, home, owns, version, removals, audit, call,
  sub, event, sent, row, audits, delivery, tab, fails, edits, newest, late,
  art, paused, boss, address, verified, removed, log, appealed, pause, appeal,
    hour, changes, noticeFaults, since, told

Room == INSTANCE LiveRoom WITH faults <- roomFaults, Nobody <- nobody, None <- noName,
  Socket <- {s1, s2}, Presence <- {ana}, UserOf <- [p \in {ana} |-> ana],
  RoomCap <- 1, UserCap <- 1, Deadlines <- {2}, Interval <- 1, MaxUpdates <- 1, MaxFaults <- 1

Roles == INSTANCE WorkspaceRoles WITH
  Users <- {u1, u2}, Calls <- {c1, c2}, Loader <- c1,
  Kinds <- {"load", "remove", "restore", "transfer", "signin"}, Owner <- NoUser, MaxRemovals <- 1

Billing == INSTANCE BillingSync WITH op <- delivery,
  Ops <- {"o1", "o2"}, Tabs <- {"t1"}, Subs <- {sub1, sub2},
  MaxEvents <- 2, MaxFails <- 2, MaxEdits <- 0

Moderation == INSTANCE LinkModeration WITH op <- pause, clock <- hour, faults <- noticeFaults,
  Humans <- {h1, h2}, Bot <- bot, Operators <- {"o1", "o2"}, Appeals <- {}, Cooldown <- 2,
  MaxTime <- 3, MaxMoves <- 2, MaxChanges <- 1, MaxFaults <- 0

roomVars == <<sock, room, saved, alarm, updates, step, phase, roomFaults>>
rolesVars == <<role, status, home, owns, version, removals, audit, call>>
billingVars == <<sub, event, sent, row, audits, delivery, tab, fails, edits, newest, late>>
moderationVars ==
  <<art, paused, boss, address, verified, removed, log, appealed, pause, appeal, hour, changes,
    noticeFaults, since, told>>
vars == <<of, roomVars, rolesVars, billingVars, moderationVars>>

\* A component that stays begins in few states.
Fixed ==
  /\ of # "roles" => /\ home = [u \in {u1, u2} |-> "own"]
  /\ of # "moderation" => art.owner = bot /\ boss = h1 /\ verified = {h1, h2}

Init ==
  /\ of \in {"room", "roles", "billing", "moderation"}
  /\ Room!Init /\ Roles!Init /\ Billing!Init /\ Moderation!Init
  /\ Fixed

Next ==
  \/ of = "room" /\ Room!Next
       /\ UNCHANGED <<of, rolesVars, billingVars, moderationVars>>
  \/ of = "roles" /\ Roles!Next
       /\ UNCHANGED <<of, roomVars, billingVars, moderationVars>>
  \/ of = "billing" /\ Billing!Next
       /\ UNCHANGED <<of, roomVars, rolesVars, moderationVars>>
  \/ of = "moderation" /\ Moderation!Next
       /\ UNCHANGED <<of, roomVars, rolesVars, billingVars>>

\* Each component under the fairness of its own module. One that stays has begun
\* where nothing is due, so that its fairness asks nothing of it.
Spec ==
  /\ Init /\ [][Next]_vars
  /\ Room!Fairness /\ Roles!Fairness /\ Billing!Fairness /\ Moderation!Fairness

\* The place that an admission or a socket holds in a live room is free again
\* in the end, whichever storage call fails.
EveryPlaceReturned == Room!EveryPlaceReturned

\* A workspace with somebody in it gets an owner while its members page is loaded.
OwnerReturns == Roles!OwnerReturns

\* An event that Stripe delivers again until it is answered is processed.
EveryEventProcessed == Billing!EveryEventProcessed

\* Who is to be told of a paused or resumed link is told, unless people, the
\* artifact or the address changed meanwhile.
OwnerIsTold == Moderation!OwnerIsTold
===============================================================================
