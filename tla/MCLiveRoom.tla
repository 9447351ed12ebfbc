------------------------------ MODULE MCLiveRoom ------------------------------
(* LiveRoom on small instances, one per behaviour: "of" tells which.            *)
(*   pair:  two connections of two users; one storage write or send fails       *)
(*   sends: the same with a longer admission and no update that fails           *)
(*   tabs:  two tabs of one user, who may show two names; no update fails       *)
(*   users: two connections of users who may hold one each                      *)
(*   room:  two connections in a room for one                                   *)
EXTENDS LiveRoom, TLC
CONSTANTS ana, bo, tab1, tab2, cy
VARIABLE of

Everyone == ana :> ana @@ bo :> bo @@ tab1 :> cy @@ tab2 :> cy

Sends == INSTANCE LiveRoom WITH Deadlines <- {4}, MaxUpdates <- 1
Tabs == INSTANCE LiveRoom WITH Presence <- {tab1, tab2}, MaxUpdates <- 1
Users == INSTANCE LiveRoom WITH UserCap <- 1, MaxUpdates <- 1, MaxFaults <- 0
Small == INSTANCE LiveRoom WITH RoomCap <- 1, MaxUpdates <- 1, MaxFaults <- 0

MCInit ==
  \/ of = "pair" /\ Init
  \/ of = "sends" /\ Sends!Init
  \/ of = "tabs" /\ Tabs!Init
  \/ of = "users" /\ Users!Init
  \/ of = "room" /\ Small!Init

MCNext ==
  /\ \/ of = "pair" /\ Next
     \/ of = "sends" /\ Sends!Next /\ ~Sends!UpdateFails
     \/ of = "tabs" /\ Tabs!Next /\ ~Tabs!UpdateFails
     \/ of = "users" /\ Users!Next
     \/ of = "room" /\ Small!Next
  /\ UNCHANGED of

MCSpec == MCInit /\ [][MCNext]_<<of, vars>>

Symmetry == Permutations(Socket) \cup Permutations(Presence)

\* Admission never lets a room or a user hold more connections than its cap, and
\* its counters agree with the connections there are, in every interleaving of
\* admissions, failures and closes (fetch and the reservations it makes).
CapsHold ==
  CASE of = "pair" -> TypeOK /\ WithinCaps
    [] of = "sends" -> Sends!WithinCaps
    [] of = "tabs" -> Tabs!TypeOK /\ Tabs!WithinCaps
    [] of = "users" -> Users!WithinCaps
    [] of = "room" -> Small!WithinCaps

\* What a room owes its connections is never left with nothing to wake the room
\* for it: their expiry and cleanup; and while no update of the alarm fails, with no
\* presence message owed everybody was last shown who is there.
ObligationsKept ==
  CASE of = "pair" -> AlarmCoversObligations /\ NothingHalfClosed
    [] of = "sends" -> Sends!AlarmCoversObligations /\ Sends!EveryoneSeesPresence
    [] of = "tabs" -> Tabs!NothingHalfClosed /\ Tabs!EveryoneSeesPresence
    [] OTHER -> TRUE
===============================================================================
