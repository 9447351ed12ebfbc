------------------------------ MODULE CliProfile ------------------------------
(***************************************************************************)
(* The CLI's side of a refresh credential: what one saved profile holds    *)
(* while the commands of CLI processes log in, refresh and log out against *)
(* the server of CliCredentials.                                           *)
(*                                                                         *)
(* The token store is one entry read and written in single steps, as the   *)
(* native stores are; a command may be interrupted before any step, by a   *)
(* crash, by a request or an answer that is lost or by a store that        *)
(* refuses the write.  Its request to the server then runs on.             *)
(***************************************************************************)
EXTENDS CliCredentials

CONSTANT Process

VARIABLES
  store,    \* the profile's entry in the token store
  proc      \* each process, between two steps of its command

client == <<store, proc>>
all    == <<vars, client>>

NoEntry == [session |-> None, refresh |-> None, pending |-> None, device |-> None]
Idle == [pc |-> "idle", entry |-> NoEntry, token |-> None, id |-> None, call |-> None,
         got |-> NoEntry]

ProfileInit == Init /\ store = NoEntry /\ proc = [p \in Process |-> Idle]

\* The server takes a step, the client none.
Serving == UNCHANGED client

-----------------------------------------------------------------------------
(* login *)

\* The device code of a login is approved, and its session handed to p.
LoginApproved(p, s) ==
  /\ proc[p].pc = "idle"
  /\ \E a \in Human : ApproveDevice(a, s)
  /\ proc' = [proc EXCEPT ![p].pc = "issue", ![p].got.session = s]
  /\ UNCHANGED store

Fresh(ids, used) == ids \ used

\* A new device id, unless the profile has one.
DeviceIds ==
  IF store.device # None THEN {store.device}
  ELSE Fresh(Device, {cred[c].device : c \in Credential})

\* verifyAndStoreProfileToken: the refresh credential for the login
LoginIssue(p, d, c) ==
  /\ proc[p].pc = "issue"
  /\ d \in DeviceIds
  /\ Issue(proc[p].got.session, d, c)
  /\ proc' = [proc EXCEPT ![p].pc = "save", ![p].got.refresh = c, ![p].got.device = d]
  /\ UNCHANGED store

\* saveProfileSessionCredential, at the end of a login and of a refresh
Save(p) ==
  /\ proc[p].pc = "save"
  /\ store' = proc[p].got
  /\ proc' = [proc EXCEPT ![p] = Idle]
  /\ UNCHANGED vars

-----------------------------------------------------------------------------
(* A command whose session is refused refreshes it: refreshStoredProfileSession *)

Refused(p) ==
  /\ proc[p].pc = "idle" /\ store.refresh # None
  /\ ~Valid(store.session)
  /\ proc' = [proc EXCEPT ![p].pc = "read", ![p].token = store.refresh]
  /\ UNCHANGED <<vars, store>>

\* randomUUID
NewRotations ==
  Fresh(Rotation, {store.pending} \cup {cred[c].request : c \in Credential}
                  \cup {call[q].request : q \in Call} \cup {proc[p].id : p \in Process})

ReadStored(p) ==
  /\ proc[p].pc = "read" /\ store.refresh # None
  /\ IF store.pending # None
     THEN proc' = [proc EXCEPT ![p].pc = "send", ![p].entry = store, ![p].id = store.pending]
     ELSE \E r \in NewRotations :
            proc' = [proc EXCEPT ![p].pc = "stage", ![p].entry = store, ![p].id = r]
  /\ UNCHANGED <<vars, store>>

NothingStaged(p) == proc[p].entry

\* The rotation id goes to the store before it goes to the server.
Staged(p) == [proc[p].entry EXCEPT !.pending = proc[p].id]

Stage(p) ==
  /\ proc[p].pc = "stage"
  /\ store' = Staged(p)
  /\ proc' = [proc EXCEPT ![p].pc = "send"]
  /\ UNCHANGED vars

Send(p, q) ==
  /\ proc[p].pc = "send"
  /\ RefreshRead(q, proc[p].token, proc[p].id)
  /\ proc' = [proc EXCEPT ![p].pc = "wait", ![p].call = q]
  /\ UNCHANGED store

\* The server answers q; p saves what it gets, or has to log in again.
Receive(p, q) ==
  /\ proc[p].pc = "wait" /\ proc[p].call = q
  /\ ReplayRead(q)
  /\ proc' = [proc EXCEPT ![p] =
       IF Answer(q) = None THEN Idle
       ELSE [@ EXCEPT !.pc = "save", !.call = None,
                      !.got = [session |-> cred[call[q].token].session, refresh |-> Answer(q),
                               pending |-> None, device |-> proc[p].entry.device]]]
  /\ UNCHANGED store

\* Nobody waits for the answer any more.
Unheard(q) ==
  /\ \A p \in Process : proc[p].call # q
  /\ ReplayRead(q) /\ Serving

-----------------------------------------------------------------------------
(* logout *)

\* runLogout: revoke the family, or find it gone; only then forget it.
LogoutRevoke(p) ==
  /\ proc[p].pc = "idle" /\ store.refresh # None
  /\ LET f == cred[store.refresh].family IN
     IF Revocable(f) THEN RevokeFamily(f) ELSE UNCHANGED vars
  /\ proc' = [proc EXCEPT ![p].pc = "forget"]
  /\ UNCHANGED store

LogoutForget(p) ==
  /\ proc[p].pc = "forget"
  /\ store' = NoEntry
  /\ proc' = [proc EXCEPT ![p] = Idle]
  /\ UNCHANGED vars

\* The command ends here: killed, refused by the store, or out of luck with
\* the network.
Interrupted(p) ==
  /\ proc[p].pc # "idle"
  /\ proc' = [proc EXCEPT ![p] = Idle]
  /\ UNCHANGED <<vars, store>>

Command(p) ==
  \/ \E s \in Session : LoginApproved(p, s)
  \/ \E d \in Device, c \in Credential : LoginIssue(p, d, c)
  \/ Refused(p) \/ ReadStored(p) \/ Stage(p) \/ Save(p)
  \/ \E q \in Call : Send(p, q) \/ Receive(p, q)
  \/ LogoutRevoke(p) \/ LogoutForget(p)
  \/ Interrupted(p)

Server ==
  \/ \E q \in Call : \/ \E n \in Credential, s \in Session : Rotate(q, n, s)
                     \/ RotateNothing(q)
  \/ Revoke \/ Cleanup \/ Tick

ProfileNext == (\E p \in Process : Command(p)) \/ (Server /\ Serving) \/ (\E q \in Call : Unheard(q))

ProfileSpec == ProfileInit /\ [][ProfileNext]_all

-----------------------------------------------------------------------------
(* Properties. *)

\* When the server rotated c, by the lifetime of its successor.
RotatedAt(c) == cred[cred[c].next].expires - CredentialTtl

\* The credential in the store can be exchanged: it is unrevoked, or the
\* store holds the rotation id that it was consumed with and its successor
\* still waits to be replayed.
Exchangeable(e) ==
  \/ Live(e.refresh)
  \/ /\ e.pending # None /\ cred[e.refresh].request = e.pending
     /\ Live(cred[e.refresh].next)
     /\ Open(cred[e.refresh].session)

\* An interrupted refresh does not lock the profile out: as long as its
\* family was not ended, and for the retry window after a rotation whose
\* answer was lost, the next command can still refresh with what the store
\* holds, wherever the command before it stopped.
NotLockedOut ==
  LET c == store.refresh IN
  c # None /\ cred[c].family \notin ended =>
    \/ Exchangeable(store)
    \/ ~Live(c) /\ RotatedAt(c) + RetryTtl <= now

\* When logout has forgotten the entry, the server holds nothing that still
\* works of the family it was of, though a refresh that an earlier command
\* had given up may have reached the server in between.
LogoutLeavesNothing ==
  [][store.refresh # None /\ store'.refresh = None =>
       LET f == cred[store.refresh].family IN
       /\ \A c \in Credential : cred[c].family = f => ~Usable(c)
       /\ \A s \in Session : sess[s].family = f => ~Valid(s)]_all
=============================================================================
