---------------------------- MODULE CliCredentials ----------------------------
(***************************************************************************)
(* The refresh credentials of the CLI as the server keeps them: families   *)
(* of one-time credentials that are rotated, replayed, superseded and      *)
(* revoked while refresh calls are in flight.                              *)
(*                                                                         *)
(* A family is named after its first credential, as family_id = id of the  *)
(* root does.  Every operation but a refresh is one D1 batch; a refresh    *)
(* reads the credential, rotates it in a batch of guarded statements and   *)
(* reads the result, with one clock reading for all three.                 *)
(*                                                                         *)
(* One preset: the families of a publisher client, which supersede only    *)
(* each other, and the project an agent family is bound to are left out.   *)
(***************************************************************************)
EXTENDS Integers, FiniteSets

CONSTANTS
  Human,         \* users.kind = 'human': their families come from a device login
  Bot,           \* users.kind = 'bot': an administrator issues their families
  Device,        \* device_id, chosen by the CLI and kept in its profile
  Credential,    \* rows of cli_refresh_credentials (bound: as many as there are ids)
  Session,       \* rows of sessions (bound: likewise)
  Rotation,      \* rotation_request_id
  Call,          \* refresh calls in flight
  None,
  CredentialTtl, \* REFRESH_CREDENTIAL_TTL_MS
  SessionTtl,    \* SESSION_TOKEN_TTL_MS
  RetryTtl,      \* ROTATION_RETRY_TTL_MS
  MaxTime        \* bound: the clock stops here

Account == Human \cup Bot

ASSUME CredentialAssumption ==
  /\ Human \cap Bot = {}
  /\ None \notin Account \cup Device \cup Credential \cup Session \cup Rotation
  /\ CredentialTtl \in Nat \ {0} /\ SessionTtl \in Nat \ {0} /\ RetryTtl \in Nat \ {0}
  /\ MaxTime \in Nat

VARIABLES
  cred,      \* cli_refresh_credentials
  status,    \* cli_family_authorities.status, per family
  sess,      \* sessions, with their link in cli_refresh_sessions
  stopped,   \* bots with bot_stopped_at set
  reissuing, \* bots whose reissue has read and not yet written
  call,      \* the refresh calls between their steps
  now,
  ended,     \* history: the families some batch has ended for good
  promised   \* history: the sessions that were there when their user revoked all

server == <<cred, status, sess, stopped, reissuing, call, now>>
vars   == <<server, ended, promised>>

NoCredential ==
  [state |-> "none", owner |-> None, family |-> None, device |-> None, expires |-> 0,
   next |-> None, request |-> None, until |-> 0, session |-> None]
NoSession == [state |-> "none", owner |-> None, family |-> None, login |-> FALSE, expires |-> 0]
NoCall    == [phase |-> "idle", token |-> None, request |-> None, began |-> 0]

-----------------------------------------------------------------------------
(* Reading the rows. *)

Live(c)      == cred[c].state = "live"         \* revoked_at IS NULL
Unexpired(c) == cred[c].expires > now
Usable(c)    == Live(c) /\ Unexpired(c)

Open(s) == sess[s].state = "live"              \* the row exists
Valid(s) == Open(s) /\ sess[s].expires > now

Families(a) == {f \in Credential : \E c \in Credential : cred[c].owner = a /\ cred[c].family = f}
FamilyOn(a, d) ==
  {f \in Credential : \E c \in Credential : cred[c].owner = a /\ cred[c].device = d
                                            /\ d # None /\ cred[c].family = f}

\* matchingFamilyQuery
Revocable(f) ==
  \/ \E c \in Credential : cred[c].family = f /\ Live(c)
  \/ \E s \in Session : sess[s].family = f /\ Valid(s)

\* activeFamilies of a revocation of everything
ActiveFamilies(a) ==
  {f \in Families(a) :
     \/ \E c \in Credential : cred[c].family = f /\ Usable(c)
     \/ \E s \in Session : sess[s].family = f /\ sess[s].owner = a /\ Valid(s)}

NewCredential(a, f, d, t) ==
  [NoCredential EXCEPT !.state = "live", !.owner = a, !.family = f, !.device = d,
                       !.expires = t + CredentialTtl]
NewSession(a, f, login, t) ==
  [state |-> "live", owner |-> a, family |-> f, login |-> login, expires |-> t + SessionTtl]

\* The credentials of fs, revoked, except those already revoked.
Revoked(fs) ==
  [c \in Credential |-> IF cred[c].family \in fs /\ Live(c)
                        THEN [cred[c] EXCEPT !.state = "revoked"] ELSE cred[c]]
Deleted(gone) ==
  [s \in Session |-> IF s \in gone /\ Open(s)
                     THEN [sess[s] EXCEPT !.state = "deleted"] ELSE sess[s]]
LinkedTo(fs) == {s \in Session : sess[s].family \in fs}

Init ==
  /\ cred = [c \in Credential |-> NoCredential]
  /\ status = [f \in Credential |-> "none"]
  /\ sess = [s \in Session |-> NoSession]
  /\ stopped = {}
  /\ reissuing = {}
  /\ call = [q \in Call |-> NoCall]
  /\ now = 0
  /\ ended = {}
  /\ promised = {}

-----------------------------------------------------------------------------
(* Logging in from a device. *)

\* An approved device login creates a session that no family owns yet.
ApproveDevice(a, s) ==
  /\ a \in Human
  /\ sess[s].state = "none"
  /\ sess' = [sess EXCEPT ![s] = NewSession(a, None, TRUE, now)]
  /\ UNCHANGED <<cred, status, stopped, reissuing, call, now, ended, promised>>

SourceFamily(s) == {sess[s].family} \ {None}

NoDeviceFamilies(a, d) == {}

PriorDeviceFamilies(a, d) == FamilyOn(a, d)

\* issueCliRefreshCredential: supersede what the device and the session had
\* before, open a family and move the session to it.
Issue(s, d, c) ==
  LET a == sess[s].owner
      prior == PriorDeviceFamilies(a, d)
      superseded == Revoked(prior \cup SourceFamily(s))
      remaining == Deleted(LinkedTo(prior) \ {s})
  IN  /\ Valid(s) /\ sess[s].login
      /\ \A f \in SourceFamily(s) : status[f] = "active"
      /\ cred[c].state = "none"
      /\ cred' = [superseded EXCEPT ![c] = NewCredential(a, c, d, now)]
      /\ sess' = [remaining EXCEPT ![s].family = c]
      /\ status' = [status EXCEPT ![c] = "active"]
      /\ ended' = ended \cup prior
      /\ UNCHANGED <<stopped, reissuing, call, now, promised>>

-----------------------------------------------------------------------------
(* Refreshing a session. *)

\* refreshCliSession: read the credential the token belongs to.
RefreshRead(q, c, r) ==
  /\ call[q].phase = "idle"
  /\ cred[c].state # "none"
  /\ cred[c].owner \notin stopped
  /\ Live(c) => Unexpired(c)
  /\ call' = [call EXCEPT ![q] = [phase |-> IF Live(c) THEN "rotate" ELSE "replay",
                                  token |-> c, request |-> r, began |-> now]]
  /\ UNCHANGED <<cred, status, sess, stopped, reissuing, now, ended, promised>>

RetryBefore(t) == t - RetryTtl

\* rotation_retry_until
RetryUntil(t) == t + RetryTtl

MayRotateAgain(q) ==
  LET c == call[q].token IN
  /\ cred[c].expires > call[q].began
  /\ status[cred[c].family] = "active"
  /\ cred[c].owner \notin stopped

\* The WHERE of the rotating UPDATE, evaluated when the batch commits.
MayRotate(q) ==
  LET c == call[q].token IN
  /\ Live(c) /\ cred[c].expires > call[q].began
  /\ status[cred[c].family] = "active"
  /\ cred[c].owner \notin stopped

Rotate(q, n, s) ==
  LET c == call[q].token
      old == cred[c]
      t == call[q].began
  IN  /\ call[q].phase = "rotate"
      /\ MayRotate(q)
      /\ cred[n].state = "none" /\ sess[s].state = "none"
      /\ cred' = [cred EXCEPT ![c].state = "revoked", ![c].next = n, ![c].session = s,
                              ![c].request = call[q].request, ![c].until = RetryUntil(t),
                              ![n] = NewCredential(old.owner, old.family, old.device, t)]
      /\ sess' = [sess EXCEPT ![s] = NewSession(old.owner, old.family, FALSE, t)]
      /\ call' = [call EXCEPT ![q].phase = "replay"]
      /\ UNCHANGED <<status, stopped, reissuing, now, ended, promised>>

\* Every statement of the batch matched no row.
RotateNothing(q) ==
  /\ call[q].phase = "rotate"
  /\ ~MayRotate(q)
  /\ call' = [call EXCEPT ![q].phase = "replay"]
  /\ UNCHANGED <<cred, status, sess, stopped, reissuing, now, ended, promised>>

\* readRotationReplay: does the call get the successor of its token?
Replayable(q) ==
  LET old == cred[call[q].token] IN
  /\ old.request = call[q].request /\ old.until > call[q].began
  /\ old.next # None /\ Live(old.next)
  /\ old.session # None /\ Open(old.session)

Answer(q) == IF Replayable(q) THEN cred[call[q].token].next ELSE None

ReplayRead(q) ==
  /\ call[q].phase = "replay"
  /\ call' = [call EXCEPT ![q] = NoCall]
  /\ UNCHANGED <<cred, status, sess, stopped, reissuing, now, ended, promised>>

MayRefreshRevoked(c) == cred[c].state # "none" /\ status[cred[c].family] = "active"

MayRefreshLegacy(c) == Live(c) /\ status[cred[c].family] = "active"

\* refreshLegacyCliSession, for a CLI that sends no rotation id: another
\* session from the family's first credential, which is not consumed.
LegacyRead(q, c) ==
  /\ call[q].phase = "idle"
  /\ MayRefreshLegacy(c) /\ Unexpired(c)
  /\ cred[c].owner \in Human /\ cred[c].family = c
  /\ call' = [call EXCEPT ![q] = [phase |-> "legacy", token |-> c, request |-> None,
                                  began |-> now]]
  /\ UNCHANGED <<cred, status, sess, stopped, reissuing, now, ended, promised>>

LegacyInsert(q, s) ==
  LET c == call[q].token IN
  /\ call[q].phase = "legacy"
  /\ IF MayRefreshLegacy(c)
     THEN /\ sess[s].state = "none"
          /\ sess' = [sess EXCEPT ![s] = NewSession(cred[c].owner, cred[c].family, FALSE,
                                                    call[q].began)]
     ELSE UNCHANGED sess
  /\ call' = [call EXCEPT ![q] = NoCall]
  /\ UNCHANGED <<cred, status, stopped, reissuing, now, ended, promised>>

-----------------------------------------------------------------------------
(* Revocation. *)

\* revokeCliRefreshCredentialFamilyAtomic: logout, or one family in Settings.
RevokeFamily(f) ==
  /\ Revocable(f)
  /\ sess' = Deleted(LinkedTo({f}))
  /\ cred' = Revoked({f})
  /\ ended' = ended \cup {f}
  /\ UNCHANGED <<status, stopped, reissuing, call, now, promised>>

\* Sessions no family owns: deleted with the families of their user.
Unlinked(a) == {s \in Session : sess[s].owner = a /\ sess[s].family = None}

\* buildCliRefreshCredentialRevocationStatements: everything of one user, by
\* the user or an administrator.
RevokeAll(a) ==
  LET fs == ActiveFamilies(a) IN
  /\ cred' = Revoked(fs)
  /\ sess' = Deleted(LinkedTo(fs) \cup (IF fs = {} THEN {} ELSE Unlinked(a)))
  /\ ended' = ended \cup fs
  /\ promised' = promised \cup {s \in Session : sess[s].owner = a /\ Open(s)}
  /\ UNCHANGED <<status, stopped, reissuing, call, now>>

-----------------------------------------------------------------------------
(* Bots. *)

HasFamily(b)   == \E f \in Families(b) : status[f] = "active"
OpenFamily(b, c) == [cred EXCEPT ![c] = NewCredential(b, c, None, now)]

\* createWorkspaceBot
CreateBot(b, c) ==
  /\ Families(b) = {}
  /\ cred[c].state = "none"
  /\ cred' = OpenFamily(b, c)
  /\ status' = [status EXCEPT ![c] = "active"]
  /\ UNCHANGED <<sess, stopped, reissuing, call, now, ended, promised>>

ReissueRead(b) ==
  /\ b \notin stopped /\ b \notin reissuing
  /\ HasFamily(b)
  /\ reissuing' = reissuing \cup {b}
  /\ UNCHANGED <<cred, status, sess, stopped, call, now, ended, promised>>

StopUnseen(b) == FALSE

\* botActive, evaluated when the batch commits
StopWins(b) == b \in stopped

\* reissueWorkspaceBotCredential, the batch: a stop that came first wins.
ReissueWrite(b, c) ==
  LET superseded == [f \in Credential |-> IF f \in Families(b) /\ status[f] = "active"
                                          THEN "superseded" ELSE status[f]]
      revoked == Revoked(Families(b))
  IN  /\ b \in reissuing
      /\ reissuing' = reissuing \ {b}
      /\ IF StopWins(b)
         THEN UNCHANGED <<cred, status, sess, ended>>
         ELSE /\ cred[c].state = "none"
              /\ cred' = [revoked EXCEPT ![c] = NewCredential(b, c, None, now)]
              /\ status' = [superseded EXCEPT ![c] = "active"]
              /\ sess' = Deleted({s \in Session : sess[s].owner = b})
              /\ ended' = ended \cup Families(b)
      /\ UNCHANGED <<stopped, call, now, promised>>

\* revokeCredentials of a stop
WorkingOf(b) == {c \in Credential : cred[c].owner = b /\ Usable(c)}

\* stopWorkspaceBot: the first stop does it all, a second one nothing.
StopBot(b) ==
  /\ b \in Bot \ stopped /\ Families(b) # {}
  /\ stopped' = stopped \cup {b}
  /\ cred' = [c \in Credential |-> IF c \in WorkingOf(b)
                                   THEN [cred[c] EXCEPT !.state = "revoked"] ELSE cred[c]]
  /\ sess' = Deleted({s \in Session : sess[s].owner = b})
  /\ status' = [f \in Credential |-> IF f \in Families(b) /\ status[f] = "active"
                                     THEN "revoked" ELSE status[f]]
  /\ ended' = ended \cup Families(b)
  /\ UNCHANGED <<reissuing, call, now, promised>>

-----------------------------------------------------------------------------
\* cleanupExpiredCliRotationReplays, the cron.
Cleanup ==
  /\ cred' = [c \in Credential |->
                IF cred[c].state = "revoked" /\ cred[c].request # None /\ cred[c].until <= now
                THEN [cred[c] EXCEPT !.request = None, !.until = 0, !.session = None]
                ELSE cred[c]]
  /\ UNCHANGED <<status, sess, stopped, reissuing, call, now, ended, promised>>

Tick ==
  /\ now < MaxTime
  /\ now' = now + 1
  /\ UNCHANGED <<cred, status, sess, stopped, reissuing, call, ended, promised>>

Login  == \E s \in Session : \/ \E a \in Human : ApproveDevice(a, s)
                             \/ \E d \in Device \cup {None}, c \in Credential : Issue(s, d, c)
Serve(q) ==
  \/ \E n \in Credential, s \in Session : Rotate(q, n, s)
  \/ RotateNothing(q) \/ ReplayRead(q)
  \/ \E s \in Session : LegacyInsert(q, s)
Refresh(q) ==
  \/ \E c \in Credential : LegacyRead(q, c) \/ \E r \in Rotation : RefreshRead(q, c, r)
  \/ Serve(q)
Revoke == (\E f \in Credential : RevokeFamily(f)) \/ (\E a \in Human : RevokeAll(a))
Administer ==
  \E b \in Bot : \/ ReissueRead(b) \/ StopBot(b)
                 \/ \E c \in Credential : CreateBot(b, c) \/ ReissueWrite(b, c)

Next == Login \/ (\E q \in Call : Refresh(q)) \/ Revoke \/ Administer \/ Cleanup \/ Tick

Spec == Init /\ [][Next]_vars

-----------------------------------------------------------------------------
(* Properties. *)

CredentialRows ==
  [state : {"none", "live", "revoked"}, owner : Account \cup {None},
   family : Credential \cup {None}, device : Device \cup {None}, expires : Nat,
   next : Credential \cup {None}, request : Rotation \cup {None}, until : Nat,
   session : Session \cup {None}]
SessionRows ==
  [state : {"none", "live", "deleted"}, owner : Account \cup {None},
   family : Credential \cup {None}, login : BOOLEAN, expires : Nat]
CallFields ==
  [phase : {"idle", "rotate", "replay", "legacy"}, token : Credential \cup {None},
   request : Rotation \cup {None}, began : Nat]
\* A call in flight has a token that some row had.
Calls == {m \in CallFields : m.phase # "idle" => m.token # None}

\* Every variable keeps its type.
TypeOK ==
  /\ cred \in [Credential -> CredentialRows]
  /\ status \in [Credential -> {"none", "active", "superseded", "revoked"}]
  /\ sess \in [Session -> SessionRows]
  /\ stopped \in SUBSET Bot /\ reissuing \in SUBSET Bot
  /\ call \in [Call -> Calls]
  /\ now \in Nat
  /\ ended \in SUBSET Credential /\ promised \in SUBSET Session

\* A family never forks: however many refreshes of one credential run at
\* once, at most one credential of a family is unrevoked.
NoFork ==
  \A c, e \in Credential : Live(c) /\ Live(e) /\ cred[c].family = cred[e].family => c = e

\* A family that was logged out, revoked, superseded on its device, reissued
\* or stopped stays ended: no refresh that was in flight leaves a credential
\* that works or a session row of it behind.
EndedForGood ==
  \A f \in ended :
    /\ \A c \in Credential : cred[c].family = f => ~Usable(c)
    /\ \A s \in Session : sess[s].family = f => ~Open(s)

\* A device holds one family: logging in again leaves nothing of the family
\* it had, neither a credential nor a session.
OneFamilyPerDevice ==
  \A a \in Human, d \in Device :
    Cardinality({f \in FamilyOn(a, d) :
                   \/ \E c \in Credential : cred[c].family = f /\ Live(c)
                   \/ \E s \in Session : sess[s].family = f /\ Open(s)}) <= 1

\* A bot has one active family at a time and none once it is stopped, and
\* every session it has belongs to that family, whatever order stop, reissue
\* and refresh commit in.
BotHoldsOneFamily ==
  \A b \in Bot :
    LET active == {f \in Families(b) : status[f] = "active"} IN
    /\ Cardinality(active) <= 1
    /\ b \in stopped => active = {}
    /\ \A s \in Session : sess[s].owner = b /\ Open(s) => sess[s].family \in active

\* After a user revokes all CLI access, no CLI session they had works.
RevokeAllEndsSessions == \A s \in promised : ~Valid(s)
=============================================================================
