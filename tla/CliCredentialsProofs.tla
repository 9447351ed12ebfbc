------------------------- MODULE CliCredentialsProofs -------------------------
(***************************************************************************)
(* Theorems about CliCredentials, for every value of its constants: its    *)
(* types, and the four safety properties its runs check; and two about the *)
(* profile of one process, for CliProfile.                                 *)
(***************************************************************************)
EXTENDS CliProfile, FiniteSetTheorems, TLAPS

-----------------------------------------------------------------------------
(* Type correctness. *)

\* The rows that batches insert.
LEMMA NewRows ==
  ASSUME NEW a \in Account \cup {None}, NEW f \in Credential \cup {None},
         NEW d \in Device \cup {None}, NEW login \in BOOLEAN, NEW t \in Nat
  PROVE  /\ NewCredential(a, f, d, t) \in CredentialRows
         /\ NewSession(a, f, login, t) \in SessionRows
<1>1. t + CredentialTtl \in Nat /\ t + SessionTtl \in Nat
  BY CredentialAssumption
<1>2. NoCredential \in CredentialRows
  BY DEF NoCredential, CredentialRows
<1>3. NewCredential(a, f, d, t) \in CredentialRows
  BY <1>1, <1>2 DEF NewCredential, CredentialRows
<1>4. NewSession(a, f, login, t) \in SessionRows
  BY <1>1 DEF NewSession, SessionRows
<1>. QED BY <1>3, <1>4

\* The rows of a batch that revokes and deletes.
LEMMA EndingRows ==
  ASSUME TypeOK, NEW fs, NEW gone
  PROVE  /\ Revoked(fs) \in [Credential -> CredentialRows]
         /\ Deleted(gone) \in [Session -> SessionRows]
<1>1. ASSUME NEW c \in Credential
      PROVE  (IF cred[c].family \in fs /\ Live(c) THEN [cred[c] EXCEPT !.state = "revoked"]
                                                  ELSE cred[c]) \in CredentialRows
  BY DEF TypeOK, CredentialRows
<1>2. ASSUME NEW s \in Session
      PROVE  (IF s \in gone /\ Open(s) THEN [sess[s] EXCEPT !.state = "deleted"]
                                       ELSE sess[s]) \in SessionRows
  BY DEF TypeOK, SessionRows
<1>. QED BY <1>1, <1>2 DEF Revoked, Deleted

\* A call goes from one step to the next.
LEMMA CallPhaseType ==
  ASSUME TypeOK, NEW q \in Call, call[q].phase # "idle"
  PROVE  [call EXCEPT ![q].phase = "replay"] \in [Call -> Calls]
<1>1. call[q] \in Calls
  BY DEF TypeOK
<1>2. [call[q] EXCEPT !.phase = "replay"] \in Calls
  BY <1>1 DEF Calls, CallFields
<1>. QED BY <1>2 DEF TypeOK

\* A call that ended leaves nothing.
LEMMA NoCallType == NoCall \in Calls
BY DEF NoCall, Calls, CallFields

\* Logging in keeps the types.
LEMMA LoginType ==
  ASSUME TypeOK, Login
  PROVE  TypeOK'
<1>1. ASSUME NEW s \in Session, NEW a \in Human, ApproveDevice(a, s)
      PROVE  TypeOK'
  <2>1. NewSession(a, None, TRUE, now) \in SessionRows
    BY CredentialAssumption DEF NewSession, SessionRows, Account, TypeOK
  <2>2. sess' \in [Session -> SessionRows]
    BY <1>1, <2>1 DEF ApproveDevice, TypeOK
  <2>. QED BY <1>1, <2>2 DEF ApproveDevice, TypeOK
<1>2. ASSUME NEW s \in Session, NEW d \in Device \cup {None}, NEW c \in Credential, Issue(s, d, c)
      PROVE  TypeOK'
  <2>. DEFINE a == sess[s].owner
              prior == PriorDeviceFamilies(a, d)
              superseded == Revoked(prior \cup SourceFamily(s))
              remaining == Deleted(LinkedTo(prior) \ {s})
  <2>1. a \in Account \cup {None} /\ now \in Nat
    BY DEF TypeOK, SessionRows
  <2>2. superseded \in [Credential -> CredentialRows] /\ remaining \in [Session -> SessionRows]
    BY EndingRows
  <2>3. cred' \in [Credential -> CredentialRows]
    <3>1. NewCredential(a, c, d, now) \in CredentialRows
      BY <2>1, NewRows
    <3>2. cred' = [superseded EXCEPT ![c] = NewCredential(a, c, d, now)]
      BY <1>2 DEF Issue
    <3>. QED BY <2>2, <3>1, <3>2
  <2>4. sess' \in [Session -> SessionRows]
    <3>1. sess' = [remaining EXCEPT ![s].family = c]
      BY <1>2 DEF Issue
    <3>2. [remaining[s] EXCEPT !.family = c] \in SessionRows
      BY <2>2 DEF SessionRows
    <3>. QED BY <2>2, <3>1, <3>2
  <2>5. status' \in [Credential -> {"none", "active", "superseded", "revoked"}]
    BY <1>2 DEF Issue, TypeOK
  <2>6. ended' \in SUBSET Credential
    BY <1>2 DEF Issue, TypeOK, PriorDeviceFamilies, FamilyOn
  <2>. QED BY <1>2, <2>3, <2>4, <2>5, <2>6 DEF Issue, TypeOK
<1>. QED BY <1>1, <1>2 DEF Login

\* The steps of a refresh keep the types.
LEMMA RefreshType ==
  ASSUME TypeOK, NEW q \in Call, Refresh(q)
  PROVE  TypeOK'
<1>. USE DEF TypeOK
<1>1. ASSUME NEW c \in Credential, LegacyRead(q, c)
      PROVE  TypeOK'
  <2>1. [phase |-> "legacy", token |-> c, request |-> None, began |-> now] \in Calls
    BY CredentialAssumption DEF Calls, CallFields
  <2>2. call' \in [Call -> Calls]
    BY <1>1, <2>1 DEF LegacyRead
  <2>. QED BY <1>1, <2>2 DEF LegacyRead
<1>2. ASSUME NEW c \in Credential, NEW r \in Rotation, RefreshRead(q, c, r)
      PROVE  TypeOK'
  <2>1. [phase |-> IF Live(c) THEN "rotate" ELSE "replay", token |-> c, request |-> r,
         began |-> now] \in Calls
    BY CredentialAssumption DEF Calls, CallFields
  <2>2. call' \in [Call -> Calls]
    BY <1>2, <2>1 DEF RefreshRead
  <2>. QED BY <1>2, <2>2 DEF RefreshRead
<1>3. ASSUME NEW n \in Credential, NEW s \in Session, Rotate(q, n, s)
      PROVE  TypeOK'
  <2>. DEFINE c == call[q].token
              t == call[q].began
              old == cred[c]
  <2>1. c \in Credential /\ t \in Nat /\ call[q].request \in Rotation \cup {None}
    BY <1>3 DEF Rotate, Calls, CallFields
  <2>2. old \in CredentialRows
    BY <2>1
  <2>3. RetryUntil(t) \in Nat
    BY <2>1, CredentialAssumption DEF RetryUntil
  <2>4. NewCredential(old.owner, old.family, old.device, t) \in CredentialRows
        /\ NewSession(old.owner, old.family, FALSE, t) \in SessionRows
    BY <2>1, <2>2, NewRows DEF CredentialRows
  <2>5. [old EXCEPT !.state = "revoked", !.next = n, !.session = s, !.request = call[q].request,
                    !.until = RetryUntil(t)] \in CredentialRows
    BY <2>1, <2>2, <2>3 DEF CredentialRows
  <2>6. cred' \in [Credential -> CredentialRows]
    BY <1>3, <2>1, <2>4, <2>5 DEF Rotate
  <2>7. sess' \in [Session -> SessionRows]
    BY <1>3, <2>4 DEF Rotate
  <2>8. call' \in [Call -> Calls]
    BY <1>3, CallPhaseType DEF Rotate
  <2>. QED BY <1>3, <2>6, <2>7, <2>8 DEF Rotate
<1>4. CASE RotateNothing(q)
  BY <1>4, CallPhaseType DEF RotateNothing
<1>5. CASE ReplayRead(q)
  BY <1>5, NoCallType DEF ReplayRead
<1>6. ASSUME NEW s \in Session, LegacyInsert(q, s)
      PROVE  TypeOK'
  <2>. DEFINE c == call[q].token
  <2>1. c \in Credential /\ call[q].began \in Nat
    BY <1>6 DEF LegacyInsert, Calls, CallFields
  <2>2. NewSession(cred[c].owner, cred[c].family, FALSE, call[q].began) \in SessionRows
    BY <2>1, NewRows DEF CredentialRows
  <2>3. sess' \in [Session -> SessionRows]
    BY <1>6, <2>2 DEF LegacyInsert
  <2>. QED BY <1>6, <2>3, NoCallType DEF LegacyInsert
<1>. QED BY <1>1, <1>2, <1>3, <1>4, <1>5, <1>6 DEF Refresh, Serve

\* Revocations keep the types.
LEMMA RevokeType ==
  ASSUME TypeOK, Revoke
  PROVE  TypeOK'
<1>1. ASSUME NEW f \in Credential, RevokeFamily(f)
      PROVE  TypeOK'
  BY <1>1, EndingRows DEF RevokeFamily, TypeOK
<1>2. ASSUME NEW a \in Human, RevokeAll(a)
      PROVE  TypeOK'
  BY <1>2, EndingRows DEF RevokeAll, TypeOK, ActiveFamilies, Families
<1>. QED BY <1>1, <1>2 DEF Revoke

\* What administrators do to bots keeps the types.
LEMMA AdministerType ==
  ASSUME TypeOK, Administer
  PROVE  TypeOK'
<1>1. ASSUME NEW b \in Bot, ReissueRead(b)
      PROVE  TypeOK'
  BY <1>1 DEF ReissueRead, TypeOK
<1>2. ASSUME NEW b \in Bot, StopBot(b)
      PROVE  TypeOK'
  <2>1. \A c \in Credential : [cred[c] EXCEPT !.state = "revoked"] \in CredentialRows
                              /\ cred[c] \in CredentialRows
    BY DEF TypeOK, CredentialRows
  <2>2. cred' \in [Credential -> CredentialRows]
    BY <1>2, <2>1 DEF StopBot
  <2>3. sess' \in [Session -> SessionRows]
    BY <1>2, EndingRows DEF StopBot
  <2>4. status' \in [Credential -> {"none", "active", "superseded", "revoked"}]
    BY <1>2 DEF StopBot, TypeOK
  <2>5. ended' \in SUBSET Credential /\ stopped' \in SUBSET Bot
    BY <1>2 DEF StopBot, TypeOK, Families
  <2>. QED BY <1>2, <2>2, <2>3, <2>4, <2>5 DEF StopBot, TypeOK
<1>3. ASSUME NEW b \in Bot, NEW c \in Credential, CreateBot(b, c)
      PROVE  TypeOK'
  <2>1. NewCredential(b, c, None, now) \in CredentialRows
    BY NewRows DEF TypeOK, Account
  <2>. QED BY <1>3, <2>1 DEF CreateBot, OpenFamily, TypeOK
<1>4. ASSUME NEW b \in Bot, NEW c \in Credential, ReissueWrite(b, c)
      PROVE  TypeOK'
  <2>1. reissuing' \in SUBSET Bot /\ UNCHANGED <<stopped, call, now, promised>>
    BY <1>4 DEF ReissueWrite, TypeOK
  <2>2. CASE StopWins(b)
    BY <1>4, <2>1, <2>2 DEF ReissueWrite, TypeOK
  <2>3. CASE ~StopWins(b)
    <3>1. NewCredential(b, c, None, now) \in CredentialRows
      BY NewRows DEF TypeOK, Account
    <3>2. cred' \in [Credential -> CredentialRows]
      BY <1>4, <2>3, <3>1, EndingRows DEF ReissueWrite
    <3>3. sess' \in [Session -> SessionRows]
      BY <1>4, <2>3, EndingRows DEF ReissueWrite
    <3>4. status' \in [Credential -> {"none", "active", "superseded", "revoked"}]
      BY <1>4, <2>3 DEF ReissueWrite, TypeOK
    <3>5. ended' \in SUBSET Credential
      BY <1>4, <2>3 DEF ReissueWrite, TypeOK, Families
    <3>. QED BY <2>1, <3>2, <3>3, <3>4, <3>5 DEF TypeOK
  <2>. QED BY <2>2, <2>3
<1>. QED BY <1>1, <1>2, <1>3, <1>4 DEF Administer

\* The cleanup keeps the types.
LEMMA CleanupType ==
  ASSUME TypeOK, Cleanup
  PROVE  TypeOK'
<1>1. \A c \in Credential :
        /\ [cred[c] EXCEPT !.request = None, !.until = 0, !.session = None] \in CredentialRows
        /\ cred[c] \in CredentialRows
  BY DEF TypeOK, CredentialRows
<1>2. cred' \in [Credential -> CredentialRows]
  BY <1>1 DEF Cleanup
<1>. QED BY <1>2 DEF Cleanup, TypeOK

\* Every step keeps the types.
LEMMA TypeStep == TypeOK /\ [Next]_vars => TypeOK'
<1>. SUFFICES ASSUME TypeOK, [Next]_vars PROVE TypeOK'
  OBVIOUS
<1>1. CASE UNCHANGED vars
  BY <1>1 DEF vars, server, TypeOK
<1>2. CASE Tick
  BY <1>2 DEF Tick, TypeOK
<1>. QED BY <1>1, <1>2, LoginType, RefreshType, RevokeType, AdministerType, CleanupType DEF Next

\* Every variable of the server keeps its type, whatever the accounts,
\* devices, lifetimes and calls.
THEOREM TypeCorrect == Spec => []TypeOK
<1>1. Init => TypeOK
  <2>1. NoCredential \in CredentialRows /\ NoSession \in SessionRows
    BY DEF NoCredential, CredentialRows, NoSession, SessionRows
  <2>. QED BY <2>1, NoCallType DEF Init, TypeOK
<1>. QED BY <1>1, TypeStep, PTL DEF Spec

-----------------------------------------------------------------------------
(* Safety.  None of the properties is inductive: they say nothing of the   *)
(* rows that tie a family together.  A family's root row is never deleted  *)
(* and gives every credential and session of the family its owner, so a    *)
(* row id that is still free is a family nobody has.                       *)

\* Every issued credential belongs to a family whose root was issued to the
\* same owner.
CredentialsRooted ==
  \A c \in Credential : cred[c].state # "none" =>
    LET f == cred[c].family IN
    f \in Credential /\ cred[f].state # "none" /\ cred[f].owner = cred[c].owner

\* A row that was not issued names nobody.
FreeRowsBlank == \A c \in Credential : cred[c].state = "none" => cred[c] = NoCredential

\* So does every session that a family owns; only a user logs in.
SessionsRooted ==
  \A s \in Session :
    LET f == sess[s].family IN
    /\ f # None => cred[f].state # "none" /\ cred[f].owner = sess[s].owner
    /\ sess[s].login => sess[s].owner \in Human

\* An ended family has no session, and a credential of it that is still
\* unrevoked is doubly dead: expired, and of a family without authority.
EndedDead ==
  \A f \in ended :
    /\ cred[f].state # "none"
    /\ \A c \in Credential : cred[c].family = f /\ Live(c) => ~Unexpired(c) /\ status[f] # "active"
    /\ \A s \in Session : sess[s].family = f => ~Open(s)

\* The families of a device that still hold anything.
Held(a, d) ==
  {f \in FamilyOn(a, d) : \/ \E c \in Credential : cred[c].family = f /\ Live(c)
                          \/ \E s \in Session : sess[s].family = f /\ Open(s)}
OneHeld == \A a \in Human, d \in Device : \A f, g \in Held(a, d) : f = g

ActiveOf(b) == {f \in Families(b) : status[f] = "active"}
OneActive ==
  \A b \in Bot :
    /\ \A f, g \in ActiveOf(b) : f = g
    /\ b \in stopped => ActiveOf(b) = {} /\ Families(b) # {}
    /\ \A s \in Session : sess[s].owner = b /\ Open(s) => sess[s].family \in ActiveOf(b)

\* The inductive strengthening of NoFork, EndedForGood, OneFamilyPerDevice
\* and BotHoldsOneFamily.
FamilyInv ==
  /\ TypeOK
  /\ CredentialsRooted /\ FreeRowsBlank /\ SessionsRooted
  /\ NoFork /\ EndedDead /\ OneHeld /\ OneActive

\* Nothing belongs to the family a free row would be the root of.
LEMMA FreeIsNew ==
  ASSUME FamilyInv, NEW c \in Credential, cred[c].state = "none"
  PROVE  /\ \A e \in Credential : cred[e].family # c
         /\ \A s \in Session : sess[s].family # c
         /\ c \notin ended
         /\ \A a : c \notin Families(a)
<1>1. \A e \in Credential : cred[e].family # c
  BY CredentialAssumption DEF FamilyInv, CredentialsRooted, FreeRowsBlank, NoCredential
<1>2. \A s \in Session : sess[s].family # c
  BY CredentialAssumption DEF FamilyInv, SessionsRooted
<1>3. c \notin ended
  BY DEF FamilyInv, EndedDead
<1>. QED BY <1>1, <1>2, <1>3 DEF Families

\* A family belongs to one account, the owner of its root.
LEMMA FamilyOwner ==
  ASSUME FamilyInv, NEW a \in Account, NEW c \in Credential, cred[c].owner = a
  PROVE  /\ cred[c].state # "none"
         /\ cred[c].family \in Credential
         /\ cred[cred[c].family].state # "none"
         /\ cred[cred[c].family].owner = a
BY CredentialAssumption DEF FamilyInv, CredentialsRooted, FreeRowsBlank, NoCredential, Account

-----------------------------------------------------------------------------
(* Steps that issue nothing. *)

\* Rows keep their names; credentials are at most revoked, sessions at most
\* deleted, and no family gains authority.
Shrinks ==
  /\ \A c \in Credential :
       /\ cred'[c].owner = cred[c].owner /\ cred'[c].family = cred[c].family
       /\ cred'[c].device = cred[c].device /\ cred'[c].expires = cred[c].expires
       /\ Live(c)' => Live(c)
       /\ cred[c].state = "none" => cred'[c] = cred[c]
       /\ cred[c].state # "none" => cred'[c].state # "none"
  /\ \A s \in Session :
       /\ sess'[s].owner = sess[s].owner /\ sess'[s].family = sess[s].family
       /\ sess'[s].login = sess[s].login
       /\ Open(s)' => Open(s)
  /\ \A f \in Credential : status'[f] = "active" => status[f] = "active"
  /\ now <= now'

\* What a step newly ends is dead after it.
EndsDead ==
  \A f \in ended' \ ended :
    /\ cred[f].state # "none"
    /\ \A c \in Credential : cred[c].family = f /\ Live(c)' => ~Unexpired(c)' /\ status'[f] # "active"
    /\ \A s \in Session : sess[s].family = f => ~Open(s)'

\* A bot that loses its authority or is stopped loses all of it, and its
\* sessions.
BotsStep ==
  /\ \A b \in Bot : ActiveOf(b)' # ActiveOf(b) =>
       \A s \in Session : sess[s].owner = b => ~Open(s)'
  /\ \A b \in stopped' \ stopped : ActiveOf(b)' = {} /\ Families(b) # {}

\* A step that changes no authority and stops no bot.
LEMMA SameAuthority ==
  ASSUME Shrinks, UNCHANGED <<status, stopped>>
  PROVE  BotsStep
<1>1. ASSUME NEW b \in Bot PROVE ActiveOf(b)' = ActiveOf(b)
  <2>1. Families(b)' = Families(b)
    BY DEF Families, Shrinks
  <2>. QED BY <2>1 DEF ActiveOf
<1>. QED BY <1>1 DEF BotsStep

\* A step of that sort keeps the invariant.
LEMMA ShrinkingStep ==
  ASSUME FamilyInv, TypeOK', Shrinks, EndsDead, BotsStep
  PROVE  FamilyInv'
<1>0. TypeOK
  BY DEF FamilyInv
<1>1. CredentialsRooted'
  BY DEF FamilyInv, CredentialsRooted, Shrinks
<1>2. FreeRowsBlank'
  BY DEF FamilyInv, FreeRowsBlank, Shrinks
<1>3. SessionsRooted'
  BY <1>0 DEF FamilyInv, SessionsRooted, Shrinks, TypeOK, SessionRows
<1>4. NoFork'
  BY DEF FamilyInv, NoFork, Shrinks
<1>5. EndedDead'
  <2>. SUFFICES ASSUME NEW f \in ended'
       PROVE  /\ cred'[f].state # "none"
              /\ \A c \in Credential : cred'[c].family = f /\ Live(c)'
                   => ~Unexpired(c)' /\ status'[f] # "active"
              /\ \A s \in Session : sess'[s].family = f => ~Open(s)'
    BY DEF EndedDead
  <2>0. f \in Credential
    BY DEF TypeOK
  <2>1. CASE f \in ended
    <3>1. \A c \in Credential : ~Unexpired(c) => ~Unexpired(c)'
      BY <1>0 DEF Shrinks, Unexpired, TypeOK, CredentialRows
    <3>. QED BY <2>0, <2>1, <3>1 DEF FamilyInv, EndedDead, Shrinks
  <2>2. CASE f \notin ended
    BY <2>0, <2>2 DEF EndsDead, Shrinks
  <2>. QED BY <2>1, <2>2
<1>6. OneHeld'
  <2>1. ASSUME NEW a \in Human, NEW d \in Device PROVE Held(a, d)' \subseteq Held(a, d)
    BY DEF Held, FamilyOn, Shrinks
  <2>. QED BY <2>1 DEF FamilyInv, OneHeld
<1>7. OneActive'
  <2>1. ASSUME NEW b \in Bot PROVE ActiveOf(b)' \subseteq ActiveOf(b) /\ Families(b)' = Families(b)
    BY DEF ActiveOf, Families, Shrinks
  <2>2. \A b \in Bot, s \in Session : sess'[s].owner = b /\ Open(s)' => sess'[s].family \in ActiveOf(b)'
    BY DEF FamilyInv, OneActive, Shrinks, BotsStep
  <2>3. \A b \in Bot : b \in stopped' => ActiveOf(b)' = {} /\ Families(b)' # {}
    BY <2>1 DEF FamilyInv, OneActive, BotsStep
  <2>. QED BY <2>1, <2>2, <2>3 DEF FamilyInv, OneActive
<1>. QED BY <1>1, <1>2, <1>3, <1>4, <1>5, <1>6, <1>7 DEF FamilyInv

\* In particular a step that leaves the rows and the clock alone.
LEMMA RowsUntouched ==
  ASSUME FamilyInv, TypeOK', UNCHANGED <<cred, status, sess, stopped, ended>>, now <= now'
  PROVE  FamilyInv'
<1>1. Shrinks
  BY DEF Shrinks, Live, Open
<1>2. EndsDead /\ BotsStep
  BY DEF EndsDead, BotsStep, ActiveOf, Families
<1>. QED BY <1>1, <1>2, ShrinkingStep

\* What the statements of a revoking batch do to a row.
LEMMA RevokedRows ==
  ASSUME TypeOK, NEW fs, NEW c \in Credential
  PROVE  LET r == Revoked(fs)[c] IN
         /\ r.owner = cred[c].owner /\ r.family = cred[c].family
         /\ r.device = cred[c].device /\ r.expires = cred[c].expires
         /\ r.state = "live" <=> Live(c) /\ cred[c].family \notin fs
         /\ cred[c].state = "none" => r = cred[c]
         /\ cred[c].state # "none" => r.state # "none"
<1>1. CASE cred[c].family \in fs /\ Live(c)
  BY <1>1 DEF Revoked, Live, TypeOK, CredentialRows
<1>2. CASE ~(cred[c].family \in fs /\ Live(c))
  BY <1>2 DEF Revoked, Live
<1>. QED BY <1>1, <1>2

\* What the statements of a deleting batch do to a session.
LEMMA DeletedRows ==
  ASSUME TypeOK, NEW gone, NEW s \in Session
  PROVE  LET r == Deleted(gone)[s] IN
         /\ r.owner = sess[s].owner /\ r.family = sess[s].family /\ r.login = sess[s].login
         /\ r.expires = sess[s].expires
         /\ r.state = "live" <=> Open(s) /\ s \notin gone
<1>1. CASE s \in gone /\ Open(s)
  BY <1>1 DEF Deleted, Open, TypeOK, SessionRows
<1>2. CASE ~(s \in gone /\ Open(s))
  BY <1>2 DEF Deleted, Open
<1>. QED BY <1>1, <1>2

\* revokeCliRefreshCredentialFamilyAtomic keeps the invariant.
LEMMA RevokeFamilySafe ==
  ASSUME FamilyInv, TypeOK', NEW f \in Credential, RevokeFamily(f)
  PROVE  FamilyInv'
<1>0. TypeOK
  BY DEF FamilyInv
<1>1. cred' = Revoked({f}) /\ sess' = Deleted(LinkedTo({f})) /\ ended' = ended \cup {f}
      /\ UNCHANGED <<status, stopped, now>>
  BY DEF RevokeFamily
<1>2. Shrinks
  BY <1>0, <1>1, RevokedRows, DeletedRows DEF Shrinks, Live, Open, TypeOK
<1>3. EndsDead
  <2>1. cred[f].state # "none"
    BY FreeIsNew DEF RevokeFamily, Revocable
  <2>. QED BY <1>0, <1>1, <2>1, RevokedRows, DeletedRows DEF EndsDead, Live, Open, LinkedTo
<1>4. BotsStep
  BY <1>1, <1>2, SameAuthority
<1>. QED BY <1>2, <1>3, <1>4, ShrinkingStep

\* So does a revocation of everything.
LEMMA RevokeAllSafe ==
  ASSUME FamilyInv, TypeOK', NEW a \in Human, RevokeAll(a)
  PROVE  FamilyInv'
<1>. DEFINE fs == ActiveFamilies(a)
            gone == LinkedTo(fs) \cup (IF fs = {} THEN {} ELSE Unlinked(a))
<1>0. TypeOK /\ fs \subseteq Families(a)
  BY DEF FamilyInv, ActiveFamilies
<1>1. cred' = Revoked(fs) /\ sess' = Deleted(gone) /\ ended' = ended \cup fs
      /\ UNCHANGED <<status, stopped, now>>
  BY DEF RevokeAll
<1>2. Shrinks
  <2>. HIDE DEF fs, gone
  <2>. QED BY <1>0, <1>1, RevokedRows, DeletedRows DEF Shrinks, Live, Open, TypeOK
<1>3. EndsDead
  <2>1. \A f \in fs : cred[f].state # "none"
    BY <1>0, FreeIsNew DEF Families
  <2>2. \A s \in Session : sess[s].family \in fs => s \in gone
    BY DEF LinkedTo
  <2>. HIDE DEF fs, gone
  <2>. QED BY <1>0, <1>1, <2>1, <2>2, RevokedRows, DeletedRows DEF EndsDead, Live, Open
<1>4. BotsStep
  BY <1>1, <1>2, SameAuthority
<1>. QED BY <1>2, <1>3, <1>4, ShrinkingStep

\* stopWorkspaceBot leaves expired credentials unrevoked: the authority of
\* their family is what is gone.
LEMMA StopBotSafe ==
  ASSUME FamilyInv, TypeOK', NEW b \in Bot, StopBot(b)
  PROVE  FamilyInv'
<1>. DEFINE gone == {s \in Session : sess[s].owner = b}
<1>0. TypeOK /\ b \in Account
  BY DEF FamilyInv, Account
<1>1. /\ \A c \in Credential :
           cred'[c] = IF c \in WorkingOf(b) THEN [cred[c] EXCEPT !.state = "revoked"] ELSE cred[c]
      /\ sess' = Deleted(gone)
      /\ \A f \in Credential : status'[f] = IF f \in Families(b) /\ status[f] = "active"
                                            THEN "revoked" ELSE status[f]
      /\ stopped' = stopped \cup {b} /\ ended' = ended \cup Families(b) /\ now' = now
  BY DEF StopBot
<1>2. Shrinks
  <2>1. \A c \in Credential :
          /\ cred'[c].owner = cred[c].owner /\ cred'[c].family = cred[c].family
          /\ cred'[c].device = cred[c].device /\ cred'[c].expires = cred[c].expires
          /\ Live(c)' => Live(c) /\ c \notin WorkingOf(b)
          /\ cred[c].state = "none" => cred'[c] = cred[c]
          /\ cred[c].state # "none" => cred'[c].state # "none"
    BY <1>0, <1>1 DEF Live, Usable, WorkingOf, TypeOK, CredentialRows
  <2>2. \A s \in Session :
          /\ sess'[s].owner = sess[s].owner /\ sess'[s].family = sess[s].family
          /\ sess'[s].login = sess[s].login
          /\ Open(s)' => Open(s)
    BY <1>0, <1>1, DeletedRows DEF Open
  <2>3. \A f \in Credential : status'[f] = "active" => status[f] = "active"
    BY <1>1
  <2>. QED BY <1>0, <1>1, <2>1, <2>2, <2>3 DEF Shrinks, TypeOK
<1>3. ASSUME NEW f \in Families(b) PROVE status'[f] # "active"
  BY <1>1 DEF Families
<1>4. \A s \in Session : sess[s].owner = b => ~Open(s)'
  BY <1>0, <1>1, DeletedRows DEF Open
<1>5. EndsDead
  <2>. SUFFICES ASSUME NEW f \in Families(b)
       PROVE  /\ cred[f].state # "none"
              /\ \A c \in Credential : cred[c].family = f /\ Live(c)' => ~Unexpired(c)' /\ status'[f] # "active"
              /\ \A s \in Session : sess[s].family = f => ~Open(s)'
    BY <1>1 DEF EndsDead
  <2>1. f \in Credential /\ cred[f].state # "none" /\ cred[f].owner = b
    BY <1>0, FamilyOwner DEF Families
  <2>2. ASSUME NEW c \in Credential, cred[c].family = f, Live(c)'
        PROVE  ~Unexpired(c)'
    <3>1. Live(c) /\ cred[c].owner = b
      BY <1>2, <2>1, <2>2 DEF Shrinks, Live, FamilyInv, CredentialsRooted
    <3>2. c \notin WorkingOf(b)
      BY <1>0, <1>1, <2>2 DEF Live, TypeOK, CredentialRows
    <3>. QED BY <1>1, <1>2, <3>1, <3>2 DEF WorkingOf, Usable, Unexpired, Shrinks
  <2>3. ASSUME NEW s \in Session, sess[s].family = f PROVE ~Open(s)'
    BY <1>4, <2>1, <2>3, CredentialAssumption DEF FamilyInv, SessionsRooted
  <2>. QED BY <1>3, <2>1, <2>2, <2>3
<1>6. BotsStep
  <2>1. ActiveOf(b)' = {} /\ Families(b) # {}
    BY <1>2, <1>3 DEF ActiveOf, Families, Shrinks, StopBot
  <2>2. ASSUME NEW e \in Bot \ {b} PROVE ActiveOf(e)' = ActiveOf(e)
    <3>1. e \in Account /\ \A f \in Families(e) : f \notin Families(b)
      BY <1>0, FamilyOwner DEF Families, Account
    <3>. QED BY <1>1, <1>2, <3>1 DEF ActiveOf, Families, Shrinks
  <2>. QED BY <1>1, <1>4, <2>1, <2>2 DEF BotsStep
<1>. QED BY <1>2, <1>5, <1>6, ShrinkingStep

\* The cleanup touches only what a replay needs.
LEMMA CleanupSafe ==
  ASSUME FamilyInv, TypeOK', Cleanup
  PROVE  FamilyInv'
<1>0. TypeOK
  BY DEF FamilyInv
<1>1. Shrinks
  <2>1. \A c \in Credential :
          cred'[c] = IF cred[c].state = "revoked" /\ cred[c].request # None /\ cred[c].until <= now
                     THEN [cred[c] EXCEPT !.request = None, !.until = 0, !.session = None]
                     ELSE cred[c]
    BY DEF Cleanup
  <2>2. ASSUME NEW c \in Credential
        PROVE  /\ cred'[c].owner = cred[c].owner /\ cred'[c].family = cred[c].family
               /\ cred'[c].device = cred[c].device /\ cred'[c].expires = cred[c].expires
               /\ cred'[c].state = cred[c].state
               /\ cred[c].state # "revoked" => cred'[c] = cred[c]
    <3>1. cred[c] \in CredentialRows
      BY <1>0 DEF TypeOK
    <3>2. CASE cred'[c] = cred[c]
      BY <3>2
    <3>3. CASE /\ cred[c].state = "revoked"
               /\ cred'[c] = [cred[c] EXCEPT !.request = None, !.until = 0, !.session = None]
      BY <3>1, <3>3 DEF CredentialRows
    <3>. QED BY <2>1, <3>2, <3>3
  <2>3. UNCHANGED <<status, sess, now>> /\ now \in Nat
    BY <1>0 DEF Cleanup, TypeOK
  <2>. QED BY <2>2, <2>3 DEF Shrinks, Live, Open
<1>2. EndsDead
  BY DEF Cleanup, EndsDead
<1>3. BotsStep
  BY <1>1, SameAuthority DEF Cleanup
<1>. QED BY <1>1, <1>2, <1>3, ShrinkingStep

-----------------------------------------------------------------------------
(* Steps that issue a credential or a session. *)

\* A session for an account that holds c, in the family of c.
SessionOf(c, s) ==
  /\ \A r \in Session \ {s} : sess'[r] = sess[r]
  /\ sess'[s].owner = cred[c].owner /\ sess'[s].family = cred[c].family
  /\ ~sess'[s].login /\ Open(s)'

\* Families change neither their members nor their owners and devices.
SameFamilies ==
  /\ \A a : Families(a)' = Families(a)
  /\ \A a, d : FamilyOn(a, d)' = FamilyOn(a, d)

\* A new session in a family that has a working credential and authority:
\* its family was not ended and was held already.
LEMMA SessionJoins ==
  ASSUME FamilyInv, TypeOK', NEW c \in Credential, NEW s \in Session, SessionOf(c, s),
         SameFamilies, Live(c), status[cred[c].family] = "active",
         \A e \in Credential : cred[e].state # "none" =>
           cred'[e].state # "none" /\ cred'[e].owner = cred[e].owner,
         UNCHANGED <<status, stopped, ended>>,
         \A f \in Credential : (\E e \in Credential : cred'[e].family = f /\ Live(e)')
                               => \E e \in Credential : cred[e].family = f /\ Live(e)
  PROVE  SessionsRooted' /\ OneHeld' /\ OneActive' /\ cred[c].family \notin ended
<1>. DEFINE f0 == cred[c].family
<1>1. /\ TypeOK /\ f0 \in Credential /\ cred[f0].state # "none" /\ cred[f0].owner = cred[c].owner
      /\ cred[c].state # "none"
  BY DEF FamilyInv, CredentialsRooted, Live
<1>2. f0 \notin ended
  BY DEF FamilyInv, EndedDead
<1>3. SessionsRooted'
  <2>1. \A r \in Session : sess'[r].family \in Credential \cup {None}
    BY DEF TypeOK, SessionRows
  <2>. QED BY <1>1, <2>1 DEF SessionsRooted, SessionOf, FamilyInv, TypeOK, SessionRows
<1>4. OneHeld'
  <2>1. ASSUME NEW a \in Human, NEW d \in Device, NEW f \in Held(a, d)'
        PROVE  f \in Held(a, d)
    <3>1. f \in FamilyOn(a, d)
      BY DEF Held, SameFamilies
    <3>2. f \in Credential
      BY <3>1 DEF FamilyOn
    <3>3. CASE \E e \in Credential : cred'[e].family = f /\ Live(e)'
      BY <3>1, <3>2, <3>3 DEF Held
    <3>4. CASE \E r \in Session : sess'[r].family = f /\ Open(r)'
      <4>1. PICK r \in Session : sess'[r].family = f /\ Open(r)'
        BY <3>4
      <4>2. CASE r = s
        BY <3>1, <4>1, <4>2 DEF Held, SessionOf
      <4>3. CASE r # s
        BY <3>1, <4>1, <4>3 DEF Held, SessionOf, Open
      <4>. QED BY <4>2, <4>3
    <3>. QED BY <3>3, <3>4 DEF Held
  <2>. QED BY <2>1 DEF FamilyInv, OneHeld
<1>5. OneActive'
  <2>1. \A b \in Bot : ActiveOf(b)' = ActiveOf(b)
    BY DEF ActiveOf, SameFamilies
  <2>2. ASSUME NEW b \in Bot, sess'[s].owner = b PROVE sess'[s].family \in ActiveOf(b)
    BY <1>1, <2>2 DEF SessionOf, ActiveOf, Families
  <2>3. \A b \in Bot, r \in Session : sess'[r].owner = b /\ Open(r)' => sess'[r].family \in ActiveOf(b)
    BY <2>2 DEF SessionOf, FamilyInv, OneActive, Open
  <2>. QED BY <2>1, <2>3 DEF FamilyInv, OneActive, SameFamilies
<1>. QED BY <1>2, <1>3, <1>4, <1>5

\* The rotating batch: whichever of several calls commits it, its guards
\* make c the one live credential of a family that was not ended.
LEMMA RotateSafe ==
  ASSUME FamilyInv, TypeOK', NEW q \in Call, NEW n \in Credential, NEW s \in Session,
         Rotate(q, n, s)
  PROVE  FamilyInv'
<1>. DEFINE c == call[q].token
            f0 == cred[c].family
            t == call[q].began
<1>1. TypeOK /\ c \in Credential /\ Live(c) /\ status[f0] = "active" /\ cred[n].state = "none"
  BY DEF FamilyInv, Rotate, MayRotate, TypeOK, Calls, CallFields
<1>. HIDE DEF c
<1>2. /\ c # n /\ f0 \in Credential /\ f0 # n
      /\ cred[f0].state # "none" /\ cred[f0].owner = cred[c].owner
  BY <1>1, FreeIsNew DEF FamilyInv, CredentialsRooted, Live
<1>3. /\ \A e \in Credential \ {c, n} : cred'[e] = cred[e]
      /\ cred'[c].state = "revoked"
      /\ cred'[c].owner = cred[c].owner /\ cred'[c].family = f0
      /\ cred'[c].device = cred[c].device /\ cred'[c].expires = cred[c].expires
  <2>1. cred[c] \in CredentialRows
    BY <1>1 DEF TypeOK
  <2>2. /\ \A e \in Credential \ {c, n} : cred'[e] = cred[e]
        /\ cred'[c] = [cred[c] EXCEPT !.state = "revoked", !.next = n, !.session = s,
                                     !.request = call[q].request, !.until = RetryUntil(t)]
    BY <1>1, <1>2 DEF Rotate, c, TypeOK
  <2>. HIDE DEF t
  <2>. QED BY <2>1, <2>2 DEF CredentialRows
<1>4. /\ cred'[n].owner = cred[c].owner /\ cred'[n].family = f0 /\ cred'[n].device = cred[c].device
      /\ Live(n)' /\ cred'[n].state # "none"
  BY <1>1, <1>2 DEF Rotate, c, NewCredential, NoCredential, Live, TypeOK
<1>5. SessionOf(c, s)
  BY <1>1 DEF Rotate, c, NewSession, SessionOf, Open, TypeOK
<1>6. UNCHANGED <<status, stopped, now, ended>>
  BY DEF Rotate
<1>7. /\ cred[n].owner = None /\ cred[n].family = None /\ cred[n].device = None
  BY <1>1 DEF FamilyInv, FreeRowsBlank, NoCredential
<1>8. \A e \in Credential : e # n =>
        /\ cred'[e].owner = cred[e].owner /\ cred'[e].family = cred[e].family
        /\ cred'[e].device = cred[e].device /\ cred'[e].expires = cred[e].expires
        /\ Live(e)' <=> Live(e) /\ e # c
        /\ cred[e].state = "none" => cred'[e] = cred[e]
        /\ cred[e].state # "none" <=> cred'[e].state # "none"
  BY <1>1, <1>3 DEF Live
<1>9. CredentialsRooted' /\ FreeRowsBlank'
  <2>1. CredentialsRooted'
    BY <1>2, <1>4, <1>8, FreeIsNew, <1>1 DEF FamilyInv, CredentialsRooted
  <2>2. FreeRowsBlank'
    BY <1>4, <1>8 DEF FamilyInv, FreeRowsBlank
  <2>. QED BY <2>1, <2>2
<1>10. NoFork'
  BY <1>1, <1>4, <1>8 DEF FamilyInv, NoFork
<1>11. SameFamilies
  <2>1. \A a : Families(a)' = Families(a)
    <3>. TAKE a
    <3>1. Families(a) \subseteq Families(a)'
      BY <1>7, <1>8, <1>2, <1>1, FreeIsNew, CredentialAssumption DEF Families
    <3>2. Families(a)' \subseteq Families(a)
      BY <1>1, <1>4, <1>8 DEF Families
    <3>. QED BY <3>1, <3>2
  <2>2. \A a, d : FamilyOn(a, d)' = FamilyOn(a, d)
    <3>. TAKE a, d
    <3>1. FamilyOn(a, d) \subseteq FamilyOn(a, d)'
      BY <1>7, <1>8 DEF FamilyOn
    <3>2. FamilyOn(a, d)' \subseteq FamilyOn(a, d)
      BY <1>1, <1>4, <1>8 DEF FamilyOn
    <3>. QED BY <3>1, <3>2
  <2>. QED BY <2>1, <2>2 DEF SameFamilies
<1>12. SessionsRooted' /\ OneHeld' /\ OneActive' /\ f0 \notin ended
  <2>1. \A f \in Credential : (\E e \in Credential : cred'[e].family = f /\ Live(e)')
                              => \E e \in Credential : cred[e].family = f /\ Live(e)
    BY <1>1, <1>4, <1>8
  <2>2. \A e \in Credential : cred[e].state # "none" =>
          cred'[e].state # "none" /\ cred'[e].owner = cred[e].owner
    BY <1>1, <1>8
  <2>. QED BY <1>1, <1>5, <1>6, <1>11, <2>1, <2>2, SessionJoins
<1>13. EndedDead'
  <2>. SUFFICES ASSUME NEW f \in ended
       PROVE  /\ cred'[f].state # "none"
              /\ \A e \in Credential : cred'[e].family = f /\ Live(e)'
                   => ~Unexpired(e)' /\ status'[f] # "active"
              /\ \A r \in Session : sess'[r].family = f => ~Open(r)'
    BY <1>6 DEF EndedDead
  <2>1. f \in Credential /\ f # f0 /\ f # n
    BY <1>1, <1>12, FreeIsNew DEF TypeOK
  <2>2. cred'[f].state # "none"
    BY <1>8, <2>1 DEF FamilyInv, EndedDead
  <2>3. ASSUME NEW e \in Credential, cred'[e].family = f, Live(e)'
        PROVE  ~Unexpired(e)' /\ status'[f] # "active"
    BY <1>4, <1>6, <1>8, <2>1, <2>3 DEF FamilyInv, EndedDead, Unexpired
  <2>4. ASSUME NEW r \in Session, sess'[r].family = f PROVE ~Open(r)'
    BY <1>5, <2>1, <2>4 DEF SessionOf, FamilyInv, EndedDead, Open
  <2>. QED BY <2>2, <2>3, <2>4
<1>. QED BY <1>9, <1>10, <1>12, <1>13 DEF FamilyInv

\* refreshLegacyCliSession adds a session to a family that is still alive
\* when the batch commits.
LEMMA LegacyInsertSafe ==
  ASSUME FamilyInv, TypeOK', NEW q \in Call, NEW s \in Session, LegacyInsert(q, s)
  PROVE  FamilyInv'
<1>. DEFINE c == call[q].token
<1>1. UNCHANGED <<cred, status, stopped, now, ended>> /\ TypeOK
  BY DEF LegacyInsert, FamilyInv
<1>2. CASE ~MayRefreshLegacy(c)
  <2>1. UNCHANGED sess /\ now <= now'
    BY <1>1, <1>2 DEF LegacyInsert, TypeOK
  <2>. QED BY <1>1, <2>1, RowsUntouched
<1>3. CASE MayRefreshLegacy(c)
  <2>1. c \in Credential /\ Live(c) /\ status[cred[c].family] = "active"
    BY <1>1, <1>3 DEF LegacyInsert, MayRefreshLegacy, TypeOK, Calls, CallFields
  <2>2. SessionOf(c, s)
    BY <1>1, <1>3 DEF LegacyInsert, SessionOf, NewSession, Open, TypeOK
  <2>. HIDE DEF c
  <2>3. SameFamilies
    BY <1>1 DEF SameFamilies, Families, FamilyOn
  <2>4. SessionsRooted' /\ OneHeld' /\ OneActive' /\ cred[c].family \notin ended
    BY <1>1, <2>1, <2>2, <2>3, SessionJoins DEF Live
  <2>5. CredentialsRooted' /\ FreeRowsBlank' /\ NoFork'
    BY <1>1 DEF FamilyInv, CredentialsRooted, FreeRowsBlank, NoFork, Live
  <2>6. EndedDead'
    BY <1>1, <2>2, <2>4 DEF FamilyInv, EndedDead, SessionOf, Live, Unexpired, Open
  <2>. QED BY <2>4, <2>5, <2>6 DEF FamilyInv
<1>. QED BY <1>2, <1>3

\* An approved device login: a session of no family, of a user.
LEMMA ApproveDeviceSafe ==
  ASSUME FamilyInv, TypeOK', NEW a \in Human, NEW s \in Session, ApproveDevice(a, s)
  PROVE  FamilyInv'
<1>1. UNCHANGED <<cred, status, stopped, now, ended>> /\ TypeOK
  BY DEF ApproveDevice, FamilyInv
<1>2. /\ \A r \in Session \ {s} : sess'[r] = sess[r]
      /\ sess'[s].owner = a /\ sess'[s].family = None /\ sess'[s].login
  BY <1>1 DEF ApproveDevice, NewSession, TypeOK
<1>3. CredentialsRooted' /\ FreeRowsBlank' /\ NoFork'
  BY <1>1 DEF FamilyInv, CredentialsRooted, FreeRowsBlank, NoFork, Live
<1>4. SessionsRooted'
  BY <1>1, <1>2 DEF FamilyInv, SessionsRooted
<1>5. EndedDead'
  BY <1>1, <1>2, CredentialAssumption DEF FamilyInv, EndedDead, Live, Unexpired, Open, TypeOK
<1>6. OneHeld'
  <2>1. ASSUME NEW x \in Human, NEW d \in Device PROVE Held(x, d)' \subseteq Held(x, d)
    BY <1>1, <1>2, CredentialAssumption DEF Held, FamilyOn, Live, Open
  <2>. QED BY <2>1 DEF FamilyInv, OneHeld
<1>7. OneActive'
  <2>1. \A b \in Bot : ActiveOf(b)' = ActiveOf(b) /\ Families(b)' = Families(b)
    BY <1>1 DEF ActiveOf, Families
  <2>2. \A b \in Bot : b # a
    BY CredentialAssumption
  <2>. QED BY <1>1, <1>2, <2>1, <2>2 DEF FamilyInv, OneActive, Open
<1>. QED BY <1>3, <1>4, <1>5, <1>6, <1>7 DEF FamilyInv

\* A batch that revokes the families fs and inserts c as the root of a new
\* family of a, on device d if there is one.
Opens(c, a, d, fs) ==
  /\ cred[c].state = "none"
  /\ cred'[c].owner = a /\ cred'[c].family = c /\ cred'[c].device = d
  /\ cred'[c].state = "live"
  /\ \A e \in Credential \ {c} :
       /\ cred'[e].owner = cred[e].owner /\ cred'[e].family = cred[e].family
       /\ cred'[e].device = cred[e].device /\ cred'[e].expires = cred[e].expires
       /\ Live(e)' <=> Live(e) /\ cred[e].family \notin fs
       /\ cred[e].state = "none" => cred'[e] = cred[e]
       /\ cred[e].state # "none" => cred'[e].state # "none"

\* The names a new credential has, whatever they are.
LEMMA NewCredentialNames ==
  \A a, f, d, t : LET r == NewCredential(a, f, d, t) IN
    r.owner = a /\ r.family = f /\ r.device = d /\ r.state = "live"
BY DEF NewCredential, NoCredential

\* Such a batch follows from its text.
LEMMA OpenedRows ==
  ASSUME TypeOK, NEW c \in Credential, NEW a, NEW d, NEW fs, cred[c].state = "none",
         cred' = [Revoked(fs) EXCEPT ![c] = NewCredential(a, c, d, now)]
  PROVE  Opens(c, a, d, fs)
<1>1. Revoked(fs) \in [Credential -> CredentialRows]
  BY EndingRows
<1>2. cred'[c] = NewCredential(a, c, d, now)
  BY <1>1
<1>3. \A e \in Credential \ {c} : cred'[e] = Revoked(fs)[e]
  BY <1>1
<1>4. /\ cred'[c].owner = a /\ cred'[c].family = c /\ cred'[c].device = d
      /\ cred'[c].state = "live"
  BY <1>2, NewCredentialNames
<1>. QED BY <1>3, <1>4, RevokedRows DEF Opens, Live

\* It keeps families rooted and unforked, and adds one family to its owner.
LEMMA OpensFamily ==
  ASSUME FamilyInv, TypeOK', NEW c \in Credential, NEW a \in Account,
         NEW d \in Device \cup {None}, NEW fs, Opens(c, a, d, fs)
  PROVE  /\ CredentialsRooted' /\ FreeRowsBlank' /\ NoFork'
         /\ Families(a)' = Families(a) \cup {c}
         /\ \A x : x # a => Families(x)' = Families(x)
         /\ \A x, y : x # a \/ y # d \/ y = None => FamilyOn(x, y)' = FamilyOn(x, y)
         /\ \A x, y : FamilyOn(x, y)' \subseteq FamilyOn(x, y) \cup {c}
<1>. USE DEF Opens
<1>1. /\ \A e \in Credential : cred[e].family # c
      /\ cred[c].owner = None /\ cred[c].device = None /\ None \notin Account /\ cred[c].family = None
      /\ None \notin Credential
  BY FreeIsNew, CredentialAssumption DEF FamilyInv, FreeRowsBlank, NoCredential, Account
<1>2. CredentialsRooted'
  <2>. SUFFICES ASSUME NEW e \in Credential, cred'[e].state # "none"
       PROVE  /\ cred'[e].family \in Credential /\ cred'[cred'[e].family].state # "none"
              /\ cred'[cred'[e].family].owner = cred'[e].owner
    BY DEF CredentialsRooted
  <2>1. CASE e = c
    BY <2>1
  <2>2. CASE e # c
    <3>1. cred[e].state # "none"
      BY <2>2
    <3>. QED BY <1>1, <2>2, <3>1 DEF FamilyInv, CredentialsRooted
  <2>. QED BY <2>1, <2>2
<1>3. FreeRowsBlank'
  BY DEF FamilyInv, FreeRowsBlank
<1>4. NoFork'
  BY <1>1 DEF FamilyInv, NoFork, Live
<1>5. Families(a)' = Families(a) \cup {c}
  BY <1>1 DEF Families
<1>6. ASSUME NEW x, x # a PROVE Families(x)' = Families(x)
  <2>1. Families(x) \subseteq Families(x)'
    BY <1>1, <1>6 DEF Families
  <2>2. Families(x)' \subseteq Families(x)
    BY <1>1, <1>6 DEF Families
  <2>. QED BY <2>1, <2>2
<1>7. ASSUME NEW x, NEW y, x # a \/ y # d \/ y = None PROVE FamilyOn(x, y)' = FamilyOn(x, y)
  <2>1. FamilyOn(x, y) \subseteq FamilyOn(x, y)'
    BY <1>1, <1>7 DEF FamilyOn
  <2>2. FamilyOn(x, y)' \subseteq FamilyOn(x, y)
    BY <1>1, <1>7 DEF FamilyOn
  <2>. QED BY <2>1, <2>2
<1>8. \A x, y : FamilyOn(x, y)' \subseteq FamilyOn(x, y) \cup {c}
  BY DEF FamilyOn
<1>. QED BY <1>2, <1>3, <1>4, <1>5, <1>6, <1>7, <1>8

\* issueCliRefreshCredential: what the device held is gone, and the session
\* that asked moves to the new family.
LEMMA IssueSafe ==
  ASSUME FamilyInv, TypeOK', NEW s \in Session, NEW d \in Device \cup {None},
         NEW c \in Credential, Issue(s, d, c)
  PROVE  FamilyInv'
<1>. DEFINE a == sess[s].owner
            prior == PriorDeviceFamilies(a, d)
            fs == prior \cup SourceFamily(s)
            gone == LinkedTo(prior) \ {s}
<1>0. TypeOK /\ a \in Human /\ a \in Account /\ prior = FamilyOn(a, d)
  BY DEF FamilyInv, Issue, SessionsRooted, Account, PriorDeviceFamilies
<1>1. Opens(c, a, d, fs)
  BY <1>0, OpenedRows DEF Issue
<1>2. /\ \A r \in Session \ {s} : sess'[r] = Deleted(gone)[r]
      /\ sess'[s] = [Deleted(gone)[s] EXCEPT !.family = c]
  BY <1>0, EndingRows DEF Issue
<1>3. UNCHANGED <<stopped, now>> /\ ended' = ended \cup prior
      /\ status' = [status EXCEPT ![c] = "active"] /\ cred[c].state = "none"
  BY DEF Issue
<1>4. \A f \in prior : \A r \in Session \ {s} : sess[r].family = f => r \in gone
  BY DEF LinkedTo
<1>. HIDE DEF fs, gone
<1>5. /\ sess'[s].family = c /\ sess'[s].owner = a /\ sess'[s].login = sess[s].login
      /\ \A r \in Session \ {s} :
           /\ sess'[r].owner = sess[r].owner /\ sess'[r].family = sess[r].family
           /\ sess'[r].login = sess[r].login
           /\ Open(r)' <=> Open(r) /\ r \notin gone
  <2>1. Deleted(gone)[s] \in SessionRows
    BY <1>0, EndingRows
  <2>2. sess'[s].family = c /\ sess'[s].owner = Deleted(gone)[s].owner
        /\ sess'[s].login = Deleted(gone)[s].login
    BY <1>2, <2>1 DEF SessionRows
  <2>. QED BY <1>0, <1>2, <2>2, DeletedRows DEF Open
<1>6. /\ CredentialsRooted' /\ FreeRowsBlank' /\ NoFork'
      /\ \A x : x # a => Families(x)' = Families(x)
      /\ \A x, y : x # a \/ y # d \/ y = None => FamilyOn(x, y)' = FamilyOn(x, y)
      /\ \A x, y : FamilyOn(x, y)' \subseteq FamilyOn(x, y) \cup {c}
  BY <1>0, <1>1, OpensFamily
<1>7. /\ \A e \in Credential : cred[e].family # c
      /\ \A r \in Session : sess[r].family # c
      /\ c \notin ended
      /\ \A x : c \notin Families(x)
  BY <1>3, FreeIsNew
<1>8. \A f \in prior : f \in Credential /\ cred[f].state # "none" /\ f # c
  BY <1>0, <1>7, FamilyOwner DEF FamilyOn
<1>. HIDE DEF prior
<1>9. SessionsRooted'
  <2>1. \A r \in Session : sess[r].family \in Credential \cup {None}
    BY <1>0 DEF TypeOK, SessionRows
  <2>. QED BY <1>0, <1>1, <1>5, <1>7, <2>1 DEF FamilyInv, SessionsRooted, Opens
<1>10. EndedDead'
  <2>. SUFFICES ASSUME NEW f \in ended \cup prior
       PROVE  /\ cred'[f].state # "none"
              /\ \A e \in Credential : cred'[e].family = f /\ Live(e)'
                   => ~Unexpired(e)' /\ status'[f] # "active"
              /\ \A r \in Session : sess'[r].family = f => ~Open(r)'
    BY <1>3 DEF EndedDead
  <2>1. f \in Credential /\ f # c /\ cred[f].state # "none"
    BY <1>0, <1>7, <1>8 DEF TypeOK, FamilyInv, EndedDead
  <2>2. cred'[f].state # "none"
    BY <1>1, <2>1 DEF Opens
  <2>3. CASE f \in prior
    BY <1>1, <1>4, <1>5, <2>1, <2>2, <2>3 DEF Opens, fs
  <2>4. CASE f \in ended
    <3>1. status'[f] = status[f]
      BY <1>0, <1>3, <2>1 DEF TypeOK
    <3>2. ASSUME NEW e \in Credential, cred'[e].family = f, Live(e)'
          PROVE  ~Unexpired(e)' /\ status'[f] # "active"
      BY <1>1, <1>3, <2>1, <2>4, <3>1, <3>2 DEF Opens, FamilyInv, EndedDead, Unexpired
    <3>3. \A r \in Session : sess'[r].family = f => ~Open(r)'
      BY <1>5, <2>1, <2>4 DEF FamilyInv, EndedDead
    <3>. QED BY <2>2, <3>2, <3>3
  <2>. QED BY <2>3, <2>4
<1>11. OneHeld'
  <2>. SUFFICES ASSUME NEW x \in Human, NEW y \in Device, NEW f \in Held(x, y)', NEW g \in Held(x, y)'
       PROVE  f = g
    BY DEF OneHeld
  <2>1. y # None
    BY CredentialAssumption
  <2>2. CASE x = a /\ y = d
    <3>1. ASSUME NEW h \in Held(x, y)', h # c PROVE FALSE
      <4>1. h \in prior /\ h \in Credential
        BY <1>0, <1>6, <1>8, <2>2, <3>1 DEF Held
      <4>2. \A e \in Credential : cred'[e].family = h => ~Live(e)'
        BY <1>1, <3>1, <4>1 DEF Opens, fs
      <4>3. \A r \in Session : sess'[r].family = h => ~Open(r)'
        BY <1>4, <1>5, <3>1, <4>1
      <4>. QED BY <4>2, <4>3, <3>1 DEF Held
    <3>. QED BY <3>1
  <2>3. CASE ~(x = a /\ y = d)
    <3>1. ASSUME NEW h \in Held(x, y)' PROVE h \in Held(x, y)
      <4>1. h \in FamilyOn(x, y) /\ h # c
        <5>1. FamilyOn(x, y)' = FamilyOn(x, y)
          BY <1>6, <2>3
        <5>2. h \in FamilyOn(x, y)
          BY <5>1, <3>1 DEF Held
        <5>. QED BY <5>2, <1>7 DEF FamilyOn
      <4>. QED BY <1>1, <1>5, <3>1, <4>1 DEF Held, Opens
    <3>. QED BY <3>1 DEF FamilyInv, OneHeld
  <2>. QED BY <2>2, <2>3
<1>12. OneActive'
  <2>1. ASSUME NEW b \in Bot PROVE b # a /\ Families(b)' = Families(b) /\ ActiveOf(b)' = ActiveOf(b)
    <3>1. b # a /\ Families(b)' = Families(b)
      BY <1>0, <1>6, CredentialAssumption
    <3>. QED BY <1>0, <1>3, <1>7, <3>1 DEF ActiveOf, TypeOK
  <2>. QED BY <1>3, <1>5, <2>1 DEF FamilyInv, OneActive
<1>. QED BY <1>6, <1>9, <1>10, <1>11, <1>12 DEF FamilyInv

\* A bot's new family: no session is left of the families revoked for it,
\* which are all that the bot had.
LEMMA BotFamilySafe ==
  ASSUME FamilyInv, TypeOK', NEW b \in Bot, NEW c \in Credential,
         Opens(c, b, None, Families(b)), b \notin stopped,
         UNCHANGED <<stopped, now>>,
         ended \subseteq ended', ended' \subseteq ended \cup Families(b),
         \A f \in Credential \ (Families(b) \cup {c}) : status'[f] = status[f],
         \A f \in Families(b) : status'[f] # "active",
         status'[c] = "active",
         \A r \in Session :
           /\ sess'[r].owner = sess[r].owner /\ sess'[r].family = sess[r].family
           /\ sess'[r].login = sess[r].login
           /\ Open(r)' => Open(r) /\ sess[r].owner # b
  PROVE  FamilyInv'
<1>0. TypeOK /\ b \in Account /\ b \notin Human /\ cred[c].state = "none"
  BY CredentialAssumption DEF FamilyInv, Account, Opens
<1>1. /\ CredentialsRooted' /\ FreeRowsBlank' /\ NoFork'
      /\ Families(b)' = Families(b) \cup {c}
      /\ \A x : x # b => Families(x)' = Families(x)
      /\ \A x, y : x # b \/ y # None \/ y = None => FamilyOn(x, y)' = FamilyOn(x, y)
  BY <1>0, OpensFamily
<1>2. /\ \A e \in Credential : cred[e].family # c
      /\ \A r \in Session : sess[r].family # c
      /\ c \notin ended
      /\ \A x : c \notin Families(x)
  BY <1>0, FreeIsNew
<1>3. \A x \in Account : \A f \in Families(x) : f \in Credential /\ cred[f].state # "none" /\ cred[f].owner = x
  BY FamilyOwner DEF Families
<1>4. SessionsRooted'
  <2>1. \A r \in Session : sess[r].family \in Credential \cup {None}
    BY <1>0 DEF TypeOK, SessionRows
  <2>. QED BY <1>2, <2>1 DEF FamilyInv, SessionsRooted, Opens
<1>5. EndedDead'
  <2>. SUFFICES ASSUME NEW f \in ended'
       PROVE  /\ cred'[f].state # "none"
              /\ \A e \in Credential : cred'[e].family = f /\ Live(e)'
                   => ~Unexpired(e)' /\ status'[f] # "active"
              /\ \A r \in Session : sess'[r].family = f => ~Open(r)'
    BY DEF EndedDead
  <2>1. f \in Credential /\ f # c /\ cred[f].state # "none"
    BY <1>0, <1>2, <1>3 DEF TypeOK, FamilyInv, EndedDead
  <2>2. cred'[f].state # "none"
    BY <2>1 DEF Opens
  <2>3. CASE f \in Families(b)
    <3>1. \A e \in Credential : cred'[e].family = f => ~Live(e)'
      BY <2>1, <2>3 DEF Opens
    <3>2. ASSUME NEW r \in Session, sess'[r].family = f PROVE ~Open(r)'
      <4>1. sess[r].family = f /\ f # None
        BY <2>1, <3>2, CredentialAssumption
      <4>2. sess[r].owner = b
        BY <1>0, <1>3, <2>3, <4>1 DEF FamilyInv, SessionsRooted
      <4>. QED BY <4>2
    <3>. QED BY <2>2, <3>1, <3>2
  <2>4. CASE f \notin Families(b)
    <3>1. f \in ended /\ status'[f] = status[f]
      BY <2>1, <2>4
    <3>2. ASSUME NEW e \in Credential, cred'[e].family = f, Live(e)'
          PROVE  ~Unexpired(e)' /\ status'[f] # "active"
      BY <2>1, <3>1, <3>2 DEF Opens, FamilyInv, EndedDead, Unexpired
    <3>3. \A r \in Session : sess'[r].family = f => ~Open(r)'
      BY <3>1 DEF FamilyInv, EndedDead
    <3>. QED BY <2>2, <3>2, <3>3
  <2>. QED BY <2>3, <2>4
<1>6. OneHeld'
  <2>1. ASSUME NEW x \in Human, NEW y \in Device, NEW h \in Held(x, y)' PROVE h \in Held(x, y)
    <3>1. FamilyOn(x, y)' = FamilyOn(x, y)
      BY <1>0, <1>1
    <3>2. h \in FamilyOn(x, y)
      BY <2>1, <3>1 DEF Held
    <3>3. h # c
      BY <1>2, <3>2 DEF FamilyOn
    <3>. QED BY <2>1, <3>2, <3>3 DEF Held, Opens
  <2>. QED BY <2>1 DEF FamilyInv, OneHeld
<1>7. OneActive'
  <2>1. ActiveOf(b)' = {c}
    BY <1>1 DEF ActiveOf
  <2>2. ASSUME NEW x \in Bot, x # b PROVE Families(x)' = Families(x) /\ ActiveOf(x)' = ActiveOf(x)
    <3>1. Families(x)' = Families(x)
      BY <1>1, <2>2
    <3>2. x \in Account
      BY DEF Account
    <3>3. \A f \in Families(x) : status'[f] = status[f]
      BY <1>0, <1>2, <1>3, <2>2, <3>2
    <3>. QED BY <3>1, <3>3 DEF ActiveOf
  <2>3. ASSUME NEW x \in Bot
        PROVE  /\ \A f, g \in ActiveOf(x)' : f = g
               /\ x \in stopped' => ActiveOf(x)' = {} /\ Families(x)' # {}
               /\ \A r \in Session : sess'[r].owner = x /\ Open(r)' => sess'[r].family \in ActiveOf(x)'
    <3>1. CASE x = b
      BY <2>1, <3>1
    <3>2. CASE x # b
      BY <2>2, <3>2 DEF FamilyInv, OneActive
    <3>. QED BY <3>1, <3>2
  <2>. QED BY <2>3 DEF OneActive
<1>. QED BY <1>1, <1>4, <1>5, <1>6, <1>7 DEF FamilyInv

\* createWorkspaceBot
LEMMA CreateBotSafe ==
  ASSUME FamilyInv, TypeOK', NEW b \in Bot, NEW c \in Credential, CreateBot(b, c)
  PROVE  FamilyInv'
<1>0. TypeOK /\ Families(b) = {} /\ cred[c].state = "none"
  BY DEF FamilyInv, CreateBot
<1>1. Opens(c, b, None, Families(b))
  <2>1. /\ \A e \in Credential \ {c} : cred'[e] = cred[e]
        /\ cred'[c] = NewCredential(b, c, None, now)
    BY <1>0 DEF CreateBot, OpenFamily, TypeOK
  <2>. QED BY <1>0, <2>1, NewCredentialNames DEF Opens, Live
<1>2. b \notin stopped
  BY <1>0 DEF FamilyInv, OneActive
<1>3. UNCHANGED <<stopped, now, ended, sess>> /\ status'[c] = "active"
      /\ \A f \in Credential \ {c} : status'[f] = status[f]
  BY <1>0 DEF CreateBot, TypeOK
<1>4. \A r \in Session : Open(r) => sess[r].owner # b
  BY <1>0 DEF FamilyInv, OneActive, ActiveOf
<1>5. \A r \in Session : /\ sess'[r].owner = sess[r].owner /\ sess'[r].family = sess[r].family
                         /\ sess'[r].login = sess[r].login
                         /\ Open(r)' => Open(r) /\ sess[r].owner # b
  BY <1>3, <1>4 DEF Open
<1>. QED BY <1>0, <1>1, <1>2, <1>3, <1>5, BotFamilySafe

\* reissueWorkspaceBotCredential, unless a stop came first.
LEMMA ReissueWriteSafe ==
  ASSUME FamilyInv, TypeOK', NEW b \in Bot, NEW c \in Credential, ReissueWrite(b, c)
  PROVE  FamilyInv'
<1>0. TypeOK /\ UNCHANGED <<stopped, now>> /\ now <= now'
  BY DEF FamilyInv, ReissueWrite, TypeOK
<1>1. CASE StopWins(b)
  BY <1>0, <1>1, RowsUntouched DEF ReissueWrite
<1>2. CASE ~StopWins(b)
  <2>. DEFINE gone == {s \in Session : sess[s].owner = b}
  <2>1. /\ cred[c].state = "none"
        /\ cred' = [Revoked(Families(b)) EXCEPT ![c] = NewCredential(b, c, None, now)]
        /\ sess' = Deleted(gone)
        /\ ended' = ended \cup Families(b)
    BY <1>2 DEF ReissueWrite
  <2>2. Opens(c, b, None, Families(b))
    BY <1>0, <2>1, OpenedRows
  <2>3. /\ \A f \in Families(b) : f # c /\ f \in Credential
        /\ status'[c] = "active"
        /\ \A f \in Credential \ {c} : status'[f] = IF f \in Families(b) /\ status[f] = "active"
                                                    THEN "superseded" ELSE status[f]
    BY <1>0, <1>2, <2>1, FreeIsNew DEF ReissueWrite, TypeOK, Families
  <2>4. \A r \in Session : /\ sess'[r].owner = sess[r].owner /\ sess'[r].family = sess[r].family
                           /\ sess'[r].login = sess[r].login
                           /\ Open(r)' => Open(r) /\ sess[r].owner # b
    BY <1>0, <2>1, DeletedRows DEF Open
  <2>5. b \notin stopped
    BY <1>2 DEF StopWins
  <2>. QED BY <1>0, <2>1, <2>2, <2>3, <2>4, <2>5, BotFamilySafe
<1>. QED BY <1>1, <1>2

-----------------------------------------------------------------------------
(* The theorems. *)

\* What the invariant says about families.
LEMMA FamilyInvImplies ==
  ASSUME FamilyInv
  PROVE  NoFork /\ EndedForGood /\ OneFamilyPerDevice /\ BotHoldsOneFamily
<1>1. EndedForGood
  BY DEF FamilyInv, EndedDead, EndedForGood, Usable
<1>2. ASSUME NEW S, \A f, g \in S : f = g PROVE Cardinality(S) <= 1
  <2>1. CASE S = {}
    BY <2>1, FS_EmptySet
  <2>2. CASE S # {}
    <3>1. PICK f \in S : TRUE
      BY <2>2
    <3>2. S = {f}
      BY <1>2, <3>1
    <3>3. Cardinality(S) = 1
      BY <3>2, FS_Singleton
    <3>. QED BY <3>3
  <2>. QED BY <2>1, <2>2
<1>3. OneFamilyPerDevice
  <2>1. ASSUME NEW a \in Human, NEW d \in Device PROVE Cardinality(Held(a, d)) <= 1
    BY <1>2 DEF FamilyInv, OneHeld
  <2>. QED BY <2>1 DEF OneFamilyPerDevice, Held
<1>4. BotHoldsOneFamily
  <2>1. ASSUME NEW b \in Bot PROVE Cardinality(ActiveOf(b)) <= 1
    BY <1>2 DEF FamilyInv, OneActive
  <2>. QED BY <2>1 DEF BotHoldsOneFamily, ActiveOf, FamilyInv, OneActive
<1>. QED BY <1>1, <1>3, <1>4 DEF FamilyInv

\* The invariant holds at first and is kept by every step.
LEMMA FamilyInductive == (Init => FamilyInv) /\ (FamilyInv /\ [Next]_vars => FamilyInv')
<1>1. ASSUME Init PROVE FamilyInv
  <2>1. TypeOK
    <3>1. NoCredential \in CredentialRows /\ NoSession \in SessionRows
      BY DEF NoCredential, CredentialRows, NoSession, SessionRows
    <3>. QED BY <1>1, <3>1, NoCallType DEF Init, TypeOK
  <2>2. /\ \A c \in Credential : cred[c] = NoCredential
        /\ \A s \in Session : sess[s] = NoSession
        /\ stopped = {} /\ ended = {}
    BY <1>1 DEF Init
  <2>3. /\ \A c \in Credential : cred[c].state = "none" /\ ~Live(c) /\ cred[c].owner = None
        /\ \A s \in Session : ~Open(s) /\ ~sess[s].login /\ sess[s].family = None
    BY <2>2 DEF NoCredential, NoSession, Live, Open
  <2>. QED BY <2>1, <2>2, <2>3, CredentialAssumption
       DEF FamilyInv, CredentialsRooted, FreeRowsBlank, SessionsRooted, NoFork, EndedDead,
           OneHeld, Held, OneActive, ActiveOf, Families, Account
<1>2. ASSUME FamilyInv, [Next]_vars PROVE FamilyInv'
  <2>0. TypeOK /\ TypeOK'
    BY <1>2, TypeStep DEF FamilyInv
  <2>1. CASE UNCHANGED vars
    BY <1>2, <2>0, <2>1, RowsUntouched DEF vars, server, TypeOK
  <2>2. CASE Login
    BY <1>2, <2>0, <2>2, ApproveDeviceSafe, IssueSafe DEF Login
  <2>3. ASSUME NEW q \in Call, Refresh(q) PROVE FamilyInv'
    <3>1. CASE \/ \E c \in Credential : LegacyRead(q, c) \/ \E r \in Rotation : RefreshRead(q, c, r)
               \/ RotateNothing(q) \/ ReplayRead(q)
      <4>1. UNCHANGED <<cred, status, sess, stopped, ended, now>>
        BY <3>1 DEF LegacyRead, RefreshRead, RotateNothing, ReplayRead
      <4>. QED BY <1>2, <2>0, <4>1, RowsUntouched DEF TypeOK
    <3>2. ASSUME NEW n \in Credential, NEW s \in Session, Rotate(q, n, s) PROVE FamilyInv'
      BY <1>2, <2>0, <3>2, RotateSafe
    <3>3. ASSUME NEW s \in Session, LegacyInsert(q, s) PROVE FamilyInv'
      BY <1>2, <2>0, <3>3, LegacyInsertSafe
    <3>. QED BY <2>3, <3>1, <3>2, <3>3 DEF Refresh, Serve
  <2>4. CASE Revoke
    BY <1>2, <2>0, <2>4, RevokeFamilySafe, RevokeAllSafe DEF Revoke
  <2>5. ASSUME NEW b \in Bot, ReissueRead(b) PROVE FamilyInv'
    <3>1. UNCHANGED <<cred, status, sess, stopped, ended, now>>
      BY <2>5 DEF ReissueRead
    <3>. QED BY <1>2, <2>0, <3>1, RowsUntouched DEF TypeOK
  <2>6. CASE Administer
    BY <1>2, <2>0, <2>5, <2>6, StopBotSafe, CreateBotSafe, ReissueWriteSafe DEF Administer
  <2>7. CASE Cleanup
    BY <1>2, <2>0, <2>7, CleanupSafe
  <2>8. CASE Tick
    <3>1. UNCHANGED <<cred, status, sess, stopped, ended>> /\ now <= now'
      BY <2>0, <2>8 DEF Tick, TypeOK
    <3>. QED BY <1>2, <2>0, <3>1, RowsUntouched
  <2>. QED BY <1>2, <2>1, <2>2, <2>3, <2>4, <2>6, <2>7, <2>8 DEF Next
<1>. QED BY <1>1, <1>2

\* However many refreshes of a credential run at once, at most one of a
\* family's credentials is unrevoked.
THEOREM FamiliesNeverFork == Spec => []NoFork
<1>. QED BY FamilyInductive, FamilyInvImplies, PTL DEF Spec

\* Nothing of a family that was logged out, revoked, superseded, reissued or
\* stopped works again.
THEOREM EndedStaysEnded == Spec => []EndedForGood
<1>. QED BY FamilyInductive, FamilyInvImplies, PTL DEF Spec

\* A device holds one family of its user.
THEOREM DeviceHoldsOne == Spec => []OneFamilyPerDevice
<1>. QED BY FamilyInductive, FamilyInvImplies, PTL DEF Spec

\* A bot holds one family, and none once it is stopped.
THEOREM BotHoldsOne == Spec => []BotHoldsOneFamily
<1>. QED BY FamilyInductive, FamilyInvImplies, PTL DEF Spec

-----------------------------------------------------------------------------
(* The profile of one process.  Neither property says enough of what is on *)
(* its way: requests that nobody waits for any more, and what a process    *)
(* has read or been answered and not yet written.                          *)

Entries == [session : Session \cup {None}, refresh : Credential \cup {None},
            pending : Rotation \cup {None}, device : Device \cup {None}]
Places == [pc : {"idle", "issue", "save", "read", "stage", "send", "wait", "forget"},
           entry : Entries, token : Credential \cup {None}, id : Rotation \cup {None},
           call : Call \cup {None}, got : Entries]
ProfileTypes == store \in Entries /\ proc \in [Process -> Places]

InFlight(q) == call[q].phase # "idle"
Unasked(c) == \A q \in Call : InFlight(q) => call[q].token # c

\* Requests carry tokens that were issued, and only a rotation names a
\* successor.
ServerInv ==
  /\ \A q \in Call : InFlight(q) => cred[call[q].token].state # "none"
  /\ \A c \in Credential : Live(c) => cred[c].next = None

\* The credential of e was rotated: the answer can be had again with the
\* rotation id in e, or the retry window is over.
Consumed(e) ==
  LET c == e.refresh
      n == cred[c].next
      s == cred[c].session
      until == cred[n].expires - CredentialTtl + RetryTtl
  IN  /\ e.pending # None
      /\ n \in Credential /\ cred[n].state # "none"
      /\ \/ /\ cred[c].request = e.pending /\ cred[c].until = until
            /\ Live(n) /\ cred[n].family = cred[c].family
            /\ s \in Session /\ Open(s) /\ sess[s].family = cred[c].family
         \/ until <= now

\* Whoever asks to refresh the stored credential has the stored rotation id,
\* and nobody knows its successor.
StoreInv ==
  LET c == store.refresh IN
  c # None =>
    /\ cred[c].state # "none"
    /\ \A q \in Call : InFlight(q) /\ call[q].token = c =>
         store.pending # None /\ call[q].request = store.pending
    /\ cred[c].next # None => cred[c].next # c /\ Unasked(cred[c].next)
    /\ Live(c) \/ cred[c].family \in ended \/ Consumed(store)

\* Nothing of family f works any more.
Dead(f) ==
  \/ f \in ended
  \/ /\ \A c \in Credential : cred[c].family = f => ~Live(c)
     /\ \A s \in Session : sess[s].family = f => ~Valid(s)

\* A session of a login, and a credential that is not yet in the store.
LoginSession(s) == s \in Session /\ sess[s].state # "none" /\ sess[s].family = None
Unsaved(c) ==
  /\ c \in Credential /\ cred[c].state # "none"
  /\ cred[c].next = None /\ Unasked(c)
  /\ Live(c) \/ cred[c].family \in ended

\* Where a process is.
PlaceInv(p) ==
  LET pc == proc[p].pc IN
  /\ pc = "idle" => proc[p] = Idle
  /\ pc \in {"issue", "save"} => proc[p].got.pending = None
  /\ pc = "issue" => LoginSession(proc[p].got.session)
  /\ pc = "save" => Unsaved(proc[p].got.refresh)
  /\ pc \in {"read", "stage", "send", "wait"} => store.refresh # None /\ proc[p].token = store.refresh
  /\ pc = "stage" => proc[p].entry = store /\ store.pending = None /\ proc[p].id # None
  /\ pc \in {"send", "wait"} => store.pending # None /\ proc[p].id = store.pending
  /\ pc = "wait" => /\ proc[p].call \in Call /\ InFlight(proc[p].call)
                    /\ call[proc[p].call].token = store.refresh
  /\ pc = "forget" => store.refresh # None /\ Dead(cred[store.refresh].family)

\* The inductive strengthening of NotLockedOut and LogoutLeavesNothing.
ProfileInv ==
  /\ FamilyInv /\ ProfileTypes
  /\ ServerInv /\ StoreInv
  /\ \A p \in Process : PlaceInv(p)

-----------------------------------------------------------------------------
(* What a step of the server leaves of the rows a profile depends on. *)

\* An issued credential: rows keep their names, only an ended family loses a
\* credential, and the cleanup forgets what nobody may replay any more.
RowSettles(c) ==
  LET r == cred'[c] IN
  /\ r.state # "none" /\ r.family = cred[c].family
  /\ r.expires = cred[c].expires /\ r.next = cred[c].next
  /\ Live(c)' => Live(c)
  /\ Live(c) => Live(c)' \/ cred[c].family \in ended'
  /\ \/ r.request = cred[c].request /\ r.until = cred[c].until /\ r.session = cred[c].session
     \/ cred[c].until <= now

\* So for the credentials in C, the sessions of families and the requests.
Settles(C) ==
  /\ \A c \in C : cred[c].state # "none" => RowSettles(c)
  /\ \A s \in Session : Open(s) /\ sess[s].family # None =>
       /\ sess'[s].family = sess[s].family
       /\ Open(s)' \/ sess[s].family \in ended'
  /\ \A q \in Call : InFlight(q)' =>
       InFlight(q) /\ call'[q].token = call[q].token /\ call'[q].request = call[q].request
  /\ ended \subseteq ended' /\ now <= now'

\* Nothing is issued to a family, and no login is taken away.
Quiet ==
  /\ \A c \in Credential : Live(c)' => Live(c)
  /\ \A s \in Session : LoginSession(s) => LoginSession(s)'
  /\ \A s \in Session : Valid(s)' /\ sess'[s].family # None =>
       Valid(s) /\ sess'[s].family = sess[s].family

\* A step that settles the stored credential and its successor keeps what is
\* known of them.
LEMMA StoreSettles ==
  ASSUME ProfileInv, TypeOK', store' = store, NEW C, Settles(C),
         store.refresh # None => {store.refresh, cred[store.refresh].next} \ {None} \subseteq C
  PROVE  StoreInv'
<1>. DEFINE c == store.refresh
            n == cred[c].next
            s == cred[c].session
            until == cred[n].expires - CredentialTtl + RetryTtl
<1>. SUFFICES ASSUME c # None
     PROVE  /\ cred'[c].state # "none"
            /\ \A q \in Call : InFlight(q)' /\ call'[q].token = c =>
                 store.pending # None /\ call'[q].request = store.pending
            /\ cred'[c].next # None =>
                 cred'[c].next # c /\ \A q \in Call : InFlight(q)' => call'[q].token # cred'[c].next
            /\ Live(c)' \/ cred'[c].family \in ended' \/ Consumed(store)'
  BY DEF StoreInv, Unasked
<1>1. /\ c \in Credential /\ c \in C /\ cred[c].state # "none"
      /\ n # None => n \in C
  BY CredentialAssumption DEF ProfileInv, ProfileTypes, Entries, StoreInv
<1>2. RowSettles(c)
  BY <1>1 DEF Settles
<1>3. \A q \in Call : InFlight(q)' /\ call'[q].token = c =>
        store.pending # None /\ call'[q].request = store.pending
  BY DEF Settles, ProfileInv, StoreInv
<1>4. cred'[c].next # None =>
        cred'[c].next # c /\ \A q \in Call : InFlight(q)' => call'[q].token # cred'[c].next
  BY <1>2 DEF RowSettles, Settles, ProfileInv, StoreInv, Unasked
<1>5. Live(c)' \/ cred'[c].family \in ended' \/ Consumed(store)'
  <2>1. CASE Live(c) \/ cred[c].family \in ended
    BY <1>2, <2>1 DEF RowSettles, Settles
  <2>2. CASE Consumed(store) /\ cred[c].family \notin ended'
    <3>1. /\ store.pending # None /\ n \in Credential /\ n \in C /\ cred[n].state # "none"
          /\ \/ /\ cred[c].request = store.pending /\ cred[c].until = until
                /\ Live(n) /\ cred[n].family = cred[c].family
                /\ s \in Session /\ Open(s) /\ sess[s].family = cred[c].family
             \/ until <= now
      BY <1>1, <2>2, CredentialAssumption DEF Consumed
    <3>2. RowSettles(n) /\ cred'[c].next = n /\ cred'[n].expires = cred[n].expires
          /\ cred'[n].state # "none"
      BY <1>2, <3>1 DEF Settles, RowSettles
    <3>3. now <= now' /\ now \in Nat /\ now' \in Nat /\ until \in Int
      <4>1. cred[n].expires \in Nat
        BY <3>1 DEF ProfileInv, FamilyInv, TypeOK, CredentialRows
      <4>. QED BY <4>1, CredentialAssumption DEF Settles, ProfileInv, FamilyInv, TypeOK
    <3>. DEFINE gone == until <= now'
    <3>4. gone => Consumed(store)'
      BY <3>1, <3>2 DEF Consumed
    <3>5. CASE until <= now
      <4>1. gone
        BY <3>3, <3>5
      <4>. QED BY <3>4, <4>1
    <3>6. CASE ~(until <= now)
      <4>1. /\ cred[c].request = store.pending /\ cred[c].until = until
            /\ Live(n) /\ cred[n].family = cred[c].family
            /\ s \in Session /\ Open(s) /\ sess[s].family = cred[c].family
        BY <3>1, <3>6
      <4>2. cred'[c].request = store.pending /\ cred'[c].until = until /\ cred'[c].session = s
        BY <1>2, <3>6, <4>1 DEF RowSettles
      <4>3. cred'[c].family = cred[c].family /\ cred'[n].family = cred[c].family /\ Live(n)'
        BY <1>2, <2>2, <3>2, <4>1 DEF RowSettles
      <4>4. cred[c].family # None
        BY <1>1, CredentialAssumption DEF ProfileInv, FamilyInv, CredentialsRooted
      <4>5. PICK r \in Session : r = s
        BY <4>1
      <4>6. Open(r)' /\ sess'[r].family = cred[c].family
        BY <2>2, <4>1, <4>4, <4>5 DEF Settles
      <4>. QED BY <3>1, <3>2, <4>1, <4>2, <4>3, <4>5, <4>6 DEF Consumed
    <3>. QED BY <3>5, <3>6
  <2>. QED BY <1>2, <2>1, <2>2 DEF ProfileInv, StoreInv, RowSettles
<1>6. cred'[c].state # "none"
  BY <1>2 DEF RowSettles
<1>. QED BY <1>3, <1>4, <1>5, <1>6

\* A step that settles everything and issues nothing keeps what is known of
\* requests.
LEMMA ServerSettles ==
  ASSUME ProfileInv, TypeOK', Settles(Credential), Quiet
  PROVE  ServerInv'
<1>1. ASSUME NEW q \in Call, InFlight(q)' PROVE cred'[call'[q].token].state # "none"
  <2>1. InFlight(q) /\ call'[q].token = call[q].token
    BY <1>1 DEF Settles
  <2>2. call[q].token \in Credential /\ cred[call[q].token].state # "none"
    BY <2>1 DEF ProfileInv, ServerInv, FamilyInv, TypeOK, Calls, CallFields, InFlight
  <2>. QED BY <2>1, <2>2 DEF Settles, RowSettles
<1>2. ASSUME NEW c \in Credential, Live(c)' PROVE cred'[c].next = None
  BY <1>2 DEF Quiet, Settles, RowSettles, Live, ProfileInv, ServerInv
<1>. QED BY <1>1, <1>2 DEF ServerInv

\* Nothing of a dead family comes to life.
LEMMA DeadSettles ==
  ASSUME ProfileInv, Settles(Credential), Quiet, NEW f \in Credential, Dead(f)
  PROVE  Dead(f)'
<1>1. CASE f \in ended
  BY <1>1 DEF Dead, Settles
<1>2. CASE /\ \A c \in Credential : cred[c].family = f => ~Live(c)
           /\ \A s \in Session : sess[s].family = f => ~Valid(s)
  <2>1. ASSUME NEW c \in Credential, cred'[c].family = f, Live(c)' PROVE FALSE
    BY <1>2, <2>1 DEF Quiet, Settles, RowSettles, Live
  <2>2. ASSUME NEW s \in Session, sess'[s].family = f, Valid(s)' PROVE FALSE
    BY <1>2, <2>2, CredentialAssumption DEF Quiet
  <2>. QED BY <2>1, <2>2 DEF Dead
<1>. QED BY <1>1, <1>2 DEF Dead

\* A step that does not concern p leaves p where it was.
LEMMA PlaceSettles ==
  ASSUME ProfileInv, TypeOK', Settles(Credential), Quiet, NEW p \in Process,
         store' = store, proc'[p] = proc[p],
         proc[p].pc = "wait" => InFlight(proc[p].call)'
  PROVE  PlaceInv(p)'
<1>. DEFINE g == proc[p].got.refresh
<1>1. PlaceInv(p)
  BY DEF ProfileInv
<1>2. CASE proc[p].pc = "issue"
  BY <1>1, <1>2 DEF PlaceInv, Quiet, LoginSession
<1>3. CASE proc[p].pc = "save"
  <2>1. Unsaved(g)
    BY <1>1, <1>3 DEF PlaceInv
  <2>2. RowSettles(g) /\ g \in Credential
    BY <2>1 DEF Unsaved, Settles
  <2>3. Unasked(g)'
    BY <2>1 DEF Unsaved, Unasked, Settles
  <2>4. Unsaved(g)'
    BY <2>1, <2>2, <2>3 DEF Unsaved, RowSettles, Settles
  <2>. QED BY <1>1, <1>3, <2>4 DEF PlaceInv
<1>4. CASE proc[p].pc = "forget"
  <2>1. /\ store.refresh \in Credential /\ cred[store.refresh].state # "none"
        /\ Dead(cred[store.refresh].family)
    BY <1>1, <1>4 DEF PlaceInv, ProfileInv, ProfileTypes, Entries, StoreInv
  <2>2. /\ cred[store.refresh].family \in Credential
        /\ cred'[store.refresh].family = cred[store.refresh].family
    BY <2>1 DEF ProfileInv, FamilyInv, CredentialsRooted, Settles, RowSettles
  <2>3. Dead(cred[store.refresh].family)'
    BY <2>1, <2>2, DeadSettles
  <2>. QED BY <1>1, <1>4, <2>3 DEF PlaceInv
<1>5. CASE proc[p].pc = "wait"
  BY <1>1, <1>5 DEF PlaceInv, Settles
<1>6. CASE proc[p].pc \in {"idle", "read", "stage", "send"}
  BY <1>1, <1>6 DEF PlaceInv
<1>. QED BY <1>2, <1>3, <1>4, <1>5, <1>6 DEF ProfileInv, ProfileTypes, Places

-----------------------------------------------------------------------------
(* The steps that issue nothing to a family. *)

\* The calls of a step that starts none.
CallsEnd ==
  \A q \in Call : InFlight(q)' =>
    InFlight(q) /\ call'[q].token = call[q].token /\ call'[q].request = call[q].request

LEMMA CallsSame ==
  ASSUME UNCHANGED call
  PROVE  CallsEnd
BY DEF CallsEnd, InFlight

\* A step that touches no row: only calls end, or the clock moves.
LEMMA RowsSettle ==
  ASSUME ProfileInv, UNCHANGED <<cred, sess, ended>>, now <= now', CallsEnd,
         now \in Nat, now' \in Nat
  PROVE  Settles(Credential) /\ Quiet
<1>1. \A s \in Session : sess[s].expires \in Nat
  BY DEF ProfileInv, FamilyInv, TypeOK, SessionRows
<1>. QED BY <1>1 DEF Settles, CallsEnd, RowSettles, Quiet, LoginSession, Valid, Open, Live

\* A device login that is approved.
LEMMA ApprovalSettles ==
  ASSUME ProfileInv, NEW a \in Human, NEW s \in Session, ApproveDevice(a, s)
  PROVE  Settles(Credential) /\ Quiet /\ LoginSession(s)'
<1>1. UNCHANGED <<cred, ended, now, call>> /\ now \in Nat /\ ~Open(s) /\ ~LoginSession(s)
  BY DEF ApproveDevice, Open, LoginSession, ProfileInv, FamilyInv, TypeOK
<1>2. /\ \A r \in Session \ {s} : sess'[r] = sess[r]
      /\ sess'[s].state = "live" /\ sess'[s].family = None
  BY DEF ApproveDevice, NewSession, ProfileInv, FamilyInv, TypeOK
<1>3. Settles(Credential)
  BY <1>1, <1>2, CallsSame DEF Settles, CallsEnd, RowSettles, Open, Live
<1>. QED BY <1>1, <1>2, <1>3 DEF Quiet, LoginSession, Valid, Open, Live

\* The columns that a revocation leaves alone.
LEMMA RevokedColumns ==
  ASSUME TypeOK, NEW fs, NEW c \in Credential
  PROVE  LET r == Revoked(fs)[c] IN
         /\ r.next = cred[c].next /\ r.request = cred[c].request
         /\ r.until = cred[c].until /\ r.session = cred[c].session
<1>1. CASE cred[c].family \in fs /\ Live(c)
  BY <1>1 DEF Revoked, TypeOK, CredentialRows
<1>2. CASE ~(cred[c].family \in fs /\ Live(c))
  BY <1>2 DEF Revoked
<1>. QED BY <1>1, <1>2

\* A batch that ends the families fs with their sessions.
LEMMA EndingSettles ==
  ASSUME ProfileInv, NEW fs, NEW gone,
         cred' = Revoked(fs), sess' = Deleted(gone), ended' = ended \cup fs,
         UNCHANGED <<now, call>>,
         \A s \in gone : sess[s].family \in fs \cup {None}
  PROVE  Settles(Credential) /\ Quiet
<1>1. TypeOK /\ now \in Nat
  BY DEF ProfileInv, FamilyInv, TypeOK
<1>2. ASSUME NEW c \in Credential, cred[c].state # "none" PROVE RowSettles(c)
  BY <1>1, <1>2, RevokedRows, RevokedColumns DEF RowSettles, Live
<1>3. ASSUME NEW s \in Session
      PROVE  /\ sess'[s].family = sess[s].family /\ sess'[s].expires = sess[s].expires
             /\ Open(s)' <=> Open(s) /\ s \notin gone
             /\ sess[s].state # "none" => sess'[s].state # "none"
  <2>1. sess[s].state # "none" => Deleted(gone)[s].state # "none"
    BY <1>1 DEF Deleted, TypeOK, SessionRows
  <2>. QED BY <1>1, <2>1, DeletedRows DEF Open
<1>4. Settles(Credential)
  BY <1>1, <1>2, <1>3, CallsSame DEF Settles, CallsEnd
<1>5. Quiet
  BY <1>1, <1>3, RevokedRows DEF Quiet, LoginSession, Valid, Live
<1>. QED BY <1>4, <1>5

\* A family that is logged out, and everything of a user.
LEMMA RevocationSettles ==
  ASSUME ProfileInv, \/ \E f \in Credential : RevokeFamily(f)
                     \/ \E a \in Human : RevokeAll(a)
  PROVE  Settles(Credential) /\ Quiet
<1>1. ASSUME NEW f \in Credential, RevokeFamily(f) PROVE Settles(Credential) /\ Quiet
  BY <1>1, EndingSettles DEF RevokeFamily, LinkedTo
<1>2. ASSUME NEW a \in Human, RevokeAll(a) PROVE Settles(Credential) /\ Quiet
  <2>. DEFINE fs == ActiveFamilies(a)
              gone == LinkedTo(fs) \cup (IF fs = {} THEN {} ELSE Unlinked(a))
  <2>1. cred' = Revoked(fs) /\ sess' = Deleted(gone) /\ ended' = ended \cup fs
        /\ UNCHANGED <<now, call>>
    BY <1>2 DEF RevokeAll
  <2>2. \A s \in gone : sess[s].family \in fs \cup {None}
    BY DEF LinkedTo, Unlinked
  <2>. HIDE DEF fs, gone
  <2>. QED BY <2>1, <2>2, EndingSettles
<1>. QED BY <1>1, <1>2

\* The cron.
LEMMA CleanupSettles ==
  ASSUME ProfileInv, Cleanup
  PROVE  Settles(Credential) /\ Quiet
<1>0. TypeOK
  BY DEF ProfileInv, FamilyInv
<1>1. now \in Nat /\ UNCHANGED <<sess, call, now, ended>>
  <2>1. UNCHANGED <<sess, call, now, ended>>
    BY Zenon DEF Cleanup
  <2>. QED BY <1>0, <2>1 DEF TypeOK
<1>2. ASSUME NEW c \in Credential
      PROVE  /\ Live(c)' = Live(c) /\ cred'[c].state = cred[c].state
             /\ cred[c].state # "none" => RowSettles(c)
  <2>1. cred[c] \in CredentialRows
    BY <1>0 DEF TypeOK
  <2>2. CASE cred'[c] = cred[c]
    BY <2>2 DEF RowSettles, Live
  <2>3. CASE /\ cred[c].state = "revoked" /\ cred[c].until <= now
             /\ cred'[c] = [cred[c] EXCEPT !.request = None, !.until = 0, !.session = None]
    BY <2>1, <2>3 DEF RowSettles, Live, CredentialRows
  <2>4. cred'[c] = IF cred[c].state = "revoked" /\ cred[c].request # None /\ cred[c].until <= now
                   THEN [cred[c] EXCEPT !.request = None, !.until = 0, !.session = None]
                   ELSE cred[c]
    BY Zenon DEF Cleanup
  <2>. QED BY <2>2, <2>3, <2>4
<1>3. Settles(Credential)
  BY <1>1, <1>2, CallsSame DEF Settles, CallsEnd, Open
<1>. QED BY <1>1, <1>2, <1>3 DEF Quiet, LoginSession, Valid, Open

-----------------------------------------------------------------------------
(* The steps that issue something. *)

\* Every call in flight has a token that is a row.
LEMMA TokensIssued ==
  ASSUME ProfileInv, NEW q \in Call, InFlight(q)
  PROVE  call[q].token \in Credential /\ cred[call[q].token].state # "none"
BY DEF ProfileInv, ServerInv, FamilyInv, TypeOK, Calls, CallFields, InFlight

\* What a rotation writes.
LEMMA RotatedRows ==
  ASSUME ProfileInv, NEW q \in Call, NEW n \in Credential, NEW s \in Session,
         Rotate(q, n, s)
  PROVE  LET c == call[q].token IN
         /\ InFlight(q) /\ Live(c) /\ cred[n].state = "none" /\ sess[s].state = "none" /\ n # c
         /\ UNCHANGED <<now, ended>> /\ now \in Nat
         /\ \A e \in Credential \ {c, n} : cred'[e] = cred[e]
         /\ cred'[c].state = "revoked" /\ cred'[c].family = cred[c].family
         /\ cred'[c].next = n /\ cred'[c].session = s /\ cred'[c].request = call[q].request
         /\ cred'[n].state = "live" /\ cred'[n].family = cred[c].family /\ cred'[n].next = None
         /\ cred'[c].until = cred'[n].expires - CredentialTtl + RetryTtl
         /\ \A r \in Session \ {s} : sess'[r] = sess[r]
         /\ sess'[s].state = "live" /\ sess'[s].family = cred[c].family
         /\ CallsEnd /\ \A r \in Call : InFlight(r) => InFlight(r)'
<1>. DEFINE c == call[q].token
            t == call[q].began
<1>0. c \in Credential
  BY TokensIssued DEF Rotate, InFlight
<1>1. /\ TypeOK /\ call[q] \in Calls /\ cred[c] \in CredentialRows /\ t \in Nat /\ now \in Nat
      /\ cred \in [Credential -> CredentialRows]
  BY <1>0 DEF ProfileInv, FamilyInv, TypeOK, Calls, CallFields
<1>2. InFlight(q) /\ Live(c) /\ cred[n].state = "none" /\ sess[s].state = "none" /\ n # c
      /\ UNCHANGED <<now, ended>>
  BY DEF Rotate, MayRotate, InFlight, Live
<1>3. /\ sess' = [sess EXCEPT ![s] = NewSession(cred[c].owner, cred[c].family, FALSE, t)]
      /\ call' = [call EXCEPT ![q].phase = "replay"]
  BY DEF Rotate
<1>. HIDE DEF c
<1>4. /\ \A e \in Credential \ {c, n} : cred'[e] = cred[e]
      /\ cred'[c] = [cred[c] EXCEPT !.state = "revoked", !.next = n, !.session = s,
                                    !.request = call[q].request, !.until = RetryUntil(t)]
  BY <1>0, <1>2, <1>1 DEF Rotate, c, TypeOK
<1>5. cred'[n] = NewCredential(cred[c].owner, cred[c].family, cred[c].device, t)
  BY <1>0, <1>2, <1>1 DEF Rotate, c, TypeOK
<1>. HIDE DEF t
<1>6. /\ cred'[c].state = "revoked" /\ cred'[c].family = cred[c].family
      /\ cred'[c].next = n /\ cred'[c].session = s /\ cred'[c].request = call[q].request
      /\ cred'[c].until = RetryUntil(t)
  BY <1>1, <1>4 DEF CredentialRows
<1>7. /\ cred'[n].state = "live" /\ cred'[n].family = cred[c].family /\ cred'[n].next = None
      /\ cred'[n].expires = t + CredentialTtl
  BY <1>5 DEF NewCredential, NoCredential
<1>8. cred'[c].until = cred'[n].expires - CredentialTtl + RetryTtl
  BY <1>1, <1>6, <1>7, CredentialAssumption DEF RetryUntil
<1>9. /\ \A r \in Session \ {s} : sess'[r] = sess[r]
      /\ sess'[s].state = "live" /\ sess'[s].family = cred[c].family
  BY <1>1, <1>3 DEF NewSession, TypeOK
<1>10. CallsEnd /\ \A r \in Call : InFlight(r) => InFlight(r)'
  BY <1>1, <1>2, <1>3 DEF CallsEnd, InFlight, TypeOK, Calls, CallFields
<1>. QED BY <1>1, <1>2, <1>4, <1>6, <1>7, <1>8, <1>9, <1>10 DEF c

\* A rotation that the server carries out, whoever waits for it.
LEMMA RotateKeeps ==
  ASSUME ProfileInv, TypeOK', NEW q \in Call, NEW n \in Credential, NEW s \in Session,
         Rotate(q, n, s), UNCHANGED client
  PROVE  ServerInv' /\ StoreInv' /\ \A p \in Process : PlaceInv(p)'
<1>1. UNCHANGED <<store, proc>>
  BY DEF client
<1>2. PICK c \in Credential : c = call[q].token /\ cred[c].state # "none"
  BY TokensIssued DEF Rotate, InFlight
<1>3. /\ InFlight(q) /\ Live(c) /\ cred[n].state = "none" /\ sess[s].state = "none" /\ n # c
      /\ UNCHANGED <<now, ended>> /\ now \in Nat
      /\ \A e \in Credential \ {c, n} : cred'[e] = cred[e]
      /\ cred'[c].state = "revoked" /\ cred'[c].family = cred[c].family
      /\ cred'[c].next = n /\ cred'[c].session = s /\ cred'[c].request = call[q].request
      /\ cred'[n].state = "live" /\ cred'[n].family = cred[c].family /\ cred'[n].next = None
      /\ cred'[c].until = cred'[n].expires - CredentialTtl + RetryTtl
      /\ \A r \in Session \ {s} : sess'[r] = sess[r]
      /\ sess'[s].state = "live" /\ sess'[s].family = cred[c].family
      /\ CallsEnd /\ \A r \in Call : InFlight(r) => InFlight(r)'
  BY <1>2, RotatedRows
<1>4. \A r \in Call : InFlight(r)' => /\ call'[r].token \in Credential \ {n}
                                      /\ cred[call'[r].token].state # "none"
  BY <1>3, TokensIssued DEF CallsEnd
<1>5. ServerInv'
  <2>1. \A r \in Call : InFlight(r)' => cred'[call'[r].token].state # "none"
    BY <1>3, <1>4
  <2>2. \A e \in Credential : Live(e)' => cred'[e].next = None
    BY <1>3 DEF Live, ProfileInv, ServerInv
  <2>. QED BY <2>1, <2>2 DEF ServerInv
<1>6. Settles(Credential \ {c})
  BY <1>3 DEF Settles, CallsEnd, RowSettles, Open, Live
<1>7. StoreInv'
  <2>1. CASE store.refresh # c
    <3>1. cred[store.refresh].next # c \/ store.refresh = None
      BY <1>2, <1>3, CredentialAssumption DEF ProfileInv, StoreInv, Unasked
    <3>2. store.refresh # None =>
            {store.refresh, cred[store.refresh].next} \ {None} \subseteq Credential \ {c}
      BY <2>1, <3>1 DEF ProfileInv, ProfileTypes, Entries, FamilyInv, TypeOK, CredentialRows
    <3>. QED BY <1>1, <1>6, <3>2, StoreSettles
  <2>2. CASE store.refresh = c
    <3>1. store.pending # None /\ call[q].request = store.pending
      BY <1>2, <1>3, <2>2, CredentialAssumption DEF ProfileInv, StoreInv
    <3>2. Consumed(store)'
      BY <1>1, <1>3, <2>2, <3>1 DEF Consumed, Live, Open
    <3>3. \A r \in Call : InFlight(r)' /\ call'[r].token = c =>
            store.pending # None /\ call'[r].request = store.pending
      BY <1>3, <2>2, CredentialAssumption DEF CallsEnd, ProfileInv, StoreInv
    <3>. QED BY <1>1, <1>3, <1>4, <2>2, <3>2, <3>3 DEF StoreInv, Unasked
  <2>. QED BY <2>1, <2>2
<1>8. ASSUME NEW p \in Process PROVE PlaceInv(p)'
  <2>1. PlaceInv(p) /\ proc[p] \in Places
    BY DEF ProfileInv, ProfileTypes
  <2>2. CASE proc[p].pc = "issue"
    BY <1>1, <1>3, <2>1, <2>2 DEF PlaceInv, LoginSession
  <2>3. CASE proc[p].pc = "save"
    <3>. DEFINE g == proc[p].got.refresh
    <3>1. Unsaved(g)
      BY <2>1, <2>3 DEF PlaceInv
    <3>2. g \in Credential \ {c, n}
      BY <1>2, <1>3, <3>1 DEF Unsaved, Unasked
    <3>3. Unasked(g)'
      BY <1>1, <1>3, <3>1 DEF Unsaved, Unasked, CallsEnd
    <3>4. Unsaved(g)'
      BY <1>1, <1>3, <3>1, <3>2, <3>3 DEF Unsaved, Live
    <3>. QED BY <1>1, <2>1, <2>3, <3>4 DEF PlaceInv
  <2>4. CASE proc[p].pc = "wait"
    BY <1>1, <1>3, <2>1, <2>4 DEF PlaceInv, CallsEnd
  <2>5. CASE proc[p].pc = "forget"
    <3>. DEFINE f == cred[store.refresh].family
    <3>1. /\ store.refresh \in Credential /\ store.refresh # n /\ f \in Credential /\ Dead(f)
          /\ cred'[store.refresh].family = f
      BY <1>1, <1>3, <2>1, <2>5
         DEF PlaceInv, ProfileInv, ProfileTypes, Entries, StoreInv, FamilyInv, CredentialsRooted
    <3>. HIDE DEF f
    <3>2. Dead(f) => f \in ended' \/ /\ \A e \in Credential : cred'[e].family = f => ~Live(e)'
                                     /\ \A r \in Session : sess'[r].family = f => ~Valid(r)'
      BY <1>3 DEF Dead, Live, Valid, Open
    <3>3. Dead(cred[store.refresh].family)'
      BY <1>1, <3>1, <3>2 DEF Dead
    <3>. QED BY <1>1, <2>1, <2>5, <3>3 DEF PlaceInv
  <2>6. CASE proc[p].pc \in {"idle", "read", "stage", "send"}
    BY <1>1, <2>1, <2>6 DEF PlaceInv
  <2>. QED BY <2>1, <2>2, <2>3, <2>4, <2>5, <2>6 DEF Places
<1>. QED BY <1>5, <1>7, <1>8

\* What the batch of a login writes, for a session that no family owns yet.
LEMMA IssueSettles ==
  ASSUME ProfileInv, NEW s \in Session, NEW d \in Device, NEW c \in Credential,
         LoginSession(s), Issue(s, d, c)
  PROVE  /\ Settles(Credential) /\ CallsEnd
         /\ cred[c].state = "none"
         /\ Live(c)' /\ cred'[c].state # "none" /\ cred'[c].next = None
         /\ \A e \in Credential \ {c} : Live(e)' => Live(e)
<1>. DEFINE a == sess[s].owner
            prior == PriorDeviceFamilies(a, d)
            gone == LinkedTo(prior) \ {s}
<1>0. TypeOK /\ now \in Nat /\ SourceFamily(s) = {} /\ prior \cup SourceFamily(s) = prior
  BY DEF ProfileInv, FamilyInv, TypeOK, LoginSession, SourceFamily
<1>1. /\ cred[c].state = "none" /\ UNCHANGED <<now, call>>
      /\ cred' = [Revoked(prior) EXCEPT ![c] = NewCredential(a, c, d, now)]
      /\ sess' = [Deleted(gone) EXCEPT ![s].family = c]
      /\ ended' = ended \cup prior
  BY <1>0 DEF Issue
<1>2. \A r \in gone : sess[r].family \in prior
  BY DEF LinkedTo
<1>. HIDE DEF a, prior, gone
<1>3. /\ \A e \in Credential \ {c} : cred'[e] = Revoked(prior)[e]
      /\ cred'[c] = NewCredential(a, c, d, now)
      /\ \A r \in Session \ {s} : sess'[r] = Deleted(gone)[r]
  BY <1>0, <1>1, EndingRows
<1>4. ASSUME NEW e \in Credential \ {c}
      PROVE  /\ Live(e)' => Live(e)
             /\ cred[e].state # "none" => RowSettles(e)
  BY <1>0, <1>1, <1>3, RevokedRows, RevokedColumns DEF RowSettles, Live
<1>5. ASSUME NEW r \in Session, Open(r), sess[r].family # None
      PROVE  sess'[r].family = sess[r].family /\ (Open(r)' \/ sess[r].family \in ended')
  <2>1. r # s
    BY <1>5 DEF LoginSession
  <2>. QED BY <1>0, <1>1, <1>2, <1>3, <1>5, <2>1, DeletedRows DEF Open
<1>6. Live(c)' /\ cred'[c].state # "none" /\ cred'[c].next = None
  BY <1>3 DEF NewCredential, NoCredential, Live
<1>7. CallsEnd
  BY <1>1, CallsSame
<1>8. Settles(Credential)
  BY <1>0, <1>1, <1>4, <1>5, <1>7 DEF Settles, CallsEnd
<1>. QED BY <1>1, <1>4, <1>6, <1>7, <1>8

\* The credential of a login is the server's and nobody's yet.
LEMMA IssueKeeps ==
  ASSUME ProfileInv, TypeOK', NEW s \in Session, NEW d \in Device, NEW c \in Credential,
         LoginSession(s), Issue(s, d, c), store' = store
  PROVE  ServerInv' /\ StoreInv' /\ Unsaved(c)'
<1>1. /\ Settles(Credential) /\ CallsEnd
      /\ cred[c].state = "none"
      /\ Live(c)' /\ cred'[c].state # "none" /\ cred'[c].next = None
      /\ \A e \in Credential \ {c} : Live(e)' => Live(e)
  BY IssueSettles
<1>2. \A q \in Call : InFlight(q)' => /\ call'[q].token \in Credential \ {c}
                                      /\ cred[call'[q].token].state # "none"
  BY <1>1, TokensIssued DEF CallsEnd
<1>3. \A q \in Call : InFlight(q)' => cred'[call'[q].token].state # "none"
  BY <1>1, <1>2 DEF Settles, RowSettles
<1>4. ASSUME NEW e \in Credential, Live(e)' PROVE cred'[e].next = None
  BY <1>1, <1>4 DEF Settles, RowSettles, Live, ProfileInv, ServerInv
<1>5. StoreInv'
  <2>1. store.refresh # None =>
          {store.refresh, cred[store.refresh].next} \ {None} \subseteq Credential
    BY DEF ProfileInv, ProfileTypes, Entries, FamilyInv, TypeOK, CredentialRows
  <2>. QED BY <1>1, <2>1, StoreSettles
<1>6. Unsaved(c)'
  BY <1>1, <1>2 DEF Unsaved, Unasked
<1>. QED BY <1>3, <1>4, <1>5, <1>6 DEF ServerInv

\* The request of a refresh carries what the store holds.
LEMMA SendKeeps ==
  ASSUME ProfileInv, NEW q \in Call, RefreshRead(q, store.refresh, store.pending),
         store.refresh # None, store.pending # None, store' = store
  PROVE  ServerInv' /\ StoreInv' /\ InFlight(q)' /\ call'[q].token = store.refresh
<1>1. UNCHANGED <<cred, sess, ended, now>>
  BY DEF RefreshRead
<1>2. /\ \A r \in Call \ {q} : call'[r] = call[r]
      /\ InFlight(q)' /\ call'[q].token = store.refresh /\ call'[q].request = store.pending
      /\ cred[store.refresh].state # "none"
  BY DEF RefreshRead, InFlight, ProfileInv, FamilyInv, TypeOK
<1>3. ServerInv'
  BY <1>1, <1>2 DEF ProfileInv, ServerInv, InFlight, Live
<1>4. StoreInv'
  BY <1>1, <1>2 DEF ProfileInv, StoreInv, Unasked, InFlight, Live, Open, Consumed
<1>. QED BY <1>2, <1>3, <1>4

-----------------------------------------------------------------------------
(* The steps of the process. *)

OneProcess == \A p, r \in Process : p = r

\* A step of the profile keeps what is known of it.
ProfileKept == ProfileTypes' /\ ServerInv' /\ StoreInv' /\ \A p \in Process : PlaceInv(p)'

\* A step in which p goes to w.
LEMMA GoesTo ==
  ASSUME ProfileInv, OneProcess, NEW p \in Process, NEW w \in Places, store' \in Entries,
         proc' = [proc EXCEPT ![p] = w], ServerInv', StoreInv', proc'[p] = w => PlaceInv(p)'
  PROVE  ProfileKept
<1>1. proc' \in [Process -> Places] /\ proc'[p] = w
  BY DEF ProfileInv, ProfileTypes
<1>2. \A r \in Process : PlaceInv(r)'
  BY <1>1 DEF OneProcess
<1>. QED BY <1>1, <1>2 DEF ProfileKept, ProfileTypes

LEMMA IdleTyped == NoEntry \in Entries /\ Idle \in Places
BY DEF NoEntry, Idle, Entries, Places

\* A step of the client alone.
LEMMA ServerStill ==
  ASSUME ProfileInv, UNCHANGED vars
  PROVE  ServerInv' /\ (store' = store => StoreInv')
BY DEF vars, server, ProfileInv, ServerInv, StoreInv, InFlight, Live, Unasked, Consumed, Open

\* What p holds, in its types.
LEMMA PlaceTypes ==
  ASSUME ProfileInv, NEW p \in Process
  PROVE  /\ store \in Entries /\ PlaceInv(p) /\ proc[p] \in Places
         /\ proc[p].entry \in Entries /\ proc[p].got \in Entries
         /\ proc[p].token \in Credential \cup {None} /\ proc[p].id \in Rotation \cup {None}
         /\ proc[p].call \in Call \cup {None}
BY DEF ProfileInv, ProfileTypes, Places

LEMMA LoginApprovedKeeps ==
  ASSUME ProfileInv, TypeOK', OneProcess, NEW p \in Process, NEW s \in Session, LoginApproved(p, s)
  PROVE  ProfileKept
<1>. DEFINE g == [proc[p].got EXCEPT !.session = s]
            w == [proc[p] EXCEPT !.pc = "issue", !.got = g]
<1>1. PICK a \in Human : ApproveDevice(a, s)
  BY DEF LoginApproved
<1>2. proc[p].pc = "idle" /\ store' = store /\ proc' = [proc EXCEPT ![p] = w]
  BY DEF LoginApproved
<1>3. proc[p] = Idle /\ proc[p] \in Places /\ store \in Entries
  BY <1>2, PlaceTypes DEF PlaceInv
<1>4. /\ w \in Places /\ w.pc = "issue" /\ w.got.session = s /\ w.got.pending = None
  <2>1. g \in Entries /\ g.session = s /\ g.pending = None
    BY <1>3, IdleTyped DEF Idle, NoEntry, Entries
  <2>. HIDE DEF g
  <2>. QED BY <1>3, <2>1 DEF Places
<1>5. Settles(Credential) /\ Quiet /\ LoginSession(s)'
  BY <1>1, ApprovalSettles
<1>6. ServerInv' /\ StoreInv'
  <2>1. store.refresh # None =>
          {store.refresh, cred[store.refresh].next} \ {None} \subseteq Credential
    BY DEF ProfileInv, ProfileTypes, Entries, FamilyInv, TypeOK, CredentialRows
  <2>. QED BY <1>2, <1>5, <2>1, ServerSettles, StoreSettles
<1>. HIDE DEF w
<1>7. proc'[p] = w => PlaceInv(p)'
  BY <1>4, <1>5 DEF PlaceInv, LoginSession
<1>. QED BY <1>2, <1>3, <1>4, <1>6, <1>7, GoesTo

LEMMA LoginIssueKeeps ==
  ASSUME ProfileInv, TypeOK', OneProcess, NEW p \in Process, NEW d \in Device, NEW c \in Credential,
         LoginIssue(p, d, c)
  PROVE  ProfileKept
<1>. DEFINE g == [proc[p].got EXCEPT !.refresh = c, !.device = d]
            w == [proc[p] EXCEPT !.pc = "save", !.got = g]
<1>1. proc[p].pc = "issue" /\ Issue(proc[p].got.session, d, c) /\ store' = store
      /\ proc' = [proc EXCEPT ![p] = w]
  BY DEF LoginIssue
<1>2. proc[p] \in Places /\ proc[p].got \in Entries /\ store \in Entries /\ PlaceInv(p)
  BY PlaceTypes
<1>3. proc[p].got.pending = None /\ LoginSession(proc[p].got.session)
      /\ proc[p].got.session \in Session
  BY <1>1, <1>2 DEF PlaceInv, LoginSession
<1>4. w \in Places /\ w.pc = "save" /\ w.got.refresh = c /\ w.got.pending = None
  <2>1. g \in Entries /\ g.refresh = c /\ g.pending = None
    BY <1>2, <1>3 DEF Entries
  <2>. HIDE DEF g
  <2>. QED BY <1>2, <2>1 DEF Places
<1>5. ServerInv' /\ StoreInv' /\ Unsaved(c)'
  BY <1>1, <1>3, IssueKeeps
<1>. HIDE DEF w
<1>6. proc'[p] = w => PlaceInv(p)'
  BY <1>4, <1>5 DEF PlaceInv, Unsaved
<1>. QED BY <1>1, <1>2, <1>4, <1>5, <1>6, GoesTo

LEMMA SaveKeeps ==
  ASSUME ProfileInv, OneProcess, NEW p \in Process, Save(p)
  PROVE  ProfileKept
<1>. DEFINE g == proc[p].got.refresh
<1>1. proc[p].pc = "save" /\ store' = proc[p].got /\ proc' = [proc EXCEPT ![p] = Idle]
      /\ UNCHANGED vars
  BY DEF Save
<1>2. proc[p].got \in Entries /\ proc[p].got.pending = None /\ Unsaved(g)
  BY <1>1, PlaceTypes DEF PlaceInv
<1>3. StoreInv'
  BY <1>1, <1>2 DEF StoreInv, Unsaved, Unasked, vars, server, InFlight, Live
<1>4. proc'[p] = Idle => PlaceInv(p)'
  BY DEF PlaceInv, Idle
<1>. QED BY <1>1, <1>2, <1>3, <1>4, IdleTyped, ServerStill, GoesTo

LEMMA RefusedKeeps ==
  ASSUME ProfileInv, OneProcess, NEW p \in Process, Refused(p)
  PROVE  ProfileKept
<1>. DEFINE w == [proc[p] EXCEPT !.pc = "read", !.token = store.refresh]
<1>1. store.refresh # None /\ store' = store /\ UNCHANGED vars /\ proc' = [proc EXCEPT ![p] = w]
  BY DEF Refused
<1>2. store \in Entries /\ proc[p] \in Places
  BY PlaceTypes
<1>3. w \in Places /\ w.pc = "read" /\ w.token = store.refresh
  BY <1>2 DEF Places, Entries
<1>. HIDE DEF w
<1>4. proc'[p] = w => PlaceInv(p)'
  BY <1>1, <1>3 DEF PlaceInv
<1>. QED BY <1>1, <1>2, <1>3, <1>4, ServerStill, GoesTo

LEMMA ReadStoredKeeps ==
  ASSUME ProfileInv, OneProcess, NEW p \in Process, ReadStored(p)
  PROVE  ProfileKept
<1>1. proc[p].pc = "read" /\ store' = store /\ UNCHANGED vars
  BY DEF ReadStored
<1>2. store \in Entries /\ proc[p] \in Places /\ store.refresh # None /\ proc[p].token = store.refresh
  BY <1>1, PlaceTypes DEF PlaceInv
<1>3. CASE store.pending # None
  <2>. DEFINE w == [proc[p] EXCEPT !.pc = "send", !.entry = store, !.id = store.pending]
  <2>1. proc' = [proc EXCEPT ![p] = w]
    BY <1>3 DEF ReadStored
  <2>2. w \in Places /\ w.pc = "send" /\ w.id = store.pending /\ w.token = store.refresh
    BY <1>2 DEF Places, Entries
  <2>. HIDE DEF w
  <2>3. proc'[p] = w => PlaceInv(p)'
    BY <1>1, <1>2, <1>3, <2>2 DEF PlaceInv
  <2>. QED BY <1>1, <1>2, <2>1, <2>2, <2>3, ServerStill, GoesTo
<1>4. CASE store.pending = None
  <2>1. PICK r \in Rotation :
          proc' = [proc EXCEPT ![p].pc = "stage", ![p].entry = store, ![p].id = r]
    BY <1>4 DEF ReadStored, NewRotations, Fresh
  <2>. DEFINE w == [proc[p] EXCEPT !.pc = "stage", !.entry = store, !.id = r]
  <2>2. proc' = [proc EXCEPT ![p] = w]
    BY <2>1
  <2>3. w \in Places /\ w.pc = "stage" /\ w.id = r /\ w.entry = store /\ w.token = store.refresh
    BY <1>2 DEF Places, Entries
  <2>4. r # None
    BY CredentialAssumption
  <2>. HIDE DEF w
  <2>5. proc'[p] = w => PlaceInv(p)'
    BY <1>1, <1>2, <1>4, <2>3, <2>4 DEF PlaceInv
  <2>. QED BY <1>1, <1>2, <2>2, <2>3, <2>5, ServerStill, GoesTo
<1>. QED BY <1>3, <1>4

LEMMA StageKeeps ==
  ASSUME ProfileInv, OneProcess, NEW p \in Process, Stage(p)
  PROVE  ProfileKept
<1>. DEFINE w == [proc[p] EXCEPT !.pc = "send"]
<1>1. proc[p].pc = "stage" /\ store' = [proc[p].entry EXCEPT !.pending = proc[p].id]
      /\ UNCHANGED vars /\ proc' = [proc EXCEPT ![p] = w]
  BY DEF Stage, Staged
<1>2. /\ store \in Entries /\ proc[p] \in Places /\ proc[p].id \in Rotation
      /\ store.refresh # None /\ proc[p].token = store.refresh
      /\ proc[p].entry = store /\ store.pending = None
  BY <1>1, PlaceTypes DEF PlaceInv
<1>3. /\ store' \in Entries /\ store'.refresh = store.refresh /\ store'.pending = proc[p].id
      /\ proc[p].id # None
  BY <1>1, <1>2, CredentialAssumption DEF Entries
<1>4. w \in Places /\ w.pc = "send" /\ w.id = proc[p].id /\ w.token = proc[p].token
  BY <1>2 DEF Places
<1>5. StoreInv'
  <2>1. \A q \in Call : ~(InFlight(q) /\ call[q].token = store.refresh)
    BY <1>2 DEF ProfileInv, StoreInv
  <2>2. Live(store.refresh) \/ cred[store.refresh].family \in ended
    BY <1>2 DEF ProfileInv, StoreInv, Consumed
  <2>. QED BY <1>1, <1>2, <1>3, <2>1, <2>2
           DEF ProfileInv, StoreInv, vars, server, InFlight, Unasked, Live
<1>. HIDE DEF w
<1>6. proc'[p] = w => PlaceInv(p)'
  BY <1>2, <1>3, <1>4 DEF PlaceInv
<1>. QED BY <1>1, <1>3, <1>4, <1>5, <1>6, ServerStill, GoesTo

LEMMA SendingKeeps ==
  ASSUME ProfileInv, OneProcess, NEW p \in Process, NEW q \in Call, Send(p, q)
  PROVE  ProfileKept
<1>. DEFINE w == [proc[p] EXCEPT !.pc = "wait", !.call = q]
<1>1. proc[p].pc = "send" /\ RefreshRead(q, proc[p].token, proc[p].id) /\ store' = store
      /\ proc' = [proc EXCEPT ![p] = w]
  BY DEF Send
<1>2. /\ store \in Entries /\ proc[p] \in Places
      /\ store.refresh # None /\ proc[p].token = store.refresh
      /\ store.pending # None /\ proc[p].id = store.pending
  BY <1>1, PlaceTypes DEF PlaceInv
<1>3. ServerInv' /\ StoreInv' /\ InFlight(q)' /\ call'[q].token = store.refresh
  BY <1>1, <1>2, SendKeeps
<1>4. w \in Places /\ w.pc = "wait" /\ w.id = proc[p].id /\ w.token = proc[p].token /\ w.call = q
  BY <1>2 DEF Places
<1>. HIDE DEF w
<1>5. proc'[p] = w => PlaceInv(p)'
  BY <1>1, <1>2, <1>3, <1>4 DEF PlaceInv
<1>. QED BY <1>1, <1>2, <1>3, <1>4, <1>5, GoesTo

\* A call that ends leaves what is known of the rest.
LEMMA ReplaySettles ==
  ASSUME ProfileInv, TypeOK', NEW q \in Call, ReplayRead(q), store' = store
  PROVE  /\ Settles(Credential) /\ Quiet /\ ServerInv' /\ StoreInv'
         /\ \A r \in Call \ {q} : InFlight(r) => InFlight(r)'
<1>1. /\ UNCHANGED <<cred, sess, ended, now>> /\ now \in Nat
      /\ \A r \in Call \ {q} : call'[r] = call[r]
      /\ call'[q] = NoCall
  BY DEF ReplayRead, ProfileInv, FamilyInv, TypeOK
<1>2. CallsEnd
  BY <1>1 DEF CallsEnd, InFlight, NoCall
<1>3. Settles(Credential) /\ Quiet
  BY <1>1, <1>2, RowsSettle
<1>4. store.refresh # None =>
        {store.refresh, cred[store.refresh].next} \ {None} \subseteq Credential
  BY DEF ProfileInv, ProfileTypes, Entries, FamilyInv, TypeOK, CredentialRows
<1>. QED BY <1>1, <1>3, <1>4, ServerSettles, StoreSettles DEF InFlight

LEMMA ReceiveKeeps ==
  ASSUME ProfileInv, TypeOK', OneProcess, NEW p \in Process, NEW q \in Call, Receive(p, q)
  PROVE  ProfileKept
<1>1. proc[p].pc = "wait" /\ proc[p].call = q /\ ReplayRead(q) /\ store' = store
  BY DEF Receive
<1>2. /\ store \in Entries /\ proc[p] \in Places /\ proc[p].entry \in Entries
      /\ store.refresh # None /\ call[q].token = store.refresh /\ store.refresh \in Credential
  BY <1>1, PlaceTypes DEF PlaceInv, Entries
<1>3. ServerInv' /\ StoreInv' /\ Settles(Credential)
  BY <1>1, ReplaySettles
<1>4. CASE Answer(q) = None
  <2>1. proc' = [proc EXCEPT ![p] = Idle]
    BY <1>4 DEF Receive
  <2>2. proc'[p] = Idle => PlaceInv(p)'
    BY DEF PlaceInv, Idle
  <2>. QED BY <1>1, <1>2, <1>3, <2>1, <2>2, IdleTyped, GoesTo
<1>5. CASE Answer(q) # None
  <2>1. /\ Answer(q) = cred[store.refresh].next /\ Live(Answer(q))
        /\ cred[store.refresh] \in CredentialRows
    BY <1>2, <1>5 DEF Answer, Replayable, ProfileInv, FamilyInv, TypeOK
  <2>2. PICK n \in Credential : n = Answer(q) /\ Live(n) /\ cred[n].next = None /\ Unasked(n)
    BY <1>2, <1>5, <2>1 DEF ProfileInv, ServerInv, StoreInv, CredentialRows
  <2>. DEFINE g == [session |-> cred[store.refresh].session, refresh |-> n, pending |-> None,
                    device |-> proc[p].entry.device]
              w == [proc[p] EXCEPT !.pc = "save", !.call = None, !.got = g]
  <2>3. proc' = [proc EXCEPT ![p] = w]
    BY <1>2, <1>5, <2>2 DEF Receive
  <2>4. g \in Entries /\ g.refresh = n /\ g.pending = None
    BY <1>2, <2>1 DEF Entries, CredentialRows
  <2>. HIDE DEF g
  <2>5. w \in Places /\ w.pc = "save" /\ w.got = g
    BY <1>2, <2>4 DEF Places
  <2>6. Unsaved(n)'
    BY <1>3, <2>2 DEF Settles, RowSettles, Live, Unsaved, Unasked
  <2>. HIDE DEF w
  <2>7. proc'[p] = w => PlaceInv(p)'
    BY <2>4, <2>5, <2>6 DEF PlaceInv
  <2>. QED BY <1>1, <1>2, <1>3, <2>3, <2>5, <2>7, GoesTo
<1>. QED BY <1>4, <1>5

LEMMA LogoutRevokeKeeps ==
  ASSUME ProfileInv, FamilyInv', OneProcess, NEW p \in Process, LogoutRevoke(p)
  PROVE  ProfileKept
<1>. DEFINE f == cred[store.refresh].family
            w == [proc[p] EXCEPT !.pc = "forget"]
<1>1. /\ store.refresh # None /\ store' = store /\ proc' = [proc EXCEPT ![p] = w]
      /\ IF Revocable(f) THEN RevokeFamily(f) ELSE UNCHANGED vars
  BY DEF LogoutRevoke
<1>2. /\ store \in Entries /\ proc[p] \in Places /\ store.refresh \in Credential
      /\ cred[store.refresh].state # "none" /\ f \in Credential
  BY <1>1, PlaceTypes
     DEF Entries, ProfileInv, StoreInv, FamilyInv, CredentialsRooted
<1>3. w \in Places /\ w.pc = "forget"
  BY <1>2 DEF Places
<1>4. ServerInv' /\ StoreInv' /\ Dead(f)'
  <2>1. CASE Revocable(f)
    <3>1. Settles(Credential) /\ Quiet
      BY <1>1, <1>2, <2>1, RevocationSettles
    <3>2. store.refresh # None =>
            {store.refresh, cred[store.refresh].next} \ {None} \subseteq Credential
      BY DEF ProfileInv, ProfileTypes, Entries, FamilyInv, TypeOK, CredentialRows
    <3>3. cred'[store.refresh].family = f /\ f \in ended'
      BY <1>1, <1>2, <2>1, <3>1 DEF Settles, RowSettles, RevokeFamily
    <3>4. ServerInv' /\ StoreInv'
      BY <1>1, <3>1, <3>2, ServerSettles, StoreSettles DEF FamilyInv
    <3>. QED BY <1>1, <3>3, <3>4 DEF Dead
  <2>2. CASE ~Revocable(f)
    <3>1. Dead(f) /\ UNCHANGED vars
      BY <1>1, <2>2 DEF Dead, Revocable
    <3>. QED BY <1>1, <3>1, ServerStill DEF Dead, vars, server, Live, Valid, Open
  <2>. QED BY <2>1, <2>2
<1>. HIDE DEF w
<1>5. proc'[p] = w => PlaceInv(p)'
  BY <1>1, <1>3, <1>4 DEF PlaceInv
<1>. QED BY <1>1, <1>2, <1>3, <1>4, <1>5, GoesTo

\* A process that ends its command, with the store as it is or forgotten.
LEMMA EndingKeeps ==
  ASSUME ProfileInv, OneProcess, NEW p \in Process, LogoutForget(p) \/ Interrupted(p)
  PROVE  ProfileKept
<1>1. /\ proc' = [proc EXCEPT ![p] = Idle] /\ UNCHANGED vars
      /\ store' = store \/ store' = NoEntry
  BY DEF LogoutForget, Interrupted
<1>2. ServerInv' /\ StoreInv'
  <2>1. CASE store' = NoEntry
    BY <1>1, <2>1, ServerStill DEF StoreInv, NoEntry
  <2>. QED BY <1>1, <2>1, ServerStill
<1>3. proc'[p] = Idle => PlaceInv(p)'
  BY DEF PlaceInv, Idle
<1>4. store' \in Entries
  BY <1>1, IdleTyped DEF ProfileInv, ProfileTypes
<1>. QED BY <1>1, <1>2, <1>3, <1>4, IdleTyped, GoesTo

\* What the server does while the process is where it is.
LEMMA ServingKeeps ==
  ASSUME ProfileInv, TypeOK', Server \/ (\E q \in Call : Unheard(q)), UNCHANGED client
  PROVE  ProfileKept
<1>0. UNCHANGED <<store, proc>> /\ ProfileTypes'
  BY DEF client, ProfileInv, ProfileTypes
<1>1. \A p \in Process : proc[p].pc = "wait" => proc[p].call \in Call /\ InFlight(proc[p].call)
  BY DEF ProfileInv, PlaceInv
<1>2. ASSUME Settles(Credential), Quiet,
             \A q \in Call : (\E p \in Process : proc[p].pc = "wait" /\ proc[p].call = q)
                             => InFlight(q)'
      PROVE  ProfileKept
  <2>1. store.refresh # None =>
          {store.refresh, cred[store.refresh].next} \ {None} \subseteq Credential
    BY DEF ProfileInv, ProfileTypes, Entries, FamilyInv, TypeOK, CredentialRows
  <2>2. ServerInv' /\ StoreInv'
    BY <1>0, <1>2, <2>1, ServerSettles, StoreSettles
  <2>3. \A p \in Process : PlaceInv(p)'
    <3>1. ASSUME NEW p \in Process, proc[p].pc = "wait" PROVE InFlight(proc[p].call)'
      <4>1. PICK q \in Call : q = proc[p].call
        BY <1>1, <3>1
      <4>2. InFlight(q)'
        BY <1>2, <3>1, <4>1
      <4>. QED BY <1>0, <4>1, <4>2 DEF InFlight
    <3>. QED BY <1>0, <1>2, <3>1, PlaceSettles
  <2>. QED BY <1>0, <2>2, <2>3 DEF ProfileKept
<1>3. TypeOK /\ now \in Nat
  BY DEF ProfileInv, FamilyInv, TypeOK
<1>4. ASSUME NEW q \in Call, NEW n \in Credential, NEW s \in Session, Rotate(q, n, s)
      PROVE  ProfileKept
  BY <1>0, <1>4, RotateKeeps DEF ProfileKept
<1>5. ASSUME NEW q \in Call, RotateNothing(q) PROVE ProfileKept
  <2>1. UNCHANGED <<cred, sess, ended, now>> /\ InFlight(q)
    BY <1>5 DEF RotateNothing, InFlight
  <2>2. \A r \in Call : InFlight(r)' = InFlight(r) /\ call'[r].token = call[r].token
                        /\ call'[r].request = call[r].request
    BY <1>3, <1>5 DEF RotateNothing, InFlight, TypeOK, Calls, CallFields
  <2>3. Settles(Credential) /\ Quiet
    BY <1>3, <2>1, <2>2, RowsSettle DEF CallsEnd
  <2>. QED BY <1>1, <1>2, <2>2, <2>3
<1>6. CASE Revoke
  <2>1. UNCHANGED call
    BY <1>6 DEF Revoke, RevokeFamily, RevokeAll
  <2>2. Settles(Credential) /\ Quiet
    BY <1>6, RevocationSettles DEF Revoke
  <2>. QED BY <1>1, <1>2, <2>1, <2>2 DEF InFlight
<1>7. CASE Cleanup
  <2>1. UNCHANGED call
    BY <1>7, Zenon DEF Cleanup
  <2>2. Settles(Credential) /\ Quiet
    BY <1>7, CleanupSettles
  <2>. QED BY <1>1, <1>2, <2>1, <2>2 DEF InFlight
<1>8. CASE Tick
  <2>1. UNCHANGED <<cred, sess, ended, call>> /\ now <= now' /\ now' \in Nat
    BY <1>3, <1>8 DEF Tick
  <2>2. Settles(Credential) /\ Quiet
    BY <1>3, <2>1, RowsSettle, CallsSame
  <2>. QED BY <1>1, <1>2, <2>1, <2>2 DEF InFlight
<1>9. ASSUME NEW q \in Call, Unheard(q) PROVE ProfileKept
  <2>1. ReplayRead(q) /\ \A p \in Process : proc[p].call # q
    BY <1>9 DEF Unheard
  <2>2. Settles(Credential) /\ Quiet /\ \A r \in Call \ {q} : InFlight(r) => InFlight(r)'
    BY <1>0, <2>1, ReplaySettles
  <2>. QED BY <1>1, <1>2, <2>1, <2>2
<1>. QED BY <1>4, <1>5, <1>6, <1>7, <1>8, <1>9 DEF Server

-----------------------------------------------------------------------------
(* The theorems. *)

\* The server in ProfileSpec is that of CliCredentials.
LEMMA ServerSteps ==
  ASSUME ProfileInv, [ProfileNext]_all
  PROVE  [Next]_vars
<1>1. CASE UNCHANGED all
  BY <1>1 DEF all
<1>2. CASE Server \/ \E q \in Call : Unheard(q)
  BY <1>2 DEF Server, Unheard, Next, Refresh, Serve
<1>3. ASSUME NEW p \in Process, Command(p) PROVE [Next]_vars
  <2>0. /\ store \in Entries /\ PlaceInv(p) /\ proc[p] \in Places
        /\ proc[p].token \in Credential \cup {None} /\ proc[p].id \in Rotation \cup {None}
    BY PlaceTypes
  <2>1. ASSUME NEW s \in Session, LoginApproved(p, s) PROVE Login
    BY <2>1 DEF LoginApproved, Login
  <2>2. ASSUME NEW d \in Device, NEW c \in Credential, LoginIssue(p, d, c) PROVE Login
    <3>1. proc[p].got.session \in Session /\ Issue(proc[p].got.session, d, c)
      BY <2>0, <2>2 DEF LoginIssue, PlaceInv, LoginSession
    <3>. QED BY <3>1 DEF Login
  <2>3. CASE Refused(p) \/ ReadStored(p) \/ Stage(p) \/ Save(p) \/ LogoutForget(p) \/ Interrupted(p)
    BY <2>3 DEF Refused, ReadStored, Stage, Save, LogoutForget, Interrupted
  <2>4. ASSUME NEW q \in Call, Send(p, q) PROVE Refresh(q)
    <3>1. /\ RefreshRead(q, proc[p].token, proc[p].id)
          /\ proc[p].token \in Credential /\ proc[p].id \in Rotation
      BY <2>0, <2>4 DEF Send, PlaceInv
    <3>. QED BY <3>1 DEF Refresh
  <2>5. ASSUME NEW q \in Call, Receive(p, q) PROVE Refresh(q)
    BY <2>5 DEF Receive, Refresh, Serve
  <2>6. CASE LogoutRevoke(p)
    <3>1. cred[store.refresh].family \in Credential
      BY <2>0, <2>6 DEF LogoutRevoke, Entries, ProfileInv, StoreInv, FamilyInv, CredentialsRooted
    <3>. QED BY <2>6, <3>1 DEF LogoutRevoke, Revoke, Next
  <2>. QED BY <1>3, <2>1, <2>2, <2>3, <2>4, <2>5, <2>6 DEF Command, Next
<1>. QED BY <1>1, <1>2, <1>3 DEF ProfileNext

\* The invariant holds at first and is kept by every step.
LEMMA ProfileInductive ==
  ASSUME OneProcess
  PROVE  (ProfileInit => ProfileInv) /\ (ProfileInv /\ [ProfileNext]_all => ProfileInv')
<1>1. ASSUME ProfileInit PROVE ProfileInv
  <2>1. /\ FamilyInv /\ store = NoEntry /\ \A p \in Process : proc[p] = Idle
        /\ \A c \in Credential : cred[c] = NoCredential
        /\ \A q \in Call : call[q] = NoCall
    BY <1>1, FamilyInductive DEF ProfileInit, Init
  <2>2. ProfileTypes
    BY <1>1, IdleTyped DEF ProfileInit, ProfileTypes
  <2>3. ServerInv /\ StoreInv
    BY <2>1 DEF ServerInv, StoreInv, NoCall, NoCredential, NoEntry, InFlight, Live
  <2>4. \A p \in Process : PlaceInv(p)
    BY <2>1 DEF PlaceInv, Idle
  <2>. QED BY <2>1, <2>2, <2>3, <2>4 DEF ProfileInv
<1>2. ASSUME ProfileInv, [ProfileNext]_all PROVE ProfileInv'
  <2>1. FamilyInv' /\ TypeOK'
    BY <1>2, ServerSteps, FamilyInductive DEF ProfileInv, FamilyInv
  <2>2. CASE UNCHANGED all
    <3>1. UNCHANGED vars /\ UNCHANGED <<store, proc>>
      BY <2>2 DEF all, client
    <3>2. \A p \in Process : PlaceInv(p)'
      <4>1. UNCHANGED <<cred, sess, call, now, ended>>
        BY <3>1 DEF vars, server
      <4>. QED BY <1>2, <3>1, <4>1
               DEF ProfileInv, PlaceInv, Unsaved, Unasked, LoginSession, Dead, InFlight,
                   Live, Valid, Open
    <3>. QED BY <1>2, <2>1, <3>1, <3>2, ServerStill DEF ProfileInv, ProfileTypes
  <2>3. CASE ProfileNext
    <3>1. ASSUME NEW p \in Process, Command(p) PROVE ProfileKept
      BY <1>2, <2>1, <3>1, LoginApprovedKeeps, LoginIssueKeeps, SaveKeeps, RefusedKeeps,
         ReadStoredKeeps, StageKeeps, SendingKeeps, ReceiveKeeps, LogoutRevokeKeeps, EndingKeeps
         DEF Command
    <3>2. ASSUME (Server /\ Serving) \/ \E q \in Call : Unheard(q) PROVE ProfileKept
      <4>1. UNCHANGED client /\ (Server \/ \E q \in Call : Unheard(q))
        BY <3>2 DEF Serving, Unheard
      <4>. QED BY <1>2, <2>1, <4>1, ServingKeeps
    <3>. QED BY <2>1, <2>3, <3>1, <3>2 DEF ProfileNext, ProfileKept, ProfileInv
  <2>. QED BY <1>2, <2>2, <2>3
<1>. QED BY <1>1, <1>2

\* What is known of the store is enough for the next refresh.
LEMMA StoreExchangeable ==
  ASSUME ProfileInv
  PROVE  NotLockedOut
<1>1. SUFFICES ASSUME store.refresh # None, cred[store.refresh].family \notin ended,
                      ~Live(store.refresh)
      PROVE  Exchangeable(store) \/ RotatedAt(store.refresh) + RetryTtl <= now
  BY DEF NotLockedOut, Exchangeable
<1>2. Consumed(store)
  BY <1>1 DEF ProfileInv, StoreInv
<1>. QED BY <1>2 DEF Consumed, Exchangeable, RotatedAt

\* A process that is about to forget its entry has ended the family.
LEMMA ForgetsTheDead ==
  ASSUME ProfileInv, [ProfileNext]_all, store.refresh # None, store'.refresh = None
  PROVE  LET f == cred[store.refresh].family IN
         /\ \A c \in Credential : cred[c].family = f => ~Usable(c)
         /\ \A s \in Session : sess[s].family = f => ~Valid(s)
<1>1. PICK p \in Process : LogoutForget(p)
  <2>1. store' # store
    OBVIOUS
  <2>2. PICK p \in Process : Command(p)
    BY <2>1 DEF all, client, Serving, Unheard, ProfileNext
  <2>3. /\ store \in Entries /\ PlaceInv(p)
    BY PlaceTypes
  <2>4. CASE Save(p)
    BY <2>3, <2>4, CredentialAssumption DEF Save, PlaceInv, Unsaved
  <2>5. CASE Stage(p)
    BY <2>3, <2>5 DEF Stage, Staged, PlaceInv, Entries
  <2>6. CASE \/ \E s \in Session : LoginApproved(p, s)
             \/ \E d \in Device, c \in Credential : LoginIssue(p, d, c)
             \/ Refused(p) \/ ReadStored(p) \/ LogoutRevoke(p) \/ Interrupted(p)
             \/ \E q \in Call : Send(p, q) \/ Receive(p, q)
    <3>1. store' = store
      BY <2>6, Zenon DEF LoginApproved, LoginIssue, Refused, ReadStored, Send, Receive,
                         LogoutRevoke, Interrupted
    <3>. QED BY <2>1, <3>1
  <2>. QED BY <2>2, <2>4, <2>5, <2>6 DEF Command
<1>2. Dead(cred[store.refresh].family)
  BY <1>1, PlaceTypes DEF LogoutForget, PlaceInv
<1>3. EndedForGood
  BY FamilyInvImplies DEF ProfileInv
<1>. QED BY <1>2, <1>3 DEF Dead, EndedForGood, Usable, Valid

\* Wherever a command of the one process of a profile was interrupted, the
\* next one can refresh with what the store holds, unless the family was
\* ended or the retry window is over.
THEOREM NeverLockedOut == ASSUME OneProcess PROVE ProfileSpec => []NotLockedOut
<1>. QED BY ProfileInductive, StoreExchangeable, PTL DEF ProfileSpec

\* When the one process of a profile forgets its entry, nothing of the family
\* works on the server, nor can a refresh in flight bring it back.
THEOREM NothingAfterLogout == ASSUME OneProcess PROVE ProfileSpec => LogoutLeavesNothing
<1>1. ASSUME ProfileInv, [ProfileNext]_all
      PROVE  [store.refresh # None /\ store'.refresh = None =>
                LET f == cred[store.refresh].family IN
                /\ \A c \in Credential : cred[c].family = f => ~Usable(c)
                /\ \A s \in Session : sess[s].family = f => ~Valid(s)]_all
  BY <1>1, ForgetsTheDead
<1>. QED BY <1>1, ProfileInductive, PTL DEF ProfileSpec, LogoutLeavesNothing
=============================================================================
