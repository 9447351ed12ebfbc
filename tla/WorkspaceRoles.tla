--------------------------- MODULE WorkspaceRoles ---------------------------
(***************************************************************************)
(* The people of one workspace, their roles, and the operations that       *)
(* change them: grant, revoke and transfer of a role, removal and          *)
(* restoration of a member, the repair of a workspace without an owner,    *)
(* and the moves between workspaces at a sign-in and by an integration.    *)
(* Each operation reads first and then runs one batch, which checks again  *)
(* what it was decided on; anything may happen in between.                 *)
(***************************************************************************)
EXTENDS Naturals, FiniteSets

CONSTANTS
    Users,        \* the people
    Calls,        \* the operations that may be in flight at once
    Loader,       \* the call that loads the members page
    Kinds,        \* the operations that are used
    NoUser,
    Owner,        \* who owns the workspace at first, or NoUser
    MaxRemovals   \* how often a person is removed

AdminKinds == {"remove", "restore"}
OwnerKinds == {"transfer", "grant", "revoke"}
AllKinds == AdminKinds \union OwnerKinds \union {"load", "signin", "integrate"}

ASSUME RolesAssumption ==
    /\ Users # {} /\ NoUser \notin Users
    /\ Kinds \subseteq AllKinds
    /\ Owner \in Users \union {NoUser}
    /\ MaxRemovals \in Nat

Steps == {"idle", "authorize", "find", "promote", "fallback", "assign", "reread",
          "read", "commit", "activate", "move"}
Homes == {"team", "own", "other"}

VARIABLES
    role,       \* workspace_members.role of each person here
    status,     \* workspace_members.status, "none" without a row
    home,       \* users.workspace_id: this workspace, a personal one, another
    owns,       \* how many personal workspaces the person is the owner of
    version,    \* users.oauth_token_version
    removals,   \* history: how often the person was removed
    audit,      \* the audit row of the last step, if it wrote one
    call        \* the operations in flight

people == <<role, status, home, owns, version, removals>>
vars == <<people, audit, call>>

Call == [kind: AllKinds, actor: Users, target: Users, step: Steps, found: Users \union {NoUser},
         home: Homes, version: Nat, stint: Nat]
NoAudit == [action |-> "none", actor |-> NoUser, target |-> NoUser]

Idle(u) == [kind |-> "load", actor |-> u, target |-> u, step |-> "idle", found |-> NoUser,
            home |-> "team", version |-> 0, stint |-> 0]
AnyUser == CHOOSE u \in Users : TRUE

Active(u, r) == status[u] = "active" /\ role[u] = r
ActiveOwner(u) == Active(u, "owner")
ActiveAdmin(u) == Active(u, "owner") \/ Active(u, "admin")
HasOwner == \E u \in Users : ActiveOwner(u)

\* workspace_members_single_owner: one row of the role, whatever its status.
OwnerFree(u) == \A v \in Users \ {u} : status[v] # "none" => role[v] # "owner"

\* eligibleAdminTarget
Eligible(u) == home[u] = "team" /\ status[u] = "active"

-----------------------------------------------------------------------------
\* Members at first: active at home, or signed up and without a row yet; the
\* others live in a workspace of their own.
Init ==
    /\ home \in [Users -> {"team", "own"}]
    /\ Owner # NoUser => home[Owner] = "team"
    /\ role \in [Users -> {"member", "admin", "owner"}]
    /\ \A u \in Users : role[u] = "owner" <=> u = Owner
    /\ status \in [Users -> {"none", "active"}]
    /\ \A u \in Users : home[u] = "own" => status[u] = "none"
    /\ \A u \in Users : status[u] = "none" => role[u] = "member"
    /\ owns = [u \in Users |-> IF home[u] = "own" THEN 1 ELSE 0]
    /\ version = [u \in Users |-> 0]
    /\ removals = [u \in Users |-> 0]
    /\ audit = NoAudit
    /\ call = [c \in Calls |-> Idle(AnyUser)]

To(c, step) == call' = [call EXCEPT ![c].step = step]
Finish(c) == call' = [call EXCEPT ![c] = Idle(AnyUser)]
Quiet == UNCHANGED people /\ audit' = NoAudit

First(kind) ==
    IF kind \in AdminKinds \union OwnerKinds THEN "authorize"
    ELSE IF kind = "load" THEN "find" ELSE "read"

\* A session of this workspace asks for an operation.
Begin(c, kind, actor, target) ==
    /\ call[c].step = "idle"
    /\ kind \in Kinds
    /\ kind = "load" <=> c = Loader
    /\ (kind \in {"load", "signin", "integrate"}) <=> (actor = target)
    /\ kind # "signin" => home[actor] = "team"
    /\ kind = "remove" => removals[target] < MaxRemovals
    /\ call' = [call EXCEPT ![c] = [Idle(actor) EXCEPT !.kind = kind, !.target = target,
                                                       !.step = First(kind)]]
    /\ Quiet

-----------------------------------------------------------------------------
(* requireWorkspaceAdmin, requireWorkspaceOwner and ensureWorkspaceAdmin   *)

Authorize(c) ==
    /\ call[c].step = "authorize"
    /\ IF call[c].kind \in OwnerKinds
       THEN IF ActiveOwner(call[c].actor) THEN To(c, "read") ELSE Finish(c)
       ELSE IF ActiveAdmin(call[c].actor) THEN To(c, "read")
       ELSE IF \E u \in Users : ActiveAdmin(u) THEN Finish(c) ELSE To(c, "find")
    /\ Quiet

\* ensureWorkspaceAdmin answers: an operation goes on if its actor was chosen.
Ensured(c, u) ==
    IF call[c].kind \in AdminKinds /\ u = call[c].actor THEN To(c, "read") ELSE Finish(c)

Find(c) ==
    /\ call[c].step = "find"
    /\ \/ \E u \in Users : ActiveOwner(u) /\ Ensured(c, u)
       \/ /\ ~HasOwner
          /\ \E u \in Users :
                /\ Active(u, "admin")
                /\ call' = [call EXCEPT ![c].step = "promote", ![c].found = u]
       \/ /\ ~\E u \in Users : ActiveAdmin(u)
          /\ To(c, "fallback")
    /\ Quiet

\* The update of an admin to owner; the unique index may refuse it.
Promote(c) ==
    LET u == call[c].found IN
    /\ call[c].step = "promote"
    /\ \/ /\ Active(u, "admin")
          /\ OwnerFree(u)
          /\ role' = [role EXCEPT ![u] = "owner"]
          /\ Ensured(c, u)
       \/ /\ Active(u, "admin")
          /\ ~OwnerFree(u)
          /\ To(c, "reread")
          /\ UNCHANGED role
       \/ /\ ~Active(u, "admin")
          /\ Ensured(c, u)
          /\ UNCHANGED role
    /\ audit' = NoAudit
    /\ UNCHANGED <<status, home, owns, version, removals>>

\* mutant: the fallback takes whoever has a row
FallbackFinds(u) == home[u] = "team" /\ status[u] = "active"

Candidate(u) == home[u] = "team" /\ status[u] \in {"none", "active"}

Fallback(c) ==
    /\ call[c].step = "fallback"
    /\ \/ \E u \in Users :
            /\ Candidate(u)
            /\ call' = [call EXCEPT ![c].step = "assign", ![c].found = u]
       \/ /\ ~\E u \in Users : Candidate(u)
          /\ Ensured(c, NoUser)
    /\ Quiet

\* Update the row, or insert it; a refused insert is ignored, a refused update
\* fails the call.
Assign(c) ==
    LET u == call[c].found IN
    /\ call[c].step = "assign"
    /\ \/ /\ status[u] \in {"none", "active"}
          /\ OwnerFree(u)
          /\ role' = [role EXCEPT ![u] = "owner"]
          /\ status' = [status EXCEPT ![u] = "active"]
          /\ To(c, "reread")
       \/ /\ status[u] = "active"
          /\ ~OwnerFree(u)
          /\ Finish(c)
          /\ UNCHANGED <<role, status>>
       \/ /\ status[u] = "none" => ~OwnerFree(u)
          /\ status[u] # "active"
          /\ To(c, "reread")
          /\ UNCHANGED <<role, status>>
    /\ audit' = NoAudit
    /\ UNCHANGED <<home, owns, version, removals>>

\* The owner is read back; without one the call fails.
Reread(c) ==
    /\ call[c].step = "reread"
    /\ \/ \E u \in Users : ActiveOwner(u) /\ Ensured(c, u)
       \/ ~HasOwner /\ Finish(c)
    /\ Quiet

-----------------------------------------------------------------------------
(* The read of each operation: what its batch is decided on                *)

Readable(c) ==
    LET t == call[c].target IN
    CASE call[c].kind = "transfer" -> Active(t, "member") \/ Active(t, "admin")
      [] call[c].kind = "grant" -> home[t] = "team" /\ Active(t, "member")
      [] call[c].kind = "revoke" -> home[t] = "team" /\ Active(t, "admin")
      [] call[c].kind = "remove" -> /\ status[t] # "none"
                                    /\ status[t] = "removed" => home[t] = "team"
                                    /\ role[t] = "member"
      [] call[c].kind = "restore" -> status[t] = "removed"
      [] call[c].kind = "integrate" -> /\ home[t] = "team"
                                       /\ ActiveAdmin(t) => ~\E u \in Users \ {t} :
                                                                status[u] = "active"
      [] OTHER -> FALSE

Read(c) ==
    LET t == call[c].target IN
    /\ call[c].step = "read"
    /\ call[c].kind # "signin"
    /\ IF Readable(c)
       THEN call' = [call EXCEPT ![c].step = "commit", ![c].home = home[t],
                                 ![c].version = version[t], ![c].stint = removals[t]]
       ELSE Finish(c)
    /\ Quiet

-----------------------------------------------------------------------------
(* The batches, statement by statement                                     *)

Audited(c) == audit' = [action |-> call[c].kind, actor |-> call[c].actor, target |-> call[c].target]

\* transferWorkspaceOwner: audit, demotion, promotion
Transferable(c) ==
    LET t == call[c].target IN
    ActiveOwner(call[c].actor) /\ Eligible(t) /\ role[t] \in {"member", "admin"}
\* mutant: the demotion does not ask whether the target may take over
DemotesAnyway(c) == ActiveOwner(call[c].actor)

Demotes(c) == ActiveOwner(call[c].actor) /\ Eligible(call[c].target)

CommitTransfer(c) ==
    LET a == call[c].actor
        t == call[c].target
        demoted == [role EXCEPT ![a] = IF Demotes(c) THEN "admin" ELSE role[a]]
        promotes == /\ Transferable(c)
                    /\ demoted[a] = "admin"
    IN
    /\ call[c].step = "commit" /\ call[c].kind = "transfer"
    /\ IF Transferable(c) THEN Audited(c) ELSE audit' = NoAudit
    /\ role' = [demoted EXCEPT ![t] = IF promotes THEN "owner" ELSE demoted[t]]
    /\ Finish(c)
    /\ UNCHANGED <<status, home, owns, version, removals>>

\* runRoleMutationBatch
Regrantable(c, from) ==
    ActiveOwner(call[c].actor) /\ Eligible(call[c].target) /\ role[call[c].target] = from

CommitRole(c, kind, from, to) ==
    /\ call[c].step = "commit" /\ call[c].kind = kind
    /\ IF Regrantable(c, from)
       THEN Audited(c) /\ role' = [role EXCEPT ![call[c].target] = to]
       ELSE audit' = NoAudit /\ UNCHANGED role
    /\ Finish(c)
    /\ UNCHANGED <<status, home, owns, version, removals>>

\* mutant: only the workspace is compared with the one read
RemovableLate(c) ==
    LET t == call[c].target IN
    /\ role[t] = "member"
    /\ status[t] = "active"
    /\ ActiveAdmin(call[c].actor)
    /\ home[t] = call[c].home

\* mutant: nothing is compared with what was read
RemovableAnywhere(c) ==
    LET t == call[c].target IN
    /\ role[t] = "member"
    /\ status[t] = "active"
    /\ ActiveAdmin(call[c].actor)
    /\ version[t] = call[c].version

\* removeWorkspaceMember: the guard of the audit row, which the rest follows
Removable(c) ==
    LET t == call[c].target IN
    /\ role[t] = "member"
    /\ status[t] = "active"
    /\ ActiveAdmin(call[c].actor)
    /\ home[t] = call[c].home
    /\ version[t] = call[c].version

CommitRemove(c) ==
    LET t == call[c].target
        moves == call[c].home = "team"
    IN
    /\ call[c].step = "commit" /\ call[c].kind = "remove"
    /\ IF Removable(c)
       THEN /\ Audited(c)
            /\ status' = [status EXCEPT ![t] = "removed"]
            /\ home' = [home EXCEPT ![t] = IF moves THEN "own" ELSE @]
            /\ owns' = [owns EXCEPT ![t] = IF moves THEN @ + 1 ELSE @]
            /\ version' = [version EXCEPT ![t] = IF moves THEN @ + 1 ELSE @]
            /\ removals' = [removals EXCEPT ![t] = @ + 1]
       ELSE audit' = NoAudit /\ UNCHANGED <<status, home, owns, version, removals>>
    /\ Finish(c)
    /\ UNCHANGED role

\* restoreWorkspaceMember, with workspaceMemberRestoreGuard
Restorable(c) ==
    LET t == call[c].target IN
    /\ ActiveAdmin(call[c].actor)
    /\ status[t] = "removed"
    /\ call[c].home # "other"
    /\ home[t] \in {call[c].home, "team"}

CommitRestore(c) ==
    LET t == call[c].target IN
    /\ call[c].step = "commit" /\ call[c].kind = "restore"
    /\ IF Restorable(c)
       THEN /\ Audited(c)
            /\ home' = [home EXCEPT ![t] = "team"]
            /\ status' = [status EXCEPT ![t] = "active"]
       ELSE audit' = NoAudit /\ UNCHANGED <<home, status>>
    /\ Finish(c)
    /\ UNCHANGED <<role, owns, version, removals>>

\* applyOAuthWorkspaceIntegration into another workspace: the resource guard,
\* then the membership here is removed.
Integrable(c) == home[call[c].target] = "team" /\ owns[call[c].target] = 0

CommitIntegrate(c) ==
    LET t == call[c].target IN
    /\ call[c].step = "commit" /\ call[c].kind = "integrate"
    /\ IF Integrable(c)
       THEN /\ Audited(c)
            /\ home' = [home EXCEPT ![t] = "other"]
            /\ status' = [status EXCEPT ![t] = IF @ = "none" THEN "none" ELSE "removed"]
       ELSE audit' = NoAudit /\ UNCHANGED <<home, status>>
    /\ Finish(c)
    /\ UNCHANGED <<role, owns, version, removals>>

-----------------------------------------------------------------------------
(* A sign-in whose identity belongs to this workspace                      *)

\* Where the person is decides between an activation and a move.
Resolve(c) ==
    LET u == call[c].target IN
    /\ call[c].step = "read"
    /\ call[c].kind = "signin"
    /\ \/ home[u] = "team" /\ To(c, "activate")
       \/ home[u] = "own" /\ status[u] # "removed" /\ To(c, "move")
       \/ home[u] = "own" /\ Finish(c)
       \/ home[u] = "other" /\ Finish(c)
    /\ Quiet

\* ensureActiveWorkspaceMembership with reactivateRemoved
Activate(c) ==
    LET u == call[c].target IN
    /\ call[c].step = "activate"
    /\ role' = [role EXCEPT ![u] = IF status[u] = "active" THEN @ ELSE "member"]
    /\ status' = [status EXCEPT ![u] = "active"]
    /\ To(c, "find")
    /\ audit' = NoAudit
    /\ UNCHANGED <<home, owns, version, removals>>

\* The person still lives in the personal workspace, the only one they own.
Moves(u) == home[u] = "own" /\ owns[u] = 1 /\ ~ActiveAdmin(u)
\* moveUserToWorkspaceIfSafe: the batch aborts unless the person ends active here.
ActiveAfter(u) == (Moves(u) \/ home[u] = "team") /\ status[u] # "removed"

Move(c) ==
    LET u == call[c].target IN
    /\ call[c].step = "move"
    /\ IF ActiveAfter(u)
       THEN /\ home' = [home EXCEPT ![u] = "team"]
            /\ owns' = [owns EXCEPT ![u] = IF Moves(u) THEN @ - 1 ELSE @]
            /\ status' = [status EXCEPT ![u] = IF @ = "none" THEN "active" ELSE @]
            /\ To(c, "find")
       ELSE Finish(c) /\ UNCHANGED <<home, owns, status>>
    /\ audit' = NoAudit
    /\ UNCHANGED <<role, version, removals>>

-----------------------------------------------------------------------------
Commit(c) ==
    \/ CommitTransfer(c)
    \/ CommitRole(c, "grant", "member", "admin")
    \/ CommitRole(c, "revoke", "admin", "member")
    \/ CommitRemove(c) \/ CommitRestore(c) \/ CommitIntegrate(c)

Step(c) ==
    \/ Authorize(c) \/ Find(c) \/ Promote(c) \/ Fallback(c) \/ Assign(c) \/ Reread(c)
    \/ Read(c) \/ Commit(c) \/ Resolve(c) \/ Activate(c) \/ Move(c)

Next ==
    \E c \in Calls :
        \/ \E kind \in Kinds, actor, target \in Users : Begin(c, kind, actor, target)
        \/ Step(c)

\* The members page is loaded again and again, and every operation goes on.
Fairness ==
    /\ WF_vars(\E u \in Users : Begin(Loader, "load", u, u))
    /\ \A c \in Calls : WF_vars(Step(c))

Spec == Init /\ [][Next]_vars
FairSpec == Spec /\ Fairness

-----------------------------------------------------------------------------
(* What the operations promise                                             *)

TypeOK ==
    /\ role \in [Users -> {"member", "admin", "owner"}]
    /\ status \in [Users -> {"none", "active", "removed"}]
    /\ home \in [Users -> Homes]
    /\ owns \in [Users -> Nat]
    /\ version \in [Users -> Nat]
    /\ removals \in [Users -> Nat]
    /\ call \in [Calls -> Call]
    /\ audit \in [action: AllKinds \union {"none"}, actor: Users \union {NoUser},
                  target: Users \union {NoUser}]

\* Nobody lives in a workspace that removed them: whoever's home this is can be
\* a member of it, so no session is stuck between two workspaces.
HomeIsActive == \A u \in Users : home[u] = "team" => status[u] # "removed"

\* A workspace that has an owner keeps one, through transfers, removals and
\* repairs in any order (transferWorkspaceOwner hands over in one batch). An
\* integration counts the owners when it is planned, not in its batch.
OwnerKept == [][(HasOwner /\ audit'.action # "integrate") => HasOwner']_vars

\* A request that changes anybody's role, membership or home leaves its audit row
\* in its batch, and leaves none if its batch changes nothing. (The loader and a
\* sign-in, which have no such batch, leave none.)
Audits ==
    \A c \in Calls :
        (call[c].step = "commit" /\ call'[c].step = "idle") =>
            ((<<role, status, home>>' # <<role, status, home>>) <=> audit' # NoAudit)

\* Whoever an audit row names was an administrator of the workspace when it was
\* written (its owner, for a role), not only when the request was authorized.
ActsWithAuthority ==
    audit' # NoAudit /\ audit'.action # "integrate" =>
        IF audit'.action \in OwnerKinds THEN ActiveOwner(audit'.actor)
        ELSE ActiveAdmin(audit'.actor)

\* A removal of somebody who lives here ends the membership the administrator
\* saw: one that was delayed past another removal and a restoration does nothing.
\* (Of somebody who lives elsewhere, the version does not tell two stints apart.)
RemovesWhatWasSeen ==
    \A c \in Calls :
        (call[c].step = "commit" /\ call[c].kind = "remove" /\ call[c].home = "team"
           /\ call'[c].step = "idle" /\ audit' # NoAudit) =>
               call[c].stint = removals[call[c].target]

\* Every transfer, grant, revocation, removal and restoration is on record, by
\* somebody who may make it at that moment, and to the membership it was decided
\* on. (The loader's promotion and the activation at sign-in write no audit row.)
ChangesAnswerable == [][Audits /\ ActsWithAuthority /\ RemovesWhatWasSeen]_vars

\* While the members page is being loaded, a workspace with somebody in it gets
\* an owner again.
OwnerReturns ==
    (\E u \in Users : home[u] = "team") ~> (HasOwner \/ \A u \in Users : home[u] # "team")
=============================================================================
