--------------------------- MODULE AccessRequests ---------------------------
(***************************************************************************)
(* Requests for access to one artifact, and the person who may decide      *)
(* them. Who that is, is written twice in the code: once as a walk over    *)
(* candidates (resolveAccessRequestHandler), before a request is stored or *)
(* a decision is prepared, and once as a SQL expression                    *)
(* (currentAccessRequestHandlerPredicate), inside every write. People,     *)
(* projects and the place of the artifact change in between.               *)
(***************************************************************************)
EXTENDS Naturals, FiniteSets

CONSTANTS
    Users,        \* people of the workspace, as numbers: the order they joined
    Bot,          \* a bot, as the owner of the artifact
    Requester,    \* somebody else, who asks
    Projects,
    Ops,          \* the handlers that may be in flight at once
    Worlds,       \* the workspaces to start from
    MaxRequests,  \* how many requests are ever stored
    MaxChanges,   \* how often the workspace changes
    MaxGrants     \* MAX_GRANT_EMAILS

RequestsAssumption ==
    /\ Users \subseteq Nat \ {0}
    /\ Bot \notin Users
    /\ Requester \notin Users
    /\ "inbox" \notin Projects
    /\ {MaxRequests, MaxChanges, MaxGrants} \subseteq Nat

Nobody == 0
Roles == {"none", "member", "admin", "owner", "removed"}
Plans == {"free", "plus", "team"}
Places == Projects \union {"inbox"}
World == [owner: Users \union {Bot}, visibility: {"private", "project"}, place: Places,
          archived: SUBSET Projects, creator: [Projects -> Users], managers: SUBSET Users,
          role: [Users -> Roles], verified: SUBSET Users, plan: Plans, posting: BOOLEAN]

\* Whoever created a project is, or was, a member of the workspace: an integration
\* takes nobody away who has projects.
CreatorsJoined(w) == \A p \in Projects : w.role[w.creator[p]] # "none"

WorldsAssumption == Worlds # {} /\ \A w \in Worlds : w \in World /\ CreatorsJoined(w)

VARIABLES
    world,     \* the artifact, its projects and the workspace
    grants,    \* people the artifact is shared with
    viewers,   \* people each project is shared with
    request,   \* the stored requests
    op,        \* the handlers in flight
    changes    \* changes of the workspace so far

vars == <<world, grants, viewers, request, op, changes>>

Request == [status: {"none", "pending", "approved", "rejected"}, by: Users \union {Nobody},
            scope: {"none", "artifact", "project"}]
NoRequest == [status |-> "none", by |-> Nobody, scope |-> "none"]
Ids == 1 .. MaxRequests

-----------------------------------------------------------------------------
(* Who may decide                                                          *)

\* What a handler reads of the artifact first, and keeps.
Context(w) == [owner |-> w.owner, visibility |-> w.visibility, place |-> w.place,
               archived |-> w.place \in w.archived,
               creator |-> IF w.place \in Projects THEN w.creator[w.place] ELSE Nobody]

Earliest(S) == IF S = {} THEN Nobody ELSE CHOOSE u \in S : \A v \in S : u <= v
Active(w, u) == w.role[u] \in {"member", "admin", "owner"}
Revoked(w, u) == w.role[u] = "removed"
AdminOf(w, u) == w.role[u] \in {"admin", "owner"}
PostingOpen(w) == w.plan # "free" /\ w.posting

\* projectContainerEditAuthoritySql
EditsProject(w, p, u) ==
    /\ p \in Projects
    /\ p \notin w.archived
    /\ \/ w.creator[p] = u /\ ~Revoked(w, u)
       \/ AdminOf(w, u) /\ w.plan = "team"
       \/ PostingOpen(w) /\ u \in w.managers /\ u \in w.verified

\* capabilitiesForContext: what the context says, with the workspace as it is now.
GrantsArtifact(w, ctx, u) ==
    \/ ctx.owner = u /\ ~Revoked(w, u)
    \/ ctx.owner = Bot /\ ctx.place = "inbox" /\ AdminOf(w, u)
GrantsProject(w, ctx, u) ==
    /\ ctx.place \in Projects
    /\ ctx.visibility = "project"
    /\ ~ctx.archived
    /\ EditsProject(w, ctx.place, u)
Capable(w, ctx, u) == GrantsArtifact(w, ctx, u) \/ GrantsProject(w, ctx, u)

\* resolveAccessRequestHandler: the candidates in their order.
Candidates(w, ctx) ==
    LET known == {u \in w.verified : Active(w, u)} IN
    << IF ctx.owner = Bot THEN {} ELSE {ctx.owner} \intersect w.verified,
       IF ctx.owner = Bot /\ ctx.place \in Projects THEN {ctx.creator} \intersect known ELSE {},
       {u \in known : w.role[u] = "owner"},
       {u \in known : w.role[u] = "admin"},
       IF ctx.owner = Bot /\ ctx.place \in Projects THEN w.managers \intersect w.verified ELSE {} >>

Resolved(w, ctx) ==
    LET able(i) == {u \in Candidates(w, ctx)[i] : Capable(w, ctx, u)}
        hits == {i \in 1 .. 5 : able(i) # {}}
    IN IF hits = {} THEN Nobody ELSE Earliest(able(Earliest(hits)))

\* currentAccessRequestHandlerPredicate: the first of several queries with a row.
Coalesce(sets) ==
    LET hits == {i \in DOMAIN sets : sets[i] # {}}
    IN IF hits = {} THEN Nobody ELSE Earliest(sets[Earliest(hits)])

\* A person who owns the artifact and still belongs to the workspace decides.
OwnerDecides(w) == w.owner # Bot /\ w.owner \in w.verified /\ ~Revoked(w, w.owner)

Handler(w) ==
    LET owners == {u \in w.verified : w.role[u] = "owner"}
        admins == {u \in w.verified : w.role[u] = "admin"}
        shared == w.visibility = "project" /\ w.place \in Projects \ w.archived
        here(S) == {u \in S : w.plan = "team" \/ w.creator[w.place] = u}
        team(S) == {u \in S : w.plan = "team"}
    IN
    CASE OwnerDecides(w) -> w.owner
      [] w.owner # Bot /\ ~OwnerDecides(w) /\ shared ->
            Coalesce(<<here(owners), here(admins)>>)
      [] w.owner = Bot /\ shared ->
            Coalesce(<<{u \in w.verified : w.creator[w.place] = u /\ Active(w, u)},
                       team(owners), team(admins),
                       {u \in w.managers \intersect w.verified : PostingOpen(w)}>>)
      [] w.owner = Bot /\ w.place = "inbox" -> Coalesce(<<owners, admins>>)
      [] OTHER -> Nobody

\* scopeCapabilityPredicate, inside a decision's batch
ArtifactScope(w, u) ==
    \/ w.owner = u /\ ~Revoked(w, u)
    \/ w.owner = Bot /\ w.place = "inbox" /\ AdminOf(w, u)

ProjectScope(w, ctx, u) ==
    w.visibility = "project" /\ w.place = ctx.place /\ EditsProject(w, w.place, u)

-----------------------------------------------------------------------------
Idle == [kind |-> "none", user |-> Nobody, id |-> 1, step |-> "idle", scope |-> "none",
         ctx |-> Context(CHOOSE w \in Worlds : TRUE), attempt |-> 0]

Init ==
    /\ world \in Worlds
    /\ grants = {}
    /\ viewers = [p \in Projects |-> {}]
    /\ request = [i \in Ids |-> NoRequest]
    /\ op = [o \in Ops |-> Idle]
    /\ changes = 0

Done(o) == op' = [op EXCEPT ![o] = Idle]
Pending == {i \in Ids : request[i].status = "pending"}

\* viewerDisplayCheck of the requester
Denied == Requester \notin grants
    /\ ~(world.visibility = "project" /\ world.place \in Projects /\ Requester \in viewers[world.place])

(* createAccessRequest                                                     *)

Ask(o) ==
    /\ op[o].step = "idle"
    /\ Denied
    /\ op' = [op EXCEPT ![o] = [Idle EXCEPT !.kind = "create", !.step = "resolve",
                                            !.ctx = Context(world)]]
    /\ UNCHANGED <<world, grants, viewers, request, changes>>

ResolveAsk(o) ==
    /\ op[o].step = "resolve"
    /\ op[o].kind = "create"
    /\ IF Pending # {} \/ Resolved(world, op[o].ctx) = Nobody
       THEN Done(o)
       ELSE op' = [op EXCEPT ![o].step = "insert", ![o].user = Resolved(world, op[o].ctx)]
    /\ UNCHANGED <<world, grants, viewers, request, changes>>

\* The insert finds its handler still current, or the whole is tried again.
Insert(o) ==
    LET fits == Handler(world) = op[o].user /\ Pending = {}
        free == {i \in Ids : request[i].status = "none"}
    IN
    /\ op[o].step = "insert"
    /\ IF fits
       THEN /\ free # {}
            /\ request' = [request EXCEPT ![Earliest(free)] = [NoRequest EXCEPT !.status = "pending"]]
            /\ Done(o)
       ELSE /\ UNCHANGED request
            /\ IF Pending = {} /\ op[o].attempt < 2 /\ Denied
               THEN op' = [op EXCEPT ![o].step = "resolve", ![o].ctx = Context(world),
                                     ![o].attempt = @ + 1]
               ELSE Done(o)
    /\ UNCHANGED <<world, grants, viewers, changes>>

(* processAccessRequest                                                    *)

Decide(o, u, i, kind, scope) ==
    /\ op[o].step = "idle"
    /\ request[i].status # "none"
    /\ kind = "reject" => scope = "none"
    /\ kind = "approve" => scope # "none"
    /\ op' = [op EXCEPT ![o] = [Idle EXCEPT !.kind = kind, !.user = u, !.id = i, !.scope = scope,
                                            !.step = IF request[i].status = "pending"
                                                     THEN "resolve" ELSE "idle",
                                            !.ctx = Context(world)]]
    /\ op'[o].step # "idle"
    /\ UNCHANGED <<world, grants, viewers, request, changes>>

\* The handler resolved from the context has to be the person who decides.
Prepare(o) ==
    LET ctx == op[o].ctx
        u == op[o].user
        fits == CASE op[o].kind = "reject" -> Capable(world, ctx, u)
                  [] op[o].scope = "artifact" -> GrantsArtifact(world, ctx, u)
                  [] OTHER -> GrantsProject(world, ctx, u)
    IN
    /\ op[o].step = "resolve"
    /\ op[o].kind \in {"approve", "reject"}
    /\ IF Resolved(world, ctx) = u /\ fits
       THEN op' = [op EXCEPT ![o].step = "commit"]
       ELSE Done(o)
    /\ UNCHANGED <<world, grants, viewers, request, changes>>

\* grantCapacityPredicate
Room(o) ==
    IF op[o].scope = "artifact"
    THEN Requester \in grants \/ Cardinality(grants \ {world.owner}) < MaxGrants
    ELSE \/ Requester \in viewers[op[o].ctx.place]
         \/ Cardinality(viewers[op[o].ctx.place]) < MaxGrants

\* mutant: who decides is not asked again
CurrentThen(o) == request[op[o].id].status = "pending"

\* The conditions of the update: still pending, and by the handler of now.
Current(o) == request[op[o].id].status = "pending" /\ Handler(world) = op[o].user

CommitReject(o) ==
    LET u == op[o].user IN
    /\ op[o].step = "commit" /\ op[o].kind = "reject"
    /\ IF Current(o) /\ (ArtifactScope(world, u) \/ ProjectScope(world, op[o].ctx, u))
       THEN request' = [request EXCEPT ![op[o].id] = [status |-> "rejected", by |-> u, scope |-> "none"]]
       ELSE UNCHANGED request
    /\ Done(o)
    /\ UNCHANGED <<world, grants, viewers, changes>>

\* The grant of an approval
Share(o) ==
    IF op[o].scope = "artifact"
    THEN grants' = grants \union {Requester} /\ UNCHANGED viewers
    ELSE viewers' = [viewers EXCEPT ![op[o].ctx.place] = @ \union {Requester}] /\ UNCHANGED grants

CommitApprove(o) ==
    LET u == op[o].user IN
    /\ op[o].step = "commit" /\ op[o].kind = "approve"
    /\ IF /\ Current(o)
          /\ IF op[o].scope = "artifact" THEN ArtifactScope(world, u)
             ELSE ProjectScope(world, op[o].ctx, u)
          /\ Room(o)
       THEN /\ request' = [request EXCEPT ![op[o].id] =
                             [status |-> "approved", by |-> u, scope |-> op[o].scope]]
            /\ Share(o)
       ELSE UNCHANGED <<request, grants, viewers>>
    /\ Done(o)
    /\ UNCHANGED <<world, changes>>

-----------------------------------------------------------------------------
(* The workspace goes on                                                   *)

Changed(w) ==
    /\ changes < MaxChanges
    /\ world' = w
    /\ w # world
    /\ changes' = changes + 1
    /\ UNCHANGED <<grants, viewers, request, op>>

RemoveMember(u) == world.role[u] = "member" /\ Changed([world EXCEPT !.role[u] = "removed"])
MakeAdmin(u) == world.role[u] = "member" /\ Changed([world EXCEPT !.role[u] = "admin"])
RevokeAdmin(u) == world.role[u] = "admin" /\ Changed([world EXCEPT !.role[u] = "member"])
HandOver(u) == Active(world, u) /\ world.owner # Bot /\ Changed([world EXCEPT !.owner = u])
\* A bot has no inbox to move to; in the inbox nothing is shared with a project.
MoveTo(place) ==
    /\ place = "inbox" => world.owner # Bot
    /\ Changed([world EXCEPT !.place = place,
                             !.visibility = IF place = "inbox" THEN "private" ELSE @])
Narrow == Changed([world EXCEPT !.visibility = "private"])
Archive(p) == Changed([world EXCEPT !.archived = @ \union {p}])
ClosePosting == Changed([world EXCEPT !.posting = FALSE])
Unshare == grants' = {} /\ viewers' = [p \in Projects |-> {}] /\ changes < MaxChanges
    /\ changes' = changes + 1 /\ UNCHANGED <<world, request, op>>

Change ==
    \/ \E u \in Users : RemoveMember(u) \/ MakeAdmin(u) \/ RevokeAdmin(u) \/ HandOver(u)
    \/ \E place \in Places : MoveTo(place)
    \/ \E p \in Projects : Archive(p)
    \/ Narrow \/ ClosePosting \/ Unshare

Next ==
    \/ \E o \in Ops :
         \/ Ask(o) \/ ResolveAsk(o) \/ Insert(o) \/ Prepare(o) \/ CommitReject(o) \/ CommitApprove(o)
         \/ \E u \in Users, i \in Ids, kind \in {"approve", "reject"},
               scope \in {"none", "artifact", "project"} : Decide(o, u, i, kind, scope)
    \/ Change

Spec == Init /\ [][Next]_vars

-----------------------------------------------------------------------------
TypeOK ==
    /\ world \in World
    /\ grants \subseteq {Requester}
    /\ \A p \in Projects : viewers[p] \subseteq {Requester}
    /\ request \in [Ids -> Request]
    /\ changes \in 0 .. MaxChanges

\* Somebody who manages a project from outside: neither an administrator of the
\* workspace nor somebody it removed.
ManagersAreOutsiders == \A u \in world.managers : world.role[u] \in {"none", "member"}

\* The walk over the candidates and the SQL expression name the same person, as
\* long as managers are outsiders: nobody is asked who is then refused.
SameHandler == ManagersAreOutsiders => Resolved(world, Context(world)) = Handler(world)

Decided(i) == request[i].status = "pending" /\ request'[i].status \in {"approved", "rejected"}

\* Whoever decides a request is, at that moment, the person the candidates name
\* and is able to grant what was granted, whatever changed since it was read.
ByTheHandler ==
    \A i \in Ids :
        Decided(i) =>
            LET u == request'[i].by
                ctx == Context(world)
            IN /\ ManagersAreOutsiders => Resolved(world, ctx) = u
               /\ CASE request'[i].scope = "artifact" -> GrantsArtifact(world, ctx, u)
                    [] request'[i].scope = "project" -> GrantsProject(world, ctx, u)
                    [] OTHER -> Capable(world, ctx, u)

\* An approval gives exactly what it says, in the same step: the artifact, or the
\* project it lies in now. Nothing is shared without one.
ApprovalIsGrant ==
    /\ \A i \in Ids :
         (Decided(i) /\ request'[i].status = "approved") => ~Denied'
    /\ (grants' \ grants # {}) => \E i \in Ids : Decided(i) /\ request'[i].scope = "artifact"
    /\ \A p \in Projects : (viewers'[p] \ viewers[p] # {}) =>
         (p = world.place /\ \E i \in Ids : Decided(i) /\ request'[i].scope = "project")

\* A decision is final, and there is one request to decide at a time.
DecidedOnce ==
    \A i \in Ids : request[i].status \in {"approved", "rejected"} => request'[i] = request[i]

RightlyDecided == ByTheHandler /\ ApprovalIsGrant /\ DecidedOnce
=============================================================================
