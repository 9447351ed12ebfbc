------------------------- MODULE BridgeConversations -------------------------
(***************************************************************************)
(* The conversations of a publishing bridge.  A channel, known under one   *)
(* or several external ids, is mapped to a project of its own; what is     *)
(* shared from a private channel makes that project private for good:      *)
(* src/apps/web/app/services/bridge-conversation-binding.server.ts and the *)
(* commits of bridge-publish-session.server.ts.                            *)
(*                                                                         *)
(* A call is a request of a bridge from a channel.  The mapping, project   *)
(* and artifact it may make are random ids, told apart by the call; the    *)
(* lease on the request is the subject of BridgeRequests, so that here the *)
(* attempts of one request follow one another.                             *)
(***************************************************************************)
EXTENDS Integers, FiniteSets

CONSTANTS
  ExternalId,  \* ids a channel is known under
  Call,
  Operation,   \* of "publish", "revise" (update, append or set_visibility)
  ProjectLimit, \* of the workspace's plan
  People,      \* bound: what people do, of "archive", "open", "stop"
  MaxRetries,  \* bound: requests that are sent again
  MaxLost,     \* bound: batches whose reply is lost
  None


VARIABLES
  ids,      \* bridge_conversation_ids: the mapping of an external id
  ceiling,  \* bridge_conversations: the privacy ceiling of those that exist
  project,  \* artifact_containers: the base visibility, and whether archived
  artifact, \* shareables: the project and visibility of those that exist
  request,  \* bridge_requests
  live,     \* the bot is not stopped and the fallback project is there
  call,     \* each call, between its steps
  secret,   \* history: the ids a private channel was bound under
  opened,   \* history: the artifacts a person has opened
  retries,  \* history: the number of requests sent again
  lost      \* history: the number of replies lost

vars == <<ids, ceiling, project, artifact, request, live, call, secret, opened, retries, lost>>

Bases == {"workspace", "private"}
ProjectRow == [base: Bases, archived: BOOLEAN]
ArtifactRow == [project: Call, visibility: {"private", "project"}]

ASSUME BoundAssumption ==
  /\ {ProjectLimit, MaxRetries, MaxLost} \subseteq Nat
  /\ IsFiniteSet(ExternalId) /\ Operation \subseteq {"publish", "revise"}
  /\ None \notin Call \cup Bases \cup ProjectRow \cup ArtifactRow

Steps == {"new", "resolve", "create", "created", "narrow", "narrowed", "alias", "attach",
          "attached", "verify", "target", "final", "commit", "undo", "unmap", "drop",
          "recover", "over"}

NoRequest == [ids |-> {}, map |-> None, done |-> FALSE]
NoCall == [pc |-> "new", kind |-> "public", ids |-> {}, op |-> "publish",
           audience |-> "workspace", target |-> None, map |-> None, archived |-> FALSE,
           making |-> FALSE]

TypeOK ==
  /\ \A x \in ExternalId : ids[x] # None => ids[x] \in Call /\ ceiling[ids[x]] # None
  /\ \A m \in Call :
       /\ ceiling[m] \in Bases \cup {None}
       /\ ceiling[m] # None => project[m] # None
       /\ project[m] # None => project[m].base \in Bases
       /\ artifact[m] # None => /\ project[artifact[m].project] # None
                                /\ artifact[m].visibility \in {"private", "project"}
       /\ request[m].map # None => ceiling[request[m].map] # None
       /\ call[m].pc \in Steps
  /\ lost \in 0 .. MaxLost /\ retries \in 0 .. MaxRetries

Init ==
  /\ ids = [x \in ExternalId |-> None]
  /\ ceiling = [m \in Call |-> None]
  /\ project = [m \in Call |-> None]
  /\ artifact = [a \in Call |-> None]
  /\ request = [r \in Call |-> NoRequest]
  /\ live = TRUE
  /\ call = [c \in Call |-> NoCall]
  /\ secret = {} /\ opened = {} /\ retries = 0 /\ lost = 0

-----------------------------------------------------------------------------
At(c, pc) == call[c].pc = pc
Go(c, pc) == call' = [call EXCEPT ![c].pc = pc]
Over(c) == call' = [call EXCEPT ![c] = [NoCall EXCEPT !.pc = "over"]]
Private(c) == call[c].kind = "private"
Map(c) == call[c].map

Conversations == <<ids, ceiling, project>>
Shared == <<artifact, opened>>

\* resolveConversation: the mappings that some ids lead to
Mappings(xs) == {ids[x] : x \in xs} \ {None}

\* What a resolution of one mapping, or of none, gives the call.
Found(c, pc) ==
  call' = [call EXCEPT ![c] = [@ EXCEPT !.pc = pc,
    !.map = IF Mappings(call[c].ids) = {} THEN None ELSE CHOOSE m \in Mappings(call[c].ids) : TRUE,
    !.archived = \E m \in Mappings(call[c].ids) : project[m].archived]]

Active == {p \in Call : project[p] # None /\ ~project[p].archived}
Lose == lost < MaxLost /\ lost' = lost + 1

Asks(kind, xs, op, audience, target) ==
  [pc |-> "resolve", kind |-> kind, ids |-> xs, op |-> op, audience |-> audience,
   target |-> target, map |-> None, archived |-> FALSE, making |-> FALSE]

Begin(c) ==
  /\ At(c, "new") /\ live
  /\ \E kind \in {"public", "private"}, xs \in (SUBSET ExternalId) \ {{}}, op \in Operation,
        audience \in Bases, target \in Call \cup {None} :
       /\ op = "publish" <=> target = None
       /\ call' = [call EXCEPT ![c] = Asks(kind, xs, op, audience, target)]
  /\ UNCHANGED <<Conversations, Shared, request, live, secret, retries, lost>>

Resolve(c) ==
  /\ At(c, "resolve")
  /\ IF Cardinality(Mappings(call[c].ids)) > 1 THEN Over(c)
     ELSE Found(c, IF Private(c) THEN (IF Mappings(call[c].ids) = {} THEN "create" ELSE "narrow")
                   ELSE (IF Mappings(call[c].ids) = {} THEN "verify" ELSE "alias"))
  /\ UNCHANGED <<Conversations, Shared, request, live, secret, retries, lost>>

-----------------------------------------------------------------------------
(* createPrivateConversationBarrier *)

Unclaimed(c) == \A x \in call[c].ids : ids[x] = None

\* A project, its mapping and the ids, or nothing if one of them cannot be.
Mappable(c) ==
  /\ live /\ Cardinality(Active) < ProjectLimit
  /\ project[c] = None
  /\ Unclaimed(c)

MapTo(c, base) ==
  /\ project' = [project EXCEPT ![c] = [base |-> base, archived |-> FALSE]]
  /\ ceiling' = [ceiling EXCEPT ![c] = base]
  /\ ids' = [x \in ExternalId |-> IF x \in call[c].ids THEN c ELSE ids[x]]

Create(c) ==
  /\ At(c, "create") /\ Mappable(c) /\ MapTo(c, "private")
  /\ \/ /\ call' = [call EXCEPT ![c].pc = "narrow", ![c].map = c] /\ UNCHANGED lost
     \/ Lose /\ Go(c, "created")
  /\ UNCHANGED <<Shared, request, live, secret, retries>>

CreateFails(c) ==
  /\ At(c, "create") /\ Go(c, "created")
  /\ UNCHANGED <<Conversations, Shared, request, live, secret, retries, lost>>

\* The conversation another call mapped meanwhile is taken, else it is tried
\* again under another name or given up.
Created(c) ==
  /\ At(c, "created")
  /\ LET found == Mappings(call[c].ids) IN
     IF Cardinality(found) = 1 THEN Found(c, "narrow")
     ELSE IF found = {} THEN Go(c, "create") \/ Over(c)
     ELSE Over(c)
  /\ UNCHANGED <<Conversations, Shared, request, live, secret, retries, lost>>

-----------------------------------------------------------------------------
(* narrowConversationBarrier *)

Closed(m) ==
  [a \in Call |-> IF artifact[a] # None /\ artifact[a].project = m
                    THEN [artifact[a] EXCEPT !.visibility = "private"] ELSE artifact[a]]

\* The batch, every part of which asks for a live authority.
Narrowing(m) ==
  IF ~live THEN UNCHANGED <<ceiling, project, artifact, opened>>
  ELSE /\ ceiling' = [ceiling EXCEPT ![m] = IF @ = None THEN None ELSE "private"]
       /\ project' = IF project[m] = None \/ project[m].archived THEN project
                     ELSE [project EXCEPT ![m].base = "private"]
       /\ artifact' = Closed(m)
       /\ opened' = {a \in opened : artifact[a] = None \/ artifact[a].project # m}

Narrow(c) ==
  /\ At(c, "narrow") /\ ~call[c].archived
  /\ Narrowing(Map(c))
  /\ \/ Go(c, "narrowed") /\ UNCHANGED lost
     \/ Lose /\ Over(c)
  /\ UNCHANGED <<ids, request, live, secret, retries>>

NarrowFails(c) ==
  /\ At(c, "narrow") /\ Over(c)
  /\ UNCHANGED <<Conversations, Shared, request, live, secret, retries, lost>>

\* The mapping is resolved again through the ids it has.
Narrowed(c) ==
  /\ At(c, "narrowed")
  /\ IF /\ \E x \in ExternalId : ids[x] = Map(c)
        /\ ~project[Map(c)].archived /\ ceiling[Map(c)] = "private"
       THEN Go(c, "alias") ELSE Over(c)
  /\ UNCHANGED <<Conversations, Shared, request, live, secret, retries, lost>>

-----------------------------------------------------------------------------
(* attachConversationAliases *)

Taken(c) == \E x \in call[c].ids : ids[x] \notin {None, Map(c)}

Alias(c) ==
  /\ At(c, "alias")
  /\ IF call[c].archived \/ Taken(c) THEN Over(c) ELSE Go(c, "attach")
  /\ UNCHANGED <<Conversations, Shared, request, live, secret, retries, lost>>

Attachable(c) == ceiling[Map(c)] # None /\ ~Taken(c)

\* The batch may fail, and it fails or inserts nothing when it meets a claim.
Attach(c) ==
  /\ At(c, "attach") /\ Go(c, "attached")
  /\ \/ /\ Attachable(c)
        /\ ids' = [x \in ExternalId |-> IF x \in call[c].ids THEN Map(c) ELSE ids[x]]
     \/ UNCHANGED ids
  /\ UNCHANGED <<ceiling, project, Shared, request, live, secret, retries, lost>>

Attached(c) ==
  /\ At(c, "attached")
  /\ IF \A x \in call[c].ids : ids[x] = Map(c) THEN Go(c, "verify") ELSE Over(c)
  /\ UNCHANGED <<Conversations, Shared, request, live, secret, retries, lost>>

-----------------------------------------------------------------------------
\* mutant: a request that was bound is bound again to what is found now
Rebind(c) ==
  [ids |-> call[c].ids, map |-> Map(c), done |-> request[c].done]

\* insertOrVerifyRequestBinding writes the row, or completes one without mapping.
Bind(c) ==
  LET r == request[c] IN
  IF r.ids = {} THEN [r EXCEPT !.ids = call[c].ids, !.map = Map(c)]
  ELSE IF Map(c) # None /\ r.ids = call[c].ids /\ r.map = None /\ ~r.done
    THEN [r EXCEPT !.map = Map(c)]
  ELSE r

\* What is bound goes on if it is what the row says; a completed one is replayed.
Verify(c) ==
  /\ At(c, "verify")
  /\ IF Map(c) # None /\ ceiling[Map(c)] = None THEN Over(c) /\ UNCHANGED <<request, secret>>
     ELSE /\ request' = [request EXCEPT ![c] = Bind(c)]
          /\ IF Bind(c).ids # call[c].ids \/ Bind(c).map # Map(c)
               THEN Over(c) /\ UNCHANGED secret
               ELSE /\ secret' = IF Private(c) THEN secret \cup call[c].ids ELSE secret
                    /\ IF Bind(c).done THEN Over(c)
                       ELSE Go(c, IF call[c].op = "publish" THEN "final" ELSE "target")
  /\ UNCHANGED <<Conversations, Shared, live, retries, lost>>

-----------------------------------------------------------------------------
(* The commit of what is shared, in bridge-publish-session.server.ts *)

\* resolveBridgeTarget: an artifact of the conversation's own project
InScope(c) ==
  /\ Map(c) # None /\ ceiling[Map(c)] # None
  /\ artifact[call[c].target] # None /\ artifact[call[c].target].project = Map(c)
  /\ ~project[Map(c)].archived

FindTarget(c) ==
  /\ At(c, "target")
  /\ IF InScope(c) THEN Go(c, "final") ELSE Over(c)
  /\ UNCHANGED <<Conversations, Shared, request, live, secret, retries, lost>>

\* resolveFinalDestination: the mapping as it is after the upload
Final(c) ==
  /\ At(c, "final")
  /\ LET found == Mappings(call[c].ids) IN
     IF \/ ~live \/ Cardinality(found) > 1
        \/ \E m \in found : project[m].archived
       THEN Over(c)
     ELSE Found(c, "commit")
  /\ UNCHANGED <<Conversations, Shared, request, live, secret, retries, lost>>

\* mutant: the audience that was asked for
AsAsked(c, base, limit) == IF call[c].audience = "private" THEN "private" ELSE "project"

Visibility(c, base, limit) ==
  IF "private" \in {call[c].audience, base, limit} THEN "private" ELSE "project"

Complete(c, m) ==
  request' = [request EXCEPT ![c].done = TRUE, ![c].map = m]

\* The channel has no project yet: it is made along with the artifact.
CommitMapped(c) ==
  /\ At(c, "commit") /\ call[c].op = "publish" /\ Map(c) = None
  /\ Mappable(c) /\ MapTo(c, "workspace")
  /\ artifact' = [artifact EXCEPT ![c] =
       [project |-> c, visibility |-> Visibility(c, "workspace", "workspace")]]
  /\ Complete(c, c)
  /\ \/ Over(c) /\ UNCHANGED lost
     \/ Lose /\ call' = [call EXCEPT ![c].pc = "undo", ![c].making = TRUE]
  /\ UNCHANGED <<opened, live, secret, retries>>

Open(m) == ceiling[m] # None /\ ~project[m].archived /\ live

Commit(c) ==
  /\ At(c, "commit") /\ Map(c) # None /\ Open(Map(c))
  /\ call[c].op = "revise" => InScope(c)
  /\ LET a == IF call[c].op = "publish" THEN c ELSE call[c].target IN
     /\ artifact' = [artifact EXCEPT ![a] =
          [project |-> Map(c),
           visibility |-> Visibility(c, project[Map(c)].base, ceiling[Map(c)])]]
     /\ opened' = opened \ {a}
  /\ Complete(c, IF call[c].op = "publish" THEN Map(c) ELSE request[c].map)
  /\ \/ Over(c) /\ UNCHANGED lost
     \/ Lose /\ IF call[c].op = "publish" THEN Go(c, "undo") ELSE Over(c)
  /\ UNCHANGED <<Conversations, live, secret, retries>>

CommitFails(c) ==
  /\ At(c, "commit")
  /\ IF call[c].op = "publish" /\ Map(c) = None THEN Go(c, "recover") ELSE Over(c)
  /\ UNCHANGED <<Conversations, Shared, request, live, secret, retries, lost>>

\* cleanupFailedShareable, whose own failure is let pass
Undo(c) ==
  /\ At(c, "undo")
  /\ artifact' = [artifact EXCEPT ![c] = None] /\ opened' = opened \ {c}
  /\ IF call[c].making THEN Go(c, "unmap") ELSE Over(c)
  /\ UNCHANGED <<Conversations, request, live, secret, retries, lost>>

\* cleanupFailedMapping: the ids, the mapping, and the project if it is empty
Unmap(c) ==
  /\ At(c, "unmap") /\ Go(c, "drop")
  /\ ids' = [x \in ExternalId |-> IF ids[x] = c THEN None ELSE ids[x]]
  /\ UNCHANGED <<ceiling, project, Shared, request, live, secret, retries, lost>>

WithoutEmpty(c) ==
  IF \E a \in Call : artifact[a] # None /\ artifact[a].project = c THEN project
  ELSE [project EXCEPT ![c] = None]

\* ON DELETE SET NULL
Unbound(c) ==
  [r \in Call |-> IF request[r].map = c THEN [request[r] EXCEPT !.map = None] ELSE request[r]]

Drop(c) ==
  /\ At(c, "drop")
  /\ call' = [call EXCEPT ![c].pc = "recover", ![c].making = FALSE]
  /\ ceiling' = [ceiling EXCEPT ![c] = None]
  /\ ids' = [x \in ExternalId |-> IF ids[x] = c THEN None ELSE ids[x]]
  /\ request' = Unbound(c)
  /\ project' = WithoutEmpty(c)
  /\ UNCHANGED <<Shared, live, secret, retries, lost>>

\* A conversation that another call mapped is taken; another name is tried;
\* or it is given up.
Recover(c) ==
  /\ At(c, "recover")
  /\ Go(c, "final") \/ Over(c)
  /\ UNCHANGED <<Conversations, Shared, request, live, secret, retries, lost>>

-----------------------------------------------------------------------------
\* A call ends early (a failed query, a stale context, no quota, a crash).
GiveUp(c) ==
  /\ call[c].pc \notin {"new", "over"} /\ Over(c)
  /\ UNCHANGED <<Conversations, Shared, request, live, secret, retries, lost>>

\* The bridge sends the request once more.
Retry(c) ==
  /\ At(c, "over") /\ Go(c, "new")
  /\ retries < MaxRetries /\ retries' = retries + 1
  /\ UNCHANGED <<Conversations, Shared, request, live, secret, lost>>

\* A person archives the project, opens it to the workspace, or an artifact.
Archive(p) ==
  /\ "archive" \in People
  /\ p \in Active /\ project' = [project EXCEPT ![p].archived = TRUE]
  /\ UNCHANGED <<ids, ceiling, Shared, request, live, call, secret, retries, lost>>

OpenProject(p) ==
  /\ "open" \in People
  /\ p \in Active /\ project[p].base = "private"
  /\ project' = [project EXCEPT ![p].base = "workspace"]
  /\ UNCHANGED <<ids, ceiling, Shared, request, live, call, secret, retries, lost>>

OpenArtifact(a) ==
  /\ "open" \in People
  /\ artifact[a] # None /\ artifact[a].visibility = "private"
  /\ artifact' = [artifact EXCEPT ![a].visibility = "project"]
  /\ opened' = opened \cup {a}
  /\ UNCHANGED <<Conversations, request, live, call, secret, retries, lost>>

StopBot ==
  /\ "stop" \in People
  /\ live /\ live' = FALSE
  /\ UNCHANGED <<Conversations, Shared, request, call, secret, retries, lost>>

Step(c) ==
  \/ Begin(c) \/ Resolve(c)
  \/ Create(c) \/ CreateFails(c) \/ Created(c)
  \/ Narrow(c) \/ NarrowFails(c) \/ Narrowed(c)
  \/ Alias(c) \/ Attach(c) \/ Attached(c) \/ Verify(c)
  \/ FindTarget(c) \/ Final(c) \/ CommitMapped(c) \/ Commit(c) \/ CommitFails(c)
  \/ Undo(c) \/ Unmap(c) \/ Drop(c) \/ Recover(c)
  \/ GiveUp(c) \/ Retry(c)

Next ==
  \/ \E c \in Call : Step(c)
  \/ \E p \in Call : Archive(p) \/ OpenProject(p) \/ OpenArtifact(p)
  \/ StopBot

Spec == Init /\ [][Next]_vars

-----------------------------------------------------------------------------
(* Properties *)

\* A conversation a private channel was bound under stays mapped, and private,
\* whatever public requests for it were on their way.
ConversationNeverWidens ==
  \A x \in secret : ids[x] # None /\ ceiling[ids[x]] = "private"

\* No request ever leaves an artifact open in a private conversation; only a
\* person opens one.
SharesWithinCeiling ==
  \A a \in Call :
    artifact[a] # None /\ artifact[a].visibility = "project" /\ a \notin opened =>
      ceiling[artifact[a].project] # "private"

\* What was published under the same ids is in one project, however many first
\* shares raced to make it.
OneProject ==
  \A a, b \in Call :
    /\ request[a].done /\ request[b].done
    /\ artifact[a] # None /\ artifact[b] # None
    /\ request[a].ids = request[b].ids
    => artifact[a].project = artifact[b].project

\* A request that was bound is never routed to another conversation, by its
\* retries or by the mappings that come to be meanwhile.
StaysMapped == \A r \in Call : request[r].map # None => request'[r].map = request[r].map

\* A failed first share leaves no empty project that counts against the plan.
NoLeftoverProject ==
  \A p \in Call :
    project[p] # None /\ call[p].pc \in {"new", "over"} =>
      ceiling[p] # None \/ \E a \in Call : artifact[a] # None /\ artifact[a].project = p

\* Nothing but a person opens an artifact in a private conversation. What a
\* private channel was bound under stays private, and what is shared under the
\* same ids is in one project, as long as no reply was lost. A share that failed
\* leaves no empty project, unless the cleanups of two lost replies cross.
Confidential ==
  /\ TypeOK /\ SharesWithinCeiling
  /\ lost = 0 => ConversationNeverWidens /\ OneProject
  /\ lost <= 1 => NoLeftoverProject

\* A request that was bound is never routed to another conversation, by its
\* retries or by the mappings, archivals and stops that come meanwhile.
BindingStands == [][lost' = 0 => StaysMapped]_vars
=============================================================================
