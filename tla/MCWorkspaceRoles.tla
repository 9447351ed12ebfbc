--------------------------- MODULE MCWorkspaceRoles ---------------------------
(* The people of a workspace on small instances: "of" tells which.             *)
(*   roles:     two operations on roles and memberships, and the members page  *)
(*              that repairs a workspace without an owner                      *)
(*   members:   two removals, restorations, grants and sign-ins                *)
(*   placement: two integrations, transfers and sign-ins, and the members page *)
(*   decisions: two handlers of access requests while the workspace changes    *)
(*   handlers:  every workspace of three people, at rest                       *)
EXTENDS WorkspaceRoles, TLC
CONSTANTS u1, u2, u3, c1, c2, c3, o1, o2, Bot, Stranger
VARIABLES of, world, grants, viewers, request, op, changes   \* AccessRequests

People == 1 .. 3

\* Every workspace of three people, of whom one may be unverified, and one project,
\* which the first of them created as a member.
OneOwner == {r \in [People -> {"none", "member", "admin", "owner", "removed"}] :
               r[1] # "none" /\ Cardinality({u \in People : r[u] = "owner"}) <= 1}
AllWorlds ==
    {[owner |-> o, visibility |-> l[1], place |-> l[2], archived |-> l[3],
      creator |-> [p \in {"p"} |-> 1], managers |-> m, role |-> r, verified |-> People \ {n},
      plan |-> b[1], posting |-> b[2]]
        : o \in {1, 2, Bot}, m \in {{}, {1}, {2}, {3}, {2, 3}}, r \in OneOwner, n \in 0 .. 3,
          l \in {<<"private", "inbox", {}>>, <<"private", "p", {}>>, <<"project", "p", {}>>,
                 <<"project", "p", {"p"}>>},
          b \in {<<"free", FALSE>>, <<"plus", FALSE>>, <<"plus", TRUE>>, <<"team", FALSE>>,
                 <<"team", TRUE>>}}

\* A few that differ in who decides.
SomeWorlds ==
    {[owner |-> o, visibility |-> "project", place |-> "p", archived |-> {},
      creator |-> [p \in {"p", "q"} |-> l[1]], managers |-> {}, role |-> r, verified |-> People,
      plan |-> l[2], posting |-> TRUE]
        : o \in {2, Bot}, l \in {<<2, "plus">>, <<1, "team">>},
          r \in {[u \in People |-> IF u = 1 THEN "owner" ELSE IF u = 2 THEN "member" ELSE "admin"]}}

Decisions == INSTANCE AccessRequests WITH
  Users <- People, Requester <- Stranger, Projects <- {"p", "q"}, Ops <- {o1, o2},
  Worlds <- SomeWorlds, MaxRequests <- 1, MaxChanges <- 2, MaxGrants <- 1
Handlers == INSTANCE AccessRequests WITH
  Users <- People, Requester <- Stranger, Projects <- {"p"}, Ops <- {},
  Worlds <- AllWorlds, MaxRequests <- 0, MaxChanges <- 0, MaxGrants <- 1

ASSUME Decisions!RequestsAssumption /\ Handlers!RequestsAssumption
ASSUME Decisions!WorldsAssumption /\ Handlers!WorldsAssumption

requests == <<world, grants, viewers, request, op, changes>>

Begins(c, kinds) == (call[c].step = "idle" /\ call'[c].step # "idle") => call'[c].kind \in kinds
Unused(c) == call'[c].step = "idle"
RemovesOnce(c) ==
  (call[c].step = "idle" /\ call'[c].kind = "remove") => removals[call'[c].target] = 0

AllHere ==
  /\ Init
  /\ home = [u \in Users |-> "team"] /\ status = [u \in Users |-> "active"]
  /\ \A u \in Users : role[u] # "admin"
NoQuestion == world = (CHOOSE w \in SomeWorlds : TRUE) /\ Decisions!Init

MCInit ==
  \/ of \in {"roles", "members", "placement"} /\ Init /\ NoQuestion
  \/ of = "decisions" /\ AllHere /\ Decisions!Init
  \/ of = "handlers" /\ AllHere /\ Handlers!Init

MCNext ==
  /\ \/ /\ of = "roles" /\ Next /\ UNCHANGED requests
        /\ \A c \in Calls : RemovesOnce(c)
             /\ Begins(c, {"transfer", "grant", "revoke", "remove", "load"})
     \/ /\ of = "members" /\ Next /\ UNCHANGED requests
        /\ Unused(Loader)
        /\ \A c \in Calls : Begins(c, {"remove", "restore", "signin", "grant"})
     \/ /\ of = "placement" /\ Next /\ UNCHANGED requests
        /\ \A c \in Calls : Begins(c, {"load", "transfer", "integrate", "signin"})
     \/ of = "decisions" /\ Decisions!Next /\ UNCHANGED vars
     \/ of = "handlers" /\ Handlers!Next /\ UNCHANGED vars
  /\ UNCHANGED of

MCSpec == MCInit /\ [][MCNext]_<<of, vars, requests>>

\* Calls are alike, and so are the people who do not own the workspace.
NameSymmetry ==
  Permutations({u2, u3}) \cup Permutations({c1, c2}) \cup Permutations({o1, o2})

\* Nobody is asked for access who would then be refused, and whoever decides is
\* the handler of that moment: what is decided is granted in the same step, once.
DecidesWithAuthority ==
  /\ [](of = "handlers" => Handlers!SameHandler)
  /\ [][of = "decisions" => Decisions!RightlyDecided]_<<of, requests>>
===============================================================================
