------------------------- MODULE WorkspaceRolesProofs -------------------------
(***************************************************************************)
(* What WorkspaceRoles promises, for any number of people and operations,  *)
(* and what AccessRequests promises to those who ask for access, for every *)
(* workspace with any number of people and projects.                       *)
(***************************************************************************)
EXTENDS WorkspaceRoles, WellFoundedInduction, TLAPS

\* The requests for access, with constants and variables of their own.
CONSTANTS Joined, Bot, Requester, Projects, Ops, Worlds, MaxRequests, MaxChanges, MaxGrants
VARIABLES world, grants, viewers, request, op, changes

Requests == INSTANCE AccessRequests WITH Users <- Joined


\* The unique index on the rows of an owner, whatever their status.
SingleOwner ==
    \A u, v \in Users :
        (status[u] # "none" /\ role[u] = "owner" /\ status[v] # "none" /\ role[v] = "owner") => u = v

\* Nobody transfers, grants or revokes a role to or from themselves.
OthersOnly ==
    \A c \in Calls :
        (call[c].step # "idle" /\ call[c].kind \in OwnerKinds) => call[c].actor # call[c].target

\* As long as the target of a removal lives here, in the version that was read,
\* it is the stint that was read. A removal from here leaves a newer version, and
\* whoever went to another workspace does not come back.
StintSeen ==
    \A c \in Calls :
        LET t == call[c].target IN
        (call[c].step = "commit" /\ call[c].kind = "remove" /\ call[c].home = "team") =>
            /\ call[c].version <= version[t]
            /\ call[c].version = version[t] =>
                 home[t] = "other" \/ (home[t] = "team" /\ call[c].stint = removals[t])

\* Who has no row has no role.
NoRowNoRole == \A u \in Users : status[u] = "none" => role[u] = "member"

RolesInv == TypeOK /\ HomeIsActive /\ SingleOwner /\ NoRowNoRole /\ OthersOnly /\ StintSeen

-----------------------------------------------------------------------------
(* Types                                                                   *)

LEMMA SomebodyIsAUser == AnyUser \in Users
  BY RolesAssumption DEF AnyUser

LEMMA IdleIsACall == ASSUME NEW u \in Users PROVE Idle(u) \in Call
  BY DEF Idle, Call, AllKinds, Steps, Homes

LEMMA NoAuditTyped ==
  NoAudit \in [action: AllKinds \union {"none"}, actor: Users \union {NoUser},
               target: Users \union {NoUser}]
  BY DEF NoAudit

LEMMA AuditTyped ==
  ASSUME TypeOK, NEW c \in Calls, Audited(c)
  PROVE  audit' \in [action: AllKinds \union {"none"}, actor: Users \union {NoUser},
                     target: Users \union {NoUser}]
  BY DEF TypeOK, Audited, Call

LEMMA FinishTyped ==
  ASSUME TypeOK, NEW c \in Calls, Finish(c)
  PROVE  call' \in [Calls -> Call]
  BY SomebodyIsAUser, IdleIsACall DEF TypeOK, Finish

LEMMA ToTyped ==
  ASSUME TypeOK, NEW c \in Calls, NEW step \in Steps, To(c, step)
  PROVE  call' \in [Calls -> Call]
  BY DEF TypeOK, To, Call

LEMMA EnsuredTyped ==
  ASSUME TypeOK, NEW c \in Calls, NEW u, Ensured(c, u)
  PROVE  call' \in [Calls -> Call]
  <1>1. "read" \in Steps
    BY DEF Steps
  <1> QED
    BY <1>1, FinishTyped, ToTyped DEF Ensured

LEMMA BeginTyped ==
  ASSUME TypeOK, NEW c \in Calls, NEW kind \in Kinds, NEW actor \in Users, NEW target \in Users,
         Begin(c, kind, actor, target)
  PROVE  TypeOK'
  <1>1. call' \in [Calls -> Call]
    BY RolesAssumption, IdleIsACall DEF TypeOK, Begin, Idle, Call, First, Steps, Homes
  <1> QED
    BY <1>1, NoAuditTyped DEF TypeOK, Begin, Quiet, people

LEMMA StepTyped ==
  ASSUME TypeOK, NEW c \in Calls, Step(c)
  PROVE  TypeOK'
  <1> USE DEF people
  <1>s. \A step \in {"read", "find", "promote", "fallback", "assign", "reread", "commit", "activate",
                     "move"} : step \in Steps
    BY DEF Steps
  <1>1. CASE Authorize(c)
    BY <1>1, <1>s, ToTyped, FinishTyped, NoAuditTyped DEF Authorize, Quiet, TypeOK
  <1>2. CASE Find(c)
    <2>1. call' \in [Calls -> Call]
      BY <1>2, <1>s, EnsuredTyped, ToTyped DEF Find, TypeOK, Call
    <2> QED
      BY <2>1, <1>2, NoAuditTyped DEF Find, Quiet, TypeOK
  <1>3. CASE Promote(c)
    <2>1. call' \in [Calls -> Call]
      BY <1>3, <1>s, EnsuredTyped, ToTyped DEF Promote
    <2>2. role' \in [Users -> {"member", "admin", "owner"}]
      BY <1>3 DEF Promote, TypeOK
    <2> QED
      BY <2>1, <2>2, <1>3, NoAuditTyped DEF Promote, TypeOK
  <1>4. CASE Fallback(c)
    <2>1. call' \in [Calls -> Call]
      BY <1>4, <1>s, EnsuredTyped DEF Fallback, TypeOK, Call
    <2> QED
      BY <2>1, <1>4, NoAuditTyped DEF Fallback, Quiet, TypeOK
  <1>5. CASE Assign(c)
    <2>1. call' \in [Calls -> Call]
      BY <1>5, <1>s, FinishTyped, ToTyped DEF Assign
    <2>2. /\ role' \in [Users -> {"member", "admin", "owner"}]
          /\ status' \in [Users -> {"none", "active", "removed"}]
      BY <1>5 DEF Assign, TypeOK
    <2> QED
      BY <2>1, <2>2, <1>5, NoAuditTyped DEF Assign, TypeOK
  <1>6. CASE Reread(c)
    BY <1>6, EnsuredTyped, FinishTyped, NoAuditTyped DEF Reread, Quiet, TypeOK
  <1>7. CASE Read(c)
    <2>1. call' \in [Calls -> Call]
      BY <1>7, <1>s, FinishTyped DEF Read, TypeOK, Call
    <2> QED
      BY <2>1, <1>7, NoAuditTyped DEF Read, Quiet, TypeOK
  <1>8. CASE CommitTransfer(c)
    <2>1. role' \in [Users -> {"member", "admin", "owner"}]
      BY <1>8 DEF CommitTransfer, TypeOK
    <2>2. audit' = NoAudit \/ Audited(c)
      BY <1>8 DEF CommitTransfer
    <2> QED
      BY <1>8, <2>1, <2>2, FinishTyped, NoAuditTyped, AuditTyped DEF CommitTransfer, TypeOK
  <1>9. ASSUME NEW kind, NEW from, NEW to \in {"member", "admin"}, CommitRole(c, kind, from, to)
        PROVE  TypeOK'
    <2>1. role' \in [Users -> {"member", "admin", "owner"}]
      BY <1>9 DEF CommitRole, TypeOK
    <2>2. audit' = NoAudit \/ Audited(c)
      BY <1>9 DEF CommitRole
    <2> QED
      BY <1>9, <2>1, <2>2, FinishTyped, NoAuditTyped, AuditTyped DEF CommitRole, TypeOK
  <1>10. CASE CommitRemove(c)
    <2>1. /\ status' \in [Users -> {"none", "active", "removed"}]
          /\ home' \in [Users -> Homes]
          /\ owns' \in [Users -> Nat]
          /\ version' \in [Users -> Nat]
          /\ removals' \in [Users -> Nat]
      BY <1>10 DEF CommitRemove, TypeOK, Homes
    <2>2. audit' = NoAudit \/ Audited(c)
      BY <1>10 DEF CommitRemove
    <2> QED
      BY <1>10, <2>1, <2>2, FinishTyped, NoAuditTyped, AuditTyped DEF CommitRemove, TypeOK
  <1>11. CASE CommitRestore(c)
    <2>1. /\ status' \in [Users -> {"none", "active", "removed"}]
          /\ home' \in [Users -> Homes]
      BY <1>11 DEF CommitRestore, TypeOK, Homes
    <2>2. audit' = NoAudit \/ Audited(c)
      BY <1>11 DEF CommitRestore
    <2> QED
      BY <1>11, <2>1, <2>2, FinishTyped, NoAuditTyped, AuditTyped DEF CommitRestore, TypeOK
  <1>12. CASE CommitIntegrate(c)
    <2>1. /\ status' \in [Users -> {"none", "active", "removed"}]
          /\ home' \in [Users -> Homes]
      BY <1>12 DEF CommitIntegrate, TypeOK, Homes
    <2>2. audit' = NoAudit \/ Audited(c)
      BY <1>12 DEF CommitIntegrate
    <2> QED
      BY <1>12, <2>1, <2>2, FinishTyped, NoAuditTyped, AuditTyped DEF CommitIntegrate, TypeOK
  <1>13. CASE Resolve(c)
    <2>1. call' \in [Calls -> Call]
      BY <1>13, <1>s, FinishTyped, ToTyped DEF Resolve
    <2> QED
      BY <2>1, <1>13, NoAuditTyped DEF Resolve, Quiet, TypeOK
  <1>14. CASE Activate(c)
    <2>1. /\ role' \in [Users -> {"member", "admin", "owner"}]
          /\ status' \in [Users -> {"none", "active", "removed"}]
      BY <1>14 DEF Activate, TypeOK
    <2> QED
      BY <1>14, <2>1, <1>s, ToTyped, NoAuditTyped DEF Activate, TypeOK
  <1>15. CASE Move(c)
    <2>1. call' \in [Calls -> Call]
      BY <1>15, <1>s, FinishTyped, ToTyped DEF Move
    <2>2. /\ status' \in [Users -> {"none", "active", "removed"}]
          /\ home' \in [Users -> Homes]
      BY <1>15 DEF Move, TypeOK, Homes
    <2>3. owns' \in [Users -> Nat]
      BY <1>15 DEF Move, Moves, TypeOK
    <2> QED
      BY <1>15, <2>1, <2>2, <2>3, NoAuditTyped DEF Move, TypeOK
  <1> QED
    BY <1>1, <1>2, <1>3, <1>4, <1>5, <1>6, <1>7, <1>8, <1>9, <1>10, <1>11, <1>12, <1>13, <1>14,
       <1>15
       DEF Step, Commit

-----------------------------------------------------------------------------
(* What a step does to the operations in flight                            *)

\* An operation keeps its question, and what it read, until it is over.
Goes(d) ==
    /\ call'[d].step # "idle" =>
         /\ call[d].step # "idle" /\ call'[d].kind = call[d].kind
         /\ call'[d].actor = call[d].actor /\ call'[d].target = call[d].target
    /\ call'[d].step = "commit" => call'[d] = call[d]

LEMMA OthersStay ==
  ASSUME TypeOK, NEW c \in Calls, NEW d \in Calls, d # c, Step(c)
  PROVE  call'[d] = call[d]
  BY DEF TypeOK, Step, Commit, Authorize, Find, Promote, Fallback, Assign, Reread, Read,
     CommitTransfer,
         CommitRole, CommitRemove, CommitRestore, CommitIntegrate, Resolve, Activate, Move,
         To, Finish, Ensured

LEMMA ToGoes ==
  ASSUME TypeOK, NEW c \in Calls, NEW step \in Steps \ {"commit"}, call[c].step # "idle", To(c, step)
  PROVE  Goes(c)
  BY DEF TypeOK, To, Goes, Call

LEMMA FinishGoes ==
  ASSUME TypeOK, NEW c \in Calls, Finish(c)
  PROVE  Goes(c)
  BY DEF TypeOK, Finish, Goes, Idle

LEMMA EnsuredGoes ==
  ASSUME TypeOK, NEW c \in Calls, NEW u, call[c].step # "idle", Ensured(c, u)
  PROVE  Goes(c)
  BY ToGoes, FinishGoes DEF Ensured, Steps

LEMMA StepGoes ==
  ASSUME TypeOK, NEW c \in Calls, Step(c), ~Read(c)
  PROVE  Goes(c)
  <1>s. \A step \in {"read", "find", "promote", "fallback", "assign", "reread", "activate", "move"} :
           step \in Steps \ {"commit"}
    BY DEF Steps
  <1>1. CASE Authorize(c)
    BY <1>1, <1>s, ToGoes, FinishGoes DEF Authorize
  <1>2. CASE Find(c)
    <2>1. ASSUME NEW u \in Users, call' = [call EXCEPT ![c].step = "promote", ![c].found = u]
          PROVE  Goes(c)
      BY <2>1, <1>2 DEF Goes, TypeOK, Call, Find
    <2> QED
      BY <1>2, <2>1, <1>s, EnsuredGoes, ToGoes DEF Find
  <1>3. CASE Promote(c)
    BY <1>3, <1>s, EnsuredGoes, ToGoes DEF Promote
  <1>4. CASE Fallback(c)
    <2>1. ASSUME NEW u \in Users, call' = [call EXCEPT ![c].step = "assign", ![c].found = u]
          PROVE  Goes(c)
      BY <2>1, <1>4 DEF Goes, TypeOK, Call, Fallback
    <2> QED
      BY <1>4, <2>1, EnsuredGoes DEF Fallback
  <1>5. CASE Assign(c)
    BY <1>5, <1>s, ToGoes, FinishGoes DEF Assign
  <1>6. CASE Reread(c)
    BY <1>6, EnsuredGoes, FinishGoes DEF Reread
  <1>7. CASE Commit(c)
    BY <1>7, FinishGoes
       DEF Commit, CommitTransfer, CommitRole, CommitRemove, CommitRestore, CommitIntegrate
  <1>8. CASE Resolve(c)
    BY <1>8, <1>s, ToGoes, FinishGoes DEF Resolve
  <1>9. CASE Activate(c)
    BY <1>9, <1>s, ToGoes DEF Activate
  <1>10. CASE Move(c)
    BY <1>10, <1>s, ToGoes, FinishGoes DEF Move
  <1> QED
    BY <1>1, <1>2, <1>3, <1>4, <1>5, <1>6, <1>7, <1>8, <1>9, <1>10 DEF Step

-----------------------------------------------------------------------------
(* The invariants                                                          *)

LEMMA HomeStep ==
  ASSUME TypeOK, HomeIsActive, NEW c \in Calls, Step(c)
  PROVE  HomeIsActive'
  <1> USE DEF TypeOK, HomeIsActive, Quiet, people
  <1>1. CASE Authorize(c) \/ Find(c) \/ Fallback(c) \/ Reread(c) \/ Read(c) \/ Resolve(c)
    BY <1>1 DEF Authorize, Find, Fallback, Reread, Read, Resolve
  <1>2. CASE Promote(c) \/ CommitTransfer(c) \/ CommitRole(c, "grant", "member", "admin")
               \/ CommitRole(c, "revoke", "admin", "member")
    BY <1>2 DEF Promote, CommitTransfer, CommitRole
  <1>3. CASE Assign(c)
    BY <1>3 DEF Assign
  <1>4. CASE CommitRemove(c)
    BY <1>4 DEF CommitRemove, Removable
  <1>5. CASE CommitRestore(c)
    BY <1>5 DEF CommitRestore
  <1>6. CASE CommitIntegrate(c)
    BY <1>6 DEF CommitIntegrate
  <1>7. CASE Activate(c)
    BY <1>7 DEF Activate
  <1>8. CASE Move(c)
    BY <1>8 DEF Move, ActiveAfter
  <1> QED
    BY <1>1, <1>2, <1>3, <1>4, <1>5, <1>6, <1>7, <1>8 DEF Step, Commit

LEMMA OwnerStep ==
  ASSUME TypeOK, SingleOwner, NoRowNoRole, OthersOnly, NEW c \in Calls, Step(c)
  PROVE  SingleOwner' /\ NoRowNoRole'
  <1> USE DEF TypeOK, SingleOwner, NoRowNoRole, Quiet, people
  <1>1. CASE Authorize(c) \/ Find(c) \/ Fallback(c) \/ Reread(c) \/ Read(c) \/ Resolve(c)
    BY <1>1 DEF Authorize, Find, Fallback, Reread, Read, Resolve
  <1>2. CASE Promote(c)
    BY <1>2 DEF Promote, Active, OwnerFree
  <1>3. CASE Assign(c)
    BY <1>3 DEF Assign, OwnerFree
  <1>4. CASE CommitTransfer(c)
    <2> DEFINE a == call[c].actor
               t == call[c].target
    <2>1. a \in Users /\ t \in Users /\ a # t
      BY <1>4 DEF CommitTransfer, OthersOnly, Call, OwnerKinds
    <2>2. CASE Transferable(c)
      <3>1. Demotes(c) /\ status[a] = "active" /\ role[a] = "owner" /\ status[t] = "active"
        BY <2>2 DEF Transferable, Demotes, ActiveOwner, Active, Eligible
      <3>2. role' = [role EXCEPT ![a] = "admin", ![t] = "owner"] /\ status' = status
        BY <1>4, <2>1, <2>2, <3>1 DEF CommitTransfer
      <3> QED
        BY <2>1, <3>1, <3>2
    <2>3. CASE ~Transferable(c)
      <3>1. status' = status /\ \A u \in Users : role'[u] = role[u] \/ (role'[u] = "admin" /\ role[u] = "owner")
        BY <1>4, <2>1, <2>3 DEF CommitTransfer, Demotes, ActiveOwner, Active
      <3> QED
        BY <3>1
    <2> QED
      BY <2>2, <2>3
  <1>5. CASE \/ CommitRole(c, "grant", "member", "admin") \/ CommitRole(c, "revoke", "admin", "member")
    BY <1>5 DEF CommitRole, Regrantable, Eligible
  <1>6. CASE CommitRemove(c)
    BY <1>6 DEF CommitRemove, Removable
  <1>7. CASE CommitRestore(c)
    BY <1>7 DEF CommitRestore, Restorable
  <1>8. CASE CommitIntegrate(c)
    BY <1>8 DEF CommitIntegrate
  <1>9. CASE Activate(c)
    BY <1>9 DEF Activate
  <1>10. CASE Move(c)
    BY <1>10 DEF Move
  <1> QED
    BY <1>1, <1>2, <1>3, <1>4, <1>5, <1>6, <1>7, <1>8, <1>9, <1>10 DEF Step, Commit

LEMMA StintStep ==
  ASSUME TypeOK, StintSeen, NEW c \in Calls, Step(c)
  PROVE  StintSeen'
  <1> SUFFICES ASSUME NEW d \in Calls,
                      call'[d].step = "commit", call'[d].kind = "remove", call'[d].home = "team"
               PROVE  LET t == call'[d].target IN
                      /\ call'[d].version <= version'[t]
                      /\ call'[d].version = version'[t] =>
                           home'[t] = "other" \/ (home'[t] = "team" /\ call'[d].stint = removals'[t])
    BY DEF StintSeen
  <1>1. CASE Read(c) /\ d = c
    BY <1>1 DEF Read, Finish, Idle, Quiet, people, TypeOK, Call
  <1>2. CASE ~(Read(c) /\ d = c)
    <2> DEFINE t == call[d].target
    <2>1. call'[d] = call[d] /\ call[d].version \in Nat /\ t \in Users
      BY <1>2, OthersStay, StepGoes DEF Goes, TypeOK, Call
    <2>2. /\ call[d].version <= version[t]
          /\ call[d].version = version[t] =>
               home[t] = "other" \/ (home[t] = "team" /\ call[d].stint = removals[t])
      BY <2>1 DEF StintSeen
    <2> HIDE DEF t
    <2> USE DEF TypeOK, Quiet, people
    <2>3. CASE CommitRemove(c)
      BY <2>1, <2>2, <2>3 DEF CommitRemove, Removable, t
    <2>4. CASE CommitRestore(c)
      BY <2>1, <2>2, <2>4 DEF CommitRestore, Restorable, t
    <2>5. CASE CommitIntegrate(c)
      BY <2>1, <2>2, <2>5 DEF CommitIntegrate, t
    <2>6. CASE Move(c)
      BY <2>1, <2>2, <2>6 DEF Move, ActiveAfter, Moves, t
    <2>7. CASE ~(CommitRemove(c) \/ CommitRestore(c) \/ CommitIntegrate(c) \/ Move(c))
      <3>1. UNCHANGED <<home, version, removals>>
        BY <2>7 DEF Step, Commit, Authorize, Find, Fallback, Reread, Read, Resolve, Promote, Assign,
                    CommitTransfer, CommitRole, Activate
      <3> QED
        BY <2>1, <2>2, <3>1 DEF t
    <2> QED
      BY <2>3, <2>4, <2>5, <2>6, <2>7
  <1> QED
    BY <1>1, <1>2

LEMMA InitInv == Init => RolesInv
  <1> SUFFICES ASSUME Init PROVE RolesInv
    OBVIOUS
  <1>1. TypeOK
    BY RolesAssumption, SomebodyIsAUser, IdleIsACall, NoAuditTyped DEF Init, TypeOK, Homes
  <1>2. HomeIsActive /\ SingleOwner /\ NoRowNoRole
    BY DEF Init, HomeIsActive, SingleOwner, NoRowNoRole
  <1>3. \A c \in Calls : call[c].step = "idle"
    BY DEF Init, Idle
  <1> QED
    BY <1>1, <1>2, <1>3 DEF RolesInv, OthersOnly, StintSeen

LEMMA BeginInv ==
  ASSUME RolesInv, NEW c \in Calls, NEW kind \in Kinds, NEW actor \in Users, NEW target \in Users,
         Begin(c, kind, actor, target)
  PROVE  RolesInv'
  <1>1. TypeOK'
    BY BeginTyped DEF RolesInv
  <1>2. HomeIsActive' /\ SingleOwner' /\ NoRowNoRole'
    BY DEF RolesInv, HomeIsActive, SingleOwner, NoRowNoRole, Begin, Quiet, people
  <1>3. /\ call'[c].kind = kind /\ call'[c].actor = actor /\ call'[c].target = target
        /\ call'[c].step # "commit"
        /\ \A d \in Calls \ {c} : call'[d] = call[d]
    BY DEF RolesInv, TypeOK, Begin, Idle, First, Call
  <1>4. OthersOnly'
    <2>1. kind \in OwnerKinds => actor # target
      BY DEF Begin, OwnerKinds
    <2> QED
      BY <1>3, <2>1 DEF RolesInv, OthersOnly
  <1>5. StintSeen'
    BY <1>3 DEF RolesInv, StintSeen, Begin, Quiet, people
  <1> QED
    BY <1>1, <1>2, <1>4, <1>5 DEF RolesInv

LEMMA StepInv ==
  ASSUME RolesInv, NEW c \in Calls, Step(c)
  PROVE  RolesInv'
  <1>1. TypeOK' /\ HomeIsActive' /\ SingleOwner' /\ NoRowNoRole' /\ StintSeen'
    BY StepTyped, HomeStep, OwnerStep, StintStep DEF RolesInv
  <1>2. OthersOnly'
    <2> SUFFICES ASSUME NEW d \in Calls, call'[d].step # "idle", call'[d].kind \in OwnerKinds
                 PROVE  call'[d].actor # call'[d].target
      BY DEF OthersOnly
    <2>1. CASE d # c \/ ~Read(c)
      BY <2>1, OthersStay, StepGoes DEF RolesInv, OthersOnly, Goes
    <2>2. CASE d = c /\ Read(c)
      BY <2>2 DEF RolesInv, OthersOnly, TypeOK, Call, Read, Finish, Idle
    <2> QED
      BY <2>1, <2>2
  <1> QED
    BY <1>1, <1>2 DEF RolesInv

LEMMA Inductive == RolesInv /\ [Next]_vars => RolesInv'
  <1> SUFFICES ASSUME RolesInv, [Next]_vars PROVE RolesInv'
    OBVIOUS
  <1>1. CASE UNCHANGED vars
    BY <1>1 DEF vars, people, RolesInv, TypeOK, HomeIsActive, SingleOwner, NoRowNoRole,
       OthersOnly, StintSeen
  <1>2. CASE Next
    BY <1>2, BeginInv, StepInv DEF Next
  <1> QED
    BY <1>1, <1>2

\* The four invariants and the types are kept together.
THEOREM RolesInvariant == Spec => []RolesInv
  BY InitInv, Inductive, PTL DEF Spec

\* Nobody lives in a workspace that removed them.
THEOREM NobodyIsStuck == Spec => []HomeIsActive
  <1>1. RolesInv => HomeIsActive
    BY DEF RolesInv
  <1> QED
    BY <1>1, RolesInvariant, PTL

-----------------------------------------------------------------------------
(* The owner stays                                                         *)

LEMMA KeepsOwner ==
  ASSUME RolesInv, NEW c \in Calls, Step(c), HasOwner, audit'.action # "integrate"
  PROVE  HasOwner'
  <1> PICK u \in Users : status[u] = "active" /\ role[u] = "owner"
    BY DEF HasOwner, ActiveOwner, Active
  <1> USE DEF RolesInv, TypeOK, Quiet, people
  <1>1. SUFFICES ASSUME ~(status'[u] = "active" /\ role'[u] = "owner")
                 PROVE  \E v \in Users : status'[v] = "active" /\ role'[v] = "owner"
    BY DEF HasOwner, ActiveOwner, Active
  <1>2. CASE CommitTransfer(c)
    <2> DEFINE a == call[c].actor
               t == call[c].target
    <2>1. a \in Users /\ t \in Users /\ a # t
      BY <1>2 DEF CommitTransfer, OthersOnly, Call, OwnerKinds
    <2>2. status' = status /\ role[a] = "owner" /\ status[a] = "active" /\ Demotes(c)
      BY <1>1, <1>2, <2>1 DEF CommitTransfer, Demotes, Transferable, ActiveOwner, Active,
         Eligible, SingleOwner
    <2>3. role[t] # "owner" /\ status[t] = "active"
      BY <2>1, <2>2 DEF SingleOwner, Demotes, Eligible
    <2>4. Transferable(c)
      BY <2>1, <2>2, <2>3 DEF Transferable, Demotes
    <2>5. role' = [role EXCEPT ![a] = "admin", ![t] = "owner"]
      BY <1>2, <2>1, <2>2, <2>3, <2>4 DEF CommitTransfer
    <2> QED
      BY <2>1, <2>2, <2>3, <2>5
  <1>3. CASE CommitIntegrate(c)
    BY <1>1, <1>3 DEF CommitIntegrate, Audited, NoAudit
  <1>4. CASE CommitRole(c, "grant", "member", "admin") \/ CommitRole(c, "revoke", "admin", "member")
    BY <1>1, <1>4 DEF CommitRole, Regrantable
  <1>5. CASE CommitRemove(c) \/ CommitRestore(c)
    BY <1>1, <1>5 DEF CommitRemove, Removable, CommitRestore
  <1>6. CASE Promote(c) \/ Assign(c)
    BY <1>1, <1>6 DEF Promote, Assign
  <1>7. CASE Activate(c) \/ Move(c)
    BY <1>1, <1>7 DEF Activate, Move
  <1>8. CASE Authorize(c) \/ Find(c) \/ Fallback(c) \/ Reread(c) \/ Read(c) \/ Resolve(c)
    BY <1>1, <1>8 DEF Authorize, Find, Fallback, Reread, Read, Resolve
  <1> QED
    BY <1>2, <1>3, <1>4, <1>5, <1>6, <1>7, <1>8 DEF Step, Commit

\* Through transfers, removals, repairs and sign-ins of any number of people in
\* any order, a workspace that has an owner keeps one.
THEOREM OwnerStays == Spec => OwnerKept
  <1>1. RolesInv /\ [Next]_vars => [(HasOwner /\ audit'.action # "integrate") => HasOwner']_vars
    <2> SUFFICES ASSUME RolesInv, Next, HasOwner, audit'.action # "integrate" PROVE HasOwner'
      OBVIOUS
    <2>1. CASE \E c \in Calls : Step(c)
      BY <2>1, KeepsOwner
    <2>2. CASE \E c \in Calls, kind \in Kinds, actor, target \in Users : Begin(c, kind, actor, target)
      BY <2>2 DEF Begin, Quiet, people, HasOwner, ActiveOwner, Active
    <2> QED
      BY <2>1, <2>2 DEF Next
  <1> QED
    BY <1>1, RolesInvariant, PTL DEF Spec, OwnerKept

-----------------------------------------------------------------------------
(* Changes are answerable                                                  *)

\* A step that is no batch is on record with nothing, and ends no batch.
LEMMA UnrecordedStep ==
  ASSUME TypeOK, NEW c \in Calls, Step(c), ~Commit(c)
  PROVE  audit' = NoAudit /\ call[c].step # "commit"
  BY DEF Step, Authorize, Find, Promote, Fallback, Assign, Reread, Read, Resolve, Activate, Move,
     Quiet

LEMMA CommitAudits ==
  ASSUME RolesInv, NEW c \in Calls, Commit(c)
  PROVE  <<role, status, home>>' # <<role, status, home>> <=> audit' # NoAudit
  <1> USE DEF RolesInv, TypeOK
  <1>0. Audited(c) => audit' # NoAudit
    BY DEF Audited, NoAudit, Call, AllKinds, AdminKinds, OwnerKinds
  <1>t. call[c].target \in Users
    BY DEF Call
  <1>1. CASE CommitTransfer(c)
    <2> DEFINE a == call[c].actor
               t == call[c].target
    <2>1. a \in Users /\ t \in Users /\ a # t
      BY <1>1 DEF CommitTransfer, OthersOnly, Call, OwnerKinds
    <2>2. CASE Transferable(c)
      <3>1. role[a] = "owner" /\ Demotes(c)
        BY <2>2 DEF Transferable, Demotes, ActiveOwner, Active
      <3>2. role'[a] = "admin" /\ Audited(c)
        BY <1>1, <2>1, <2>2, <3>1 DEF CommitTransfer
      <3> QED
        BY <1>0, <3>1, <3>2
    <2>3. CASE ~Transferable(c)
      <3>1. ~Demotes(c)
        BY <2>1, <2>3 DEF Transferable, Demotes, ActiveOwner, Active, Eligible, SingleOwner
      <3>2. UNCHANGED <<role, status, home>> /\ audit' = NoAudit
        BY <1>1, <2>1, <2>3, <3>1 DEF CommitTransfer
      <3> QED
        BY <3>2
    <2> QED
      BY <2>2, <2>3
  <1>2. CASE CommitRole(c, "grant", "member", "admin") \/ CommitRole(c, "revoke", "admin", "member")
    BY <1>0, <1>t, <1>2 DEF CommitRole, Regrantable
  <1>3. CASE CommitRemove(c)
    BY <1>0, <1>t, <1>3 DEF CommitRemove, Removable
  <1>4. CASE CommitRestore(c)
    BY <1>0, <1>t, <1>4 DEF CommitRestore, Restorable
  <1>5. CASE CommitIntegrate(c)
    BY <1>0, <1>t, <1>5 DEF CommitIntegrate, Integrable
  <1> QED
    BY <1>1, <1>2, <1>3, <1>4, <1>5 DEF Commit

LEMMA CommitAuthorized ==
  ASSUME RolesInv, NEW c \in Calls, Commit(c), audit' # NoAudit, audit'.action # "integrate"
  PROVE  IF audit'.action \in OwnerKinds THEN ActiveOwner(audit'.actor) ELSE ActiveAdmin(audit'.actor)
  <1>1. CASE CommitTransfer(c)
    BY <1>1 DEF CommitTransfer, Transferable, Audited, OwnerKinds
  <1>2. CASE CommitRole(c, "grant", "member", "admin") \/ CommitRole(c, "revoke", "admin", "member")
    BY <1>2 DEF CommitRole, Regrantable, Audited, OwnerKinds
  <1>3. CASE CommitRemove(c) \/ CommitRestore(c)
    BY <1>3 DEF CommitRemove, Removable, CommitRestore, Restorable, Audited, OwnerKinds
  <1>4. CASE CommitIntegrate(c)
    BY <1>4 DEF CommitIntegrate, Audited
  <1> QED
    BY <1>1, <1>2, <1>3, <1>4 DEF Commit

LEMMA CommitRemovesSeen ==
  ASSUME RolesInv, NEW c \in Calls, Commit(c), call[c].kind = "remove", call[c].home = "team",
         audit' # NoAudit
  PROVE  call[c].stint = removals[call[c].target]
  BY DEF RolesInv, TypeOK, Call, StintSeen, Commit, CommitTransfer, CommitRole, CommitRemove,
         CommitRestore, CommitIntegrate, Removable

LEMMA StepAnswerable ==
  ASSUME RolesInv, NEW c \in Calls, Step(c)
  PROVE  Audits /\ ActsWithAuthority /\ RemovesWhatWasSeen
  <1>1. \A d \in Calls : d # c => call'[d] = call[d]
    BY OthersStay DEF RolesInv
  <1>2. CASE Commit(c)
    BY <1>1, <1>2, CommitAudits, CommitAuthorized, CommitRemovesSeen
       DEF Audits, ActsWithAuthority, RemovesWhatWasSeen
  <1>3. CASE ~Commit(c)
    <2>1. audit' = NoAudit /\ call[c].step # "commit"
      BY <1>3, UnrecordedStep DEF RolesInv
    <2> QED
      BY <1>1, <2>1 DEF Audits, ActsWithAuthority, RemovesWhatWasSeen
  <1> QED
    BY <1>2, <1>3

\* Every change of a role, a membership or a home is on record, by somebody who
\* may make it at that moment, and a removal ends the stint that was read.
THEOREM EveryChangeAnswerable == Spec => ChangesAnswerable
  <1>1. RolesInv /\ [Next]_vars => [Audits /\ ActsWithAuthority /\ RemovesWhatWasSeen]_vars
    <2> SUFFICES ASSUME RolesInv, Next PROVE Audits /\ ActsWithAuthority /\ RemovesWhatWasSeen
      OBVIOUS
    <2>1. CASE \E c \in Calls : Step(c)
      BY <2>1, StepAnswerable
    <2>2. CASE \E c \in Calls, kind \in Kinds, actor, target \in Users : Begin(c, kind, actor, target)
      <3> PICK c \in Calls, kind \in Kinds, actor \in Users, target \in Users :
                 Begin(c, kind, actor, target)
        BY <2>2
      <3>1. call[c].step = "idle" /\ audit' = NoAudit /\ \A d \in Calls \ {c} : call'[d] = call[d]
        BY DEF Begin, Quiet, RolesInv, TypeOK
      <3> QED
        BY <3>1 DEF Audits, ActsWithAuthority, RemovesWhatWasSeen
    <2> QED
      BY <2>1, <2>2 DEF Next
  <1> QED
    BY <1>1, RolesInvariant, PTL DEF Spec, ChangesAnswerable

-----------------------------------------------------------------------------
(***************************************************************************)
(* Requests for access.  The two statements of who decides one agree, and  *)
(* every decision is one of the person they name.                          *)
(*                                                                         *)
(* The walk asks each candidate whether they may grant; the expression has *)
(* that in the conditions of its queries, and not all of it: for a bot's   *)
(* artifact it does not ask whether an owner, an administrator or a        *)
(* manager of the project is its creator, nor whether an owner or an       *)
(* administrator manages it.  That does not show, because an active        *)
(* creator comes before all others, and because managers are outsiders.    *)
(***************************************************************************)

(* The earliest of a set of people, and of several queries.                *)

LEMMA LeastOfNats ==
  ASSUME NEW S \in SUBSET Nat, S # {}
  PROVE  \E x \in S : \A y \in S : x <= y
<1>1. PICK x \in S : \A y \in S : ~(<<y, x>> \in OpToRel(<, Nat))
  BY NatLessThanWellFounded, WFMin
<1>2. ASSUME NEW y \in S PROVE x <= y
  <2>1. ~(y < x)
    BY <1>1 DEF OpToRel
  <2>. QED BY <2>1
<1>. QED BY <1>2

\* Earliest is a least element of a set of numbers.
LEMMA EarliestLeast ==
  ASSUME NEW S \in SUBSET Nat, S # {}
  PROVE  Requests!Earliest(S) \in S /\ \A v \in S : Requests!Earliest(S) <= v
<1>1. \E u \in S : \A v \in S : u <= v
  BY LeastOfNats
<1>. QED BY <1>1 DEF Requests!Earliest

LEMMA EarliestIs ==
  ASSUME NEW S \in SUBSET Nat, NEW m \in S, \A v \in S : m <= v
  PROVE  Requests!Earliest(S) = m
<1>1. Requests!Earliest(S) \in S /\ Requests!Earliest(S) <= m
  BY EarliestLeast
<1>2. PICK e \in S : e = Requests!Earliest(S)
  BY <1>1
<1>3. m <= e /\ e <= m
  BY <1>1, <1>2
<1>. QED BY <1>2, <1>3

\* The index of the first query with a row.
LEMMA FirstHit ==
  ASSUME NEW n \in Nat, NEW S, DOMAIN S = 1 .. n, NEW k \in 1 .. n, S[k] # {},
         \A i \in 1 .. n : i < k => S[i] = {}
  PROVE  Requests!Earliest({i \in 1 .. n : S[i] # {}}) = k
<1>. DEFINE H == {i \in 1 .. n : S[i] # {}}
<1>1. H \in SUBSET Nat /\ k \in H /\ \A i \in H : k <= i
  OBVIOUS
<1>. HIDE DEF H
<1>. QED BY <1>1, EarliestIs

\* The first of five queries that has a row.
FirstOf(A, B, C, D, E) ==
  IF A # {} THEN Requests!Earliest(A) ELSE IF B # {} THEN Requests!Earliest(B)
  ELSE IF C # {} THEN Requests!Earliest(C) ELSE IF D # {} THEN Requests!Earliest(D)
  ELSE IF E # {} THEN Requests!Earliest(E) ELSE Requests!Nobody

Hits(S) == {i \in DOMAIN S : S[i] # {}}

\* A walk over five sets.
LEMMA WalkIsFirst ==
  ASSUME NEW S, DOMAIN S = 1 .. 5
  PROVE  (IF Hits(S) = {} THEN Requests!Nobody ELSE Requests!Earliest(S[Requests!Earliest(Hits(S))]))
              = FirstOf(S[1], S[2], S[3], S[4], S[5])
<1>. DEFINE hits == Hits(S)
<1>. SUFFICES (IF hits = {} THEN Requests!Nobody ELSE Requests!Earliest(S[Requests!Earliest(hits)]))
                = FirstOf(S[1], S[2], S[3], S[4], S[5])
  OBVIOUS
<1>1. \A i \in 1 .. 5 : i = 1 \/ i = 2 \/ i = 3 \/ i = 4 \/ i = 5
  OBVIOUS
<1>2. ASSUME NEW k \in 1 .. 5, S[k] # {}, \A i \in 1 .. 5 : i < k => S[i] = {}
      PROVE  hits # {} /\ Requests!Earliest(hits) = k
  <2>1. k \in hits /\ hits = {i \in 1 .. 5 : S[i] # {}}
    BY <1>2 DEF Hits
  <2>2. Requests!Earliest({i \in 1 .. 5 : S[i] # {}}) = k
    BY <1>2, FirstHit
  <2>. HIDE DEF hits
  <2>. QED BY <2>1, <2>2
<1>3. CASE S[1] = {} /\ S[2] = {} /\ S[3] = {} /\ S[4] = {} /\ S[5] = {}
  <2>1. hits = {}
    BY <1>1, <1>3 DEF Hits
  <2>. HIDE DEF hits
  <2>. QED BY <1>3, <2>1 DEF FirstOf
<1>4. CASE S[1] # {}
  <2>1. \A i \in 1 .. 5 : i < 1 => S[i] = {}
    BY <1>1, <1>4
  <2>2. hits # {} /\ Requests!Earliest(hits) = 1
    BY <1>2, <1>4, <2>1
  <2>. HIDE DEF hits
  <2>. QED BY <1>4, <2>2 DEF FirstOf
<1>5. CASE S[1] = {} /\ S[2] # {}
  <2>1. \A i \in 1 .. 5 : i < 2 => S[i] = {}
    BY <1>1, <1>5
  <2>2. hits # {} /\ Requests!Earliest(hits) = 2
    BY <1>2, <1>5, <2>1
  <2>. HIDE DEF hits
  <2>. QED BY <1>5, <2>2 DEF FirstOf
<1>6. CASE S[1] = {} /\ S[2] = {} /\ S[3] # {}
  <2>1. \A i \in 1 .. 5 : i < 3 => S[i] = {}
    BY <1>1, <1>6
  <2>2. hits # {} /\ Requests!Earliest(hits) = 3
    BY <1>2, <1>6, <2>1
  <2>. HIDE DEF hits
  <2>. QED BY <1>6, <2>2 DEF FirstOf
<1>7. CASE S[1] = {} /\ S[2] = {} /\ S[3] = {} /\ S[4] # {}
  <2>1. \A i \in 1 .. 5 : i < 4 => S[i] = {}
    BY <1>1, <1>7
  <2>2. hits # {} /\ Requests!Earliest(hits) = 4
    BY <1>2, <1>7, <2>1
  <2>. HIDE DEF hits
  <2>. QED BY <1>7, <2>2 DEF FirstOf
<1>8. CASE S[1] = {} /\ S[2] = {} /\ S[3] = {} /\ S[4] = {} /\ S[5] # {}
  <2>1. \A i \in 1 .. 5 : i < 5 => S[i] = {}
    BY <1>1, <1>8
  <2>2. hits # {} /\ Requests!Earliest(hits) = 5
    BY <1>2, <1>8, <2>1
  <2>. HIDE DEF hits
  <2>. QED BY <1>8, <2>2 DEF FirstOf
<1>. QED BY <1>3, <1>4, <1>5, <1>6, <1>7, <1>8

\* The first of several queries, up to five, is that of five of which the last are empty.
LEMMA CoalesceIsFirst ==
  ASSUME NEW n \in 1 .. 5, NEW S, DOMAIN S = 1 .. n,
         NEW T, DOMAIN T = 1 .. 5, \A i \in 1 .. 5 : T[i] = IF i <= n THEN S[i] ELSE {}
  PROVE  Requests!Coalesce(S) = FirstOf(T[1], T[2], T[3], T[4], T[5])
<1>. DEFINE hits == Hits(S)
<1>1. Requests!Coalesce(S) = IF hits = {} THEN Requests!Nobody ELSE Requests!Earliest(S[Requests!Earliest(hits)])
  BY DEF Requests!Coalesce, Hits
<1>2. hits = Hits(T)
  BY DEF Hits
<1>3. hits \in SUBSET Nat /\ \A i \in hits : S[i] = T[i]
  BY DEF Hits
<1>. HIDE DEF hits
<1>4. hits # {} => S[Requests!Earliest(hits)] = T[Requests!Earliest(hits)]
  BY <1>3, EarliestLeast
<1>. QED BY <1>1, <1>2, <1>4, WalkIsFirst

LEMMA CoalesceTwo ==
  ASSUME NEW A, NEW B
  PROVE  Requests!Coalesce(<<A, B>>) = FirstOf(A, B, {}, {}, {})
<1>. DEFINE S == <<A, B>>
            T == [i \in 1 .. 5 |-> IF i <= 2 THEN S[i] ELSE {}]
<1>1. DOMAIN S = 1 .. 2 /\ S[1] = A /\ S[2] = B
  OBVIOUS
<1>2. DOMAIN T = 1 .. 5 /\ \A i \in 1 .. 5 : T[i] = IF i <= 2 THEN S[i] ELSE {}
  OBVIOUS
<1>. HIDE DEF S, T
<1>3. Requests!Coalesce(S) = FirstOf(T[1], T[2], T[3], T[4], T[5])
  BY <1>1, <1>2, CoalesceIsFirst
<1>4. T[1] = A /\ T[2] = B /\ T[3] = {} /\ T[4] = {} /\ T[5] = {}
  BY <1>1, <1>2
<1>. QED BY <1>3, <1>4 DEF S

LEMMA CoalesceFour ==
  ASSUME NEW A, NEW B, NEW C, NEW D
  PROVE  Requests!Coalesce(<<A, B, C, D>>) = FirstOf(A, B, C, D, {})
<1>. DEFINE S == <<A, B, C, D>>
            T == [i \in 1 .. 5 |-> IF i <= 4 THEN S[i] ELSE {}]
<1>1. DOMAIN S = 1 .. 4 /\ S[1] = A /\ S[2] = B /\ S[3] = C /\ S[4] = D
  OBVIOUS
<1>2. DOMAIN T = 1 .. 5 /\ \A i \in 1 .. 5 : T[i] = IF i <= 4 THEN S[i] ELSE {}
  OBVIOUS
<1>. HIDE DEF S, T
<1>3. Requests!Coalesce(S) = FirstOf(T[1], T[2], T[3], T[4], T[5])
  BY <1>1, <1>2, CoalesceIsFirst
<1>4. T[1] = A /\ T[2] = B /\ T[3] = C /\ T[4] = D /\ T[5] = {}
  BY <1>1, <1>2
<1>. QED BY <1>3, <1>4 DEF S

-----------------------------------------------------------------------------
(* The walk and the expression                                             *)

Able(w, ctx, i) == {u \in Requests!Candidates(w, ctx)[i] : Requests!Capable(w, ctx, u)}

LEMMA ResolvedIsFirst ==
  ASSUME NEW w, NEW ctx
  PROVE  Requests!Resolved(w, ctx) = FirstOf(Able(w, ctx, 1), Able(w, ctx, 2), Able(w, ctx, 3),
                                  Able(w, ctx, 4), Able(w, ctx, 5))
<1>. DEFINE T == [i \in 1 .. 5 |-> Able(w, ctx, i)]
<1>1. DOMAIN T = 1 .. 5 /\ \A i \in 1 .. 5 : T[i] = Able(w, ctx, i)
  OBVIOUS
<1>2. Hits(T) = {i \in 1 .. 5 : Able(w, ctx, i) # {}}
  BY DEF Hits
<1>3. Requests!Resolved(w, ctx) = IF Hits(T) = {} THEN Requests!Nobody ELSE Requests!Earliest(Able(w, ctx, Requests!Earliest(Hits(T))))
  BY <1>2 DEF Requests!Resolved, Able
<1>4. Hits(T) # {} => Able(w, ctx, Requests!Earliest(Hits(T))) = T[Requests!Earliest(Hits(T))]
  <2>1. Hits(T) \in SUBSET Nat /\ Hits(T) \subseteq 1 .. 5
    BY <1>2
  <2>. SUFFICES ASSUME Hits(T) # {} PROVE Able(w, ctx, Requests!Earliest(Hits(T))) = T[Requests!Earliest(Hits(T))]
    OBVIOUS
  <2>2. Requests!Earliest(Hits(T)) \in 1 .. 5
    BY <2>1, EarliestLeast
  <2>. QED BY <2>2, <1>1
<1>. HIDE DEF T
<1>. QED BY <1>1, <1>3, <1>4, WalkIsFirst

\* The artifact is shared with a project that can be edited.
Shared(w) == w.visibility = "project" /\ w.place \in Projects \ w.archived

\* What a person may grant, read from the workspace as it is.
LEMMA CapableNow ==
  ASSUME NEW w \in Requests!World, NEW u
  PROVE  Requests!Capable(w, Requests!Context(w), u) <=>
           \/ w.owner = u /\ ~Requests!Revoked(w, u)
           \/ w.owner = Bot /\ w.place = "inbox" /\ Requests!AdminOf(w, u)
           \/ Shared(w) /\ Requests!EditsProject(w, w.place, u)
BY DEF Requests!Capable, Requests!GrantsArtifact, Requests!GrantsProject, Requests!Context,
   Shared, Requests!World

\* The candidates who may grant, in the order of the walk.
LEMMA AbleNow ==
  ASSUME NEW w \in Requests!World
  PROVE  LET V == w.verified
             able(S) == {u \in S : Requests!Capable(w, Requests!Context(w), u)}
         IN
         /\ Able(w, Requests!Context(w), 1) = IF w.owner = Bot THEN {} ELSE able({w.owner} \intersect V)
         /\ Able(w, Requests!Context(w), 2) = IF w.owner = Bot /\ w.place \in Projects
                                     THEN able({u \in V : w.creator[w.place] = u /\ Requests!Active(w, u)})
                                     ELSE {}
         /\ Able(w, Requests!Context(w), 3) = able({u \in V : w.role[u] = "owner"})
         /\ Able(w, Requests!Context(w), 4) = able({u \in V : w.role[u] = "admin"})
         /\ Able(w, Requests!Context(w), 5) = IF w.owner = Bot /\ w.place \in Projects
                                     THEN able(w.managers \intersect V) ELSE {}
<1>. DEFINE ctx == Requests!Context(w)
            V == w.verified
            known == {u \in V : Requests!Active(w, u)}
            c1 == IF ctx.owner = Bot THEN {} ELSE {ctx.owner} \intersect V
            c2 == IF ctx.owner = Bot /\ ctx.place \in Projects THEN {ctx.creator} \intersect known ELSE {}
            c3 == {u \in known : w.role[u] = "owner"}
            c4 == {u \in known : w.role[u] = "admin"}
            c5 == IF ctx.owner = Bot /\ ctx.place \in Projects THEN w.managers \intersect V ELSE {}
<1>1. Requests!Candidates(w, ctx) = <<c1, c2, c3, c4, c5>>
  BY DEF Requests!Candidates
<1>2. /\ ctx.owner = w.owner /\ ctx.place = w.place
      /\ w.place \in Projects => ctx.creator = w.creator[w.place]
  BY DEF Requests!Context
<1>3. c3 = {u \in V : w.role[u] = "owner"} /\ c4 = {u \in V : w.role[u] = "admin"}
  BY DEF Requests!Active
<1>4. (w.owner = Bot /\ w.place \in Projects) => c2 = {u \in V : w.creator[w.place] = u /\ Requests!Active(w, u)}
  BY <1>2
<1>5. c1 = (IF w.owner = Bot THEN {} ELSE {w.owner} \intersect V)
      /\ c5 = (IF w.owner = Bot /\ w.place \in Projects THEN w.managers \intersect V ELSE {})
      /\ (~(w.owner = Bot /\ w.place \in Projects) => c2 = {})
  BY <1>2
<1>. HIDE DEF c1, c2, c3, c4, c5
<1>6. /\ Requests!Candidates(w, ctx)[1] = c1 /\ Requests!Candidates(w, ctx)[2] = c2 /\ Requests!Candidates(w, ctx)[3] = c3
      /\ Requests!Candidates(w, ctx)[4] = c4 /\ Requests!Candidates(w, ctx)[5] = c5
  BY <1>1
<1>. HIDE DEF ctx
<1>7. /\ Able(w, ctx, 1) = IF w.owner = Bot THEN {}
                           ELSE {u \in {w.owner} \intersect V : Requests!Capable(w, ctx, u)}
      /\ Able(w, ctx, 2) = IF w.owner = Bot /\ w.place \in Projects
            THEN {u \in {v \in V : w.creator[w.place] = v /\ Requests!Active(w, v)} : Requests!Capable(w, ctx, u)} ELSE {}
      /\ Able(w, ctx, 3) = {u \in {v \in V : w.role[v] = "owner"} : Requests!Capable(w, ctx, u)}
      /\ Able(w, ctx, 4) = {u \in {v \in V : w.role[v] = "admin"} : Requests!Capable(w, ctx, u)}
      /\ Able(w, ctx, 5) = IF w.owner = Bot /\ w.place \in Projects
            THEN {u \in w.managers \intersect V : Requests!Capable(w, ctx, u)} ELSE {}
  BY <1>3, <1>4, <1>5, <1>6 DEF Able
<1>. QED BY <1>7 DEF ctx

Outsiders(w) == \A u \in w.managers : w.role[u] \in {"none", "member"}

\* Who edits a project that is not archived: nobody who owns or administers the
\* workspace does so as a manager.
LEMMA EditorsOf ==
  ASSUME Requests!RequestsAssumption, NEW w \in Requests!World, Outsiders(w), Shared(w), NEW u \in w.verified
  PROVE  Requests!EditsProject(w, w.place, u) <=>
           \/ w.creator[w.place] = u /\ ~Requests!Revoked(w, u)
           \/ Requests!AdminOf(w, u) /\ w.plan = "team"
           \/ Requests!PostingOpen(w) /\ u \in w.managers
BY DEF Requests!EditsProject, Shared

\* A person's artifact.
LEMMA AgreeOnPersons ==
  ASSUME Requests!RequestsAssumption, NEW w \in Requests!World, Requests!CreatorsJoined(w), Outsiders(w), w.owner # Bot
  PROVE  Requests!Resolved(w, Requests!Context(w)) = Requests!Handler(w)
<1>. DEFINE V == w.verified
            can(u) == Requests!Capable(w, Requests!Context(w), u)
            a1 == {u \in {w.owner} \intersect V : can(u)}
            a3 == {u \in {v \in V : w.role[v] = "owner"} : can(u)}
            a4 == {u \in {v \in V : w.role[v] = "admin"} : can(u)}
<1>1. Requests!Resolved(w, Requests!Context(w)) = FirstOf(a1, {}, a3, a4, {})
  BY ResolvedIsFirst, AbleNow
<1>2. \A u \in V : can(u) <=> \/ w.owner = u /\ ~Requests!Revoked(w, u)
                              \/ Shared(w) /\ Requests!EditsProject(w, w.place, u)
  BY CapableNow
<1>. HIDE DEF can
<1>3. CASE Requests!OwnerDecides(w)
  <2>1. w.owner \in V /\ can(w.owner)
    BY <1>2, <1>3 DEF Requests!OwnerDecides
  <2>4. w.owner \in Nat
    BY DEF Requests!World, Requests!RequestsAssumption
  <2>5. a1 = {w.owner}
    BY <2>1
  <2>2. Requests!Earliest({w.owner}) = w.owner
    BY <2>4, EarliestIs
  <2>3. Requests!Handler(w) = w.owner
    BY <1>3 DEF Requests!Handler, Requests!OwnerDecides
  <2>. QED BY <1>1, <2>5, <2>2, <2>3 DEF FirstOf
<1>4. CASE ~Requests!OwnerDecides(w) /\ Shared(w)
  <2>. DEFINE owners == {u \in V : w.role[u] = "owner"}
              admins == {u \in V : w.role[u] = "admin"}
              here(S) == {u \in S : w.plan = "team" \/ w.creator[w.place] = u}
  <2>1. \A u \in V : Requests!EditsProject(w, w.place, u) <=>
           \/ w.creator[w.place] = u /\ ~Requests!Revoked(w, u)
           \/ Requests!AdminOf(w, u) /\ w.plan = "team"
           \/ Requests!PostingOpen(w) /\ u \in w.managers
    BY <1>4, EditorsOf
  <2>2. a1 = {}
    BY <1>2, <1>4, <2>1 DEF Requests!OwnerDecides, Requests!Revoked, Requests!AdminOf, Outsiders
  <2>3. a3 = here(owners)
    BY <1>2, <1>4, <2>1 DEF Requests!OwnerDecides, Requests!Revoked, Requests!AdminOf, Outsiders
  <2>4. a4 = here(admins)
    BY <1>2, <1>4, <2>1 DEF Requests!OwnerDecides, Requests!Revoked, Requests!AdminOf, Outsiders
  <2>5. Requests!Handler(w) = Requests!Coalesce(<<here(owners), here(admins)>>)
    BY <1>4 DEF Requests!Handler, Shared
  <2>. HIDE DEF owners, admins, here, a1, a3, a4
  <2>6. Requests!Handler(w) = FirstOf(here(owners), here(admins), {}, {}, {})
    BY <2>5, CoalesceTwo
  <2>. QED BY <1>1, <2>2, <2>3, <2>4, <2>6 DEF FirstOf
<1>5. CASE ~Requests!OwnerDecides(w) /\ ~Shared(w)
  <2>1. a1 = {} /\ a3 = {} /\ a4 = {}
    BY <1>2, <1>5 DEF Requests!OwnerDecides
  <2>2. Requests!Handler(w) = Requests!Nobody
    BY <1>5 DEF Requests!Handler, Shared
  <2>. QED BY <1>1, <2>1, <2>2 DEF FirstOf
<1>. QED BY <1>3, <1>4, <1>5

\* A bot's artifact.
LEMMA AgreeOnBots ==
  ASSUME Requests!RequestsAssumption, NEW w \in Requests!World, Requests!CreatorsJoined(w), Outsiders(w), w.owner = Bot
  PROVE  Requests!Resolved(w, Requests!Context(w)) = Requests!Handler(w)
<1>. DEFINE V == w.verified
            can(u) == Requests!Capable(w, Requests!Context(w), u)
            owners == {u \in V : w.role[u] = "owner"}
            admins == {u \in V : w.role[u] = "admin"}
            a2 == IF w.place \in Projects
                  THEN {u \in {v \in V : w.creator[w.place] = v /\ Requests!Active(w, v)} : can(u)} ELSE {}
            a3 == {u \in owners : can(u)}
            a4 == {u \in admins : can(u)}
            a5 == IF w.place \in Projects THEN {u \in w.managers \intersect V : can(u)} ELSE {}
<1>1. Requests!Resolved(w, Requests!Context(w)) = FirstOf({}, a2, a3, a4, a5)
  BY ResolvedIsFirst, AbleNow
<1>2. \A u \in V : can(u) <=> \/ w.place = "inbox" /\ Requests!AdminOf(w, u)
                              \/ Shared(w) /\ Requests!EditsProject(w, w.place, u)
  BY CapableNow DEF Requests!World, Requests!RequestsAssumption
<1>. HIDE DEF can
<1>3. ~Requests!OwnerDecides(w)
  BY DEF Requests!OwnerDecides
<1>4. CASE Shared(w)
  <2>. DEFINE creators == {u \in V : w.creator[w.place] = u /\ Requests!Active(w, u)}
              team(S) == {u \in S : w.plan = "team"}
              posters == {u \in w.managers \intersect V : Requests!PostingOpen(w)}
  <2>0. w.place \in Projects /\ w.place # "inbox"
    BY <1>4 DEF Shared, Requests!RequestsAssumption
  <2>1. \A u \in V : can(u) <=>
           \/ w.creator[w.place] = u /\ ~Requests!Revoked(w, u)
           \/ Requests!AdminOf(w, u) /\ w.plan = "team"
           \/ Requests!PostingOpen(w) /\ u \in w.managers
    BY <1>2, <1>4, <2>0, EditorsOf
  <2>2. Requests!Handler(w) = Requests!Coalesce(<<creators, team(owners), team(admins), posters>>)
    BY <1>3, <1>4, <2>0 DEF Requests!Handler, Shared
  <2>3. a2 = creators
    BY <2>0, <2>1 DEF Requests!Active, Requests!Revoked
  <2>4. \A u \in V : u = w.creator[w.place] => (w.role[u] # "none" /\ w.role[u] \in Requests!Roles)
    BY <2>0 DEF Requests!CreatorsJoined, Requests!World
  <2>5. creators = {} => a3 = team(owners) /\ a4 = team(admins) /\ a5 = posters
    <3>. SUFFICES ASSUME creators = {} PROVE a3 = team(owners) /\ a4 = team(admins) /\ a5 = posters
      OBVIOUS
    <3>1. \A u \in V : u = w.creator[w.place] => Requests!Revoked(w, u)
      BY <2>4 DEF Requests!Active, Requests!Revoked, Requests!Roles
    <3>2. a3 = team(owners)
      BY <2>1, <3>1 DEF Requests!AdminOf, Outsiders
    <3>3. a4 = team(admins)
      BY <2>1, <3>1 DEF Requests!AdminOf, Outsiders
    <3>4. a5 = posters
      BY <2>0, <2>1, <3>1 DEF Requests!AdminOf, Outsiders
    <3>. QED BY <3>2, <3>3, <3>4
  <2>. HIDE DEF owners, admins, creators, team, posters, a2, a3, a4, a5
  <2>6. Requests!Handler(w) = FirstOf(creators, team(owners), team(admins), posters, {})
    BY <2>2, CoalesceFour
  <2>. QED BY <1>1, <2>3, <2>5, <2>6 DEF FirstOf
<1>5. CASE ~Shared(w) /\ w.place = "inbox"
  <2>1. a2 = {} /\ a5 = {}
    BY <1>5 DEF Requests!RequestsAssumption
  <2>2. a3 = owners /\ a4 = admins
    BY <1>2, <1>5 DEF Requests!AdminOf
  <2>3. Requests!Handler(w) = Requests!Coalesce(<<owners, admins>>)
    BY <1>3, <1>5 DEF Requests!Handler, Shared
  <2>. HIDE DEF owners, admins, a2, a3, a4, a5
  <2>4. Requests!Handler(w) = FirstOf(owners, admins, {}, {}, {})
    BY <2>3, CoalesceTwo
  <2>. QED BY <1>1, <2>1, <2>2, <2>4 DEF FirstOf
<1>6. CASE ~Shared(w) /\ w.place # "inbox"
  <2>1. a2 = {} /\ a3 = {} /\ a4 = {} /\ a5 = {}
    BY <1>2, <1>6
  <2>2. Requests!Handler(w) = Requests!Nobody
    BY <1>3, <1>6 DEF Requests!Handler, Shared
  <2>. QED BY <1>1, <2>1, <2>2 DEF FirstOf
<1>. QED BY <1>4, <1>5, <1>6

\* The two statements agree, for every workspace.
LEMMA Agree ==
  ASSUME Requests!RequestsAssumption, NEW w \in Requests!World, Requests!CreatorsJoined(w), Outsiders(w)
  PROVE  Requests!Resolved(w, Requests!Context(w)) = Requests!Handler(w)
BY AgreeOnPersons, AgreeOnBots

\* The walk names a person of the workspace, or nobody.
LEMMA ResolvedType ==
  ASSUME Requests!RequestsAssumption, NEW w \in Requests!World, NEW ctx
  PROVE  Requests!Resolved(w, ctx) \in Joined \union {Requests!Nobody}
<1>. DEFINE S(i) == Able(w, ctx, i)
<1>1. \A i \in 1 .. 5 : Requests!Candidates(w, ctx)[i] \subseteq w.verified
  BY DEF Requests!Candidates
<1>2. w.verified \subseteq Joined /\ Joined \subseteq Nat
  BY DEF Requests!World, Requests!RequestsAssumption
<1>3. ASSUME NEW i \in 1 .. 5 PROVE S(i) \subseteq Joined /\ (S(i) # {} => Requests!Earliest(S(i)) \in Joined)
  <2>1. S(i) \subseteq Joined /\ S(i) \in SUBSET Nat
    BY <1>1, <1>2 DEF Able
  <2>. HIDE DEF S
  <2>. QED BY <2>1, EarliestLeast
<1>4. Requests!Resolved(w, ctx) = FirstOf(S(1), S(2), S(3), S(4), S(5))
  BY ResolvedIsFirst
<1>. HIDE DEF S
<1>. QED BY <1>3, <1>4 DEF FirstOf

-----------------------------------------------------------------------------
(* The requests in flight                                                  *)

Ctx == [owner: Joined \union {Bot}, visibility: {"private", "project"}, place: Requests!Places,
        archived: BOOLEAN, creator: Joined \union {Requests!Nobody}]
OpSteps == {"idle", "resolve", "insert", "commit"}
OneOp == [kind: {"none", "create", "approve", "reject"}, user: Joined \union {Requests!Nobody}, id: Nat,
         step: OpSteps, scope: {"none", "artifact", "project"}, ctx: Ctx, attempt: Nat]

\* A decision is about a request, and an approval gives something.
Deciding(q) ==
  /\ q.kind \in {"approve", "reject"} => q.id \in Requests!Ids /\ (q.kind = "approve" <=> q.scope # "none")
  /\ q.step = "commit" => q.kind \in {"approve", "reject"}

WorldInv ==
  /\ world \in Requests!World
  /\ Requests!CreatorsJoined(world)

RequestsInv ==
  /\ WorldInv
  /\ grants \subseteq {Requester}
  /\ viewers \in [Projects -> SUBSET {Requester}]
  /\ request \in [Requests!Ids -> Requests!Request]
  /\ op \in [Ops -> OneOp]
  /\ \A o \in Ops : Deciding(op[o])

LEMMA ContextType == ASSUME NEW w \in Requests!World PROVE Requests!Context(w) \in Ctx
BY DEF Requests!Context, Ctx, Requests!World

LEMMA IdleType ==
  ASSUME Requests!WorldsAssumption
  PROVE  Requests!Idle \in OneOp /\ Deciding(Requests!Idle) /\ Requests!Idle.step = "idle" /\ Requests!Idle.kind = "none"
<1>1. Requests!Context(CHOOSE w \in Worlds : TRUE) \in Ctx
  BY ContextType DEF Requests!WorldsAssumption
<1>. QED BY <1>1 DEF Requests!Idle, OneOp, Deciding, Requests!Nobody, OpSteps

LEMMA RequestsInit ==
  ASSUME Requests!RequestsAssumption, Requests!WorldsAssumption, Requests!Init
  PROVE  RequestsInv
<1>1. WorldInv
  BY DEF Requests!Init, Requests!WorldsAssumption, WorldInv
<1>2. request \in [Requests!Ids -> Requests!Request]
  BY DEF Requests!Init, Requests!NoRequest, Requests!Request
<1>3. op \in [Ops -> OneOp] /\ \A o \in Ops : Deciding(op[o])
  BY IdleType DEF Requests!Init
<1>. QED BY <1>1, <1>2, <1>3 DEF Requests!Init, RequestsInv

\* A handler goes on, whatever it has stored and granted.
LEMMA HandlerGoesOn ==
  ASSUME RequestsInv, NEW o \in Ops, NEW q \in OneOp, Deciding(q), op' = [op EXCEPT ![o] = q],
         UNCHANGED world, grants' \subseteq {Requester}, viewers' \in [Projects -> SUBSET {Requester}],
         request' \in [Requests!Ids -> Requests!Request]
  PROVE  RequestsInv'
<1>1. op' \in [Ops -> OneOp] /\ \A p \in Ops : Deciding(op'[p])
  BY DEF RequestsInv
<1>2. \A p \in Ops : Deciding(op[p])'
  BY <1>1 DEF Deciding
<1>. QED BY <1>1, <1>2 DEF RequestsInv, WorldInv, Requests!CreatorsJoined

LEMMA AskInv ==
  ASSUME Requests!RequestsAssumption, Requests!WorldsAssumption, RequestsInv, NEW o \in Ops, Requests!Ask(o) \/ Requests!ResolveAsk(o)
  PROVE  RequestsInv'
<1>1. UNCHANGED <<world, grants, viewers, request>> /\ world \in Requests!World /\ op[o] \in OneOp
  BY DEF Requests!Ask, Requests!ResolveAsk, RequestsInv, WorldInv
<1>2. CASE Requests!Ask(o)
  <2>. DEFINE q == [Requests!Idle EXCEPT !.kind = "create", !.step = "resolve", !.ctx = Requests!Context(world)]
  <2>1. q \in OneOp /\ Deciding(q)
    BY <1>1, IdleType, ContextType DEF OneOp, Deciding, OpSteps
  <2>2. op' = [op EXCEPT ![o] = q]
    BY <1>2 DEF Requests!Ask
  <2>. HIDE DEF q
  <2>. QED BY <2>1, <2>2, <1>1, HandlerGoesOn DEF RequestsInv
<1>3. CASE Requests!ResolveAsk(o)
  <2>. DEFINE q == [op[o] EXCEPT !.step = "insert", !.user = Requests!Resolved(world, op[o].ctx)]
  <2>1. op[o].kind = "create" /\ Requests!Resolved(world, op[o].ctx) \in Joined \union {Requests!Nobody}
    BY <1>1, <1>3, ResolvedType DEF Requests!ResolveAsk
  <2>2. q \in OneOp /\ Deciding(q)
    BY <1>1, <2>1 DEF OneOp, Deciding, OpSteps
  <2>3. op' = [op EXCEPT ![o] = q] \/ op' = [op EXCEPT ![o] = Requests!Idle]
    BY <1>3 DEF Requests!ResolveAsk, Requests!Done
  <2>. HIDE DEF q
  <2>. QED BY <2>2, <2>3, <1>1, IdleType, HandlerGoesOn DEF RequestsInv
<1>. QED BY <1>2, <1>3

\* The request that an insert takes has not been used.
LEMMA InsertTakes ==
  ASSUME RequestsInv, NEW o \in Ops, Requests!Insert(o), request' # request
  PROVE  \E i \in Requests!Ids : /\ request[i].status = "none"
                                 /\ request' = [request EXCEPT ![i] = [Requests!NoRequest EXCEPT !.status = "pending"]]
<1>. DEFINE free == {i \in Requests!Ids : request[i].status = "none"}
<1>1. free # {} /\ request' = [request EXCEPT ![Requests!Earliest(free)] = [Requests!NoRequest EXCEPT !.status = "pending"]]
  BY DEF Requests!Insert
<1>2. free \in SUBSET Nat
  BY DEF Requests!Ids
<1>3. Requests!Earliest(free) \in free
  BY <1>1, <1>2, EarliestLeast
<1>. QED BY <1>1, <1>3

LEMMA InsertInv ==
  ASSUME Requests!RequestsAssumption, Requests!WorldsAssumption, RequestsInv, NEW o \in Ops, Requests!Insert(o)
  PROVE  RequestsInv'
<1>1. UNCHANGED <<world, grants, viewers>> /\ world \in Requests!World /\ op[o] \in OneOp /\ Deciding(op[o])
      /\ request \in [Requests!Ids -> Requests!Request] /\ op[o].step = "insert"
  BY DEF Requests!Insert, RequestsInv, WorldInv
<1>2. request' \in [Requests!Ids -> Requests!Request]
  <2>1. [Requests!NoRequest EXCEPT !.status = "pending"] \in Requests!Request
    BY DEF Requests!NoRequest, Requests!Request
  <2>. QED BY <1>1, <2>1, InsertTakes
<1>. DEFINE q == [op[o] EXCEPT !.step = "resolve", !.ctx = Requests!Context(world), !.attempt = op[o].attempt + 1]
<1>3. q \in OneOp /\ Deciding(q)
  <2>1. Requests!Context(world) \in Ctx /\ op[o].attempt + 1 \in Nat
    BY <1>1, ContextType DEF OneOp
  <2>2. q \in OneOp
    BY <1>1, <2>1 DEF OneOp, OpSteps
  <2>3. q.kind = op[o].kind /\ q.id = op[o].id /\ q.scope = op[o].scope /\ q.step = "resolve"
    BY <1>1 DEF OneOp
  <2>. QED BY <1>1, <2>2, <2>3 DEF Deciding
<1>4. op' = [op EXCEPT ![o] = q] \/ op' = [op EXCEPT ![o] = Requests!Idle]
  BY DEF Requests!Insert, Requests!Done
<1>. HIDE DEF q
<1>. QED BY <1>1, <1>2, <1>3, <1>4, IdleType, HandlerGoesOn DEF RequestsInv

LEMMA DecideInv ==
  ASSUME Requests!RequestsAssumption, Requests!WorldsAssumption, RequestsInv, NEW o \in Ops, NEW u \in Joined, NEW i \in Requests!Ids,
         NEW kind \in {"approve", "reject"}, NEW scope \in {"none", "artifact", "project"},
         Requests!Decide(o, u, i, kind, scope)
  PROVE  RequestsInv'
<1>1. UNCHANGED <<world, grants, viewers, request>> /\ world \in Requests!World
      /\ (kind = "approve" <=> scope # "none")
  BY DEF Requests!Decide, RequestsInv, WorldInv
<1>. DEFINE step == IF request[i].status = "pending" THEN "resolve" ELSE "idle"
            q == [Requests!Idle EXCEPT !.kind = kind, !.user = u, !.id = i, !.scope = scope,
                              !.step = step, !.ctx = Requests!Context(world)]
<1>2. step \in {"resolve", "idle"} /\ i \in Nat
  BY DEF Requests!Ids
<1>3. op' = [op EXCEPT ![o] = q]
  BY DEF Requests!Decide
<1>. HIDE DEF step
<1>4. q \in OneOp
  BY <1>1, <1>2, IdleType, ContextType DEF OneOp, OpSteps
<1>5. Deciding(q)
  BY <1>1, <1>2, IdleType DEF OneOp, Deciding
<1>. HIDE DEF q
<1>. QED BY <1>1, <1>3, <1>4, <1>5, HandlerGoesOn DEF RequestsInv

LEMMA PrepareInv ==
  ASSUME Requests!RequestsAssumption, Requests!WorldsAssumption, RequestsInv, NEW o \in Ops, Requests!Prepare(o)
  PROVE  RequestsInv'
<1>1. UNCHANGED <<world, grants, viewers, request>> /\ op[o] \in OneOp /\ Deciding(op[o])
      /\ op[o].kind \in {"approve", "reject"}
  BY DEF Requests!Prepare, RequestsInv
<1>. DEFINE q == [op[o] EXCEPT !.step = "commit"]
<1>2. q \in OneOp /\ Deciding(q)
  BY <1>1 DEF OneOp, Deciding, OpSteps
<1>3. op' = [op EXCEPT ![o] = q] \/ op' = [op EXCEPT ![o] = Requests!Idle]
  BY DEF Requests!Prepare, Requests!Done
<1>. HIDE DEF q
<1>. QED BY <1>1, <1>2, <1>3, IdleType, HandlerGoesOn DEF RequestsInv

LEMMA CommitInv ==
  ASSUME Requests!RequestsAssumption, Requests!WorldsAssumption, RequestsInv, NEW o \in Ops,
         Requests!CommitReject(o) \/ Requests!CommitApprove(o)
  PROVE  RequestsInv'
<1>1. /\ UNCHANGED world /\ op' = [op EXCEPT ![o] = Requests!Idle] /\ op[o] \in OneOp
      /\ request \in [Requests!Ids -> Requests!Request]
  BY DEF Requests!CommitReject, Requests!CommitApprove, Requests!Done, RequestsInv
<1>2. op[o].user \in Joined \union {Requests!Nobody} /\ op[o].scope \in {"none", "artifact", "project"}
      /\ op[o].ctx.place \in Requests!Places
  BY <1>1 DEF OneOp, Ctx
<1>3. request' \in [Requests!Ids -> Requests!Request]
  <2>1. \/ request' = request
        \/ request' = [request EXCEPT ![op[o].id] = [status |-> "rejected", by |-> op[o].user, scope |-> "none"]]
        \/ request' = [request EXCEPT ![op[o].id] =
                         [status |-> "approved", by |-> op[o].user, scope |-> op[o].scope]]
    BY DEF Requests!CommitReject, Requests!CommitApprove
  <2>2. /\ [status |-> "rejected", by |-> op[o].user, scope |-> "none"] \in Requests!Request
        /\ [status |-> "approved", by |-> op[o].user, scope |-> op[o].scope] \in Requests!Request
    BY <1>2 DEF Requests!Request
  <2>. QED BY <1>1, <2>1, <2>2
<1>4. grants' \subseteq {Requester} /\ viewers' \in [Projects -> SUBSET {Requester}]
  <2>1. grants \subseteq {Requester} /\ viewers \in [Projects -> SUBSET {Requester}]
    BY DEF RequestsInv
  <2>2. \/ UNCHANGED <<grants, viewers>>
        \/ grants' = grants \union {Requester} /\ UNCHANGED viewers
        \/ viewers' = [viewers EXCEPT ![op[o].ctx.place] = @ \union {Requester}] /\ UNCHANGED grants
    BY DEF Requests!CommitReject, Requests!CommitApprove, Requests!Share
  <2>. QED BY <2>1, <2>2
<1>. QED BY <1>1, <1>3, <1>4, IdleType, HandlerGoesOn

-----------------------------------------------------------------------------
(* The workspace goes on                                                   *)

LEMMA ChangedInv ==
  ASSUME RequestsInv, NEW w \in Requests!World, Requests!CreatorsJoined(w), Requests!Changed(w)
  PROVE  RequestsInv'
<1>1. world' = w /\ UNCHANGED <<grants, viewers, request, op>>
  BY DEF Requests!Changed
<1>2. WorldInv'
  BY <1>1 DEF WorldInv, Requests!CreatorsJoined
<1>. QED BY <1>1, <1>2 DEF RequestsInv, Deciding

\* People who change their role stay in the workspace's books.
LEMMA RoleChange ==
  ASSUME RequestsInv, NEW u \in Joined, NEW r \in Requests!Roles \ {"none"},
         Requests!Changed([world EXCEPT !.role[u] = r])
  PROVE  RequestsInv'
<1>. DEFINE roles == [world.role EXCEPT ![u] = r]
            w == [world EXCEPT !.role = roles]
<1>1. world \in Requests!World /\ Requests!CreatorsJoined(world)
  BY DEF RequestsInv, WorldInv
<1>2. Requests!Changed(w)
  OBVIOUS
<1>3. roles \in [Joined -> Requests!Roles] /\ \A v \in Joined : world.role[v] # "none" => roles[v] # "none"
  BY <1>1 DEF Requests!World
<1>. HIDE DEF roles
<1>4. w \in Requests!World /\ w.role = roles /\ w.creator = world.creator
  BY <1>1, <1>3 DEF Requests!World
<1>. HIDE DEF w
<1>5. Requests!CreatorsJoined(w)
  BY <1>1, <1>3, <1>4 DEF Requests!CreatorsJoined, Requests!World
<1>. QED BY <1>2, <1>4, <1>5, ChangedInv

\* Nobody's role changes with the artifact or its projects.
LEMMA PlaceChange ==
  ASSUME RequestsInv, NEW w \in Requests!World, w.role = world.role, w.creator = world.creator, Requests!Changed(w)
  PROVE  RequestsInv'
<1>1. Requests!CreatorsJoined(w)
  BY DEF RequestsInv, WorldInv, Requests!CreatorsJoined
<1>. QED BY <1>1, ChangedInv

LEMMA ChangeInv ==
  ASSUME RequestsInv, Requests!Change
  PROVE  RequestsInv'
<1>0. world \in Requests!World
  BY DEF RequestsInv, WorldInv
<1>1. ASSUME NEW u \in Joined, Requests!RemoveMember(u) \/ Requests!MakeAdmin(u) \/ Requests!RevokeAdmin(u)
      PROVE  RequestsInv'
  BY <1>1, RoleChange DEF Requests!RemoveMember, Requests!MakeAdmin, Requests!RevokeAdmin,
     Requests!Roles
<1>2. ASSUME NEW u \in Joined, Requests!HandOver(u) PROVE RequestsInv'
  <2>. DEFINE w == [world EXCEPT !.owner = u]
  <2>1. w \in Requests!World /\ w.role = world.role /\ w.creator = world.creator
    BY <1>0 DEF Requests!World
  <2>2. Requests!Changed(w)
    BY <1>2 DEF Requests!HandOver
  <2>. HIDE DEF w
  <2>. QED BY <2>1, <2>2, PlaceChange
<1>3. ASSUME NEW place \in Requests!Places, Requests!MoveTo(place) PROVE RequestsInv'
  <2>. DEFINE w == [world EXCEPT !.place = place,
                                 !.visibility = IF place = "inbox" THEN "private" ELSE @]
  <2>1. w \in Requests!World /\ w.role = world.role /\ w.creator = world.creator
    BY <1>0 DEF Requests!World
  <2>2. Requests!Changed(w)
    BY <1>3 DEF Requests!MoveTo
  <2>. HIDE DEF w
  <2>. QED BY <2>1, <2>2, PlaceChange
<1>4. ASSUME NEW p \in Projects, Requests!Archive(p) PROVE RequestsInv'
  <2>. DEFINE w == [world EXCEPT !.archived = @ \union {p}]
  <2>1. w \in Requests!World /\ w.role = world.role /\ w.creator = world.creator
    BY <1>0 DEF Requests!World
  <2>2. Requests!Changed(w)
    BY <1>4 DEF Requests!Archive
  <2>. HIDE DEF w
  <2>. QED BY <2>1, <2>2, PlaceChange
<1>5. CASE Requests!Narrow
  <2>. DEFINE w == [world EXCEPT !.visibility = "private"]
  <2>1. w \in Requests!World /\ w.role = world.role /\ w.creator = world.creator
    BY <1>0 DEF Requests!World
  <2>2. Requests!Changed(w)
    BY <1>5 DEF Requests!Narrow
  <2>. HIDE DEF w
  <2>. QED BY <2>1, <2>2, PlaceChange
<1>6. CASE Requests!ClosePosting
  <2>. DEFINE w == [world EXCEPT !.posting = FALSE]
  <2>1. w \in Requests!World /\ w.role = world.role /\ w.creator = world.creator
    BY <1>0 DEF Requests!World
  <2>2. Requests!Changed(w)
    BY <1>6 DEF Requests!ClosePosting
  <2>. HIDE DEF w
  <2>. QED BY <2>1, <2>2, PlaceChange
<1>7. CASE Requests!Unshare
  BY <1>7 DEF Requests!Unshare, RequestsInv, WorldInv, Requests!CreatorsJoined, Deciding
<1>. QED BY <1>1, <1>2, <1>3, <1>4, <1>5, <1>6, <1>7 DEF Requests!Change

LEMMA RequestStep ==
  ASSUME Requests!RequestsAssumption, Requests!WorldsAssumption, RequestsInv, [Requests!Next]_Requests!vars
  PROVE  RequestsInv'
<1>1. ASSUME NEW o \in Ops,
             \/ Requests!Ask(o) \/ Requests!ResolveAsk(o) \/ Requests!Insert(o) \/ Requests!Prepare(o) \/ Requests!CommitReject(o) \/ Requests!CommitApprove(o)
             \/ \E u \in Joined, i \in Requests!Ids, kind \in {"approve", "reject"},
                   scope \in {"none", "artifact", "project"} : Requests!Decide(o, u, i, kind, scope)
      PROVE  RequestsInv'
  BY <1>1, AskInv, InsertInv, PrepareInv, CommitInv, DecideInv
<1>2. CASE Requests!Change
  BY <1>2, ChangeInv
<1>3. CASE UNCHANGED Requests!vars
  BY <1>3 DEF Requests!vars, RequestsInv, WorldInv, Requests!CreatorsJoined, Deciding
<1>. QED BY <1>1, <1>2, <1>3 DEF Requests!Next

-----------------------------------------------------------------------------
(* Decisions                                                               *)

\* A step that stores no decision and shares nothing more.
LEMMA QuietStep ==
  ASSUME UNCHANGED request \/ (\E i \in Requests!Ids : /\ request[i].status = "none"
            /\ request' = [request EXCEPT ![i] = [Requests!NoRequest EXCEPT !.status = "pending"]]),
         RequestsInv, grants' \subseteq grants, \A p \in Projects : viewers'[p] \subseteq viewers[p]
  PROVE  Requests!RightlyDecided
<1>1. request \in [Requests!Ids -> Requests!Request]
  BY DEF RequestsInv
<1>2. \A i \in Requests!Ids : request'[i] = request[i]
        \/ (request[i].status = "none" /\ request'[i].status = "pending")
  BY <1>1 DEF Requests!NoRequest
<1>3. \A i \in Requests!Ids : ~Requests!Decided(i)
  BY <1>2 DEF Requests!Decided
<1>. QED BY <1>2, <1>3 DEF Requests!RightlyDecided, Requests!ByTheHandler,
            Requests!ApprovalIsGrant, Requests!DecidedOnce

\* A decision that is stored is by the handler of now, who may grant it.
LEMMA RejectIsRight ==
  ASSUME Requests!RequestsAssumption, RequestsInv, NEW o \in Ops, Requests!CommitReject(o)
  PROVE  Requests!RightlyDecided
<1>. DEFINE u == op[o].user
            i == op[o].id
            fits == Requests!Current(o) /\ (Requests!ArtifactScope(world, u) \/ Requests!ProjectScope(world, op[o].ctx, u))
<1>1. UNCHANGED <<world, grants, viewers>> /\ request \in [Requests!Ids -> Requests!Request]
  BY DEF Requests!CommitReject, RequestsInv
<1>2. CASE ~fits
  BY <1>1, <1>2, QuietStep DEF Requests!CommitReject
<1>3. CASE fits
  <2>1. request' = [request EXCEPT ![i] = [status |-> "rejected", by |-> u, scope |-> "none"]]
    BY <1>3 DEF Requests!CommitReject
  <2>2. i \in Requests!Ids /\ request[i].status = "pending" /\ Requests!Handler(world) = u
    BY <1>3 DEF Requests!Current, Requests!CommitReject, RequestsInv, Deciding
  <2>3. Requests!ManagersAreOutsiders => Requests!Resolved(world, Requests!Context(world)) = u
    BY <2>2, Agree DEF Requests!ManagersAreOutsiders, Outsiders, RequestsInv, WorldInv
  <2>4. Requests!Capable(world, Requests!Context(world), u)
    BY <1>3 DEF Requests!Capable, Requests!GrantsArtifact, Requests!GrantsProject,
       Requests!ArtifactScope, Requests!ProjectScope, Requests!Context, Requests!EditsProject
  <2>. HIDE DEF u, i
  <2>5. \A k \in Requests!Ids : k # i => request'[k] = request[k]
    BY <1>1, <2>1, <2>2
  <2>6. request'[i].status = "rejected" /\ request'[i].by = u /\ request'[i].scope = "none"
    BY <1>1, <2>1, <2>2
  <2>7. \A k \in Requests!Ids : Requests!Decided(k) => k = i
    BY <2>5 DEF Requests!Decided
  <2>8. Requests!ByTheHandler
    BY <2>3, <2>4, <2>6, <2>7 DEF Requests!ByTheHandler
  <2>9. Requests!ApprovalIsGrant
    BY <1>1, <2>6, <2>7 DEF Requests!ApprovalIsGrant
  <2>10. Requests!DecidedOnce
    BY <2>2, <2>5 DEF Requests!DecidedOnce
  <2>. QED BY <2>8, <2>9, <2>10 DEF Requests!RightlyDecided
<1>. QED BY <1>2, <1>3

LEMMA ApproveIsRight ==
  ASSUME Requests!RequestsAssumption, RequestsInv, NEW o \in Ops, Requests!CommitApprove(o)
  PROVE  Requests!RightlyDecided
<1>. DEFINE u == op[o].user
            i == op[o].id
            scope == op[o].scope
            place == op[o].ctx.place
            fits == /\ Requests!Current(o)
                    /\ IF scope = "artifact" THEN Requests!ArtifactScope(world, u)
                       ELSE Requests!ProjectScope(world, op[o].ctx, u)
                    /\ Requests!Room(o)
<1>1. UNCHANGED world /\ request \in [Requests!Ids -> Requests!Request] /\ viewers \in [Projects -> SUBSET {Requester}]
  BY DEF Requests!CommitApprove, RequestsInv
<1>2. CASE ~fits
  <2>1. UNCHANGED <<request, grants, viewers>>
    BY <1>2 DEF Requests!CommitApprove
  <2>. QED BY <2>1, QuietStep
<1>3. CASE fits
  <2>1. request' = [request EXCEPT ![i] = [status |-> "approved", by |-> u, scope |-> scope]]
        /\ Requests!Share(o)
    BY <1>3 DEF Requests!CommitApprove
  <2>2. i \in Requests!Ids /\ request[i].status = "pending" /\ Requests!Handler(world) = u /\ scope \in {"artifact", "project"}
    BY <1>3 DEF Requests!Current, Requests!CommitApprove, RequestsInv, Deciding, OneOp
  <2>3. Requests!ManagersAreOutsiders => Requests!Resolved(world, Requests!Context(world)) = u
    BY <2>2, Agree DEF Requests!ManagersAreOutsiders, Outsiders, RequestsInv, WorldInv
  <2>4. /\ scope = "artifact" => Requests!GrantsArtifact(world, Requests!Context(world), u)
        /\ scope = "project" => /\ Requests!GrantsProject(world, Requests!Context(world), u)
                                /\ world.visibility = "project" /\ world.place = place /\ place \in Projects
    BY <1>3 DEF Requests!GrantsArtifact, Requests!GrantsProject, Requests!ArtifactScope,
       Requests!ProjectScope, Requests!Context, Requests!EditsProject
  <2>5. /\ scope = "artifact" => grants' = grants \union {Requester} /\ UNCHANGED viewers
        /\ scope = "project" => viewers' = [viewers EXCEPT ![place] = @ \union {Requester}] /\ UNCHANGED grants
    BY <2>1 DEF Requests!Share
  <2>. HIDE DEF u, i, scope, place
  <2>6. \A k \in Requests!Ids : k # i => request'[k] = request[k]
    BY <1>1, <2>1, <2>2
  <2>7. request'[i].status = "approved" /\ request'[i].by = u /\ request'[i].scope = scope
    BY <1>1, <2>1, <2>2
  <2>8. Requests!Decided(i) /\ \A k \in Requests!Ids : Requests!Decided(k) => k = i
    BY <2>2, <2>6, <2>7 DEF Requests!Decided
  <2>9. Requests!ByTheHandler
    BY <2>2, <2>3, <2>4, <2>7, <2>8 DEF Requests!ByTheHandler
  <2>10. Requests!ApprovalIsGrant
    <3>1. ~Requests!Denied'
      BY <1>1, <2>2, <2>4, <2>5 DEF Requests!Denied
    <3>2. (grants' \ grants # {}) => scope = "artifact"
      BY <2>2, <2>5
    <3>3. \A p \in Projects : (viewers'[p] \ viewers[p] # {}) => p = world.place /\ scope = "project"
      BY <1>1, <2>2, <2>4, <2>5
    <3>. QED BY <2>2, <2>7, <2>8, <3>1, <3>2, <3>3 DEF Requests!ApprovalIsGrant
  <2>11. Requests!DecidedOnce
    BY <2>2, <2>6 DEF Requests!DecidedOnce
  <2>. QED BY <2>9, <2>10, <2>11 DEF Requests!RightlyDecided
<1>. QED BY <1>2, <1>3

LEMMA StepIsRight ==
  ASSUME Requests!RequestsAssumption, RequestsInv, [Requests!Next]_Requests!vars
  PROVE  Requests!RightlyDecided
<1>1. ASSUME NEW o \in Ops, Requests!Ask(o) \/ Requests!ResolveAsk(o) \/ Requests!Prepare(o) PROVE Requests!RightlyDecided
  BY <1>1, QuietStep DEF Requests!Ask, Requests!ResolveAsk, Requests!Prepare
<1>2. ASSUME NEW o \in Ops, Requests!Insert(o) PROVE Requests!RightlyDecided
  BY <1>2, InsertTakes, QuietStep DEF Requests!Insert
<1>3. ASSUME NEW o \in Ops, Requests!CommitReject(o) \/ Requests!CommitApprove(o) PROVE Requests!RightlyDecided
  BY <1>3, RejectIsRight, ApproveIsRight
<1>4. ASSUME NEW o \in Ops, NEW u \in Joined, NEW i \in Requests!Ids, NEW kind \in {"approve", "reject"},
             NEW scope \in {"none", "artifact", "project"}, Requests!Decide(o, u, i, kind, scope)
      PROVE  Requests!RightlyDecided
  BY <1>4, QuietStep DEF Requests!Decide
<1>5. CASE Requests!Change
  <2>1. UNCHANGED request /\ grants' \subseteq grants /\ \A p \in Projects : viewers'[p] \subseteq viewers[p]
    BY <1>5 DEF Requests!Change, Requests!Changed, Requests!RemoveMember, Requests!MakeAdmin,
       Requests!RevokeAdmin, Requests!HandOver, Requests!MoveTo, Requests!Archive, Requests!Narrow,
                Requests!ClosePosting, Requests!Unshare
  <2>. QED BY <2>1, QuietStep
<1>6. CASE UNCHANGED Requests!vars
  BY <1>6, QuietStep DEF Requests!vars
<1>. QED BY <1>1, <1>2, <1>3, <1>4, <1>5, <1>6 DEF Requests!Next

-----------------------------------------------------------------------------
LEMMA InvHolds ==
  ASSUME Requests!RequestsAssumption, Requests!WorldsAssumption
  PROVE  Requests!Spec => []RequestsInv
BY RequestsInit, RequestStep, PTL DEF Requests!Spec

\* Whoever resolveAccessRequestHandler names is whom the SQL expression of the
\* writes names, in every workspace that can come about: nobody is asked to decide
\* who would then be refused.
THEOREM HandlersAgree ==
  ASSUME Requests!RequestsAssumption, Requests!WorldsAssumption
  PROVE  Requests!Spec => []Requests!SameHandler
<1>1. RequestsInv => Requests!SameHandler
  BY Agree DEF RequestsInv, WorldInv, Requests!SameHandler, Requests!ManagersAreOutsiders, Outsiders
<1>. QED BY <1>1, InvHolds, PTL

\* Whoever decides a request is at that moment its handler and may grant what is
\* granted; an approval and its grant are one step, and a decision is final
\* (processAccessRequest), whatever changes between its reads and its batch.
THEOREM DecisionsAreRight ==
  ASSUME Requests!RequestsAssumption, Requests!WorldsAssumption
  PROVE  Requests!Spec => [][Requests!RightlyDecided]_Requests!vars
<1>1. RequestsInv /\ [Requests!Next]_Requests!vars => [Requests!RightlyDecided]_Requests!vars
  BY StepIsRight
<1>. QED BY <1>1, InvHolds, PTL DEF Requests!Spec
=============================================================================
