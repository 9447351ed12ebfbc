-------------------------- MODULE ContributorSlots --------------------------
(***************************************************************************)
(* The contributor guardrail of one workspace.  The first upload of a      *)
(* person takes one of a limited number of contributor slots; it is        *)
(* reserved before the bytes are accounted for and stored, made permanent  *)
(* by the batch that publishes the artifact, and released when the upload  *)
(* fails: src/apps/web/app/services/shareables.server.ts, which            *)
(* modules/publish/operations.server.ts repeats for single files.          *)
(*                                                                         *)
(* Nothing ties a reservation to its upload: a member row counts the       *)
(* uploads pending, and its reservations lapse together an hour after the  *)
(* row was last touched.                                                   *)
(***************************************************************************)
EXTENDS Integers, FiniteSets

CONSTANTS
  Human, Bot,  \* users by their kind
  Upload,
  Limit,       \* contributorGuardrailLimit
  Grace,       \* CONTRIBUTOR_PENDING_GRACE_MS
  MaxTime,     \* bound: the clock
  MaxFaults,   \* bound: uploads that crash, commits whose reply is lost
  MaxChurn     \* bound: members removed and restored, bots stopped

User == Human \cup Bot

ASSUME UserAssumption == Human \cap Bot = {} /\ IsFiniteSet(Human) /\ IsFiniteSet(Upload)
ASSUME BoundAssumption == {Limit, Grace, MaxTime, MaxFaults, MaxChurn} \subseteq Nat

VARIABLES
  member,  \* workspace_members of the human users
  stopped, \* the bots with users.bot_stopped_at
  upload,  \* each upload, between its steps
  clock,
  lapsed,  \* history: those who may be counted without a reservation of their own
  faults,  \* history: the number of crashes and lost replies
  churn    \* history: the number of removals, restorations and stops

vars == <<member, stopped, upload, clock, lapsed, faults, churn>>

Statuses == {"none", "active", "removed"}  \* "none": there is no row
Steps == {"new", "clean", "read", "insert", "write", "commit", "release", "over"}

Rows == [status : Statuses, pending : Nat, contributed : BOOLEAN, updated : 0 .. MaxTime]
Uploads == [pc : Steps, user : User, external : BOOLEAN, now : 0 .. MaxTime, slot : BOOLEAN]

TypeOK ==
  /\ member \in [Human -> Rows]
  /\ stopped \subseteq Bot
  /\ upload \in [Upload -> Uploads]
  /\ clock \in 0 .. MaxTime
  /\ lapsed \subseteq Human
  /\ faults \in 0 .. MaxFaults /\ churn \in 0 .. MaxChurn

Init ==
  /\ member \in [Human -> {[status |-> s, pending |-> 0, contributed |-> FALSE,
                            updated |-> 0] : s \in {"none", "active"}}]
  /\ stopped = {}
  /\ upload \in [Upload -> [pc : {"new"}, user : User, external : BOOLEAN, now : {0},
                            slot : {FALSE}]]
  /\ \A c \in Upload : upload[c].external => upload[c].user \in Human
  /\ clock = 0
  /\ lapsed = {} /\ faults = 0 /\ churn = 0

-----------------------------------------------------------------------------
At(c, pc) == upload[c].pc = pc
Go(c, pc) == upload' = [upload EXCEPT ![c].pc = pc]
Who(c) == upload[c].user
IsHuman(c) == Who(c) \in Human

(* isWorkspaceAccessRevoked *)
Revoked(u) == IF u \in Human THEN member[u].status = "removed" ELSE u \in stopped

(* contributorCountPredicate *)
Contributor(u) ==
  /\ member[u].status = "active"
  /\ member[u].contributed \/ member[u].pending > 0
Contributors == {u \in Human : Contributor(u)}

(* The uploads that hold a reservation of u. *)
Holding(u) == {c \in Upload : upload[c].slot /\ upload[c].user = u}

Max0(n) == IF n > 0 THEN n ELSE 0
Less(n) == Max0(n - 1)

-----------------------------------------------------------------------------
(* The destination is resolved, by projectPlacementSql or for the inbox:   *)
(* either refuses one whose access is revoked, and what is posted from     *)
(* another workspace besides.                                              *)
Start(c) ==
  /\ At(c, "new") /\ ~Revoked(Who(c))
  /\ upload' = [upload EXCEPT ![c].pc = "clean", ![c].now = clock]
  /\ UNCHANGED <<member, stopped, clock, lapsed, faults, churn>>

\* mutant: first_contributed_at is tested the wrong way round
StaleContributor(u, now) ==
  /\ member[u].contributed /\ member[u].pending > 0
  /\ member[u].updated < now - Grace

(* cleanupStaleContributorReservations *)
Stale(u, now) ==
  /\ ~member[u].contributed /\ member[u].pending > 0
  /\ member[u].updated < now - Grace

CleanUp(c) ==
  LET stale == {u \in Human : Stale(u, upload[c].now)} IN
  /\ At(c, "clean") /\ Go(c, "read")
  /\ member' = [u \in Human |->
       IF u \in stale THEN [member[u] EXCEPT !.pending = 0, !.updated = upload[c].now]
       ELSE member[u]]
  /\ lapsed' = lapsed \cup {u \in stale : Holding(u) # {}}
  /\ UNCHANGED <<stopped, clock, faults, churn>>

(* The uploader's kind and standing. *)
Read(c) ==
  /\ At(c, "read")
  /\ Go(c, IF Revoked(Who(c)) THEN IF upload[c].external /\ IsHuman(c) THEN "write" ELSE "over"
           ELSE IF IsHuman(c) THEN "insert" ELSE "write")
  /\ lapsed' = IF Revoked(Who(c)) /\ upload[c].external /\ IsHuman(c) THEN lapsed \cup {Who(c)}
               ELSE lapsed
  /\ UNCHANGED <<member, stopped, clock, faults, churn>>

\* mutant: reservations are not counted
AdmittedEarly(u) ==
  /\ member[u].status # "removed"
  /\ Contributor(u) \/ Cardinality({x \in Contributors : member[x].contributed}) < Limit

\* mutant: the row of one who was removed is reserved
AdmittedBack(u) == Contributor(u) \/ Cardinality(Contributors) < Limit

(* contributorGuardrailGate, and no row of one who was removed *)
Admitted(u) ==
  /\ member[u].status # "removed"
  /\ Contributor(u) \/ Cardinality(Contributors) < Limit

\* mutant: the uploads of one person share a reservation
ReservedOnce(u, now) ==
  [member EXCEPT ![u].status = IF @ = "none" THEN "active" ELSE @, ![u].pending = 1,
                 ![u].updated = now]

(* The row is inserted, or the one there is counts one more. *)
Reserved(u, now) ==
  [member EXCEPT ![u].status = IF @ = "none" THEN "active" ELSE @, ![u].pending = @ + 1,
                 ![u].updated = now]

Reserve(c) ==
  /\ At(c, "insert") /\ Admitted(Who(c))
  /\ member' = Reserved(Who(c), upload[c].now)
  /\ upload' = [upload EXCEPT ![c].pc = "write", ![c].slot = TRUE]
  /\ UNCHANGED <<stopped, clock, lapsed, faults, churn>>

(* 'over-limit' or 'workspace-access-revoked' *)
Refuse(c) ==
  /\ At(c, "insert") /\ ~Admitted(Who(c))
  /\ Go(c, "over")
  /\ UNCHANGED <<member, stopped, clock, lapsed, faults, churn>>

(* The quota is reserved and the content stored, or one of them fails. *)
Write(c) ==
  /\ At(c, "write")
  /\ Go(c, "commit") \/ Go(c, "release")
  /\ UNCHANGED <<member, stopped, clock, lapsed, faults, churn>>

(* finalizeContributorSlotQuery *)
Finalized(c) ==
  IF IsHuman(c) /\ member[Who(c)].status = "active"
  THEN [member EXCEPT ![Who(c)].pending = Less(@), ![Who(c)].contributed = TRUE,
                      ![Who(c)].updated = upload[c].now]
  ELSE member

(* placementAssertionQueries: projectPlacementSql once more. *)
Placeable(c) == ~Revoked(Who(c))

Commit(c) ==
  /\ At(c, "commit") /\ Placeable(c)
  /\ member' = Finalized(c)
  /\ upload' = [upload EXCEPT ![c].pc = "over", ![c].slot = FALSE]
  /\ UNCHANGED <<stopped, clock, lapsed, faults, churn>>

(* The batch is committed and the upload does not hear of it. *)
LoseReply(c) ==
  /\ At(c, "commit") /\ Placeable(c) /\ faults < MaxFaults
  /\ member' = Finalized(c)
  /\ upload' = [upload EXCEPT ![c].pc = "release", ![c].slot = FALSE]
  /\ faults' = faults + 1
  /\ UNCHANGED <<stopped, clock, lapsed, churn>>

(* The assertion of the placement fails, or the batch for another reason. *)
CommitFails(c) ==
  /\ At(c, "commit") /\ Go(c, "release")
  /\ UNCHANGED <<member, stopped, clock, lapsed, faults, churn>>

(* releaseContributorSlot: also of an upload that holds none. *)
Release(c) ==
  /\ At(c, "release")
  /\ upload' = [upload EXCEPT ![c].pc = "over", ![c].slot = FALSE]
  /\ member' = IF ~IsHuman(c) \/ member[Who(c)].status = "none" THEN member
               ELSE [member EXCEPT ![Who(c)].pending = Less(@),
                                   ![Who(c)].updated = upload[c].now]
  /\ lapsed' = IF IsHuman(c) /\ ~upload[c].slot THEN lapsed \cup {Who(c)} ELSE lapsed
  /\ UNCHANGED <<stopped, clock, faults, churn>>

(* The Worker that runs the upload ends; its reservation stays behind. *)
Crash(c) ==
  /\ upload[c].pc \notin {"new", "over"} /\ faults < MaxFaults
  /\ upload' = [upload EXCEPT ![c].pc = "over", ![c].slot = FALSE]
  /\ faults' = faults + 1
  /\ UNCHANGED <<member, stopped, clock, lapsed, churn>>

-----------------------------------------------------------------------------
(* removeWorkspaceMember, as far as the slots go *)
Remove(u) ==
  /\ member[u].status = "active" /\ churn < MaxChurn
  /\ member' = [member EXCEPT ![u].status = "removed", ![u].pending = 0, ![u].updated = clock]
  /\ lapsed' = IF Holding(u) # {} THEN lapsed \cup {u} ELSE lapsed
  /\ churn' = churn + 1
  /\ UNCHANGED <<stopped, upload, clock, faults>>

(* restoreWorkspaceMember: a contributor comes back without a slot. *)
Restore(u) ==
  /\ member[u].status = "removed" /\ churn < MaxChurn
  /\ member' = [member EXCEPT ![u].status = "active", ![u].updated = clock]
  /\ lapsed' = IF member[u].contributed THEN lapsed \cup {u} ELSE lapsed
  /\ churn' = churn + 1
  /\ UNCHANGED <<stopped, upload, clock, faults>>

(* stopWorkspaceBot *)
Stop(b) ==
  /\ b \notin stopped /\ churn < MaxChurn
  /\ stopped' = stopped \cup {b} /\ churn' = churn + 1
  /\ UNCHANGED <<member, upload, clock, lapsed, faults>>

Tick ==
  /\ clock < MaxTime /\ clock' = clock + 1
  /\ UNCHANGED <<member, stopped, upload, lapsed, faults, churn>>

Next ==
  \/ \E c \in Upload :
       \/ Start(c) \/ CleanUp(c) \/ Read(c) \/ Reserve(c) \/ Refuse(c) \/ Write(c)
       \/ Commit(c) \/ LoseReply(c) \/ CommitFails(c) \/ Release(c) \/ Crash(c)
  \/ \E u \in Human : Remove(u) \/ Restore(u)
  \/ \E b \in Bot : Stop(b)
  \/ Tick

Spec == Init /\ [][Next]_vars

-----------------------------------------------------------------------------
(* However the uploads interleave, the contributors who have not lost a    *)
(* reservation while they uploaded, or come back as contributors, are no   *)
(* more than the guardrail: reserveContributorSlot counts, and takes the   *)
(* slot, in one statement, and no upload is finalized without one.         *)
WithinLimit == Cardinality(Contributors \ lapsed) <= Limit

(* A row counts every upload that holds a reservation of it, unless they   *)
(* lapsed: a release, a finalization or a cleanup never takes the          *)
(* reservation of an upload that goes on.                                  *)
Covered == \A u \in Human \ lapsed : Cardinality(Holding(u)) <= member[u].pending

(* One who is removed takes no pending upload along, so that a restoration *)
(* never brings back a slot nobody holds.                                  *)
RemovedHoldsNothing == \A u \in Human : member[u].status = "removed" => member[u].pending = 0

(* One is turned away at the guardrail only for people who contribute, who *)
(* upload, or whose upload was given up within the grace period: a         *)
(* reservation that was left behind does not use its slot for good.        *)
InUse(u, now) ==
  /\ Contributor(u)
  /\ member[u].contributed \/ Holding(u) # {} \/ member[u].updated >= now - Grace
Full ==
  \A c \in Upload : Refuse(c) /\ ~Revoked(Who(c)) =>
    Limit <= Cardinality({u \in Human : InUse(u, upload[c].now)})
=============================================================================
