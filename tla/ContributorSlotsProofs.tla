------------------------ MODULE ContributorSlotsProofs ------------------------
(***************************************************************************)
(* What a plan gives a workspace, for every value of the constants.        *)
(*                                                                         *)
(* ContributorSlots: the guardrail holds, however many people upload and   *)
(* whatever fails.  WithinLimit is not inductive: an upload that is        *)
(* finalized makes its author a contributor without counting anybody.  It  *)
(* may, because it holds a reservation, and a reservation that did not     *)
(* lapse is counted in the row (Covered), which makes the author a         *)
(* contributor already.                                                    *)
(*                                                                         *)
(* BillingSync (Billing): whatever is delivered at once, the log has each  *)
(* plan change once, all checkouts bill one customer, and the workspace    *)
(* follows its subscription unless the answer it got last was late.  An    *)
(* answer is what the subscription is unless an event followed (Answered); *)
(* the newest one acted on is as new as every processed event (Newest), so *)
(* that a row written from it misses only what is not processed yet.       *)
(***************************************************************************)
EXTENDS ContributorSlots, FiniteSetTheorems, TLAPS

\* The plan, with constants and variables of its own.
CONSTANTS Ops, Tabs, Subs, MaxEvents, MaxFails, MaxEdits
VARIABLES sub, event, sent, row, audits, op, tab, fails, edits, newest, late

Billing == INSTANCE BillingSync


Running == {"write", "commit", "release"}

\* A reservation is held between its statement and the end of the upload...
HeldWhileRunning ==
  \A c \in Upload : upload[c].slot => upload[c].pc \in Running /\ IsHuman(c)

\* ... and an upload comes to its commit without one only by its grant.
BypassLapses ==
  \A c \in Upload : upload[c].pc \in {"write", "commit"} /\ IsHuman(c) /\ ~upload[c].slot =>
    Who(c) \in lapsed

\* The inductive strengthening of WithinLimit.
SlotInv ==
  /\ TypeOK /\ HeldWhileRunning /\ BypassLapses
  /\ RemovedHoldsNothing /\ Covered /\ WithinLimit

-----------------------------------------------------------------------------
(* Counting. *)

LEMMA Finite ==
  /\ IsFiniteSet(Contributors) /\ IsFiniteSet(Contributors \ lapsed)
  /\ \A u \in Human : IsFiniteSet(Holding(u))
BY FS_Subset, UserAssumption DEF Contributors, Holding

LEMMA LessType == ASSUME NEW n \in Nat PROVE Less(n) \in Nat /\ n - 1 <= Less(n)
BY DEF Less, Max0

\* Without a new contributor the limit stays kept.
LEMMA NoneAdded ==
  ASSUME WithinLimit, TypeOK, (Contributors \ lapsed)' \subseteq Contributors \ lapsed
  PROVE  WithinLimit'
<1>1. /\ IsFiniteSet(Contributors \ lapsed)
      /\ Cardinality((Contributors \ lapsed)') <= Cardinality(Contributors \ lapsed)
  BY Finite, FS_Subset
<1>2. /\ Cardinality(Contributors \ lapsed) \in Nat
      /\ Cardinality((Contributors \ lapsed)') \in Nat
  BY <1>1, FS_Subset, FS_CardinalityType
<1>. QED BY <1>1, <1>2, BoundAssumption DEF WithinLimit

\* A row covers the reservations it covered, as long as it counts no less.
LEMMA StillCovered ==
  ASSUME Covered, TypeOK, TypeOK', NEW u \in Human, u \notin lapsed,
         Holding(u)' \subseteq Holding(u), member[u].pending <= member'[u].pending
  PROVE  Cardinality(Holding(u)') <= member'[u].pending
<1>1. /\ Cardinality(Holding(u)') <= Cardinality(Holding(u))
      /\ Cardinality(Holding(u)) \in Nat /\ Cardinality(Holding(u)') \in Nat
  BY Finite, FS_Subset, FS_CardinalityType
<1>2. Cardinality(Holding(u)) <= member[u].pending
  BY DEF Covered
<1>3. member[u].pending \in Nat /\ member'[u].pending \in Nat
  BY DEF TypeOK, Rows
<1>. QED BY <1>1, <1>2, <1>3

\* One reservation fewer is covered by one pending upload fewer.
LEMMA OneFewerCovered ==
  ASSUME Covered, TypeOK, TypeOK', NEW c \in Upload, NEW u \in Human \ lapsed,
         upload[c].user = u, upload[c].slot, Holding(u)' = Holding(u) \ {c},
         member'[u].pending = Less(member[u].pending)
  PROVE  Cardinality(Holding(u)') <= member'[u].pending
<1>1. c \in Holding(u)
  BY DEF Holding
<1>2. Cardinality(Holding(u)') = Cardinality(Holding(u)) - 1 /\ Cardinality(Holding(u)) \in Nat
  BY <1>1, Finite, FS_RemoveElement, FS_CardinalityType
<1>3. Cardinality(Holding(u)) <= member[u].pending /\ member[u].pending \in Nat
  BY <1>1 DEF Covered, TypeOK, Rows
<1>4. member'[u].pending \in Nat /\ member[u].pending - 1 <= member'[u].pending
  BY <1>3, LessType
<1>. QED BY <1>2, <1>3, <1>4

\* Who holds a reservation that did not lapse is a contributor.
LEMMA HolderContributes ==
  ASSUME SlotInv, NEW c \in Upload, IsHuman(c), upload[c].slot, Who(c) \notin lapsed,
         member[Who(c)].status = "active"
  PROVE  Who(c) \in Contributors
<1>. DEFINE u == Who(c)
<1>1. u \in Human /\ c \in Holding(u)
  BY DEF IsHuman, Holding, Who
<1>2. Cardinality(Holding(u)) # 0 /\ Cardinality(Holding(u)) \in Nat
  BY <1>1, Finite, FS_EmptySet, FS_CardinalityType
<1>3. Cardinality(Holding(u)) <= member[u].pending /\ member[u].pending \in Nat
  BY <1>1 DEF SlotInv, Covered, TypeOK, Rows
<1>. QED BY <1>1, <1>2, <1>3 DEF Contributors, Contributor

-----------------------------------------------------------------------------
(* Types. *)

LEMMA InitInv == Init => SlotInv
<1>. SUFFICES ASSUME Init PROVE SlotInv
  OBVIOUS
<1>1. TypeOK
  <2>1. ASSUME NEW c \in Upload PROVE upload[c] \in Uploads
    <3>1. upload[c] \in [pc : {"new"}, user : User, external : BOOLEAN, now : {0}, slot : {FALSE}]
      BY DEF Init
    <3>2. 0 \in 0 .. MaxTime /\ "new" \in Steps
      BY BoundAssumption DEF Steps
    <3>. QED BY <3>1, <3>2 DEF Uploads
  <2>2. ASSUME NEW u \in Human PROVE member[u] \in Rows
    <3>1. PICK s \in {"none", "active"} :
            member[u] = [status |-> s, pending |-> 0, contributed |-> FALSE, updated |-> 0]
      BY DEF Init
    <3>2. 0 \in 0 .. MaxTime /\ s \in Statuses
      BY BoundAssumption DEF Statuses
    <3>. QED BY <3>1, <3>2 DEF Rows
  <2>. QED BY <2>1, <2>2, BoundAssumption DEF Init, TypeOK
<1>2. \A c \in Upload : upload[c].slot = FALSE /\ upload[c].pc = "new"
  BY DEF Init
<1>3. \A u \in Human : member[u].pending = 0 /\ ~member[u].contributed
  BY DEF Init
<1>4. HeldWhileRunning /\ BypassLapses /\ RemovedHoldsNothing
  BY <1>2, <1>3 DEF HeldWhileRunning, BypassLapses, RemovedHoldsNothing
<1>5. Covered
  <2>1. \A u \in Human : Holding(u) = {}
    BY <1>2 DEF Holding
  <2>. QED BY <1>3, <2>1, FS_EmptySet DEF Covered
<1>6. WithinLimit
  <2>1. Contributors \ lapsed = {}
    BY <1>3 DEF Contributors, Contributor
  <2>. QED BY <2>1, FS_EmptySet, BoundAssumption DEF WithinLimit
<1>. QED BY <1>1, <1>4, <1>5, <1>6 DEF SlotInv

\* What a step makes of an upload.
LEMMA UploadType ==
  ASSUME TypeOK, NEW c \in Upload, NEW pc \in Steps, NEW b \in BOOLEAN
  PROVE  /\ [upload EXCEPT ![c].pc = pc] \in [Upload -> Uploads]
         /\ [upload EXCEPT ![c].pc = pc, ![c].slot = b] \in [Upload -> Uploads]
         /\ [upload EXCEPT ![c].pc = pc, ![c].now = clock] \in [Upload -> Uploads]
<1>1. upload[c] \in Uploads /\ clock \in 0 .. MaxTime
  BY DEF TypeOK
<1>2. /\ [upload[c] EXCEPT !.pc = pc] \in Uploads
      /\ [upload[c] EXCEPT !.pc = pc, !.slot = b] \in Uploads
      /\ [upload[c] EXCEPT !.pc = pc, !.now = clock] \in Uploads
  BY <1>1 DEF Uploads
<1>. QED BY <1>2 DEF TypeOK

\* One row changes, or none.
LEMMA RowStep ==
  ASSUME TypeOK, NEW u \in Human, NEW n \in Nat, NEW t \in 0 .. MaxTime, NEW s \in Statuses
  PROVE  /\ [member EXCEPT ![u].pending = n, ![u].updated = t] \in [Human -> Rows]
         /\ [member EXCEPT ![u].pending = n, ![u].contributed = TRUE, ![u].updated = t]
              \in [Human -> Rows]
         /\ [member EXCEPT ![u].status = s, ![u].pending = n, ![u].updated = t]
              \in [Human -> Rows]
         /\ [member EXCEPT ![u].status = s, ![u].updated = t] \in [Human -> Rows]
<1>1. member[u] \in Rows
  BY DEF TypeOK
<1>2. /\ [member[u] EXCEPT !.pending = n, !.updated = t] \in Rows
      /\ [member[u] EXCEPT !.pending = n, !.contributed = TRUE, !.updated = t] \in Rows
      /\ [member[u] EXCEPT !.status = s, !.pending = n, !.updated = t] \in Rows
      /\ [member[u] EXCEPT !.status = s, !.updated = t] \in Rows
  BY <1>1 DEF Rows
<1>. QED BY <1>2 DEF TypeOK

LEMMA TypeStep ==
  ASSUME TypeOK, Next
  PROVE  TypeOK'
<1>. USE DEF Who, IsHuman
<1>1. ASSUME NEW c \in Upload, Start(c)
      PROVE  TypeOK'
  <2>1. upload' \in [Upload -> Uploads]
    BY <1>1, UploadType DEF Start, Steps
  <2>. QED BY <1>1, <2>1 DEF Start, TypeOK
<1>2. ASSUME NEW c \in Upload, CleanUp(c)
      PROVE  TypeOK'
  <2>1. upload' \in [Upload -> Uploads]
    BY <1>2, UploadType DEF CleanUp, Go, Steps
  <2>2. ASSUME NEW u \in Human PROVE member'[u] \in Rows
    <3>1. member[u] \in Rows /\ upload[c].now \in 0 .. MaxTime
      BY DEF TypeOK, Uploads
    <3>2. [member[u] EXCEPT !.pending = 0, !.updated = upload[c].now] \in Rows
      BY <3>1 DEF Rows
    <3>. QED BY <1>2, <3>1, <3>2 DEF CleanUp
  <2>3. member' \in [Human -> Rows]
    BY <1>2, <2>2 DEF CleanUp
  <2>. QED BY <1>2, <2>1, <2>3 DEF CleanUp, TypeOK
<1>3. ASSUME NEW c \in Upload, Read(c)
      PROVE  TypeOK'
  <2>1. upload' \in [Upload -> Uploads]
    BY <1>3, UploadType DEF Read, Go, Steps
  <2>. QED BY <1>3, <2>1 DEF Read, TypeOK
<1>4. ASSUME NEW c \in Upload, Reserve(c)
      PROVE  TypeOK'
  <2>1. upload' \in [Upload -> Uploads]
    BY <1>4, UploadType DEF Reserve, Steps
  <2>2. CASE Who(c) \in Human
    <3>. DEFINE u == Who(c)
                s == IF member[u].status = "none" THEN "active" ELSE member[u].status
    <3>1. member[u] \in Rows /\ upload[c].now \in 0 .. MaxTime
      BY <2>2 DEF TypeOK, Uploads
    <3>2. member[u].pending + 1 \in Nat /\ s \in Statuses
      BY <3>1 DEF Rows, Statuses
    <3>3. [member EXCEPT ![u].status = s, ![u].pending = member[u].pending + 1,
                         ![u].updated = upload[c].now] \in [Human -> Rows]
      BY <2>2, <3>1, <3>2, RowStep
    <3>4. member' = [member EXCEPT ![u].status = s, ![u].pending = member[u].pending + 1,
                                   ![u].updated = upload[c].now]
      BY <1>4, <2>2 DEF Reserve, Reserved, TypeOK
    <3>. QED BY <1>4, <2>1, <3>3, <3>4 DEF Reserve, TypeOK
  <2>3. CASE Who(c) \notin Human
    <3>1. member' = member
      BY <1>4, <2>3 DEF Reserve, Reserved, TypeOK
    <3>. QED BY <1>4, <2>1, <3>1 DEF Reserve, TypeOK
  <2>. QED BY <2>2, <2>3
<1>5. ASSUME NEW c \in Upload, Refuse(c) \/ Write(c) \/ CommitFails(c)
      PROVE  TypeOK'
  <2>1. upload' \in [Upload -> Uploads]
    <3>1. PICK pc \in Steps : upload' = [upload EXCEPT ![c].pc = pc]
      BY <1>5 DEF Refuse, Write, CommitFails, Go, Steps
    <3>2. [upload EXCEPT ![c].pc = pc] \in [Upload -> Uploads]
      BY UploadType
    <3>. QED BY <3>1, <3>2
  <2>. QED BY <1>5, <2>1 DEF Refuse, Write, CommitFails, TypeOK
<1>6. ASSUME NEW c \in Upload, Commit(c) \/ LoseReply(c)
      PROVE  TypeOK'
  <2>1. upload' \in [Upload -> Uploads]
    <3>1. PICK pc \in Steps : upload' = [upload EXCEPT ![c].pc = pc, ![c].slot = FALSE]
      BY <1>6 DEF Commit, LoseReply, Steps
    <3>2. [upload EXCEPT ![c].pc = pc, ![c].slot = FALSE] \in [Upload -> Uploads]
      BY UploadType
    <3>. QED BY <3>1, <3>2
  <2>2. Finalized(c) \in [Human -> Rows]
    <3>1. CASE Who(c) \in Human
      <4>1. member[Who(c)].pending \in Nat /\ upload[c].now \in 0 .. MaxTime
        BY <3>1 DEF TypeOK, Rows, Uploads
      <4>2. Less(member[Who(c)].pending) \in Nat
        BY <4>1, LessType
      <4>3. [member EXCEPT ![Who(c)].pending = Less(member[Who(c)].pending),
                           ![Who(c)].contributed = TRUE, ![Who(c)].updated = upload[c].now]
              \in [Human -> Rows]
        BY <3>1, <4>1, <4>2, RowStep DEF Statuses
      <4>. QED BY <4>3 DEF Finalized, TypeOK
    <3>2. CASE Who(c) \notin Human
      BY <3>2 DEF Finalized, TypeOK
    <3>. QED BY <3>1, <3>2
  <2>3. faults' \in 0 .. MaxFaults
    BY <1>6, BoundAssumption DEF Commit, LoseReply, TypeOK
  <2>. QED BY <1>6, <2>1, <2>2, <2>3 DEF Commit, LoseReply, TypeOK
<1>7. ASSUME NEW c \in Upload, Release(c)
      PROVE  TypeOK'
  <2>1. upload' \in [Upload -> Uploads]
    BY <1>7, UploadType DEF Release, Steps
  <2>2. member' \in [Human -> Rows]
    <3>1. CASE Who(c) \in Human /\ member[Who(c)].status # "none"
      <4>1. member[Who(c)].pending \in Nat /\ upload[c].now \in 0 .. MaxTime
        BY <3>1 DEF TypeOK, Rows, Uploads
      <4>2. Less(member[Who(c)].pending) \in Nat
        BY <4>1, LessType
      <4>3. [member EXCEPT ![Who(c)].pending = Less(member[Who(c)].pending),
                           ![Who(c)].updated = upload[c].now] \in [Human -> Rows]
        BY <3>1, <4>1, <4>2, RowStep DEF Statuses
      <4>. QED BY <1>7, <3>1, <4>3 DEF Release
    <3>2. CASE ~(Who(c) \in Human /\ member[Who(c)].status # "none")
      BY <1>7, <3>2 DEF Release, TypeOK
    <3>. QED BY <3>1, <3>2
  <2>. QED BY <1>7, <2>1, <2>2 DEF Release, TypeOK
<1>8. ASSUME NEW c \in Upload, Crash(c)
      PROVE  TypeOK'
  <2>1. upload' \in [Upload -> Uploads]
    BY <1>8, UploadType DEF Crash, Steps
  <2>2. faults' \in 0 .. MaxFaults
    BY <1>8, BoundAssumption DEF Crash, TypeOK
  <2>. QED BY <1>8, <2>1, <2>2 DEF Crash, TypeOK
<1>9. ASSUME NEW u \in Human, Remove(u) \/ Restore(u)
      PROVE  TypeOK'
  <2>1. churn' \in 0 .. MaxChurn
    BY <1>9, BoundAssumption DEF Remove, Restore, TypeOK
  <2>2. member' \in [Human -> Rows]
    <3>1. clock \in 0 .. MaxTime /\ 0 \in Nat /\ {"removed", "active"} \subseteq Statuses
      BY DEF Statuses, TypeOK
    <3>2. \/ member' = [member EXCEPT ![u].status = "removed", ![u].pending = 0,
                                      ![u].updated = clock]
          \/ member' = [member EXCEPT ![u].status = "active", ![u].updated = clock]
      BY <1>9 DEF Remove, Restore
    <3>3. /\ [member EXCEPT ![u].status = "removed", ![u].pending = 0, ![u].updated = clock]
               \in [Human -> Rows]
          /\ [member EXCEPT ![u].status = "active", ![u].updated = clock] \in [Human -> Rows]
      BY <3>1, RowStep
    <3>. QED BY <3>2, <3>3
  <2>. QED BY <1>9, <2>1, <2>2 DEF Remove, Restore, TypeOK
<1>10. ASSUME NEW b \in Bot, Stop(b)
       PROVE  TypeOK'
  <2>1. churn' \in 0 .. MaxChurn
    BY <1>10, BoundAssumption DEF Stop, TypeOK
  <2>. QED BY <1>10, <2>1 DEF Stop, TypeOK
<1>11. ASSUME Tick
       PROVE  TypeOK'
  <2>1. clock' \in 0 .. MaxTime
    BY <1>11, BoundAssumption DEF Tick, TypeOK
  <2>. QED BY <1>11, <2>1 DEF Tick, TypeOK
<1>. QED BY <1>1, <1>2, <1>3, <1>4, <1>5, <1>6, <1>7, <1>8, <1>9, <1>10, <1>11 DEF Next

-----------------------------------------------------------------------------
(* Who holds a reservation. *)

LEMMA HeldStep ==
  ASSUME SlotInv, Next
  PROVE  HeldWhileRunning' /\ BypassLapses'
<1>. USE DEF HeldWhileRunning, BypassLapses, Running, Who, IsHuman, At, Go
<1>0. /\ TypeOK /\ HeldWhileRunning /\ BypassLapses
      /\ \A c \in Upload : DOMAIN upload[c] = {"pc", "user", "external", "now", "slot"}
  BY DEF SlotInv, TypeOK, Uploads
<1>1. ASSUME NEW c \in Upload, Start(c) \/ CleanUp(c) \/ Refuse(c)
      PROVE  HeldWhileRunning' /\ BypassLapses'
  <2>1. CASE Start(c)
    BY <1>0, <2>1 DEF Start, TypeOK, Uploads
  <2>2. CASE CleanUp(c)
    BY <1>0, <2>2 DEF CleanUp, TypeOK, Uploads
  <2>3. CASE Refuse(c)
    BY <1>0, <2>3 DEF Refuse, TypeOK, Uploads
  <2>. QED BY <1>1, <2>1, <2>2, <2>3
<1>2. ASSUME NEW c \in Upload, Read(c)
      PROVE  HeldWhileRunning' /\ BypassLapses'
  BY <1>0, <1>2 DEF Read, TypeOK, Uploads
<1>3. ASSUME NEW c \in Upload, Reserve(c)
      PROVE  HeldWhileRunning' /\ BypassLapses'
  BY <1>0, <1>3 DEF Reserve, TypeOK, Uploads
<1>4. ASSUME NEW c \in Upload, Write(c) \/ CommitFails(c)
      PROVE  HeldWhileRunning' /\ BypassLapses'
  <2>1. CASE Write(c)
    BY <1>0, <2>1 DEF Write, TypeOK, Uploads
  <2>2. CASE CommitFails(c)
    BY <1>0, <2>2 DEF CommitFails, TypeOK, Uploads
  <2>. QED BY <1>4, <2>1, <2>2
<1>5. ASSUME NEW c \in Upload, Commit(c) \/ LoseReply(c) \/ Release(c) \/ Crash(c)
      PROVE  HeldWhileRunning' /\ BypassLapses'
  BY <1>0, <1>5 DEF Commit, LoseReply, Release, Crash, TypeOK, Uploads
<1>6. ASSUME NEW u \in Human, Remove(u) \/ Restore(u)
      PROVE  HeldWhileRunning' /\ BypassLapses'
  BY <1>0, <1>6 DEF Remove, Restore
<1>7. ASSUME NEW b \in Bot, Stop(b)
      PROVE  HeldWhileRunning' /\ BypassLapses'
  BY <1>0, <1>7 DEF Stop
<1>8. ASSUME Tick
      PROVE  HeldWhileRunning' /\ BypassLapses'
  BY <1>0, <1>8 DEF Tick
<1>. QED BY <1>1, <1>2, <1>3, <1>4, <1>5, <1>6, <1>7, <1>8 DEF Next

-----------------------------------------------------------------------------
(* The rows. *)

LEMMA RemovedStep ==
  ASSUME SlotInv, Next
  PROVE  RemovedHoldsNothing'
<1>. USE DEF RemovedHoldsNothing, Who, IsHuman
<1>0. TypeOK /\ RemovedHoldsNothing /\ Less(0) = 0
  BY DEF SlotInv, Less, Max0
<1>1. ASSUME NEW c \in Upload,
             Start(c) \/ Read(c) \/ Refuse(c) \/ Write(c) \/ CommitFails(c) \/ Crash(c)
      PROVE  RemovedHoldsNothing'
  BY <1>0, <1>1 DEF Start, Read, Refuse, Write, CommitFails, Crash
<1>2. ASSUME NEW c \in Upload, CleanUp(c)
      PROVE  RemovedHoldsNothing'
  BY <1>0, <1>2 DEF CleanUp, TypeOK, Rows
<1>3. ASSUME NEW c \in Upload, Reserve(c)
      PROVE  RemovedHoldsNothing'
  BY <1>0, <1>3 DEF Reserve, Reserved, Admitted, TypeOK, Rows, Statuses
<1>4. ASSUME NEW c \in Upload, Commit(c) \/ LoseReply(c)
      PROVE  RemovedHoldsNothing'
  BY <1>0, <1>4 DEF Commit, LoseReply, Finalized, TypeOK, Rows
<1>5. ASSUME NEW c \in Upload, Release(c)
      PROVE  RemovedHoldsNothing'
  BY <1>0, <1>5 DEF Release, TypeOK, Rows
<1>6. ASSUME NEW u \in Human, Remove(u) \/ Restore(u)
      PROVE  RemovedHoldsNothing'
  BY <1>0, <1>6 DEF Remove, Restore, TypeOK, Rows
<1>7. ASSUME NEW b \in Bot, Stop(b)
      PROVE  RemovedHoldsNothing'
  BY <1>0, <1>7 DEF Stop
<1>8. ASSUME Tick
      PROVE  RemovedHoldsNothing'
  BY <1>0, <1>8 DEF Tick
<1>. QED BY <1>1, <1>2, <1>3, <1>4, <1>5, <1>6, <1>7, <1>8 DEF Next

\* Every reservation that did not lapse stays covered.
LEMMA CoveredStep ==
  ASSUME SlotInv, TypeOK', Next
  PROVE  Covered'
<1>. SUFFICES ASSUME NEW u \in Human \ lapsed'
              PROVE  Cardinality(Holding(u)') <= member'[u].pending
  BY DEF Covered
<1>0. /\ TypeOK /\ Covered /\ HeldWhileRunning /\ BypassLapses
      /\ member[u].pending \in Nat /\ member'[u].pending \in Nat
      /\ member[u] \in Rows /\ member'[u] \in Rows
  BY DEF SlotInv, TypeOK, Rows
<1>. USE DEF Who, IsHuman
<1>1. ASSUME NEW c \in Upload, Start(c) \/ Read(c) \/ Refuse(c) \/ Write(c) \/ CommitFails(c)
      PROVE  Cardinality(Holding(u)') <= member'[u].pending
  <2>1. u \notin lapsed /\ member' = member
    BY <1>1 DEF Start, Read, Refuse, Write, CommitFails
  <2>2. Holding(u)' \subseteq Holding(u)
    BY <1>0, <1>1 DEF Start, Read, Refuse, Write, CommitFails, Go, Holding, TypeOK, Uploads
  <2>. QED BY <1>0, <2>1, <2>2, StillCovered
<1>2. ASSUME NEW c \in Upload, CleanUp(c)
      PROVE  Cardinality(Holding(u)') <= member'[u].pending
  <2>1. Holding(u)' = Holding(u) /\ u \notin lapsed
    BY <1>0, <1>2 DEF CleanUp, Go, Holding, TypeOK, Uploads
  <2>2. CASE Stale(u, upload[c].now)
    <3>1. Holding(u) = {}
      BY <1>2, <2>2 DEF CleanUp
    <3>. QED BY <1>0, <2>1, <3>1, FS_EmptySet
  <2>3. CASE ~Stale(u, upload[c].now)
    <3>1. member'[u] = member[u]
      BY <1>2, <2>3 DEF CleanUp
    <3>. QED BY <1>0, <2>1, <3>1, StillCovered
  <2>. QED BY <2>2, <2>3
<1>3. ASSUME NEW c \in Upload, Reserve(c)
      PROVE  Cardinality(Holding(u)') <= member'[u].pending
  <2>1. u \notin lapsed
    BY <1>3 DEF Reserve
  <2>2. CASE u = Who(c)
    <3>1. Holding(u)' = Holding(u) \cup {c}
      BY <1>0, <1>3, <2>2 DEF Reserve, Holding, TypeOK, Uploads
    <3>2. c \notin Holding(u)
      BY <1>0, <1>3 DEF Reserve, At, Holding, HeldWhileRunning, Running
    <3>3. /\ Cardinality(Holding(u)') = Cardinality(Holding(u)) + 1
          /\ Cardinality(Holding(u)) \in Nat
      BY <3>1, <3>2, Finite, FS_AddElement, FS_CardinalityType
    <3>4. member'[u].pending = member[u].pending + 1
      BY <1>0, <1>3, <2>2 DEF Reserve, Reserved, TypeOK, Rows
    <3>5. Cardinality(Holding(u)) <= member[u].pending
      BY <1>0, <2>1 DEF Covered
    <3>. QED BY <1>0, <3>3, <3>4, <3>5
  <2>3. CASE u # Who(c)
    <3>1. Holding(u)' \subseteq Holding(u)
      BY <1>0, <1>3, <2>3 DEF Reserve, Holding, TypeOK, Uploads
    <3>2. member'[u].pending = member[u].pending
      BY <1>0, <1>3, <2>3 DEF Reserve, Reserved, TypeOK
    <3>. QED BY <1>0, <2>1, <3>1, <3>2, StillCovered
  <2>. QED BY <2>2, <2>3
<1>4. ASSUME NEW c \in Upload, Commit(c) \/ LoseReply(c) \/ Release(c)
      PROVE  Cardinality(Holding(u)') <= member'[u].pending
  <2>1. u \notin lapsed
    BY <1>4 DEF Commit, LoseReply, Release
  <2>2. Holding(u)' = Holding(u) \ {c}
    BY <1>0, <1>4 DEF Commit, LoseReply, Release, Holding, TypeOK, Uploads
  <2>3. CASE u = Who(c) /\ member[u].status = "none"
    <3>1. member'[u].pending = member[u].pending
      BY <1>0, <1>4, <2>3 DEF Commit, LoseReply, Release, Finalized, TypeOK
    <3>2. Holding(u)' \subseteq Holding(u) /\ member[u].pending <= member'[u].pending
      BY <1>0, <2>2, <3>1
    <3>. QED BY <1>0, <2>1, <3>2, StillCovered
  <2>4. CASE u = Who(c) /\ member[u].status = "removed"
    <3>1. Cardinality(Holding(u)) <= 0
      BY <1>0, <2>1, <2>4 DEF Covered, SlotInv, RemovedHoldsNothing
    <3>2. Cardinality(Holding(u)') <= 0
      BY <2>2, <3>1, Finite, FS_Subset, FS_CardinalityType
    <3>3. Cardinality(Holding(u)') \in Nat
      BY <2>2, Finite, FS_Subset, FS_CardinalityType
    <3>. QED BY <1>0, <3>2, <3>3
  <2>5. CASE u = Who(c) /\ member[u].status = "active"
    <3>1. upload[c].slot
      BY <1>0, <1>4, <2>1, <2>5
      DEF Commit, LoseReply, Release, At, BypassLapses, TypeOK, Uploads
    <3>2. member'[u].pending = Less(member[u].pending)
      BY <1>0, <1>4, <2>5 DEF Commit, LoseReply, Release, Finalized, TypeOK, Rows
    <3>. QED BY <1>0, <2>1, <2>2, <2>5, <3>1, <3>2, OneFewerCovered
  <2>6. CASE u # Who(c)
    <3>1. member'[u].pending = member[u].pending
      BY <1>0, <1>4, <2>6 DEF Commit, LoseReply, Release, Finalized, TypeOK
    <3>2. Holding(u)' \subseteq Holding(u) /\ member[u].pending <= member'[u].pending
      BY <1>0, <2>2, <3>1
    <3>. QED BY <1>0, <2>1, <3>2, StillCovered
  <2>. QED BY <1>0, <2>3, <2>4, <2>5, <2>6 DEF Rows, Statuses
<1>5. ASSUME NEW c \in Upload, Crash(c)
      PROVE  Cardinality(Holding(u)') <= member'[u].pending
  <2>1. Holding(u)' \subseteq Holding(u) /\ u \notin lapsed /\ member' = member
    BY <1>0, <1>5 DEF Crash, Holding, TypeOK, Uploads
  <2>. QED BY <1>0, <2>1, StillCovered
<1>6. ASSUME NEW v \in Human, Remove(v) \/ Restore(v)
      PROVE  Cardinality(Holding(u)') <= member'[u].pending
  <2>1. Holding(u)' = Holding(u) /\ u \notin lapsed
    BY <1>6 DEF Remove, Restore, Holding
  <2>2. CASE u = v /\ Remove(v)
    <3>1. Holding(u)' = {}
      BY <2>1, <2>2 DEF Remove
    <3>. QED BY <1>0, <3>1, FS_EmptySet
  <2>3. CASE u # v \/ Restore(v)
    <3>1. member'[u].pending = member[u].pending
      BY <1>0, <1>6, <2>3 DEF Remove, Restore, TypeOK, Rows
    <3>. QED BY <1>0, <2>1, <3>1, StillCovered
  <2>. QED BY <1>6, <2>2, <2>3
<1>7. ASSUME NEW b \in Bot, Stop(b)
      PROVE  Cardinality(Holding(u)') <= member'[u].pending
  <2>1. Holding(u)' = Holding(u) /\ u \notin lapsed /\ member' = member
    BY <1>7 DEF Stop, Holding
  <2>. QED BY <1>0, <2>1, StillCovered
<1>8. ASSUME Tick
      PROVE  Cardinality(Holding(u)') <= member'[u].pending
  <2>1. Holding(u)' = Holding(u) /\ u \notin lapsed /\ member' = member
    BY <1>8 DEF Tick, Holding
  <2>. QED BY <1>0, <2>1, StillCovered
<1>. QED BY <1>1, <1>2, <1>3, <1>4, <1>5, <1>6, <1>7, <1>8 DEF Next

-----------------------------------------------------------------------------
(* The guardrail. *)

LEMMA LimitStep ==
  ASSUME SlotInv, Next
  PROVE  WithinLimit'
<1>. USE DEF Who, IsHuman
<1>0. TypeOK /\ WithinLimit
  BY DEF SlotInv
<1>1. ASSUME NEW c \in Upload,
             \/ Start(c) \/ Read(c) \/ Refuse(c) \/ Write(c) \/ CommitFails(c) \/ Crash(c)
             \/ Release(c)
      PROVE  WithinLimit'
  <2>1. CASE Release(c)
    <3>1. \A n \in Nat : Less(n) > 0 => n > 0
      BY DEF Less, Max0
    <3>2. (Contributors \ lapsed)' \subseteq Contributors \ lapsed
      BY <1>0, <2>1, <3>1 DEF Release, Contributors, Contributor, TypeOK, Rows
    <3>. QED BY <1>0, <3>2, NoneAdded
  <2>2. CASE ~Release(c)
    <3>1. (Contributors \ lapsed)' \subseteq Contributors \ lapsed
      BY <1>1, <2>2 DEF Start, Read, Refuse, Write, CommitFails, Crash, Contributors, Contributor
    <3>. QED BY <1>0, <3>1, NoneAdded
  <2>. QED BY <2>1, <2>2
<1>2. ASSUME NEW c \in Upload, CleanUp(c)
      PROVE  WithinLimit'
  <2>1. (Contributors \ lapsed)' \subseteq Contributors \ lapsed
    <3>1. ASSUME NEW u \in Human, Contributor(u)' PROVE Contributor(u)
      <4>1. member[u] \in Rows /\ member'[u].status = member[u].status
              /\ member'[u].contributed = member[u].contributed
              /\ member'[u].pending \in {member[u].pending, 0}
        BY <1>0, <1>2 DEF CleanUp, TypeOK, Rows
      <4>. QED BY <3>1, <4>1 DEF Contributor
    <3>2. lapsed \subseteq lapsed'
      BY <1>2 DEF CleanUp
    <3>. QED BY <3>1, <3>2 DEF Contributors
  <2>. QED BY <1>0, <2>1, NoneAdded
<1>3. ASSUME NEW c \in Upload, Reserve(c)
      PROVE  WithinLimit'
  <2>. DEFINE u == Who(c)
  <2>1. (Contributors \ lapsed)' \subseteq (Contributors \ lapsed) \cup {u}
    BY <1>0, <1>3 DEF Reserve, Reserved, Contributors, Contributor, TypeOK
  <2>2. CASE Contributor(u)
    <3>1. (Contributors \ lapsed)' \subseteq Contributors \ lapsed
      BY <1>0, <1>3, <2>1, <2>2 DEF Reserve, Contributors
    <3>. QED BY <1>0, <3>1, NoneAdded
  <2>3. CASE Cardinality(Contributors) < Limit
    <3>1. (Contributors \ lapsed)' \subseteq Contributors \cup {u}
      BY <2>1
    <3>2. /\ IsFiniteSet(Contributors \cup {u})
          /\ Cardinality(Contributors \cup {u}) <= Cardinality(Contributors) + 1
          /\ Cardinality(Contributors) \in Nat
          /\ Cardinality(Contributors \cup {u}) \in Nat
      <4>1. IsFiniteSet(Contributors) /\ Cardinality(Contributors) \in Nat
        BY Finite, FS_CardinalityType
      <4>. HIDE DEF u
      <4>2. /\ IsFiniteSet(Contributors \cup {u})
            /\ Cardinality(Contributors \cup {u}) =
                 IF u \in Contributors THEN Cardinality(Contributors) ELSE Cardinality(Contributors) + 1
        BY <4>1, FS_AddElement
      <4>. QED BY <4>1, <4>2
    <3>3. /\ Cardinality((Contributors \ lapsed)') <= Cardinality(Contributors \cup {u})
          /\ Cardinality((Contributors \ lapsed)') \in Nat
      BY <3>1, <3>2, FS_Subset, FS_CardinalityType
    <3>. QED BY <2>3, <3>2, <3>3, BoundAssumption DEF WithinLimit
  <2>. QED BY <1>3, <2>2, <2>3 DEF Reserve, Admitted
<1>4. ASSUME NEW c \in Upload, Commit(c) \/ LoseReply(c)
      PROVE  WithinLimit'
  <2>. DEFINE u == Who(c)
  <2>0. lapsed' = lapsed /\ member' = Finalized(c)
    BY <1>4 DEF Commit, LoseReply
  <2>1. CASE u \in Human /\ member[u].status = "active"
    <3>1. (Contributors \ lapsed)' \subseteq (Contributors \ lapsed) \cup {u}
      BY <1>0, <2>0, <2>1 DEF Finalized, Contributors, Contributor, TypeOK
    <3>2. u \notin lapsed => upload[c].slot
      BY <1>0, <1>4, <2>1 DEF SlotInv, BypassLapses, Commit, LoseReply, At, TypeOK, Uploads
    <3>3. u \notin lapsed => u \in Contributors
      BY <2>1, <3>2, HolderContributes
    <3>4. (Contributors \ lapsed)' \subseteq Contributors \ lapsed
      BY <2>0, <3>1, <3>3
    <3>. QED BY <1>0, <3>4, NoneAdded
  <2>2. CASE ~(u \in Human /\ member[u].status = "active")
    <3>1. (Contributors \ lapsed)' \subseteq Contributors \ lapsed
      BY <2>0, <2>2 DEF Finalized, Contributors, Contributor
    <3>. QED BY <1>0, <3>1, NoneAdded
  <2>. QED BY <2>1, <2>2
<1>5. ASSUME NEW u \in Human, Remove(u) \/ Restore(u)
      PROVE  WithinLimit'
  <2>1. (Contributors \ lapsed)' \subseteq Contributors \ lapsed
    <3>1. CASE Remove(u)
      BY <1>0, <3>1 DEF Remove, Contributors, Contributor, TypeOK, Rows
    <3>2. CASE Restore(u)
      <4>1. member[u].pending = 0
        BY <3>2 DEF Restore, SlotInv, RemovedHoldsNothing
      <4>. QED BY <1>0, <3>2, <4>1 DEF Restore, Contributors, Contributor, TypeOK, Rows
    <3>. QED BY <1>5, <3>1, <3>2
  <2>. QED BY <1>0, <2>1, NoneAdded
<1>6. ASSUME Tick \/ \E b \in Bot : Stop(b)
      PROVE  WithinLimit'
  <2>1. (Contributors \ lapsed)' \subseteq Contributors \ lapsed
    BY <1>6 DEF Tick, Stop, Contributors, Contributor
  <2>. QED BY <1>0, <2>1, NoneAdded
<1>. QED BY <1>1, <1>2, <1>3, <1>4, <1>5, <1>6 DEF Next

-----------------------------------------------------------------------------
LEMMA StutterInv == ASSUME SlotInv, UNCHANGED vars PROVE SlotInv'
BY DEF SlotInv, vars, TypeOK, HeldWhileRunning, BypassLapses, RemovedHoldsNothing, Covered,
       WithinLimit, Contributors, Contributor, Holding, Who, IsHuman

\* The strengthened invariant.
LEMMA Invariant == Spec => []SlotInv
<1>1. Init => SlotInv
  BY InitInv
<1>2. SlotInv /\ [Next]_vars => SlotInv'
  <2>1. ASSUME SlotInv, Next PROVE SlotInv'
    <3>1. TypeOK'
      BY <2>1, TypeStep DEF SlotInv
    <3>. QED BY <2>1, <3>1, HeldStep, RemovedStep, CoveredStep, LimitStep DEF SlotInv
  <2>. QED BY <2>1, StutterInv
<1>. QED BY <1>1, <1>2, PTL DEF Spec

\* The variables keep their types.
THEOREM SlotTypes == Spec => []TypeOK
<1>1. SlotInv => TypeOK
  BY DEF SlotInv
<1>. QED BY <1>1, Invariant, PTL

\* Contributors who did not lose a reservation while they uploaded, or come
\* back as contributors, are never more than the guardrail.
THEOREM GuardrailHolds == Spec => []WithinLimit
<1>1. SlotInv => WithinLimit
  BY DEF SlotInv
<1>. QED BY <1>1, Invariant, PTL

\* No upload's reservation is taken by the end of another upload, unless it
\* lapsed.
THEOREM ReservationsKept == Spec => []Covered
<1>1. SlotInv => Covered
  BY DEF SlotInv
<1>. QED BY <1>1, Invariant, PTL

\* Nobody who is removed leaves a reservation for the restored row.
THEOREM NothingLeftOnRemoval == Spec => []RemovedHoldsNothing
<1>1. SlotInv => RemovedHoldsNothing
  BY DEF SlotInv
<1>. QED BY <1>1, Invariant, PTL

-----------------------------------------------------------------------------
(* BillingSync                                                             *)

SubStatuses == {"none", "active", "past_due", "canceled"}
Subscriptions == [plan: Billing!Plans, status: SubStatuses]

BillingRows == [plan: Billing!Plans, sub: Subs \union {Billing!None}, status: SubStatuses, customer: Billing!Customers,
         link: BOOLEAN, posting: BOOLEAN]

Deliveries ==
  [step: {"idle"}] \union [step: {"retrieve", "ignored"}, event: Billing!Events]
  \union [step: {"read"}, event: Billing!Events, of: Subs, got: Subscriptions, at: Nat]
  \union [step: {"write"}, event: Billing!Events, of: Subs, got: Subscriptions, at: Nat, plan: Billing!Plans,
          sub: Subs \union {Billing!None}, link: BOOLEAN]

Types ==
  /\ Billing!TypeOK
  /\ sent \in Nat /\ edits \in Nat
  /\ op \in [Ops -> Deliveries]
  /\ tab \in [Tabs -> [step: {"new", "customer", "session", "done"}, customer: Billing!Customers]]

Received(e) == event[e].state \in {"received", "processed"}
Pending(e) == event[e].state \in {"sent", "received"}

\* An event that was sent is one of a subscription that has begun.
EventsSent ==
  \A e \in Billing!Events :
    /\ event[e].state = "unsent" => audits[e] = 0
    /\ event[e].state # "unsent" =>
         e <= sent /\ event[e].sub \in Subs /\ sub[event[e].sub].status # "none"

\* A delivery works on an event that was received.
OfReceived ==
  \A o \in Ops : op[o].step # "idle" =>
    /\ Received(op[o].event)
    /\ op[o].step \in {"read", "write"} => op[o].of = event[op[o].event].sub

AuditsFollow ==
  \A e \in Billing!Events : audits[e] <= 1 /\ (audits[e] = 1 => event[e].state = "processed")

\* A checkout before its customer bills none.
CustomersKept ==
  /\ Billing!OneCustomer
  /\ \A t \in Tabs : tab[t].step \in {"session", "done"} => row.customer # Billing!None

BillingInv == Types /\ EventsSent /\ OfReceived /\ AuditsFollow /\ CustomersKept

LEMMA InitBilling ==
  ASSUME Billing!BillingAssumption
  PROVE  Billing!Init => BillingInv
<1>. SUFFICES ASSUME Billing!Init PROVE BillingInv
  OBVIOUS
<1>1. newest \in [Subs -> Nat] /\ late \in BOOLEAN
  BY DEF Billing!Init
<1>2. Types
  BY <1>1 DEF Billing!Init, Types, Billing!TypeOK, Deliveries, SubStatuses, Billing!Plans,
     Billing!Customers
<1>. QED BY <1>2 DEF Billing!Init, BillingInv, EventsSent, OfReceived, AuditsFollow,
   CustomersKept, Billing!OneCustomer

LEMMA AnnounceKeeps ==
  ASSUME Billing!BillingAssumption, BillingInv, NEW s \in Subs, NEW now \in Subscriptions, now.status # "none",
         Billing!Announce(s, now), UNCHANGED <<row, audits, op, newest, late>>,
         tab' \in [Tabs -> [step: {"new", "customer", "session", "done"}, customer: Billing!Customers]],
         \A t \in Tabs : tab'[t].step \in {"session", "done"} =>
            tab[t].step \in {"session", "done"} /\ tab'[t].customer = tab[t].customer,
         edits' \in Nat
  PROVE  BillingInv'
<1>1. sent + 1 \in Billing!Events /\ sent \in Nat
  BY DEF Billing!BillingAssumption, Billing!Announce, BillingInv, Types, Billing!Events
<1>2. event[sent + 1].state = "unsent"
  BY <1>1 DEF BillingInv, EventsSent, Types, Billing!TypeOK, Billing!Events
<1>3. Types'
  BY <1>1 DEF Billing!Announce, BillingInv, Types, Billing!TypeOK, Subscriptions, SubStatuses
<1>4. EventsSent'
  BY <1>1, <1>2 DEF Billing!Announce, BillingInv, Types, Billing!TypeOK, EventsSent,
     Subscriptions, Billing!Events
<1>5. \A o \in Ops : op[o].step # "idle" => op[o].event \in Billing!Events /\ op[o].event # sent + 1
  BY <1>1, <1>2 DEF BillingInv, Types, OfReceived, Received, Deliveries
<1>6. OfReceived'
  BY <1>1, <1>5 DEF Billing!Announce, BillingInv, Types, Billing!TypeOK, OfReceived, Received
<1>7. AuditsFollow'
  BY <1>1, <1>2 DEF Billing!Announce, BillingInv, Types, Billing!TypeOK, AuditsFollow, EventsSent
<1>8. CustomersKept'
  BY DEF BillingInv, CustomersKept, Billing!OneCustomer
<1>. QED BY <1>3, <1>4, <1>6, <1>7, <1>8 DEF BillingInv

LEMMA OwnerKeeps ==
  ASSUME Billing!BillingAssumption, BillingInv, Billing!Owner
  PROVE  BillingInv'
<1>1. CASE \E t \in Tabs : Billing!Checkout(t)
  BY <1>1 DEF Billing!Checkout, BillingInv, Types, Billing!TypeOK, Billing!Customers,
     Billing!None, EventsSent, OfReceived, Received,
     AuditsFollow, CustomersKept, Billing!OneCustomer
<1>2. CASE \E t \in Tabs : Billing!NewCustomer(t)
  BY <1>2 DEF Billing!NewCustomer, Billing!Kept, Billing!BillingAssumption, BillingInv, Types,
     Billing!TypeOK, Billing!Customers, EventsSent,
     OfReceived, Received, AuditsFollow, CustomersKept, Billing!OneCustomer
<1>3. ASSUME NEW t \in Tabs, NEW s \in Subs, NEW plan \in Billing!Paid, Billing!Subscribe(t, s, plan) PROVE BillingInv'
  <2>1. [plan |-> plan, status |-> "active"] \in Subscriptions
    BY DEF Subscriptions, Billing!Plans, SubStatuses
  <2>2. tab' \in [Tabs -> [step: {"new", "customer", "session", "done"}, customer: Billing!Customers]]
    BY <1>3 DEF Billing!Subscribe, BillingInv, Types
  <2>3. \A u \in Tabs : tab'[u].step \in {"session", "done"} =>
           tab[u].step \in {"session", "done"} /\ tab'[u].customer = tab[u].customer
    BY <1>3 DEF Billing!Subscribe, BillingInv, Types
  <2>. QED BY <1>3, <2>1, <2>2, <2>3, AnnounceKeeps DEF Billing!Subscribe, BillingInv, Types
<1>4. ASSUME NEW s \in Subs, NEW plan \in Billing!Paid, NEW status \in {"active", "past_due", "canceled"},
             Billing!Changes(s, [plan |-> plan, status |-> status])
      PROVE  BillingInv'
  <2>1. [plan |-> plan, status |-> status] \in Subscriptions
    BY DEF Subscriptions, Billing!Plans, SubStatuses
  <2>. QED BY <1>4, <2>1, AnnounceKeeps DEF Billing!Changes, BillingInv, Types
<1>5. CASE Billing!Edit
  <2>1. PICK link \in BOOLEAN, posting \in BOOLEAN : row' = [row EXCEPT !.link = link, !.posting = posting]
    BY <1>5 DEF Billing!Edit
  <2>2. row' \in BillingRows /\ row'.customer = row.customer
    BY <2>1 DEF BillingInv, Types, Billing!TypeOK, BillingRows, SubStatuses
  <2>3. Types'
    BY <1>5, <2>2 DEF Billing!Edit, BillingInv, Types, Billing!TypeOK, BillingRows, SubStatuses
  <2>. QED BY <1>5, <2>2, <2>3 DEF Billing!Edit, BillingInv, EventsSent, OfReceived, Received,
     AuditsFollow, CustomersKept, Billing!OneCustomer
<1>. QED BY <1>1, <1>2, <1>3, <1>4, <1>5 DEF Billing!Owner

LEMMA DeliveryKeeps ==
  ASSUME Billing!BillingAssumption, BillingInv, NEW o \in Ops,
         Billing!Proceed(o) \/ Billing!Fail(o) \/ \E e \in Billing!Events : Billing!Record(o, e)
  PROVE  BillingInv'
<1>0. op[o] \in Deliveries
  BY DEF BillingInv, Types
<1>1. ASSUME NEW e \in Billing!Events, Billing!Record(o, e) PROVE BillingInv'
  <2>1. Types'
    BY <1>1 DEF Billing!Record, BillingInv, Types, Billing!TypeOK, Deliveries
  <2>. QED BY <1>1, <2>1 DEF Billing!Record, Billing!Idle, BillingInv, Types, Billing!TypeOK,
              EventsSent, OfReceived, Received,
     AuditsFollow, CustomersKept, Billing!OneCustomer
<1>2. CASE Billing!Retrieve(o)
  <2>1. op[o].event \in Billing!Events /\ event[op[o].event].sub \in Subs
    BY <1>0, <1>2 DEF Billing!Retrieve, BillingInv, EventsSent, OfReceived, Received, Deliveries
  <2>2. Types'
    BY <1>2, <2>1 DEF Billing!Retrieve, BillingInv, Types, Billing!TypeOK, Deliveries,
       Subscriptions, SubStatuses
  <2>. QED BY <1>2, <2>1, <2>2 DEF Billing!Retrieve, BillingInv, Types, Billing!TypeOK,
              EventsSent, OfReceived, Received,
     AuditsFollow, CustomersKept, Billing!OneCustomer
<1>3. CASE Billing!Ignore(o)
  <2>1. Types'
    <3>1. op[o].of \in Subs /\ op[o].at \in Nat /\ op[o].event \in Billing!Events
      BY <1>0, <1>3 DEF Billing!Ignore, Deliveries
    <3>2. newest' \in [Subs -> Nat]
      BY <1>3, <3>1 DEF Billing!Ignore, Billing!ActsOn, BillingInv, Types, Billing!TypeOK
    <3>. QED BY <1>3, <3>1, <3>2 DEF Billing!Ignore, BillingInv, Types, Billing!TypeOK, Deliveries
  <2>. QED BY <1>3, <2>1 DEF Billing!Ignore, BillingInv, Types, Billing!TypeOK, EventsSent,
              OfReceived, Received,
     AuditsFollow, CustomersKept, Billing!OneCustomer
<1>4. CASE Billing!Read(o)
  <2>1. row \in BillingRows
    BY DEF BillingInv, Types, Billing!TypeOK, BillingRows, SubStatuses
  <2>2. op[o] \in [step: {"read"}, event: Billing!Events, of: Subs, got: Subscriptions, at: Nat]
    BY <1>0, <1>4 DEF Billing!Read, Deliveries
  <2>3. op'[o] \in Deliveries /\ op' = [op EXCEPT ![o] = op'[o]]
    BY <1>4, <2>1, <2>2 DEF Billing!Read, BillingInv, Types, BillingRows, Deliveries
  <2>4. Types'
    BY <1>4, <2>3 DEF Billing!Read, BillingInv, Types, Billing!TypeOK
  <2>. QED BY <1>4, <2>4 DEF Billing!Read, BillingInv, Types, Billing!TypeOK, EventsSent,
              OfReceived, Received,
     AuditsFollow, CustomersKept, Billing!OneCustomer
<1>5. CASE Billing!Ignored(o)
  <2>2. op[o].event \in Billing!Events
    BY <1>0, <1>5 DEF Billing!Ignored, Deliveries
  <2>3. op' \in [Ops -> Deliveries]
    BY <1>5 DEF Billing!Ignored, Billing!End, BillingInv, Types, Deliveries
  <2>1. Types' /\ op[o].event \in Billing!Events
    BY <1>5, <2>2, <2>3 DEF Billing!Ignored, BillingInv, Types, Billing!TypeOK
  <2>. QED BY <1>5, <2>1 DEF Billing!Ignored, Billing!End, BillingInv, Types, Billing!TypeOK,
              EventsSent, OfReceived, Received,
     AuditsFollow, CustomersKept, Billing!OneCustomer
<1>6. CASE Billing!Write(o)
  <2>1. /\ op[o].event \in Billing!Events /\ op[o].of \in Subs /\ op[o].got \in Subscriptions
        /\ op[o].link \in BOOLEAN /\ op[o].at \in Nat
    BY <1>0, <1>6 DEF Billing!Write, Deliveries
  <2>2. Billing!PlanOf(op[o].got) \in Billing!Plans
    BY <2>1 DEF Billing!PlanOf, Subscriptions, Billing!Plans
  <2>3. Billing!Applied(o).customer = row.customer
    BY DEF Billing!Applied, BillingInv, Types, Billing!TypeOK
  <2>4. row' \in BillingRows
    <3>. DEFINE new == [row EXCEPT !.plan = Billing!PlanOf(op[o].got), !.sub = op[o].of,
                                  !.status = op[o].got.status]
    <3>1. new \in BillingRows
      BY <2>1, <2>2 DEF Subscriptions, BillingInv, Types, Billing!TypeOK, BillingRows, SubStatuses
    <3>2. Billing!Applied(o) \in {new, [new EXCEPT !.posting = TRUE, !.link = op[o].link],
                          [new EXCEPT !.posting = TRUE, !.link = TRUE]}
      BY DEF Billing!Applied
    <3>. HIDE DEF new
    <3>3. Billing!Applied(o) \in BillingRows
      BY <2>1, <3>1, <3>2 DEF BillingRows
    <3>. QED BY <1>6, <3>3 DEF Billing!Write
  <2>9. op' \in [Ops -> Deliveries]
    BY <1>6 DEF Billing!Write, Billing!End, BillingInv, Types, Deliveries
  <2>10. audits' \in [Billing!Events -> Nat]
    BY <1>6, <2>1 DEF Billing!Write, BillingInv, Types, Billing!TypeOK
  <2>13. newest' \in [Subs -> Nat] /\ late' \in BOOLEAN
    BY <1>6, <2>1 DEF Billing!Write, Billing!ActsOn, BillingInv, Types, Billing!TypeOK
  <2>5. Types'
    BY <1>6, <2>1, <2>4, <2>9, <2>10, <2>13 DEF Billing!Write, BillingInv, Types, Billing!TypeOK,
       BillingRows, SubStatuses
  <2>11. Received(op[o].event) /\ event[op[o].event].state # "unsent"
    BY <1>6 DEF Billing!Write, BillingInv, OfReceived, Received
  <2>6. EventsSent'
    BY <1>6, <2>1, <2>11 DEF Billing!Write, BillingInv, Types, Billing!TypeOK, EventsSent
  <2>12. AuditsFollow'
    <3>1. audits'[op[o].event] <= 1
      BY <1>6, <2>1 DEF Billing!Write, Billing!Logged, BillingInv, Types, Billing!TypeOK,
         AuditsFollow
    <3>. QED BY <1>6, <2>1, <3>1 DEF Billing!Write, BillingInv, Types, Billing!TypeOK, AuditsFollow
  <2>7. OfReceived'
    BY <1>6, <2>1 DEF Billing!Write, Billing!End, BillingInv, Types, Billing!TypeOK, OfReceived,
       Received
  <2>8. CustomersKept'
    BY <1>6, <2>3 DEF Billing!Write, BillingInv, CustomersKept, Billing!OneCustomer
  <2>. QED BY <2>5, <2>6, <2>7, <2>8, <2>12 DEF BillingInv
<1>7. CASE Billing!Fail(o)
  <2>1. Types'
    BY <1>7 DEF Billing!Fail, Billing!End, BillingInv, Types, Billing!TypeOK, Deliveries
  <2>. QED BY <1>7, <2>1 DEF Billing!Fail, Billing!End, BillingInv, Types, Billing!TypeOK,
              EventsSent, OfReceived, Received,
     AuditsFollow, CustomersKept, Billing!OneCustomer
<1>. QED BY <1>1, <1>2, <1>3, <1>4, <1>5, <1>6, <1>7 DEF Billing!Proceed

LEMMA BillingHolds ==
  ASSUME Billing!BillingAssumption
  PROVE  Billing!Spec => []BillingInv
<1>1. Billing!Init => BillingInv
  BY InitBilling
<1>2. BillingInv /\ [Billing!Next]_Billing!vars => BillingInv'
  <2>1. CASE UNCHANGED Billing!vars
    BY <2>1 DEF Billing!vars, BillingInv, Types, Billing!TypeOK, EventsSent, OfReceived,
       Received, AuditsFollow,
       CustomersKept, Billing!OneCustomer
  <2>. QED BY <2>1, OwnerKeeps, DeliveryKeeps DEF Billing!Next
<1>. QED BY <1>1, <1>2, PTL DEF Billing!Spec

-----------------------------------------------------------------------------
(* Answers, old and new                                                    *)

PaidWhileLive == \A s \in Subs : Billing!Live(sub[s].status) => sub[s].plan \in Billing!Paid

\* No event of the subscription s came after the first n.
NoneSince(s, n) == \A e \in Billing!Events : e > n => event[e].sub # s

\* The newest answer acted on is as new as every event that was processed.
Newest ==
  /\ \A s \in Subs : newest[s] <= sent
  /\ \A e \in Billing!Events :
       /\ event[e].state = "processed" => e <= newest[event[e].sub]
       /\ event[e].state = "unsent" => event[e].sub = Billing!None
  /\ \A o \in Ops : op[o].step = "ignored" => op[o].event <= newest[event[op[o].event].sub]

\* A delivery was told what the subscription is, unless an event of it followed,
\* and that it has ended only if it has.
Answered(o) ==
  op[o].step \in {"read", "write"} =>
    /\ op[o].event <= op[o].at /\ op[o].at <= sent
    /\ Billing!Live(op[o].got.status) => op[o].got.plan \in Billing!Paid
    /\ ~Billing!Live(op[o].got.status) => ~Billing!Live(sub[op[o].of].status)
    /\ NoneSince(op[o].of, op[o].at) => op[o].got = sub[op[o].of]

\* The end of a subscription is written only where it was read, or none.
EndsOwn(o) ==
  (op[o].step = "write" /\ ~Billing!Live(op[o].got.status)) => op[o].sub \in {Billing!None, op[o].of}

\* The row is what its subscription is, unless its answer was late or an event
\* followed the newest one.
RowCurrent ==
  /\ row.plan \in Billing!Paid => row.sub # Billing!None
  /\ (row.sub # Billing!None /\ ~late /\ NoneSince(row.sub, newest[row.sub])) =>
       row.plan = Billing!PlanOf(sub[row.sub]) /\ row.status = sub[row.sub].status

AnswersInv ==
  /\ PaidWhileLive /\ Newest /\ RowCurrent
  /\ \A o \in Ops : Answered(o) /\ EndsOwn(o)

LEMMA InitAnswers ==
  ASSUME Billing!BillingAssumption
  PROVE  Billing!Init => AnswersInv
BY DEF Billing!Init, AnswersInv, PaidWhileLive, Newest, RowCurrent, Answered, EndsOwn,
   Billing!Live, Billing!Paid, Billing!None

\* A change of a subscription is an event that follows whatever was known of it.
LEMMA AnnounceAnswers ==
  ASSUME Billing!BillingAssumption, BillingInv, AnswersInv,
         NEW s \in Subs, NEW now \in Subscriptions, Billing!Live(now.status) => now.plan \in Billing!Paid,
         sub[s].status = "none" \/ Billing!Live(sub[s].status),
         Billing!Announce(s, now), UNCHANGED <<row, op, newest, late>>
  PROVE  AnswersInv'
<1>0. sent + 1 \in Billing!Events /\ sent \in Nat /\ event[sent + 1].state = "unsent"
  BY DEF Billing!BillingAssumption, Billing!Announce, BillingInv, Types, Billing!TypeOK,
     EventsSent, Billing!Events
<1>1. PICK n \in Billing!Events : n = sent + 1 /\ event[n].state = "unsent"
  BY <1>0
<1>2. /\ event' = [event EXCEPT ![n] = [sub |-> s, state |-> "sent"]]
      /\ sub' = [sub EXCEPT ![s] = now] /\ sent' = n
  BY <1>1 DEF Billing!Announce
<1>3. event'[n] = [sub |-> s, state |-> "sent"] /\ \A e \in Billing!Events : e # n => event'[e] = event[e]
  BY <1>1, <1>2 DEF BillingInv, Types, Billing!TypeOK
<1>4. sub'[s] = now /\ \A t \in Subs : t # s => sub'[t] = sub[t]
  BY <1>2 DEF BillingInv, Types, Billing!TypeOK
<1>5. event[n].sub = Billing!None /\ s # Billing!None
  BY <1>1 DEF AnswersInv, Newest, Billing!BillingAssumption
<1>6. ASSUME NEW t, NEW m \in Nat, m <= sent, NoneSince(t, m)'
      PROVE  t # s /\ (t # Billing!None => NoneSince(t, m))
  <2>1. n > m
    BY <1>0, <1>1, <1>6
  <2>2. t # s
    BY <1>1, <1>3, <1>6, <2>1 DEF NoneSince
  <2>. QED BY <1>3, <1>5, <1>6, <2>2 DEF NoneSince
<1>7. PaidWhileLive'
  BY <1>4 DEF PaidWhileLive, AnswersInv
<1>8. ASSUME NEW o \in Ops, op[o].step # "idle"
      PROVE  op[o].event \in Billing!Events /\ op[o].event # n
  BY <1>1, <1>8 DEF BillingInv, Types, OfReceived, Received, Deliveries
<1>9. Newest'
  <2>1. \A t \in Subs : newest[t] \in Nat /\ newest[t] <= n
    BY <1>0, <1>1 DEF AnswersInv, Newest, BillingInv, Types, Billing!TypeOK
  <2>. QED BY <1>1, <1>2, <1>3, <1>8, <2>1 DEF AnswersInv, Newest
<1>10. RowCurrent'
  <2>1. SUFFICES ASSUME row.sub # Billing!None, ~late, NoneSince(row.sub, newest[row.sub])'
                 PROVE  row.plan = Billing!PlanOf(sub'[row.sub]) /\ row.status = sub'[row.sub].status
    BY DEF AnswersInv, RowCurrent
  <2>2. row.sub \in Subs /\ newest[row.sub] \in Nat /\ newest[row.sub] <= sent
    BY <2>1 DEF AnswersInv, Newest, BillingInv, Types, Billing!TypeOK
  <2>4. row.sub # s /\ NoneSince(row.sub, newest[row.sub])
    BY <1>6, <2>1, <2>2 DEF NoneSince
  <2>. QED BY <1>4, <2>1, <2>2, <2>4 DEF AnswersInv, RowCurrent
<1>11. ASSUME NEW o \in Ops PROVE Answered(o)'
  <2>1. SUFFICES ASSUME op[o].step \in {"read", "write"}
                 PROVE  Answered(o)'
    BY DEF Answered
  <2>2. /\ op[o].event \in Billing!Events /\ op[o].of \in Subs /\ op[o].of = event[op[o].event].sub
        /\ event[op[o].event].state # "unsent" /\ op[o].at \in Nat /\ op[o].at <= sent
    BY <2>1 DEF BillingInv, Types, OfReceived, Received, Deliveries, AnswersInv, Answered
  <2>3. sub[op[o].of].status # "none"
    BY <1>1, <2>2 DEF BillingInv, EventsSent
  <2>4. ~Billing!Live(op[o].got.status) => op[o].of # s
    BY <2>1, <2>3 DEF AnswersInv, Answered
  <2>5. ~Billing!Live(op[o].got.status) => ~Billing!Live(sub'[op[o].of].status)
    BY <1>4, <2>1, <2>2, <2>4 DEF AnswersInv, Answered
  <2>6. NoneSince(op[o].of, op[o].at)' => op[o].got = sub'[op[o].of]
    <3>1. SUFFICES ASSUME NoneSince(op[o].of, op[o].at)'
                   PROVE  op[o].got = sub'[op[o].of]
      OBVIOUS
    <3>2. op[o].of # Billing!None
      BY <2>2 DEF Billing!BillingAssumption
    <3>3. op[o].of # s /\ NoneSince(op[o].of, op[o].at)
      BY <1>6, <2>2, <3>1, <3>2 DEF NoneSince
    <3>. QED BY <1>4, <2>1, <2>2, <3>3 DEF AnswersInv, Answered
  <2>7. op[o].event <= op[o].at /\ op[o].at <= n
    BY <1>0, <1>1, <2>1, <2>2 DEF AnswersInv, Answered
  <2>. QED BY <1>2, <2>1, <2>5, <2>6, <2>7 DEF AnswersInv, Answered
<1>12. ASSUME NEW o \in Ops PROVE EndsOwn(o)'
  BY DEF AnswersInv, EndsOwn
<1>. QED BY <1>7, <1>9, <1>10, <1>11, <1>12 DEF AnswersInv

LEMMA OwnerAnswers ==
  ASSUME Billing!BillingAssumption, BillingInv, AnswersInv, Billing!Owner
  PROVE  AnswersInv'
<1>1. ASSUME UNCHANGED <<sub, event, sent, op, newest, late>>,
             row'.plan = row.plan, row'.sub = row.sub, row'.status = row.status
      PROVE  AnswersInv'
  BY <1>1 DEF AnswersInv, PaidWhileLive, Newest, RowCurrent, NoneSince, Answered, EndsOwn
<1>2. CASE \E t \in Tabs : Billing!Checkout(t) \/ Billing!NewCustomer(t)
  BY <1>1, <1>2 DEF Billing!Checkout, Billing!NewCustomer, BillingInv, Types, Billing!TypeOK
<1>3. ASSUME NEW t \in Tabs, NEW s \in Subs, NEW plan \in Billing!Paid, Billing!Subscribe(t, s, plan) PROVE AnswersInv'
  <2>1. [plan |-> plan, status |-> "active"] \in Subscriptions
    BY DEF Subscriptions, Billing!Plans, SubStatuses
  <2>. QED BY <1>3, <2>1, AnnounceAnswers DEF Billing!Subscribe
<1>4. ASSUME NEW s \in Subs, NEW plan \in Billing!Paid, NEW status \in {"active", "past_due", "canceled"},
             Billing!Changes(s, [plan |-> plan, status |-> status])
      PROVE  AnswersInv'
  <2>1. [plan |-> plan, status |-> status] \in Subscriptions
    BY DEF Subscriptions, Billing!Plans, SubStatuses
  <2>. QED BY <1>4, <2>1, AnnounceAnswers DEF Billing!Changes
<1>5. CASE Billing!Edit
  BY <1>1, <1>5 DEF Billing!Edit, BillingInv, Types, Billing!TypeOK
<1>. QED BY <1>2, <1>3, <1>4, <1>5 DEF Billing!Owner

\* The answer acted on is at least as new as the event it came with.
LEMMA ActsOnNewer ==
  ASSUME BillingInv, AnswersInv, NEW o \in Ops, op[o].step \in {"read", "write"}, Billing!ActsOn(o)
  PROVE  /\ \A s \in Subs : newest'[s] \in Nat /\ newest[s] <= newest'[s] /\ newest'[s] <= sent
         /\ op[o].event <= newest'[op[o].of]
         /\ op[o].at >= newest[op[o].of] => newest'[op[o].of] = op[o].at
         /\ \A s \in Subs : s # op[o].of => newest'[s] = newest[s]
<1>1. /\ op[o].of \in Subs /\ op[o].at \in Nat /\ op[o].event \in Nat
      /\ op[o].event <= op[o].at /\ op[o].at <= sent
  BY DEF BillingInv, Types, Deliveries, Billing!Events, AnswersInv, Answered
<1>2. newest \in [Subs -> Nat] /\ sent \in Nat /\ \A s \in Subs : newest[s] <= sent
  BY DEF BillingInv, Types, Billing!TypeOK, AnswersInv, Newest
<1>3. newest' = [newest EXCEPT ![op[o].of] = IF newest[op[o].of] < op[o].at THEN op[o].at ELSE newest[op[o].of]]
  BY DEF Billing!ActsOn
<1>. QED BY <1>1, <1>2, <1>3

LEMMA DeliveryAnswers ==
  ASSUME Billing!BillingAssumption, BillingInv, AnswersInv, NEW o \in Ops,
         Billing!Proceed(o) \/ Billing!Fail(o) \/ \E e \in Billing!Events : Billing!Record(o, e)
  PROVE  AnswersInv'
<1>0. op[o] \in Deliveries /\ DOMAIN op = Ops
  BY DEF BillingInv, Types
<1>1. ASSUME NEW e \in Billing!Events, Billing!Record(o, e) PROVE AnswersInv'
  <2>1. \A d \in Billing!Events : /\ event'[d].sub = event[d].sub
                                  /\ event'[d].state = "processed" <=> event[d].state = "processed"
                                  /\ event'[d].state = "unsent" <=> event[d].state = "unsent"
    BY <1>1 DEF Billing!Record, BillingInv, Types, Billing!TypeOK
  <2>2. op'[o].step = "retrieve" /\ \A p \in Ops : p # o => op'[p] = op[p]
    BY <1>0, <1>1 DEF Billing!Record
  <2>3. \A p \in Ops : op[p].step = "ignored" => op[p].event \in Billing!Events
    BY DEF BillingInv, Types, Deliveries
  <2>5. Newest'
    BY <1>1, <2>1, <2>2, <2>3 DEF Billing!Record, AnswersInv, Newest
  <2>6. RowCurrent' /\ PaidWhileLive'
    BY <1>1, <2>1 DEF Billing!Record, AnswersInv, RowCurrent, PaidWhileLive, NoneSince
  <2>7. \A p \in Ops : Answered(p)' /\ EndsOwn(p)'
    BY <1>1, <2>1, <2>2 DEF Billing!Record, AnswersInv, Answered, EndsOwn, NoneSince
  <2>. QED BY <2>5, <2>6, <2>7 DEF AnswersInv
<1>2. CASE Billing!Retrieve(o)
  <2> DEFINE s == event[op[o].event].sub
  <2>1. /\ op[o].event \in Billing!Events /\ op[o].event <= sent /\ s \in Subs
    BY <1>0, <1>2 DEF Billing!Retrieve, Deliveries, BillingInv, EventsSent, OfReceived, Received
  <2>2. op'[o] = [step |-> "read", event |-> op[o].event, of |-> s, got |-> sub[s], at |-> sent]
    BY <1>0, <1>2 DEF Billing!Retrieve
  <2>3. \A p \in Ops : p # o => op'[p] = op[p]
    BY <1>0, <1>2 DEF Billing!Retrieve
  <2>4. UNCHANGED <<sub, event, sent, row, newest, late>> /\ sent \in Nat
    BY <1>2 DEF Billing!Retrieve, BillingInv, Types
  <2>5. Answered(o)'
    BY <2>1, <2>2, <2>4 DEF Answered, AnswersInv, PaidWhileLive
  <2>6. ASSUME NEW p \in Ops PROVE Answered(p)' /\ EndsOwn(p)'
    <3>1. CASE p = o
      BY <2>2, <2>5, <3>1 DEF EndsOwn
    <3>2. CASE p # o
      BY <2>3, <2>4, <3>2 DEF AnswersInv, Answered, EndsOwn, NoneSince
    <3>. QED BY <3>1, <3>2
  <2>7. Newest'
    BY <2>2, <2>3, <2>4 DEF AnswersInv, Newest
  <2>. QED BY <2>4, <2>6, <2>7 DEF AnswersInv, PaidWhileLive, RowCurrent, NoneSince
<1>3. CASE Billing!Ignore(o)
  <2>1. /\ op[o].step = "read" /\ op[o].of \in Subs /\ op[o].event \in Billing!Events
        /\ op[o].of = event[op[o].event].sub /\ row.sub # op[o].of
        /\ UNCHANGED <<sub, event, sent, row, late>> /\ Billing!ActsOn(o)
    BY <1>0, <1>3 DEF Billing!Ignore, Billing!Stale, Deliveries, BillingInv, OfReceived
  <2>2. op'[o] = [step |-> "ignored", event |-> op[o].event] /\ \A p \in Ops : p # o => op'[p] = op[p]
    BY <1>0, <1>3 DEF Billing!Ignore
  <2>3. RowCurrent' /\ PaidWhileLive'
    <3>1. row.sub # Billing!None => row.sub \in Subs
      BY DEF BillingInv, Types, Billing!TypeOK
    <3>2. row.sub # Billing!None => newest'[row.sub] = newest[row.sub]
      BY <2>1, <3>1, ActsOnNewer
    <3>. QED BY <2>1, <3>2 DEF AnswersInv, RowCurrent, PaidWhileLive, NoneSince
  <2>4. Newest'
    <3>1. \A e \in Billing!Events : event[e].state = "processed" => event[e].sub \in Subs /\ e \in Nat
      BY DEF BillingInv, EventsSent, Billing!Events
    <3>2. \A e \in Billing!Events : event[e].state = "processed" => e <= newest'[event[e].sub]
      <4>. SUFFICES ASSUME NEW e \in Billing!Events, event[e].state = "processed"
                    PROVE  e <= newest'[event[e].sub]
        OBVIOUS
      <4>1. /\ event[e].sub \in Subs /\ e \in Nat /\ e <= newest[event[e].sub]
            /\ newest[event[e].sub] \in Nat
        BY <3>1 DEF AnswersInv, Newest, BillingInv, Types, Billing!TypeOK
      <4>2. newest[event[e].sub] <= newest'[event[e].sub] /\ newest'[event[e].sub] \in Nat
        BY <2>1, <4>1, ActsOnNewer
      <4>. QED BY <4>1, <4>2
    <3>3. \A p \in Ops : op'[p].step = "ignored" => op'[p].event <= newest'[event[op'[p].event].sub]
      <4>. SUFFICES ASSUME NEW p \in Ops, op'[p].step = "ignored"
                    PROVE  op'[p].event <= newest'[event[op'[p].event].sub]
        OBVIOUS
      <4>1. CASE p = o
        BY <2>1, <2>2, <4>1, ActsOnNewer
      <4>2. CASE p # o
        <5>1. op'[p] = op[p] /\ op[p].event \in Billing!Events /\ event[op[p].event].state # "unsent"
          BY <2>2, <4>2 DEF BillingInv, Types, Deliveries, OfReceived, Received
        <5>2. /\ event[op[p].event].sub \in Subs /\ op[p].event \in Nat
              /\ op[p].event <= newest[event[op[p].event].sub]
              /\ newest[event[op[p].event].sub] \in Nat
          BY <5>1 DEF BillingInv, EventsSent, Billing!Events, AnswersInv, Newest, Types,
             Billing!TypeOK
        <5>3. /\ newest[event[op[p].event].sub] <= newest'[event[op[p].event].sub]
              /\ newest'[event[op[p].event].sub] \in Nat
          BY <2>1, <5>2, ActsOnNewer
        <5>. QED BY <5>1, <5>2, <5>3
      <4>. QED BY <4>1, <4>2
    <3>. QED BY <2>1, <3>2, <3>3, ActsOnNewer DEF AnswersInv, Newest
  <2>5. \A p \in Ops : Answered(p)' /\ EndsOwn(p)'
    BY <2>1, <2>2 DEF AnswersInv, Answered, EndsOwn, NoneSince
  <2>. QED BY <2>3, <2>4, <2>5 DEF AnswersInv
<1>4. CASE Billing!Read(o)
  <2>1. /\ op[o].step = "read" /\ ~Billing!Stale(o)
        /\ op'[o] = [step |-> "write", event |-> op[o].event, of |-> op[o].of, got |-> op[o].got,
                     at |-> op[o].at, plan |-> row.plan, sub |-> row.sub, link |-> row.link]
        /\ \A p \in Ops : p # o => op'[p] = op[p]
        /\ UNCHANGED <<sub, event, sent, row, newest, late>>
    BY <1>0, <1>4 DEF Billing!Read
  <2>2. Answered(o)' /\ EndsOwn(o)'
    BY <2>1 DEF AnswersInv, Answered, EndsOwn, NoneSince, Billing!Stale
  <2>3. ASSUME NEW p \in Ops PROVE Answered(p)' /\ EndsOwn(p)'
    <3>1. CASE p = o
      BY <2>2, <3>1
    <3>2. CASE p # o
      BY <2>1, <3>2 DEF AnswersInv, Answered, EndsOwn, NoneSince
    <3>. QED BY <3>1, <3>2
  <2>4. Newest'
    BY <2>1 DEF AnswersInv, Newest
  <2>. QED BY <2>1, <2>3, <2>4 DEF AnswersInv, PaidWhileLive, RowCurrent, NoneSince
<1>5. CASE Billing!Ignored(o)
  <2>1. /\ op[o].step = "ignored" /\ op[o].event \in Billing!Events
        /\ event' = [event EXCEPT ![op[o].event].state = "processed"]
        /\ op'[o].step = "idle" /\ \A p \in Ops : p # o => op'[p] = op[p]
        /\ UNCHANGED <<sub, sent, row, newest, late>>
    BY <1>0, <1>5 DEF Billing!Ignored, Billing!End, Deliveries
  <2>2. \A e \in Billing!Events :
          /\ event'[e].sub = event[e].sub
          /\ event'[e].state = IF e = op[o].event THEN "processed" ELSE event[e].state
    BY <2>1 DEF BillingInv, Types, Billing!TypeOK
  <2>3. \A p \in Ops : op[p].step = "ignored" => op[p].event \in Billing!Events
    BY DEF BillingInv, Types, Deliveries
  <2>4. Newest'
    BY <2>1, <2>2, <2>3 DEF AnswersInv, Newest
  <2>5. RowCurrent' /\ PaidWhileLive'
    BY <2>1, <2>2 DEF AnswersInv, RowCurrent, PaidWhileLive, NoneSince
  <2>6. \A p \in Ops : Answered(p)' /\ EndsOwn(p)'
    BY <2>1, <2>2 DEF AnswersInv, Answered, EndsOwn, NoneSince
  <2>. QED BY <2>4, <2>5, <2>6 DEF AnswersInv
<1>6. CASE Billing!Write(o)
  <2>1. /\ op[o].step = "write" /\ op[o].event \in Billing!Events /\ op[o].of \in Subs
        /\ op[o].of = event[op[o].event].sub /\ op[o].at \in Nat
        /\ event' = [event EXCEPT ![op[o].event].state = "processed"]
        /\ op'[o].step = "idle" /\ \A p \in Ops : p # o => op'[p] = op[p]
        /\ late' = (op[o].at < newest[op[o].of])
        /\ UNCHANGED <<sub, sent>> /\ Billing!ActsOn(o)
    BY <1>0, <1>6 DEF Billing!Write, Billing!End, Deliveries, BillingInv, OfReceived
  <2>2. row'.plan = Billing!PlanOf(op[o].got) /\ row'.sub = op[o].of /\ row'.status = op[o].got.status
    BY <1>6 DEF Billing!Write, Billing!Applied, BillingInv, Types, Billing!TypeOK
  <2>3. \A e \in Billing!Events :
          /\ event'[e].sub = event[e].sub
          /\ event'[e].state = IF e = op[o].event THEN "processed" ELSE event[e].state
    BY <2>1 DEF BillingInv, Types, Billing!TypeOK
  <2>4. Newest'
    <3>1. ASSUME NEW e \in Billing!Events, event[e].sub \in Subs, e <= newest[event[e].sub]
          PROVE  e <= newest'[event[e].sub]
      <4>1. e \in Nat /\ newest[event[e].sub] \in Nat
        BY <3>1 DEF BillingInv, Types, Billing!TypeOK, Billing!Events
      <4>2. newest[event[e].sub] <= newest'[event[e].sub] /\ newest'[event[e].sub] \in Nat
        BY <2>1, <3>1, ActsOnNewer
      <4>. QED BY <3>1, <4>1, <4>2
    <3>2. ASSUME NEW e \in Billing!Events, event[e].state \in {"received", "processed"}
          PROVE  event[e].sub \in Subs
      BY <3>2 DEF BillingInv, EventsSent
    <3>3. \A e \in Billing!Events : event'[e].state = "processed" => e <= newest'[event[e].sub]
      <4>. SUFFICES ASSUME NEW e \in Billing!Events, event'[e].state = "processed"
                    PROVE  e <= newest'[event[e].sub]
        OBVIOUS
      <4>1. CASE e = op[o].event
        BY <2>1, <4>1, ActsOnNewer
      <4>2. CASE e # op[o].event
        BY <2>3, <3>1, <3>2, <4>2 DEF AnswersInv, Newest
      <4>. QED BY <4>1, <4>2
    <3>4. \A p \in Ops : op'[p].step = "ignored" => op[p].event <= newest'[event[op[p].event].sub]
      <4>. SUFFICES ASSUME NEW p \in Ops, op'[p].step = "ignored"
                    PROVE  op[p].event <= newest'[event[op[p].event].sub]
        OBVIOUS
      <4>1. op[p].step = "ignored"
        BY <2>1
      <4>2. op[p].event \in Billing!Events /\ event[op[p].event].state \in {"received", "processed"}
        BY <4>1 DEF BillingInv, Types, Deliveries, OfReceived, Received
      <4>. QED BY <3>1, <3>2, <4>1, <4>2 DEF AnswersInv, Newest
    <3>5. \A p \in Ops : op'[p].step = "ignored" => op'[p] = op[p] /\ op[p].event \in Billing!Events
      BY <2>1 DEF BillingInv, Types, Deliveries
    <3>6. \A s \in Subs : newest'[s] <= sent'
      BY <2>1, ActsOnNewer
    <3>7. op[o].event \in Billing!Events /\ event[op[o].event].state # "unsent"
      BY <2>1 DEF BillingInv, OfReceived, Received
    <3>. QED BY <2>1, <2>3, <3>3, <3>4, <3>5, <3>6, <3>7 DEF AnswersInv, Newest
  <2>5. RowCurrent'
    <3>1. row'.sub # Billing!None
      BY <2>1, <2>2 DEF Billing!BillingAssumption
    <3>2. ASSUME ~late', \A e \in Billing!Events : e > newest'[op[o].of] => event'[e].sub # op[o].of
          PROVE  op[o].got = sub[op[o].of]
      <4>0. ~(op[o].at < newest[op[o].of])
        BY <2>1, <3>2, Zenon
      <4>1. newest \in [Subs -> Nat]
        BY DEF BillingInv, Types, Billing!TypeOK
      <4>2. newest'[op[o].of] = IF newest[op[o].of] < op[o].at THEN op[o].at ELSE newest[op[o].of]
        BY <2>1, <4>1 DEF Billing!ActsOn
      <4>3. newest'[op[o].of] = op[o].at
        BY <2>1, <4>0, <4>1, <4>2
      <4>4. NoneSince(op[o].of, op[o].at)
        BY <2>3, <3>2, <4>3 DEF NoneSince
      <4>. QED BY <2>1, <4>4 DEF AnswersInv, Answered
    <3>3. (~late' /\ NoneSince(row.sub, newest[row.sub])') => op[o].got = sub[op[o].of]
      BY <2>2, <3>2 DEF NoneSince
    <3>. QED BY <2>1, <2>2, <3>1, <3>3 DEF RowCurrent
  <2>6. \A p \in Ops : Answered(p)' /\ EndsOwn(p)'
    BY <2>1, <2>3 DEF AnswersInv, Answered, EndsOwn, NoneSince
  <2>. QED BY <2>1, <2>4, <2>5, <2>6 DEF AnswersInv, PaidWhileLive
<1>7. CASE Billing!Fail(o)
  <2>1. op'[o].step = "idle" /\ \A p \in Ops : p # o => op'[p] = op[p]
    BY <1>0, <1>7 DEF Billing!Fail, Billing!End
  <2>2. Newest'
    BY <1>7, <2>1 DEF Billing!Fail, AnswersInv, Newest
  <2>3. \A p \in Ops : Answered(p)' /\ EndsOwn(p)'
    BY <1>7, <2>1 DEF Billing!Fail, AnswersInv, Answered, EndsOwn, NoneSince
  <2>. QED BY <1>7, <2>2, <2>3 DEF Billing!Fail, AnswersInv, PaidWhileLive, RowCurrent, NoneSince
<1>. QED BY <1>1, <1>2, <1>3, <1>4, <1>5, <1>6, <1>7 DEF Billing!Proceed

LEMMA AnswersHold ==
  ASSUME Billing!BillingAssumption
  PROVE  Billing!Spec => [](BillingInv /\ AnswersInv)
<1>1. Billing!Init => AnswersInv
  BY InitAnswers
<1>2. BillingInv /\ AnswersInv /\ [Billing!Next]_Billing!vars => AnswersInv'
  <2>1. CASE UNCHANGED Billing!vars
    BY <2>1 DEF Billing!vars, AnswersInv, PaidWhileLive, Newest, RowCurrent, NoneSince, Answered,
       EndsOwn
  <2>. QED BY <2>1, OwnerAnswers, DeliveryAnswers DEF Billing!Next
<1>. QED BY <1>1, <1>2, BillingHolds, PTL DEF Billing!Spec

-----------------------------------------------------------------------------
\* However often and by however many deliveries at once an event is processed, the
\* audit log has its plan change once (the batch that logs it marks it processed).
THEOREM LogIsExact ==
  ASSUME Billing!BillingAssumption
  PROVE  Billing!Spec => []Billing!LoggedOnce
<1>1. BillingInv => Billing!LoggedOnce
  BY DEF BillingInv, AuditsFollow, Billing!LoggedOnce
<1>. QED BY <1>1, BillingHolds, PTL

\* All checkouts of a workspace bill one customer, whichever created another first
\* (ensureStripeCustomer keeps the first).
THEOREM OneIsBilled ==
  ASSUME Billing!BillingAssumption
  PROVE  Billing!Spec => []Billing!OneCustomer
<1>1. BillingInv => Billing!OneCustomer
  BY DEF BillingInv, CustomersKept
<1>. QED BY <1>1, BillingHolds, PTL

\* However many deliveries race, fail and repeat: once every event is processed,
\* the workspace has the plan and status of its subscription, unless the row was
\* written last from an answer older than one that a delivery had acted on.
THEOREM PlanIsCurrent ==
  ASSUME Billing!BillingAssumption
  PROVE  Billing!Spec => []Billing!QuietMeansCurrent
<1>1. BillingInv /\ AnswersInv => Billing!QuietMeansCurrent
  <2>. SUFFICES ASSUME BillingInv, AnswersInv, row.sub # Billing!None, ~late,
                       \A e \in Billing!Events : event[e].state \in {"unsent", "processed"}
                PROVE  row.plan = Billing!PlanOf(sub[row.sub]) /\ row.status = sub[row.sub].status
    BY DEF Billing!QuietMeansCurrent
  <2>1. newest[row.sub] \in Nat
    BY DEF BillingInv, Types, Billing!TypeOK
  <2>2. NoneSince(row.sub, newest[row.sub])
    BY <2>1 DEF NoneSince, AnswersInv, Newest, Billing!Events
  <2>. QED BY <2>2 DEF AnswersInv, RowCurrent
<1>. QED BY <1>1, AnswersHold, PTL

\* With any number of deliveries a workspace loses its plan only to a subscription
\* that has ended, its own unless the delivery had read the workspace before it had
\* that one (the stale events that handleStripeEvent ignores).
THEOREM PlanOutlivesOthers ==
  ASSUME Billing!BillingAssumption
  PROVE  Billing!Spec => [][Billing!EndsWithItsSubscription]_Billing!vars
<1>1. BillingInv /\ AnswersInv /\ [Billing!Next]_Billing!vars => [Billing!EndsWithItsSubscription]_Billing!vars
  <2>. SUFFICES ASSUME BillingInv, AnswersInv, [Billing!Next]_Billing!vars, row.plan \in Billing!Paid, row'.plan = "free"
                PROVE  ~Billing!Live(sub[row'.sub].status) /\ (row'.sub = row.sub \/ Billing!ReadBefore)
    BY DEF Billing!EndsWithItsSubscription
  <2>1. row' = row \/ row'.plan = row.plan \/ \E o \in Ops : Billing!Write(o)
    BY DEF Billing!vars, Billing!Next, Billing!Owner, Billing!Checkout, Billing!NewCustomer,
       Billing!Subscribe, Billing!Changes, Billing!Edit, Billing!Proceed, Billing!Retrieve,
       Billing!Ignore, Billing!Read,
       Billing!Ignored, Billing!Fail, Billing!Record, BillingInv, Types, Billing!TypeOK
  <2>2. PICK o \in Ops : Billing!Write(o)
    BY <2>1 DEF Billing!Paid
  <2>3. op[o].step = "write" /\ row'.plan = Billing!PlanOf(op[o].got) /\ row'.sub = op[o].of
    BY <2>2 DEF Billing!Write, Billing!Applied, BillingInv, Types, Billing!TypeOK
  <2>4. ~Billing!Live(op[o].got.status) /\ ~Billing!Live(sub[op[o].of].status)
    BY <2>3 DEF Billing!PlanOf, AnswersInv, Answered, Billing!Paid
  <2>5. op[o].sub \in {Billing!None, op[o].of} /\ row.sub # Billing!None
    BY <2>3, <2>4 DEF AnswersInv, EndsOwn, RowCurrent
  <2>. QED BY <2>2, <2>3, <2>4, <2>5 DEF Billing!ReadBefore
<1>. QED BY <1>1, AnswersHold, PTL DEF Billing!Spec
=============================================================================
