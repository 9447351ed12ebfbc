---------------------------- MODULE BridgeRequests ----------------------------
(***************************************************************************)
(* Requests of a publishing bridge, made idempotent by a row per request   *)
(* id that one call at a time holds under a lease:                         *)
(* src/apps/web/app/services/bridge-publish-session.server.ts.             *)
(*                                                                         *)
(* A call is one HTTP request; it may be the retry of another.  Each of    *)
(* its steps is one query or batch of the database, or one write to the    *)
(* bucket.  The lease generation, the version and the artifact a call      *)
(* makes are random ids, told apart by the call that drew them.            *)
(***************************************************************************)
EXTENDS Integers, FiniteSets

CONSTANTS
  Key,        \* request ids
  Call,
  Operation,  \* of "publish", "version" (update or append), "visibility"
  Lease,      \* REQUEST_LEASE_MS
  MaxTime,    \* bound of the clock
  MaxLost,    \* bound: commits whose reply is lost
  None

ASSUME LeaseAssumption ==
  /\ Lease \in Nat \ {0} /\ MaxTime \in Nat /\ MaxLost \in Nat
  /\ Operation \subseteq {"publish", "version", "visibility"}
  /\ None \notin Call

VARIABLES
  row,      \* bridge_requests
  artifact, \* shareables: the current version of those that exist
  version,  \* versions: the artifact of those that exist
  ops,      \* bridge_operations: the artifact and version of a request id
  objects,  \* the objects in the bucket, by version
  call,     \* each call, between its steps
  now,
  effect,   \* history: the results that were committed for each request id
  lost      \* history: the calls whose commit succeeded without their knowing

vars == <<row, artifact, version, ops, objects, call, now, effect, lost>>

\* What the digest covers: the operation and its target.
Intents == [op : Operation, target : Call \cup {None}]
Proper(i) == (i.op = "publish") = (i.target = None)

Statuses == {"none", "binding", "leased", "completed"}
Steps == {"new", "acquire", "take", "raced", "stage", "commit", "failed", "reread",
          "compensate", "release", "result", "replay", "over", "dead"}
Answers == {"none", "ok", "failed", "mismatch", "in-progress", "forbidden"}

NoRow == [status |-> "none", digest |-> None, gen |-> None, expires |-> 0,
          artifact |-> None, version |-> None]
NoCall == [pc |-> "new", key |-> None, intent |-> None, at |-> 0, base |-> None,
           replay |-> FALSE, answer |-> "none", told |-> None]

TypeOK ==
  /\ \A k \in Key :
       /\ row[k].status \in Statuses
       /\ row[k].digest \in Intents \cup {None} /\ row[k].gen \in Call \cup {None}
       /\ row[k].status = "completed" => row[k].artifact \in Call
       /\ (row[k].status \in {"leased", "completed"}) = (row[k].gen # None)
  /\ artifact \in [Call -> Call \cup {None}]
  /\ \A a \in Call : artifact[a] # None => version[artifact[a]] = a
  /\ version \in [Call -> Call \cup {None}]
  /\ \A v \in Call : version[v] # None => artifact[version[v]] # None
  /\ objects \subseteq Call
  /\ \A c \in Call : call[c].pc \in Steps /\ call[c].answer \in Answers
  /\ now \in 0 .. MaxTime

Init ==
  /\ row = [k \in Key |-> NoRow]
  /\ artifact = [a \in Call |-> None]
  /\ version = [v \in Call |-> None]
  /\ ops = [k \in Key |-> None]
  /\ objects = {}
  /\ call = [c \in Call |-> NoCall]
  /\ now = 0
  /\ effect = [k \in Key |-> {}]
  /\ lost = {}

-----------------------------------------------------------------------------
At(c, pc) == call[c].pc = pc
Go(c, pc) == call' = [call EXCEPT ![c].pc = pc]
Row(c) == row[call[c].key]
Op(c) == call[c].intent.op
Target(c) == call[c].intent.target

\* The call ends with an answer; told is what a successful one says.
Answer(c, a, told) ==
  call' = [call EXCEPT ![c] = [@ EXCEPT !.pc = "over", !.base = None, !.replay = FALSE,
                                        !.at = 0, !.answer = a, !.told = told]]

Stored == <<artifact, version, ops, objects, effect, lost>>

\* The request is bound (insertOrVerifyRequestBinding); now is read here.
Begin(c, k, i) ==
  /\ At(c, "new")
  /\ Proper(i)
  /\ row' = [row EXCEPT ![k].status = IF @ = "none" THEN "binding" ELSE @]
  /\ call' = [call EXCEPT ![c] = [NoCall EXCEPT !.pc = "acquire", !.key = k, !.intent = i,
                                               !.at = now]]
  /\ UNCHANGED <<Stored, now>>

-----------------------------------------------------------------------------
(* acquireRequestLease *)

AcquireRead(c) ==
  /\ At(c, "acquire")
  /\ LET r == Row(c) IN
     IF r.digest \notin {None, call[c].intent} THEN Answer(c, "mismatch", None)
     ELSE IF r.status = "completed" THEN Go(c, "replay")
     ELSE IF r.status = "leased" /\ r.expires > call[c].at THEN Answer(c, "in-progress", None)
     ELSE Go(c, "take")
  /\ UNCHANGED <<row, Stored, now>>

\* mutant: what was read before is not looked at again
FreeAsRead(c) == TRUE

Free(c) ==
  \/ Row(c).status = "binding"
  \/ Row(c).status = "leased" /\ Row(c).expires <= call[c].at

AcquireWrite(c) ==
  /\ At(c, "take")
  /\ IF Free(c)
       THEN /\ row' = [row EXCEPT ![call[c].key] =
                        [@ EXCEPT !.status = "leased", !.digest = call[c].intent,
                                  !.gen = c, !.expires = call[c].at + Lease]]
            /\ call' = [call EXCEPT ![c].pc = "stage", ![c].at = 0]
       ELSE call' = [call EXCEPT ![c].pc = "raced", ![c].at = 0] /\ UNCHANGED row
  /\ UNCHANGED <<Stored, now>>

AcquireReread(c) ==
  /\ At(c, "raced")
  /\ IF Row(c).digest # call[c].intent THEN Answer(c, "mismatch", None)
     ELSE IF Row(c).status = "completed" THEN Go(c, "replay")
     ELSE Answer(c, "in-progress", None)
  /\ UNCHANGED <<row, Stored, now>>

-----------------------------------------------------------------------------
(* publishBridgeFile, publishBridgeFileVersion, publishBridgeStaticSite and
   setBridgeVisibility *)

\* The target as it is before the upload, and the object of the new version.
Stage(c) ==
  /\ At(c, "stage")
  /\ \/ /\ Op(c) = "publish"
        /\ objects' = objects \cup {c}
        /\ Go(c, "commit")
     \/ /\ Op(c) = "version" /\ artifact[Target(c)] # None
        /\ objects' = objects \cup {c}
        /\ call' = [call EXCEPT ![c].pc = "commit", ![c].base = artifact[Target(c)]]
     \/ /\ Op(c) = "visibility" /\ artifact[Target(c)] # None
        /\ Go(c, "commit") /\ UNCHANGED objects
  /\ UNCHANGED <<row, artifact, version, ops, effect, lost, now>>

\* No such target, no quota, or the put failed.
StageFails(c) ==
  /\ At(c, "stage") /\ Go(c, "release")
  /\ UNCHANGED <<row, Stored, now>>

HoldsLease(c) == Row(c).status = "leased" /\ Row(c).gen = c

MayCommit(c) ==
  /\ HoldsLease(c)
  /\ Op(c) = "version" => artifact[Target(c)] = call[c].base
  /\ Op(c) = "visibility" => artifact[Target(c)] # None
  /\ ops[call[c].key] = None

Made(c) == IF Op(c) = "visibility" THEN None ELSE c
Touched(c) == IF Op(c) = "publish" THEN c ELSE Target(c)

\* The batch: version, artifact, operation and completed request at once.
Committed(c) ==
  LET k == call[c].key IN
  /\ MayCommit(c)
  /\ artifact' = [artifact EXCEPT ![Touched(c)] = IF Made(c) = None THEN @ ELSE c]
  /\ version' = IF Made(c) = None THEN version ELSE [version EXCEPT ![c] = Touched(c)]
  /\ ops' = [ops EXCEPT ![k] = [artifact |-> Touched(c), version |-> Made(c)]]
  /\ row' = [row EXCEPT ![k].status = "completed", ![k].artifact = Touched(c),
                        ![k].version = Made(c)]
  /\ effect' = [effect EXCEPT ![k] = @ \cup {<<Touched(c), Made(c)>>}]

Commit(c) ==
  /\ At(c, "commit") /\ Committed(c) /\ Go(c, "result")
  /\ UNCHANGED <<objects, lost, now>>

AfterFailure(c) == IF Op(c) = "visibility" THEN "release" ELSE "failed"

CommitUnheard(c) ==
  /\ At(c, "commit") /\ Committed(c) /\ Go(c, AfterFailure(c))
  /\ Cardinality(lost) < MaxLost
  /\ lost' = lost \cup {c}
  /\ UNCHANGED <<objects, now>>

\* The destination is refused, the batch fails, or its guards match no row:
\* an upload's batch then fails, a change of visibility changes nothing.
CommitFails(c) ==
  /\ At(c, "commit")
  /\ IF Op(c) = "visibility" /\ ~MayCommit(c) THEN Go(c, "result")
     ELSE Go(c, AfterFailure(c))
  /\ UNCHANGED <<row, Stored, now>>

Drop(a) ==
  LET gone == {v \in Call : version[v] = a} IN
  /\ artifact' = [artifact EXCEPT ![a] = None]
  /\ version' = [v \in Call |-> IF v \in gone THEN None ELSE version[v]]
  /\ ops' = [k \in Key |-> IF ops[k] # None /\ ops[k].artifact = a THEN None ELSE ops[k]]

\* mutant: nothing is cleaned up
UndoesNothing(c) == FALSE

Undoes(c) == Op(c) = "publish" /\ artifact[c] = c

\* cleanupFailedShareable, when it was a publication; a publication may then
\* be tried again, under another name or in the conversation's new project.
CleanUp(c) ==
  /\ At(c, "failed")
  /\ \/ Go(c, "reread")
     \/ Op(c) = "publish" /\ Go(c, "commit")
  /\ IF Undoes(c) THEN Drop(c) ELSE UNCHANGED <<artifact, version, ops>>
  /\ UNCHANGED <<row, objects, effect, lost, now>>

\* readBridgeResult: a version it names stands for the operation that made it.
Readable(c) ==
  /\ Row(c).status = "completed" /\ artifact[Row(c).artifact] # None
  /\ Row(c).version # None \/ ops[call[c].key] # None

\* The result may have been reached by another call; the read may fail.
Reread(c) ==
  /\ At(c, "reread")
  /\ \E found \in {FALSE} \cup (IF Readable(c) THEN {TRUE} ELSE {}) :
       call' = [call EXCEPT ![c].pc = "compensate", ![c].replay = found]
  /\ UNCHANGED <<row, Stored, now>>

Told(c) ==
  [key |-> call[c].key, result |-> <<Row(c).artifact, Row(c).version>>]

Unstaged(c) == objects \ {c}

Compensate(c) ==
  /\ At(c, "compensate")
  /\ objects' = Unstaged(c)
  /\ IF call[c].replay THEN Answer(c, "ok", Told(c)) ELSE Go(c, "release")
  /\ UNCHANGED <<row, artifact, version, ops, effect, lost, now>>

Releasable(c) == Row(c).status = "leased" /\ Row(c).gen = c

\* releaseRequestLease
Release(c) ==
  /\ At(c, "release") /\ Answer(c, "failed", None)
  /\ row' = IF Releasable(c)
              THEN [row EXCEPT ![call[c].key] =
                     [@ EXCEPT !.status = "binding", !.digest = None, !.gen = None,
                               !.expires = 0]]
              ELSE row
  /\ UNCHANGED <<Stored, now>>

Unread(c) == "release"

\* The result that was committed, or none to be read.
ReadResult(c) ==
  /\ At(c, "result")
  /\ \/ Readable(c) /\ Answer(c, "ok", Told(c))
     \/ Go(c, Unread(c))
  /\ UNCHANGED <<row, Stored, now>>

Replay(c) ==
  /\ At(c, "replay")
  /\ \/ Readable(c) /\ Answer(c, "ok", Told(c))
     \/ Answer(c, "forbidden", None)
  /\ UNCHANGED <<row, Stored, now>>

-----------------------------------------------------------------------------
UnderWay(c) == call[c].pc \notin {"new", "over", "dead"}

Crash(c) ==
  /\ UnderWay(c)
  /\ call' = [call EXCEPT ![c] = [NoCall EXCEPT !.pc = "dead", !.key = call[c].key,
                                               !.intent = call[c].intent]]
  /\ UNCHANGED <<row, Stored, now>>

\* An owner deletes the artifact with its objects.
DeleteArtifact(a) ==
  /\ artifact[a] # None
  /\ Drop(a)
  /\ objects' = objects \ {v \in Call : version[v] = a}
  /\ UNCHANGED <<row, call, now, effect, lost>>

\* Retention removes a version that is not current.
Prune(v) ==
  /\ version[v] # None /\ artifact[version[v]] # v
  /\ version' = [version EXCEPT ![v] = None]
  /\ ops' = [k \in Key |-> IF ops[k] # None /\ ops[k].version = v THEN None ELSE ops[k]]
  /\ objects' = objects \ {v}
  /\ UNCHANGED <<row, artifact, call, now, effect, lost>>

Tick ==
  /\ now < MaxTime /\ now' = now + 1
  /\ UNCHANGED <<row, Stored, call>>

Step(c) ==
  \/ AcquireRead(c) \/ AcquireWrite(c) \/ AcquireReread(c)
  \/ Stage(c) \/ StageFails(c)
  \/ Commit(c) \/ CommitUnheard(c) \/ CommitFails(c)
  \/ CleanUp(c) \/ Reread(c) \/ Compensate(c) \/ Release(c)
  \/ ReadResult(c) \/ Replay(c)

Next ==
  \/ \E c \in Call, k \in Key, i \in Intents : Begin(c, k, i)
  \/ \E c \in Call : Step(c) \/ Crash(c) \/ DeleteArtifact(c) \/ Prune(c)
  \/ Tick

Spec == Init /\ [][Next]_vars

-----------------------------------------------------------------------------
(* Properties *)

\* A request id does its work at most once however many calls carry it, and
\* every call that reports success reports the result of that work.
Promise == INSTANCE BridgePromise WITH
  Asker <- Call, Result <- Call \X (Call \cup {None}),
  done <- effect, told <- [c \in Call |-> call[c].told]

AtMostOnce == Promise!Spec

\* A call that is over has left nothing behind that it did not publish: no
\* object without its version, and no lease that a retry would have to wait for.
NothingLeftBehind ==
  \A c \in Call : At(c, "over") =>
    /\ c \in objects => version[c] # None
    /\ \A k \in Key : row[k].status = "leased" => row[k].gen # c

\* What one call compensates never takes the content of a version that is
\* published; a version whose commit the call did not hear of is the exception.
PublishedHasContent ==
  \A v \in Call : version[v] # None => v \in objects \cup lost

\* A publication whose commit was not heard of is undone: when the call is
\* over, its version, whose content is gone, is not the one that is shown.
UnheardPublicationUndone ==
  \A c \in lost : At(c, "over") /\ Op(c) = "publish" => artifact[c] # c

\* A call that is over left no object without its version and no lease to wait
\* for, took no content from what is published, and undid a publication it did
\* not hear of (the catch and finally of bridge-publish-session.server.ts).
NothingHalfDone == TypeOK /\ NothingLeftBehind /\ PublishedHasContent /\ UnheardPublicationUndone
=============================================================================
