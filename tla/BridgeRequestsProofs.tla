-------------------------- MODULE BridgeRequestsProofs --------------------------
(***************************************************************************)
(* The promise of a bridge request, for any number of calls and request    *)
(* ids, any lease and any number of lost replies.                          *)
(***************************************************************************)
EXTENDS BridgeRequests, TLAPS

Results == Call \X (Call \cup {None})

RowType == [status: Statuses, digest: Intents \cup {None}, gen: Call \cup {None}, expires: Nat,
            artifact: Call \cup {None}, version: Call \cup {None}]
CallType == [pc: Steps, key: Key \cup {None}, intent: Intents \cup {None}, at: Nat,
             base: Call \cup {None}, replay: BOOLEAN, answer: Answers,
             told: {None} \cup [key: Key, result: Results]]

Types ==
  /\ row \in [Key -> RowType] /\ call \in [Call -> CallType]
  /\ artifact \in [Call -> Call \cup {None}] /\ version \in [Call -> Call \cup {None}]
  /\ objects \subseteq Call /\ now \in 0 .. MaxTime

\* A call has bound its request, and tells of nothing before it is over.
CallsOK ==
  \A c \in Call :
    /\ ~At(c, "new") => call[c].key \in Key /\ call[c].intent \in Intents /\ Proper(call[c].intent)
    /\ ~At(c, "over") => call[c].told = None
    /\ At(c, "commit") /\ Op(c) = "version" => call[c].base # None
    /\ At(c, "compensate") /\ call[c].replay => Row(c).status = "completed"

\* The steps at which a call may hold the lease.
Holding == {"stage", "commit", "failed", "reread", "compensate", "release", "result", "dead"}

RowsOK ==
  \A k \in Key :
    /\ (row[k].status \in {"leased", "completed"}) = (row[k].gen # None)
    /\ row[k].status = "completed" => row[k].artifact \in Call
    /\ row[k].status = "leased" => call[row[k].gen].key = k /\ call[row[k].gen].pc \in Holding

\* A completed request carries the one result of its work.
Recorded ==
  effect = [k \in Key |-> IF row[k].status = "completed" THEN {<<row[k].artifact, row[k].version>>} ELSE {}]

\* Artifacts and versions name each other, and an artifact whose current version
\* is its first has no other.
Linked ==
  /\ \A a \in Call : artifact[a] # None => version[artifact[a]] = a
  /\ \A v \in Call : version[v] # None => artifact[version[v]] # None
  /\ \A v \in Call : version[v] # None /\ artifact[version[v]] = version[v] => v = version[v]

\* The call that completed its request.
Completed(c) == ~At(c, "new") /\ Row(c).status = "completed" /\ Row(c).gen = c

\* What exists, or was lost, is of a call that completed its request.
Origin ==
  \A c \in Call : version[c] # None \/ artifact[c] # None \/ c \in lost => Completed(c)

Content ==
  \A c \in Call :
    /\ c \in objects => /\ ~At(c, "new") /\ Op(c) # "visibility"
                        /\ version[c] # None \/ call[c].pc \in {"commit", "failed", "reread", "compensate", "dead"}
    /\ call[c].pc \in {"commit", "failed"} /\ Op(c) # "visibility" => c \in objects \cup lost
    /\ version[c] # None => c \in lost \/ (c \in objects /\ call[c].pc \in {"result", "release", "over", "dead"})
    /\ c \in lost /\ Op(c) = "publish" /\ call[c].pc \notin {"failed", "dead"} => artifact[c] # c

BridgeInv == Types /\ CallsOK /\ RowsOK /\ Recorded /\ Linked /\ Origin /\ Content /\ lost \subseteq Call

-----------------------------------------------------------------------------
LEMMA InitInv == Init => BridgeInv
  <1> SUFFICES ASSUME Init PROVE BridgeInv
    OBVIOUS
  <1>1. NoRow \in RowType /\ NoCall \in CallType
    BY DEF NoRow, NoCall, RowType, CallType, Statuses, Steps, Answers
  <1>2. Types
    BY <1>1, LeaseAssumption DEF Init, Types
  <1>3. CallsOK /\ RowsOK /\ Recorded
    BY LeaseAssumption DEF Init, NoRow, NoCall, CallsOK, RowsOK, Recorded, At
  <1>4. Linked /\ Origin /\ Content /\ lost \subseteq Call
    BY DEF Init, NoCall, Linked, Origin, Content
  <1> QED
    BY <1>2, <1>3, <1>4 DEF BridgeInv

-----------------------------------------------------------------------------
(* One call moves on, and perhaps puts or removes its own object.          *)

LEMMA MoveInv ==
  ASSUME BridgeInv, NEW c \in Call, NEW q \in CallType,
         call' = [call EXCEPT ![c] = q],
         objects' \subseteq Call, objects' \ {c} = objects \ {c},
         UNCHANGED <<row, artifact, version, effect, lost, now>>,
         ~At(c, "new"), q.pc # "new", q.key = call[c].key, q.intent = call[c].intent,
         q.pc # "over" => q.told = None,
         q.pc = "commit" /\ Op(c) = "version" => q.base # None,
         q.pc = "compensate" /\ q.replay => Row(c).status = "completed",
         HoldsLease(c) => q.pc \in Holding,
         c \in objects' =>
           /\ Op(c) # "visibility"
           /\ version[c] # None \/ q.pc \in {"commit", "failed", "reread", "compensate", "dead"},
         q.pc \in {"commit", "failed"} /\ Op(c) # "visibility" => c \in objects' \cup lost,
         version[c] # None => c \in lost \/ (c \in objects' /\ q.pc \in {"result", "release", "over", "dead"}),
         c \in lost /\ Op(c) = "publish" /\ q.pc \notin {"failed", "dead"} => artifact[c] # c
  PROVE  BridgeInv'
  <1>0. Types /\ CallsOK /\ RowsOK /\ Recorded /\ Linked /\ Origin /\ Content /\ lost \subseteq Call
    BY DEF BridgeInv
  <1>1. call'[c] = q /\ \A d \in Call : d # c => call'[d] = call[d]
    BY <1>0 DEF Types
  <1>2. Types'
    BY <1>0 DEF Types
  <1>3. CallsOK'
    BY <1>0, <1>1 DEF CallsOK, At, Op, Row
  <1>4. RowsOK'
    <2> SUFFICES ASSUME NEW k \in Key
                 PROVE  row[k].status = "leased" =>
                          call'[row[k].gen].key = k /\ call'[row[k].gen].pc \in Holding
      BY <1>0 DEF RowsOK
    <2>1. CASE row[k].gen = c /\ row[k].status = "leased"
      <3>1. call[c].key = k
        BY <1>0, <2>1 DEF RowsOK
      <3> QED
        BY <1>1, <2>1, <3>1 DEF HoldsLease, Row
    <2>2. CASE row[k].gen # c /\ row[k].status = "leased"
      <3>1. row[k].gen \in Call
        BY <1>0, <2>2 DEF RowsOK, Types, RowType
      <3> QED
        BY <1>0, <1>1, <2>2, <3>1 DEF RowsOK
    <2> QED
      BY <2>1, <2>2
  <1>5. Recorded' /\ Linked'
    BY <1>0 DEF Recorded, Linked
  <1>6. Origin'
    BY <1>0, <1>1 DEF Origin, Completed, At, Row
  <1>7. Content'
    <2> SUFFICES ASSUME NEW d \in Call
                 PROVE  /\ d \in objects' =>
                             /\ call'[d].pc # "new" /\ call'[d].intent.op # "visibility"
                             /\ \/ version'[d] # None
                                \/ call'[d].pc \in {"commit", "failed", "reread", "compensate", "dead"}
                        /\ call'[d].pc \in {"commit", "failed"} /\ call'[d].intent.op # "visibility" => d \in objects' \cup lost'
                        /\ version'[d] # None => d \in lost' \/ (d \in objects' /\ call'[d].pc \in {"result", "release", "over", "dead"})
                        /\ d \in lost' /\ call'[d].intent.op = "publish" /\ call'[d].pc \notin {"failed", "dead"} => artifact'[d] # d
      BY DEF Content, At, Op
    <2>1. CASE d = c
      BY <1>1, <2>1 DEF Op
    <2>2. CASE d # c
      <3>1. d \in objects' <=> d \in objects
        BY <2>2
      <3>2. call'[d] = call[d]
        BY <1>1, <2>2
      <3> QED
        BY <1>0, <3>1, <3>2 DEF Content, At, Op
    <2> QED
      BY <2>1, <2>2
  <1> QED
    BY <1>0, <1>2, <1>3, <1>4, <1>5, <1>6, <1>7 DEF BridgeInv

LEMMA RowTyped ==
  ASSUME BridgeInv, NEW c \in Call, ~At(c, "new")
  PROVE  /\ call[c].key \in Key /\ Row(c) \in RowType
         /\ Row(c).status = "completed" => <<Row(c).artifact, Row(c).version>> \in Results
  <1>1. call[c].key \in Key /\ Row(c) \in RowType
    BY DEF BridgeInv, CallsOK, Types, Row
  <1>2. Row(c).status = "completed" => Row(c).artifact \in Call
    BY <1>1 DEF BridgeInv, RowsOK, Row
  <1> QED
    BY <1>1, <1>2 DEF RowType, Results

\* The same, for a call that leaves the bucket alone.
LEMMA WalkInv ==
  ASSUME BridgeInv, NEW c \in Call, NEW q \in CallType,
         call' = [call EXCEPT ![c] = q],
         UNCHANGED <<row, artifact, version, objects, effect, lost, now>>,
         ~At(c, "new"), q.pc # "new", q.key = call[c].key, q.intent = call[c].intent,
         q.pc # "over" => q.told = None,
         q.pc = "commit" /\ Op(c) = "version" => q.base # None,
         q.pc = "compensate" /\ q.replay => Row(c).status = "completed",
         HoldsLease(c) => q.pc \in Holding,
         c \in objects =>
           version[c] # None \/ q.pc \in {"commit", "failed", "reread", "compensate", "dead"},
         q.pc \in {"commit", "failed"} /\ Op(c) # "visibility" => c \in objects \cup lost,
         version[c] # None => c \in lost \/ q.pc \in {"result", "release", "over", "dead"},
         c \in lost /\ Op(c) = "publish" /\ q.pc \notin {"failed", "dead"} => artifact[c] # c
  PROVE  BridgeInv'
  <1>1. objects \subseteq Call /\ objects' = objects
    BY DEF BridgeInv, Types
  <1>2. c \in objects => Op(c) # "visibility"
    BY DEF BridgeInv, Content
  <1>3. version[c] # None => c \in lost \/ c \in objects
    BY DEF BridgeInv, Content
  <1> QED
    BY <1>1, <1>2, <1>3, MoveInv

\* What a call at a step knows of itself.
LEMMA CallTyped ==
  ASSUME BridgeInv, NEW c \in Call
  PROVE  /\ call[c] \in CallType
         /\ ~At(c, "over") => call[c].told = None
         /\ HoldsLease(c) /\ ~At(c, "new") => call[c].pc \in Holding
         /\ c \in objects =>
              version[c] # None \/ call[c].pc \in {"commit", "failed", "reread", "compensate", "dead"}
         /\ c \in objects => Op(c) # "visibility"
         /\ version[c] # None => c \in lost \/ call[c].pc \in {"result", "release", "over", "dead"}
         /\ c \in lost /\ Op(c) = "publish" /\ call[c].pc \notin {"failed", "dead"} => artifact[c] # c
  <1>1. call[c] \in CallType /\ (~At(c, "over") => call[c].told = None)
    BY DEF BridgeInv, Types, CallsOK
  <1>2. HoldsLease(c) /\ ~At(c, "new") => call[c].pc \in Holding
    BY RowTyped DEF BridgeInv, RowsOK, HoldsLease, Row
  <1>3. /\ c \in objects =>
              version[c] # None \/ call[c].pc \in {"commit", "failed", "reread", "compensate", "dead"}
        /\ c \in objects => Op(c) # "visibility"
        /\ version[c] # None => c \in lost \/ call[c].pc \in {"result", "release", "over", "dead"}
        /\ c \in lost /\ Op(c) = "publish" /\ call[c].pc \notin {"failed", "dead"} => artifact[c] # c
    BY DEF BridgeInv, Content
  <1> QED
    BY <1>1, <1>2, <1>3

LEMMA AnswerInv ==
  ASSUME BridgeInv, NEW c \in Call, NEW a \in Answers, NEW told \in {None} \cup [key: Key, result: Results],
         Answer(c, a, told), UNCHANGED <<row, artifact, version, objects, effect, lost, now>>,
         ~At(c, "new"), ~HoldsLease(c),
         call[c].pc \notin {"commit", "failed", "reread", "compensate", "dead"}
  PROVE  BridgeInv'
  <1> DEFINE q == [call[c] EXCEPT !.pc = "over", !.base = None, !.replay = FALSE,
                                  !.at = 0, !.answer = a, !.told = told]
  <1>1. call' = [call EXCEPT ![c] = q]
    BY DEF Answer
  <1>2. q \in CallType /\ q.pc = "over" /\ q.key = call[c].key /\ q.intent = call[c].intent
    <2>1. call[c] \in CallType
      BY CallTyped
    <2> QED
      BY <2>1 DEF CallType, Steps
  <1> HIDE DEF q
  <1> QED
    BY <1>1, <1>2, CallTyped, WalkInv

LEMMA GoInv ==
  ASSUME BridgeInv, NEW c \in Call, NEW pc \in Steps,
         Go(c, pc), UNCHANGED <<row, artifact, version, objects, effect, lost, now>>,
         ~At(c, "new"), ~At(c, "over"), pc \notin {"new", "over", "compensate"},
         pc = "commit" => At(c, "failed") /\ Op(c) = "publish",
         HoldsLease(c) => pc \in Holding,
         c \in objects => version[c] # None \/ pc \in {"failed", "reread", "dead", "commit"},
         pc = "failed" /\ Op(c) # "visibility" => c \in objects \cup lost,
         version[c] # None => c \in lost \/ pc \in {"result", "release", "dead"},
         c \in lost /\ Op(c) = "publish" /\ pc \notin {"failed", "dead"} => artifact[c] # c
  PROVE  BridgeInv'
  <1> DEFINE q == [call[c] EXCEPT !.pc = pc]
  <1>1. call' = [call EXCEPT ![c] = q]
    BY DEF Go
  <1>2. q \in CallType /\ q.pc = pc /\ q.key = call[c].key /\ q.intent = call[c].intent /\ q.told = None
    BY CallTyped DEF CallType
  <1>3. pc = "commit" => c \in objects \cup lost
    BY DEF BridgeInv, Content, At
  <1> HIDE DEF q
  <1> QED
    BY <1>1, <1>2, <1>3, CallTyped, WalkInv

LEMMA AcquireReadInv ==
  ASSUME BridgeInv, NEW c \in Call, AcquireRead(c)
  PROVE  BridgeInv'
  <1>1. call[c].pc = "acquire" /\ UNCHANGED <<row, artifact, version, objects, effect, lost, now>>
    BY DEF AcquireRead, At, Stored
  <1>2. ~HoldsLease(c)
    BY <1>1, CallTyped DEF At, Holding
  <1>3. CASE \E a \in {"mismatch", "in-progress"} : Answer(c, a, None)
    BY <1>1, <1>2, <1>3, AnswerInv DEF At, Answers
  <1>4. CASE \E pc \in {"replay", "take"} : Go(c, pc)
    BY <1>1, <1>2, <1>4, CallTyped, GoInv DEF At, Steps
  <1> QED
    BY <1>3, <1>4 DEF AcquireRead

LEMMA AcquireRereadInv ==
  ASSUME BridgeInv, NEW c \in Call, AcquireReread(c)
  PROVE  BridgeInv'
  <1>1. call[c].pc = "raced" /\ UNCHANGED <<row, artifact, version, objects, effect, lost, now>>
    BY DEF AcquireReread, At, Stored
  <1>2. ~HoldsLease(c)
    BY <1>1, CallTyped DEF At, Holding
  <1>3. CASE \E a \in {"mismatch", "in-progress"} : Answer(c, a, None)
    BY <1>1, <1>2, <1>3, AnswerInv DEF At, Answers
  <1>4. CASE Go(c, "replay")
    BY <1>1, <1>2, <1>4, CallTyped, GoInv DEF At, Steps
  <1> QED
    BY <1>3, <1>4 DEF AcquireReread

LEMMA StageFailsInv ==
  ASSUME BridgeInv, NEW c \in Call, StageFails(c)
  PROVE  BridgeInv'
  <1>1. /\ call[c].pc = "stage" /\ UNCHANGED <<row, artifact, version, objects, effect, lost, now>>
        /\ Go(c, "release")
    BY DEF StageFails, At, Stored
  <1> QED
    BY <1>1, CallTyped, GoInv DEF At, Steps, Holding

LEMMA CommitFailsInv ==
  ASSUME BridgeInv, NEW c \in Call, CommitFails(c)
  PROVE  BridgeInv'
  <1>1. call[c].pc = "commit" /\ UNCHANGED <<row, artifact, version, objects, effect, lost, now>>
    BY DEF CommitFails, At, Stored
  <1>2. Op(c) # "visibility" => c \in objects \cup lost
    BY <1>1 DEF BridgeInv, Content
  <1>3. CASE Op(c) = "visibility" /\ Go(c, "result")
    BY <1>1, <1>3, CallTyped, GoInv DEF At, Steps, Holding
  <1>4. CASE Op(c) = "visibility" /\ Go(c, "release")
    BY <1>1, <1>4, CallTyped, GoInv DEF At, Steps, Holding
  <1>5. CASE Op(c) # "visibility" /\ Go(c, "failed")
    BY <1>1, <1>2, <1>5, CallTyped, GoInv DEF At, Steps, Holding
  <1> QED
    BY <1>3, <1>4, <1>5 DEF CommitFails, AfterFailure

LEMMA RereadInv ==
  ASSUME BridgeInv, NEW c \in Call, Reread(c)
  PROVE  BridgeInv'
  <1>1. call[c].pc = "reread" /\ UNCHANGED <<row, artifact, version, objects, effect, lost, now>>
    BY DEF Reread, At, Stored
  <1>2. PICK found \in BOOLEAN :
          /\ call' = [call EXCEPT ![c] = [call[c] EXCEPT !.pc = "compensate", !.replay = found]]
          /\ found => Readable(c)
    BY DEF Reread, BridgeInv, Types, CallType
  <1> DEFINE q == [call[c] EXCEPT !.pc = "compensate", !.replay = found]
  <1>0. call \in [Call -> CallType] /\ call[c] \in CallType
    BY DEF BridgeInv, Types
  <1>3. call' = [call EXCEPT ![c] = q]
    BY <1>2
  <1>4. /\ q \in CallType /\ q.pc = "compensate" /\ q.key = call[c].key /\ q.intent = call[c].intent
        /\ q.told = call[c].told /\ q.replay = found
    BY <1>0 DEF CallType, Steps
  <1>5. found => Row(c).status = "completed"
    BY <1>2 DEF Readable
  <1> HIDE DEF q
  <1> QED
    BY <1>1, <1>3, <1>4, <1>5, CallTyped, WalkInv DEF At, Holding

LEMMA ReadResultInv ==
  ASSUME BridgeInv, NEW c \in Call, ReadResult(c)
  PROVE  BridgeInv'
  <1>1. call[c].pc = "result" /\ UNCHANGED <<row, artifact, version, objects, effect, lost, now>>
    BY DEF ReadResult, At, Stored
  <1>2. CASE Readable(c) /\ Answer(c, "ok", Told(c))
    <2>1. Told(c) \in [key: Key, result: Results] /\ ~HoldsLease(c)
      BY <1>1, <1>2, RowTyped DEF Told, Readable, At, HoldsLease
    <2> QED
      BY <1>1, <1>2, <2>1, AnswerInv DEF At, Answers
  <1>3. CASE Go(c, "release")
    BY <1>1, <1>3, CallTyped, GoInv DEF At, Steps, Holding
  <1> QED
    BY <1>2, <1>3 DEF ReadResult, Unread

LEMMA ReplayInv ==
  ASSUME BridgeInv, NEW c \in Call, Replay(c)
  PROVE  BridgeInv'
  <1>1. call[c].pc = "replay" /\ UNCHANGED <<row, artifact, version, objects, effect, lost, now>>
    BY DEF Replay, At, Stored
  <1>2. ~HoldsLease(c)
    BY <1>1, CallTyped DEF At, Holding
  <1>3. CASE Readable(c) /\ Answer(c, "ok", Told(c))
    <2>1. Told(c) \in [key: Key, result: Results]
      BY <1>1, <1>3, RowTyped DEF Told, Readable, At
    <2> QED
      BY <1>1, <1>2, <1>3, <2>1, AnswerInv DEF At, Answers
  <1>4. CASE Answer(c, "forbidden", None)
    BY <1>1, <1>2, <1>4, AnswerInv DEF At, Answers
  <1> QED
    BY <1>3, <1>4 DEF Replay

LEMMA CrashInv ==
  ASSUME BridgeInv, NEW c \in Call, Crash(c)
  PROVE  BridgeInv'
  <1>1. /\ call[c].pc \notin {"new", "over", "dead"}
        /\ UNCHANGED <<row, artifact, version, objects, effect, lost, now>>
    BY DEF Crash, UnderWay, Stored
  <1> DEFINE q == [NoCall EXCEPT !.pc = "dead", !.key = call[c].key, !.intent = call[c].intent]
  <1>2. call' = [call EXCEPT ![c] = q]
    BY DEF Crash
  <1>3. /\ q \in CallType /\ q.pc = "dead" /\ q.key = call[c].key /\ q.intent = call[c].intent
        /\ q.told = None
    BY CallTyped DEF CallType, Steps, NoCall, Answers
  <1> HIDE DEF q
  <1> QED
    BY <1>1, <1>2, <1>3, CallTyped, WalkInv DEF At, Holding

LEMMA StageInv ==
  ASSUME BridgeInv, NEW c \in Call, Stage(c)
  PROVE  BridgeInv'
  <1>1. call[c].pc = "stage" /\ UNCHANGED <<row, artifact, version, effect, lost, now>>
    BY DEF Stage, At
  <1>2. PICK b \in Call \cup {None} :
          /\ call' = [call EXCEPT ![c] = [call[c] EXCEPT !.pc = "commit", !.base = b]]
          /\ Op(c) = "version" => b # None
          /\ \/ Op(c) = "visibility" /\ objects' = objects
             \/ Op(c) # "visibility" /\ objects' = objects \cup {c}
    <2>1. CASE Op(c) \in {"publish", "visibility"}
      <3>1. call' = [call EXCEPT ![c] = [call[c] EXCEPT !.pc = "commit", !.base = call[c].base]]
        BY <2>1 DEF Stage, Go, BridgeInv, Types, CallType
      <3>2. call[c].base \in Call \cup {None}
        BY CallTyped DEF CallType
      <3> QED
        BY <2>1, <3>1, <3>2 DEF Stage
    <2>2. CASE Op(c) = "version"
      <3>1. call' = [call EXCEPT ![c] = [call[c] EXCEPT !.pc = "commit", !.base = artifact[Target(c)]]]
        BY <2>2 DEF Stage, BridgeInv, Types, CallType
      <3>2. Target(c) \in Call /\ artifact[Target(c)] # None /\ objects' = objects \cup {c}
        BY <1>1, <2>2 DEF Stage, BridgeInv, CallsOK, Proper, Op, Target, Intents, At
      <3>3. artifact[Target(c)] \in Call \cup {None}
        BY <3>2 DEF BridgeInv, Types
      <3> QED
        BY <2>2, <3>1, <3>2, <3>3
    <2> QED
      BY <2>1, <2>2 DEF Stage
  <1> DEFINE q == [call[c] EXCEPT !.pc = "commit", !.base = b]
  <1>3. /\ q \in CallType /\ q.pc = "commit" /\ q.key = call[c].key /\ q.intent = call[c].intent
        /\ q.told = call[c].told /\ q.base = b
    <2>1. call[c] \in CallType
      BY CallTyped
    <2> QED
      BY <1>2, <2>1 DEF CallType, Steps
  <1>4. objects \subseteq Call /\ call' = [call EXCEPT ![c] = q]
    BY <1>2 DEF BridgeInv, Types
  <1> HIDE DEF q
  <1> QED
    BY <1>1, <1>2, <1>3, <1>4, CallTyped, MoveInv DEF At, Holding

LEMMA CompensateInv ==
  ASSUME BridgeInv, NEW c \in Call, Compensate(c)
  PROVE  BridgeInv'
  <1>1. /\ call[c].pc = "compensate" /\ UNCHANGED <<row, artifact, version, effect, lost, now>>
        /\ objects' = objects \ {c} /\ objects' \subseteq Call
    BY DEF Compensate, At, Unstaged, BridgeInv, Types
  <1>2. CASE call[c].replay
    <2> DEFINE q == [call[c] EXCEPT !.pc = "over", !.base = None, !.replay = FALSE,
                                    !.at = 0, !.answer = "ok", !.told = Told(c)]
    <2>1. call' = [call EXCEPT ![c] = q]
      BY <1>2 DEF Compensate, Answer
    <2>2. Row(c).status = "completed"
      BY <1>1, <1>2 DEF BridgeInv, CallsOK, At
    <2>3. Told(c) \in [key: Key, result: Results]
      BY <1>1, <2>2, RowTyped DEF Told, At
    <2>4. q \in CallType /\ q.pc = "over" /\ q.key = call[c].key /\ q.intent = call[c].intent
      <3>1. call[c] \in CallType
        BY CallTyped
      <3> QED
        BY <2>3, <3>1 DEF CallType, Steps, Answers
    <2> HIDE DEF q
    <2> QED
      BY <1>1, <2>1, <2>2, <2>4, CallTyped, MoveInv DEF At, HoldsLease
  <1>3. CASE ~call[c].replay
    <2> DEFINE q == [call[c] EXCEPT !.pc = "release"]
    <2>1. call' = [call EXCEPT ![c] = q]
      BY <1>3 DEF Compensate, Go
    <2>2. /\ q \in CallType /\ q.pc = "release" /\ q.key = call[c].key /\ q.intent = call[c].intent
          /\ q.told = call[c].told
      <3>1. call[c] \in CallType
        BY CallTyped
      <3> QED
        BY <3>1 DEF CallType, Steps
    <2> HIDE DEF q
    <2> QED
      BY <1>1, <2>1, <2>2, CallTyped, MoveInv DEF At, Holding
  <1> QED
    BY <1>2, <1>3

-----------------------------------------------------------------------------
(* The request's row                                                       *)

\* A call that has not completed its request owns nothing.
LEMMA OwnsNothing ==
  ASSUME BridgeInv, NEW c \in Call, ~Completed(c)
  PROVE  /\ version[c] = None /\ artifact[c] = None /\ c \notin lost
         /\ \A v \in Call : version[v] # c
  <1>1. version[c] = None /\ artifact[c] = None /\ c \notin lost
    BY DEF BridgeInv, Origin
  <1>2. \A v \in Call : version[v] # c
    BY <1>1, LeaseAssumption DEF BridgeInv, Linked
  <1> QED
    BY <1>1, <1>2

\* One call moves on, and takes or frees the row of a request that it has not
\* completed.
LEMMA LeaseInv ==
  ASSUME BridgeInv, NEW c \in Call, NEW k \in Key, NEW q \in CallType, NEW r \in RowType,
         call' = [call EXCEPT ![c] = q], row' = [row EXCEPT ![k] = r],
         UNCHANGED <<artifact, version, objects, effect, lost, now>>,
         call[c].pc \in {"new", "take", "release"}, ~At(c, "new") => call[c].key = k,
         q.pc \in {"acquire", "stage", "over"}, q.key = k, q.intent \in Intents, Proper(q.intent),
         q.pc # "over" => q.told = None,
         \/ r = row[k] /\ At(c, "new")
         \/ /\ row[k].status # "completed" /\ r.status \in {"binding", "leased"}
            /\ (r.status = "leased") = (r.gen # None)
            /\ r.status = "leased" => r.gen = c /\ q.pc = "stage" /\ At(c, "take")
  PROVE  BridgeInv'
  <1>0. Types /\ CallsOK /\ RowsOK /\ Recorded /\ Linked /\ Origin /\ Content /\ lost \subseteq Call
    BY DEF BridgeInv
  <1>1. call'[c] = q /\ \A d \in Call : d # c => call'[d] = call[d]
    BY <1>0 DEF Types
  <1>2. row'[k] = r /\ \A l \in Key : l # k => row'[l] = row[l]
    BY <1>0 DEF Types
  <1>3. ~Completed(c)
    BY <1>0 DEF Completed, Row, RowsOK, At
  <1>4. version[c] = None /\ artifact[c] = None /\ c \notin lost /\ c \notin objects
    BY <1>0, <1>3, OwnsNothing DEF Content, At
  <1>5. Types'
    BY <1>0 DEF Types
  <1>6. CallsOK'
    BY <1>0, <1>1, <1>2 DEF CallsOK, At, Op, Row
  <1>7. RowsOK'
    <2> SUFFICES ASSUME NEW l \in Key
                 PROVE  /\ (row'[l].status \in {"leased", "completed"}) = (row'[l].gen # None)
                        /\ row'[l].status = "completed" => row'[l].artifact \in Call
                        /\ row'[l].status = "leased" =>
                             call'[row'[l].gen].key = l /\ call'[row'[l].gen].pc \in Holding
      BY DEF RowsOK
    <2>1. CASE row'[l] = row[l]
      <3>1. (row[l].status \in {"leased", "completed"}) = (row[l].gen # None)
        BY <1>0 DEF RowsOK
      <3>2. row[l].status = "completed" => row[l].artifact \in Call
        BY <1>0 DEF RowsOK
      <3>3. ASSUME row[l].status = "leased"
            PROVE  call'[row[l].gen].key = l /\ call'[row[l].gen].pc \in Holding
        <4>1. row[l].gen \in Call /\ call[row[l].gen].key = l /\ call[row[l].gen].pc \in Holding
          BY <1>0, <3>1, <3>3 DEF RowsOK, Types, RowType
        <4>2. row[l].gen # c
          <5>1. CASE l = k
            BY <1>2, <2>1, <3>1, <3>3, <4>1, <5>1 DEF At, Holding
          <5>2. CASE l # k
            BY <4>1, <5>2 DEF At, Holding
          <5> QED
            BY <5>1, <5>2
        <4> QED
          BY <1>1, <4>1, <4>2
      <3> QED
        BY <2>1, <3>1, <3>2, <3>3
    <2>2. CASE row'[l] # row[l]
      <3>1. l = k /\ r # row[k]
        BY <1>2, <2>2
      <3> QED
        BY <1>1, <1>2, <3>1 DEF Holding
    <2> QED
      BY <2>1, <2>2
  <1>8. Recorded'
    <2>1. \A l \in Key : row'[l] = row[l] \/ (row[l].status # "completed" /\ row'[l].status # "completed")
      BY <1>2
    <2> QED
      BY <1>0, <2>1 DEF Recorded
  <1>9. Linked'
    BY <1>0 DEF Linked
  <1>10. Origin'
    <2>1. ASSUME NEW d \in Call, Completed(d) PROVE Completed(d)'
      <3>1. d # c /\ call[d].key \in Key
        BY <1>0, <1>3, <2>1 DEF Completed, CallsOK
      <3> QED
        BY <1>1, <1>2, <2>1, <3>1 DEF Completed, At, Row
    <2> QED
      BY <1>0, <2>1 DEF Origin
  <1>11. Content'
    <2> SUFFICES ASSUME NEW d \in Call
                 PROVE  /\ d \in objects =>
                             /\ call'[d].pc # "new" /\ call'[d].intent.op # "visibility"
                             /\ \/ version[d] # None
                                \/ call'[d].pc \in {"commit", "failed", "reread", "compensate", "dead"}
                        /\ call'[d].pc \in {"commit", "failed"} /\ call'[d].intent.op # "visibility" => d \in objects \cup lost
                        /\ version[d] # None => d \in lost \/ (d \in objects /\ call'[d].pc \in {"result", "release", "over", "dead"})
                        /\ d \in lost /\ call'[d].intent.op = "publish" /\ call'[d].pc \notin {"failed", "dead"} => artifact[d] # d
      BY DEF Content, At, Op
    <2>1. CASE d = c
      BY <1>1, <1>4, <2>1
    <2>2. CASE d # c
      BY <1>0, <1>1, <2>2 DEF Content, At, Op
    <2> QED
      BY <2>1, <2>2
  <1> QED
    BY <1>0, <1>5, <1>6, <1>7, <1>8, <1>9, <1>10, <1>11 DEF BridgeInv

LEMMA BeginInv ==
  ASSUME BridgeInv, NEW c \in Call, NEW k \in Key, NEW i \in Intents, Begin(c, k, i)
  PROVE  BridgeInv'
  <1> DEFINE q == [NoCall EXCEPT !.pc = "acquire", !.key = k, !.intent = i, !.at = now]
             r == [row[k] EXCEPT !.status = IF @ = "none" THEN "binding" ELSE @]
  <1>0. row \in [Key -> RowType] /\ row[k] \in RowType /\ now \in Nat
    BY LeaseAssumption DEF BridgeInv, Types
  <1>1. call' = [call EXCEPT ![c] = q] /\ call[c].pc = "new"
    BY DEF Begin, At
  <1>2. row' = [row EXCEPT ![k] = r]
    BY <1>0 DEF Begin, RowType
  <1>3. /\ q \in CallType /\ q.pc = "acquire" /\ q.key = k /\ q.intent = i /\ q.told = None
    BY <1>0 DEF CallType, NoCall, Steps, Answers
  <1>4. r \in RowType
    BY <1>0 DEF RowType, Statuses
  <1>5. \/ r = row[k]
        \/ row[k].status # "completed" /\ r.status = "binding" /\ r.gen = None
    <2>1. (row[k].status \in {"leased", "completed"}) = (row[k].gen # None)
      BY DEF BridgeInv, RowsOK
    <2> QED
      BY <1>0, <2>1 DEF RowType
  <1>6. Proper(i) /\ UNCHANGED <<artifact, version, objects, effect, lost, now>>
    BY DEF Begin, Stored
  <1> HIDE DEF q, r
  <1> QED
    BY <1>1, <1>2, <1>3, <1>4, <1>5, <1>6, LeaseInv DEF At

LEMMA AcquireWriteInv ==
  ASSUME BridgeInv, NEW c \in Call, AcquireWrite(c)
  PROVE  BridgeInv'
  <1>1. call[c].pc = "take" /\ UNCHANGED <<artifact, version, objects, effect, lost, now>>
    BY DEF AcquireWrite, At, Stored
  <1>2. /\ call[c] \in CallType /\ call \in [Call -> CallType] /\ row \in [Key -> RowType]
        /\ call[c].key \in Key /\ row[call[c].key] \in RowType
        /\ call[c].intent \in Intents /\ Proper(call[c].intent)
    BY <1>1 DEF BridgeInv, Types, CallsOK, At
  <1>3. CASE Free(c)
    <2> DEFINE q == [call[c] EXCEPT !.pc = "stage", !.at = 0]
               r == [row[call[c].key] EXCEPT !.status = "leased", !.digest = call[c].intent,
                                             !.gen = c, !.expires = call[c].at + Lease]
    <2>1. call' = [call EXCEPT ![c] = q]
      BY <1>2, <1>3 DEF AcquireWrite, CallType
    <2>2. row' = [row EXCEPT ![call[c].key] = r]
      BY <1>3 DEF AcquireWrite
    <2>3. /\ q \in CallType /\ q.pc = "stage" /\ q.key = call[c].key /\ q.intent = call[c].intent
          /\ q.told = call[c].told
      BY <1>2 DEF CallType, Steps
    <2>4. call[c].at + Lease \in Nat
      BY <1>2, LeaseAssumption DEF CallType
    <2>5. r \in RowType /\ r.status = "leased" /\ r.gen = c
      BY <1>2, <2>4 DEF RowType, Statuses
    <2>6. row[call[c].key].status # "completed" /\ c # None /\ q.told = None
      BY <1>1, <1>3, <2>3, CallTyped, LeaseAssumption DEF Free, Row, At
    <2> HIDE DEF q, r
    <2> QED
      BY <1>1, <1>2, <2>1, <2>2, <2>3, <2>5, <2>6, LeaseInv DEF At
  <1>4. CASE ~Free(c)
    <2> DEFINE q == [call[c] EXCEPT !.pc = "raced", !.at = 0]
    <2>1. call' = [call EXCEPT ![c] = q] /\ row' = row
      BY <1>2, <1>4 DEF AcquireWrite, CallType
    <2>2. /\ q \in CallType /\ q.pc = "raced" /\ q.key = call[c].key /\ q.intent = call[c].intent
          /\ q.told = call[c].told
      BY <1>2 DEF CallType, Steps
    <2>3. ~HoldsLease(c)
      BY <1>1, CallTyped DEF At, Holding
    <2> HIDE DEF q
    <2> QED
      BY <1>1, <2>1, <2>2, <2>3, CallTyped, WalkInv DEF At
  <1> QED
    BY <1>3, <1>4

LEMMA ReleaseInv ==
  ASSUME BridgeInv, NEW c \in Call, Release(c)
  PROVE  BridgeInv'
  <1>1. /\ call[c].pc = "release" /\ UNCHANGED <<artifact, version, objects, effect, lost, now>>
        /\ Answer(c, "failed", None)
    BY DEF Release, At, Stored
  <1>2. CASE ~Releasable(c)
    BY <1>1, <1>2, AnswerInv DEF Release, At, Answers, HoldsLease, Releasable
  <1>3. CASE Releasable(c)
    <2> DEFINE q == [call[c] EXCEPT !.pc = "over", !.base = None, !.replay = FALSE,
                                    !.at = 0, !.answer = "failed", !.told = None]
               r == [row[call[c].key] EXCEPT !.status = "binding", !.digest = None, !.gen = None,
                                             !.expires = 0]
    <2>0. /\ call[c] \in CallType /\ call[c].key \in Key /\ row[call[c].key] \in RowType
          /\ call[c].intent \in Intents /\ Proper(call[c].intent)
      BY <1>1 DEF BridgeInv, Types, CallsOK, At
    <2>1. call' = [call EXCEPT ![c] = q] /\ row' = [row EXCEPT ![call[c].key] = r]
      BY <1>1, <1>3 DEF Release, Answer
    <2>2. q \in CallType /\ q.pc = "over" /\ q.key = call[c].key /\ q.intent = call[c].intent
      BY <2>0 DEF CallType, Steps, Answers
    <2>3. r \in RowType /\ r.status = "binding" /\ r.gen = None
      BY <2>0 DEF RowType, Statuses
    <2>4. row[call[c].key].status # "completed"
      BY <1>3 DEF Releasable, Row
    <2> HIDE DEF q, r
    <2> QED
      BY <1>1, <2>0, <2>1, <2>2, <2>3, <2>4, LeaseInv DEF At
  <1> QED
    BY <1>2, <1>3

-----------------------------------------------------------------------------
(* The batch                                                               *)

LEMMA TouchedTyped ==
  ASSUME BridgeInv, NEW c \in Call, At(c, "commit"), MayCommit(c)
  PROVE  /\ call[c].key \in Key /\ row[call[c].key] \in RowType /\ row[call[c].key].status = "leased"
         /\ Op(c) \in {"publish", "version", "visibility"}
         /\ Touched(c) \in Call /\ Made(c) \in {c, None} /\ c # None
         /\ Made(c) = c <=> Op(c) # "visibility"
         /\ Op(c) = "publish" => Touched(c) = c
         /\ Op(c) # "publish" => Touched(c) # c /\ artifact[Touched(c)] # None
         /\ ~Completed(c)
  <1>1. /\ call[c].key \in Key /\ row[call[c].key] \in RowType /\ row[call[c].key].status = "leased"
        /\ ~Completed(c) /\ c # None
    BY LeaseAssumption DEF BridgeInv, Types, CallsOK, At, MayCommit, HoldsLease, Row, Completed
  <1>2. call[c].intent \in Intents /\ Proper(call[c].intent)
    BY DEF BridgeInv, CallsOK, At
  <1>3. Op(c) \in {"publish", "version", "visibility"} /\ (Op(c) # "publish" => Target(c) \in Call)
    BY <1>2, LeaseAssumption DEF Intents, Proper, Op, Target
  <1>4. Op(c) # "publish" => artifact[Target(c)] # None
    BY <1>3 DEF BridgeInv, CallsOK, At, MayCommit
  <1>5. artifact[c] = None
    BY <1>1, OwnsNothing
  <1> QED
    BY <1>1, <1>3, <1>4, <1>5 DEF Touched, Made

LEMMA CommittedInv ==
  ASSUME BridgeInv, NEW c \in Call, NEW pc \in Steps, At(c, "commit"), Committed(c), Go(c, pc),
         objects' = objects, now' = now,
         \/ pc = "result" /\ lost' = lost
         \/ pc = AfterFailure(c) /\ lost' = lost \cup {c}
  PROVE  BridgeInv'
  <1> DEFINE k == call[c].key
             t == Touched(c)
             m == Made(c)
  <1>0. Types /\ CallsOK /\ RowsOK /\ Recorded /\ Linked /\ Origin /\ Content /\ lost \subseteq Call
    BY DEF BridgeInv
  <1>1. /\ k \in Key /\ row[k] \in RowType /\ row[k].status = "leased" /\ row[k].gen = c
        /\ Op(c) \in {"publish", "version", "visibility"} /\ call[c].pc = "commit"
        /\ t \in Call /\ m \in {c, None} /\ c # None
        /\ m = c <=> Op(c) # "visibility"
        /\ Op(c) = "publish" => t = c
        /\ Op(c) # "publish" => t # c /\ artifact[t] # None
        /\ ~Completed(c)
    BY TouchedTyped DEF Committed, MayCommit, HoldsLease, Row, At
  <1>2. version[c] = None /\ artifact[c] = None /\ c \notin lost /\ \A v \in Call : version[v] # c
    BY <1>1, OwnsNothing
  <1>3. /\ artifact' = [artifact EXCEPT ![t] = IF m = None THEN artifact[t] ELSE c]
        /\ version' = IF m = None THEN version ELSE [version EXCEPT ![c] = t]
        /\ row' = [row EXCEPT ![k] = [row[k] EXCEPT !.status = "completed", !.artifact = t, !.version = m]]
        /\ effect' = [effect EXCEPT ![k] = effect[k] \cup {<<t, m>>}]
    BY <1>0, <1>1 DEF Committed, Types, RowType
  <1>4. /\ call'[c] = [call[c] EXCEPT !.pc = pc] /\ call[c] \in CallType
        /\ \A d \in Call : d # c => call'[d] = call[d]
        /\ call' \in [Call -> CallType]
    BY <1>0 DEF Go, Types, CallType
  <1>5. /\ call'[c].pc = pc /\ call'[c].key = k /\ call'[c].intent = call[c].intent
        /\ call'[c].told = call[c].told /\ pc \in {"result", "failed", "release"}
    BY <1>1, <1>4 DEF CallType, AfterFailure
  <1> DEFINE r == [row[k] EXCEPT !.status = "completed", !.artifact = t, !.version = m]
  <1>6. /\ r \in RowType /\ r.status = "completed" /\ r.artifact = t /\ r.version = m /\ r.gen = c
        /\ row'[k] = r /\ \A l \in Key : l # k => row'[l] = row[l]
        /\ row' \in [Key -> RowType]
    BY <1>0, <1>1, <1>3 DEF Types, RowType, Statuses
  <1> HIDE DEF k, t, m, r
  <1>7. Types'
    BY <1>0, <1>1, <1>3, <1>4, <1>6 DEF Types
  <1>8. CallsOK'
    <2> SUFFICES ASSUME NEW d \in Call
                 PROVE  /\ call'[d].pc # "new" => call'[d].key \in Key /\ call'[d].intent \in Intents
                                                   /\ Proper(call'[d].intent)
                        /\ call'[d].pc # "over" => call'[d].told = None
                        /\ call'[d].pc = "commit" /\ call'[d].intent.op = "version" => call'[d].base # None
                        /\ call'[d].pc = "compensate" /\ call'[d].replay =>
                             row'[call'[d].key].status = "completed"
      BY DEF CallsOK, At, Op, Row
    <2>1. CASE d = c
      BY <1>0, <1>1, <1>5, <2>1 DEF CallsOK, At
    <2>2. CASE d # c
      BY <1>0, <1>4, <1>6, <2>2 DEF CallsOK, At, Op, Row
    <2> QED
      BY <2>1, <2>2
  <1>9. RowsOK'
    <2> SUFFICES ASSUME NEW l \in Key
                 PROVE  /\ (row'[l].status \in {"leased", "completed"}) = (row'[l].gen # None)
                        /\ row'[l].status = "completed" => row'[l].artifact \in Call
                        /\ row'[l].status = "leased" =>
                             call'[row'[l].gen].key = l /\ call'[row'[l].gen].pc \in Holding
      BY DEF RowsOK
    <2>1. CASE l = k
      BY <1>1, <1>6, <2>1
    <2>2. CASE l # k
      <3>1. row[l].status = "leased" => row[l].gen \in Call /\ row[l].gen # c
        BY <1>0, <2>2 DEF RowsOK, Types, RowType, k
      <3> QED
        BY <1>0, <1>4, <1>6, <2>2, <3>1 DEF RowsOK
    <2> QED
      BY <2>1, <2>2
  <1>10. Recorded'
    <2>1. effect[k] = {}
      BY <1>0, <1>1 DEF Recorded
    <2>2. effect' = [effect EXCEPT ![k] = {<<t, m>>}]
      BY <1>3, <2>1
    <2> QED
      BY <1>0, <1>1, <1>6, <2>2 DEF Recorded
  <1>11. Linked'
    <2>1. CASE m = None
      <3>1. artifact' = artifact /\ version' = version
        BY <1>0, <1>3, <2>1 DEF Types
      <3> QED
        BY <1>0, <3>1 DEF Linked
    <2>2. CASE m = c
      <3>1. /\ artifact' = [artifact EXCEPT ![t] = c] /\ version' = [version EXCEPT ![c] = t]
            /\ artifact \in [Call -> Call \cup {None}] /\ version \in [Call -> Call \cup {None}]
        BY <1>0, <1>1, <1>3, <2>2 DEF Types
      <3>2. /\ artifact'[t] = c /\ version'[c] = t /\ t # None
            /\ \A a \in Call : a # t => artifact'[a] = artifact[a]
            /\ \A v \in Call : v # c => version'[v] = version[v]
        BY <1>1, <3>1, LeaseAssumption
      <3>3. ASSUME NEW a \in Call, artifact'[a] # None PROVE version'[artifact'[a]] = a
        <4>1. CASE a = t
          BY <3>2, <4>1
        <4>2. CASE a # t
          <5>1. artifact[a] \in Call /\ version[artifact[a]] = a
            BY <1>0, <3>1, <3>2, <3>3, <4>2 DEF Linked
          <5>2. artifact[a] # c
            BY <1>2, <5>1, LeaseAssumption
          <5> QED
            BY <3>2, <4>2, <5>1, <5>2
        <4> QED
          BY <4>1, <4>2
      <3>4. ASSUME NEW v \in Call, version'[v] # None
            PROVE  /\ artifact'[version'[v]] # None
                   /\ artifact'[version'[v]] = version'[v] => v = version'[v]
        <4>1. CASE v = c
          BY <1>1, <3>2, <4>1
        <4>2. CASE v # c
          <5>1. /\ version'[v] = version[v] /\ version[v] \in Call /\ version[v] # c
                /\ artifact[version[v]] # None
                /\ artifact[version[v]] = version[v] => v = version[v]
            BY <1>0, <1>2, <3>1, <3>2, <3>4, <4>2 DEF Linked
          <5> QED
            BY <1>1, <3>2, <5>1
        <4> QED
          BY <4>1, <4>2
      <3> QED
        BY <3>3, <3>4 DEF Linked
    <2> QED
      BY <1>1, <2>1, <2>2
  <1>12. Origin'
    <2>1. ASSUME NEW d \in Call, Completed(d) PROVE Completed(d)'
      <3>1. d # c /\ call[d].key \in Key /\ call[d].key # k
        BY <1>0, <1>1, <2>1 DEF Completed, CallsOK, Row
      <3> QED
        BY <1>4, <1>6, <2>1, <3>1 DEF Completed, At, Row
    <2>2. Completed(c)'
      BY <1>5, <1>6 DEF Completed, At, Row
    <2>3. ASSUME NEW d \in Call, d # c, version'[d] # None \/ artifact'[d] # None \/ d \in lost'
          PROVE  version[d] # None \/ artifact[d] # None \/ d \in lost
      <3>1. artifact'[d] # None => artifact[d] # None
        BY <1>0, <1>1, <1>3, <2>3 DEF Types
      <3>2. version'[d] = version[d]
        BY <1>0, <1>3, <2>3 DEF Types
      <3> QED
        BY <2>3, <3>1, <3>2
    <2> QED
      BY <1>0, <2>1, <2>2, <2>3 DEF Origin
  <1>13. Content'
    <2> SUFFICES ASSUME NEW d \in Call
                 PROVE  /\ d \in objects =>
                             /\ call'[d].pc # "new" /\ call'[d].intent.op # "visibility"
                             /\ \/ version'[d] # None
                                \/ call'[d].pc \in {"commit", "failed", "reread", "compensate", "dead"}
                        /\ call'[d].pc \in {"commit", "failed"} /\ call'[d].intent.op # "visibility" => d \in objects \cup lost'
                        /\ version'[d] # None => d \in lost' \/ (d \in objects /\ call'[d].pc \in {"result", "release", "over", "dead"})
                        /\ d \in lost' /\ call'[d].intent.op = "publish" /\ call'[d].pc \notin {"failed", "dead"} => artifact'[d] # d
      BY DEF Content, At, Op
    <2>1. CASE d = c
      <3>1. /\ c \in objects => call[c].intent.op # "visibility"
            /\ call[c].intent.op # "visibility" => c \in objects
        BY <1>0, <1>1, <1>2 DEF Content, At, Op
      <3>2. call[c].intent.op # "visibility" => version'[c] = t /\ t # None
        BY <1>0, <1>1, <1>3, LeaseAssumption DEF Types, Op
      <3>3. call[c].intent.op = "visibility" => version'[c] = None
        BY <1>1, <1>2, <1>3 DEF Op
      <3>4. \/ pc = "result" /\ lost' = lost
            \/ pc = "release" /\ c \in lost' /\ call[c].intent.op = "visibility"
            \/ pc = "failed" /\ c \in lost'
        BY DEF AfterFailure, Op
      <3> QED
        BY <1>2, <1>5, <2>1, <3>1, <3>2, <3>3, <3>4
    <2>2. CASE d # c
      <3>1. call'[d] = call[d] /\ version'[d] = version[d] /\ (d \in lost' <=> d \in lost)
        BY <1>0, <1>3, <1>4, <2>2 DEF Types
      <3>2. artifact'[d] = artifact[d] \/ artifact'[d] = c
        BY <1>0, <1>1, <1>3 DEF Types
      <3> QED
        BY <1>0, <2>2, <3>1, <3>2 DEF Content, At, Op
    <2> QED
      BY <2>1, <2>2
  <1>14. lost' \subseteq Call
    BY <1>0
  <1> QED
    BY <1>7, <1>8, <1>9, <1>10, <1>11, <1>12, <1>13, <1>14 DEF BridgeInv

LEMMA CommitInv ==
  ASSUME BridgeInv, NEW c \in Call, Commit(c) \/ CommitUnheard(c)
  PROVE  BridgeInv'
  <1>1. CASE Commit(c)
    BY <1>1, CommittedInv DEF Commit, Steps
  <1>2. CASE CommitUnheard(c)
    <2>1. AfterFailure(c) \in Steps
      BY DEF AfterFailure, Steps
    <2> QED
      BY <1>2, <2>1, CommittedInv DEF CommitUnheard
  <1> QED
    BY <1>1, <1>2

-----------------------------------------------------------------------------
(* What is taken back, deleted or pruned                                   *)

\* Artifacts and versions go, each version with its artifact, and objects only
\* with their version; one call at "failed" may move on.
LEMMA GoneInv ==
  ASSUME BridgeInv, UNCHANGED <<row, effect, lost, now>>,
         artifact' \in [Call -> Call \cup {None}], version' \in [Call -> Call \cup {None}],
         \A a \in Call : artifact'[a] \in {artifact[a], None},
         \A v \in Call : version'[v] \in {version[v], None},
         \A v \in Call : version'[v] # None => artifact'[version[v]] # None,
         \A a \in Call : artifact'[a] # None => version'[artifact[a]] # None,
         objects' \subseteq objects,
         \A v \in objects \ objects' : version[v] # None /\ version'[v] = None,
         call' \in [Call -> CallType],
         \A d \in Call : /\ d \in objects' /\ version'[d] = None =>
                              call'[d].pc \in {"commit", "failed", "reread", "compensate", "dead"}
                         /\ call'[d] # call[d] =>
                              /\ At(d, "failed") /\ (Op(d) = "publish" => artifact'[d] # d)
                              /\ \/ call'[d] = [call[d] EXCEPT !.pc = "reread"]
                                 \/ call'[d] = [call[d] EXCEPT !.pc = "commit"] /\ Op(d) = "publish"
  PROVE  BridgeInv'
  <1>0. Types /\ CallsOK /\ RowsOK /\ Recorded /\ Linked /\ Origin /\ Content /\ lost \subseteq Call
    BY DEF BridgeInv
  <1>1. ASSUME NEW d \in Call
        PROVE  /\ call'[d].key = call[d].key /\ call'[d].intent = call[d].intent
               /\ call'[d].told = call[d].told /\ call'[d].base = call[d].base
               /\ call'[d].replay = call[d].replay
               /\ \/ call'[d].pc = call[d].pc
                  \/ /\ call[d].pc = "failed" /\ (Op(d) = "publish" => artifact'[d] # d)
                     /\ call'[d].pc = "reread" \/ (call'[d].pc = "commit" /\ Op(d) = "publish")
    <2>1. call[d] \in CallType
      BY <1>0 DEF Types
    <2> QED
      BY <2>1 DEF At, CallType
  <1>2. Types'
    BY <1>0 DEF Types
  <1>3. CallsOK'
    BY <1>0, <1>1 DEF CallsOK, At, Op, Row
  <1>4. RowsOK'
    <2>1. ASSUME NEW k \in Key, row[k].status = "leased"
          PROVE  call'[row[k].gen].key = k /\ call'[row[k].gen].pc \in Holding
      <3>1. row[k].gen \in Call /\ call[row[k].gen].key = k /\ call[row[k].gen].pc \in Holding
        BY <1>0, <2>1 DEF RowsOK, Types, RowType
      <3> QED
        BY <1>1, <3>1 DEF Holding
    <2> QED
      BY <1>0, <2>1 DEF RowsOK
  <1>5. Recorded'
    BY <1>0 DEF Recorded
  <1>6. Linked'
    BY <1>0, LeaseAssumption DEF Linked, Types
  <1>7. Origin'
    BY <1>0, <1>1 DEF Origin, Completed, At, Row
  <1>8. Content'
    <2> SUFFICES ASSUME NEW d \in Call
                 PROVE  /\ d \in objects' =>
                             /\ call'[d].pc # "new" /\ call'[d].intent.op # "visibility"
                             /\ \/ version'[d] # None
                                \/ call'[d].pc \in {"commit", "failed", "reread", "compensate", "dead"}
                        /\ call'[d].pc \in {"commit", "failed"} /\ call'[d].intent.op # "visibility" => d \in objects' \cup lost
                        /\ version'[d] # None => d \in lost \/ (d \in objects' /\ call'[d].pc \in {"result", "release", "over", "dead"})
                        /\ d \in lost /\ call'[d].intent.op = "publish" /\ call'[d].pc \notin {"failed", "dead"} => artifact'[d] # d
      BY DEF Content, At, Op
    <2>1. /\ d \in objects => call[d].pc # "new" /\ call[d].intent.op # "visibility"
          /\ call[d].pc \in {"commit", "failed"} /\ call[d].intent.op # "visibility" => d \in objects \cup lost
          /\ version[d] # None => d \in lost \/ (d \in objects /\ call[d].pc \in {"result", "release", "over", "dead"})
          /\ d \in lost /\ call[d].intent.op = "publish" /\ call[d].pc \notin {"failed", "dead"} => artifact[d] # d
      BY <1>0 DEF Content, At, Op
    <2>2. d \in objects' => call'[d].pc # "new" /\ call'[d].intent.op # "visibility"
      BY <1>1, <2>1
    <2>3. d \in objects' => \/ version'[d] # None
                           \/ call'[d].pc \in {"commit", "failed", "reread", "compensate", "dead"}
      OBVIOUS
    <2>4. call'[d].pc \in {"commit", "failed"} /\ call'[d].intent.op # "visibility" => d \in objects' \cup lost
      BY <1>1, <2>1
    <2>5. version'[d] # None => d \in lost \/ (d \in objects' /\ call'[d].pc \in {"result", "release", "over", "dead"})
      BY <1>1, <2>1
    <2>6. d \in lost /\ call'[d].intent.op = "publish" /\ call'[d].pc \notin {"failed", "dead"} => artifact'[d] # d
      <3>1. artifact'[d] = d => artifact[d] = d
        BY LeaseAssumption
      <3> QED
        BY <1>1, <2>1, <3>1 DEF Op
    <2> QED
      BY <2>2, <2>3, <2>4, <2>5, <2>6
  <1> QED
    BY <1>0, <1>2, <1>3, <1>4, <1>5, <1>6, <1>7, <1>8 DEF BridgeInv

LEMMA DropGone ==
  ASSUME BridgeInv, NEW a \in Call, Drop(a)
  PROVE  /\ artifact' \in [Call -> Call \cup {None}] /\ version' \in [Call -> Call \cup {None}]
         /\ \A b \in Call : artifact'[b] \in {artifact[b], None}
         /\ \A v \in Call : version'[v] = IF version[v] = a THEN None ELSE version[v]
         /\ \A v \in Call : version'[v] # None => artifact'[version[v]] # None
         /\ \A b \in Call : artifact'[b] # None => version'[artifact[b]] # None
         /\ artifact'[a] = None
  <1>1. /\ artifact' = [artifact EXCEPT ![a] = None]
        /\ \A v \in Call : version'[v] = IF version[v] = a THEN None ELSE version[v]
        /\ version' \in [Call -> Call \cup {None}]
    BY DEF Drop, BridgeInv, Types
  <1>2. /\ artifact \in [Call -> Call \cup {None}] /\ version \in [Call -> Call \cup {None}]
        /\ \A b \in Call : artifact[b] # None => version[artifact[b]] = b
        /\ \A v \in Call : version[v] # None => artifact[version[v]] # None
    BY DEF BridgeInv, Types, Linked
  <1>3. ASSUME NEW v \in Call, version'[v] # None PROVE artifact'[version[v]] # None
    BY <1>1, <1>2, <1>3
  <1>4. ASSUME NEW b \in Call, artifact'[b] # None PROVE version'[artifact[b]] # None
    <2>1. b # a /\ artifact[b] \in Call /\ version[artifact[b]] = b
      BY <1>1, <1>2, <1>4
    <2> QED
      BY <1>1, <2>1, LeaseAssumption
  <1> QED
    BY <1>1, <1>2, <1>3, <1>4

\* What a publication takes back is its own first version and nothing else.
LEMMA CleanUpInv ==
  ASSUME BridgeInv, NEW c \in Call, CleanUp(c)
  PROVE  BridgeInv'
  <1>1. /\ call[c].pc = "failed" /\ UNCHANGED <<row, objects, effect, lost, now>>
        /\ Go(c, "reread") \/ (Op(c) = "publish" /\ Go(c, "commit"))
    BY DEF CleanUp, At
  <1>2. /\ call \in [Call -> CallType] /\ call[c] \in CallType /\ objects \subseteq Call
        /\ artifact \in [Call -> Call \cup {None}] /\ version \in [Call -> Call \cup {None}]
    BY DEF BridgeInv, Types
  <1>3. PICK pc \in {"reread", "commit"} :
          /\ call' = [call EXCEPT ![c] = [call[c] EXCEPT !.pc = pc]]
          /\ pc = "commit" => Op(c) = "publish"
    BY <1>1, <1>2 DEF Go, CallType
  <1>4. /\ call' \in [Call -> CallType] /\ call'[c].pc = pc
        /\ call'[c] = [call[c] EXCEPT !.pc = pc]
        /\ \A d \in Call : d # c => call'[d] = call[d]
    BY <1>2, <1>3 DEF CallType, Steps
  <1>5. /\ artifact' \in [Call -> Call \cup {None}] /\ version' \in [Call -> Call \cup {None}]
        /\ \A a \in Call : artifact'[a] \in {artifact[a], None}
        /\ \A v \in Call : version'[v] \in {version[v], None}
        /\ \A v \in Call : version'[v] # None => artifact'[version[v]] # None
        /\ \A a \in Call : artifact'[a] # None => version'[artifact[a]] # None
        /\ \A v \in Call : version'[v] = None => version[v] = None \/ v = c
        /\ Op(c) = "publish" => artifact'[c] # c
    <2>1. CASE ~Undoes(c)
      <3>1. artifact' = artifact /\ version' = version
        BY <2>1 DEF CleanUp
      <3>2. Op(c) = "publish" => artifact[c] # c
        BY <2>1 DEF Undoes
      <3>3. /\ \A v \in Call : version[v] # None => artifact[version[v]] # None
            /\ \A a \in Call : artifact[a] # None => version[artifact[a]] = a
        BY DEF BridgeInv, Linked
      <3> QED
        BY <1>2, <3>1, <3>2, <3>3, LeaseAssumption
    <2>2. CASE Undoes(c)
      <3>1. Drop(c)
        BY <2>2 DEF CleanUp
      <3>2. \A v \in Call : version[v] = c => v = c
        BY <2>2, LeaseAssumption DEF Undoes, BridgeInv, Linked
      <3> QED
        BY <3>1, <3>2, DropGone, LeaseAssumption
    <2> QED
      BY <2>1, <2>2
  <1>6. ASSUME NEW d \in Call, d \in objects', version'[d] = None
        PROVE  call'[d].pc \in {"commit", "failed", "reread", "compensate", "dead"}
    <2>1. CASE d = c
      BY <1>3, <1>4, <2>1
    <2>2. CASE d # c
      BY <1>1, <1>4, <1>5, <1>6, <2>2 DEF BridgeInv, Content
    <2> QED
      BY <2>1, <2>2
  <1>7. \A d \in Call : call'[d] # call[d] =>
          /\ At(d, "failed") /\ (Op(d) = "publish" => artifact'[d] # d)
          /\ \/ call'[d] = [call[d] EXCEPT !.pc = "reread"]
             \/ call'[d] = [call[d] EXCEPT !.pc = "commit"] /\ Op(d) = "publish"
    BY <1>1, <1>3, <1>4, <1>5 DEF At
  <1> QED
    BY <1>1, <1>4, <1>5, <1>6, <1>7, GoneInv

LEMMA DeleteInv ==
  ASSUME BridgeInv, NEW a \in Call, DeleteArtifact(a)
  PROVE  BridgeInv'
  <1>1. /\ Drop(a) /\ objects' = objects \ {v \in Call : version[v] = a} /\ call' = call
        /\ UNCHANGED <<row, effect, lost, now>>
    BY DEF DeleteArtifact
  <1>2. call \in [Call -> CallType] /\ objects \subseteq Call
    BY DEF BridgeInv, Types
  <1>3. ASSUME NEW v \in objects \ objects' PROVE version[v] # None /\ version'[v] = None
    BY <1>1, <1>2, DropGone, LeaseAssumption
  <1>4. ASSUME NEW d \in Call, d \in objects', version'[d] = None
        PROVE  call'[d].pc \in {"commit", "failed", "reread", "compensate", "dead"}
    <2>1. version[d] = None
      BY <1>1, <1>4, DropGone
    <2> QED
      BY <1>1, <1>4, <2>1 DEF BridgeInv, Content
  <1> QED
    BY <1>1, <1>2, <1>3, <1>4, DropGone, GoneInv

LEMMA PruneInv ==
  ASSUME BridgeInv, NEW v \in Call, Prune(v)
  PROVE  BridgeInv'
  <1>1. /\ version' = [version EXCEPT ![v] = None] /\ objects' = objects \ {v} /\ call' = call
        /\ version[v] # None /\ artifact[version[v]] # v
        /\ UNCHANGED <<row, artifact, effect, lost, now>>
    BY DEF Prune
  <1>2. /\ call \in [Call -> CallType] /\ objects \subseteq Call
        /\ artifact \in [Call -> Call \cup {None}] /\ version \in [Call -> Call \cup {None}]
    BY DEF BridgeInv, Types
  <1>3. /\ version' \in [Call -> Call \cup {None}] /\ version'[v] = None
        /\ \A w \in Call : w # v => version'[w] = version[w]
    BY <1>1, <1>2
  <1>4. /\ \A w \in Call : version'[w] # None => artifact[version[w]] # None
        /\ \A a \in Call : artifact[a] # None => version'[artifact[a]] # None
    BY <1>1, <1>2, <1>3, LeaseAssumption DEF BridgeInv, Linked
  <1>5. ASSUME NEW d \in Call, d \in objects', version'[d] = None
        PROVE  call'[d].pc \in {"commit", "failed", "reread", "compensate", "dead"}
    BY <1>1, <1>3, <1>5 DEF BridgeInv, Content
  <1> QED
    BY <1>1, <1>2, <1>3, <1>4, <1>5, GoneInv

LEMMA StillInv ==
  ASSUME BridgeInv, Tick \/ UNCHANGED vars
  PROVE  BridgeInv'
  <1>1. UNCHANGED <<row, artifact, version, objects, call, effect, lost>> /\ now' \in 0 .. MaxTime
    BY LeaseAssumption DEF Tick, Stored, vars, BridgeInv, Types
  <1>2. Types' /\ CallsOK' /\ RowsOK' /\ Recorded'
    BY <1>1 DEF BridgeInv, Types, CallsOK, RowsOK, Recorded, At, Op, Row
  <1>3. Linked' /\ Origin' /\ Content' /\ (lost \subseteq Call)'
    BY <1>1 DEF BridgeInv, Linked, Origin, Content, Completed, At, Op, Row
  <1> QED
    BY <1>2, <1>3 DEF BridgeInv

LEMMA NextInv == BridgeInv /\ [Next]_vars => BridgeInv'
  <1> SUFFICES ASSUME BridgeInv, [Next]_vars PROVE BridgeInv'
    OBVIOUS
  <1>1. CASE \E c \in Call, k \in Key, i \in Intents : Begin(c, k, i)
    BY <1>1, BeginInv
  <1>2. ASSUME NEW c \in Call, Step(c) PROVE BridgeInv'
    BY <1>2, AcquireReadInv, AcquireWriteInv, AcquireRereadInv, StageInv, StageFailsInv, CommitInv,
       CommitFailsInv, CleanUpInv, RereadInv, CompensateInv, ReleaseInv, ReadResultInv, ReplayInv DEF Step
  <1>3. CASE \E c \in Call : Crash(c) \/ DeleteArtifact(c) \/ Prune(c)
    BY <1>3, CrashInv, DeleteInv, PruneInv
  <1>4. CASE Tick \/ UNCHANGED vars
    BY <1>4, StillInv
  <1> QED
    BY <1>1, <1>2, <1>3, <1>4 DEF Next

\* What each row, artifact, version and object goes back to: the call that put it
\* there and how far that call has got.
THEOREM BridgeInvariant == Spec => []BridgeInv
  <1>1. Init => BridgeInv
    BY InitInv
  <1>2. BridgeInv /\ [Next]_vars => BridgeInv'
    BY NextInv
  <1> QED
    BY <1>1, <1>2, PTL DEF Spec

\* A call that is over left no object without its version and no lease to wait
\* for, no compensation took the content of a published version, and a
\* publication that was not heard of is not shown.
THEOREM NothingIsHalfDone == Spec => []NothingHalfDone
  <1>1. ASSUME BridgeInv PROVE NothingHalfDone
    <2> USE DEF BridgeInv
    <2>1. TypeOK
      BY <1>1 DEF TypeOK, Types, RowType, CallType, RowsOK, Linked
    <2>2. NothingLeftBehind
      <3>1. ASSUME NEW c \in Call, At(c, "over"), c \in objects PROVE version[c] # None
        BY <1>1, <3>1 DEF Content, At
      <3>2. ASSUME NEW c \in Call, At(c, "over"), NEW k \in Key, row[k].status = "leased"
            PROVE  row[k].gen # c
        BY <1>1, <3>2 DEF RowsOK, At, Holding
      <3> QED
        BY <3>1, <3>2 DEF NothingLeftBehind
    <2>3. PublishedHasContent
      BY <1>1 DEF PublishedHasContent, Content
    <2>4. UnheardPublicationUndone
      BY <1>1 DEF UnheardPublicationUndone, Content, At
    <2> QED
      BY <2>1, <2>2, <2>3, <2>4 DEF NothingHalfDone
  <1> QED
    BY <1>1, BridgeInvariant, PTL

-----------------------------------------------------------------------------
(* The promise                                                             *)

ToldOf == [c \in Call |-> call[c].told]

LEMMA ToldOne ==
  ASSUME BridgeInv, NEW c \in Call, NEW q, call' = [call EXCEPT ![c] = q]
  PROVE  ToldOf' = [ToldOf EXCEPT ![c] = q.told]
  <1>1. call'[c] = q /\ \A d \in Call : d # c => call'[d] = call[d]
    BY DEF BridgeInv, Types
  <1>2. \A d \in Call : call'[d].told = IF d = c THEN q.told ELSE call[d].told
    BY <1>1
  <1>3. ToldOf' = [d \in Call |-> IF d = c THEN q.told ELSE ToldOf[d]]
    BY <1>2 DEF ToldOf
  <1> QED
    BY <1>3 DEF ToldOf

\* A step at which a call is told nothing.
LEMMA ToldNothing ==
  ASSUME BridgeInv, NEW c \in Call, NEW q, call' = [call EXCEPT ![c] = q],
         ~At(c, "over"), q.told = None
  PROVE  ToldOf' = ToldOf
  <1>1. call[c].told = None
    BY DEF BridgeInv, CallsOK
  <1>2. ToldOf' = [ToldOf EXCEPT ![c] = None] /\ ToldOf[c] = None
    BY <1>1, ToldOne DEF ToldOf
  <1> QED
    BY <1>2 DEF ToldOf

LEMMA GoTells ==
  ASSUME BridgeInv, NEW c \in Call, NEW pc, Go(c, pc)
  PROVE  ToldOf' = ToldOf
  <1>1. call' = [call EXCEPT ![c] = [call[c] EXCEPT !.pc = pc]] /\ call[c] \in CallType
    BY DEF Go, BridgeInv, Types
  <1>2. [call[c] EXCEPT !.pc = pc].told = call[c].told
    BY <1>1 DEF CallType
  <1>3. ToldOf' = [ToldOf EXCEPT ![c] = call[c].told]
    BY <1>1, <1>2, ToldOne
  <1> QED
    BY <1>3 DEF ToldOf

LEMMA AnswerTells ==
  ASSUME BridgeInv, NEW c \in Call, NEW a, NEW told, Answer(c, a, told), ~At(c, "over")
  PROVE  ToldOf[c] = None /\ ToldOf' = [ToldOf EXCEPT ![c] = told]
  <1> DEFINE q == [call[c] EXCEPT !.pc = "over", !.base = None, !.replay = FALSE,
                                  !.at = 0, !.answer = a, !.told = told]
  <1>1. call' = [call EXCEPT ![c] = q]
    BY DEF Answer
  <1>2. call[c] \in CallType
    BY DEF BridgeInv, Types
  <1>3. q.told = told
    BY <1>2 DEF CallType
  <1>4. call[c].told = None
    BY DEF BridgeInv, CallsOK
  <1> HIDE DEF q
  <1> QED
    BY <1>1, <1>3, <1>4, ToldOne DEF ToldOf

\* The work of a request is done by the batch that completes its row.
LEMMA BatchPerforms ==
  ASSUME BridgeInv, NEW c \in Call, Commit(c) \/ CommitUnheard(c)
  PROVE  Promise!Perform(call[c].key)
  <1>1. At(c, "commit") /\ Committed(c) /\ MayCommit(c) /\ \E pc \in Steps : Go(c, pc)
    BY DEF Commit, CommitUnheard, Committed, AfterFailure, Steps
  <1>2. /\ call[c].key \in Key /\ row[call[c].key].status = "leased"
        /\ Touched(c) \in Call /\ Made(c) \in Call \cup {None}
    BY <1>1, TouchedTyped
  <1>3. effect[call[c].key] = {}
    BY <1>2 DEF BridgeInv, Recorded
  <1>4. effect' = [effect EXCEPT ![call[c].key] = {<<Touched(c), Made(c)>>}]
    BY <1>1, <1>3 DEF Committed
  <1>5. ToldOf' = ToldOf
    BY <1>1, GoTells
  <1> QED
    BY <1>2, <1>3, <1>4, <1>5 DEF Promise!Perform, ToldOf

\* Whoever is told of success is told what the row of its request carries.
LEMMA SuccessTells ==
  ASSUME BridgeInv, NEW c \in Call, ~At(c, "new"), ~At(c, "over"),
         Row(c).status = "completed", Answer(c, "ok", Told(c)), effect' = effect,
         NEW k \in Key, k = call[c].key
  PROVE  Promise!Tell(c, k)
  <1>2. <<Row(c).artifact, Row(c).version>> \in effect[k]
    BY DEF BridgeInv, Recorded, Row
  <1>3. ToldOf[c] = None /\ ToldOf' = [ToldOf EXCEPT ![c] = Told(c)]
    BY AnswerTells
  <1> QED
    BY <1>2, <1>3 DEF Promise!Tell, ToldOf, Told

LEMMA StepPromises ==
  ASSUME BridgeInv, [Next]_vars
  PROVE  [Promise!Next]_<<effect, ToldOf>>
  <1>1. ASSUME NEW c \in Call, NEW k \in Key, NEW i \in Intents, Begin(c, k, i)
        PROVE  UNCHANGED <<effect, ToldOf>>
    <2> DEFINE q == [NoCall EXCEPT !.pc = "acquire", !.key = k, !.intent = i, !.at = now]
    <2>1. call' = [call EXCEPT ![c] = q] /\ ~At(c, "over") /\ effect' = effect
      BY <1>1 DEF Begin, Stored, At
    <2>2. q.told = None
      BY DEF NoCall
    <2> HIDE DEF q
    <2> QED
      BY <2>1, <2>2, ToldNothing
  <1>2. ASSUME NEW c \in Call, AcquireRead(c) \/ AcquireReread(c)
        PROVE  UNCHANGED <<effect, ToldOf>>
    <2>1. effect' = effect /\ ~At(c, "over")
      BY <1>2 DEF AcquireRead, AcquireReread, Stored, At
    <2>2. CASE \E a \in {"mismatch", "in-progress"} : Answer(c, a, None)
      <3>1. ToldOf[c] = None /\ ToldOf' = [ToldOf EXCEPT ![c] = None]
        BY <2>1, <2>2, AnswerTells
      <3> QED
        BY <2>1, <3>1 DEF ToldOf
    <2>3. CASE \E pc \in {"replay", "take"} : Go(c, pc)
      BY <2>1, <2>3, GoTells
    <2> QED
      BY <1>2, <2>2, <2>3 DEF AcquireRead, AcquireReread
  <1>3. ASSUME NEW c \in Call, AcquireWrite(c) PROVE UNCHANGED <<effect, ToldOf>>
    <2>1. effect' = effect /\ ~At(c, "over") /\ call[c] \in CallType /\ call[c].told = None
      BY <1>3 DEF AcquireWrite, Stored, At, BridgeInv, Types, CallsOK
    <2>2. PICK pc \in {"stage", "raced"} : call' = [call EXCEPT ![c] = [call[c] EXCEPT !.pc = pc, !.at = 0]]
      BY <1>3, <2>1 DEF AcquireWrite, BridgeInv, Types, CallType
    <2>3. [call[c] EXCEPT !.pc = pc, !.at = 0].told = None
      BY <2>1 DEF CallType
    <2> QED
      BY <2>1, <2>2, <2>3, ToldNothing
  <1>4. ASSUME NEW c \in Call, Stage(c) \/ StageFails(c) \/ CommitFails(c) \/ CleanUp(c)
        PROVE  UNCHANGED <<effect, ToldOf>>
    <2>1. effect' = effect
      BY <1>4 DEF Stage, StageFails, CommitFails, CleanUp, Stored
    <2>2. CASE \E pc \in Steps : Go(c, pc)
      BY <2>1, <2>2, GoTells
    <2>3. CASE At(c, "stage") /\ call' = [call EXCEPT ![c].pc = "commit", ![c].base = artifact[Target(c)]]
      <3>1. call[c] \in CallType /\ ~At(c, "over") /\ call[c].told = None
        BY <2>3 DEF At, BridgeInv, Types, CallsOK
      <3>2. call' = [call EXCEPT ![c] = [call[c] EXCEPT !.pc = "commit", !.base = artifact[Target(c)]]]
        BY <2>3, <3>1 DEF BridgeInv, Types, CallType
      <3>3. [call[c] EXCEPT !.pc = "commit", !.base = artifact[Target(c)]].told = None
        BY <3>1 DEF CallType
      <3> QED
        BY <2>1, <3>1, <3>2, <3>3, ToldNothing
    <2> QED
      BY <1>4, <2>2, <2>3 DEF Stage, StageFails, CommitFails, CleanUp, AfterFailure, Steps
  <1>5. ASSUME NEW c \in Call, Commit(c) \/ CommitUnheard(c) PROVE Promise!Next
    <2>1. call[c].key \in Key
      BY <1>5, RowTyped DEF Commit, CommitUnheard, At
    <2> QED
      BY <1>5, <2>1, BatchPerforms DEF Promise!Next
  <1>6. ASSUME NEW c \in Call, Reread(c) PROVE UNCHANGED <<effect, ToldOf>>
    <2>1. effect' = effect /\ ~At(c, "over") /\ call[c] \in CallType /\ call[c].told = None
      BY <1>6 DEF Reread, Stored, At, BridgeInv, Types, CallsOK
    <2>2. PICK found \in BOOLEAN :
            call' = [call EXCEPT ![c] = [call[c] EXCEPT !.pc = "compensate", !.replay = found]]
      BY <1>6 DEF Reread, BridgeInv, Types, CallType
    <2>3. [call[c] EXCEPT !.pc = "compensate", !.replay = found].told = None
      BY <2>1 DEF CallType
    <2> QED
      BY <2>1, <2>2, <2>3, ToldNothing
  <1>7. ASSUME NEW c \in Call, Compensate(c) \/ ReadResult(c) \/ Replay(c)
        PROVE  Promise!Next \/ UNCHANGED <<effect, ToldOf>>
    <2>1. effect' = effect /\ ~At(c, "new") /\ ~At(c, "over")
      BY <1>7 DEF Compensate, ReadResult, Replay, Stored, At
    <2>2. CASE Row(c).status = "completed" /\ Answer(c, "ok", Told(c))
      <3>1. call[c].key \in Key
        BY <2>1, RowTyped
      <3>2. PICK k \in Key : k = call[c].key
        BY <3>1
      <3>3. Promise!Tell(c, k)
        BY <2>1, <2>2, <3>2, SuccessTells
      <3> QED
        BY <3>3 DEF Promise!Next
    <2>3. CASE Answer(c, "forbidden", None)
      <3>1. ToldOf[c] = None /\ ToldOf' = [ToldOf EXCEPT ![c] = None]
        BY <2>1, <2>3, AnswerTells
      <3> QED
        BY <2>1, <3>1 DEF ToldOf
    <2>4. CASE Go(c, "release")
      BY <2>1, <2>4, GoTells
    <2>5. At(c, "compensate") /\ call[c].replay => Row(c).status = "completed"
      BY DEF BridgeInv, CallsOK
    <2> QED
      BY <1>7, <2>2, <2>3, <2>4, <2>5 DEF Compensate, ReadResult, Replay, Readable, Unread
  <1>8. ASSUME NEW c \in Call, Release(c) PROVE UNCHANGED <<effect, ToldOf>>
    <2>1. effect' = effect /\ ~At(c, "over") /\ Answer(c, "failed", None)
      BY <1>8 DEF Release, Stored, At
    <2>2. ToldOf[c] = None /\ ToldOf' = [ToldOf EXCEPT ![c] = None]
      BY <2>1, AnswerTells
    <2> QED
      BY <2>1, <2>2 DEF ToldOf
  <1>9. ASSUME NEW c \in Call, Crash(c) PROVE UNCHANGED <<effect, ToldOf>>
    <2> DEFINE q == [NoCall EXCEPT !.pc = "dead", !.key = call[c].key, !.intent = call[c].intent]
    <2>1. call' = [call EXCEPT ![c] = q] /\ ~At(c, "over") /\ effect' = effect
      BY <1>9 DEF Crash, UnderWay, Stored, At
    <2>2. q.told = None
      BY DEF NoCall
    <2> HIDE DEF q
    <2> QED
      BY <2>1, <2>2, ToldNothing
  <1>10. CASE Tick \/ UNCHANGED vars \/ \E c \in Call : DeleteArtifact(c) \/ Prune(c)
    BY <1>10 DEF Tick, Stored, vars, DeleteArtifact, Prune, ToldOf
  <1> QED
    BY <1>1, <1>2, <1>3, <1>4, <1>5, <1>6, <1>7, <1>8, <1>9, <1>10 DEF Next, Step

\* A request id does its work at most once however many calls carry it, and every
\* call that reports success reports the result of that work: the requests
\* implement the promise of BridgePromise.
THEOREM PromiseKept == Spec => AtMostOnce
  <1>1. Init => Promise!Init
    <2> SUFFICES ASSUME Init PROVE Promise!Init
      OBVIOUS
    <2>1. \A c \in Call : call[c].told = None
      BY DEF Init, NoCall
    <2> QED
      BY <2>1 DEF Init, Promise!Init
  <1>2. BridgeInv /\ [Next]_vars => [Promise!Next]_<<effect, [c \in Call |-> call[c].told]>>
    BY StepPromises DEF ToldOf
  <1> QED
    BY <1>1, <1>2, BridgeInvariant, PTL DEF Spec, AtMostOnce, Promise!Spec
===============================================================================
