---------------------------- MODULE LinkJudgment ----------------------------
(***************************************************************************)
(* Automated reviews of one file shared by link. A trigger takes the gate  *)
(* of its kind for a cooldown and starts a workflow; the workflow's steps  *)
(* are durable, but a step whose result is lost runs again. A review that  *)
(* has nothing to review gives its gate back.                              *)
(***************************************************************************)
EXTENDS Naturals

CONSTANTS
    Kinds,        \* of gates
    Cooldown,     \* ticks, by kind
    Grace,        \* ticks that a gate given back stays closed
    Risks,
    MaxReviews, MaxTime, MaxEdits, MaxFaults

JudgmentAssumption ==
    /\ Cooldown \in [Kinds -> Nat \ {0}]
    /\ {Grace, MaxReviews, MaxTime, MaxEdits, MaxFaults} \subseteq Nat

Reviews == 1 .. MaxReviews
Working == {"load", "extract", "recheck", "judge", "record", "release"}
Ended == {"judged", "skipped", "errored"}
Open == [expires |-> 0, of |-> 0]

VARIABLES
    file,      \* shared by link; its entrypoint can be read
    gate,      \* link_abuse_judgment_gates; "of" is a history: who took it
    caller,    \* the requests that start reviews
    flow,      \* the workflows
    recorded,  \* link_abuse_judgments
    announced, \* announcements to the operators
    clock, edits, faults

vars == <<file, gate, caller, flow, recorded, announced, clock, edits, faults>>

Init ==
    /\ file = [link |-> TRUE, entry |-> TRUE]
    /\ gate = [k \in Kinds |-> Open]
    /\ caller = [r \in Reviews |-> [step |-> "none"]]
    /\ flow = [r \in Reviews |-> [step |-> "none"]]
    /\ recorded = {}
    /\ announced = {}
    /\ clock = 1
    /\ edits = 0
    /\ faults = 0

Fault == faults < MaxFaults /\ faults' = faults + 1

-----------------------------------------------------------------------------
(* Starting a review                                                       *)

Asked(r) == caller[r].step # "none"
Start(r) == caller[r].expires - Cooldown[caller[r].kind]

\* No gate, or one that has expired.
Takes(k) == gate[k] = Open \/ gate[k].expires < clock

\* A request reads the clock and takes the gate at once; no two requests of a
\* kind read the same millisecond.
Trigger(r, k) ==
    /\ caller[r].step = "none"
    /\ \A s \in Reviews : s < r => caller[s].step # "none"
    /\ \A s \in Reviews : (Asked(s) /\ caller[s].kind = k) => Start(s) # clock
    /\ Takes(k)
    /\ gate' = [gate EXCEPT ![k] = [expires |-> clock + Cooldown[k], of |-> r]]
    /\ caller' = [caller EXCEPT ![r] = [step |-> "create", kind |-> k, expires |-> clock + Cooldown[k]]]
    /\ UNCHANGED <<file, flow, recorded, announced, clock, edits, faults>>

Began(r) == [flow EXCEPT ![r] = [step |-> "load"]]

Create(r) ==
    /\ caller[r].step = "create"
    /\ caller' = [caller EXCEPT ![r].step = "started"]
    /\ flow' = Began(r)
    /\ UNCHANGED <<file, gate, recorded, announced, clock, edits, faults>>

\* create failed, or its answer was lost.
CreateFails(r) ==
    /\ Fault
    /\ caller[r].step = "create"
    /\ caller' = [caller EXCEPT ![r].step = "drop"]
    /\ flow' \in {flow, Began(r)}
    /\ UNCHANGED <<file, gate, recorded, announced, clock, edits>>

Drop(r) ==
    LET c == caller[r] IN
    /\ c.step = "drop"
    /\ caller' = [caller EXCEPT ![r].step = "failed"]
    /\ gate' = IF gate[c.kind].expires = c.expires THEN [gate EXCEPT ![c.kind] = Open] ELSE gate
    /\ UNCHANGED <<file, flow, recorded, announced, clock, edits, faults>>

-----------------------------------------------------------------------------
(* A review. Each step is step.do: its result is kept, or it runs again.   *)

Goes(r, to) == \/ flow' = [flow EXCEPT ![r] = to] /\ UNCHANGED faults
               \/ Fault /\ UNCHANGED flow

Load(r) ==
    /\ flow[r].step = "load"
    /\ Goes(r, [step |-> IF file.link THEN "extract" ELSE "release"])
    /\ UNCHANGED <<file, gate, caller, recorded, announced, clock, edits>>

Extract(r) ==
    /\ flow[r].step = "extract"
    /\ Goes(r, [step |-> IF file.entry THEN "recheck" ELSE "release"])
    /\ UNCHANGED <<file, gate, caller, recorded, announced, clock, edits>>

CheckAgain(r) ==
    /\ flow[r].step = "recheck"
    /\ Goes(r, [step |-> IF file.link THEN "judge" ELSE "release"])
    /\ UNCHANGED <<file, gate, caller, recorded, announced, clock, edits>>

\* The provider's verdict is a step's result; only a kept one goes on.
Judge(r) ==
    /\ flow[r].step = "judge"
    /\ \E risk \in Risks : Goes(r, [step |-> "record", risk |-> risk])
    /\ UNCHANGED <<file, gate, caller, recorded, announced, clock, edits>>

\* The risk that a record is about.
RiskOf(r) == {flow[r].risk}

\* INSERT OR IGNORE, then the announcement
Record(r) ==
    /\ flow[r].step = "record"
    /\ \E risk \in RiskOf(r) :
          /\ recorded' = IF \E j \in recorded : j.of = r THEN recorded ELSE recorded \union {[of |-> r, risk |-> risk]}
          /\ announced' = announced \union {[of |-> r, risk |-> risk]}
    /\ Goes(r, [step |-> "judged"])
    /\ UNCHANGED <<file, gate, caller, clock, edits>>

\* mutant: whichever gate there is, is given back
OwnGateAny(r) == TRUE

\* The gate is still the one this review was started with.
OwnGate(r) == gate[caller[r].kind].expires = caller[r].expires

GivenBack(r) == IF gate[caller[r].kind].expires < clock + Grace THEN gate[caller[r].kind].expires ELSE clock + Grace

\* skip
Release(r) ==
    /\ flow[r].step = "release"
    /\ gate' = IF OwnGate(r) THEN [gate EXCEPT ![caller[r].kind].expires = GivenBack(r)] ELSE gate
    /\ Goes(r, [step |-> "skipped", at |-> clock])
    /\ UNCHANGED <<file, caller, recorded, announced, clock, edits>>

\* A step failed for good: the workflow ends, its gate stays.
Errored(r) ==
    /\ Fault
    /\ flow[r].step \in Working
    /\ flow' = [flow EXCEPT ![r] = [step |-> "errored"]]
    /\ UNCHANGED <<file, gate, caller, recorded, announced, clock, edits>>

-----------------------------------------------------------------------------
(* Around the reviews                                                      *)

Edit ==
    /\ edits < MaxEdits
    /\ edits' = edits + 1
    /\ file' \in {[file EXCEPT !.link = ~@], [file EXCEPT !.entry = ~@]}
    /\ UNCHANGED <<gate, caller, flow, recorded, announced, clock, faults>>

\* cleanupExpiredAnonymousViewSignals
Cleanup ==
    /\ \E k \in Kinds : gate[k] # Open /\ gate[k].expires < clock
    /\ gate' = [k \in Kinds |-> IF gate[k].expires < clock THEN Open ELSE gate[k]]
    /\ UNCHANGED <<file, caller, flow, recorded, announced, clock, edits, faults>>

Tick ==
    /\ clock < MaxTime
    /\ clock' = clock + 1
    /\ UNCHANGED <<file, gate, caller, flow, recorded, announced, edits, faults>>

-----------------------------------------------------------------------------
Steps(r) == Load(r) \/ Extract(r) \/ CheckAgain(r) \/ Judge(r) \/ Record(r) \/ Release(r)

Next ==
    \/ \E r \in Reviews : \/ \E k \in Kinds : Trigger(r, k)
                          \/ Create(r) \/ CreateFails(r) \/ Drop(r)
                          \/ Steps(r) \/ Errored(r)
    \/ Edit \/ Cleanup \/ Tick

Spec == Init /\ [][Next]_vars

-----------------------------------------------------------------------------
TypeOK ==
    /\ file \in [link: BOOLEAN, entry: BOOLEAN]
    /\ \A k \in Kinds : gate[k].expires \in 0 .. MaxTime + Cooldown[k] /\ gate[k].of \in 0 .. MaxReviews
    /\ \A r \in Reviews : flow[r].step \in Working \union Ended \union {"none"}
    /\ recorded \subseteq [of: Reviews, risk: Risks]
    /\ announced \subseteq [of: Reviews, risk: Risks]

\* A file is reviewed once in a cooldown: while a review goes on or has led to a
\* verdict, no other of its kind begins before its cooldown is over.
OncePerCooldown ==
    \A r, s \in Reviews :
        (/\ Asked(r) /\ Asked(s) /\ r # s /\ caller[r].kind = caller[s].kind
         /\ caller[r].step = "started" /\ flow[r].step \in (Working \ {"release"}) \union {"judged"})
            => (Start(s) >= Start(r) => Start(s) > caller[r].expires)

\* Whatever is run again, there is one verdict and the operators hear that one.
OneVerdict ==
    /\ \A i, j \in recorded : i.of = j.of => i = j
    /\ announced \subseteq recorded

\* A review that found nothing to review does not hold its gate for long.
GateGivenBack ==
    \A r \in Reviews : \A k \in Kinds :
        (flow[r].step = "skipped" /\ gate[k].of = r) => gate[k].expires <= flow[r].at + Grace

\* A gate that a newer review holds is never shortened or removed by another,
\* unless it was given back: what is left of it may end in the very millisecond
\* in which an older one would have.
NewerGateStands ==
    \A k \in Kinds : (gate[k].of # 0 /\ gate'[k].expires < gate[k].expires)
        => \/ gate[k].expires < clock
           \/ gate[k].expires < caller[gate[k].of].expires
           \/ flow[gate[k].of].step = "release"
           \/ caller[gate[k].of].step = "drop"
=============================================================================
