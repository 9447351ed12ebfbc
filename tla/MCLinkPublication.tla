-------------------------- MODULE MCLinkPublication --------------------------
(* Sharing by link on small instances: "of" tells which.                       *)
(*   limit:   two requests that share three files while two may be shared      *)
(*   races:   two requests on the link of one file, and one change of the      *)
(*            policy, between any steps of theirs                              *)
(*   policy:  one request on one file, and two changes of the policy           *)
(*   moves:   two operators pause and resume a link while people change        *)
(*   appeals: two appeals of its owner                                         *)
(*   gates:   three reviews of one file whose steps fail and run again         *)
EXTENDS LinkPublication, TLC
CONSTANTS f1, f2, r1, h1, h2, bot, o1, o2, a1, a2
VARIABLES of,
  art, paused, boss, address, verified, removed, log, appealed, op, appeal, time, changes, mishaps,
  since, told,                                                     \* LinkModeration
  shared, gate, caller, flow, recorded, announced, now, edits, faults  \* LinkJudgment

Races == INSTANCE LinkPublication WITH
  Files <- {f1}, Kinds <- {"dialog", "expiry", "rename", "create", "reopen"},
  Terms <- {1}, Limit <- 1, Window <- 1, MaxTime <- 2, Editors <- {o1}, MaxPolicies <- 1
Policy == INSTANCE LinkPublication WITH
  Files <- {f1}, Requests <- {r1}, Kinds <- {"edit", "rename", "create"},
  Terms <- {1, 2}, Limit <- 1, Window <- 1, MaxTime <- 3, Editors <- {o1, o2}, MaxPolicies <- 2
Moves == INSTANCE LinkModeration WITH
  clock <- time, faults <- mishaps, Humans <- {h1, h2}, Bot <- bot, Operators <- {o1, o2},
  Appeals <- {}, Cooldown <- 2, MaxTime <- 3, MaxMoves <- 3, MaxChanges <- 1, MaxFaults <- 1
Appeal == INSTANCE LinkModeration WITH
  clock <- time, faults <- mishaps, Humans <- {h1, h2}, Bot <- bot, Operators <- {o1},
  Appeals <- {a1, a2}, Cooldown <- 2, MaxTime <- 6, MaxMoves <- 2, MaxChanges <- 1, MaxFaults <- 0
Gates == INSTANCE LinkJudgment WITH
  file <- shared, clock <- now, Kinds <- {"automatic"}, Cooldown <- [k \in {"automatic"} |-> 2],
  Grace <- 1, Risks <- {"low", "high"}, MaxReviews <- 3, MaxTime <- 5, MaxEdits <- 2, MaxFaults <- 2

ASSUME Moves!ModerationAssumption /\ Appeal!ModerationAssumption /\ Gates!JudgmentAssumption

moderation == <<art, paused, boss, address, verified, removed, log, appealed, op, appeal, time,
                changes, mishaps, since, told>>
judgment == <<shared, gate, caller, flow, recorded, announced, now, edits, faults>>

NoLink == Init /\ policy = [on |-> TRUE, default |-> Forever, max |-> Forever]
NoMove == Moves!Init /\ art.owner = h1 /\ boss = h1 /\ verified = {h1, h2}

MCInit ==
  /\ Gates!Init
  /\ \/ of = "limit" /\ Init /\ NoMove
     \/ of = "races" /\ Races!Init /\ NoMove
     \/ of = "policy" /\ Policy!Init /\ NoMove
     \/ of = "moves" /\ Moves!Init /\ NoLink
     \/ of = "appeals" /\ Appeal!Init /\ NoLink
     \/ of = "gates" /\ NoLink /\ NoMove

MCNext ==
  /\ \/ of = "limit" /\ Next /\ UNCHANGED <<moderation, judgment>>
     \/ of = "races" /\ Races!Next /\ UNCHANGED <<moderation, judgment>>
     \/ of = "policy" /\ Policy!Next /\ UNCHANGED <<moderation, judgment>>
     \/ of = "moves" /\ Moves!Next /\ UNCHANGED <<vars, judgment>>
     \/ of = "appeals" /\ Appeal!Next /\ UNCHANGED <<vars, judgment>>
     \/ of = "gates" /\ Gates!Next /\ UNCHANGED <<vars, moderation>>
  /\ UNCHANGED of

MCSpec == MCInit /\ [][MCNext]_<<of, vars, moderation, judgment>>

\* Files, requests and operators are alike.
NameSymmetry ==
  Permutations(Files) \cup Permutations(Requests) \cup Permutations({o1, o2})

\* A link outlasts the policy's maximum only when a change of the policy, or the
\* publication that a rename did not see, came between what decided its expiry
\* and the batch that wrote it; and the retry that a refused publication names is
\* late enough.
TermsKept ==
  /\ [](/\ of = "races" => Races!LinksWithinMax
        /\ of = "policy" => Policy!LinksWithinMax)
  /\ [][of = "limit" => RetryIsEnough]_<<of, vars>>

\* Each pause and resumption is on record once, its reason reaches only an owner,
\* and between two appeals lies an hour.
RecordIsHistory ==
  /\ of = "moves" => Moves!RecordIsHistory /\ Moves!ReasonIsForTheOwner
  /\ of = "appeals" => Appeal!RecordIsHistory /\ Appeal!AppealsSpaced

\* A file is reviewed once in a cooldown with one verdict, whatever is run again;
\* an idle review gives its gate back, and never the gate of a newer one.
GatesHold ==
  /\ [](of = "gates" => Gates!OncePerCooldown /\ Gates!OneVerdict /\ Gates!GateGivenBack)
  /\ [][of = "gates" => Gates!NewerGateStands]_<<of, judgment>>
===============================================================================
