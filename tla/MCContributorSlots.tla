-------------------------- MODULE MCContributorSlots --------------------------
(* What a plan gives a workspace, on small instances: the contributor slots    *)
(* that its uploads take, and the plan itself as the webhooks of the payment   *)
(* provider bring it.  "of" tells which.                                       *)
(*   slots:   three uploads of two people, slower than the grace period        *)
(*   refusal: two uploads no longer than the grace period, a bot among the     *)
(*            uploaders                                                        *)
(*   serial:  three events, one delivery at a time, in any order and repeated   *)
(*   races:   two events, two deliveries in flight and two checkouts           *)
(*   two:     three events of one plan, two deliveries in flight that never    *)
(*            fail: a delivery for each of two subscriptions, overtaken        *)
EXTENDS ContributorSlots, TLC
VARIABLES of, sub, event, sent, row, audits, op, tab, fails, edits, newest, late

Refusal == INSTANCE ContributorSlots WITH Grace <- 1, MaxTime <- 2

Serial == INSTANCE BillingSync WITH
  Ops <- {"o1"}, Tabs <- {"t1", "t2"}, Subs <- {"s1", "s2"},
  MaxEvents <- 3, MaxFails <- 1, MaxEdits <- 1
Races == INSTANCE BillingSync WITH
  Ops <- {"o1", "o2"}, Tabs <- {"t1", "t2"}, Subs <- {"s1", "s2"},
  MaxEvents <- 2, MaxFails <- 1, MaxEdits <- 1
Two == INSTANCE BillingSync WITH
  Ops <- {"o1", "o2"}, Tabs <- {"t1", "t2"}, Subs <- {"s1", "s2"},
  MaxEvents <- 3, MaxFails <- 0, MaxEdits <- 0

ASSUME Serial!BillingAssumption

billing == <<sub, event, sent, row, audits, op, tab, fails, edits, newest, late>>

OnlyPeople == stopped' = {}
TwoUploads == Cardinality({c \in Upload : upload'[c].pc # "new"}) <= 2
\* No upload goes on for longer than the grace period.
Prompt == \A c \in Upload : upload'[c].pc \notin {"new", "over"} => clock' <= upload'[c].now + 1

OnePlan == \A s \in {"s1", "s2"} : sub'[s].plan # "team" /\ sub'[s].status # "past_due"

\* Nobody has begun to upload, or will, where the subject is the plan.
Quiet ==
  /\ \A u \in Human : member[u].status = "none"
  /\ \A c \in Upload : upload[c].user \in Bot /\ ~upload[c].external

MCInit ==
  /\ of \in {"slots", "refusal", "serial", "races", "two"}
  /\ Init
  /\ of = "slots" => \A c \in Upload : upload[c].user \in Human
  /\ of \in {"serial", "races", "two"} => Quiet
  /\ IF of = "serial" THEN Serial!Init ELSE IF of = "two" THEN Two!Init ELSE Races!Init

MCNext ==
  /\ \/ of = "slots" /\ Next /\ OnlyPeople /\ UNCHANGED billing
     \/ of = "refusal" /\ Refusal!Next /\ TwoUploads /\ Prompt /\ UNCHANGED billing
     \/ of = "serial" /\ Serial!Next /\ UNCHANGED vars
     \/ of = "races" /\ Races!Next /\ UNCHANGED vars
     \/ of = "two" /\ Two!Next /\ OnePlan /\ UNCHANGED vars
  /\ UNCHANGED of

MCSpec == MCInit /\ [][MCNext]_<<of, vars, billing>>

Symmetry == Permutations(Human) \cup Permutations(Upload)

\* Once every event is processed, the workspace has the plan and the status its
\* subscription has, unless the answer written last is older than one acted on
\* before; whatever ran at once, the log has a plan change once and the checkouts
\* bill one customer.
PlanFollows ==
  /\ of = "serial" => Serial!QuietMeansCurrent /\ ~late
  /\ of = "races" => Races!QuietMeansCurrent /\ Races!LoggedOnce /\ Races!OneCustomer
  /\ of = "two" => Two!QuietMeansCurrent

\* One is turned away at the guardrail only for people who contribute, who
\* upload, or whose upload was given up within the grace period.  A workspace
\* loses its plan only to the end of the subscription it has, and keeps the access
\* controls the owner chose, unless a delivery writes that had read the workspace
\* before it had that subscription.
FullOrEnded ==
  [][/\ of = "refusal" => Refusal!Full
     /\ of = "serial" => /\ Serial!EndsWithItsSubscription /\ Serial!ControlsStay
                         /\ ~Serial!ReadBefore
     /\ of = "races" => Races!EndsWithItsSubscription /\ Races!ControlsStay
     /\ of = "two" => Two!EndsWithItsSubscription]_<<of, vars, billing>>
===============================================================================
