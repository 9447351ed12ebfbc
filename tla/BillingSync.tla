----------------------------- MODULE BillingSync -----------------------------
(***************************************************************************)
(* The plan of one workspace, as the payment provider's webhooks bring it. *)
(* A delivery records its event, asks the provider for the subscription,   *)
(* reads the workspace and writes what follows, each an await apart; the   *)
(* provider repeats a delivery until one is answered with success. Nothing *)
(* keeps deliveries from running at once, and nothing tells an answer from *)
(* a newer one.                                                            *)
(***************************************************************************)
EXTENDS Naturals, FiniteSets

CONSTANTS
    Ops,        \* deliveries that may be in flight at once
    Tabs,       \* checkouts the owner starts
    Subs,       \* subscriptions
    MaxEvents,  \* events the provider sends
    MaxFails,   \* deliveries that end without an answer
    MaxEdits    \* changes the owner makes to the access controls

None == "none"

BillingAssumption ==
    /\ {MaxEvents, MaxFails, MaxEdits} \subseteq Nat
    /\ None \notin Tabs \union Subs

Events == 1 .. MaxEvents
Paid == {"plus", "team"}
Plans == Paid \union {"free"}
Customers == Tabs \union {None}

VARIABLES
    sub,       \* the provider: its subscriptions
    event,     \* the events it sent: which subscription, and how far they are
    sent,
    row,       \* the workspace
    audits,    \* how many plan changes the audit log has of each event
    op,        \* the deliveries in flight
    tab,       \* the checkouts, and the customer they bill
    fails, edits,
    newest,    \* history: the age of the newest answer on each subscription that was acted on
    late       \* history: the row was last written from an older answer than that

vars == <<sub, event, sent, row, audits, op, tab, fails, edits, newest, late>>

Init ==
    /\ sub = [s \in Subs |-> [plan |-> "free", status |-> "none"]]
    /\ event = [e \in Events |-> [sub |-> None, state |-> "unsent"]]
    /\ sent = 0
    /\ row = [plan |-> "free", sub |-> None, status |-> "none", customer |-> None,
              link |-> TRUE, posting |-> FALSE]
    /\ audits = [e \in Events |-> 0]
    /\ op = [o \in Ops |-> [step |-> "idle"]]
    /\ tab = [t \in Tabs |-> [step |-> "new", customer |-> None]]
    /\ fails = 0 /\ edits = 0
    /\ newest = [s \in Subs |-> 0] /\ late = FALSE

Live(status) == status \in {"active", "past_due"}

\* derivePlanFromSubscription
PlanOf(s) == IF Live(s.status) THEN s.plan ELSE "free"
Idle(o) == op[o].step = "idle"
End(o) == op' = [op EXCEPT ![o] = [step |-> "idle"]]

-----------------------------------------------------------------------------
(* The provider and the owner                                              *)

\* Every change of a subscription is an event.
Announce(s, now) ==
    /\ sent < MaxEvents
    /\ sent' = sent + 1
    /\ event' = [event EXCEPT ![sent + 1] = [sub |-> s, state |-> "sent"]]
    /\ sub' = [sub EXCEPT ![s] = now]

Checkout(t) ==
    /\ tab[t].step = "new"
    /\ row.plan = "free"
    /\ tab' = [tab EXCEPT ![t] = [step |-> IF row.customer = None THEN "customer" ELSE "session",
                                  customer |-> row.customer]]
    /\ UNCHANGED <<sub, event, sent, row, audits, op, fails, edits, newest, late>>

\* mutant: a checkout bills the customer that it created
KeepOwn(t) == t

\* Of two customers created at once the workspace keeps the first.
Kept(t) == IF row.customer = None THEN t ELSE row.customer

\* ensureStripeCustomer
NewCustomer(t) ==
    /\ tab[t].step = "customer"
    /\ row' = [row EXCEPT !.customer = IF @ = None THEN t ELSE @]
    /\ tab' = [tab EXCEPT ![t] = [step |-> "session", customer |-> Kept(t)]]
    /\ UNCHANGED <<sub, event, sent, audits, op, fails, edits, newest, late>>

\* The owner completes a checkout: a subscription begins.
Subscribe(t, s, plan) ==
    /\ tab[t].step = "session"
    /\ tab' = [tab EXCEPT ![t].step = "done"]
    /\ sub[s].status = "none"
    /\ Announce(s, [plan |-> plan, status |-> "active"])
    /\ UNCHANGED <<row, audits, op, fails, edits, newest, late>>

\* changePlan, the portal, a failed payment, the end of the contract
Changes(s, now) ==
    /\ Live(sub[s].status)
    /\ now # sub[s]
    /\ Announce(s, now)
    /\ UNCHANGED <<row, audits, op, tab, fails, edits, newest, late>>

\* What the owner may choose: below team only to resume what a team turned off.
MayChoose(link, posting) ==
    /\ row.plan # "team" => (row.link => link) /\ (row.posting => posting)
    /\ row.plan = "free" => posting = row.posting

\* updateLinkSharingSettings, as far as the two controls go
Edit ==
    /\ edits < MaxEdits
    /\ edits' = edits + 1
    /\ \E link, posting \in BOOLEAN :
          /\ MayChoose(link, posting)
          /\ row' = [row EXCEPT !.link = link, !.posting = posting]
    /\ UNCHANGED <<sub, event, sent, audits, op, tab, fails, newest, late>>

-----------------------------------------------------------------------------
(* A delivery                                                              *)

\* mutant: an event that was received before counts as a duplicate
RecordOnce(o, e) ==
    /\ Idle(o)
    /\ event[e].state = "sent"
    /\ event' = [event EXCEPT ![e].state = "received"]
    /\ op' = [op EXCEPT ![o] = [step |-> "retrieve", event |-> e]]
    /\ UNCHANGED <<sub, sent, row, audits, tab, fails, edits, newest, late>>

\* recordWebhookEvent: an event that was processed is answered at once.
Record(o, e) ==
    /\ Idle(o)
    /\ event[e].state \in {"sent", "received"}
    /\ event' = [event EXCEPT ![e].state = "received"]
    /\ op' = [op EXCEPT ![o] = [step |-> "retrieve", event |-> e]]
    /\ UNCHANGED <<sub, sent, row, audits, tab, fails, edits, newest, late>>

Retrieve(o) ==
    /\ op[o].step = "retrieve"
    /\ op' = [op EXCEPT ![o] = [step |-> "read", event |-> op[o].event,
                                of |-> event[op[o].event].sub, got |-> sub[event[op[o].event].sub],
                                at |-> sent]]
    /\ UNCHANGED <<sub, event, sent, row, audits, tab, fails, edits, newest, late>>

\* history: the delivery acts on its answer, which is as old as the events it knew.
ActsOn(o) == newest' = [newest EXCEPT ![op[o].of] = IF @ < op[o].at THEN op[o].at ELSE @]

\* A subscription the workspace does not have any more, and that has ended.
Stale(o) == row.sub # None /\ row.sub # op[o].of /\ ~Live(op[o].got.status)

Ignore(o) ==
    /\ op[o].step = "read"
    /\ Stale(o)
    /\ op' = [op EXCEPT ![o] = [step |-> "ignored", event |-> op[o].event]]
    /\ ActsOn(o)
    /\ UNCHANGED <<sub, event, sent, row, audits, tab, fails, edits, late>>

Read(o) ==
    /\ op[o].step = "read"
    /\ ~Stale(o)
    /\ op' = [op EXCEPT ![o] = [step |-> "write", event |-> op[o].event, of |-> op[o].of,
                                got |-> op[o].got, at |-> op[o].at, plan |-> row.plan, sub |-> row.sub,
                                link |-> row.link]]
    /\ UNCHANGED <<sub, event, sent, row, audits, tab, fails, edits, newest, late>>

\* markWebhookProcessed
Ignored(o) ==
    /\ op[o].step = "ignored"
    /\ event' = [event EXCEPT ![op[o].event].state = "processed"]
    /\ End(o)
    /\ UNCHANGED <<sub, sent, row, audits, tab, fails, edits, newest, late>>

\* The first paid contract, by what was read of the workspace.
FirstContract(o) == op[o].plan = "free" /\ op[o].sub = None /\ PlanOf(op[o].got) \in Paid

\* LINK_SHARING_PLAN_DEFAULTS: an upgrade to team keeps the links there are.
Applied(o) ==
    LET new == [row EXCEPT !.plan = PlanOf(op[o].got), !.sub = op[o].of, !.status = op[o].got.status] IN
    IF FirstContract(o)
    THEN [new EXCEPT !.posting = TRUE, !.link = IF new.plan = "team" THEN op[o].link ELSE TRUE]
    ELSE new

\* The change is logged while the event is not processed.
Logged(o) == op[o].plan # PlanOf(op[o].got) /\ event[op[o].event].state # "processed"

\* One batch: the workspace, the log, the event.
Write(o) ==
    /\ op[o].step = "write"
    /\ row' = Applied(o)
    /\ audits' = [audits EXCEPT ![op[o].event] = IF Logged(o) THEN @ + 1 ELSE @]
    /\ event' = [event EXCEPT ![op[o].event].state = "processed"]
    /\ End(o)
    /\ ActsOn(o)
    /\ late' = (op[o].at < newest[op[o].of])
    /\ UNCHANGED <<sub, sent, tab, fails, edits>>

\* Any await may throw, and the invocation may end: the event is sent again.
Fail(o) ==
    /\ ~Idle(o)
    /\ fails < MaxFails
    /\ fails' = fails + 1
    /\ End(o)
    /\ UNCHANGED <<sub, event, sent, row, audits, tab, edits, newest, late>>

-----------------------------------------------------------------------------
Proceed(o) == Retrieve(o) \/ Ignore(o) \/ Read(o) \/ Ignored(o) \/ Write(o)

Owner ==
    \/ \E t \in Tabs : \/ Checkout(t) \/ NewCustomer(t)
                      \/ \E s \in Subs, plan \in Paid : Subscribe(t, s, plan)
    \/ \E s \in Subs, plan \in Paid, status \in {"active", "past_due", "canceled"} :
          Changes(s, [plan |-> plan, status |-> status])
    \/ Edit

Next == Owner \/ \E o \in Ops : Proceed(o) \/ Fail(o) \/ \E e \in Events : Record(o, e)

\* The provider repeats a delivery until it is answered.
Deliver(e) == \E o \in Ops : Record(o, e)

Spec == Init /\ [][Next]_vars
Fairness ==
    /\ \A e \in Events : SF_vars(Deliver(e))
    /\ \A o \in Ops : WF_vars(Proceed(o))

FairSpec == Spec /\ Fairness

-----------------------------------------------------------------------------
TypeOK ==
    /\ sub \in [Subs -> [plan: Plans, status: {"none", "active", "past_due", "canceled"}]]
    /\ event \in [Events -> [sub: Subs \union {None}, state: {"unsent", "sent", "received", "processed"}]]
    /\ newest \in [Subs -> Nat] /\ late \in BOOLEAN
    /\ row \in [plan: Plans, sub: Subs \union {None}, status: {"none", "active", "past_due", "canceled"},
                customer: Customers, link: BOOLEAN, posting: BOOLEAN]
    /\ audits \in [Events -> Nat]

\* However often and by however many deliveries an event is processed, the audit
\* log has its plan change once.
LoggedOnce == \A e \in Events : audits[e] <= 1

\* All checkouts of a workspace bill one customer, whoever created another first.
OneCustomer == \A t \in Tabs : tab[t].step \in {"session", "done"} => tab[t].customer = row.customer

\* Once every event is processed, the workspace has the plan and the status that
\* its subscription has, however deliveries raced, failed and repeated. Only an
\* answer written after a delivery had acted on a newer one of that subscription
\* is left standing, until the next event.
QuietMeansCurrent ==
    (row.sub # None /\ ~late /\ \A e \in Events : event[e].state \in {"unsent", "processed"})
        => row.plan = PlanOf(sub[row.sub]) /\ row.status = sub[row.sub].status

\* A delivery writes that read the workspace while it had another subscription, or none.
ReadBefore == \E o \in Ops : Write(o) /\ op[o].sub # row.sub

\* A workspace loses its plan only to a subscription that has ended, and to the
\* end of another one than its own only by a delivery that had read it before it
\* had this one.
EndsWithItsSubscription ==
    (row.plan \in Paid /\ row'.plan = "free") =>
       /\ ~Live(sub[row'.sub].status)
       /\ row'.sub = row.sub \/ ReadBefore

\* "later paid-plan changes preserve the access controls too", and so does a
\* second contract after the first: what the owner chose stays, unless a delivery
\* had read the workspace before the contract it has.
ControlsStay ==
    (row.sub # None /\ edits' = edits) =>
       (row'.link = row.link /\ row'.posting = row.posting) \/ ReadBefore

\* Every event is processed in the end: failed deliveries are repeated.
EveryEventProcessed == \A e \in Events : event[e].state = "sent" ~> event[e].state = "processed"
=============================================================================
