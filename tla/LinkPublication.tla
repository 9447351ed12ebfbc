--------------------------- MODULE LinkPublication ---------------------------
(***************************************************************************)
(* Sharing by link in one new Free workspace: the ledger that limits how   *)
(* many files may become reachable by link within a day, and the expiry    *)
(* each link gets from the workspace's policy. A request reads the file,   *)
(* then the policy and the ledger, and commits in one batch whose triggers *)
(* decide again on the limit, and on nothing else: of the policy and the   *)
(* expiry a request knows what they were. A change of the policy, too,     *)
(* reads the one it changes before its batch.                              *)
(***************************************************************************)
EXTENDS Naturals, FiniteSets, FiniteSetsExt

CONSTANTS
    Files, Requests,
    Editors,    \* changes of the policy that may be in flight at once
    Kinds,      \* what the requests of an instance do
    Terms,      \* finite link terms a policy or a request may name
    Limit,      \* files that may be published within a window
    Window,     \* ticks of a day
    MaxTime,
    MaxPolicies \* changes of the policy

ASSUME PublicationAssumption ==
    /\ {Limit, Window, MaxTime, MaxPolicies} \subseteq Nat /\ Limit > 0 /\ Window \in 1 .. MaxTime
    /\ IsFiniteSet(Files)
    /\ Terms \subseteq {t \in Nat \ {0} : t < MaxTime + Window}
    /\ Kinds \subseteq {"dialog", "edit", "expiry", "rename", "create", "reopen"}

Never == 0                       \* no publication: the clock starts after a window
Forever == 2 * MaxTime + Window  \* no expiry, no maximum
Unasked == 0                     \* a request that names no term
AllTerms == Terms \union {Forever}
Policies == [on: BOOLEAN, default: AllTerms, max: AllTerms]

VARIABLES
    clock,
    file,      \* visibility and expiry of each file's link
    ledger,    \* link_publications: the latest publication of each file
    policy,    \* the workspace's link policy
    policies,
    draft,     \* the changes of the policy in flight
    req,       \* the requests in flight
    went,      \* history: which file became reachable by link, and when
    overtaken  \* history: the links that were decided on what had changed since

vars == <<clock, file, ledger, policy, policies, draft, req, went, overtaken>>

Init ==
    /\ clock = Window
    /\ file = [f \in Files |-> [vis |-> "absent", expires |-> Forever]]
    /\ ledger = [f \in Files |-> Never]
    /\ policy \in {p \in Policies : p.default <= p.max}
    /\ policies = 0
    /\ draft = [w \in Editors |-> [step |-> "idle"]]
    /\ req = [r \in Requests |-> [step |-> "idle"]]
    /\ went = {}
    /\ overtaken = {}

Idle(r) == req[r].step = "idle"
Drafting(w) == draft[w].step = "draft"
\* A link that ends a term from now; no expiry stays none.
After(now, term) == IF term = Forever THEN Forever ELSE now + term

\* The files the ledger counts within the window that ends now.
Counted(now) == {f \in Files : ledger[f] # Never /\ ledger[f] + Window > now}

-----------------------------------------------------------------------------
(* A request                                                               *)

Asks(kind) == IF kind \in {"rename", "reopen"} THEN {Unasked}
              ELSE IF kind = "expiry" THEN AllTerms ELSE AllTerms \union {Unasked}

Becomes(kind, f) ==
    CASE kind \in {"create", "reopen"} -> {"link"}
      [] kind \in {"dialog", "edit"}   -> {"link", "private"}
      [] OTHER                         -> {file[f].vis}

Fits(kind, f) ==
    CASE kind = "create" -> file[f].vis = "absent"
      [] kind = "expiry" -> file[f].vis = "link"
      [] kind = "reopen" -> file[f].vis = "link" /\ file[f].expires <= clock
      [] OTHER           -> file[f].vis \in {"link", "private"}

\* history: by which policy the link was decided; Never, by one replaced meanwhile
Seen(f) == IF f \in overtaken THEN Never ELSE policies + 1

Read(r, kind, f) ==
    /\ Idle(r)
    /\ Fits(kind, f)
    /\ \E ask \in Asks(kind), next \in Becomes(kind, f) :
          /\ next = "private" => ask = Unasked
          /\ req' = [req EXCEPT ![r] =
                [step |-> "resolve", kind |-> kind, file |-> f, now |-> clock, ask |-> ask, next |-> next,
                 vis |-> file[f].vis, expires |-> file[f].expires, seen |-> Seen(f)]]
    /\ UNCHANGED <<clock, file, ledger, policy, policies, draft, went, overtaken>>

\* resolveLinkSharingWrite keeps the expiry of a link that asks for none.
Keeps(q) ==
    \/ q.kind = "rename"
    \/ q.kind \in {"dialog", "edit"} /\ q.next = "link" /\ q.vis = "link" /\ q.ask = Unasked

\* resolveLinkExpiry; Never stands for a refusal
Granted(q) ==
    LET term == IF q.ask = Unasked THEN policy.default ELSE q.ask
    IN IF term <= policy.max THEN After(q.now, term) ELSE Never

Expiry(q) ==
    IF Keeps(q) THEN q.expires
    ELSE IF q.next # "link" THEN Forever
    ELSE Granted(q)

\* A link is new to the preflight when the file was read as anything else.
Preflights(q) == q.next = "link" /\ q.vis # "link"

Resolve(r) ==
    LET q == req[r] IN
    /\ q.step = "resolve"
    /\ (q.next = "link" /\ q.kind # "rename") => policy.on
    /\ Preflights(q) => Cardinality(Counted(q.now)) < Limit
    /\ Expiry(q) # Never
    /\ req' = [req EXCEPT ![r] = [step |-> "commit", kind |-> q.kind, file |-> q.file, now |-> q.now,
                                  next |-> q.next, vis |-> q.vis, expires |-> q.expires, expiry |-> Expiry(q),
                                  seen |-> IF Keeps(q) THEN q.seen ELSE policies + 1]]
    /\ UNCHANGED <<clock, file, ledger, policy, policies, draft, went, overtaken>>

\* link-sharing-disabled, link-expiry-invalid
Decline(r) ==
    LET q == req[r] IN
    /\ q.step = "resolve"
    /\ q.next = "link" /\ q.kind # "rename"
    /\ ~policy.on \/ Expiry(q) = Never
    /\ req' = [req EXCEPT ![r] = [step |-> "idle"]]
    /\ UNCHANGED <<clock, file, ledger, policy, policies, draft, went, overtaken>>

\* The preflight found the ledger full.
Limited(r) ==
    LET q == req[r] IN
    /\ q.step = "resolve"
    /\ Preflights(q) /\ policy.on
    /\ Cardinality(Counted(q.now)) >= Limit
    /\ req' = [req EXCEPT ![r] = [step |-> "limited", now |-> q.now]]
    /\ UNCHANGED <<clock, file, ledger, policy, policies, draft, went, overtaken>>

\* Does the batch write this file at all?
Writes(q) ==
    CASE q.kind = "dialog" -> q.next # q.vis \/ q.expiry # q.expires
      [] q.kind = "create" -> file[q.file].vis = "absent"
      [] q.kind = "rename" -> q.vis # "link"
      [] OTHER             -> TRUE

\* mutant: only the preflight knows the limit
NeverExceeds(q) == FALSE

\* link_publication_consume_transition_attempt: the final decision
Exceeds(q) == Cardinality(Counted(q.now)) >= Limit

\* A request that sets no visibility leaves what it finds.
Vis(q) == IF q.kind \in {"expiry", "rename", "reopen"} THEN file[q.file].vis ELSE q.next
Publishes(q) == Writes(q) /\ Vis(q) = "link" /\ file[q.file].vis # "link"
There(q) ==
    CASE q.kind = "create" -> file[q.file].vis = "absent"
      [] q.kind = "reopen" -> file[q.file].vis = "link"
      [] OTHER             -> file[q.file].vis \in {"link", "private"}

\* Does the expiry it writes come from before a change of the policy; or, for a
\* rename, from before the file was shared?
Overtaken(q) == q.seen # policies + 1 \/ (q.kind = "rename" /\ file[q.file].vis = "link")

\* One batch: the attempt, the file, the triggers' ledger.
Commit(r) ==
    LET q == req[r] IN
    /\ q.step = "commit"
    /\ There(q)
    /\ Publishes(q) => ~Exceeds(q)
    /\ file' = IF Writes(q) THEN [file EXCEPT ![q.file] = [vis |-> Vis(q), expires |-> q.expiry]] ELSE file
    /\ ledger' = IF Publishes(q) THEN [ledger EXCEPT ![q.file] = Max({@, q.now})] ELSE ledger
    /\ went' = IF Publishes(q) THEN went \union {<<q.file, q.now>>} ELSE went
    /\ req' = [req EXCEPT ![r] = [step |-> "idle"]]
    /\ overtaken' = IF ~Writes(q) THEN overtaken
                    ELSE IF Overtaken(q) THEN overtaken \union {q.file} ELSE overtaken \ {q.file}
    /\ UNCHANGED <<clock, policy, policies, draft>>

\* link publication quota exceeded: nothing of the batch stays.
Exceeded(r) ==
    LET q == req[r] IN
    /\ q.step = "commit"
    /\ There(q) /\ Publishes(q) /\ Exceeds(q)
    /\ req' = [req EXCEPT ![r] = [step |-> "limited", now |-> q.now]]
    /\ UNCHANGED <<clock, file, ledger, policy, policies, draft, went, overtaken>>

\* The file is gone, or there already: the batch finds nothing to change.
Missed(r) ==
    LET q == req[r] IN
    /\ q.step = "commit"
    /\ ~There(q)
    /\ req' = [req EXCEPT ![r] = [step |-> "idle"]]
    /\ UNCHANGED <<clock, file, ledger, policy, policies, draft, went, overtaken>>

\* The Limit latest publications, of which the oldest has to leave the window.
Latest(now) ==
    {f \in Counted(now) : Cardinality({g \in Counted(now) : ledger[g] > ledger[f]}) < Limit}

Retry(now) ==
    IF Cardinality(Counted(now)) < Limit THEN 1
    ELSE Max({1, Min({ledger[f] : f \in Latest(now)}) + Window - now})

\* buildLinkPublishRateLimitFailure reads the ledger anew.
Refuse(r) ==
    /\ req[r].step = "limited"
    /\ req' = [req EXCEPT ![r] = [step |-> "refused", retry |-> Retry(req[r].now)]]
    /\ UNCHANGED <<clock, file, ledger, policy, policies, draft, went, overtaken>>

Done(r) ==
    /\ req[r].step = "refused"
    /\ req' = [req EXCEPT ![r] = [step |-> "idle"]]
    /\ UNCHANGED <<clock, file, ledger, policy, policies, draft, went, overtaken>>

-----------------------------------------------------------------------------
(* Around the requests                                                     *)

Delete(f) ==
    /\ file[f].vis \in {"link", "private"}
    /\ file' = [file EXCEPT ![f].vis = "deleted"]
    /\ UNCHANGED <<clock, ledger, policy, policies, draft, req, went, overtaken>>

\* updateWorkspaceExternalAccessPolicy; below the Team plan sharing by link can
\* only be resumed. What a change leaves alone it writes as it was read.
Draft(w, p) ==
    /\ draft[w].step = "idle"
    /\ policies + Cardinality({v \in Editors : Drafting(v)}) < MaxPolicies
    /\ policy.on => p.on
    /\ p.default <= p.max
    /\ draft' = [draft EXCEPT ![w] = [step |-> "draft", before |-> policy.max, next |-> p, seen |-> policies]]
    /\ UNCHANGED <<clock, file, ledger, policy, policies, req, went, overtaken>>

Lowers(d) == d.next.max < d.before

\* mutant: a new maximum is for new links
ShortenedNot(d) == file

\* A maximum lower than the one that was read shortens the links that end later.
Shortened(d) ==
    IF Lowers(d)
    THEN [f \in Files |-> IF file[f].vis = "link"
                          THEN [file[f] EXCEPT !.expires = Min({@, clock + d.next.max})] ELSE file[f]]
    ELSE file

SetPolicy(w) ==
    LET d == draft[w] IN
    /\ Drafting(w)
    /\ policy' = d.next
    /\ policies' = policies + 1
    /\ file' = Shortened(d)
    /\ draft' = [draft EXCEPT ![w] = [step |-> "idle"]]
    /\ overtaken' = IF Lowers(d) THEN {} ELSE IF d.seen # policies THEN Files ELSE overtaken
    /\ UNCHANGED <<clock, ledger, req, went>>

\* cleanupExpiredLinkPublications
Cleanup ==
    /\ \E f \in Files : ledger[f] # Never /\ f \notin Counted(clock)
    /\ ledger' = [f \in Files |-> IF f \in Counted(clock) THEN ledger[f] ELSE Never]
    /\ UNCHANGED <<clock, file, policy, policies, draft, req, went, overtaken>>

\* A request ends within the tick in which it began: a tick is a good part of a
\* day.
Tick ==
    /\ clock < MaxTime
    /\ \A r \in Requests : Idle(r)
    /\ \A w \in Editors : ~Drafting(w)
    /\ clock' = clock + 1
    /\ UNCHANGED <<file, ledger, policy, policies, draft, req, went, overtaken>>

-----------------------------------------------------------------------------
Next ==
    \/ \E r \in Requests :
          \/ \E kind \in Kinds, f \in Files : Read(r, kind, f)
          \/ Resolve(r) \/ Decline(r) \/ Limited(r)
          \/ Commit(r) \/ Exceeded(r) \/ Missed(r) \/ Refuse(r) \/ Done(r)
    \/ \E f \in Files : Delete(f)
    \/ \E w \in Editors : SetPolicy(w) \/ \E p \in Policies : Draft(w, p)
    \/ Cleanup
    \/ Tick

Spec == Init /\ [][Next]_vars

-----------------------------------------------------------------------------
TypeOK ==
    /\ clock \in Window .. MaxTime
    /\ file \in [Files -> [vis: {"absent", "link", "private", "deleted"}, expires: (1 .. Forever)]]
    /\ ledger \in [Files -> {Never} \union (Window .. MaxTime)]
    /\ policy \in Policies /\ policies \in Nat
    /\ draft \in [Editors -> [step: {"idle"}] \union
                           [step: {"draft"}, before: AllTerms, next: Policies, seen: Nat]]
    /\ went \subseteq Files \X (Window .. MaxTime)
    /\ overtaken \subseteq Files

\* In no window do more files become reachable by link than the limit allows,
\* however requests race for the last place and whatever is hidden or deleted.
WithinLimit ==
    \A t \in Window .. clock :
        Cardinality({f \in Files : \E s \in Window .. t : <<f, s>> \in went /\ s + Window > t}) <= Limit

\* A link ends no later than the policy's maximum from now, however requests and
\* changes of the policy interleave, and only these outlast it: a link whose
\* expiry was read or granted before a change of the policy and written after it,
\* one that a rename which had read its file as not shared leaves without an end,
\* and those that were there when a change restored a maximum it had read before
\* another change. The next lower maximum shortens them too.
LinksWithinMax ==
    \A f \in Files \ overtaken : file[f].vis = "link" => file[f].expires <= After(clock, policy.max)

\* The retry that a refusal names is late enough: the ledger has room by then
\* unless somebody else publishes.
RetryIsEnough ==
    \A r \in Requests :
        (req[r].step = "limited" /\ req'[r].step = "refused")
           => Cardinality(Counted(clock + req'[r].retry)) < Limit
=============================================================================
