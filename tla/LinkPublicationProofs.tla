------------------------- MODULE LinkPublicationProofs -------------------------
(***************************************************************************)
(* Links, for every value of the constants of their three modules.         *)
(*                                                                         *)
(* LinkPublication: no window has more new links than the limit, and who   *)
(* is refused is told a time that is late enough.                          *)
(*                                                                         *)
(* LinkModeration (Pauses): the record of an artifact's pauses is their    *)
(* history, the reason of a pause reaches only somebody who owned the      *)
(* artifact after it was recorded, and appeals are an hour apart.  A       *)
(* request keeps what it has read across its steps: what it knows is       *)
(* stated step by step (Known), and the owner of now is among the owners   *)
(* since every move (OwnedSince), which is what makes the second look at   *)
(* the recipient enough.                                                   *)
(*                                                                         *)
(* LinkJudgment (Gates): a file is reviewed once in a cooldown, with one   *)
(* verdict, and a gate is given back by an idle review and by no other.    *)
(* A gate tells only when it opens.  That it is the one this review took   *)
(* follows from the clock: a review that goes on holds its gate in full    *)
(* for the whole cooldown (HoldsGate), what is less than that was given    *)
(* back and is near its end (GateOf), and no two requests of a kind have   *)
(* read the clock at once (Asking).                                        *)
(***************************************************************************)
EXTENDS LinkPublication, Sequences, FiniteSetTheorems, WellFoundedInduction, TLAPS

\* The two modules about a published link, with constants and variables of their own.
CONSTANTS
    Humans, Bot, Operators, Appeals, AppealCooldown, MaxMoves, MaxChanges,  \* LinkModeration
    GateKinds, Cooldown, Grace, Risks, MaxReviews, MaxEdits,                \* LinkJudgment
    MaxFaults
VARIABLES
    art, paused, boss, address, verified, removed, log, appealed, op, appeal, changes,
    since, told,                                                    \* LinkModeration
    shared, gate, caller, flow, recorded, announced, edits,         \* LinkJudgment
    faults

Pauses == INSTANCE LinkModeration WITH Cooldown <- AppealCooldown
Gates == INSTANCE LinkJudgment WITH file <- shared, Kinds <- GateKinds


Visibilities == {"absent", "link", "private", "deleted"}

\* A request in flight began in this tick.
ReqOK(q) ==
    \/ q.step \in {"idle", "refused"}
    \/ q.step = "limited" /\ q.now = clock
    \/ /\ q.step \in {"resolve", "commit"}
       /\ q.file \in Files /\ q.now = clock
       /\ q.vis \in Visibilities /\ q.next \in Visibilities /\ q.expires \in 1 .. Forever
       /\ q.step = "resolve" => q.ask \in AllTerms \union {Unasked}
       /\ q.step = "commit" => q.expiry \in 1 .. Forever

Requested == DOMAIN req = Requests /\ \A r \in Requests : ReqOK(req[r])

\* The ledger remembers of each file the latest publication that still counts.
LedgerRemembers ==
    \A f \in Files, s \in Window .. clock :
        (<<f, s>> \in went /\ s + Window > clock) => ledger[f] # Never /\ ledger[f] >= s

\* No publication lies ahead of the clock.
Past == went \subseteq Files \X (Window .. clock)

LimitInv == TypeOK /\ Requested /\ Past /\ LedgerRemembers /\ WithinLimit

-----------------------------------------------------------------------------
(* Numbers                                                                 *)

LEMMA BoundsTyped ==
  /\ Limit \in Nat \ {0} /\ Window \in Nat \ {0} /\ MaxTime \in Nat /\ Window <= MaxTime /\ MaxPolicies \in Nat
  /\ Forever \in Nat \ {0} /\ Forever > MaxTime /\ Unasked = 0 /\ Never = 0
  BY PublicationAssumption DEF Forever, Unasked, Never

LEMMA TermsTyped ==
  \A t \in AllTerms : t \in 1 .. Forever /\ (t = Forever \/ t < MaxTime + Window)
  BY PublicationAssumption DEF AllTerms, Forever

LEMMA MaxOfTwo ==
  ASSUME NEW a \in Int, NEW b \in Int
  PROVE  /\ Max({a, b}) \in {a, b}
         /\ Max({a, b}) >= a
         /\ Max({a, b}) >= b
  <1>1. \E x \in {a, b} : \A y \in {a, b} : x >= y
    <2>1. CASE a >= b
      BY <2>1
    <2>2. CASE ~(a >= b)
      BY <2>2
    <2> QED
      BY <2>1, <2>2
  <1> QED
    BY <1>1 DEF Max

LEMMA MinOfTwo ==
  ASSUME NEW a \in Int, NEW b \in Int
  PROVE  Min({a, b}) \in {a, b} /\ Min({a, b}) <= a /\ Min({a, b}) <= b
  <1>1. \E x \in {a, b} : \A y \in {a, b} : x =< y
    <2>1. CASE a <= b
      BY <2>1
    <2>2. CASE ~(a <= b)
      BY <2>2
    <2> QED
      BY <2>1, <2>2
  <1> QED
    BY <1>1 DEF Min

LEMMA AfterTyped ==
  ASSUME NEW now \in Window .. MaxTime, NEW term \in AllTerms
  PROVE  After(now, term) \in 1 .. Forever
  <1>1. term = Forever \/ term < MaxTime + Window
    BY TermsTyped
  <1>2. CASE term = Forever
    BY <1>2, BoundsTyped DEF After
  <1>3. CASE term # Forever
    <2>1. now + term < 2 * MaxTime + Window
      BY <1>1, <1>3, TermsTyped, BoundsTyped
    <2> QED
      BY <1>3, <2>1, TermsTyped, BoundsTyped DEF After, Forever
  <1> QED
    BY <1>2, <1>3

LEMMA ExpiryTyped ==
  ASSUME TypeOK, NEW q, ReqOK(q), q.step = "resolve", Expiry(q) # Never
  PROVE  Expiry(q) \in 1 .. Forever
  <1>1. CASE Keeps(q)
    BY <1>1 DEF Expiry, ReqOK
  <1>2. CASE ~Keeps(q) /\ q.next # "link"
    BY <1>2, BoundsTyped DEF Expiry
  <1>3. CASE ~Keeps(q) /\ q.next = "link"
    <2> DEFINE term == IF q.ask = Unasked THEN policy.default ELSE q.ask
    <2>1. term \in AllTerms
      BY DEF ReqOK, TypeOK, Policies
    <2>2. Expiry(q) = After(q.now, term)
      BY <1>3 DEF Expiry, Granted
    <2>3. q.now \in Window .. MaxTime
      BY DEF ReqOK, TypeOK
    <2> QED
      BY <2>1, <2>2, <2>3, AfterTyped
  <1> QED
    BY <1>1, <1>2, <1>3

-----------------------------------------------------------------------------
(* Types                                                                   *)

LEMMA InitInv == Init => LimitInv
  <1> SUFFICES ASSUME Init PROVE LimitInv
    OBVIOUS
  <1>1. TypeOK
    BY BoundsTyped DEF Init, TypeOK
  <1>2. Requested /\ Past /\ LedgerRemembers
    BY DEF Init, Requested, ReqOK, Past, LedgerRemembers
  <1>3. WithinLimit
    <2> SUFFICES ASSUME NEW t \in Window .. clock
                 PROVE  Cardinality({f \in Files : \E s \in Window .. t :
                                       <<f, s>> \in went /\ s + Window > t}) <= Limit
      BY DEF WithinLimit
    <2>1. {f \in Files : \E s \in Window .. t : <<f, s>> \in went /\ s + Window > t} = {}
      BY DEF Init
    <2> QED
      BY <2>1, FS_EmptySet, BoundsTyped
  <1> QED
    BY <1>1, <1>2, <1>3 DEF LimitInv

\* A step that leaves the link, the ledger and the clock alone.
LEMMA QuietInv ==
  ASSUME LimitInv, UNCHANGED <<clock, file, ledger, policy, policies, draft, went, overtaken>>
  PROVE  TypeOK' /\ Past' /\ LedgerRemembers' /\ WithinLimit'
  <1>1. TypeOK'
    BY DEF LimitInv, TypeOK
  <1>2. Past' /\ LedgerRemembers'
    BY DEF LimitInv, Past, LedgerRemembers
  <1>3. WithinLimit'
    BY DEF LimitInv, WithinLimit
  <1> QED
    BY <1>1, <1>2, <1>3

\* A step of one request leaves the others what they were.
LEMMA OneRequest ==
  ASSUME Requested, clock' = clock, NEW r \in Requests, NEW q,
         req' = [req EXCEPT ![r] = q], ReqOK(q)
  PROVE  Requested'
  <1>1. DOMAIN req' = Requests
    BY DEF Requested
  <1>2. ASSUME NEW s \in Requests PROVE ReqOK(req[s])'
    <2>1. CASE s = r
      BY <2>1 DEF Requested, ReqOK
    <2>2. CASE s # r
      BY <2>2 DEF Requested, ReqOK
    <2> QED
      BY <2>1, <2>2
  <1> QED
    BY <1>1, <1>2 DEF Requested

LEMMA ReadInv ==
  ASSUME LimitInv, NEW r \in Requests, NEW kind \in Kinds, NEW f \in Files, Read(r, kind, f)
  PROVE  LimitInv'
  <1>1. TypeOK' /\ Past' /\ LedgerRemembers' /\ WithinLimit'
    BY QuietInv DEF Read
  <1>2. Requested'
    <2>1. PICK ask \in Asks(kind), next \in Becomes(kind, f) :
            req' = [req EXCEPT ![r] =
              [step |-> "resolve", kind |-> kind, file |-> f, now |-> clock, ask |-> ask, next |-> next,
               vis |-> file[f].vis, expires |-> file[f].expires, seen |-> Seen(f)]]
      BY DEF Read
    <2>2. file[f].vis \in Visibilities /\ file[f].expires \in 1 .. Forever
      BY DEF LimitInv, TypeOK, Visibilities
    <2>3. ask \in AllTerms \union {Unasked}
      BY DEF Asks
    <2>4. next \in Visibilities
      BY <2>2 DEF Becomes, Visibilities
    <2> QED
      BY <2>1, <2>2, <2>3, <2>4, OneRequest DEF LimitInv, ReqOK, Read
  <1> QED
    BY <1>1, <1>2 DEF LimitInv

LEMMA ResolveInv ==
  ASSUME LimitInv, NEW r \in Requests, Resolve(r)
  PROVE  LimitInv'
  <1>1. TypeOK' /\ Past' /\ LedgerRemembers' /\ WithinLimit'
    BY QuietInv DEF Resolve
  <1>2. Requested'
    <2>1. ReqOK(req[r]) /\ req[r].step = "resolve" /\ Expiry(req[r]) # Never
      BY DEF LimitInv, Requested, Resolve
    <2>2. Expiry(req[r]) \in 1 .. Forever
      BY <2>1, ExpiryTyped DEF LimitInv
    <2> DEFINE q == [step |-> "commit", kind |-> req[r].kind, file |-> req[r].file, now |-> req[r].now,
                     next |-> req[r].next, vis |-> req[r].vis, expires |-> req[r].expires,
                     expiry |-> Expiry(req[r]),
                     seen |-> IF Keeps(req[r]) THEN req[r].seen ELSE policies + 1]
    <2>3. ReqOK(q)
      BY <2>1, <2>2 DEF ReqOK
    <2>4. req' = [req EXCEPT ![r] = q] /\ clock' = clock
      BY DEF Resolve
    <2> HIDE DEF q
    <2> QED
      BY <2>3, <2>4, OneRequest DEF LimitInv
  <1> QED
    BY <1>1, <1>2 DEF LimitInv

\* A request that ends, or is told of the limit.
LEMMA EndInv ==
  ASSUME LimitInv, NEW r \in Requests,
         Decline(r) \/ Limited(r) \/ Exceeded(r) \/ Missed(r) \/ Refuse(r) \/ Done(r)
  PROVE  LimitInv'
  <1>1. UNCHANGED <<clock, file, ledger, policy, policies, draft, went, overtaken>>
    BY DEF Decline, Limited, Exceeded, Missed, Refuse, Done
  <1>2. TypeOK' /\ Past' /\ LedgerRemembers' /\ WithinLimit'
    BY <1>1, QuietInv
  <1>3. Requested'
    <2>1. ReqOK(req[r])
      BY DEF LimitInv, Requested
    <2>2. CASE Decline(r) \/ Missed(r) \/ Done(r)
      <3>1. req' = [req EXCEPT ![r] = [step |-> "idle"]]
        BY <2>2 DEF Decline, Missed, Done
      <3> QED
        BY <1>1, <3>1, OneRequest DEF LimitInv, ReqOK
    <2>3. CASE Limited(r) \/ Exceeded(r)
      <3>1. req' = [req EXCEPT ![r] = [step |-> "limited", now |-> req[r].now]]
        BY <2>3 DEF Limited, Exceeded
      <3>2. req[r].now = clock
        BY <2>1, <2>3 DEF Limited, Exceeded, ReqOK
      <3> QED
        BY <1>1, <3>1, <3>2, OneRequest DEF LimitInv, ReqOK
    <2>4. CASE Refuse(r)
      <3>1. req' = [req EXCEPT ![r] = [step |-> "refused", retry |-> Retry(req[r].now)]]
        BY <2>4 DEF Refuse
      <3> QED
        BY <1>1, <3>1, OneRequest DEF LimitInv, ReqOK
    <2> QED
      BY <2>2, <2>3, <2>4
  <1> QED
    BY <1>2, <1>3 DEF LimitInv

-----------------------------------------------------------------------------
(* The ledger                                                              *)

LEMMA CountedFinite ==
  ASSUME NEW now
  PROVE  IsFiniteSet(Counted(now)) /\ Cardinality(Counted(now)) \in Nat
  <1>1. Counted(now) \subseteq Files
    BY DEF Counted
  <1> QED
    BY <1>1, PublicationAssumption, FS_Subset, FS_CardinalityType

\* What became reachable within the window that ends now, the ledger counts.
LEMMA WentCounted ==
  ASSUME LimitInv
  PROVE  {f \in Files : \E s \in Window .. clock : <<f, s>> \in went /\ s + Window > clock}
           \subseteq Counted(clock)
  <1> SUFFICES ASSUME NEW f \in Files, NEW s \in Window .. clock,
                      <<f, s>> \in went, s + Window > clock
               PROVE  f \in Counted(clock)
    OBVIOUS
  <1>1. ledger[f] # Never /\ ledger[f] >= s
    BY DEF LimitInv, LedgerRemembers
  <1>2. ledger[f] \in Nat /\ clock \in Nat /\ s \in Nat /\ Window \in Nat
    BY BoundsTyped DEF LimitInv, TypeOK
  <1> QED
    BY <1>1, <1>2 DEF Counted

\* A commit that publishes adds one file to a ledger with room, at this tick.
LEMMA PublishInv ==
  ASSUME LimitInv, NEW f \in Files, clock' = clock,
         Cardinality(Counted(clock)) < Limit,
         ledger' = [ledger EXCEPT ![f] = Max({@, clock})],
         went' = went \union {<<f, clock>>}
  PROVE  Past' /\ LedgerRemembers' /\ WithinLimit'
  <1>0. clock \in Window .. MaxTime /\ ledger[f] \in Nat
    BY BoundsTyped DEF LimitInv, TypeOK
  <1>1. Past'
    BY <1>0, BoundsTyped DEF LimitInv, Past
  <1>2. LedgerRemembers'
    <2> SUFFICES ASSUME NEW g \in Files, NEW s \in Window .. clock,
                        <<g, s>> \in went', s + Window > clock
                 PROVE  ledger'[g] # Never /\ ledger'[g] >= s
      BY DEF LedgerRemembers
    <2>1. CASE g = f
      <3>1. ledger'[g] = Max({ledger[f], clock})
        BY <2>1 DEF LimitInv, TypeOK
      <3>2. ledger'[g] >= clock /\ ledger'[g] \in {ledger[f], clock}
        <4>1. ledger[f] \in Int /\ clock \in Int
          BY <1>0, BoundsTyped
        <4> QED
          BY <3>1, <4>1, MaxOfTwo
      <3> QED
        BY <3>2, <1>0, BoundsTyped
    <2>2. CASE g # f
      <3>1. ledger'[g] = ledger[g] /\ <<g, s>> \in went
        BY <2>2 DEF LimitInv, TypeOK
      <3> QED
        BY <3>1 DEF LimitInv, LedgerRemembers
    <2> QED
      BY <2>1, <2>2
  <1>3. WithinLimit'
    <2> SUFFICES ASSUME NEW t \in Window .. clock
                 PROVE  Cardinality({g \in Files : \E s \in Window .. t :
                                       <<g, s>> \in went' /\ s + Window > t}) <= Limit
      BY DEF WithinLimit
    <2>1. CASE t = clock
      <3> DEFINE New == {g \in Files : \E s \in Window .. t : <<g, s>> \in went' /\ s + Window > t}
                 Room == Counted(clock) \union {f}
      <3>1. New \subseteq Room
        BY <2>1, WentCounted
      <3>2. IsFiniteSet(Room)
        BY CountedFinite, FS_AddElement
      <3>3. Cardinality(Room) <= Cardinality(Counted(clock)) + 1 /\ Cardinality(Room) \in Nat
        <4>1. Cardinality(Room) = IF f \in Counted(clock) THEN Cardinality(Counted(clock))
                                  ELSE Cardinality(Counted(clock)) + 1
          BY CountedFinite, FS_AddElement
        <4> QED
          BY <4>1, CountedFinite
      <3>4. Cardinality(New) <= Cardinality(Room) /\ Cardinality(New) \in Nat
        BY <3>1, <3>2, FS_Subset, FS_CardinalityType
      <3> HIDE DEF New, Room
      <3>5. Cardinality(New) <= Limit
        BY <3>3, <3>4, CountedFinite, BoundsTyped
      <3> QED
        BY <3>5 DEF New
    <2>2. CASE t # clock
      <3>1. ASSUME NEW g \in Files, NEW s \in Window .. t
            PROVE  <<g, s>> \in went' <=> <<g, s>> \in went
        BY <2>2, <1>0, BoundsTyped
      <3>2. {g \in Files : \E s \in Window .. t : <<g, s>> \in went' /\ s + Window > t}
            = {g \in Files : \E s \in Window .. t : <<g, s>> \in went /\ s + Window > t}
        BY <3>1
      <3> QED
        BY <3>2 DEF LimitInv, WithinLimit
    <2> QED
      BY <2>1, <2>2
  <1> QED
    BY <1>1, <1>2, <1>3

LEMMA CommitInv ==
  ASSUME LimitInv, NEW r \in Requests, Commit(r)
  PROVE  LimitInv'
  <1> DEFINE q == req[r]
  <1>0. /\ ReqOK(q) /\ q.step = "commit"
        /\ q.file \in Files /\ q.now = clock /\ q.next \in Visibilities /\ q.expiry \in 1 .. Forever
    BY DEF LimitInv, Requested, ReqOK, Commit
  <1>1. UNCHANGED <<clock, policy, policies, draft>> /\ overtaken' \subseteq Files
    BY <1>0 DEF Commit, LimitInv, TypeOK
  <1>2. Requested'
    <2>1. req' = [req EXCEPT ![r] = [step |-> "idle"]]
      BY DEF Commit
    <2> QED
      BY <1>1, <2>1, OneRequest DEF LimitInv, ReqOK
  <1>3. file' \in [Files -> [vis: Visibilities, expires: 1 .. Forever]]
    <2>1. Vis(q) \in Visibilities
      BY <1>0 DEF Vis, LimitInv, TypeOK, Visibilities
    <2>2. file \in [Files -> [vis: Visibilities, expires: 1 .. Forever]]
      BY DEF LimitInv, TypeOK, Visibilities
    <2>3. file' = IF Writes(q) THEN [file EXCEPT ![q.file] = [vis |-> Vis(q), expires |-> q.expiry]] ELSE file
      BY DEF Commit
    <2> HIDE DEF q
    <2> QED
      BY <1>0, <2>1, <2>2, <2>3
  <1>4. CASE ~Publishes(q)
    <2>1. ledger' = ledger /\ went' = went
      BY <1>4 DEF Commit
    <2>2. TypeOK'
      BY <1>1, <1>3, <2>1 DEF LimitInv, TypeOK, Visibilities
    <2>3. Past' /\ LedgerRemembers'
      BY <1>1, <2>1 DEF LimitInv, Past, LedgerRemembers
    <2>4. WithinLimit'
      BY <1>1, <2>1 DEF LimitInv, WithinLimit
    <2> QED
      BY <1>2, <2>2, <2>3, <2>4 DEF LimitInv
  <1>5. CASE Publishes(q)
    <2>1. /\ ledger' = [ledger EXCEPT ![q.file] = Max({@, clock})]
          /\ went' = went \union {<<q.file, clock>>}
      BY <1>0, <1>5 DEF Commit
    <2>2. Cardinality(Counted(clock)) < Limit
      <3>1. ~(Cardinality(Counted(clock)) >= Limit)
        BY <1>0, <1>5 DEF Commit, Exceeds
      <3> QED
        BY <3>1, CountedFinite, BoundsTyped
    <2>3. Past' /\ LedgerRemembers' /\ WithinLimit'
      BY <1>0, <1>1, <2>1, <2>2, PublishInv
    <2>4. clock \in Window .. MaxTime /\ ledger[q.file] \in Int /\ clock \in Int
      BY <1>0, BoundsTyped DEF LimitInv, TypeOK
    <2>5. Max({ledger[q.file], clock}) \in {ledger[q.file], clock}
      BY <2>4, MaxOfTwo
    <2>6. ledger' \in [Files -> {Never} \union (Window .. MaxTime)]
      BY <1>0, <2>1, <2>4, <2>5 DEF LimitInv, TypeOK
    <2>7. went' \subseteq Files \X (Window .. MaxTime)
      BY <1>0, <2>1, <2>4 DEF LimitInv, TypeOK
    <2>8. TypeOK'
      BY <1>1, <1>3, <2>6, <2>7 DEF LimitInv, TypeOK, Visibilities
    <2> QED
      BY <1>2, <2>3, <2>8 DEF LimitInv
  <1> QED
    BY <1>4, <1>5

-----------------------------------------------------------------------------
(* Around the requests                                                     *)

LEMMA DeleteInv ==
  ASSUME LimitInv, NEW f \in Files, Delete(f)
  PROVE  LimitInv'
  <1>1. TypeOK'
    BY DEF LimitInv, TypeOK, Delete
  <1>2. Requested'
    BY DEF LimitInv, Requested, ReqOK, Delete
  <1>3. Past' /\ LedgerRemembers'
    BY DEF LimitInv, Past, LedgerRemembers, Delete
  <1>4. WithinLimit'
    BY DEF LimitInv, WithinLimit, Delete
  <1> QED
    BY <1>1, <1>2, <1>3, <1>4 DEF LimitInv

LEMMA DraftInv ==
  ASSUME LimitInv, NEW w \in Editors, NEW p \in Policies, Draft(w, p)
  PROVE  LimitInv'
  <1>1. TypeOK'
    BY DEF LimitInv, TypeOK, Draft, Policies
  <1>2. Requested'
    BY DEF LimitInv, Requested, ReqOK, Draft
  <1>3. Past' /\ LedgerRemembers'
    BY DEF LimitInv, Past, LedgerRemembers, Draft
  <1>4. WithinLimit'
    BY DEF LimitInv, WithinLimit, Draft
  <1> QED
    BY <1>1, <1>2, <1>3, <1>4 DEF LimitInv

LEMMA SetPolicyInv ==
  ASSUME LimitInv, NEW w \in Editors, SetPolicy(w)
  PROVE  LimitInv'
  <1> DEFINE max == draft[w].next.max
  <1>0. draft[w].next \in Policies /\ draft[w].before \in AllTerms /\ max \in AllTerms
    BY DEF SetPolicy, Drafting, LimitInv, TypeOK, Policies
  <1>1. TypeOK'
    <2>1. CASE Lowers(draft[w])
      <3>1. max \in 1 .. Forever /\ max < MaxTime + Window
        BY <1>0, <2>1, TermsTyped, BoundsTyped DEF Lowers
      <3>2. clock + max \in 1 .. Forever
        BY <3>1, BoundsTyped DEF LimitInv, TypeOK, Forever
      <3>3. ASSUME NEW f \in Files PROVE Min({file[f].expires, clock + max}) \in 1 .. Forever
        <4>1. file[f].expires \in 1 .. Forever
          BY DEF LimitInv, TypeOK
        <4>2. file[f].expires \in Int /\ clock + max \in Int
          BY <3>2, <4>1, BoundsTyped
        <4>3. Min({file[f].expires, clock + max}) \in {file[f].expires, clock + max}
          BY <4>2, MinOfTwo
        <4> QED
          BY <3>2, <4>1, <4>3
      <3>4. file' = [f \in Files |-> IF file[f].vis = "link"
                          THEN [file[f] EXCEPT !.expires = Min({@, clock + max})] ELSE file[f]]
        BY <2>1 DEF SetPolicy, Shortened
      <3>5. file' \in [Files -> [vis: {"absent", "link", "private", "deleted"}, expires: 1 .. Forever]]
        BY <3>3, <3>4 DEF LimitInv, TypeOK
      <3> QED
        BY <1>0, <3>5 DEF LimitInv, TypeOK, SetPolicy
    <2>2. CASE ~Lowers(draft[w])
      <3>1. file' = file
        BY <2>2 DEF SetPolicy, Shortened
      <3> QED
        BY <1>0, <3>1 DEF LimitInv, TypeOK, SetPolicy
    <2> QED
      BY <2>1, <2>2
  <1>2. Requested'
    BY DEF LimitInv, Requested, ReqOK, SetPolicy
  <1>3. Past' /\ LedgerRemembers'
    BY DEF LimitInv, Past, LedgerRemembers, SetPolicy
  <1>4. WithinLimit'
    BY DEF LimitInv, WithinLimit, SetPolicy
  <1> QED
    BY <1>1, <1>2, <1>3, <1>4 DEF LimitInv

LEMMA CleanupInv ==
  ASSUME LimitInv, Cleanup
  PROVE  LimitInv'
  <1>1. TypeOK'
    BY DEF LimitInv, TypeOK, Cleanup
  <1>2. Requested'
    BY DEF LimitInv, Requested, ReqOK, Cleanup
  <1>3. Past'
    BY DEF LimitInv, Past, Cleanup
  <1>4. LedgerRemembers'
    <2> SUFFICES ASSUME NEW f \in Files, NEW s \in Window .. clock,
                        <<f, s>> \in went, s + Window > clock
                 PROVE  ledger'[f] # Never /\ ledger'[f] >= s
      BY DEF LedgerRemembers, Cleanup
    <2>1. f \in Counted(clock)
      BY WentCounted
    <2>2. ledger'[f] = ledger[f]
      BY <2>1 DEF Cleanup
    <2> QED
      BY <2>2 DEF LimitInv, LedgerRemembers
  <1>5. WithinLimit'
    BY DEF LimitInv, WithinLimit, Cleanup
  <1> QED
    BY <1>1, <1>2, <1>3, <1>4, <1>5 DEF LimitInv

\* A later window has lost some files and won none.
LEMMA TickInv ==
  ASSUME LimitInv, Tick
  PROVE  LimitInv'
  <1>0. clock \in Window .. MaxTime /\ clock < MaxTime /\ clock' = clock + 1 /\ went' = went
    BY DEF LimitInv, TypeOK, Tick
  <1>1. TypeOK'
    BY <1>0, BoundsTyped DEF LimitInv, TypeOK, Tick
  <1>2. Requested'
    BY DEF LimitInv, Requested, ReqOK, Tick, Idle
  <1>3. Past'
    BY <1>0, BoundsTyped DEF LimitInv, Past
  <1>4. ASSUME NEW f \in Files, NEW s \in Window .. clock + 1, <<f, s>> \in went
        PROVE  s \in Window .. clock
    BY <1>4 DEF LimitInv, Past
  <1>5. LedgerRemembers'
    <2> SUFFICES ASSUME NEW f \in Files, NEW s \in Window .. clock + 1,
                        <<f, s>> \in went, s + Window > clock + 1
                 PROVE  ledger[f] # Never /\ ledger[f] >= s
      BY <1>0 DEF LedgerRemembers, Tick
    <2>1. s \in Window .. clock /\ s + Window > clock
      BY <1>0, <1>4, BoundsTyped
    <2> QED
      BY <2>1 DEF LimitInv, LedgerRemembers
  <1>6. WithinLimit'
    <2> SUFFICES ASSUME NEW t \in Window .. clock + 1
                 PROVE  Cardinality({f \in Files : \E s \in Window .. t :
                                       <<f, s>> \in went /\ s + Window > t}) <= Limit
      BY <1>0 DEF WithinLimit
    <2>1. CASE t \in Window .. clock
      BY <2>1 DEF LimitInv, WithinLimit
    <2>2. CASE t = clock + 1
      <3> DEFINE Later == {f \in Files : \E s \in Window .. t : <<f, s>> \in went /\ s + Window > t}
                 Now == {f \in Files : \E s \in Window .. clock : <<f, s>> \in went /\ s + Window > clock}
      <3>1. Later \subseteq Now
        BY <1>0, <1>4, <2>2, BoundsTyped
      <3>2. IsFiniteSet(Now) /\ Cardinality(Now) \in Nat
        BY PublicationAssumption, FS_Subset, FS_CardinalityType
      <3>3. Cardinality(Later) <= Cardinality(Now) /\ Cardinality(Later) \in Nat
        BY <3>1, <3>2, FS_Subset, FS_CardinalityType
      <3>4. Cardinality(Now) <= Limit
        <4>1. clock \in Window .. clock
          BY <1>0, BoundsTyped
        <4> QED
          BY <4>1 DEF LimitInv, WithinLimit
      <3> HIDE DEF Later, Now
      <3>5. Cardinality(Later) <= Limit
        BY <3>2, <3>3, <3>4, BoundsTyped
      <3> QED
        BY <3>5 DEF Later
    <2> QED
      BY <1>0, <2>1, <2>2, BoundsTyped
  <1> QED
    BY <1>1, <1>2, <1>3, <1>5, <1>6 DEF LimitInv

-----------------------------------------------------------------------------
LEMMA NextInv == LimitInv /\ [Next]_vars => LimitInv'
  <1> SUFFICES ASSUME LimitInv, [Next]_vars PROVE LimitInv'
    OBVIOUS
  <1>1. CASE \E r \in Requests : \E kind \in Kinds, f \in Files : Read(r, kind, f)
    BY <1>1, ReadInv
  <1>2. CASE \E r \in Requests : Resolve(r)
    BY <1>2, ResolveInv
  <1>3. CASE \E r \in Requests : Decline(r) \/ Limited(r) \/ Exceeded(r) \/ Missed(r) \/ Refuse(r) \/ Done(r)
    BY <1>3, EndInv
  <1>4. CASE \E r \in Requests : Commit(r)
    BY <1>4, CommitInv
  <1>5. CASE \E f \in Files : Delete(f)
    BY <1>5, DeleteInv
  <1>6. CASE \E w \in Editors : SetPolicy(w) \/ \E p \in Policies : Draft(w, p)
    BY <1>6, SetPolicyInv, DraftInv
  <1>7. CASE Cleanup
    BY <1>7, CleanupInv
  <1>8. CASE Tick
    BY <1>8, TickInv
  <1>9. CASE UNCHANGED vars
    <2>1. UNCHANGED <<clock, file, ledger, policy, policies, draft, went, overtaken>> /\ req' = req
      BY <1>9 DEF vars
    <2>2. TypeOK' /\ Past' /\ LedgerRemembers' /\ WithinLimit'
      BY <2>1, QuietInv
    <2>3. Requested'
      BY <2>1 DEF LimitInv, Requested, ReqOK
    <2> QED
      BY <2>2, <2>3 DEF LimitInv
  <1> QED
    BY <1>1, <1>2, <1>3, <1>4, <1>5, <1>6, <1>7, <1>8, <1>9 DEF Next

\* The ledger, the clock and the requests stay in step, and each ledger row
\* covers every publication that still counts.
THEOREM LedgerInvariant == Spec => []LimitInv
  <1>1. Init => LimitInv
    BY InitInv
  <1>2. LimitInv /\ [Next]_vars => LimitInv'
    BY NextInv
  <1> QED
    BY <1>1, <1>2, PTL DEF Spec

\* However many requests race for the last place, in no window do more files
\* become reachable by link than the limit allows.
THEOREM LimitHolds == Spec => []WithinLimit
  <1>1. LimitInv => WithinLimit
    BY DEF LimitInv
  <1> QED
    BY <1>1, LedgerInvariant, PTL

-----------------------------------------------------------------------------
(* The retry a refusal names                                               *)

LEMMA LeastOfNats ==
  ASSUME NEW S, S \subseteq Nat, S # {}
  PROVE  \E x \in S : \A y \in S : x <= y
  <1>1. PICK x \in S : \A y \in S : ~(<<y, x>> \in OpToRel(<, Nat))
    BY NatLessThanWellFounded, WFMin
  <1>2. ASSUME NEW y \in S PROVE x <= y
    <2>1. ~(y < x)
      BY <1>1 DEF OpToRel
    <2> QED
      BY <2>1
  <1> QED
    BY <1>2

LEMMA LatestOfBounded ==
  ASSUME NEW S, NEW b \in Nat, S \subseteq 0 .. b, S # {}
  PROVE  \E x \in S : \A y \in S : y <= x
  <1> DEFINE T == {b - y : y \in S}
  <1>1. T \subseteq Nat /\ T # {}
    OBVIOUS
  <1>2. PICK z \in T : \A y \in T : z <= y
    BY <1>1, LeastOfNats
  <1>3. PICK x \in S : z = b - x
    OBVIOUS
  <1>4. ASSUME NEW y \in S PROVE y <= x
    <2>1. z <= b - y
      BY <1>2
    <2> QED
      BY <1>3, <2>1
  <1> QED
    BY <1>4

\* A full ledger has an oldest row among its Limit latest; once that row has left
\* the window, fewer than Limit are left.
LEMMA RetrySuffices ==
  ASSUME LimitInv
  PROVE  Cardinality(Counted(clock + Retry(clock))) < Limit
  <1>0. clock \in Nat /\ \A f \in Files : ledger[f] \in 0 .. MaxTime
    BY BoundsTyped DEF LimitInv, TypeOK
  <1>1. CASE Cardinality(Counted(clock)) < Limit
    <2>1. Retry(clock) = 1
      BY <1>1 DEF Retry
    <2>2. Counted(clock + 1) \subseteq Counted(clock)
      BY <1>0, BoundsTyped DEF Counted
    <2>3. Cardinality(Counted(clock + 1)) <= Cardinality(Counted(clock))
      BY <2>2, CountedFinite, FS_Subset
    <2> QED
      BY <1>1, <2>1, <2>3, CountedFinite, BoundsTyped
  <1>2. CASE ~(Cardinality(Counted(clock)) < Limit)
    <2> DEFINE rows == {ledger[f] : f \in Counted(clock)}
               late == {ledger[f] : f \in Latest(clock)}
    <2>1. Counted(clock) # {}
      BY <1>2, FS_EmptySet, BoundsTyped
    <2>2. rows \subseteq 0 .. MaxTime /\ rows # {}
      BY <1>0, <2>1 DEF Counted
    <2>3. PICK f \in Counted(clock) : \A g \in Counted(clock) : ledger[g] <= ledger[f]
      BY <2>2, BoundsTyped, LatestOfBounded
    <2>4. f \in Latest(clock)
      <3>1. {g \in Counted(clock) : ledger[g] > ledger[f]} = {}
        BY <1>0, <2>3 DEF Counted
      <3> QED
        BY <3>1, FS_EmptySet, BoundsTyped DEF Latest
    <2>5. late \subseteq Nat /\ late # {}
      <3>1. Latest(clock) \subseteq Files
        BY DEF Latest, Counted
      <3> QED
        BY <1>0, <2>4, <3>1
    <2>6. Min(late) \in late
      <3>1. \E x \in late : \A y \in late : x =< y
        BY <2>5, LeastOfNats
      <3> HIDE DEF late
      <3> QED
        BY <3>1 DEF Min
    <2>7. PICK g \in Latest(clock) : Min(late) = ledger[g]
      BY <2>6
    <2> DEFINE wait == ledger[g] + Window - clock
    <2>8. Retry(clock) \in Int /\ Retry(clock) >= wait
      <3>1. Retry(clock) = Max({1, wait})
        BY <1>2, <2>7 DEF Retry
      <3>2. 1 \in Int /\ wait \in Int
        BY <1>0, <2>7, BoundsTyped DEF Latest, Counted
      <3> HIDE DEF wait
      <3> QED
        BY <3>1, <3>2, MaxOfTwo
    <2>9. Counted(clock + Retry(clock)) \subseteq {h \in Counted(clock) : ledger[h] > ledger[g]}
      <3> SUFFICES ASSUME NEW h \in Files, ledger[h] # Never,
                          ledger[h] + Window > clock + Retry(clock)
                   PROVE  h \in Counted(clock) /\ ledger[h] > ledger[g]
        BY DEF Counted
      <3>1. /\ g \in Files /\ ledger[g] + Window > clock
            /\ ledger[g] \in Nat /\ ledger[h] \in Nat /\ Window \in Nat
        BY <1>0, <2>7, BoundsTyped DEF Latest, Counted
      <3>2. ledger[h] > ledger[g] /\ ledger[h] + Window > clock
        BY <1>0, <2>8, <3>1
      <3> QED
        BY <3>2 DEF Counted
    <2>10. Cardinality({h \in Counted(clock) : ledger[h] > ledger[g]}) < Limit
      BY DEF Latest
    <2>11. IsFiniteSet({h \in Counted(clock) : ledger[h] > ledger[g]})
      BY CountedFinite, FS_Subset
    <2>12. Cardinality(Counted(clock + Retry(clock)))
             <= Cardinality({h \in Counted(clock) : ledger[h] > ledger[g]})
      BY <2>9, <2>11, FS_Subset
    <2>13. Cardinality({h \in Counted(clock) : ledger[h] > ledger[g]}) \in Nat
      BY <2>11, FS_CardinalityType
    <2> HIDE DEF rows, late, wait
    <2> QED
      BY <2>10, <2>12, <2>13, CountedFinite, BoundsTyped
  <1> QED
    BY <1>1, <1>2

LEMMA RefusalSuffices ==
  ASSUME LimitInv, [Next]_vars
  PROVE  RetryIsEnough
  <1> SUFFICES ASSUME NEW r \in Requests, req[r].step = "limited", req'[r].step = "refused"
               PROVE  Cardinality(Counted(clock + req'[r].retry)) < Limit
    BY DEF RetryIsEnough
  <1>1. Refuse(r)
    <2>1. CASE \E s \in Requests : Refuse(s)
      <3>1. PICK s \in Requests : Refuse(s)
        BY <2>1
      <3>2. s = r
        BY <3>1 DEF Refuse, LimitInv, Requested
      <3> QED
        BY <3>1, <3>2
    <2>2. CASE \E s \in Requests : (\E kind \in Kinds, f \in Files : Read(s, kind, f)) \/ Resolve(s)
      BY <2>2 DEF Read, Resolve, LimitInv, Requested
    <2>3. CASE \E s \in Requests : Decline(s) \/ Limited(s) \/ Commit(s) \/ Exceeded(s) \/ Missed(s) \/ Done(s)
      BY <2>3 DEF Decline, Limited, Commit, Exceeded, Missed, Done, LimitInv, Requested
    <2>4. CASE \/ \E f \in Files : Delete(f)
               \/ \E w \in Editors : SetPolicy(w) \/ \E p \in Policies : Draft(w, p)
               \/ Cleanup
               \/ Tick
               \/ UNCHANGED vars
      BY <2>4 DEF Delete, SetPolicy, Draft, Cleanup, Tick, vars
    <2> QED
      BY <2>1, <2>2, <2>3, <2>4 DEF Next
  <1>2. req[r].now = clock
    BY DEF LimitInv, Requested, ReqOK
  <1>3. req'[r].retry = Retry(clock)
    BY <1>1, <1>2 DEF Refuse, LimitInv, Requested
  <1> QED
    BY <1>3, RetrySuffices

\* Whoever is refused a publication and waits for as long as the answer says finds
\* room, if nobody else publishes meanwhile.
THEOREM RetriesSuffice == Spec => [][RetryIsEnough]_vars
  <1>1. LimitInv /\ [Next]_vars => RetryIsEnough
    BY RefusalSuffices
  <1> QED
    BY <1>1, LedgerInvariant, PTL DEF Spec

-----------------------------------------------------------------------------
(* The ends of links                                                       *)

\* What a request that no change has overtaken holds is within the maximum.
Ends(q) ==
    q.step \in {"resolve", "commit"} =>
      /\ q.seen \in 0 .. policies + 1
      /\ q.kind \in {"expiry", "reopen"} => q.next = "link"
      /\ q.seen = policies + 1 =>
           /\ (q.step = "resolve" /\ q.vis = "link") => q.expires <= After(clock, policy.max)
           /\ (q.step = "commit" /\ q.kind # "rename" /\ q.next = "link")
                => q.expiry <= After(clock, policy.max)

\* A change that no other has overtaken read the maximum there is.
DraftsCurrent ==
    \A w \in Editors : Drafting(w) =>
       draft[w].seen <= policies /\ (draft[w].seen = policies => draft[w].before = policy.max)

TermsInv == LimitInv /\ LinksWithinMax /\ DraftsCurrent /\ \A r \in Requests : Ends(req[r])

LEMMA LongerTerm ==
  ASSUME NEW now \in Window .. MaxTime, NEW a \in AllTerms, NEW b \in AllTerms, a <= b
  PROVE  After(now, a) <= After(now, b)
  <1>1. CASE b = Forever
    BY <1>1, AfterTyped, BoundsTyped DEF After
  <1>2. CASE b # Forever
    BY <1>2, TermsTyped, BoundsTyped DEF After
  <1> QED
    BY <1>1, <1>2

\* A step of a request that leaves links, policies and the clock alone.
LEMMA OneEnds ==
  ASSUME TermsInv, LimitInv', NEW r \in Requests, NEW q, req' = [req EXCEPT ![r] = q], Ends(q),
         UNCHANGED <<clock, policy, policies, draft>>
  PROVE  DraftsCurrent' /\ \A s \in Requests : Ends(req[s])'
  <1>1. DraftsCurrent'
    BY DEF TermsInv, DraftsCurrent, Drafting
  <1>2. ASSUME NEW s \in Requests PROVE Ends(req[s])'
    <2>1. CASE s = r
      BY <2>1 DEF TermsInv, LimitInv, Requested, Ends
    <2>2. CASE s # r
      BY <2>2 DEF TermsInv, LimitInv, Requested, Ends
    <2> QED
      BY <2>1, <2>2
  <1> QED
    BY <1>1, <1>2

LEMMA ReadTerms ==
  ASSUME TermsInv, LimitInv', NEW r \in Requests, NEW kind \in Kinds, NEW f \in Files, Read(r, kind, f)
  PROVE  TermsInv'
  <1>1. PICK ask \in Asks(kind), next \in Becomes(kind, f) :
          req' = [req EXCEPT ![r] =
            [step |-> "resolve", kind |-> kind, file |-> f, now |-> clock, ask |-> ask, next |-> next,
             vis |-> file[f].vis, expires |-> file[f].expires, seen |-> Seen(f)]]
    BY DEF Read
  <1> DEFINE q == [step |-> "resolve", kind |-> kind, file |-> f, now |-> clock, ask |-> ask, next |-> next,
                   vis |-> file[f].vis, expires |-> file[f].expires, seen |-> Seen(f)]
  <1>2. policies \in Nat
    BY DEF TermsInv, LimitInv, TypeOK
  <1>3. q.seen \in 0 .. policies + 1 /\ (q.seen = policies + 1 => f \notin overtaken)
    BY <1>2 DEF Seen, Never
  <1>4. kind \in {"expiry", "reopen"} => next = "link"
    BY DEF Becomes, Read, Fits
  <1>5. Ends(q)
    BY <1>3, <1>4 DEF Ends, TermsInv, LinksWithinMax
  <1>6. LinksWithinMax'
    BY DEF TermsInv, LinksWithinMax, Read
  <1> HIDE DEF q
  <1> QED
    BY <1>1, <1>5, <1>6, OneEnds DEF TermsInv, Read, q

LEMMA ResolveTerms ==
  ASSUME TermsInv, LimitInv', NEW r \in Requests, Resolve(r)
  PROVE  TermsInv'
  <1> DEFINE p == req[r]
             q == [step |-> "commit", kind |-> p.kind, file |-> p.file, now |-> p.now,
                   next |-> p.next, vis |-> p.vis, expires |-> p.expires, expiry |-> Expiry(p),
                   seen |-> IF Keeps(p) THEN p.seen ELSE policies + 1]
  <1>1. /\ ReqOK(p) /\ Ends(p) /\ p.step = "resolve" /\ Expiry(p) # Never
        /\ policies \in Nat /\ clock \in Window .. MaxTime /\ policy \in Policies
        /\ p.now = clock /\ p.ask \in AllTerms \union {Unasked}
    BY DEF TermsInv, LimitInv, Requested, Resolve, TypeOK, ReqOK
  <1>2. ASSUME q.seen = policies + 1, p.kind # "rename", p.next = "link"
        PROVE  Expiry(p) <= After(clock, policy.max)
    <2>1. CASE Keeps(p)
      BY <1>1, <1>2, <2>1 DEF Keeps, Expiry, Ends
    <2>2. CASE ~Keeps(p)
      <3> DEFINE term == IF p.ask = Unasked THEN policy.default ELSE p.ask
      <3>1. Granted(p) # Never /\ Expiry(p) = Granted(p)
        BY <1>1, <1>2, <2>2 DEF Expiry
      <3>2. term \in AllTerms /\ policy.max \in AllTerms /\ term <= policy.max
        BY <1>1, <3>1 DEF Granted, Policies
      <3>3. Granted(p) = After(clock, term)
        BY <1>1, <3>2 DEF Granted
      <3> QED
        BY <1>1, <3>1, <3>2, <3>3, LongerTerm
    <2> QED
      BY <2>1, <2>2
  <1>3. Ends(q)
    BY <1>1, <1>2 DEF Ends
  <1>4. req' = [req EXCEPT ![r] = q]
    BY DEF Resolve
  <1>5. LinksWithinMax'
    BY DEF TermsInv, LinksWithinMax, Resolve
  <1> HIDE DEF q
  <1> QED
    BY <1>3, <1>4, <1>5, OneEnds DEF TermsInv, Resolve

LEMMA EndTerms ==
  ASSUME TermsInv, LimitInv', NEW r \in Requests,
         Decline(r) \/ Limited(r) \/ Exceeded(r) \/ Missed(r) \/ Refuse(r) \/ Done(r)
  PROVE  TermsInv'
  <1>1. UNCHANGED <<clock, file, ledger, policy, policies, draft, went, overtaken>>
    BY DEF Decline, Limited, Exceeded, Missed, Refuse, Done
  <1>2. LinksWithinMax'
    BY <1>1 DEF TermsInv, LinksWithinMax
  <1>3. CASE Decline(r) \/ Missed(r) \/ Done(r)
    <2>1. req' = [req EXCEPT ![r] = [step |-> "idle"]]
      BY <1>3 DEF Decline, Missed, Done
    <2> QED
      BY <1>1, <1>2, <2>1, OneEnds DEF TermsInv, Ends
  <1>4. CASE Limited(r) \/ Exceeded(r)
    <2>1. req' = [req EXCEPT ![r] = [step |-> "limited", now |-> req[r].now]]
      BY <1>4 DEF Limited, Exceeded
    <2> QED
      BY <1>1, <1>2, <2>1, OneEnds DEF TermsInv, Ends
  <1>5. CASE Refuse(r)
    <2>1. req' = [req EXCEPT ![r] = [step |-> "refused", retry |-> Retry(req[r].now)]]
      BY <1>5 DEF Refuse
    <2> QED
      BY <1>1, <1>2, <2>1, OneEnds DEF TermsInv, Ends
  <1> QED
    BY <1>3, <1>4, <1>5

LEMMA CommitTerms ==
  ASSUME TermsInv, LimitInv', NEW r \in Requests, Commit(r)
  PROVE  TermsInv'
  <1> DEFINE q == req[r]
  <1>1. ReqOK(q) /\ Ends(q) /\ q.step = "commit" /\ q.file \in Files
    BY DEF TermsInv, LimitInv, Requested, ReqOK, Commit
  <1>2. UNCHANGED <<clock, policy, policies, draft>> /\ req' = [req EXCEPT ![r] = [step |-> "idle"]]
    BY DEF Commit
  <1>3. DraftsCurrent' /\ \A s \in Requests : Ends(req[s])'
    BY <1>2, OneEnds DEF Ends
  <1>4. ASSUME NEW f \in Files, f \notin overtaken', file'[f].vis = "link"
        PROVE  file'[f].expires <= After(clock, policy.max)
    <2>1. CASE Writes(q) /\ f = q.file
      <3>1. ~Overtaken(q) /\ file'[f] = [vis |-> Vis(q), expires |-> q.expiry]
        BY <1>1, <1>4, <2>1 DEF Commit, TermsInv, LimitInv, TypeOK
      <3>2. Vis(q) = "link"
        BY <1>4, <3>1
      <3>3. q.seen = policies + 1 /\ q.kind # "rename"
        BY <2>1, <3>1, <3>2 DEF Overtaken, Vis
      <3>4. q.next = "link"
        BY <1>1, <3>2, <3>3 DEF Vis, Ends
      <3> QED
        BY <1>1, <3>1, <3>3, <3>4 DEF Ends
    <2>2. CASE ~(Writes(q) /\ f = q.file)
      <3>1. file'[f] = file[f] /\ f \notin overtaken
        BY <1>1, <1>4, <2>2 DEF Commit, TermsInv, LimitInv, TypeOK
      <3> QED
        BY <1>4, <3>1 DEF TermsInv, LinksWithinMax
    <2> QED
      BY <2>1, <2>2
  <1> QED
    BY <1>2, <1>3, <1>4 DEF TermsInv, LinksWithinMax

LEMMA SetPolicyTerms ==
  ASSUME TermsInv, LimitInv', NEW w \in Editors, SetPolicy(w)
  PROVE  TermsInv'
  <1> DEFINE d == draft[w]
  <1>1. /\ d.next.max \in AllTerms /\ d.before \in AllTerms /\ policy.max \in AllTerms
        /\ d.seen \in Nat /\ policies \in Nat /\ clock \in Window .. MaxTime
        /\ UNCHANGED <<clock, req>> /\ policies' = policies + 1 /\ policy' = d.next
    BY DEF SetPolicy, Drafting, TermsInv, LimitInv, TypeOK, Policies
  <1>2. DraftsCurrent'
    <2> SUFFICES ASSUME NEW v \in Editors, draft'[v].step = "draft"
                 PROVE  draft'[v].seen < policies'
      BY <1>1 DEF DraftsCurrent, Drafting, LimitInv, TypeOK
    <2>1. draft'[v] = draft[v] /\ draft[v].step = "draft"
      BY DEF SetPolicy, TermsInv, LimitInv, TypeOK
    <2>2. draft[v].seen \in Nat /\ draft[v].seen <= policies
      BY <2>1 DEF TermsInv, DraftsCurrent, Drafting, LimitInv, TypeOK
    <2> QED
      BY <1>1, <2>1, <2>2
  <1>3. \A r \in Requests : Ends(req[r])'
    BY <1>1 DEF TermsInv, Ends
  <1>4. ASSUME NEW f \in Files, f \notin overtaken', file'[f].vis = "link"
        PROVE  file'[f].expires <= After(clock, d.next.max)
    <2>1. CASE Lowers(d)
      <3>1. d.next.max # Forever /\ After(clock, d.next.max) = clock + d.next.max
        BY <1>1, <2>1, TermsTyped, BoundsTyped DEF Lowers, After
      <3>2. file'[f] = IF file[f].vis = "link"
                       THEN [file[f] EXCEPT !.expires = Min({@, clock + d.next.max})] ELSE file[f]
        BY <2>1 DEF SetPolicy, Shortened
      <3>3. file'[f].expires = Min({file[f].expires, clock + d.next.max})
        BY <1>4, <3>2 DEF TermsInv, LimitInv, TypeOK
      <3>4. file[f].expires \in Int /\ clock + d.next.max \in Int
        BY <1>1, TermsTyped, BoundsTyped DEF TermsInv, LimitInv, TypeOK
      <3> QED
        BY <3>1, <3>3, <3>4, MinOfTwo
    <2>2. CASE ~Lowers(d)
      <3>1. d.seen = policies /\ overtaken' = overtaken /\ file' = file
        BY <1>4, <2>2 DEF SetPolicy, Shortened
      <3>2. d.before = policy.max
        BY <3>1 DEF TermsInv, DraftsCurrent, SetPolicy
      <3>3. policy.max <= d.next.max
        BY <1>1, <2>2, <3>2, TermsTyped DEF Lowers
      <3>4. file[f].expires <= After(clock, policy.max) /\ file[f].expires \in Int
        BY <1>4, <3>1, BoundsTyped DEF TermsInv, LinksWithinMax, LimitInv, TypeOK
      <3>5. After(clock, policy.max) <= After(clock, d.next.max)
        BY <1>1, <3>3, LongerTerm
      <3>6. After(clock, policy.max) \in Int /\ After(clock, d.next.max) \in Int
        BY <1>1, AfterTyped, BoundsTyped
      <3> QED
        BY <3>1, <3>4, <3>5, <3>6
    <2> QED
      BY <2>1, <2>2
  <1> QED
    BY <1>1, <1>2, <1>3, <1>4 DEF TermsInv, LinksWithinMax

LEMMA DraftTerms ==
  ASSUME TermsInv, LimitInv', NEW w \in Editors, NEW p \in Policies, Draft(w, p)
  PROVE  TermsInv'
  <1>1. /\ UNCHANGED <<clock, file, policy, policies, req, overtaken>> /\ policies \in Nat
        /\ draft' = [draft EXCEPT ![w] = [step |-> "draft", before |-> policy.max, next |-> p,
                                         seen |-> policies]]
    BY DEF Draft, TermsInv, LimitInv, TypeOK
  <1>2. DraftsCurrent'
    <2> SUFFICES ASSUME NEW v \in Editors, Drafting(v)'
                 PROVE  (draft[v].seen <= policies /\ (draft[v].seen = policies => draft[v].before = policy.max))'
      BY DEF DraftsCurrent
    <2>1. CASE v = w
      BY <1>1, <2>1 DEF TermsInv, LimitInv, TypeOK
    <2>2. CASE v # w
      <3>1. draft'[v] = draft[v]
        BY <1>1, <2>2 DEF TermsInv, LimitInv, TypeOK
      <3> QED
        BY <1>1, <3>1 DEF TermsInv, DraftsCurrent, Drafting
    <2> QED
      BY <2>1, <2>2
  <1>3. LinksWithinMax' /\ \A r \in Requests : Ends(req[r])'
    BY <1>1 DEF TermsInv, LinksWithinMax, Ends
  <1> QED
    BY <1>2, <1>3 DEF TermsInv

LEMMA AroundTerms ==
  ASSUME TermsInv, LimitInv', (\E f \in Files : Delete(f)) \/ Cleanup \/ UNCHANGED vars
  PROVE  TermsInv'
  <1>1. UNCHANGED <<clock, policy, policies, draft, req, overtaken>>
    BY DEF Delete, Cleanup, vars
  <1>2. ASSUME NEW f \in Files, file'[f].vis = "link"
        PROVE  file'[f] = file[f]
    BY <1>2 DEF Delete, Cleanup, vars, TermsInv, LimitInv, TypeOK
  <1>3. LinksWithinMax'
    BY <1>1, <1>2 DEF TermsInv, LinksWithinMax
  <1>4. DraftsCurrent' /\ \A r \in Requests : Ends(req[r])'
    BY <1>1 DEF TermsInv, DraftsCurrent, Drafting, Ends
  <1> QED
    BY <1>3, <1>4 DEF TermsInv

LEMMA TickTerms ==
  ASSUME TermsInv, LimitInv', Tick
  PROVE  TermsInv'
  <1>1. /\ clock' = clock + 1 /\ clock \in Window .. MaxTime /\ policy.max \in AllTerms
        /\ UNCHANGED <<file, policy, policies, draft, req, overtaken>>
    BY DEF Tick, TermsInv, LimitInv, TypeOK, Policies
  <1>2. After(clock, policy.max) <= After(clock + 1, policy.max)
    BY <1>1, TermsTyped, BoundsTyped DEF After
  <1>3. LinksWithinMax'
    <2> SUFFICES ASSUME NEW f \in Files \ overtaken, file[f].vis = "link"
                 PROVE  file[f].expires <= After(clock + 1, policy.max)
      BY <1>1 DEF LinksWithinMax
    <2>1. file[f].expires <= After(clock, policy.max) /\ file[f].expires \in Int
      BY BoundsTyped DEF TermsInv, LinksWithinMax, LimitInv, TypeOK
    <2> QED
      BY <1>1, <1>2, <2>1, TermsTyped, BoundsTyped DEF After
  <1>4. DraftsCurrent' /\ \A r \in Requests : Ends(req[r])'
    BY <1>1 DEF DraftsCurrent, Drafting, Ends, Tick, Idle, TermsInv
  <1> QED
    BY <1>3, <1>4 DEF TermsInv

\* However requests and changes of the policy interleave, only the links that
\* something overtook outlast the maximum: a request that saw the policy of its
\* commit stays within it, and a lower maximum reaches every link there is.
THEOREM TermsHold == Spec => []LinksWithinMax
  <1>1. Init => TermsInv
    <2> SUFFICES ASSUME Init PROVE TermsInv
      OBVIOUS
    <2>1. LimitInv
      BY InitInv
    <2>2. LinksWithinMax /\ DraftsCurrent /\ \A r \in Requests : Ends(req[r])
      BY DEF Init, LinksWithinMax, DraftsCurrent, Drafting, Ends
    <2> QED
      BY <2>1, <2>2 DEF TermsInv
  <1>2. TermsInv /\ [Next]_vars => TermsInv'
    <2> SUFFICES ASSUME TermsInv, [Next]_vars PROVE TermsInv'
      OBVIOUS
    <2>1. LimitInv'
      BY NextInv DEF TermsInv
    <2>2. CASE \E r \in Requests :
                 \/ \E kind \in Kinds, f \in Files : Read(r, kind, f)
                 \/ Resolve(r) \/ Decline(r) \/ Limited(r)
                 \/ Commit(r) \/ Exceeded(r) \/ Missed(r) \/ Refuse(r) \/ Done(r)
      BY <2>1, <2>2, ReadTerms, ResolveTerms, EndTerms, CommitTerms
    <2>3. CASE \E w \in Editors : SetPolicy(w) \/ \E p \in Policies : Draft(w, p)
      BY <2>1, <2>3, SetPolicyTerms, DraftTerms
    <2>4. CASE Tick
      BY <2>1, <2>4, TickTerms
    <2> QED
      BY <2>1, <2>2, <2>3, <2>4, AroundTerms DEF Next
  <1>3. TermsInv => LinksWithinMax
    BY DEF TermsInv
  <1> QED
    BY <1>1, <1>2, <1>3, PTL DEF Spec

-----------------------------------------------------------------------------
(* LinkModeration                                                          *)

Versions == 0 .. MaxChanges
Owners == Humans \union {Bot}
Move == [move: Pauses!Moves, to: Humans \union {Pauses!Nobody}, address: Versions, changes: Versions]

Looking == [step: {"recipients"}, move: Pauses!Moves, owner: Owners, changes: Versions,
            address: Versions, notify: BOOLEAN]
Recording == [step: {"batch"}, move: Pauses!Moves, owner: Owners, changes: Versions,
              address: Versions, notify: BOOLEAN, to: Humans \union {Pauses!Nobody}]
Telling == [step: {"recheck"}, move: Pauses!Moves, owner: Owners, to: Humans,
            address: Versions, event: Nat]
Sending == [step: {"send"}, owner: Owners, to: Humans, event: Nat, address: Versions]
Appealing == [step: {"insert"}, by: Humans, now: Nat]

\* The notice under way is about a recorded move, at the address of its record.
AboutMove(q) == q.event \in DOMAIN log /\ q.address = log[q.event].address

\* What a request knows, by its step.
Known(q) ==
  \/ q = Pauses!Idle
  \/ q \in Looking
  \/ q \in Recording
  \/ q \in Telling /\ AboutMove(q)
  \/ q \in Sending /\ AboutMove(q) /\ (q.owner # Bot => q.to \in since[q.event])

StateTypes ==
  /\ art \in [here: BOOLEAN, link: BOOLEAN, owner: Owners]
  /\ paused \in BOOLEAN
  /\ boss \in Humans
  /\ changes \in Versions
  /\ address \in [Humans -> Nat]
  /\ \A h \in Humans : address[h] <= changes
  /\ clock \in Nat
  /\ appealed \subseteq Nat

RecordTypes ==
  /\ log \in Seq(Move)
  /\ since \in Seq(SUBSET Owners)
  /\ Len(since) = Len(log)
  /\ op \in [Operators -> {Pauses!Idle} \union Looking \union Recording \union Telling \union Sending]
  /\ appeal \in [Appeals -> {Pauses!Idle} \union Appealing]

\* Whoever owns the artifact now is among its owners since every move.
OwnedSince == \A e \in DOMAIN since : art.owner \in since[e]

NoticesTrue ==
  \A n \in told :
    /\ n \in [to: Humans, address: Versions, event: Nat, reason: BOOLEAN]
    /\ AboutMove(n)
    /\ n.reason => n.to \in since[n.event]

ModerationInv ==
  /\ StateTypes
  /\ RecordTypes
  /\ \A o \in Operators : Known(op[o])
  /\ OwnedSince
  /\ NoticesTrue
  /\ Pauses!RecordIsHistory
  /\ Pauses!AppealsSpaced

-----------------------------------------------------------------------------
\* Whether a number is odd changes with each step.
LEMMA Parity == \A n \in Nat : (n + 1) % 2 = 1 <=> ~(n % 2 = 1)
OBVIOUS

(* Steps that leave most of the invariant alone.                           *)

\* What a record says stays when it gets more owners, and nothing else of it changes.
LEMMA AroundRequests ==
  ASSUME ModerationInv, StateTypes', OwnedSince',
         UNCHANGED <<paused, log, appealed, op, appeal, told>>,
         since' \in Seq(SUBSET Owners), Len(since') = Len(since),
         \A e \in DOMAIN since : since[e] \subseteq since'[e]
  PROVE  ModerationInv'
<1>0. DOMAIN since = DOMAIN log /\ DOMAIN since' = DOMAIN log
  BY DEF ModerationInv, RecordTypes
<1>1. RecordTypes'
  BY DEF ModerationInv, RecordTypes
<1>2. ASSUME NEW o \in Operators PROVE Known(op[o])'
  <2>1. Known(op[o])
    BY DEF ModerationInv
  <2>. DEFINE q == op[o]
  <2>2. CASE q = Pauses!Idle \/ q \in Looking \/ q \in Recording
    BY <2>2 DEF Known
  <2>3. CASE q \in Telling /\ AboutMove(q)
    BY <2>3 DEF Known, AboutMove
  <2>4. CASE q \in Sending /\ AboutMove(q) /\ (q.owner # Bot => q.to \in since[q.event])
    <3>1. q.event \in DOMAIN since
      BY <2>4, <1>0 DEF AboutMove
    <3>2. q.owner # Bot => q.to \in since'[q.event]
      BY <3>1, <2>4
    <3>. QED BY <2>4, <3>2 DEF Known, AboutMove
  <2>. QED BY <2>1, <2>2, <2>3, <2>4 DEF Known
<1>3. NoticesTrue'
  <2>. SUFFICES ASSUME NEW n \in told
       PROVE  /\ n \in [to: Humans, address: Versions, event: Nat, reason: BOOLEAN]
              /\ AboutMove(n)' /\ (n.reason => n.to \in since'[n.event])
    BY DEF NoticesTrue
  <2>1. /\ n \in [to: Humans, address: Versions, event: Nat, reason: BOOLEAN]
        /\ AboutMove(n) /\ (n.reason => n.to \in since[n.event])
    BY DEF ModerationInv, NoticesTrue
  <2>2. n.event \in DOMAIN since
    BY <2>1, <1>0 DEF AboutMove
  <2>. QED BY <2>1, <2>2 DEF AboutMove
<1>. QED BY <1>1, <1>2, <1>3 DEF ModerationInv, Pauses!RecordIsHistory, Pauses!AppealsSpaced

\* One request goes on, and knows what its step says.
LEMMA OneOperation ==
  ASSUME ModerationInv, NEW o \in Operators, NEW q, Known(q),
         op' = [op EXCEPT ![o] = q],
         UNCHANGED <<art, paused, Pauses!people, log, appealed, appeal, clock, changes, since,
         told>>
  PROVE  ModerationInv'
<1>1. StateTypes' /\ OwnedSince' /\ Pauses!RecordIsHistory' /\ Pauses!AppealsSpaced'
  BY DEF ModerationInv, StateTypes, OwnedSince, Pauses!RecordIsHistory, Pauses!AppealsSpaced,
     Pauses!people
<1>2. op \in [Operators -> {Pauses!Idle} \union Looking \union Recording \union Telling \union Sending]
  BY DEF ModerationInv, RecordTypes
<1>3. q \in {Pauses!Idle} \union Looking \union Recording \union Telling \union Sending
  BY DEF Known
<1>4. RecordTypes'
  BY <1>2, <1>3 DEF ModerationInv, RecordTypes
<1>5. ASSUME NEW p \in Operators PROVE Known(op'[p])
  BY <1>2 DEF ModerationInv
<1>6. ASSUME NEW p \in Operators PROVE Known(op[p])'
  BY <1>5 DEF Known, AboutMove
<1>7. NoticesTrue'
  BY DEF ModerationInv, NoticesTrue, AboutMove
<1>. QED BY <1>1, <1>4, <1>6, <1>7 DEF ModerationInv

-----------------------------------------------------------------------------
(* Each action preserves the invariant.                                    *)

LEMMA ModerationInit ==
  ASSUME Pauses!ModerationAssumption, Pauses!Init
  PROVE  ModerationInv
<1>1. StateTypes
  <2>1. art \in [here: BOOLEAN, link: BOOLEAN, owner: Owners] /\ boss \in Humans /\ paused \in BOOLEAN
    BY DEF Pauses!Init, Owners
  <2>2. changes \in Versions /\ clock \in Nat /\ appealed \subseteq Nat
    BY DEF Pauses!ModerationAssumption, Pauses!Init, Versions
  <2>3. address \in [Humans -> Nat] /\ \A h \in Humans : address[h] <= changes
    BY DEF Pauses!Init
  <2>. QED BY <2>1, <2>2, <2>3 DEF StateTypes
<1>2. RecordTypes
  BY DEF Pauses!Init, RecordTypes, Move
<1>3. \A o \in Operators : Known(op[o])
  BY DEF Pauses!Init, Known
<1>4. OwnedSince /\ NoticesTrue /\ Pauses!RecordIsHistory /\ Pauses!AppealsSpaced
  BY DEF Pauses!Init, OwnedSince, NoticesTrue, Pauses!RecordIsHistory, Pauses!AppealsSpaced
<1>. QED BY <1>1, <1>2, <1>3, <1>4 DEF ModerationInv

LEMMA BeginInv ==
  ASSUME Pauses!ModerationAssumption, ModerationInv, NEW o \in Operators, NEW move \in Pauses!Moves, Pauses!Begin(o, move)
  PROVE  ModerationInv'
<1>. DEFINE q == [step |-> "recipients", move |-> move, owner |-> art.owner, changes |-> changes,
                  address |-> IF art.owner = Bot THEN 0 ELSE address[art.owner],
                  notify |-> move = "suspend" \/ art.link]
<1>1. StateTypes
  BY DEF ModerationInv
<1>2. art.owner \in Owners /\ art.link \in BOOLEAN /\ changes \in Versions
  BY <1>1 DEF StateTypes
<1>3. (IF art.owner = Bot THEN 0 ELSE address[art.owner]) \in Versions
  <2>1. CASE art.owner = Bot
    BY <2>1 DEF Pauses!ModerationAssumption, Versions
  <2>2. CASE art.owner # Bot
    <3>1. art.owner \in Humans
      BY <2>2, <1>2 DEF Owners
    <3>2. address[art.owner] \in Nat /\ address[art.owner] <= changes
      BY <3>1, <1>1 DEF StateTypes
    <3>. QED BY <3>2, <2>2, <1>2 DEF Pauses!ModerationAssumption, Versions
  <2>. QED BY <2>1, <2>2
<1>4. q \in Looking
  BY <1>2, <1>3 DEF Looking
<1>5. Known(q)
  BY <1>4 DEF Known
<1>6. op' = [op EXCEPT ![o] = q]
  BY DEF Pauses!Begin
<1>. HIDE DEF q
<1>. QED BY <1>5, <1>6, OneOperation DEF Pauses!Begin

\* A step is in a request of that step only.
LEMMA StepOf ==
  ASSUME NEW q, Known(q)
  PROVE  /\ q.step = "recipients" => q \in Looking
         /\ q.step = "batch" => q \in Recording
         /\ q.step = "recheck" => q \in Telling /\ AboutMove(q)
         /\ q.step = "send" => /\ q \in Sending /\ AboutMove(q)
                               /\ q.owner # Bot => q.to \in since[q.event]
BY DEF Known, Pauses!Idle, Looking, Recording, Telling, Sending

LEMMA GatherInv ==
  ASSUME Pauses!ModerationAssumption, ModerationInv, NEW o \in Operators, Pauses!Gather(o)
  PROVE  ModerationInv'
<1>. DEFINE q == op[o]
            to == Pauses!Recipient(q)
            r == [step |-> "batch", move |-> q.move, owner |-> q.owner, changes |-> q.changes,
                  notify |-> q.notify, to |-> to,
                  address |-> IF q.owner = Bot /\ to = boss THEN address[boss] ELSE q.address]
<1>1. q \in Looking
  BY StepOf DEF ModerationInv, Pauses!Gather
<1>2. q.move \in Pauses!Moves /\ q.owner \in Owners /\ q.changes \in Versions /\ q.notify \in BOOLEAN
      /\ q.address \in Versions
  BY <1>1 DEF Looking
<1>3. boss \in Humans /\ address[boss] \in Versions
  BY DEF Pauses!ModerationAssumption, ModerationInv, StateTypes, Versions
<1>4. to \in Humans \union {Pauses!Nobody}
  BY <1>2, <1>3 DEF Pauses!Recipient, Owners
<1>5. (IF q.owner = Bot /\ to = boss THEN address[boss] ELSE q.address) \in Versions
  BY <1>2, <1>3
<1>6. op' = [op EXCEPT ![o] = r]
  BY DEF Pauses!Gather
<1>. HIDE DEF q, to
<1>7. r \in Recording
  BY <1>2, <1>4, <1>5 DEF Recording
<1>8. Known(r)
  BY <1>7 DEF Known
<1>. HIDE DEF r
<1>. QED BY <1>6, <1>8, OneOperation DEF Pauses!Gather

\* A move is recorded, and the owner of this moment is the first since it.
LEMMA RecordInv ==
  ASSUME ModerationInv, NEW o \in Operators, Pauses!Record(o)
  PROVE  ModerationInv'
<1>. DEFINE q == op[o]
            m == [move |-> q.move, to |-> IF q.notify THEN q.to ELSE Pauses!Nobody,
                  address |-> q.address, changes |-> q.changes]
            t == [step |-> "recheck", move |-> q.move, owner |-> q.owner, to |-> q.to,
                  address |-> q.address, event |-> Len(log) + 1]
            r == IF q.notify /\ q.to # Pauses!Nobody THEN t ELSE Pauses!Idle
<1>1. q \in Recording
  BY StepOf DEF ModerationInv, Pauses!Record
<1>2. q.move \in Pauses!Moves /\ q.owner \in Owners /\ q.changes \in Versions /\ q.notify \in BOOLEAN
      /\ q.address \in Versions /\ q.to \in Humans \union {Pauses!Nobody}
  BY <1>1 DEF Recording
<1>3. /\ log' = Append(log, m) /\ since' = Append(since, {art.owner})
      /\ paused' = (q.move = "suspend") /\ op' = [op EXCEPT ![o] = r]
      /\ UNCHANGED <<art, Pauses!people, appealed, appeal, clock, changes, told>>
      /\ Pauses!MayMove(q.move)
  BY DEF Pauses!Record
<1>. HIDE DEF q
<1>4. m \in Move
  BY <1>2 DEF Move
<1>5. /\ log \in Seq(Move) /\ since \in Seq(SUBSET Owners) /\ Len(since) = Len(log)
      /\ op \in [Operators -> {Pauses!Idle} \union Looking \union Recording \union Telling \union Sending]
      /\ appeal \in [Appeals -> {Pauses!Idle} \union Appealing]
      /\ art.owner \in Owners
  BY DEF ModerationInv, RecordTypes, StateTypes
<1>6. m.address = q.address /\ m.move = q.move
  OBVIOUS
<1>. HIDE DEF m
<1>7. /\ log' \in Seq(Move) /\ Len(log') = Len(log) + 1 /\ Len(log) \in Nat
      /\ log'[Len(log) + 1] = m
      /\ \A e \in DOMAIN log : e \in DOMAIN log' /\ log'[e] = log[e]
      /\ DOMAIN log' = DOMAIN log \union {Len(log) + 1}
  BY <1>3, <1>4, <1>5
<1>8. /\ since' \in Seq(SUBSET Owners) /\ Len(since') = Len(since) + 1
      /\ since'[Len(log) + 1] = {art.owner}
      /\ \A e \in DOMAIN log : since'[e] = since[e]
      /\ DOMAIN since' = DOMAIN log \union {Len(log) + 1} /\ DOMAIN since = DOMAIN log
  BY <1>3, <1>5
<1>9. StateTypes'
  <2>1. StateTypes
    BY DEF ModerationInv
  <2>. QED BY <1>3, <2>1 DEF StateTypes, Pauses!people
<1>10. r = Pauses!Idle \/ (r \in Telling /\ r.event \in DOMAIN log' /\ r.address = log'[r.event].address)
  <2>1. CASE ~(q.notify /\ q.to # Pauses!Nobody)
    BY <2>1
  <2>2. CASE q.notify /\ q.to # Pauses!Nobody
    <3>1. q.to \in Humans
      BY <2>2, <1>2
    <3>2. t \in Telling /\ t.event = Len(log) + 1 /\ t.address = q.address
      BY <3>1, <1>2, <1>7 DEF Telling
    <3>. HIDE DEF t
    <3>. QED BY <2>2, <3>2, <1>6, <1>7
  <2>. QED BY <2>1, <2>2
<1>. HIDE DEF r
<1>11. RecordTypes'
  <2>1. op' \in [Operators -> {Pauses!Idle} \union Looking \union Recording \union Telling \union Sending]
    BY <1>3, <1>5, <1>10
  <2>. QED BY <2>1, <1>3, <1>5, <1>7, <1>8 DEF RecordTypes
<1>12. ASSUME NEW p \in Operators PROVE Known(op[p])'
  <2>1. CASE p = o
    <3>1. op'[p] = r
      BY <2>1, <1>3, <1>5
    <3>2. r = Pauses!Idle \/ (r \in Telling /\ AboutMove(op[p])')
      BY <1>10, <3>1 DEF AboutMove
    <3>. QED BY <3>1, <3>2 DEF Known
  <2>2. CASE p # o
    <3>1. op'[p] = op[p] /\ Known(op[p])
      BY <2>2, <1>3, <1>5 DEF ModerationInv
    <3>. QED BY <3>1, <1>7, <1>8 DEF Known, AboutMove
  <2>. QED BY <2>1, <2>2
<1>13. OwnedSince'
  BY <1>3, <1>8 DEF ModerationInv, OwnedSince
<1>14. NoticesTrue'
  <2>. SUFFICES ASSUME NEW n \in told
       PROVE  /\ n \in [to: Humans, address: Versions, event: Nat, reason: BOOLEAN]
              /\ n.event \in DOMAIN log' /\ n.address = log'[n.event].address
              /\ n.reason => n.to \in since'[n.event]
    BY <1>3 DEF NoticesTrue, AboutMove
  <2>1. /\ n \in [to: Humans, address: Versions, event: Nat, reason: BOOLEAN]
        /\ n.event \in DOMAIN log /\ n.address = log[n.event].address
        /\ n.reason => n.to \in since[n.event]
    BY DEF ModerationInv, NoticesTrue, AboutMove
  <2>. QED BY <2>1, <1>7, <1>8
<1>15. Pauses!RecordIsHistory'
  <2>1. /\ \A i \in DOMAIN log : log[i].move = IF i % 2 = 1 THEN "suspend" ELSE "resume"
        /\ paused <=> Len(log) % 2 = 1
    BY DEF ModerationInv, Pauses!RecordIsHistory
  <2>2. q.move = IF paused THEN "resume" ELSE "suspend"
    BY <1>2, <1>3 DEF Pauses!Moves, Pauses!MayMove
  <2>3. (Len(log) + 1) % 2 = 1 <=> ~paused
    BY <2>1, <1>7, Parity
  <2>4. m.move = IF (Len(log) + 1) % 2 = 1 THEN "suspend" ELSE "resume"
    BY <2>2, <2>3, <1>6
  <2>5. \A i \in DOMAIN log' : log'[i].move = IF i % 2 = 1 THEN "suspend" ELSE "resume"
    BY <2>1, <2>4, <1>7
  <2>6. paused' <=> Len(log') % 2 = 1
    BY <2>2, <2>3, <1>3, <1>7
  <2>. QED BY <2>5, <2>6 DEF Pauses!RecordIsHistory
<1>16. Pauses!AppealsSpaced'
  BY <1>3 DEF ModerationInv, Pauses!AppealsSpaced
<1>. QED BY <1>9, <1>11, <1>12, <1>13, <1>14, <1>15, <1>16 DEF ModerationInv

LEMMA IdleAgain ==
  ASSUME ModerationInv, NEW o \in Operators, Pauses!Already(o) \/ Pauses!Break(o)
  PROVE  ModerationInv'
<1>1. Known(Pauses!Idle)
  BY DEF Known
<1>. QED BY <1>1, OneOperation DEF Pauses!Already, Pauses!Break

\* Who owns the artifact at the second look is among its owners since the move.
LEMMA RecheckInv ==
  ASSUME ModerationInv, NEW o \in Operators, Pauses!Recheck(o)
  PROVE  ModerationInv'
<1>. DEFINE q == op[o]
            s == [step |-> "send", owner |-> q.owner, to |-> q.to, event |-> q.event,
                  address |-> address[q.to]]
<1>1. q \in Telling /\ AboutMove(q)
  BY StepOf DEF ModerationInv, Pauses!Recheck
<1>2. q.owner \in Owners /\ q.to \in Humans /\ q.event \in Nat /\ q.address \in Versions
      /\ q.event \in DOMAIN log /\ q.address = log[q.event].address
  BY <1>1 DEF Telling, AboutMove
<1>3. DOMAIN since = DOMAIN log
  BY DEF ModerationInv, RecordTypes
<1>4. op' = [op EXCEPT ![o] = IF Pauses!Stands(q) THEN s ELSE Pauses!Idle]
      /\ UNCHANGED <<art, paused, Pauses!people, log, appealed, appeal, clock, changes, faults, since, told>>
  BY DEF Pauses!Recheck
<1>. HIDE DEF q
<1>5. CASE Pauses!Stands(q)
  <2>1. address[q.to] = q.address /\ (q.owner # Bot => art.owner = q.to)
    BY <1>5 DEF Pauses!Stands
  <2>2. q.owner # Bot => q.to \in since[q.event]
    BY <2>1, <1>2, <1>3 DEF ModerationInv, OwnedSince
  <2>3. s \in Sending /\ AboutMove(s) /\ (s.owner # Bot => s.to \in since[s.event])
    BY <2>1, <2>2, <1>2 DEF Sending, AboutMove
  <2>4. Known(s)
    BY <2>3 DEF Known
  <2>5. op' = [op EXCEPT ![o] = s]
    BY <1>4, <1>5
  <2>. HIDE DEF s
  <2>. QED BY <2>4, <2>5, <1>4, OneOperation
<1>6. CASE ~Pauses!Stands(q)
  <2>1. op' = [op EXCEPT ![o] = Pauses!Idle]
    BY <1>4, <1>6
  <2>2. Known(Pauses!Idle)
    BY DEF Known
  <2>. QED BY <2>1, <2>2, <1>4, OneOperation
<1>. QED BY <1>5, <1>6

LEMMA SendInv ==
  ASSUME ModerationInv, NEW o \in Operators, Pauses!Send(o)
  PROVE  ModerationInv'
<1>. DEFINE q == op[o]
            n == [to |-> q.to, address |-> q.address, event |-> q.event, reason |-> q.owner # Bot]
<1>1. q \in Sending /\ AboutMove(q) /\ (q.owner # Bot => q.to \in since[q.event])
  BY StepOf DEF ModerationInv, Pauses!Send
<1>2. q.to \in Humans /\ q.address \in Versions /\ q.event \in Nat
      /\ q.event \in DOMAIN log /\ q.address = log[q.event].address
  BY <1>1 DEF Sending, AboutMove
<1>3. told' = told \union {n} /\ op' = [op EXCEPT ![o] = Pauses!Idle]
      /\ UNCHANGED <<art, paused, Pauses!people, log, appealed, appeal, clock, changes, faults, since>>
  BY DEF Pauses!Send
<1>. HIDE DEF q
<1>4. /\ n \in [to: Humans, address: Versions, event: Nat, reason: BOOLEAN]
      /\ AboutMove(n) /\ (n.reason => n.to \in since[n.event])
  BY <1>1, <1>2 DEF AboutMove
<1>. HIDE DEF n
<1>5. NoticesTrue'
  BY <1>3, <1>4 DEF ModerationInv, NoticesTrue, AboutMove
<1>6. StateTypes' /\ OwnedSince' /\ Pauses!RecordIsHistory' /\ Pauses!AppealsSpaced'
  BY <1>3 DEF ModerationInv, StateTypes, OwnedSince, Pauses!RecordIsHistory,
     Pauses!AppealsSpaced, Pauses!people
<1>7. op \in [Operators -> {Pauses!Idle} \union Looking \union Recording \union Telling \union Sending]
  BY DEF ModerationInv, RecordTypes
<1>8. RecordTypes'
  BY <1>3, <1>7 DEF ModerationInv, RecordTypes
<1>9. ASSUME NEW p \in Operators PROVE Known(op[p])'
  BY <1>3, <1>7 DEF ModerationInv, Known, AboutMove
<1>. QED BY <1>5, <1>6, <1>8, <1>9 DEF ModerationInv

LEMMA PreflightInv ==
  ASSUME ModerationInv, NEW a \in Appeals, NEW h \in Humans, Pauses!Preflight(a, h)
  PROVE  ModerationInv'
<1>. DEFINE q == [step |-> "insert", by |-> h, now |-> clock]
<1>1. q \in Appealing
  BY DEF ModerationInv, StateTypes, Appealing
<1>2. appeal \in [Appeals -> {Pauses!Idle} \union Appealing]
  BY DEF ModerationInv, RecordTypes
<1>3. appeal' = [appeal EXCEPT ![a] = q]
      /\ UNCHANGED <<art, paused, Pauses!people, log, appealed, op, clock, changes, faults, since, told>>
  BY DEF Pauses!Preflight
<1>. HIDE DEF q
<1>4. RecordTypes'
  BY <1>1, <1>2, <1>3 DEF ModerationInv, RecordTypes
<1>5. StateTypes' /\ OwnedSince' /\ Pauses!RecordIsHistory' /\ Pauses!AppealsSpaced' /\ NoticesTrue'
  BY <1>3 DEF ModerationInv, StateTypes, OwnedSince, Pauses!RecordIsHistory,
     Pauses!AppealsSpaced, NoticesTrue,
              AboutMove, Pauses!people
<1>6. ASSUME NEW p \in Operators PROVE Known(op[p])'
  BY <1>3 DEF ModerationInv, Known, AboutMove
<1>. QED BY <1>4, <1>5, <1>6 DEF ModerationInv

\* An appeal is recorded only an hour after each recorded one.
LEMMA InsertInv ==
  ASSUME Pauses!ModerationAssumption, ModerationInv, NEW a \in Appeals, Pauses!Insert(a)
  PROVE  ModerationInv'
<1>. DEFINE q == appeal[a]
<1>1. appeal \in [Appeals -> {Pauses!Idle} \union Appealing]
  BY DEF ModerationInv, RecordTypes
<1>2. q \in Appealing
  BY <1>1 DEF Pauses!Insert, Pauses!Idle
<1>3. q.now \in Nat
  BY <1>2 DEF Appealing
<1>4. /\ appeal' = [appeal EXCEPT ![a] = Pauses!Idle]
      /\ \/ appealed' = appealed \union {q.now} /\ Pauses!NoneRecent(q.now)
         \/ appealed' = appealed
      /\ UNCHANGED <<art, paused, Pauses!people, log, op, clock, changes, faults, since, told>>
  BY DEF Pauses!Insert
<1>. HIDE DEF q
<1>5. appealed \subseteq Nat /\ Pauses!AppealsSpaced
  BY DEF ModerationInv, StateTypes
<1>6. Pauses!AppealsSpaced' /\ appealed' \subseteq Nat
  <2>1. CASE appealed' = appealed
    BY <2>1, <1>5 DEF Pauses!AppealsSpaced
  <2>2. CASE appealed' = appealed \union {q.now} /\ Pauses!NoneRecent(q.now)
    <3>1. \A t \in appealed : t \in Nat /\ t + AppealCooldown < q.now
      BY <2>2, <1>3, <1>5 DEF Pauses!ModerationAssumption, Pauses!NoneRecent
    <3>2. ASSUME NEW s \in appealed', NEW t \in appealed', s < t PROVE s + AppealCooldown < t
      BY <3>1, <3>2, <2>2, <1>3, <1>5 DEF Pauses!ModerationAssumption, Pauses!AppealsSpaced
    <3>. QED BY <3>2, <2>2, <1>3, <1>5 DEF Pauses!AppealsSpaced
  <2>. QED BY <1>4, <2>1, <2>2
<1>7. RecordTypes'
  BY <1>1, <1>4 DEF ModerationInv, RecordTypes
<1>8. StateTypes' /\ OwnedSince' /\ Pauses!RecordIsHistory' /\ NoticesTrue'
  BY <1>4, <1>6 DEF ModerationInv, StateTypes, OwnedSince, Pauses!RecordIsHistory, NoticesTrue,
     AboutMove, Pauses!people
<1>9. ASSUME NEW p \in Operators PROVE Known(op[p])'
  BY <1>4 DEF ModerationInv, Known, AboutMove
<1>. QED BY <1>6, <1>7, <1>8, <1>9 DEF ModerationInv

\* The artifact gets another owner, who is one since every move.
LEMMA TransferInv ==
  ASSUME Pauses!ModerationAssumption, ModerationInv, NEW h \in Humans, Pauses!Transfer(h)
  PROVE  ModerationInv'
<1>1. /\ art' = [art EXCEPT !.owner = h]
      /\ since' = [e \in DOMAIN since |-> since[e] \union {h}]
      /\ changes < MaxChanges /\ changes' = changes + 1
      /\ UNCHANGED <<paused, Pauses!people, log, appealed, op, appeal, clock, faults, told>>
  BY DEF Pauses!Transfer, Pauses!Change
<1>2. StateTypes /\ since \in Seq(SUBSET Owners)
  BY DEF ModerationInv, RecordTypes
<1>3. h \in Owners
  BY DEF Owners
<1>4. StateTypes'
  <2>1. changes' \in Versions /\ changes \in Nat
    BY <1>1, <1>2 DEF Pauses!ModerationAssumption, StateTypes, Versions
  <2>2. art' \in [here: BOOLEAN, link: BOOLEAN, owner: Owners]
    BY <1>1, <1>2, <1>3 DEF StateTypes
  <2>3. \A g \in Humans : address'[g] <= changes'
    BY <1>1, <1>2, <2>1 DEF StateTypes, Pauses!people
  <2>. QED BY <1>1, <1>2, <2>1, <2>2, <2>3 DEF StateTypes, Pauses!people
<1>5. since' \in Seq(SUBSET Owners) /\ Len(since') = Len(since)
      /\ \A e \in DOMAIN since : since[e] \subseteq since'[e]
  BY <1>1, <1>2, <1>3
<1>6. OwnedSince'
  BY <1>1, <1>2 DEF OwnedSince, StateTypes
<1>. QED BY <1>1, <1>4, <1>5, <1>6, AroundRequests

LEMMA PeopleInv ==
  ASSUME Pauses!ModerationAssumption, ModerationInv, NEW h \in Humans, Pauses!Readdress(h) \/ Pauses!NewBoss(h) \/ Pauses!RemovePerson(h)
  PROVE  ModerationInv'
<1>1. /\ UNCHANGED <<art, paused, verified, log, appealed, op, appeal, clock, faults, since, told>>
      /\ changes < MaxChanges /\ changes' = changes + 1
      /\ boss' \in {boss, h} /\ address' \in {address, [address EXCEPT ![h] = @ + 1]}
  BY DEF Pauses!Readdress, Pauses!NewBoss, Pauses!RemovePerson, Pauses!Change
<1>2. StateTypes /\ since \in Seq(SUBSET Owners)
  BY DEF ModerationInv, RecordTypes
<1>3. changes \in Versions /\ changes' \in Versions /\ changes \in Nat
  BY <1>1, <1>2 DEF Pauses!ModerationAssumption, StateTypes, Versions
<1>4. address' \in [Humans -> Nat] /\ \A g \in Humans : address'[g] <= changes'
  BY <1>1, <1>2, <1>3 DEF StateTypes
<1>5. StateTypes'
  BY <1>1, <1>2, <1>3, <1>4 DEF StateTypes
<1>6. OwnedSince'
  BY <1>1 DEF ModerationInv, OwnedSince
<1>. QED BY <1>1, <1>2, <1>5, <1>6, AroundRequests

LEMMA OthersInv ==
  ASSUME Pauses!ModerationAssumption, ModerationInv, Pauses!Toggle \/ Pauses!Delete \/ Pauses!Tick
  PROVE  ModerationInv'
<1>1. /\ UNCHANGED <<paused, Pauses!people, log, appealed, op, appeal, since, told>>
      /\ \/ changes' = changes
         \/ changes < MaxChanges /\ changes' = changes + 1
      /\ clock' \in {clock, clock + 1}
      /\ art' \in {art, [art EXCEPT !.link = ~@], [art EXCEPT !.here = FALSE]}
  BY DEF Pauses!Toggle, Pauses!Delete, Pauses!Tick, Pauses!Change
<1>2. StateTypes /\ since \in Seq(SUBSET Owners) /\ OwnedSince
  BY DEF ModerationInv, RecordTypes
<1>3. art' \in [here: BOOLEAN, link: BOOLEAN, owner: Owners] /\ art'.owner = art.owner
  BY <1>1, <1>2 DEF StateTypes
<1>4. StateTypes'
  BY <1>1, <1>2, <1>3 DEF Pauses!ModerationAssumption, StateTypes, Pauses!people, Versions
<1>5. OwnedSince'
  BY <1>1, <1>2, <1>3 DEF OwnedSince
<1>. QED BY <1>1, <1>2, <1>4, <1>5, AroundRequests

-----------------------------------------------------------------------------
(* The theorems.                                                           *)

LEMMA StepInv ==
  ASSUME Pauses!ModerationAssumption, ModerationInv, [Pauses!Next]_Pauses!vars
  PROVE  ModerationInv'
<1>1. ASSUME NEW o \in Operators,
             (\E move \in Pauses!Moves : Pauses!Begin(o, move)) \/ Pauses!Progress(o) \/ Pauses!Break(o)
      PROVE  ModerationInv'
  BY <1>1, BeginInv, GatherInv, RecordInv, IdleAgain, RecheckInv, SendInv DEF Pauses!Progress
<1>2. ASSUME NEW a \in Appeals, (\E h \in Humans : Pauses!Preflight(a, h)) \/ Pauses!Insert(a)
      PROVE  ModerationInv'
  BY <1>2, PreflightInv, InsertInv
<1>3. ASSUME NEW h \in Humans, Pauses!Transfer(h) \/ Pauses!Readdress(h) \/ Pauses!NewBoss(h) \/ Pauses!RemovePerson(h)
      PROVE  ModerationInv'
  BY <1>3, TransferInv, PeopleInv
<1>4. CASE Pauses!Toggle \/ Pauses!Delete \/ Pauses!Tick
  BY <1>4, OthersInv
<1>5. CASE UNCHANGED Pauses!vars
  <2>1. StateTypes' /\ OwnedSince'
    BY <1>5 DEF Pauses!vars, Pauses!people, ModerationInv, StateTypes, OwnedSince
  <2>. QED BY <1>5, <2>1, AroundRequests DEF Pauses!vars, ModerationInv, RecordTypes
<1>. QED BY <1>1, <1>2, <1>3, <1>4, <1>5 DEF Pauses!Next

LEMMA InvHolds ==
  ASSUME Pauses!ModerationAssumption
  PROVE  Pauses!Spec => []ModerationInv
BY ModerationInit, StepInv, PTL DEF Pauses!Spec

\* Pauses and resumptions alternate and the flag is the last of them, whoever
\* races: suspendLink and resumeLink record a move only with the change of the flag.
THEOREM HistoryIsRecorded ==
  ASSUME Pauses!ModerationAssumption
  PROVE  Pauses!Spec => []Pauses!RecordIsHistory
<1>1. ModerationInv => Pauses!RecordIsHistory
  BY DEF ModerationInv
<1>. QED BY <1>1, InvHolds, PTL

\* The reason of a move is sent only to somebody who owned the artifact after the
\* move was recorded, at the address of the record: the second look at the
\* recipient (sendOwnerNotice) is enough, whatever changes around it.
THEOREM ReasonStaysPrivate ==
  ASSUME Pauses!ModerationAssumption
  PROVE  Pauses!Spec => []Pauses!ReasonIsForTheOwner
<1>1. ModerationInv => Pauses!ReasonIsForTheOwner
  BY DEF ModerationInv, NoticesTrue, AboutMove, Pauses!ReasonIsForTheOwner
<1>. QED BY <1>1, InvHolds, PTL

\* Two recorded appeals lie more than a cooldown apart, however many requests to
\* appeal are in flight (the condition of the insert).
THEOREM AppealsAreSpaced ==
  ASSUME Pauses!ModerationAssumption
  PROVE  Pauses!Spec => []Pauses!AppealsSpaced
<1>1. ModerationInv => Pauses!AppealsSpaced
  BY DEF ModerationInv
<1>. QED BY <1>1, InvHolds, PTL

-----------------------------------------------------------------------------
(* LinkJudgment                                                            *)

\* A request that asked for a review, and when the gate that it took opens.
Callers == [step: {"none"}]
           \union [step: {"create", "started", "drop", "failed"}, kind: GateKinds, expires: Nat]

Flows == [step: {"none", "load", "extract", "recheck", "judge", "release", "judged", "errored"}]
         \union [step: {"record"}, risk: Risks] \union [step: {"skipped"}, at: Nat]

ReviewTypes ==
  /\ shared \in [link: BOOLEAN, entry: BOOLEAN]
  /\ gate \in [GateKinds -> [expires: Nat, of: Nat]]
  /\ caller \in [Gates!Reviews -> Callers]
  /\ flow \in [Gates!Reviews -> Flows]
  /\ recorded \subseteq [of: Gates!Reviews, risk: Risks]
  /\ announced \subseteq [of: Gates!Reviews, risk: Risks]
  /\ clock \in Nat

\* A request has read the clock before, and alone among those of its kind.
Asking ==
  \A r \in Gates!Reviews : Gates!Asked(r) =>
    /\ caller[r].expires <= clock + Cooldown[caller[r].kind]
    /\ \A s \in Gates!Reviews : (Gates!Asked(s) /\ caller[s].kind = caller[r].kind /\ s # r) =>
         caller[s].expires # caller[r].expires

\* A workflow runs only once its creation was asked for.
Unstarted ==
  \A r \in Gates!Reviews : flow[r].step # "none" =>
    caller[r].step \in {"started", "drop", "failed"}

\* A gate is open or of a request, which took it in full; it is less than that only
\* when it was given back, and then not for long.
GateOf(k) ==
  \/ gate[k] = Gates!Open
  \/ /\ gate[k].of \in Gates!Reviews /\ Gates!Asked(gate[k].of) /\ caller[gate[k].of].kind = k
     /\ gate[k].expires <= caller[gate[k].of].expires
     /\ gate[k].expires # caller[gate[k].of].expires =>
          /\ gate[k].expires <= clock + Grace
          /\ flow[gate[k].of].step \in {"release", "skipped", "errored"}

\* A review under way, or one that gave a verdict.
Reviewing(r) ==
  /\ caller[r].step \in {"create", "started"}
  /\ flow[r].step \in {"none", "load", "extract", "recheck", "judge", "record", "judged"}

\* A review that goes on holds its gate for the whole cooldown.
HoldsGate(r) ==
  (Reviewing(r) /\ clock <= caller[r].expires) =>
    gate[caller[r].kind] = [expires |-> caller[r].expires, of |-> r]

\* Who asks after a review that goes on does so after its cooldown.
ComesFirst(r) ==
  Reviewing(r) => \A s \in Gates!Reviews :
    (/\ Gates!Asked(s) /\ s # r /\ caller[s].kind = caller[r].kind
     /\ Gates!Start(s) >= Gates!Start(r)) => Gates!Start(s) > caller[r].expires

\* What was recorded of a review is the verdict that it still has.
VerdictKept ==
  /\ Gates!OneVerdict
  /\ \A j \in recorded : \/ flow[j.of] = [step |-> "record", risk |-> j.risk]
                         \/ flow[j.of].step \in {"judged", "errored"}

\* The inductive strengthening of what is promised of reviews.
JudgmentInv ==
  /\ ReviewTypes /\ Asking /\ Unstarted
  /\ \A k \in GateKinds : GateOf(k)
  /\ \A r \in Gates!Reviews : HoldsGate(r) /\ ComesFirst(r)
  /\ VerdictKept /\ Gates!GateGivenBack

USE DEF Gates!Open

LEMMA InitJudgment ==
  ASSUME Gates!JudgmentAssumption
  PROVE  Gates!Init => JudgmentInv
<1>. SUFFICES ASSUME Gates!Init PROVE JudgmentInv
  OBVIOUS
<1>1. ReviewTypes
  BY DEF Gates!JudgmentAssumption, Gates!Init, ReviewTypes, Callers, Flows
<1>2. Asking /\ Unstarted /\ VerdictKept /\ Gates!GateGivenBack
  BY DEF Gates!Init, Asking, Gates!Asked, Unstarted, VerdictKept, Gates!OneVerdict,
     Gates!GateGivenBack, Gates!Reviews
<1>3. ASSUME NEW k \in GateKinds PROVE GateOf(k)
  BY DEF Gates!Init, GateOf
<1>4. ASSUME NEW r \in Gates!Reviews PROVE HoldsGate(r) /\ ComesFirst(r)
  BY DEF Gates!Init, HoldsGate, ComesFirst, Reviewing
<1>. QED BY <1>1, <1>2, <1>3, <1>4 DEF JudgmentInv

\* A request takes the gate.
LEMMA TriggerKeeps ==
  ASSUME Gates!JudgmentAssumption, JudgmentInv, NEW r \in Gates!Reviews, NEW k \in GateKinds, Gates!Trigger(r, k)
  PROVE  JudgmentInv'
<1>. DEFINE E == clock + Cooldown[k]
<1>0. clock \in Nat /\ Cooldown[k] \in Nat \ {0} /\ Grace \in Nat /\ E \in Nat
  BY DEF Gates!JudgmentAssumption, JudgmentInv, ReviewTypes
<1>1. caller' = [caller EXCEPT ![r] = [step |-> "create", kind |-> k, expires |-> E]]
      /\ gate' = [gate EXCEPT ![k] = [expires |-> E, of |-> r]] /\ UNCHANGED <<shared, flow, recorded, announced, clock>>
  BY DEF Gates!Trigger
<1>2. caller'[r] = [step |-> "create", kind |-> k, expires |-> E] /\ \A s \in Gates!Reviews : s # r => caller'[s] = caller[s]
  BY <1>1 DEF JudgmentInv, ReviewTypes
<1>3. gate'[k] = [expires |-> E, of |-> r] /\ \A j \in GateKinds : j # k => gate'[j] = gate[j]
  BY <1>1 DEF JudgmentInv, ReviewTypes
<1>4. ReviewTypes'
  BY <1>0, <1>1 DEF JudgmentInv, ReviewTypes, Callers, Gates!Reviews
<1>5. caller[r].step = "none" /\ flow[r].step = "none"
  BY DEF Gates!Trigger, JudgmentInv, Unstarted
<1>6. \A s \in Gates!Reviews : Gates!Asked(s) => /\ caller[s].kind \in GateKinds /\ caller[s].expires \in Nat
                                                 /\ Cooldown[caller[s].kind] \in Nat /\ Gates!Start(s) <= clock
                                                 /\ (caller[s].kind = k => Gates!Start(s) # clock /\ caller[s].expires < E)
  <2>. SUFFICES ASSUME NEW s \in Gates!Reviews, Gates!Asked(s)
                PROVE  /\ caller[s].kind \in GateKinds /\ caller[s].expires \in Nat
                       /\ Cooldown[caller[s].kind] \in Nat /\ Gates!Start(s) <= clock
                       /\ (caller[s].kind = k => Gates!Start(s) # clock /\ caller[s].expires < E)
    OBVIOUS
  <2>1. caller[s].kind \in GateKinds /\ caller[s].expires \in Nat
    BY DEF JudgmentInv, ReviewTypes, Gates!Asked, Callers
  <2>2. Cooldown[caller[s].kind] \in Nat
    BY <2>1 DEF Gates!JudgmentAssumption
  <2>3. caller[s].expires <= clock + Cooldown[caller[s].kind]
    BY DEF JudgmentInv, Asking
  <2>4. caller[s].kind = k => Gates!Start(s) # clock
    BY DEF Gates!Trigger
  <2>. QED BY <1>0, <2>1, <2>2, <2>3, <2>4 DEF Gates!Start
<1>7. Asking'
  <2>. SUFFICES ASSUME NEW s \in Gates!Reviews, Gates!Asked(s)'
                PROVE  /\ caller'[s].expires <= clock' + Cooldown[caller'[s].kind]
                       /\ \A t \in Gates!Reviews : (Gates!Asked(t)' /\ caller'[t].kind = caller'[s].kind /\ t # s)
                            => caller'[t].expires # caller'[s].expires
    BY DEF Asking
  <2>1. CASE s = r
    BY <1>0, <1>1, <1>2, <1>6, <2>1 DEF Gates!Asked
  <2>2. CASE s # r
    BY <1>0, <1>1, <1>2, <1>6, <2>2 DEF Gates!Asked, Asking, JudgmentInv
  <2>. QED BY <2>1, <2>2
<1>8. Unstarted'
  BY <1>1, <1>2, <1>5 DEF JudgmentInv, Unstarted
<1>9. ASSUME NEW j \in GateKinds PROVE GateOf(j)'
  <2>1. CASE j = k
    BY <1>0, <1>1, <1>2, <1>3, <2>1 DEF GateOf, Gates!Asked
  <2>2. CASE j # k
    BY <1>1, <1>2, <1>3, <1>5, <2>2 DEF GateOf, Gates!Asked, JudgmentInv
  <2>. QED BY <2>1, <2>2
<1>10. ASSUME NEW s \in Gates!Reviews, s # r, Reviewing(s), caller[s].kind = k PROVE clock > caller[s].expires
  <2>1. CASE clock <= caller[s].expires
    <3>1. gate[k] = [expires |-> caller[s].expires, of |-> s] /\ s # 0
      BY <1>10, <2>1 DEF JudgmentInv, HoldsGate, Gates!Reviews
    <3>2. gate[k].expires < clock
      BY <3>1 DEF Gates!Trigger, Gates!Takes
    <3>. QED BY <3>1, <3>2
  <2>. QED BY <1>0, <1>6, <1>10, <2>1 DEF Gates!Asked, Reviewing
<1>11. ASSUME NEW s \in Gates!Reviews PROVE HoldsGate(s)'
  BY <1>0, <1>1, <1>2, <1>3, <1>6, <1>10 DEF HoldsGate, Reviewing, JudgmentInv, Gates!Asked
<1>12. ASSUME NEW s \in Gates!Reviews PROVE ComesFirst(s)'
  BY <1>0, <1>1, <1>2, <1>5, <1>6, <1>10 DEF ComesFirst, Reviewing, JudgmentInv, Gates!Asked,
     Gates!Start
<1>13. VerdictKept' /\ Gates!GateGivenBack'
  BY <1>1, <1>3, <1>5 DEF JudgmentInv, VerdictKept, Gates!OneVerdict, Gates!GateGivenBack,
     ReviewTypes
<1>. QED BY <1>4, <1>7, <1>8, <1>9, <1>11, <1>12, <1>13 DEF JudgmentInv

-----------------------------------------------------------------------------
(* Steps of the requests                                                   *)

\* The flow of r may begin, and its request moves on from "create".
LEMMA StartKeeps ==
  ASSUME Gates!JudgmentAssumption, JudgmentInv, NEW r \in Gates!Reviews, Gates!Create(r) \/ Gates!CreateFails(r)
  PROVE  JudgmentInv'
<1>1. PICK to \in {"started", "drop"} : caller' = [caller EXCEPT ![r].step = to]
  BY DEF Gates!Create, Gates!CreateFails
<1>2. caller[r].step = "create" /\ UNCHANGED <<shared, gate, recorded, announced, clock>>
  BY DEF Gates!Create, Gates!CreateFails
<1>3. flow' = flow \/ flow' = [flow EXCEPT ![r] = [step |-> "load"]]
  BY DEF Gates!Create, Gates!CreateFails, Gates!Began
<1>4. caller[r] \in [step: {"create", "started", "drop", "failed"}, kind: GateKinds, expires: Nat]
  BY <1>2 DEF JudgmentInv, ReviewTypes, Callers
<1>5. /\ caller'[r].step = to /\ caller'[r].kind = caller[r].kind /\ caller'[r].expires = caller[r].expires
      /\ \A s \in Gates!Reviews : s # r => caller'[s] = caller[s]
  BY <1>1, <1>4 DEF JudgmentInv, ReviewTypes
<1>6. flow[r].step = "none" /\ flow'[r].step \in {"none", "load"} /\ \A s \in Gates!Reviews : s # r => flow'[s] = flow[s]
  BY <1>2, <1>3 DEF JudgmentInv, ReviewTypes, Unstarted
<1>7. ReviewTypes'
  <2>1. caller' \in [Gates!Reviews -> Callers]
    BY <1>1, <1>4 DEF JudgmentInv, ReviewTypes, Callers
  <2>2. flow' \in [Gates!Reviews -> Flows]
    BY <1>3 DEF JudgmentInv, ReviewTypes, Flows
  <2>. QED BY <1>2, <2>1, <2>2 DEF JudgmentInv, ReviewTypes
<1>8. \A s \in Gates!Reviews : (Gates!Asked(s) <=> Gates!Asked(s)') /\ caller'[s].kind = caller[s].kind
                         /\ caller'[s].expires = caller[s].expires /\ (Reviewing(s)' => Reviewing(s))
  BY <1>2, <1>5, <1>6 DEF Gates!Asked, Reviewing
<1>9. Asking' /\ Unstarted'
  BY <1>1, <1>2, <1>5, <1>6, <1>8 DEF JudgmentInv, Asking, Unstarted
<1>10. ASSUME NEW k \in GateKinds PROVE GateOf(k)'
  BY <1>2, <1>6, <1>8 DEF JudgmentInv, GateOf
<1>11. ASSUME NEW s \in Gates!Reviews PROVE HoldsGate(s)' /\ ComesFirst(s)'
  BY <1>2, <1>8 DEF JudgmentInv, HoldsGate, ComesFirst, Gates!Start
<1>12. VerdictKept'
  BY <1>2, <1>6 DEF JudgmentInv, VerdictKept, Gates!OneVerdict, ReviewTypes
<1>13. Gates!GateGivenBack'
  BY <1>2, <1>6 DEF JudgmentInv, Gates!GateGivenBack
<1>. QED BY <1>7, <1>9, <1>10, <1>11, <1>12, <1>13 DEF JudgmentInv

LEMMA DropKeeps ==
  ASSUME Gates!JudgmentAssumption, JudgmentInv, NEW r \in Gates!Reviews, Gates!Drop(r)
  PROVE  JudgmentInv'
<1>1. caller' = [caller EXCEPT ![r].step = "failed"] /\ caller[r].step = "drop"
      /\ UNCHANGED <<shared, flow, recorded, announced, clock>>
  BY DEF Gates!Drop
<1>2. caller[r] \in [step: {"create", "started", "drop", "failed"}, kind: GateKinds, expires: Nat]
  BY <1>1 DEF JudgmentInv, ReviewTypes, Callers
<1>3. /\ caller'[r].step = "failed" /\ caller'[r].kind = caller[r].kind /\ caller'[r].expires = caller[r].expires
      /\ \A s \in Gates!Reviews : s # r => caller'[s] = caller[s]
  BY <1>1, <1>2 DEF JudgmentInv, ReviewTypes
<1>4. \A k \in GateKinds : gate'[k] = gate[k] \/ (/\ gate'[k] = Gates!Open /\ k = caller[r].kind
                                                  /\ gate[k].expires = caller[r].expires)
  BY <1>2 DEF Gates!Drop, JudgmentInv, ReviewTypes
<1>5. ReviewTypes'
  <2>1. caller' \in [Gates!Reviews -> Callers]
    BY <1>1, <1>2 DEF JudgmentInv, ReviewTypes, Callers
  <2>2. gate' \in [GateKinds -> [expires: Nat, of: Nat]]
    BY <1>2 DEF Gates!Drop, JudgmentInv, ReviewTypes
  <2>. QED BY <1>1, <2>1, <2>2 DEF JudgmentInv, ReviewTypes
<1>6. \A s \in Gates!Reviews : (Gates!Asked(s) <=> Gates!Asked(s)') /\ caller'[s].kind = caller[s].kind
                         /\ caller'[s].expires = caller[s].expires /\ (Reviewing(s)' => Reviewing(s) /\ s # r)
  BY <1>1, <1>3 DEF Gates!Asked, Reviewing
<1>7. Asking' /\ Unstarted'
  BY <1>1, <1>3, <1>6 DEF JudgmentInv, Asking, Unstarted
<1>8. ASSUME NEW k \in GateKinds PROVE GateOf(k)'
  BY <1>1, <1>4, <1>6 DEF JudgmentInv, GateOf
<1>9. ASSUME NEW s \in Gates!Reviews PROVE HoldsGate(s)'
  <2>. SUFFICES ASSUME Reviewing(s)', clock <= caller[s].expires
                PROVE  gate'[caller[s].kind] = [expires |-> caller[s].expires, of |-> s]
    BY <1>1, <1>6 DEF HoldsGate
  <2>1. gate[caller[s].kind] = [expires |-> caller[s].expires, of |-> s] /\ s # r
    BY <1>6 DEF JudgmentInv, HoldsGate
  <2>2. caller[s].kind \in GateKinds /\ Gates!Asked(s) /\ Gates!Asked(r)
    BY <1>1, <1>6 DEF JudgmentInv, ReviewTypes, Reviewing, Callers, Gates!Asked
  <2>3. caller[s].kind = caller[r].kind => caller[s].expires # caller[r].expires
    BY <2>1, <2>2 DEF JudgmentInv, Asking
  <2>. QED BY <1>4, <2>1, <2>2, <2>3
<1>10. ASSUME NEW s \in Gates!Reviews PROVE ComesFirst(s)'
  BY <1>6 DEF JudgmentInv, ComesFirst, Gates!Start
<1>11. VerdictKept'
  BY <1>1 DEF JudgmentInv, VerdictKept, Gates!OneVerdict
<1>12. Gates!GateGivenBack'
  BY <1>1, <1>4 DEF JudgmentInv, Gates!GateGivenBack, Gates!Reviews
<1>. QED BY <1>5, <1>7, <1>8, <1>9, <1>10, <1>11, <1>12 DEF JudgmentInv

-----------------------------------------------------------------------------
(* Steps of a review                                                       *)

\* A step that leaves the gates alone and does not take a review back.
LEMMA FlowKeeps ==
  ASSUME JudgmentInv, NEW r \in Gates!Reviews, NEW to \in Flows, flow' \in {flow, [flow EXCEPT ![r] = to]},
         flow[r].step # "none",
         to.step \in {"load", "extract", "recheck", "judge", "record", "judged"} => Reviewing(r) \/ caller[r].step \notin {"create", "started"},
         flow[r].step \in {"release", "skipped", "errored"} => to.step \in {"release", "errored"},
         to.step \notin {"none", "skipped"},
         UNCHANGED <<shared, gate, caller, clock>>,
         recorded' \subseteq [of: Gates!Reviews, risk: Risks], announced' \subseteq [of: Gates!Reviews, risk: Risks],
         VerdictKept'
  PROVE  JudgmentInv'
<1>1. \A s \in Gates!Reviews : flow'[s] = flow[s] \/ (s = r /\ flow'[s] = to)
  BY DEF JudgmentInv, ReviewTypes
<1>2. ReviewTypes'
  BY DEF JudgmentInv, ReviewTypes
<1>3. Asking' /\ Unstarted'
  BY <1>1 DEF JudgmentInv, Asking, Gates!Asked, Unstarted
<1>4. ASSUME NEW k \in GateKinds PROVE GateOf(k)'
  BY <1>1 DEF JudgmentInv, GateOf, Gates!Asked
<1>5. ASSUME NEW s \in Gates!Reviews, Reviewing(s)' PROVE Reviewing(s)
  <2>1. CASE flow'[s] = flow[s]
    BY <1>5, <2>1 DEF Reviewing
  <2>2. CASE s = r /\ flow'[s] = to
    <3>1. to.step \in {"load", "extract", "recheck", "judge", "record", "judged"} /\ caller[r].step \in {"create", "started"}
      BY <1>5, <2>2 DEF Reviewing
    <3>. QED BY <2>2, <3>1
  <2>. QED BY <1>1, <2>1, <2>2
<1>6. ASSUME NEW s \in Gates!Reviews PROVE HoldsGate(s)' /\ ComesFirst(s)'
  BY <1>5 DEF JudgmentInv, HoldsGate, ComesFirst, Gates!Asked, Gates!Start
<1>7. Gates!GateGivenBack'
  BY <1>1 DEF JudgmentInv, Gates!GateGivenBack
<1>. QED BY <1>2, <1>3, <1>4, <1>6, <1>7 DEF JudgmentInv

LEMMA WorkKeeps ==
  ASSUME Gates!JudgmentAssumption, JudgmentInv, NEW r \in Gates!Reviews,
         Gates!Load(r) \/ Gates!Extract(r) \/ Gates!CheckAgain(r) \/ Gates!Judge(r) \/ Gates!Errored(r)
  PROVE  JudgmentInv'
<1>1. PICK to \in Flows : /\ flow' \in {flow, [flow EXCEPT ![r] = to]}
                          /\ to.step \notin {"none", "load", "skipped"}
                          /\ flow[r].step \in {"load", "extract", "recheck", "judge"} \/ to.step = "errored"
                          /\ flow[r].step \in Gates!Working
  <2>1. CASE Gates!Load(r)
    <3>0. [step |-> IF shared.link THEN "extract" ELSE "release"] \in Flows
      BY DEF Flows
    <3>. WITNESS [step |-> IF shared.link THEN "extract" ELSE "release"] \in Flows
    <3>. QED BY <2>1 DEF Gates!Load, Gates!Goes, Gates!Working
  <2>2. CASE Gates!Extract(r)
    <3>0. [step |-> IF shared.entry THEN "recheck" ELSE "release"] \in Flows
      BY DEF Flows
    <3>. WITNESS [step |-> IF shared.entry THEN "recheck" ELSE "release"] \in Flows
    <3>. QED BY <2>2 DEF Gates!Extract, Gates!Goes, Gates!Working
  <2>3. CASE Gates!CheckAgain(r)
    <3>0. [step |-> IF shared.link THEN "judge" ELSE "release"] \in Flows
      BY DEF Flows
    <3>. WITNESS [step |-> IF shared.link THEN "judge" ELSE "release"] \in Flows
    <3>. QED BY <2>3 DEF Gates!CheckAgain, Gates!Goes, Gates!Working
  <2>4. CASE Gates!Judge(r)
    <3>1. PICK risk \in Risks : flow[r].step = "judge" /\ Gates!Goes(r, [step |-> "record", risk |-> risk])
      BY <2>4 DEF Gates!Judge
    <3>0. [step |-> "record", risk |-> risk] \in Flows
      BY DEF Flows
    <3>. WITNESS [step |-> "record", risk |-> risk] \in Flows
    <3>. QED BY <3>1 DEF Gates!Goes, Gates!Working
  <2>5. CASE Gates!Errored(r)
    <3>0. [step |-> "errored"] \in Flows
      BY DEF Flows
    <3>. WITNESS [step |-> "errored"] \in Flows
    <3>. QED BY <2>5 DEF Gates!Errored, Gates!Working
  <2>. QED BY <2>1, <2>2, <2>3, <2>4, <2>5
<1>2. UNCHANGED <<shared, gate, caller, recorded, announced, clock>>
  BY DEF Gates!Load, Gates!Extract, Gates!CheckAgain, Gates!Judge, Gates!Errored
<1>3. \A s \in Gates!Reviews : flow'[s] = flow[s] \/ (s = r /\ flow'[s] = to)
  BY <1>1 DEF JudgmentInv, ReviewTypes
<1>4. VerdictKept'
  <2>1. ASSUME NEW j \in recorded PROVE flow'[j.of] = [step |-> "record", risk |-> j.risk]
                                        \/ flow'[j.of].step \in {"judged", "errored"}
    BY <1>1, <1>3 DEF JudgmentInv, VerdictKept, ReviewTypes
  <2>. QED BY <1>2, <2>1 DEF JudgmentInv, VerdictKept, Gates!OneVerdict
<1>. QED BY <1>1, <1>2, <1>4, FlowKeeps DEF JudgmentInv, ReviewTypes, Reviewing, Gates!Working

LEMMA RecordKeeps ==
  ASSUME Gates!JudgmentAssumption, JudgmentInv, NEW r \in Gates!Reviews, Gates!Record(r)
  PROVE  JudgmentInv'
<1>1. flow[r].step = "record" /\ UNCHANGED <<shared, gate, caller, clock>>
      /\ flow' \in {flow, [flow EXCEPT ![r] = [step |-> "judged"]]}
  BY DEF Gates!Record, Gates!Goes
<1>2. flow[r] = [step |-> "record", risk |-> flow[r].risk] /\ flow[r].risk \in Risks
  BY <1>1 DEF JudgmentInv, ReviewTypes, Flows
<1>. DEFINE new == [of |-> r, risk |-> flow[r].risk]
<1>3. announced' = announced \union {new}
      /\ recorded' = IF \E j \in recorded : j.of = r THEN recorded ELSE recorded \union {new}
  BY DEF Gates!Record, Gates!RiskOf
<1>4. ASSUME NEW j \in recorded, j.of = r PROVE j = new
  <2>1. j \in [of: Gates!Reviews, risk: Risks]
    BY DEF JudgmentInv, ReviewTypes
  <2>2. flow[r] = [step |-> "record", risk |-> j.risk]
    BY <1>1, <1>4 DEF JudgmentInv, VerdictKept
  <2>3. j.risk = flow[r].risk
    BY <2>2
  <2>. QED BY <1>4, <2>1, <2>3
<1>5. new \in recorded' /\ recorded \subseteq recorded' /\ recorded' \subseteq recorded \union {new}
  BY <1>3, <1>4
<1>6. \A s \in Gates!Reviews : flow'[s] = flow[s] \/ (s = r /\ flow'[s] = [step |-> "judged"])
  BY <1>1 DEF JudgmentInv, ReviewTypes
<1>7. Gates!OneVerdict'
  BY <1>3, <1>4, <1>5 DEF JudgmentInv, VerdictKept, Gates!OneVerdict
<1>8. VerdictKept'
  <2>1. ASSUME NEW j \in recorded' PROVE flow'[j.of] = [step |-> "record", risk |-> j.risk]
                                         \/ flow'[j.of].step \in {"judged", "errored"}
    BY <1>2, <1>5, <1>6 DEF JudgmentInv, VerdictKept, ReviewTypes
  <2>. QED BY <1>7, <2>1 DEF VerdictKept
<1>9. announced' \subseteq [of: Gates!Reviews, risk: Risks] /\ recorded' \subseteq [of: Gates!Reviews, risk: Risks]
  BY <1>2, <1>3, <1>5 DEF JudgmentInv, ReviewTypes
<1>10. [step |-> "judged"] \in Flows
  BY DEF Flows
<1>. QED BY <1>1, <1>8, <1>9, <1>10, FlowKeeps DEF Reviewing

LEMMA ReleaseKeeps ==
  ASSUME Gates!JudgmentAssumption, JudgmentInv, NEW r \in Gates!Reviews, Gates!Release(r)
  PROVE  JudgmentInv'
<1>. DEFINE k == caller[r].kind
<1>0. clock \in Nat /\ Grace \in Nat /\ clock + Grace \in Nat
  BY DEF Gates!JudgmentAssumption, JudgmentInv, ReviewTypes
<1>1. flow[r].step = "release" /\ UNCHANGED <<shared, caller, recorded, announced, clock>>
      /\ flow' \in {flow, [flow EXCEPT ![r] = [step |-> "skipped", at |-> clock]]}
  BY DEF Gates!Release, Gates!Goes
<1>2. caller[r].step \in {"started", "drop", "failed"} /\ k \in GateKinds /\ caller[r].expires \in Nat /\ Gates!Asked(r)
  BY <1>1 DEF JudgmentInv, Unstarted, ReviewTypes, Callers, Gates!Asked
<1>3. gate'[k].of = gate[k].of /\ gate'[k].expires \in Nat /\ gate'[k].expires <= gate[k].expires
      /\ (gate[k].expires = caller[r].expires => gate'[k].expires <= clock + Grace)
      /\ (gate[k].expires # caller[r].expires => gate' = gate)
      /\ (\A j \in GateKinds : j # k => gate'[j] = gate[j]) /\ gate' \in [GateKinds -> [expires: Nat, of: Nat]]
  BY <1>0, <1>2 DEF Gates!Release, Gates!OwnGate, Gates!GivenBack, JudgmentInv, ReviewTypes
<1>4. \A s \in Gates!Reviews : flow'[s] = flow[s] \/ (s = r /\ flow'[s] = [step |-> "skipped", at |-> clock])
  BY <1>1 DEF JudgmentInv, ReviewTypes
<1>5. ReviewTypes'
  <2>1. flow' \in [Gates!Reviews -> Flows]
    BY <1>0, <1>1 DEF JudgmentInv, ReviewTypes, Flows
  <2>. QED BY <1>1, <1>3, <2>1 DEF JudgmentInv, ReviewTypes
<1>6. Asking' /\ Unstarted'
  BY <1>1, <1>2, <1>4 DEF JudgmentInv, Asking, Gates!Asked, Unstarted
<1>7. ASSUME NEW j \in GateKinds PROVE GateOf(j)'
  <2>1. CASE gate'[j] = gate[j]
    BY <1>1, <1>4, <2>1 DEF JudgmentInv, GateOf, Gates!Asked
  <2>2. CASE gate'[j] # gate[j]
    <3>1. j = k /\ gate[k].expires = caller[r].expires
      BY <1>3, <2>2
    <3>2. CASE gate[k] = Gates!Open
      <4>1. gate'[k] \in [expires: Nat, of: Nat] /\ gate'[k].expires = 0 /\ gate'[k].of = 0
        BY <1>2, <1>3, <3>2
      <4>. QED BY <2>2, <3>1, <3>2, <4>1
    <3>3. CASE gate[k] # Gates!Open
      <4>1. gate[k].of \in Gates!Reviews /\ Gates!Asked(gate[k].of) /\ caller[gate[k].of].kind = k
            /\ gate[k].expires <= caller[gate[k].of].expires
        BY <1>2, <3>3 DEF JudgmentInv, GateOf
      <4>2. flow[gate[k].of].step \in {"release", "skipped", "errored"}
        BY <1>1, <1>2, <3>1, <3>3, <4>1 DEF JudgmentInv, GateOf, Asking
      <4>3. flow'[gate[k].of].step \in {"release", "skipped", "errored"}
        BY <1>4, <4>1, <4>2
      <4>4. caller[gate[k].of].expires \in Nat /\ gate[k].expires \in Nat
        BY <1>2, <4>1 DEF JudgmentInv, ReviewTypes, Gates!Asked, Callers
      <4>. QED BY <1>0, <1>1, <1>3, <3>1, <4>1, <4>3, <4>4 DEF GateOf, Gates!Asked
    <3>. QED BY <3>2, <3>3
  <2>. QED BY <2>1, <2>2
<1>8. \A s \in Gates!Reviews : Reviewing(s)' => Reviewing(s) /\ s # r
  BY <1>1, <1>4 DEF Reviewing
<1>9. ASSUME NEW s \in Gates!Reviews PROVE HoldsGate(s)'
  <2>. SUFFICES ASSUME Reviewing(s), s # r, clock <= caller[s].expires
                PROVE  gate'[caller[s].kind] = [expires |-> caller[s].expires, of |-> s]
    BY <1>1, <1>8 DEF HoldsGate
  <2>1. gate[caller[s].kind] = [expires |-> caller[s].expires, of |-> s]
    BY DEF JudgmentInv, HoldsGate
  <2>2. caller[s].kind \in GateKinds /\ Gates!Asked(s)
    BY DEF JudgmentInv, ReviewTypes, Reviewing, Callers, Gates!Asked
  <2>3. caller[s].kind = k => caller[s].expires # caller[r].expires
    BY <1>2, <2>2 DEF JudgmentInv, Asking
  <2>. QED BY <1>3, <2>1, <2>2, <2>3
<1>10. ASSUME NEW s \in Gates!Reviews PROVE ComesFirst(s)'
  BY <1>1, <1>8 DEF JudgmentInv, ComesFirst, Gates!Start, Gates!Asked
<1>11. VerdictKept'
  BY <1>1, <1>4 DEF JudgmentInv, VerdictKept, Gates!OneVerdict, ReviewTypes
<1>12. Gates!GateGivenBack'
  <2>. SUFFICES ASSUME NEW s \in Gates!Reviews, NEW j \in GateKinds, flow'[s].step = "skipped", gate'[j].of = s
                PROVE  gate'[j].expires <= flow'[s].at + Grace
    BY DEF Gates!GateGivenBack
  <2>1. gate[j].of = s /\ gate'[j].expires <= gate[j].expires /\ gate[j].expires \in Nat /\ gate'[j].expires \in Nat
    BY <1>3 DEF JudgmentInv, ReviewTypes
  <2>2. CASE flow'[s] = flow[s]
    <3>1. flow[s].at \in Nat /\ gate[j].expires <= flow[s].at + Grace
      BY <2>1, <2>2 DEF JudgmentInv, Gates!GateGivenBack, ReviewTypes, Flows
    <3>. QED BY <1>0, <2>1, <2>2, <3>1
  <2>3. CASE s = r /\ flow'[s] = [step |-> "skipped", at |-> clock]
    <3>1. gate[j] # Gates!Open
      BY <2>1 DEF Gates!Reviews
    <3>2. j = k /\ (gate[j].expires # caller[r].expires => gate[j].expires <= clock + Grace)
      BY <2>1, <2>3, <3>1 DEF JudgmentInv, GateOf
    <3>. QED BY <1>0, <1>3, <2>1, <2>3, <3>2
  <2>. QED BY <1>4, <2>2, <2>3
<1>. QED BY <1>5, <1>6, <1>7, <1>9, <1>10, <1>11, <1>12 DEF JudgmentInv

-----------------------------------------------------------------------------
LEMMA AroundKeeps ==
  ASSUME Gates!JudgmentAssumption, JudgmentInv, Gates!Edit \/ Gates!Cleanup \/ Gates!Tick
  PROVE  JudgmentInv'
<1>1. CASE Gates!Edit
  <2>1. shared' \in [link: BOOLEAN, entry: BOOLEAN]
    BY <1>1 DEF Gates!Edit, JudgmentInv, ReviewTypes
  <2>. QED BY <1>1, <2>1 DEF Gates!Edit, JudgmentInv, ReviewTypes, Asking, Gates!Asked,
              Unstarted, GateOf, HoldsGate, ComesFirst,
     Reviewing, Gates!Start, VerdictKept, Gates!OneVerdict, Gates!GateGivenBack
<1>2. CASE Gates!Cleanup
  <2>1. \A k \in GateKinds : gate'[k] = gate[k] \/ (gate'[k] = Gates!Open /\ gate[k].expires < clock)
    BY <1>2 DEF Gates!Cleanup, JudgmentInv, ReviewTypes
  <2>2. ReviewTypes'
    BY <1>2 DEF Gates!Cleanup, JudgmentInv, ReviewTypes
  <2>3. Asking' /\ Unstarted' /\ VerdictKept'
    BY <1>2 DEF Gates!Cleanup, JudgmentInv, Asking, Gates!Asked, Unstarted, VerdictKept,
       Gates!OneVerdict
  <2>4. ASSUME NEW k \in GateKinds PROVE GateOf(k)'
    BY <1>2, <2>1 DEF Gates!Cleanup, JudgmentInv, GateOf, Gates!Asked
  <2>5. ASSUME NEW s \in Gates!Reviews PROVE HoldsGate(s)'
    <3>1. Reviewing(s) => caller[s].kind \in GateKinds /\ caller[s].expires \in Nat /\ clock \in Nat
      BY DEF JudgmentInv, ReviewTypes, Reviewing, Callers
    <3>. QED BY <1>2, <2>1, <3>1 DEF Gates!Cleanup, JudgmentInv, HoldsGate, Reviewing
  <2>6. ASSUME NEW s \in Gates!Reviews PROVE ComesFirst(s)'
    BY <1>2 DEF Gates!Cleanup, JudgmentInv, ComesFirst, Reviewing, Gates!Start, Gates!Asked
  <2>7. Gates!GateGivenBack'
    BY <1>2, <2>1 DEF Gates!Cleanup, JudgmentInv, Gates!GateGivenBack, Gates!Reviews
  <2>. QED BY <2>2, <2>3, <2>4, <2>5, <2>6, <2>7 DEF JudgmentInv
<1>3. CASE Gates!Tick
  <2>1. clock' = clock + 1 /\ clock \in Nat /\ Grace \in Nat
        /\ UNCHANGED <<shared, gate, caller, flow, recorded, announced>>
    BY <1>3 DEF Gates!Tick, JudgmentInv, ReviewTypes, Gates!JudgmentAssumption
  <2>2. \A r \in Gates!Reviews : Gates!Asked(r) => caller[r].expires \in Nat /\ Cooldown[caller[r].kind] \in Nat
    BY DEF JudgmentInv, ReviewTypes, Callers, Gates!Asked, Gates!JudgmentAssumption
  <2>3. ReviewTypes' /\ Unstarted' /\ VerdictKept' /\ Gates!GateGivenBack'
    BY <2>1 DEF JudgmentInv, ReviewTypes, Unstarted, VerdictKept, Gates!OneVerdict,
       Gates!GateGivenBack
  <2>4. Asking'
    BY <2>1, <2>2 DEF JudgmentInv, Asking, Gates!Asked
  <2>5. ASSUME NEW k \in GateKinds PROVE GateOf(k)'
    BY <2>1, <2>2 DEF JudgmentInv, GateOf, Gates!Asked, ReviewTypes
  <2>6. ASSUME NEW s \in Gates!Reviews PROVE HoldsGate(s)' /\ ComesFirst(s)'
    <3>1. Reviewing(s) => Gates!Asked(s)
      BY DEF Reviewing, Gates!Asked
    <3>. QED BY <2>1, <2>2, <3>1 DEF JudgmentInv, HoldsGate, ComesFirst, Reviewing, Gates!Start,
                Gates!Asked
  <2>. QED BY <2>3, <2>4, <2>5, <2>6 DEF JudgmentInv
<1>. QED BY <1>1, <1>2, <1>3

LEMMA JudgmentHolds ==
  ASSUME Gates!JudgmentAssumption
  PROVE  Gates!Spec => []JudgmentInv
<1>1. Gates!Init => JudgmentInv
  BY InitJudgment
<1>2. JudgmentInv /\ [Gates!Next]_Gates!vars => JudgmentInv'
  <2>1. CASE UNCHANGED Gates!vars
    BY <2>1 DEF Gates!vars, JudgmentInv, ReviewTypes, Asking, Gates!Asked, Unstarted, GateOf,
       HoldsGate, ComesFirst,
       Reviewing, Gates!Start, VerdictKept, Gates!OneVerdict, Gates!GateGivenBack
  <2>. QED BY <2>1, TriggerKeeps, StartKeeps, DropKeeps, WorkKeeps, RecordKeeps, ReleaseKeeps,
              AroundKeeps
     DEF Gates!Next, Gates!Steps
<1>. QED BY <1>1, <1>2, PTL DEF Gates!Spec

-----------------------------------------------------------------------------
\* However many requests ask and whatever steps fail and run again, a file is reviewed
\* once in a cooldown of each kind: who wants a review takes the gate in the
\* statement that finds it open (link_abuse_judgment_gates).
THEOREM ReviewedOnce ==
  ASSUME Gates!JudgmentAssumption
  PROVE  Gates!Spec => []Gates!OncePerCooldown
<1>1. JudgmentInv => Gates!OncePerCooldown
  BY DEF JudgmentInv, ComesFirst, Gates!OncePerCooldown, Reviewing, Gates!Working
<1>. QED BY <1>1, JudgmentHolds, PTL

\* A review has one verdict, whichever of its steps run twice, and the operators
\* hear only of that one (the workflow's record step and its announcement).
THEOREM VerdictIsOne ==
  ASSUME Gates!JudgmentAssumption
  PROVE  Gates!Spec => []Gates!OneVerdict
<1>1. JudgmentInv => Gates!OneVerdict
  BY DEF JudgmentInv, VerdictKept
<1>. QED BY <1>1, JudgmentHolds, PTL

\* A review that ended without a look at the file does not hold its gate for longer
\* than the grace (the release step of the workflow).
THEOREM IdleGivesBack ==
  ASSUME Gates!JudgmentAssumption
  PROVE  Gates!Spec => []Gates!GateGivenBack
<1>1. JudgmentInv => Gates!GateGivenBack
  BY DEF JudgmentInv
<1>. QED BY <1>1, JudgmentHolds, PTL

\* What a review gives back or drops is its own gate, told by the time it opens: no
\* step shortens or removes one that a newer request took and has not lost.
THEOREM GateStands ==
  ASSUME Gates!JudgmentAssumption
  PROVE  Gates!Spec => [][Gates!NewerGateStands]_Gates!vars
<1>1. JudgmentInv /\ [Gates!Next]_Gates!vars => [Gates!NewerGateStands]_Gates!vars
  <2>. SUFFICES ASSUME JudgmentInv, [Gates!Next]_Gates!vars, NEW k \in GateKinds, gate[k].of # 0,
                       gate'[k].expires < gate[k].expires
                PROVE  \/ gate[k].expires < clock \/ gate[k].expires < caller[gate[k].of].expires
                       \/ flow[gate[k].of].step = "release" \/ caller[gate[k].of].step = "drop"
    BY DEF Gates!NewerGateStands
  <2>0. gate[k].of \in Gates!Reviews /\ Gates!Asked(gate[k].of) /\ caller[gate[k].of].kind = k
        /\ gate[k].expires <= caller[gate[k].of].expires
    BY DEF JudgmentInv, GateOf
  <2>1. gate \in [GateKinds -> [expires: Nat, of: Nat]] /\ clock \in Nat /\ caller[gate[k].of].expires \in Nat
    BY <2>0 DEF JudgmentInv, ReviewTypes, Gates!Asked, Callers
  <2>2. ASSUME NEW r \in Gates!Reviews, NEW j \in GateKinds, Gates!Trigger(r, j) PROVE gate[k].expires < clock
    <3>1. j = k
      BY <2>1, <2>2 DEF Gates!Trigger
    <3>. QED BY <2>0, <2>1, <2>2, <3>1 DEF Gates!Trigger, Gates!Takes
  <2>3. ASSUME NEW r \in Gates!Reviews, Gates!Asked(r), caller[r].kind = k, gate[k].expires = caller[r].expires
        PROVE  r = gate[k].of \/ gate[k].expires < caller[gate[k].of].expires
    BY <2>0, <2>1, <2>3 DEF JudgmentInv, Asking
  <2>4. ASSUME NEW r \in Gates!Reviews, Gates!Drop(r)
        PROVE  gate[k].expires < caller[gate[k].of].expires \/ caller[gate[k].of].step = "drop"
    BY <2>1, <2>3, <2>4 DEF Gates!Drop, Gates!Asked
  <2>5. ASSUME NEW r \in Gates!Reviews, Gates!Release(r)
        PROVE  gate[k].expires < caller[gate[k].of].expires \/ flow[gate[k].of].step = "release"
    <3>1. Gates!Asked(r) /\ flow[r].step = "release"
      BY <2>5 DEF Gates!Release, JudgmentInv, Unstarted, Gates!Asked
    <3>2. caller[r].kind = k /\ gate[k].expires = caller[r].expires
      BY <2>1, <2>5 DEF Gates!Release, Gates!OwnGate
    <3>. QED BY <2>3, <3>1, <3>2
  <2>6. CASE Gates!Cleanup
    BY <2>1, <2>6 DEF Gates!Cleanup
  <2>7. CASE gate' = gate
    BY <2>1, <2>7
  <2>. QED BY <2>2, <2>4, <2>5, <2>6, <2>7 DEF Gates!vars, Gates!Next, Gates!Steps, Gates!Create,
              Gates!CreateFails, Gates!Load, Gates!Extract, Gates!CheckAgain, Gates!Judge,
     Gates!Record, Gates!Errored, Gates!Edit, Gates!Tick
<1>. QED BY <1>1, JudgmentHolds, PTL DEF Gates!Spec
=============================================================================
