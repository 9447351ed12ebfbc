---------------------- MODULE BridgeConversationsProofs ----------------------
(***************************************************************************)
(* What the calls of a workspace's bots do to its conversations, for any   *)
(* number of calls and of external ids that name one conversation, and for *)
(* any number of lost replies and repeated calls.                          *)
(*                                                                         *)
(* The step of a call that writes trusts what its earlier steps found, so  *)
(* the invariant says of every step what the call still knows: an id, once *)
(* it leads to a conversation, leads to that one until the conversation is *)
(* undone (Settled, BoundTo), a conversation stays narrowed while a call   *)
(* of a private channel goes on (KeptPrivate), and a publication of its    *)
(* own is not there before its commit (Fresh).  What is undone is what a   *)
(* lost reply left; as long as only one was lost, only one call undoes     *)
(* (UndoOnce), which is why it leaves nothing.                             *)
(***************************************************************************)
EXTENDS BridgeConversations, FiniteSetTheorems, TLAPS

\* A call, as far as it is, and with what it carries from step to step.
CallState ==
  [pc: Steps, kind: {"public", "private"}, ids: SUBSET ExternalId,
   op: Operation \cup {"publish"}, audience: Bases, target: Call \cup {None},
   map: Call \cup {None}, archived: BOOLEAN, making: BOOLEAN]

Types ==
  /\ ids \in [ExternalId -> Call \cup {None}]
  /\ ceiling \in [Call -> Bases \cup {None}]
  /\ project \in [Call -> ProjectRow \cup {None}]
  /\ artifact \in [Call -> ArtifactRow \cup {None}]
  /\ request \in [Call -> [ids: SUBSET ExternalId, map: Call \cup {None}, done: BOOLEAN]]
  /\ live \in BOOLEAN
  /\ call \in [Call -> CallState]
  /\ secret \subseteq ExternalId
  /\ opened \subseteq Call
  /\ lost \in 0 .. MaxLost /\ retries \in 0 .. MaxRetries

\* What a row refers to is there.
Mapped == \A x \in ExternalId : ids[x] # None => ceiling[ids[x]] # None
Housed ==
  /\ \A m \in Call : ceiling[m] # None => project[m] # None
  /\ \A a \in Call : artifact[a] # None => project[artifact[a].project] # None
  /\ \A r \in Call : request[r].map # None => ceiling[request[r].map] # None

Routed == {"narrow", "narrowed", "alias", "attach", "attached"}
Bound == {"target", "final", "commit", "recover"}
Undoing == {"undo", "unmap", "drop"}

HasIds(c) ==
  /\ call[c].pc \notin {"new", "over"} => call[c].ids # {}
  /\ call[c].op # "publish" => call[c].target # None
KnowsMap(c) == call[c].pc \in Routed => Map(c) # None

\* What a call is to publish is not there before.
Unborn == Bound \cup {"unmap", "drop"}
Fresh(c) ==
  /\ call[c].pc \in Unborn => artifact[c] = None
  /\ artifact[c] # None => request[c].done

\* m is what the ids of xs lead to, to a request or to a call about to commit.
Settles(xs, m) ==
  /\ m # None
  /\ \E c \in Call : \/ request[c].ids = xs /\ request[c].map = m
                     \/ At(c, "commit") /\ call[c].ids = xs /\ Map(c) = m

Settled ==
  \A xs \in SUBSET ExternalId, m \in Call : Settles(xs, m) =>
    /\ m \in Mappings(xs)
    /\ \A n \in Call : Settles(xs, n) => n = m

KeptPrivate(c) ==
  Private(c) /\ call[c].pc \in {"alias", "attach", "attached", "verify"} =>
     Map(c) # None /\ ceiling[Map(c)] = "private"

Attaches(c) == \A x \in call[c].ids : ids[x] = Map(c)
Verified(c) == At(c, "verify") /\ Map(c) # None => Attaches(c)

BoundTo(c) == call[c].pc \in Bound => request[c].ids = call[c].ids /\ ~request[c].done

Published(a) == artifact[a] # None => artifact[a].project = request[a].map

\* What holds as long as no reply was lost.
InPlace ==
  /\ \A c \in Call : KeptPrivate(c) /\ Verified(c) /\ BoundTo(c) /\ Published(c)
  /\ Settled
  /\ ConversationNeverWidens

AllMapped == \A p \in Call : project[p] # None => ceiling[p] # None

\* Only a call whose reply was lost undoes, and it leaves nothing.
UndoOnce ==
  /\ lost = 0 => \A c \in Call : call[c].pc \notin Undoing
  /\ lost <= 1 => \A c, d \in Call : call[c].pc \in Undoing /\ call[d].pc \in Undoing => c = d
  /\ lost = 0 => AllMapped
  /\ lost <= 1 /\ (\E c \in Call : call[c].pc \in Undoing) => AllMapped
  /\ lost <= 1 => \A p \in Call : project[p] # None =>
       ceiling[p] # None \/ \E a \in Call : artifact[a] # None /\ artifact[a].project = p

\* The inductive strengthening of Confidential.
ConvInv ==
  /\ Types /\ Mapped /\ Housed
  /\ \A c \in Call : HasIds(c) /\ KnowsMap(c) /\ Fresh(c)
  /\ SharesWithinCeiling
  /\ lost = 0 => InPlace
  /\ UndoOnce

-----------------------------------------------------------------------------
(* What a resolution finds                                                 *)

LEMMA MappingsTyped ==
  ASSUME Types, NEW xs \in SUBSET ExternalId
  PROVE  Mappings(xs) \subseteq Call
BY DEF Types, Mappings

LEMMA MappingsFinite ==
  ASSUME Types, NEW xs \in SUBSET ExternalId
  PROVE  IsFiniteSet(Mappings(xs))
<1>. DEFINE T == {ids[x] : x \in xs}
            f == [x \in xs |-> ids[x]]
<1>1. IsFiniteSet(xs)
  BY BoundAssumption, FS_Subset
<1>2. f \in Surjection(xs, T)
  BY DEF Surjection
<1>3. IsFiniteSet(T)
  BY <1>1, <1>2, FS_Surjection
<1>. QED BY <1>3, FS_Subset, Mappings(xs) \in SUBSET T DEF Mappings

\* Not more than one mapping: none, or one.
LEMMA OneMapping ==
  ASSUME Types, NEW xs \in SUBSET ExternalId, ~(Cardinality(Mappings(xs)) > 1)
  PROVE  \A m, n \in Mappings(xs) : m = n
<1>1. IsFiniteSet(Mappings(xs)) /\ Cardinality(Mappings(xs)) \in Nat
  BY MappingsFinite, FS_CardinalityType
<1>2. CASE Cardinality(Mappings(xs)) = 0
  BY <1>1, <1>2, FS_EmptySet
<1>3. CASE Cardinality(Mappings(xs)) = 1
  BY <1>1, <1>3, FS_Singleton
<1>. QED BY <1>1, <1>2, <1>3

LEMMA SomeMapping ==
  ASSUME Types, NEW xs \in SUBSET ExternalId, Cardinality(Mappings(xs)) = 1
  PROVE  Mappings(xs) # {}
BY FS_EmptySet

-----------------------------------------------------------------------------
(* What the steps of a call leave of it                                    *)

LEMMA CallGo ==
  ASSUME Types, NEW c \in Call, NEW pc \in Steps, Go(c, pc)
  PROVE  /\ call' \in [Call -> CallState]
         /\ \A d \in Call : d # c => call'[d] = call[d]
         /\ call'[c].pc = pc /\ call'[c].ids = call[c].ids /\ call'[c].kind = call[c].kind
         /\ call'[c].op = call[c].op /\ call'[c].map = call[c].map /\ call'[c].target = call[c].target
<1>1. call[c] \in CallState /\ [call[c] EXCEPT !.pc = pc] \in CallState
  BY DEF Types, CallState
<1>2. call'[c] = [call[c] EXCEPT !.pc = pc]
  BY DEF Types, Go
<1>3. call' \in [Call -> CallState] /\ \A d \in Call : d # c => call'[d] = call[d]
  BY <1>1 DEF Types, Go
<1>. QED BY <1>1, <1>2, <1>3 DEF CallState

LEMMA CallOver ==
  ASSUME Types, NEW c \in Call, Over(c)
  PROVE  /\ call' \in [Call -> CallState]
         /\ \A d \in Call : d # c => call'[d] = call[d]
         /\ call'[c].pc = "over" /\ call'[c].op = "publish"
<1>1. [NoCall EXCEPT !.pc = "over"] \in CallState
  BY DEF CallState, NoCall, Steps, Bases
<1>. QED BY <1>1 DEF Types, Over, NoCall

LEMMA CallFound ==
  ASSUME Types, NEW c \in Call, NEW pc \in Steps, Found(c, pc)
  PROVE  /\ call' \in [Call -> CallState]
         /\ \A d \in Call : d # c => call'[d] = call[d]
         /\ call'[c].pc = pc /\ call'[c].ids = call[c].ids /\ call'[c].kind = call[c].kind
         /\ call'[c].op = call[c].op /\ call'[c].target = call[c].target
         /\ call'[c].map \in Mappings(call[c].ids) \cup {None}
         /\ Mappings(call[c].ids) # {} => call'[c].map \in Mappings(call[c].ids)
<1>. DEFINE M == Mappings(call[c].ids)
            m == IF M = {} THEN None ELSE CHOOSE n \in M : TRUE
            ar == \E n \in M : project[n].archived
            k == [call[c] EXCEPT !.pc = pc, !.map = m, !.archived = ar]
<1>1. call[c] \in CallState /\ call[c].ids \in SUBSET ExternalId
  BY DEF Types, CallState
<1>2. m \in M \cup {None} /\ (M # {} => m \in M)
  OBVIOUS
<1>3. m \in Call \cup {None}
  BY <1>1, <1>2, MappingsTyped
<1>4. ar \in BOOLEAN
  OBVIOUS
<1>. HIDE DEF m, ar
<1>5. k \in CallState
  BY <1>1, <1>3, <1>4 DEF CallState
<1>6. k.pc = pc /\ k.ids = call[c].ids /\ k.kind = call[c].kind /\ k.op = call[c].op /\ k.map = m
      /\ k.target = call[c].target
  BY <1>1 DEF CallState
<1>7. call' = [call EXCEPT ![c] = k]
  BY DEF Found, m, ar
<1>. HIDE DEF k, M
<1>8. call' \in [Call -> CallState] /\ call'[c] = k /\ \A d \in Call : d # c => call'[d] = call[d]
  BY <1>5, <1>7 DEF Types
<1>. QED BY <1>2, <1>6, <1>8 DEF M

-----------------------------------------------------------------------------
(* What stays when nothing is unmapped                                     *)

Grows ==
  /\ \A x \in ExternalId : ids[x] # None => ids'[x] = ids[x]
  /\ \A m \in Call : ceiling[m] = "private" => ceiling'[m] = "private"

LEMMA OthersStay ==
  ASSUME Types, InPlace, Grows, NEW d \in Call, call'[d] = call[d], request'[d] = request[d]
  PROVE  KeptPrivate(d)' /\ Verified(d)' /\ BoundTo(d)'
<1>1. call[d] \in CallState
  BY DEF Types
<1>2. KeptPrivate(d)'
  BY <1>1 DEF InPlace, KeptPrivate, Grows, CallState, At, Private, Map
<1>3. Verified(d)'
  BY <1>1 DEF InPlace, Verified, Attaches, Grows, CallState, At, Private, Map
<1>4. BoundTo(d)'
  BY DEF InPlace, BoundTo
<1>. QED BY <1>2, <1>3, <1>4

LEMMA SettledStays ==
  ASSUME Types, Settled, Grows, NEW ys \in SUBSET ExternalId, NEW n \in Call,
         \A xs \in SUBSET ExternalId, m \in Call : Settles(xs, m)' =>
           \/ Settles(xs, m)
           \/ xs = ys /\ m = n /\ n \in Mappings(ys)' /\ Mappings(ys) \subseteq {n}
  PROVE  Settled'
<1>1. ASSUME NEW xs \in SUBSET ExternalId, NEW m \in Mappings(xs), m \in Call
      PROVE  m \in Mappings(xs)'
  BY <1>1 DEF Types, Mappings, Grows
<1>2. ASSUME NEW xs \in SUBSET ExternalId, NEW m \in Call, Settles(xs, m)'
      PROVE  m \in Mappings(xs)'
  BY <1>1, <1>2 DEF Settled
<1>3. ASSUME NEW xs \in SUBSET ExternalId, NEW m \in Call, NEW k \in Call, Settles(xs, m)', Settles(xs, k)'
      PROVE  k = m
  BY <1>3 DEF Settled
<1>. QED BY <1>2, <1>3 DEF Settled

LEMMA SecretStays ==
  ASSUME Types, ConversationNeverWidens, Grows, secret' = secret
  PROVE  ConversationNeverWidens'
BY DEF Types, ConversationNeverWidens, Grows

-----------------------------------------------------------------------------
(* Steps that change nothing but the call                                  *)

LEMMA CallOnly ==
  ASSUME ConvInv, NEW c \in Call,
         UNCHANGED <<Conversations, Shared, request, live, secret, lost>>,
         retries' \in 0 .. MaxRetries,
         call' \in [Call -> CallState], \A d \in Call : d # c => call'[d] = call[d],
         HasIds(c)', KnowsMap(c)', call'[c].pc \in Unborn => call[c].pc \in Unborn,
         lost = 0 => KeptPrivate(c)' /\ Verified(c)' /\ BoundTo(c)',
         lost = 0 /\ call'[c].pc = "commit" /\ call'[c].map # None =>
           /\ call'[c].map \in Mappings(call'[c].ids)
           /\ Mappings(call'[c].ids) \subseteq {call'[c].map},
         call'[c].pc \in Undoing => call[c].pc \in Undoing
  PROVE  ConvInv'
<1>0. UNCHANGED <<ids, ceiling, project, artifact, request, live, secret, opened, lost>>
  BY DEF Conversations, Shared
<1>1. Types' /\ Types
  BY <1>0 DEF ConvInv, Types
<1>2. Mapped' /\ Housed' /\ SharesWithinCeiling'
  BY <1>0 DEF ConvInv, Mapped, Housed, SharesWithinCeiling
<1>3. ASSUME NEW d \in Call PROVE HasIds(d)' /\ KnowsMap(d)' /\ Fresh(d)'
  BY <1>0 DEF ConvInv, HasIds, KnowsMap, Map, Fresh
<1>4. UndoOnce'
  BY <1>0 DEF ConvInv, UndoOnce, AllMapped
<1>5. ASSUME lost = 0 PROVE InPlace'
  <2>0. InPlace /\ Grows
    BY <1>0, <1>5 DEF ConvInv, Grows
  <2>1. ASSUME NEW d \in Call PROVE KeptPrivate(d)' /\ Verified(d)' /\ BoundTo(d)' /\ Published(d)'
    <3>1. Published(d)'
      BY <1>0, <2>0 DEF InPlace, Published
    <3>2. CASE d = c
      BY <1>5, <3>1, <3>2
    <3>3. CASE d # c
      BY <1>0, <1>1, <2>0, <3>1, <3>3, OthersStay
    <3>. QED BY <3>2, <3>3
  <2>2. Settled'
    <3>1. PICK ys \in SUBSET ExternalId, n \in Call \cup {None} : ys = call'[c].ids /\ n = call'[c].map
      BY <1>1 DEF Types, CallState
    <3>2. CASE At(c, "commit")' /\ n # None
      <4>1. Mappings(ys)' = Mappings(ys)
        BY <1>0 DEF Mappings
      <4>2. n \in Call /\ n \in Mappings(ys)' /\ Mappings(ys) \subseteq {n}
        BY <1>5, <3>1, <3>2, <4>1 DEF At
      <4>3. ASSUME NEW xs \in SUBSET ExternalId, NEW m \in Call, Settles(xs, m)'
            PROVE  Settles(xs, m) \/ (xs = ys /\ m = n)
        <5>1. PICK d \in Call : \/ request[d].ids = xs /\ request[d].map = m
                                \/ call'[d].pc = "commit" /\ call'[d].ids = xs /\ call'[d].map = m
          BY <1>0, <4>3 DEF Settles, At, Map
        <5>2. m # None
          BY <4>3 DEF Settles
        <5>. QED BY <3>1, <5>1, <5>2 DEF Settles, At, Map
      <4>. QED BY <1>1, <2>0, <3>1, <4>2, <4>3, SettledStays DEF InPlace
    <3>3. CASE ~(At(c, "commit")' /\ n # None)
      <4>1. ASSUME NEW xs \in SUBSET ExternalId, NEW m \in Call, Settles(xs, m)'
            PROVE  Settles(xs, m)
        <5>1. PICK d \in Call : \/ request[d].ids = xs /\ request[d].map = m
                                \/ call'[d].pc = "commit" /\ call'[d].ids = xs /\ call'[d].map = m
          BY <1>0, <4>1 DEF Settles, At, Map
        <5>2. m # None
          BY <4>1 DEF Settles
        <5>. QED BY <3>1, <3>3, <5>1, <5>2 DEF Settles, At, Map
      <4>. QED BY <1>1, <2>0, <4>1, <3>1, SettledStays DEF InPlace
    <3>. QED BY <3>2, <3>3
  <2>3. ConversationNeverWidens'
    BY <1>0, <2>0 DEF InPlace, ConversationNeverWidens
  <2>. QED BY <2>1, <2>2, <2>3 DEF InPlace
<1>. QED BY <1>0, <1>1, <1>2, <1>3, <1>4, <1>5 DEF ConvInv

\* A step that keeps the call's ids and mapping, to a place that asks no more of them.
LEMMA GoKeeps ==
  ASSUME ConvInv, NEW c \in Call, NEW pc \in Steps, Go(c, pc),
         UNCHANGED <<Conversations, Shared, request, live, secret, lost>>,
         retries' \in 0 .. MaxRetries,
         pc = "new" \/ call[c].pc \notin {"new", "over"},
         pc \in Routed => Map(c) # None,
         pc \in {"alias", "attach", "attached", "verify"} =>
           call[c].pc \in {"alias", "attach", "attached"} \/ ~Private(c) \/ (ceiling[Map(c)] = "private" /\ Map(c) # None),
         pc = "verify" => Attaches(c),
         pc \in Bound => call[c].pc \in Bound, pc \in Unborn => call[c].pc \in Unborn,
         pc # "commit", pc \in Undoing => call[c].pc \in Undoing
  PROVE  ConvInv'
<1>0. UNCHANGED <<ids, ceiling, project, artifact, request, live, secret, opened, lost>>
  BY DEF Conversations, Shared
<1>1. Types /\ call[c] \in CallState
  BY DEF ConvInv, Types
<1>. DEFINE k == call'[c]
<1>2. /\ call' \in [Call -> CallState]
      /\ \A d \in Call : d # c => call'[d] = call[d]
      /\ k.pc = pc /\ k.ids = call[c].ids /\ k.kind = call[c].kind /\ k.map = call[c].map
      /\ k.op = call[c].op /\ k.target = call[c].target
  BY <1>1, CallGo
<1>3. HasIds(c)' /\ KnowsMap(c)'
  BY <1>2 DEF ConvInv, HasIds, KnowsMap, Map, Routed
<1>4. ASSUME lost = 0 PROVE KeptPrivate(c)' /\ Verified(c)' /\ BoundTo(c)'
  <2>1. InPlace
    BY <1>4 DEF ConvInv
  <2>2. KeptPrivate(c)'
    BY <1>0, <1>2, <2>1 DEF InPlace, KeptPrivate, Map, Private
  <2>3. Verified(c)'
    BY <1>0, <1>2 DEF Verified, Attaches, At, Map
  <2>4. BoundTo(c)'
    BY <1>0, <1>2, <2>1 DEF InPlace, BoundTo
  <2>. QED BY <2>2, <2>3, <2>4
<1>. QED BY <1>2, <1>3, <1>4, CallOnly

LEMMA OverKeeps ==
  ASSUME ConvInv, NEW c \in Call, Over(c),
         UNCHANGED <<Conversations, Shared, request, live, secret, retries, lost>>
  PROVE  ConvInv'
<1>1. Types /\ retries' \in 0 .. MaxRetries
  BY DEF ConvInv, Types
<1>2. /\ call' \in [Call -> CallState]
      /\ \A d \in Call : d # c => call'[d] = call[d]
      /\ call'[c].pc = "over" /\ call'[c].op = "publish"
  BY <1>1, CallOver
<1>3. HasIds(c)' /\ KnowsMap(c)' /\ KeptPrivate(c)' /\ Verified(c)' /\ BoundTo(c)'
  BY <1>2 DEF HasIds, KnowsMap, KeptPrivate, Verified, Attaches, BoundTo, Routed, Bound, At
<1>4. call'[c].pc \notin Undoing /\ call'[c].pc \notin Unborn /\ call'[c].pc # "commit"
  BY <1>2 DEF Undoing, Unborn, Bound
<1>. QED BY <1>1, <1>2, <1>3, <1>4, CallOnly

LEMMA BeginKeeps ==
  ASSUME ConvInv, NEW c \in Call, Begin(c)
  PROVE  ConvInv'
<1>1. PICK kind \in {"public", "private"}, xs \in (SUBSET ExternalId) \ {{}}, op \in Operation,
           audience \in Bases, target \in Call \cup {None} :
        /\ op = "publish" <=> target = None
        /\ call' = [call EXCEPT ![c] = Asks(kind, xs, op, audience, target)]
  BY DEF Begin
<1>. DEFINE k == Asks(kind, xs, op, audience, target)
<1>2. k \in CallState /\ k.pc = "resolve" /\ k.ids # {} /\ (k.op # "publish" => k.target # None)
  BY <1>1 DEF Asks, CallState, Steps
<1>. HIDE DEF k
<1>3. /\ call' \in [Call -> CallState] /\ call'[c] = k
      /\ \A d \in Call : d # c => call'[d] = call[d]
  BY <1>1, <1>2 DEF ConvInv, Types, k
<1>4. HasIds(c)' /\ KnowsMap(c)' /\ KeptPrivate(c)' /\ Verified(c)' /\ BoundTo(c)'
  BY <1>2, <1>3 DEF HasIds, KnowsMap, KeptPrivate, Verified, Attaches, BoundTo, Routed, Bound, At
<1>5. UNCHANGED <<Conversations, Shared, request, live, secret, lost>> /\ retries' \in 0 .. MaxRetries
  BY DEF Begin, ConvInv, Types
<1>. QED BY <1>2, <1>3, <1>4, <1>5, CallOnly DEF Undoing, Unborn, Bound

\* What was found, before the commit.
LEMMA FoundKeeps ==
  ASSUME ConvInv, NEW c \in Call, NEW pc \in {"create", "narrow", "verify", "alias"}, Found(c, pc),
         UNCHANGED <<Conversations, Shared, request, live, secret, retries, lost>>,
         call[c].pc \notin {"new", "over"},
         pc \in {"narrow", "alias"} => Mappings(call[c].ids) # {},
         pc \in {"alias", "verify"} => ~Private(c),
         pc = "verify" => Mappings(call[c].ids) = {}
  PROVE  ConvInv'
<1>1. Types /\ retries' \in 0 .. MaxRetries /\ pc \in Steps /\ call[c].ids \in SUBSET ExternalId
  BY DEF ConvInv, Types, Steps, CallState
<1>. DEFINE k == call'[c]
<1>2. /\ call' \in [Call -> CallState]
      /\ \A d \in Call : d # c => call'[d] = call[d]
      /\ k.pc = pc /\ k.ids = call[c].ids /\ k.kind = call[c].kind
      /\ k.op = call[c].op /\ k.target = call[c].target
      /\ k.map \in Mappings(call[c].ids) \cup {None}
      /\ Mappings(call[c].ids) # {} => k.map \in Mappings(call[c].ids)
  BY <1>1, CallFound
<1>3. None \notin Mappings(call[c].ids)
  BY DEF Mappings
<1>4. HasIds(c)' /\ KnowsMap(c)'
  BY <1>2, <1>3 DEF ConvInv, HasIds, KnowsMap, Map, Routed
<1>5. KeptPrivate(c)' /\ Verified(c)' /\ BoundTo(c)'
  BY <1>2, <1>3 DEF KeptPrivate, Verified, Attaches, BoundTo, Bound, At, Map, Private
<1>. QED BY <1>1, <1>2, <1>4, <1>5, CallOnly DEF Undoing, Unborn, Bound

LEMMA ResolveKeeps ==
  ASSUME ConvInv, NEW c \in Call, Resolve(c)
  PROVE  ConvInv'
<1>1. CASE Over(c)
  BY <1>1, OverKeeps DEF Resolve
<1>2. CASE ~Over(c)
  <2>. DEFINE pc == IF Private(c) THEN (IF Mappings(call[c].ids) = {} THEN "create" ELSE "narrow")
                    ELSE (IF Mappings(call[c].ids) = {} THEN "verify" ELSE "alias")
  <2>1. Found(c, pc) /\ pc \in {"create", "narrow", "verify", "alias"}
    BY <1>2 DEF Resolve
  <2>. QED BY <2>1, FoundKeeps DEF Resolve, At
<1>. QED BY <1>1, <1>2

LEMMA CreatedKeeps ==
  ASSUME ConvInv, NEW c \in Call, Created(c)
  PROVE  ConvInv'
<1>1. At(c, "created") /\ UNCHANGED <<Conversations, Shared, request, live, secret, retries, lost>>
      /\ retries' \in 0 .. MaxRetries /\ Types /\ call[c].ids \in SUBSET ExternalId
  BY DEF Created, ConvInv, Types, CallState
<1>2. CASE Over(c)
  BY <1>1, <1>2, OverKeeps
<1>3. CASE Go(c, "create")
  BY <1>1, <1>3, GoKeeps DEF Steps, At, Routed, Bound, Undoing, Unborn
<1>4. CASE Found(c, "narrow") /\ Cardinality(Mappings(call[c].ids)) = 1
  BY <1>1, <1>4, FoundKeeps, SomeMapping DEF At
<1>. QED BY <1>2, <1>3, <1>4 DEF Created

LEMMA FinalKeeps ==
  ASSUME ConvInv, NEW c \in Call, Final(c)
  PROVE  ConvInv'
<1>1. At(c, "final") /\ UNCHANGED <<Conversations, Shared, request, live, secret, retries, lost>>
      /\ retries' \in 0 .. MaxRetries /\ Types /\ call[c].ids \in SUBSET ExternalId
  BY DEF Final, ConvInv, Types, CallState
<1>2. CASE Over(c)
  BY <1>1, <1>2, OverKeeps
<1>3. CASE Found(c, "commit") /\ ~(Cardinality(Mappings(call[c].ids)) > 1)
  <2>. DEFINE k == call'[c]
              M == Mappings(call[c].ids)
  <2>1. /\ call' \in [Call -> CallState]
        /\ \A d \in Call : d # c => call'[d] = call[d]
        /\ k.pc = "commit" /\ k.ids = call[c].ids /\ k.kind = call[c].kind
        /\ k.op = call[c].op /\ k.target = call[c].target
        /\ k.map \in M \cup {None}
    BY <1>1, <1>3, CallFound DEF Steps
  <2>2. \A m, n \in M : m = n
    BY <1>1, <1>3, OneMapping
  <2>3. HasIds(c)' /\ KnowsMap(c)'
    BY <1>1, <2>1 DEF ConvInv, HasIds, KnowsMap, Map, Routed, At
  <2>4. KeptPrivate(c)' /\ Verified(c)' 
    BY <2>1 DEF KeptPrivate, Verified, Attaches, At
  <2>5. lost = 0 => BoundTo(c)'
    BY <1>1, <2>1 DEF ConvInv, InPlace, BoundTo, Bound, At
  <2>6. k.map # None => k.map \in Mappings(k.ids) /\ Mappings(k.ids) \subseteq {k.map}
    BY <2>1, <2>2
  <2>. QED BY <1>1, <2>1, <2>3, <2>4, <2>5, <2>6, CallOnly DEF Undoing, Unborn, Bound, At
<1>. QED BY <1>2, <1>3 DEF Final

\* The other steps of a call that write nothing.
LEMMA LooksKeep ==
  ASSUME ConvInv, NEW c \in Call,
         CreateFails(c) \/ NarrowFails(c) \/ Narrowed(c) \/ Alias(c) \/ Attached(c) \/ FindTarget(c)
           \/ CommitFails(c) \/ Recover(c) \/ GiveUp(c) \/ Retry(c)
  PROVE  ConvInv'
<1>0. retries \in 0 .. MaxRetries /\ Nat = Nat /\ MaxRetries \in Nat
  BY BoundAssumption DEF ConvInv, Types
<1>. USE DEF Steps, At, Routed, Bound, Undoing, Unborn
<1>1. CASE CreateFails(c)
  BY <1>0, <1>1, GoKeeps DEF CreateFails
<1>2. CASE NarrowFails(c)
  BY <1>2, OverKeeps DEF NarrowFails
<1>3. CASE Narrowed(c)
  <2>1. CASE Over(c)
    BY <1>3, <2>1, OverKeeps DEF Narrowed
  <2>2. CASE Go(c, "alias") /\ ceiling[Map(c)] = "private"
    <3>1. Map(c) # None
      BY <1>3 DEF Narrowed, ConvInv, KnowsMap
    <3>. QED BY <1>0, <1>3, <2>2, <3>1, GoKeeps DEF Narrowed
  <2>. QED BY <1>3, <2>1, <2>2 DEF Narrowed
<1>4. CASE Alias(c)
  <2>1. CASE Over(c)
    BY <1>4, <2>1, OverKeeps DEF Alias
  <2>2. CASE Go(c, "attach")
    <3>1. Map(c) # None
      BY <1>4 DEF Alias, ConvInv, KnowsMap
    <3>. QED BY <1>0, <1>4, <2>2, <3>1, GoKeeps DEF Alias
  <2>. QED BY <1>4, <2>1, <2>2 DEF Alias
<1>5. CASE Attached(c)
  <2>1. CASE Over(c)
    BY <1>5, <2>1, OverKeeps DEF Attached
  <2>2. CASE Go(c, "verify") /\ Attaches(c)
    <3>1. call[c].pc = "attached" /\ UNCHANGED <<Conversations, Shared, request, live, secret, lost>>
          /\ retries' \in 0 .. MaxRetries
      BY <1>0, <1>5 DEF Attached
    <3>. QED BY <2>2, <3>1, GoKeeps
  <2>. QED BY <1>5, <2>1, <2>2 DEF Attached, Attaches
<1>6. CASE FindTarget(c)
  BY <1>0, <1>6, OverKeeps, GoKeeps DEF FindTarget
<1>7. CASE CommitFails(c)
  BY <1>0, <1>7, OverKeeps, GoKeeps DEF CommitFails
<1>8. CASE Recover(c)
  BY <1>0, <1>8, OverKeeps, GoKeeps DEF Recover
<1>9. CASE GiveUp(c)
  BY <1>9, OverKeeps DEF GiveUp
<1>10. CASE Retry(c)
  <2>1. retries' \in 0 .. MaxRetries
    BY <1>0, <1>10 DEF Retry
  <2>. QED BY <1>10, <2>1, GoKeeps DEF Retry
<1>. QED BY <1>1, <1>2, <1>3, <1>4, <1>5, <1>6, <1>7, <1>8, <1>9, <1>10

-----------------------------------------------------------------------------
(* What people do                                                          *)

LEMMA PeopleKeep ==
  ASSUME ConvInv, NEW p, StopBot \/ (p \in Call /\ (Archive(p) \/ OpenProject(p) \/ OpenArtifact(p)))
  PROVE  ConvInv'
<1>0. UNCHANGED <<ids, ceiling, request, call, secret, retries, lost>>
  BY DEF Archive, OpenProject, OpenArtifact, StopBot, Conversations, Shared
<1>1. /\ project' \in [Call -> ProjectRow \cup {None}]
      /\ \A q \in Call : project'[q] # None <=> project[q] # None
  <2>0. project \in [Call -> ProjectRow \cup {None}] /\ None \notin ProjectRow
    BY BoundAssumption DEF ConvInv, Types
  <2>1. CASE Archive(p)
    <3>1. project[p] \in ProjectRow /\ project[p] # None
      BY <2>0, <2>1 DEF Archive, Active
    <3>2. [project[p] EXCEPT !.archived = TRUE] \in ProjectRow
      BY <3>1 DEF ProjectRow
    <3>3. project' = [project EXCEPT ![p] = [project[p] EXCEPT !.archived = TRUE]]
      BY <2>1 DEF Archive
    <3>. QED BY <2>0, <3>1, <3>2, <3>3
  <2>2. CASE OpenProject(p)
    <3>1. project[p] \in ProjectRow /\ project[p] # None
      BY <2>0, <2>2 DEF OpenProject, Active
    <3>2. [project[p] EXCEPT !.base = "workspace"] \in ProjectRow
      BY <3>1 DEF ProjectRow, Bases
    <3>3. project' = [project EXCEPT ![p] = [project[p] EXCEPT !.base = "workspace"]]
      BY <2>2 DEF OpenProject
    <3>. QED BY <2>0, <3>1, <3>2, <3>3
  <2>3. CASE project' = project
    BY <2>0, <2>3
  <2>. QED BY <2>1, <2>2, <2>3 DEF OpenArtifact, StopBot, Conversations
<1>2. \A a \in Call : /\ artifact'[a] # None <=> artifact[a] # None
                      /\ artifact[a] # None => artifact'[a].project = artifact[a].project
  BY BoundAssumption DEF Archive, OpenProject, OpenArtifact, StopBot, Shared, ConvInv, Types,
     ArtifactRow
<1>3. Types' /\ Types
  <2>2. artifact' \in [Call -> ArtifactRow \cup {None}]
    BY BoundAssumption DEF Archive, OpenProject, OpenArtifact, StopBot, Shared, ConvInv, Types,
       ArtifactRow
  <2>3. live' \in BOOLEAN /\ opened' \subseteq Call
    BY DEF Archive, OpenProject, OpenArtifact, StopBot, Shared, ConvInv, Types
  <2>. QED BY <1>0, <1>1, <2>2, <2>3 DEF ConvInv, Types
<1>4. Mapped' /\ Housed'
  <2>1. \A a \in Call : artifact[a] # None => artifact[a].project \in Call
    BY BoundAssumption DEF ConvInv, Types, ArtifactRow
  <2>. QED BY <1>0, <1>1, <1>2, <2>1 DEF ConvInv, Mapped, Housed
<1>5. SharesWithinCeiling'
  <2>1. CASE UNCHANGED <<artifact, opened>>
    BY <1>0, <2>1 DEF ConvInv, SharesWithinCeiling
  <2>2. CASE OpenArtifact(p)
    <3>1. opened' = opened \cup {p} /\ \A a \in Call : a # p => artifact'[a] = artifact[a]
      BY <2>2 DEF OpenArtifact, ConvInv, Types
    <3>. QED BY <1>0, <3>1 DEF ConvInv, SharesWithinCeiling
  <2>. QED BY <2>1, <2>2 DEF Archive, OpenProject, StopBot, Shared
<1>6. \A c \in Call : HasIds(c)' /\ KnowsMap(c)' /\ Fresh(c)'
  BY <1>0, <1>2 DEF ConvInv, HasIds, KnowsMap, Fresh, Map
<1>7. UndoOnce'
  BY <1>0, <1>1, <1>2 DEF ConvInv, UndoOnce, AllMapped
<1>8. ASSUME lost = 0 PROVE InPlace'
  <2>0. InPlace
    BY <1>8 DEF ConvInv
  <2>1. ASSUME NEW d \in Call PROVE KeptPrivate(d)' /\ Verified(d)' /\ BoundTo(d)' /\ Published(d)'
    BY <1>0, <1>2, <2>0 DEF InPlace, KeptPrivate, Verified, Attaches, BoundTo, Published, At,
       Map, Private
  <2>2. Settled' /\ ConversationNeverWidens'
    BY <1>0, <2>0 DEF InPlace, Settled, Settles, Mappings, ConversationNeverWidens, At, Map
  <2>. QED BY <2>1, <2>2 DEF InPlace
<1>. QED BY <1>0, <1>3, <1>4, <1>5, <1>6, <1>7, <1>8 DEF ConvInv

-----------------------------------------------------------------------------
(* Steps of a call that write                                              *)

\* Nothing is unmapped: what is in place stays, and what c did is in place too.
LEMMA InPlaceStays ==
  ASSUME Types, Types', InPlace, Grows, NEW c \in Call,
         \A d \in Call : d # c => call'[d] = call[d] /\ request'[d] = request[d],
         KeptPrivate(c)', Verified(c)', BoundTo(c)', \A a \in Call : Published(a)',
         secret' = secret \/ ConversationNeverWidens',
         NEW ys \in SUBSET ExternalId, NEW n \in Call,
         \A xs \in SUBSET ExternalId, m \in Call : Settles(xs, m)' =>
           \/ Settles(xs, m)
           \/ xs = ys /\ m = n /\ n \in Mappings(ys)' /\ Mappings(ys) \subseteq {n}
  PROVE  InPlace'
<1>1. ASSUME NEW d \in Call PROVE KeptPrivate(d)' /\ Verified(d)' /\ BoundTo(d)' /\ Published(d)'
  <2>1. CASE d = c
    BY <2>1
  <2>2. CASE d # c
    BY <2>2, OthersStay
  <2>. QED BY <2>1, <2>2
<1>2. Settled'
  BY SettledStays DEF InPlace
<1>3. ConversationNeverWidens'
  BY SecretStays DEF InPlace
<1>. QED BY <1>1, <1>2, <1>3 DEF InPlace

\* A call that is not at its commit and leaves the requests settles nothing.
LEMMA SettlesNothing ==
  ASSUME NEW c \in Call, request' = request, \A d \in Call : d # c => call'[d] = call[d],
         call'[c].pc # "commit",
         NEW xs \in SUBSET ExternalId, NEW m \in Call, Settles(xs, m)'
  PROVE  Settles(xs, m)
<1>1. PICK d \in Call : \/ request[d].ids = xs /\ request[d].map = m
                        \/ call'[d].pc = "commit" /\ call'[d].ids = xs /\ call'[d].map = m
  BY DEF Settles, At, Map
<1>2. m # None
  BY DEF Settles
<1>. QED BY <1>1, <1>2 DEF Settles, At, Map

\* No project is left behind by a step that unmaps and removes nothing.
LEMMA UndoStays ==
  ASSUME UndoOnce, lost \in Nat, lost' \in {lost, lost + 1}, NEW c \in Call,
         \A p \in Call : project'[p] # None =>
           \/ ceiling'[p] # None
           \/ project[p] # None /\ ceiling[p] = None,
         \A a \in Call : artifact[a] # None =>
           artifact'[a] # None /\ artifact'[a].project = artifact[a].project,
         \A d \in Call : d # c => call'[d] = call[d],
         call'[c].pc \in Undoing => call[c].pc \in Undoing \/ lost' = lost + 1
  PROVE  UndoOnce'
<1>1. ASSUME AllMapped PROVE AllMapped'
  BY <1>1 DEF AllMapped
<1>2. lost' = 0 => AllMapped' /\ \A d \in Call : call'[d].pc \notin Undoing
  BY <1>1 DEF UndoOnce
<1>3. lost' <= 1 => \A d, e \in Call : call'[d].pc \in Undoing /\ call'[e].pc \in Undoing => d = e
  BY DEF UndoOnce
<1>4. lost' <= 1 /\ (\E d \in Call : call'[d].pc \in Undoing) => AllMapped'
  BY <1>1 DEF UndoOnce
<1>5. lost' <= 1 => \A p \in Call : project'[p] # None =>
        ceiling'[p] # None \/ \E a \in Call : artifact'[a] # None /\ artifact'[a].project = p
  BY DEF UndoOnce
<1>. QED BY <1>2, <1>3, <1>4, <1>5 DEF UndoOnce

\* A project and a conversation of its own, for ids that none had.
LEMMA Maps ==
  ASSUME ConvInv, NEW c \in Call, NEW base \in Bases, Mappable(c), MapTo(c, base)
  PROVE  /\ project' \in [Call -> ProjectRow \cup {None}]
         /\ ceiling' \in [Call -> Bases \cup {None}]
         /\ ids' \in [ExternalId -> Call \cup {None}]
         /\ project'[c] # None /\ project'[c] \in ProjectRow /\ project'[c].base = base /\ ceiling'[c] = base
         /\ \A p \in Call : p # c => project'[p] = project[p] /\ ceiling'[p] = ceiling[p]
         /\ \A x \in ExternalId : IF x \in call[c].ids THEN ids[x] = None /\ ids'[x] = c ELSE ids'[x] = ids[x]
         /\ project[c] = None /\ ceiling[c] = None
         /\ \A a \in Call : artifact[a] # None => artifact[a].project # c
         /\ Mapped' /\ Grows
         /\ \A m \in Call : ceiling'[m] # None => project'[m] # None
<1>. DEFINE row == [base |-> base, archived |-> FALSE]
<1>0. /\ row \in ProjectRow /\ row.base = base /\ None \notin ProjectRow /\ None \notin Call /\ None \notin Bases
  BY BoundAssumption DEF ProjectRow
<1>1. /\ project' = [project EXCEPT ![c] = row]
      /\ ceiling' = [ceiling EXCEPT ![c] = base]
      /\ ids' = [x \in ExternalId |-> IF x \in call[c].ids THEN c ELSE ids[x]]
  BY DEF MapTo
<1>. HIDE DEF row
<1>2. /\ project' \in [Call -> ProjectRow \cup {None}]
      /\ ceiling' \in [Call -> Bases \cup {None}]
      /\ ids' \in [ExternalId -> Call \cup {None}]
      /\ project'[c] = row /\ ceiling'[c] = base
      /\ \A p \in Call : p # c => project'[p] = project[p] /\ ceiling'[p] = ceiling[p]
  BY <1>0, <1>1 DEF ConvInv, Types
<1>3. call[c].ids \subseteq ExternalId /\ \A x \in call[c].ids : ids[x] = None
  BY DEF ConvInv, Types, CallState, Mappable, Unclaimed
<1>4. \A x \in ExternalId : IF x \in call[c].ids THEN ids[x] = None /\ ids'[x] = c ELSE ids'[x] = ids[x]
  BY <1>1, <1>3
<1>5. project[c] = None /\ ceiling[c] = None
  BY DEF ConvInv, Housed, Mappable
<1>6. \A a \in Call : artifact[a] # None => artifact[a].project # c
  BY <1>5 DEF ConvInv, Housed
<1>7. Mapped'
  BY <1>0, <1>2, <1>4, <1>5 DEF ConvInv, Mapped, Types
<1>8. Grows
  BY <1>0, <1>2, <1>4, <1>5 DEF Grows, Bases
<1>9. \A m \in Call : ceiling'[m] # None => project'[m] # None
  BY <1>0, <1>2 DEF ConvInv, Housed
<1>. QED BY <1>0, <1>2, <1>4, <1>5, <1>6, <1>7, <1>8, <1>9

LEMMA CreateKeeps ==
  ASSUME ConvInv, NEW c \in Call, Create(c)
  PROVE  ConvInv'
<1>0. /\ At(c, "create") /\ UNCHANGED <<artifact, opened, request, live, secret, retries>>
      /\ Mappable(c) /\ MapTo(c, "private") /\ Types /\ lost \in Nat /\ "private" \in Bases
  BY BoundAssumption DEF Create, Shared, ConvInv, Types, Bases
<1>1. lost' \in {lost, lost + 1} /\ lost' \in 0 .. MaxLost
  BY <1>0, BoundAssumption DEF Create, Lose, ConvInv, Types
<1>2. /\ project' \in [Call -> ProjectRow \cup {None}]
      /\ ceiling' \in [Call -> Bases \cup {None}]
      /\ ids' \in [ExternalId -> Call \cup {None}]
      /\ project'[c] # None /\ ceiling'[c] = "private"
      /\ \A p \in Call : p # c => project'[p] = project[p] /\ ceiling'[p] = ceiling[p]
      /\ project[c] = None /\ ceiling[c] = None
      /\ \A a \in Call : artifact[a] # None => artifact[a].project # c
      /\ Mapped' /\ Grows
      /\ \A m \in Call : ceiling'[m] # None => project'[m] # None
  BY <1>0, Maps
<1>3. /\ call' \in [Call -> CallState]
      /\ \A d \in Call : d # c => call'[d] = call[d]
      /\ call'[c].pc \in {"narrow", "created"} /\ call'[c].ids = call[c].ids
      /\ call'[c].op = call[c].op /\ call'[c].target = call[c].target
      /\ call'[c].pc = "narrow" => call'[c].map = c
  <2>1. CASE Go(c, "created")
    BY <1>0, <2>1, CallGo DEF Steps
  <2>2. CASE call' = [call EXCEPT ![c].pc = "narrow", ![c].map = c]
    <3>1. call[c] \in CallState
      BY <1>0 DEF Types
    <3>2. [call[c] EXCEPT !.pc = "narrow", !.map = c] \in CallState
      BY <3>1 DEF CallState, Steps
    <3>3. call' = [call EXCEPT ![c] = [call[c] EXCEPT !.pc = "narrow", !.map = c]]
      BY <1>0, <2>2 DEF Types
    <3>4. call'[c] = [call[c] EXCEPT !.pc = "narrow", !.map = c]
      BY <1>0, <3>3 DEF Types
    <3>5. call' \in [Call -> CallState] /\ \A d \in Call : d # c => call'[d] = call[d]
      BY <1>0, <3>2, <3>3 DEF Types
    <3>. QED BY <3>1, <3>4, <3>5 DEF CallState
  <2>. QED BY <2>1, <2>2 DEF Create
<1>4. Types'
  BY <1>0, <1>1, <1>2, <1>3 DEF Types
<1>5. Housed'
  BY <1>0, <1>2, BoundAssumption DEF ConvInv, Housed, Types, ArtifactRow
<1>6. SharesWithinCeiling'
  BY <1>0, <1>2, BoundAssumption DEF ConvInv, SharesWithinCeiling, Types, ArtifactRow
<1>7. ASSUME NEW d \in Call PROVE HasIds(d)' /\ KnowsMap(d)' /\ Fresh(d)'
  <2>1. CASE d # c
    BY <1>0, <1>3, <2>1 DEF ConvInv, HasIds, KnowsMap, Fresh, Map
  <2>2. CASE d = c
    BY <1>0, <1>3, <2>2, BoundAssumption DEF ConvInv, HasIds, KnowsMap, Fresh, Map, At, Routed,
       Unborn, Bound
  <2>. QED BY <2>1, <2>2
<1>8. UndoOnce'
  <2>1. call'[c].pc \notin Undoing
    BY <1>3 DEF Undoing
  <2>2. \A p \in Call : project'[p] # None => ceiling'[p] # None \/ (project[p] # None /\ ceiling[p] = None)
    BY <1>2, BoundAssumption DEF Bases
  <2>. QED BY <1>0, <1>1, <1>3, <2>1, <2>2, UndoStays DEF ConvInv
<1>9. ASSUME lost' = 0 PROVE InPlace'
  <2>1. InPlace
    BY <1>0, <1>1, <1>9 DEF ConvInv
  <2>2. KeptPrivate(c)' /\ Verified(c)' /\ BoundTo(c)'
    BY <1>3 DEF KeptPrivate, Verified, BoundTo, Bound, At
  <2>3. \A a \in Call : Published(a)'
    BY <1>0, <2>1 DEF InPlace, Published
  <2>4. ASSUME NEW xs \in SUBSET ExternalId, NEW m \in Call, Settles(xs, m)' PROVE Settles(xs, m)
    BY <1>0, <1>3, <2>4, SettlesNothing
  <2>. QED BY <1>0, <1>2, <1>3, <1>4, <2>1, <2>2, <2>3, <2>4, InPlaceStays,
              call[c].ids \in SUBSET ExternalId DEF CallState, Types
<1>. QED BY <1>2, <1>4, <1>5, <1>6, <1>7, <1>8, <1>9 DEF ConvInv

\* What the batch of a narrowing does, whether it finds the authority live or not.
LEMMA Narrows ==
  ASSUME ConvInv, NEW m \in Call, Narrowing(m)
  PROVE  /\ ceiling' \in [Call -> Bases \cup {None}]
         /\ project' \in [Call -> ProjectRow \cup {None}]
         /\ artifact' \in [Call -> ArtifactRow \cup {None}]
         /\ opened' \subseteq Call
         /\ \A p \in Call : /\ project'[p] # None <=> project[p] # None
                            /\ ceiling'[p] # None <=> ceiling[p] # None
                            /\ ceiling[p] = "private" => ceiling'[p] = "private"
         /\ \A a \in Call : /\ artifact'[a] # None <=> artifact[a] # None
                            /\ artifact[a] # None => artifact'[a].project = artifact[a].project
         /\ SharesWithinCeiling'
<1>0. Types /\ SharesWithinCeiling /\ None \notin Bases /\ None \notin ProjectRow /\ None \notin ArtifactRow
  BY BoundAssumption DEF ConvInv
<1>1. CASE ~live
  BY <1>0, <1>1 DEF Narrowing, Types, SharesWithinCeiling
<1>2. CASE live
  <2>1. /\ ceiling' = [ceiling EXCEPT ![m] = IF ceiling[m] = None THEN None ELSE "private"]
        /\ project' = IF project[m] = None \/ project[m].archived THEN project
                      ELSE [project EXCEPT ![m].base = "private"]
        /\ artifact' = Closed(m)
        /\ opened' = {a \in opened : artifact[a] = None \/ artifact[a].project # m}
    BY <1>0, <1>2 DEF Narrowing, Types
  <2>2. /\ ceiling' \in [Call -> Bases \cup {None}]
        /\ \A p \in Call : /\ ceiling'[p] # None <=> ceiling[p] # None
                           /\ ceiling[p] = "private" => ceiling'[p] = "private"
                           /\ p # m => ceiling'[p] = ceiling[p]
    BY <1>0, <2>1 DEF Types, Bases
  <2>3. /\ project' \in [Call -> ProjectRow \cup {None}]
        /\ \A p \in Call : project'[p] # None <=> project[p] # None
    <3>1. CASE project' = project
      BY <1>0, <3>1 DEF Types
    <3>2. CASE project[m] # None /\ project' = [project EXCEPT ![m].base = "private"]
      <4>1. project[m] \in ProjectRow
        BY <1>0, <3>2 DEF Types
      <4>2. [project[m] EXCEPT !.base = "private"] \in ProjectRow
        BY <4>1 DEF ProjectRow, Bases
      <4>3. project' = [project EXCEPT ![m] = [project[m] EXCEPT !.base = "private"]]
        BY <3>2
      <4>. QED BY <1>0, <4>1, <4>2, <4>3 DEF Types
    <3>. QED BY <2>1, <3>1, <3>2
  <2>4. \A a \in Call : IF artifact[a] # None /\ artifact[a].project = m
                          THEN artifact'[a] = [artifact[a] EXCEPT !.visibility = "private"]
                          ELSE artifact'[a] = artifact[a]
    BY <2>1 DEF Closed
  <2>5. ASSUME NEW a \in Call, artifact[a] # None, artifact[a].project = m
        PROVE  artifact'[a] \in ArtifactRow /\ artifact'[a].project = m /\ artifact'[a].visibility = "private"
    <3>1. artifact[a] \in ArtifactRow
      BY <1>0, <2>5 DEF Types
    <3>2. artifact'[a] = [artifact[a] EXCEPT !.visibility = "private"]
      BY <2>4, <2>5
    <3>. QED BY <2>5, <3>1, <3>2 DEF ArtifactRow
  <2>6. \A a \in Call : /\ artifact'[a] # None <=> artifact[a] # None
                        /\ artifact[a] # None => artifact'[a].project = artifact[a].project
    BY <1>0, <2>4, <2>5
  <2>7. artifact' \in [Call -> ArtifactRow \cup {None}]
    <3>1. \A a \in Call : artifact'[a] \in ArtifactRow \cup {None}
      BY <1>0, <2>4, <2>5 DEF Types
    <3>2. artifact' = [a \in Call |-> artifact'[a]]
      BY <2>1 DEF Closed
    <3>. QED BY <3>1, <3>2
  <2>8. opened' \subseteq Call
    BY <1>0, <2>1 DEF Types
  <2>9. SharesWithinCeiling'
    <3>. SUFFICES ASSUME NEW a \in Call, artifact'[a] # None, artifact'[a].visibility = "project", a \notin opened'
                  PROVE  ceiling'[artifact'[a].project] # "private"
      BY DEF SharesWithinCeiling
    <3>1. ~(artifact[a] # None /\ artifact[a].project = m)
      BY <2>5
    <3>2. artifact'[a] = artifact[a] /\ artifact[a].project # m /\ a \notin opened
      BY <2>1, <2>4, <3>1
    <3>3. artifact[a].project \in Call
      BY <1>0, <3>2 DEF Types, ArtifactRow
    <3>. QED BY <1>0, <2>2, <3>2, <3>3 DEF SharesWithinCeiling
  <2>. QED BY <2>2, <2>3, <2>6, <2>7, <2>8, <2>9
<1>. QED BY <1>1, <1>2 DEF ConvInv, Types

LEMMA NarrowKeeps ==
  ASSUME ConvInv, NEW c \in Call, Narrow(c)
  PROVE  ConvInv'
<1>0. /\ At(c, "narrow") /\ UNCHANGED <<ids, request, live, secret, retries>>
      /\ Types /\ lost \in Nat /\ Map(c) \in Call /\ Narrowing(Map(c)) /\ call[c].ids \in SUBSET ExternalId
  BY BoundAssumption DEF Narrow, ConvInv, Types, KnowsMap, Routed, At, CallState, Map
<1>1. lost' \in {lost, lost + 1} /\ lost' \in 0 .. MaxLost
  BY <1>0, BoundAssumption DEF Narrow, Lose, ConvInv, Types
<1>2. /\ ceiling' \in [Call -> Bases \cup {None}]
      /\ project' \in [Call -> ProjectRow \cup {None}]
      /\ artifact' \in [Call -> ArtifactRow \cup {None}]
      /\ opened' \subseteq Call
      /\ \A p \in Call : /\ project'[p] # None <=> project[p] # None
                         /\ ceiling'[p] # None <=> ceiling[p] # None
                         /\ ceiling[p] = "private" => ceiling'[p] = "private"
      /\ \A a \in Call : /\ artifact'[a] # None <=> artifact[a] # None
                         /\ artifact[a] # None => artifact'[a].project = artifact[a].project
      /\ SharesWithinCeiling'
  BY <1>0, Narrows
<1>3. /\ call' \in [Call -> CallState]
      /\ \A d \in Call : d # c => call'[d] = call[d]
      /\ \/ call'[c].pc = "over" /\ call'[c].op = "publish"
         \/ /\ call'[c].pc = "narrowed" /\ call'[c].ids = call[c].ids /\ call'[c].map = call[c].map
            /\ call'[c].op = call[c].op /\ call'[c].target = call[c].target
  <2>1. CASE Go(c, "narrowed")
    BY <1>0, <2>1, CallGo DEF Steps
  <2>2. CASE Over(c)
    BY <1>0, <2>2, CallOver
  <2>. QED BY <2>1, <2>2 DEF Narrow
<1>4. Types' /\ Mapped'
  <2>1. Types'
    BY <1>0, <1>1, <1>2, <1>3 DEF Types
  <2>2. Mapped'
    BY <1>0, <1>2 DEF ConvInv, Mapped, Types
  <2>. QED BY <2>1, <2>2
<1>5. Housed'
  BY <1>0, <1>2, BoundAssumption DEF ConvInv, Housed, Types, ArtifactRow
<1>7. ASSUME NEW d \in Call PROVE HasIds(d)' /\ KnowsMap(d)' /\ Fresh(d)'
  <2>1. CASE d # c
    BY <1>0, <1>2, <1>3, <2>1 DEF ConvInv, HasIds, KnowsMap, Fresh, Map
  <2>2. CASE d = c
    BY <1>0, <1>2, <1>3, <2>2, BoundAssumption DEF ConvInv, HasIds, KnowsMap, Fresh, Map, At,
       Routed, Unborn, Bound
  <2>. QED BY <2>1, <2>2
<1>8. UndoOnce'
  <2>1. call'[c].pc \notin Undoing
    BY <1>3 DEF Undoing
  <2>2. \A p \in Call : project'[p] # None => ceiling'[p] # None \/ (project[p] # None /\ ceiling[p] = None)
    BY <1>2
  <2>. QED BY <1>0, <1>1, <1>2, <1>3, <2>1, <2>2, UndoStays DEF ConvInv
<1>9. ASSUME lost' = 0 PROVE InPlace'
  <2>1. InPlace /\ Grows
    BY <1>0, <1>1, <1>2, <1>9 DEF ConvInv, Grows
  <2>2. KeptPrivate(c)' /\ Verified(c)' /\ BoundTo(c)'
    BY <1>3 DEF KeptPrivate, Verified, BoundTo, Bound, At
  <2>3. \A a \in Call : Published(a)'
    BY <1>0, <1>2, <2>1 DEF InPlace, Published
  <2>4. call'[c].pc # "commit"
    BY <1>3
  <2>5. ASSUME NEW xs \in SUBSET ExternalId, NEW m \in Call, Settles(xs, m)' PROVE Settles(xs, m)
    BY <1>0, <1>3, <2>4, <2>5, SettlesNothing
  <2>. QED BY <1>0, <1>3, <1>4, <2>1, <2>2, <2>3, <2>5, InPlaceStays
<1>. QED BY <1>2, <1>4, <1>5, <1>7, <1>8, <1>9 DEF ConvInv

LEMMA AttachKeeps ==
  ASSUME ConvInv, NEW c \in Call, Attach(c)
  PROVE  ConvInv'
<1>0. /\ At(c, "attach") /\ UNCHANGED <<ceiling, project, artifact, opened, request, live, secret, retries, lost>>
      /\ Types /\ Go(c, "attached") /\ "attached" \in Steps /\ call[c].ids \in SUBSET ExternalId
      /\ Map(c) \in Call /\ None \notin Call /\ lost \in Nat
  BY BoundAssumption DEF Attach, Shared, ConvInv, Types, CallState, KnowsMap, Routed, At, Map, Steps
<1>1. \A x \in ExternalId : ids'[x] # ids[x] => ids[x] = None /\ ids'[x] = Map(c) /\ ceiling[Map(c)] # None
  BY <1>0 DEF Attach, Attachable, Taken, Types
<1>2. ids' \in [ExternalId -> Call \cup {None}]
  BY <1>0 DEF Attach, Types
<1>3. /\ call' \in [Call -> CallState]
      /\ \A d \in Call : d # c => call'[d] = call[d]
      /\ call'[c].pc = "attached" /\ call'[c].ids = call[c].ids /\ call'[c].map = call[c].map
      /\ call'[c].op = call[c].op /\ call'[c].target = call[c].target /\ call'[c].kind = call[c].kind
  BY <1>0, CallGo
<1>4. Types'
  BY <1>0, <1>2, <1>3 DEF Types
<1>5. Mapped' /\ Housed' /\ SharesWithinCeiling'
  <2>1. Mapped'
    BY <1>0, <1>1 DEF ConvInv, Mapped
  <2>. QED BY <1>0, <2>1 DEF ConvInv, Housed, SharesWithinCeiling
<1>7. ASSUME NEW d \in Call PROVE HasIds(d)' /\ KnowsMap(d)' /\ Fresh(d)'
  <2>1. CASE d # c
    BY <1>0, <1>3, <2>1 DEF ConvInv, HasIds, KnowsMap, Fresh, Map
  <2>2. CASE d = c
    BY <1>0, <1>3, <2>2 DEF ConvInv, HasIds, KnowsMap, Fresh, Map, At, Routed, Unborn, Bound
  <2>. QED BY <2>1, <2>2
<1>8. UndoOnce'
  <2>1. call'[c].pc \notin Undoing
    BY <1>3 DEF Undoing
  <2>. QED BY <1>0, <1>3, <2>1, UndoStays DEF ConvInv
<1>9. ASSUME lost' = 0 PROVE InPlace'
  <2>1. InPlace /\ Grows
    BY <1>0, <1>1, <1>9 DEF ConvInv, Grows
  <2>2. KeptPrivate(c)' /\ Verified(c)' /\ BoundTo(c)'
    BY <1>0, <1>3, <2>1 DEF InPlace, KeptPrivate, Verified, BoundTo, Bound, At, Private, Map
  <2>3. \A a \in Call : Published(a)'
    BY <1>0, <2>1 DEF InPlace, Published
  <2>4. ASSUME NEW xs \in SUBSET ExternalId, NEW m \in Call, Settles(xs, m)' PROVE Settles(xs, m)
    BY <1>0, <1>3, <2>4, SettlesNothing
  <2>. QED BY <1>0, <1>3, <1>4, <2>1, <2>2, <2>3, <2>4, InPlaceStays
<1>. QED BY <1>0, <1>4, <1>5, <1>7, <1>8, <1>9 DEF ConvInv

\* The row of a request: a new one, one without a mapping that gets it, or as it was.
LEMMA Binds ==
  ASSUME Types, NEW c \in Call
  PROVE  /\ Bind(c) \in [ids: SUBSET ExternalId, map: Call \cup {None}, done: BOOLEAN]
         /\ Bind(c).done = request[c].done
         /\ \/ Bind(c) = request[c]
            \/ /\ Bind(c).ids = call[c].ids /\ Bind(c).map = Map(c)
               /\ request[c].ids = {} \/ (request[c].map = None /\ ~request[c].done)
<1>1. request[c] \in [ids: SUBSET ExternalId, map: Call \cup {None}, done: BOOLEAN]
      /\ call[c].ids \in SUBSET ExternalId /\ Map(c) \in Call \cup {None}
  BY DEF Types, CallState, Map
<1>2. CASE request[c].ids = {}
  <2>1. Bind(c) = [request[c] EXCEPT !.ids = call[c].ids, !.map = Map(c)]
    BY <1>2 DEF Bind
  <2>. QED BY <1>1, <1>2, <2>1
<1>3. CASE request[c].ids # {} /\ Map(c) # None /\ request[c].ids = call[c].ids /\ request[c].map = None
           /\ ~request[c].done
  <2>1. Bind(c) = [request[c] EXCEPT !.map = Map(c)]
    BY <1>3 DEF Bind
  <2>. QED BY <1>1, <1>3, <2>1
<1>4. CASE Bind(c) = request[c]
  BY <1>1, <1>4
<1>. QED BY <1>2, <1>3, <1>4 DEF Bind

LEMMA VerifyKeeps ==
  ASSUME ConvInv, NEW c \in Call, Verify(c)
  PROVE  ConvInv'
<1>0. /\ At(c, "verify") /\ UNCHANGED <<ids, ceiling, project, artifact, opened, live, retries, lost>>
      /\ Types /\ call[c].ids \in SUBSET ExternalId /\ call[c].ids # {} /\ Map(c) \in Call \cup {None}
      /\ None \notin Call /\ lost \in Nat
  BY BoundAssumption DEF Verify, Conversations, Shared, ConvInv, Types, CallState, HasIds, At, Map
<1>1. CASE Over(c) /\ UNCHANGED <<request, secret>>
  BY <1>0, <1>1, OverKeeps DEF Conversations, Shared
<1>2. CASE ~(Over(c) /\ UNCHANGED <<request, secret>>)
  <2>1. /\ Map(c) # None => ceiling[Map(c)] # None
        /\ request' = [request EXCEPT ![c] = Bind(c)]
        /\ \/ Over(c) /\ secret' = secret
           \/ /\ Bind(c).ids = call[c].ids /\ Bind(c).map = Map(c)
              /\ secret' = IF Private(c) THEN secret \cup call[c].ids ELSE secret
              /\ Over(c) \/ (~Bind(c).done /\ \E pc \in {"final", "target"} : Go(c, pc))
    BY <1>2 DEF Verify
  <2>2. /\ Bind(c) \in [ids: SUBSET ExternalId, map: Call \cup {None}, done: BOOLEAN]
        /\ Bind(c).done = request[c].done
        /\ \/ Bind(c) = request[c]
           \/ /\ Bind(c).ids = call[c].ids /\ Bind(c).map = Map(c)
              /\ request[c].ids = {} \/ (request[c].map = None /\ ~request[c].done)
    BY <1>0, Binds
  <2>. HIDE DEF Bind
  <2>3. request'[c] = Bind(c) /\ \A d \in Call : d # c => request'[d] = request[d]
    BY <1>0, <2>1 DEF Types
  <2>4. /\ call' \in [Call -> CallState]
        /\ \A d \in Call : d # c => call'[d] = call[d]
        /\ \/ call'[c].pc = "over" /\ call'[c].op = "publish"
           \/ /\ call'[c].pc \in {"final", "target"} /\ call'[c].ids = call[c].ids /\ call'[c].map = call[c].map
              /\ call'[c].op = call[c].op /\ call'[c].target = call[c].target
              /\ Bind(c).ids = call[c].ids /\ ~Bind(c).done
    <3>1. CASE Over(c)
      BY <1>0, <3>1, CallOver
    <3>2. CASE ~Over(c)
      <4>1. PICK pc \in {"final", "target"} : Go(c, pc) /\ Bind(c).ids = call[c].ids /\ ~Bind(c).done
        BY <2>1, <3>2
      <4>. QED BY <1>0, <4>1, CallGo DEF Steps
    <3>. QED BY <3>1, <3>2
  <2>5. Types'
    <3>1. request' \in [Call -> [ids: SUBSET ExternalId, map: Call \cup {None}, done: BOOLEAN]]
      BY <1>0, <2>1, <2>2 DEF Types
    <3>2. secret' \subseteq ExternalId
      BY <1>0, <2>1 DEF Types
    <3>. QED BY <1>0, <2>4, <3>1, <3>2 DEF Types
  <2>6. Mapped' /\ Housed' /\ SharesWithinCeiling'
    <3>1. \A r \in Call : request'[r].map # None => ceiling[request'[r].map] # None
      BY <2>1, <2>2, <2>3 DEF ConvInv, Housed
    <3>. QED BY <1>0, <3>1 DEF ConvInv, Mapped, Housed, SharesWithinCeiling
  <2>7. ASSUME NEW d \in Call PROVE HasIds(d)' /\ KnowsMap(d)' /\ Fresh(d)'
    <3>1. CASE d # c
      BY <1>0, <2>3, <2>4, <3>1 DEF ConvInv, HasIds, KnowsMap, Fresh, Map
    <3>2. CASE d = c
      BY <1>0, <2>2, <2>3, <2>4, <3>2 DEF ConvInv, HasIds, KnowsMap, Fresh, Map, At, Routed,
         Unborn, Bound
    <3>. QED BY <3>1, <3>2
  <2>8. UndoOnce'
    <3>1. call'[c].pc \notin Undoing
      BY <2>4 DEF Undoing
    <3>. QED BY <1>0, <2>4, <3>1, UndoStays DEF ConvInv
  <2>9. ASSUME lost' = 0 PROVE InPlace'
    <3>1. InPlace /\ Grows
      BY <1>0, <2>9 DEF ConvInv, Grows
    <3>2. KeptPrivate(c)' /\ Verified(c)' /\ BoundTo(c)'
      BY <2>3, <2>4 DEF KeptPrivate, Verified, BoundTo, Bound, At
    <3>3. request[c].map # None => request[c].ids # {}
      <4>. SUFFICES ASSUME request[c].map # None PROVE request[c].ids # {}
        OBVIOUS
      <4>1. request[c].ids \in SUBSET ExternalId /\ request[c].map \in Call
        BY <1>0 DEF Types
      <4>2. Settles(request[c].ids, request[c].map)
        BY DEF Settles
      <4>3. request[c].map \in Mappings(request[c].ids)
        BY <3>1, <4>1, <4>2 DEF InPlace, Settled
      <4>. QED BY <4>3 DEF Mappings
    <3>4. ASSUME NEW a \in Call PROVE Published(a)'
      <4>1. CASE a # c
        BY <1>0, <2>3, <3>1, <4>1 DEF InPlace, Published
      <4>2. CASE a = c /\ artifact[c] # None
        <5>1. artifact[c].project = request[c].map /\ artifact[c].project \in Call /\ request[c].done
          BY <1>0, <3>1, <4>2, BoundAssumption DEF InPlace, Published, ConvInv, Fresh, Types,
             ArtifactRow
        <5>2. Bind(c) = request[c]
          BY <1>0, <2>2, <3>3, <5>1
        <5>. QED BY <1>0, <2>3, <4>2, <5>1, <5>2 DEF Published
      <4>3. CASE a = c /\ artifact[c] = None
        BY <1>0, <4>3 DEF Published
      <4>. QED BY <4>1, <4>2, <4>3
    <3>5. Map(c) # None => Attaches(c)
      BY <1>0, <3>1 DEF InPlace, Verified
    <3>6. ConversationNeverWidens'
      <4>1. CASE secret' = secret
        BY <3>1, <4>1, <1>0, SecretStays DEF InPlace
      <4>2. CASE Private(c) /\ secret' = secret \cup call[c].ids
        <5>1. Map(c) # None /\ ceiling[Map(c)] = "private"
          BY <1>0, <3>1, <4>2 DEF InPlace, KeptPrivate, At
        <5>. QED BY <1>0, <3>1, <3>5, <4>2, <5>1 DEF InPlace, ConversationNeverWidens, Attaches
      <4>. QED BY <2>1, <4>1, <4>2
    <3>7. ASSUME NEW xs \in SUBSET ExternalId, NEW m \in Call, Settles(xs, m)'
          PROVE  Settles(xs, m) \/ (xs = call[c].ids /\ m = Map(c))
      <4>1. PICK d \in Call : \/ request'[d].ids = xs /\ request'[d].map = m
                              \/ call'[d].pc = "commit" /\ call'[d].ids = xs /\ call'[d].map = m
        BY <3>7 DEF Settles, At, Map
      <4>2. m # None
        BY <3>7 DEF Settles
      <4>3. CASE d # c
        BY <2>3, <2>4, <4>1, <4>2, <4>3 DEF Settles, At, Map
      <4>4. CASE d = c
        <5>1. Bind(c).ids = xs /\ Bind(c).map = m
          BY <2>3, <2>4, <4>1, <4>4
        <5>. QED BY <2>2, <4>2, <5>1 DEF Settles
      <4>. QED BY <4>3, <4>4
    <3>8. CASE Map(c) # None
      <4>1. Map(c) \in Mappings(call[c].ids) /\ Mappings(call[c].ids) \subseteq {Map(c)}
        BY <1>0, <3>5, <3>8 DEF Mappings, Attaches
      <4>. DEFINE ys == call[c].ids
                  n == Map(c)
      <4>2. PICK zs \in SUBSET ExternalId, k \in Call : zs = ys /\ k = n
        BY <1>0, <3>8
      <4>3. Mappings(zs)' = Mappings(zs)
        BY <1>0 DEF Mappings
      <4>. QED BY <1>0, <2>3, <2>4, <2>5, <3>1, <3>2, <3>4, <3>6, <3>7, <4>1, <4>2, <4>3,
                  InPlaceStays
    <3>9. CASE Map(c) = None
      <4>1. ASSUME NEW xs \in SUBSET ExternalId, NEW m \in Call, Settles(xs, m)' PROVE Settles(xs, m)
        BY <1>0, <3>7, <3>9, <4>1
      <4>. QED BY <1>0, <2>3, <2>4, <2>5, <3>1, <3>2, <3>4, <3>6, <4>1, InPlaceStays
    <3>. QED BY <3>8, <3>9
  <2>. QED BY <1>0, <2>5, <2>6, <2>7, <2>8, <2>9 DEF ConvInv
<1>. QED BY <1>1, <1>2

LEMMA CommitMappedKeeps ==
  ASSUME ConvInv, NEW c \in Call, CommitMapped(c)
  PROVE  ConvInv'
<1>. DEFINE new == [project |-> c, visibility |-> Visibility(c, "workspace", "workspace")]
            row == [request[c] EXCEPT !.done = TRUE, !.map = c]
<1>0. /\ At(c, "commit") /\ UNCHANGED <<opened, live, secret, retries>>
      /\ Mappable(c) /\ MapTo(c, "workspace") /\ Types /\ lost \in Nat /\ "workspace" \in Bases
      /\ Map(c) = None /\ call[c].ids \in SUBSET ExternalId /\ call[c].ids # {}
      /\ None \notin Call /\ None \notin ArtifactRow /\ artifact[c] = None
  BY BoundAssumption DEF CommitMapped, ConvInv, Types, Bases, CallState, HasIds, Fresh, Unborn,
     Bound, At
<1>1. lost' \in {lost, lost + 1} /\ lost' \in 0 .. MaxLost
      /\ (Over(c) \/ (lost' = lost + 1 /\ call' = [call EXCEPT ![c].pc = "undo", ![c].making = TRUE]))
  BY <1>0, BoundAssumption DEF CommitMapped, Lose, ConvInv, Types
<1>2. /\ project' \in [Call -> ProjectRow \cup {None}]
      /\ ceiling' \in [Call -> Bases \cup {None}]
      /\ ids' \in [ExternalId -> Call \cup {None}]
      /\ project'[c] # None /\ ceiling'[c] = "workspace"
      /\ \A p \in Call : p # c => project'[p] = project[p] /\ ceiling'[p] = ceiling[p]
      /\ \A x \in ExternalId : IF x \in call[c].ids THEN ids[x] = None /\ ids'[x] = c ELSE ids'[x] = ids[x]
      /\ project[c] = None /\ ceiling[c] = None
      /\ \A a \in Call : artifact[a] # None => artifact[a].project # c
      /\ Mapped' /\ Grows
      /\ \A m \in Call : ceiling'[m] # None => project'[m] # None
  BY <1>0, Maps
<1>3. /\ call' \in [Call -> CallState]
      /\ \A d \in Call : d # c => call'[d] = call[d]
      /\ \/ call'[c].pc = "over" /\ call'[c].op = "publish"
         \/ /\ call'[c].pc = "undo" /\ call'[c].ids = call[c].ids
            /\ call'[c].op = call[c].op /\ call'[c].target = call[c].target /\ lost' = lost + 1
  <2>1. CASE Over(c)
    BY <1>0, <2>1, CallOver
  <2>2. CASE lost' = lost + 1 /\ call' = [call EXCEPT ![c].pc = "undo", ![c].making = TRUE]
    <3>1. call[c] \in CallState
      BY <1>0 DEF Types
    <3>2. [call[c] EXCEPT !.pc = "undo", !.making = TRUE] \in CallState
      BY <3>1 DEF CallState, Steps
    <3>3. call' = [call EXCEPT ![c] = [call[c] EXCEPT !.pc = "undo", !.making = TRUE]]
      BY <1>0, <2>2 DEF Types
    <3>4. call'[c] = [call[c] EXCEPT !.pc = "undo", !.making = TRUE]
      BY <1>0, <3>3 DEF Types
    <3>5. call' \in [Call -> CallState] /\ \A d \in Call : d # c => call'[d] = call[d]
      BY <1>0, <3>2, <3>3 DEF Types
    <3>. QED BY <2>2, <3>1, <3>4, <3>5 DEF CallState
  <2>. QED BY <1>1, <2>1, <2>2
<1>4. /\ artifact'[c] = new /\ new \in ArtifactRow /\ new.project = c
      /\ \A a \in Call : a # c => artifact'[a] = artifact[a]
      /\ artifact' \in [Call -> ArtifactRow \cup {None}]
  <2>1. new \in ArtifactRow /\ new.project = c
    BY DEF ArtifactRow, Visibility
  <2>. HIDE DEF new
  <2>2. artifact' = [artifact EXCEPT ![c] = new]
    BY DEF CommitMapped, new
  <2>. QED BY <1>0, <2>1, <2>2 DEF Types
<1>5. /\ request'[c].ids = request[c].ids /\ request'[c].map = c /\ request'[c].done
      /\ \A d \in Call : d # c => request'[d] = request[d]
      /\ request' \in [Call -> [ids: SUBSET ExternalId, map: Call \cup {None}, done: BOOLEAN]]
  <2>1. row \in [ids: SUBSET ExternalId, map: Call \cup {None}, done: BOOLEAN]
        /\ row.ids = request[c].ids /\ row.map = c /\ row.done
    BY <1>0 DEF Types
  <2>. HIDE DEF row
  <2>2. request' = [request EXCEPT ![c] = row]
    BY <1>0 DEF CommitMapped, Complete, row, Types
  <2>. QED BY <1>0, <2>1, <2>2 DEF Types
<1>. HIDE DEF new, row
<1>6. Types'
  BY <1>0, <1>1, <1>2, <1>3, <1>4, <1>5 DEF Types
<1>7. Housed'
  <2>1. \A a \in Call : artifact'[a] # None => project'[artifact'[a].project] # None
    BY <1>0, <1>2, <1>4 DEF ConvInv, Housed, Types, ArtifactRow
  <2>2. \A r \in Call : request'[r].map # None => ceiling'[request'[r].map] # None
    BY <1>0, <1>2, <1>5, BoundAssumption DEF ConvInv, Housed, Types, Bases
  <2>. QED BY <1>2, <2>1, <2>2 DEF Housed
<1>8. SharesWithinCeiling'
  BY <1>0, <1>2, <1>4 DEF ConvInv, SharesWithinCeiling, Types, ArtifactRow
<1>9. ASSUME NEW d \in Call PROVE HasIds(d)' /\ KnowsMap(d)' /\ Fresh(d)'
  <2>1. CASE d # c
    BY <1>0, <1>3, <1>4, <1>5, <2>1 DEF ConvInv, HasIds, KnowsMap, Fresh, Map
  <2>2. CASE d = c
    BY <1>0, <1>3, <1>5, <2>2 DEF ConvInv, HasIds, KnowsMap, Fresh, Map, At, Routed, Unborn, Bound
  <2>. QED BY <2>1, <2>2
<1>10. UndoOnce'
  <2>1. call'[c].pc \in Undoing => lost' = lost + 1
    BY <1>3 DEF Undoing
  <2>2. \A p \in Call : project'[p] # None => ceiling'[p] # None \/ (project[p] # None /\ ceiling[p] = None)
    BY <1>2, BoundAssumption DEF Bases
  <2>3. \A a \in Call : artifact[a] # None => artifact'[a] # None /\ artifact'[a].project = artifact[a].project
    BY <1>0, <1>4
  <2>. QED BY <1>0, <1>1, <1>3, <2>1, <2>2, <2>3, UndoStays DEF ConvInv
<1>11. ASSUME lost' = 0 PROVE InPlace'
  <2>1. InPlace /\ call'[c].pc = "over"
    BY <1>0, <1>1, <1>3, <1>11 DEF ConvInv
  <2>2. KeptPrivate(c)' /\ Verified(c)' /\ BoundTo(c)'
    BY <2>1 DEF KeptPrivate, Verified, BoundTo, Bound, At
  <2>3. ASSUME NEW a \in Call PROVE Published(a)'
    BY <1>4, <1>5, <2>1 DEF InPlace, Published
  <2>4. request[c].ids = call[c].ids
    BY <1>0, <2>1 DEF InPlace, BoundTo, Bound, At
  <2>5. ASSUME NEW xs \in SUBSET ExternalId, NEW m \in Call, Settles(xs, m)'
        PROVE  Settles(xs, m) \/ (xs = call[c].ids /\ m = c)
    <3>1. PICK d \in Call : \/ request'[d].ids = xs /\ request'[d].map = m
                            \/ call'[d].pc = "commit" /\ call'[d].ids = xs /\ call'[d].map = m
      BY <2>5 DEF Settles, At, Map
    <3>. QED BY <1>0, <1>3, <1>5, <2>1, <2>4, <3>1 DEF Settles, At, Map
  <2>6. PICK zs \in SUBSET ExternalId : zs = call[c].ids
    BY <1>0
  <2>7. Mappings(zs) = {} /\ c \in Mappings(zs)'
    BY <1>0, <1>2, <2>6 DEF Mappings
  <2>. QED BY <1>0, <1>2, <1>3, <1>5, <1>6, <2>1, <2>2, <2>3, <2>5, <2>6, <2>7, InPlaceStays
<1>. QED BY <1>2, <1>6, <1>7, <1>8, <1>9, <1>10, <1>11 DEF ConvInv

LEMMA CommitKeeps ==
  ASSUME ConvInv, NEW c \in Call, Commit(c)
  PROVE  ConvInv'
<1>. DEFINE t == IF call[c].op = "publish" THEN c ELSE call[c].target
            m == Map(c)
            new == [project |-> m, visibility |-> Visibility(c, project[m].base, ceiling[m])]
            n == IF call[c].op = "publish" THEN m ELSE request[c].map
            row == [request[c] EXCEPT !.done = TRUE, !.map = n]
<1>0. /\ At(c, "commit") /\ UNCHANGED <<ids, ceiling, project, live, secret, retries>>
      /\ Types /\ lost \in Nat /\ m \in Call /\ call[c] \in CallState /\ call[c].ids \in SUBSET ExternalId
      /\ ceiling[m] # None /\ project[m] # None
      /\ None \notin Call /\ None \notin ArtifactRow /\ artifact[c] = None
  BY BoundAssumption DEF Commit, Open, Conversations, ConvInv, Housed, Types, CallState, Fresh,
     Unborn, Bound, At, Map
<1>1. lost' \in {lost, lost + 1} /\ lost' \in 0 .. MaxLost
      /\ (Over(c) \/ (lost' = lost + 1 /\ Go(c, "undo")))
  BY <1>0, BoundAssumption DEF Commit, Lose, ConvInv, Types
<1>2. t \in Call /\ (artifact[t] # None => artifact[t].project = m) /\ (call[c].op # "publish" => t # c)
  <2>1. CASE call[c].op = "publish"
    BY <1>0, <2>1
  <2>2. CASE call[c].op # "publish"
    <3>1. call[c].op = "revise" /\ call[c].target \in Call
      BY <1>0, <2>2, BoundAssumption DEF CallState, ConvInv, HasIds
    <3>. QED BY <1>0, <2>2, <3>1 DEF Commit, InScope
  <2>. QED BY <2>1, <2>2
<1>3. /\ call' \in [Call -> CallState]
      /\ \A d \in Call : d # c => call'[d] = call[d]
      /\ \/ call'[c].pc = "over" /\ call'[c].op = "publish"
         \/ /\ call'[c].pc = "undo" /\ call'[c].ids = call[c].ids
            /\ call'[c].op = call[c].op /\ call'[c].target = call[c].target /\ lost' = lost + 1
  <2>1. CASE Over(c)
    BY <1>0, <2>1, CallOver
  <2>2. CASE lost' = lost + 1 /\ Go(c, "undo")
    BY <1>0, <2>2, CallGo DEF Steps
  <2>. QED BY <1>1, <2>1, <2>2
<1>4. /\ artifact'[t] = new /\ new \in ArtifactRow /\ new.project = m
      /\ \A a \in Call : a # t => artifact'[a] = artifact[a]
      /\ artifact' \in [Call -> ArtifactRow \cup {None}]
      /\ opened' = opened \ {t}
  <2>1. new \in ArtifactRow /\ new.project = m
    BY <1>0 DEF ArtifactRow, Visibility
  <2>2. artifact' = [artifact EXCEPT ![t] = new] /\ opened' = opened \ {t}
    BY DEF Commit
  <2>. HIDE DEF new, t
  <2>. QED BY <1>0, <1>2, <2>1, <2>2 DEF Types
<1>5. /\ request'[c].ids = request[c].ids /\ request'[c].map = n /\ request'[c].done
      /\ \A d \in Call : d # c => request'[d] = request[d]
      /\ request' \in [Call -> [ids: SUBSET ExternalId, map: Call \cup {None}, done: BOOLEAN]]
  <2>0. n \in Call \cup {None}
    BY <1>0 DEF Types
  <2>. HIDE DEF n
  <2>1. row \in [ids: SUBSET ExternalId, map: Call \cup {None}, done: BOOLEAN]
        /\ row.ids = request[c].ids /\ row.map = n /\ row.done
    <3>1. request[c] \in [ids: SUBSET ExternalId, map: Call \cup {None}, done: BOOLEAN]
      BY <1>0 DEF Types
    <3>. QED BY <2>0, <3>1
  <2>. HIDE DEF row
  <2>2. request' = [request EXCEPT ![c] = row]
    BY <1>0 DEF Commit, Complete, row, n, Types
  <2>. QED BY <1>0, <2>1, <2>2 DEF Types
<1>6. Types'
  <2>1. opened' \subseteq Call
    BY <1>0, <1>4 DEF Types
  <2>. HIDE DEF t, new, row, n
  <2>. QED BY <1>0, <1>1, <1>3, <1>4, <1>5, <2>1 DEF Types
<1>7. Mapped' /\ Housed'
  <2>1. \A a \in Call : artifact'[a] # None => project[artifact'[a].project] # None
    <3>. HIDE DEF t, new, row, n
    <3>. QED BY <1>0, <1>4 DEF ConvInv, Housed
  <2>2. \A r \in Call : request'[r].map # None => ceiling[request'[r].map] # None
    BY <1>0, <1>5 DEF ConvInv, Housed
  <2>. QED BY <1>0, <2>1, <2>2 DEF ConvInv, Mapped, Housed
<1>8. SharesWithinCeiling'
  <2>1. new.visibility = "project" => ceiling[m] # "private"
    BY DEF Visibility
  <2>. HIDE DEF t, new, row, n
  <2>. QED BY <1>0, <1>4, <2>1 DEF ConvInv, SharesWithinCeiling
<1>9. ASSUME NEW d \in Call PROVE HasIds(d)' /\ KnowsMap(d)' /\ Fresh(d)'
  <2>0. artifact'[d] # None => request'[d].done
    <3>1. CASE d = c
      BY <1>5, <3>1
    <3>2. CASE d # c
      <4>1. d = t => artifact[d] # None
        BY <1>0, <1>2, <3>2, BoundAssumption DEF Commit, InScope, CallState
      <4>. HIDE DEF t, new, row, n
      <4>. QED BY <1>4, <1>5, <3>2, <4>1 DEF ConvInv, Fresh
    <3>. QED BY <3>1, <3>2
  <2>1. CASE d # c
    <3>1. d = t => artifact[d] # None
      BY <1>0, <1>2, <2>1, BoundAssumption DEF Commit, InScope, CallState
    <3>. HIDE DEF t, new, row, n, m
    <3>. QED BY <1>0, <1>3, <1>4, <2>0, <2>1, <3>1 DEF ConvInv, HasIds, KnowsMap, Fresh, Map
  <2>2. CASE d = c
    BY <1>0, <1>3, <2>0, <2>2 DEF ConvInv, HasIds, KnowsMap, Fresh, Map, At, Routed, Unborn, Bound
  <2>. QED BY <2>1, <2>2
<1>. HIDE DEF t, new, row
<1>10. UndoOnce'
  <2>1. call'[c].pc \in Undoing => lost' = lost + 1
    BY <1>3 DEF Undoing
  <2>2. \A p \in Call : project'[p] # None => ceiling'[p] # None \/ (project[p] # None /\ ceiling[p] = None)
    BY <1>0
  <2>3. \A a \in Call : artifact[a] # None => artifact'[a] # None /\ artifact'[a].project = artifact[a].project
    BY <1>0, <1>2, <1>4
  <2>. QED BY <1>0, <1>1, <1>3, <2>1, <2>2, <2>3, UndoStays DEF ConvInv
<1>11. ASSUME lost' = 0 PROVE InPlace'
  <2>1. InPlace /\ call'[c].pc = "over" /\ Grows
    BY <1>0, <1>1, <1>3, <1>11 DEF ConvInv, Grows
  <2>2. KeptPrivate(c)' /\ Verified(c)' /\ BoundTo(c)'
    BY <2>1 DEF KeptPrivate, Verified, BoundTo, Bound, At
  <2>4. request[c].ids = call[c].ids
    BY <1>0, <2>1 DEF InPlace, BoundTo, Bound, At
  <2>3. ASSUME NEW a \in Call PROVE Published(a)'
    <3>1. CASE a = c
      BY <1>0, <1>2, <1>4, <1>5, <3>1 DEF Published, t
    <3>2. CASE a # c
      <4>1. a = t => artifact[a] # None
        BY <1>0, <1>2, <3>2, BoundAssumption DEF Commit, InScope, CallState, t
      <4>. QED BY <1>2, <1>4, <1>5, <2>1, <3>2, <4>1 DEF InPlace, Published
    <3>. QED BY <3>1, <3>2
  <2>5. ASSUME NEW xs \in SUBSET ExternalId, NEW k \in Call, Settles(xs, k)'
        PROVE  Settles(xs, k)
    <3>1. PICK d \in Call : \/ request'[d].ids = xs /\ request'[d].map = k
                            \/ call'[d].pc = "commit" /\ call'[d].ids = xs /\ call'[d].map = k
      BY <2>5 DEF Settles, At, Map
    <3>2. k # None
      BY <2>5 DEF Settles
    <3>3. CASE d # c
      BY <1>3, <1>5, <3>1, <3>2, <3>3 DEF Settles, At, Map
    <3>4. CASE d = c
      BY <1>0, <1>5, <2>1, <2>4, <3>1, <3>2, <3>4 DEF Settles, At, Map
    <3>. QED BY <3>3, <3>4
  <2>. QED BY <1>0, <1>3, <1>5, <1>6, <2>1, <2>2, <2>3, <2>5, InPlaceStays
<1>. QED BY <1>6, <1>7, <1>8, <1>9, <1>10, <1>11 DEF ConvInv

-----------------------------------------------------------------------------
(* The cleanup after a reply that was lost                                 *)

LEMMA Cleaning ==
  ASSUME ConvInv, NEW c \in Call, call[c].pc \in Undoing
  PROVE  /\ lost \in Nat /\ lost # 0
         /\ lost <= 1 => AllMapped /\ \A d \in Call : d # c => call[d].pc \notin Undoing
BY BoundAssumption DEF ConvInv, Types, UndoOnce

LEMMA UndoKeeps ==
  ASSUME ConvInv, NEW c \in Call, Undo(c)
  PROVE  ConvInv'
<1>0. /\ At(c, "undo") /\ UNCHANGED <<ids, ceiling, project, request, live, secret, retries, lost>>
      /\ Types /\ artifact' = [artifact EXCEPT ![c] = None] /\ opened' = opened \ {c}
  BY DEF Undo, Conversations, ConvInv
<1>1. /\ lost \in Nat /\ lost # 0
      /\ lost <= 1 => AllMapped /\ \A d \in Call : d # c => call[d].pc \notin Undoing
  BY <1>0, Cleaning DEF Undoing, At
<1>2. /\ call' \in [Call -> CallState]
      /\ \A d \in Call : d # c => call'[d] = call[d]
      /\ \/ call'[c].pc = "over" /\ call'[c].op = "publish"
         \/ /\ call'[c].pc = "unmap" /\ call'[c].ids = call[c].ids
            /\ call'[c].op = call[c].op /\ call'[c].target = call[c].target
  <2>1. CASE Over(c)
    BY <1>0, <2>1, CallOver
  <2>2. CASE Go(c, "unmap")
    BY <1>0, <2>2, CallGo DEF Steps
  <2>. QED BY <2>1, <2>2 DEF Undo
<1>3. artifact'[c] = None /\ \A a \in Call : a # c => artifact'[a] = artifact[a]
  BY <1>0 DEF Types
<1>4. Types'
  BY <1>0, <1>2 DEF Types
<1>5. Mapped' /\ Housed' /\ SharesWithinCeiling'
  BY <1>0, <1>3 DEF ConvInv, Mapped, Housed, SharesWithinCeiling
<1>6. ASSUME NEW d \in Call PROVE HasIds(d)' /\ KnowsMap(d)' /\ Fresh(d)'
  <2>1. CASE d # c
    BY <1>0, <1>2, <1>3, <2>1 DEF ConvInv, HasIds, KnowsMap, Fresh, Map
  <2>2. CASE d = c
    BY <1>0, <1>2, <1>3, <2>2 DEF ConvInv, HasIds, KnowsMap, Fresh, Map, At, Routed
  <2>. QED BY <2>1, <2>2
<1>7. UndoOnce'
  <2>1. lost' = lost /\ AllMapped' = AllMapped
    BY <1>0 DEF AllMapped
  <2>2. lost <= 1 => \A d \in Call : call'[d].pc \in Undoing => d = c
    BY <1>1, <1>2
  <2>. QED BY <1>0, <1>1, <2>1, <2>2 DEF UndoOnce, AllMapped
<1>. QED BY <1>0, <1>1, <1>4, <1>5, <1>6, <1>7 DEF ConvInv

LEMMA UnmapKeeps ==
  ASSUME ConvInv, NEW c \in Call, Unmap(c)
  PROVE  ConvInv'
<1>0. /\ At(c, "unmap") /\ UNCHANGED <<ceiling, project, artifact, opened, request, live, secret, retries, lost>>
      /\ Types /\ Go(c, "drop") /\ ids' = [x \in ExternalId |-> IF ids[x] = c THEN None ELSE ids[x]]
  BY DEF Unmap, Shared, ConvInv
<1>1. lost \in Nat /\ lost # 0
  BY <1>0, Cleaning DEF Undoing, At
<1>2. /\ call' \in [Call -> CallState]
      /\ \A d \in Call : d # c => call'[d] = call[d]
      /\ call'[c].pc = "drop" /\ call'[c].ids = call[c].ids
      /\ call'[c].op = call[c].op /\ call'[c].target = call[c].target
  BY <1>0, CallGo DEF Steps
<1>3. Types'
  BY <1>0, <1>2 DEF Types
<1>4. Mapped' /\ Housed' /\ SharesWithinCeiling'
  BY <1>0 DEF ConvInv, Mapped, Housed, SharesWithinCeiling
<1>5. ASSUME NEW d \in Call PROVE HasIds(d)' /\ KnowsMap(d)' /\ Fresh(d)'
  <2>1. CASE d # c
    BY <1>0, <1>2, <2>1 DEF ConvInv, HasIds, KnowsMap, Fresh, Map
  <2>2. CASE d = c
    BY <1>0, <1>2, <2>2 DEF ConvInv, HasIds, KnowsMap, Fresh, Map, At, Routed, Unborn
  <2>. QED BY <2>1, <2>2
<1>6. UndoOnce'
  <2>1. call[c].pc \in Undoing
    BY <1>0 DEF Undoing, At
  <2>. QED BY <1>0, <1>1, <1>2, <2>1, UndoStays DEF ConvInv
<1>. QED BY <1>0, <1>1, <1>3, <1>4, <1>5, <1>6 DEF ConvInv

LEMMA DropKeeps ==
  ASSUME ConvInv, NEW c \in Call, Drop(c)
  PROVE  ConvInv'
<1>0. /\ At(c, "drop") /\ UNCHANGED <<artifact, opened, live, secret, retries, lost>> /\ Types
      /\ ids' = [x \in ExternalId |-> IF ids[x] = c THEN None ELSE ids[x]]
      /\ ceiling' = [ceiling EXCEPT ![c] = None]
      /\ request' = Unbound(c) /\ project' = WithoutEmpty(c)
      /\ None \notin Call /\ None \notin Bases /\ None \notin ArtifactRow
  BY BoundAssumption DEF Drop, Shared, ConvInv
<1>1. /\ lost \in Nat /\ lost # 0
      /\ lost <= 1 => AllMapped /\ \A d \in Call : d # c => call[d].pc \notin Undoing
  BY <1>0, Cleaning DEF Undoing, At
<1>2. /\ call' \in [Call -> CallState]
      /\ \A d \in Call : d # c => call'[d] = call[d]
      /\ call'[c].pc = "recover" /\ call'[c].ids = call[c].ids
      /\ call'[c].op = call[c].op /\ call'[c].target = call[c].target
  <2>1. call[c] \in CallState
    BY <1>0 DEF Types
  <2>2. [call[c] EXCEPT !.pc = "recover", !.making = FALSE] \in CallState
    BY <2>1 DEF CallState, Steps
  <2>3. call' = [call EXCEPT ![c] = [call[c] EXCEPT !.pc = "recover", !.making = FALSE]]
    BY <1>0 DEF Drop, Types
  <2>4. call'[c] = [call[c] EXCEPT !.pc = "recover", !.making = FALSE]
    BY <1>0, <2>3 DEF Types
  <2>5. call' \in [Call -> CallState] /\ \A d \in Call : d # c => call'[d] = call[d]
    BY <1>0, <2>2, <2>3 DEF Types
  <2>. QED BY <2>1, <2>4, <2>5 DEF CallState
<1>3. /\ ceiling'[c] = None /\ \A m \in Call : m # c => ceiling'[m] = ceiling[m]
      /\ ceiling' \in [Call -> Bases \cup {None}]
  BY <1>0 DEF Types
<1>4. /\ \A r \in Call : /\ request'[r].done = request[r].done
                         /\ request'[r].map # None => request'[r].map = request[r].map /\ request[r].map # c
      /\ request' \in [Call -> [ids: SUBSET ExternalId, map: Call \cup {None}, done: BOOLEAN]]
  <2>1. ASSUME NEW r \in Call
        PROVE  /\ request'[r] \in [ids: SUBSET ExternalId, map: Call \cup {None}, done: BOOLEAN]
               /\ request'[r].done = request[r].done
               /\ request'[r].map # None => request'[r].map = request[r].map /\ request[r].map # c
    <3>1. request[r] \in [ids: SUBSET ExternalId, map: Call \cup {None}, done: BOOLEAN]
      BY <1>0 DEF Types
    <3>2. request'[r] = IF request[r].map = c THEN [request[r] EXCEPT !.map = None] ELSE request[r]
      BY <1>0 DEF Unbound
    <3>. QED BY <3>1, <3>2
  <2>2. request' = [r \in Call |-> request'[r]]
    BY <1>0 DEF Unbound
  <2>. QED BY <2>1, <2>2
<1>5. /\ project' \in [Call -> ProjectRow \cup {None}]
      /\ \A p \in Call : p # c => project'[p] = project[p]
      /\ project'[c] # None => \E a \in Call : artifact[a] # None /\ artifact[a].project = c
      /\ (\E a \in Call : artifact[a] # None /\ artifact[a].project = c) => project' = project
  <2>1. CASE \E a \in Call : artifact[a] # None /\ artifact[a].project = c
    BY <1>0, <2>1 DEF Types, WithoutEmpty
  <2>2. CASE ~(\E a \in Call : artifact[a] # None /\ artifact[a].project = c)
    <3>1. project' = [project EXCEPT ![c] = None]
      BY <1>0, <2>2, Zenon DEF WithoutEmpty
    <3>. QED BY <1>0, <2>2, <3>1 DEF Types
  <2>. QED BY <2>1, <2>2
<1>6. Types'
  <2>1. ids' \in [ExternalId -> Call \cup {None}]
    BY <1>0 DEF Types
  <2>. QED BY <1>0, <1>2, <1>3, <1>4, <1>5, <2>1 DEF Types
<1>7. Mapped'
  BY <1>0, <1>3 DEF ConvInv, Mapped, Types
<1>8. Housed'
  <2>1. \A m \in Call : ceiling'[m] # None => project'[m] # None
    BY <1>3, <1>5 DEF ConvInv, Housed
  <2>2. \A a \in Call : artifact[a] # None => project'[artifact[a].project] # None
    <3>. SUFFICES ASSUME NEW a \in Call, artifact[a] # None PROVE project'[artifact[a].project] # None
      OBVIOUS
    <3>1. artifact[a].project \in Call /\ project[artifact[a].project] # None
      BY <1>0 DEF ConvInv, Housed, Types, ArtifactRow
    <3>. QED BY <1>5, <3>1
  <2>3. \A r \in Call : request'[r].map # None => ceiling'[request'[r].map] # None
    BY <1>0, <1>3, <1>4 DEF ConvInv, Housed, Types
  <2>. QED BY <1>0, <2>1, <2>2, <2>3 DEF Housed
<1>9. SharesWithinCeiling'
  <2>1. \A a \in Call : artifact[a] # None => artifact[a].project \in Call
    BY <1>0 DEF Types, ArtifactRow
  <2>. QED BY <1>0, <1>3, <2>1 DEF ConvInv, SharesWithinCeiling, Bases
<1>10. ASSUME NEW d \in Call PROVE HasIds(d)' /\ KnowsMap(d)' /\ Fresh(d)'
  <2>1. CASE d # c
    BY <1>0, <1>2, <1>4, <2>1 DEF ConvInv, HasIds, KnowsMap, Fresh, Map
  <2>2. CASE d = c
    BY <1>0, <1>2, <1>4, <2>2 DEF ConvInv, HasIds, KnowsMap, Fresh, Map, At, Routed, Unborn, Bound
  <2>. QED BY <2>1, <2>2
<1>11. UndoOnce'
  <2>1. lost <= 1 => \A d \in Call : call'[d].pc \notin Undoing
    BY <1>1, <1>2 DEF Undoing
  <2>2. ASSUME lost <= 1, NEW p \in Call, project'[p] # None
        PROVE  ceiling'[p] # None \/ \E a \in Call : artifact[a] # None /\ artifact[a].project = p
    BY <1>1, <1>3, <1>5, <2>2 DEF AllMapped
  <2>. QED BY <1>0, <1>1, <2>1, <2>2 DEF UndoOnce
<1>. QED BY <1>0, <1>1, <1>6, <1>7, <1>8, <1>9, <1>10, <1>11 DEF ConvInv

-----------------------------------------------------------------------------
LEMMA InitConv == Init => ConvInv
<1>. SUFFICES ASSUME Init PROVE ConvInv
  OBVIOUS
<1>1. Types
  <2>1. NoCall \in CallState /\ NoRequest \in [ids: SUBSET ExternalId, map: Call \cup {None}, done: BOOLEAN]
    BY DEF NoCall, NoRequest, CallState, Steps, Bases
  <2>. HIDE DEF NoCall, NoRequest
  <2>. QED BY <2>1, BoundAssumption DEF Init, Types
<1>2. Mapped /\ Housed /\ SharesWithinCeiling
  BY DEF Init, Mapped, Housed, SharesWithinCeiling, NoRequest
<1>3. ASSUME NEW c \in Call PROVE HasIds(c) /\ KnowsMap(c) /\ Fresh(c)
  BY DEF Init, HasIds, KnowsMap, Fresh, NoCall, Routed, Unborn, Bound
<1>4. UndoOnce
  BY DEF Init, UndoOnce, AllMapped, NoCall, Undoing
<1>5. InPlace
  <2>1. ASSUME NEW d \in Call PROVE KeptPrivate(d) /\ Verified(d) /\ BoundTo(d) /\ Published(d)
    BY DEF Init, KeptPrivate, Verified, BoundTo, Published, NoCall, Bound, At
  <2>2. Settled /\ ConversationNeverWidens
    BY DEF Init, Settled, Settles, ConversationNeverWidens, NoCall, NoRequest, At
  <2>. QED BY <2>1, <2>2 DEF InPlace
<1>. QED BY <1>1, <1>2, <1>3, <1>4, <1>5 DEF ConvInv

LEMMA ConversationsHold == Spec => []ConvInv
<1>1. ConvInv /\ [Next]_vars => ConvInv'
  <2>. SUFFICES ASSUME ConvInv, [Next]_vars PROVE ConvInv'
    OBVIOUS
  <2>1. CASE UNCHANGED vars
    <3>1. Types' /\ Mapped' /\ Housed' /\ SharesWithinCeiling'
      BY <2>1 DEF vars, ConvInv, Types, Mapped, Housed, SharesWithinCeiling
    <3>2. (\A c \in Call : HasIds(c)' /\ KnowsMap(c)' /\ Fresh(c)') /\ UndoOnce'
      BY <2>1 DEF vars, ConvInv, HasIds, KnowsMap, Fresh, UndoOnce, AllMapped, Map
    <3>3. ASSUME lost = 0 PROVE InPlace'
      <4>1. \A d \in Call : KeptPrivate(d)' /\ Verified(d)' /\ BoundTo(d)' /\ Published(d)'
        BY <2>1, <3>3 DEF vars, ConvInv, InPlace, KeptPrivate, Verified, Attaches, BoundTo,
           Published, At, Map, Private
      <4>2. Settled' /\ ConversationNeverWidens'
        BY <2>1, <3>3 DEF vars, ConvInv, InPlace, Settled, Settles, Mappings,
           ConversationNeverWidens, At, Map
      <4>. QED BY <4>1, <4>2 DEF InPlace
    <3>. QED BY <2>1, <3>1, <3>2, <3>3 DEF ConvInv, vars
  <2>2. ASSUME NEW c \in Call, Step(c) PROVE ConvInv'
    BY <2>2, BeginKeeps, ResolveKeeps, CreateKeeps, CreatedKeeps, NarrowKeeps, LooksKeep,
       AttachKeeps, VerifyKeeps,
       FinalKeeps, CommitMappedKeeps, CommitKeeps, UndoKeeps, UnmapKeeps, DropKeeps DEF Step
  <2>3. CASE StopBot
    BY <2>3, PeopleKeep
  <2>. QED BY <2>1, <2>2, <2>3, PeopleKeep DEF Next
<1>. QED BY <1>1, InitConv, PTL DEF Spec

-----------------------------------------------------------------------------
\* What a request, whatever came before and between, may do to a conversation: it
\* opens nothing in a private one; and while no reply is lost, none that a private
\* channel was bound under is unmapped or opened, and what is shared under the
\* same ids is in one project (narrowConversationBarrier, attachConversationAliases
\* and the batches of the commits).
THEOREM ConversationsAreConfidential == Spec => []Confidential
<1>1. ASSUME ConvInv PROVE TypeOK
  <2>1. \A x \in ExternalId : ids[x] # None => ids[x] \in Call /\ ceiling[ids[x]] # None
    BY <1>1 DEF ConvInv, Types, Mapped
  <2>2. ASSUME NEW m \in Call
        PROVE  /\ ceiling[m] \in Bases \cup {None}
               /\ ceiling[m] # None => project[m] # None
               /\ project[m] # None => project[m].base \in Bases
               /\ request[m].map # None => ceiling[request[m].map] # None
               /\ call[m].pc \in Steps
    BY <1>1 DEF ConvInv, Types, Housed, ProjectRow, CallState
  <2>3. ASSUME NEW m \in Call, artifact[m] # None
        PROVE  project[artifact[m].project] # None /\ artifact[m].visibility \in {"private", "project"}
    BY <1>1, <2>3 DEF ConvInv, Types, Housed, ArtifactRow
  <2>4. lost \in 0 .. MaxLost /\ retries \in 0 .. MaxRetries
    BY <1>1 DEF ConvInv, Types
  <2>. QED BY <2>1, <2>2, <2>3, <2>4 DEF TypeOK
<1>2. ASSUME ConvInv, lost = 0 PROVE OneProject
  <2>. SUFFICES ASSUME NEW a \in Call, NEW b \in Call, artifact[a] # None, artifact[b] # None,
                       request[a].ids = request[b].ids
                PROVE  artifact[a].project = artifact[b].project
    BY DEF OneProject
  <2>1. /\ artifact[a].project \in Call /\ artifact[b].project \in Call /\ request[a].ids \in SUBSET ExternalId
        /\ artifact[a].project = request[a].map /\ artifact[b].project = request[b].map /\ None \notin Call
    BY <1>2, BoundAssumption DEF ConvInv, InPlace, Types, ArtifactRow, Published
  <2>2. Settles(request[a].ids, request[a].map) /\ Settles(request[a].ids, request[b].map)
    BY <2>1 DEF Settles
  <2>. QED BY <1>2, <2>1, <2>2 DEF ConvInv, InPlace, Settled
<1>3. ASSUME ConvInv, lost <= 1 PROVE NoLeftoverProject
  BY <1>3 DEF ConvInv, UndoOnce, NoLeftoverProject
<1>4. ConvInv => Confidential
  BY <1>1, <1>2, <1>3 DEF Confidential, ConvInv, InPlace
<1>. QED BY <1>4, ConversationsHold, PTL

\* What the row of a request says, and what its commit completes it with, is one
\* conversation (insertOrVerifyRequestBinding and resolveFinalDestination).
THEOREM RequestsStayBound == Spec => BindingStands
<1>1. ASSUME ConvInv, [Next]_vars, lost' = 0, NEW r \in Call, request[r].map # None
      PROVE  request'[r].map = request[r].map
  <2>0. Types /\ None \notin Call
    BY <1>1, BoundAssumption DEF ConvInv
  <2>1. CASE request' = request
    BY <2>1
  <2>2. ASSUME NEW c \in Call, Verify(c) PROVE request'[r].map = request[r].map
    <3>1. InPlace
      BY <1>1, <2>2 DEF Verify, ConvInv
    <3>2. CASE request' = [request EXCEPT ![c] = Bind(c)]
      <4>1. r # c => request'[r] = request[r]
        BY <2>0, <3>2 DEF Types
      <4>2. request'[c] = Bind(c)
        BY <2>0, <3>2 DEF Types
      <4>3. request[c].map # None => Bind(c) = request[c]
        <5>. SUFFICES ASSUME request[c].map # None PROVE Bind(c) = request[c]
          OBVIOUS
        <5>1. request[c].ids \in SUBSET ExternalId /\ request[c].map \in Call
          BY <2>0 DEF Types
        <5>2. Settles(request[c].ids, request[c].map)
          BY DEF Settles
        <5>3. request[c].map \in Mappings(request[c].ids)
          BY <3>1, <5>1, <5>2 DEF InPlace, Settled
        <5>. QED BY <2>0, <5>3, Binds DEF Mappings
      <4>. QED BY <1>1, <4>1, <4>2, <4>3
    <3>. QED BY <2>1, <2>2, <3>2 DEF Verify
  <2>3. ASSUME NEW c \in Call, CommitMapped(c) PROVE request'[r].map = request[r].map
    <3>1. InPlace
      BY <1>1, <2>0, <2>3, BoundAssumption DEF CommitMapped, ConvInv, Lose, Types
    <3>2. r # c => request'[r] = request[r]
      BY <2>0, <2>3 DEF CommitMapped, Complete, Types
    <3>3. request[c].map # None => FALSE
      <4>. SUFFICES ASSUME request[c].map # None PROVE FALSE
        OBVIOUS
      <4>1. request[c].ids \in SUBSET ExternalId /\ request[c].map \in Call /\ request[c].ids = call[c].ids
        BY <2>0, <2>3, <3>1 DEF Types, CommitMapped, InPlace, BoundTo, Bound, At
      <4>2. Settles(request[c].ids, request[c].map)
        BY DEF Settles
      <4>3. request[c].map \in Mappings(request[c].ids)
        BY <3>1, <4>1, <4>2 DEF InPlace, Settled
      <4>. QED BY <2>3, <4>1, <4>3 DEF Mappings, CommitMapped, Mappable, Unclaimed
    <3>. QED BY <1>1, <3>2, <3>3
  <2>4. ASSUME NEW c \in Call, Commit(c) PROVE request'[r].map = request[r].map
    <3>1. InPlace
      BY <1>1, <2>0, <2>4, BoundAssumption DEF Commit, ConvInv, Lose, Types
    <3>2. r # c => request'[r] = request[r]
      BY <2>0, <2>4 DEF Commit, Complete, Types
    <3>3. ASSUME request[c].map # None PROVE request'[c].map = request[c].map
      <4>1. /\ request[c].ids \in SUBSET ExternalId /\ request[c].map \in Call /\ request[c].ids = call[c].ids
            /\ Map(c) \in Call
        BY <2>0, <2>4, <3>1, <3>3 DEF Types, CallState, Commit, InPlace, BoundTo, Bound, At, Map
      <4>2. Settles(request[c].ids, request[c].map) /\ Settles(request[c].ids, Map(c))
        BY <2>0, <2>4, <3>3, <4>1 DEF Settles, Commit, At
      <4>3. request[c].map = Map(c)
        BY <3>1, <4>1, <4>2 DEF InPlace, Settled
      <4>. QED BY <2>0, <2>4, <4>3 DEF Commit, Complete, Types
    <3>. QED BY <1>1, <3>2, <3>3
  <2>5. ASSUME NEW c \in Call, Drop(c) PROVE FALSE
    <3>1. lost = 0
      BY <1>1, <2>5 DEF Drop
    <3>. QED BY <1>1, <2>5, <3>1 DEF ConvInv, UndoOnce, Drop, At, Undoing
  <2>. QED BY <1>1, <2>1, <2>2, <2>3, <2>4, <2>5 DEF Next, vars, Step, Begin, Resolve, Create,
              CreateFails, Created,
       Narrow, NarrowFails, Narrowed, Alias, Attach, Attached, FindTarget, Final, CommitFails,
       Undo, Unmap, Recover,
       GiveUp, Retry, Archive, OpenProject, OpenArtifact, StopBot
<1>2. ConvInv /\ [Next]_vars => [lost' = 0 => StaysMapped]_vars
  BY <1>1 DEF StaysMapped
<1>. QED BY <1>2, ConversationsHold, PTL DEF Spec, BindingStands
=============================================================================
