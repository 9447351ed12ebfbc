---------------------------- MODULE LiveRoomProofs ----------------------------
(***************************************************************************)
(* Theorems about LiveRoom, for any number of connections and users, any   *)
(* caps, deadlines and interval.                                           *)
(*                                                                         *)
(* The handlers of the room are compositions of few operations on its      *)
(* memory.  The first part says what each operation keeps of Core, which   *)
(* ties the tabs, the users, the counters and the timers together, and     *)
(* that it admits nobody (Fewer).  The second part shows each action to    *)
(* keep IInv, and the last ones the alarm and what viewers see.            *)
(***************************************************************************)
EXTENDS LiveRoom, FiniteSetTheorems, SequenceTheorems, TLAPS

-----------------------------------------------------------------------------
(* Times, sequences, and loops over all members of a set                   *)

LEMMA LeastOfNats ==
  ASSUME NEW S \in SUBSET Nat, S # {}
  PROVE  \E x \in S : \A y \in S : x <= y
<1>1. PICK x \in S : \A y \in S : ~(<<y, x>> \in OpToRel(<, Nat))
  BY NatLessThanWellFounded, WFMin
<1>2. ASSUME NEW y \in S PROVE x <= y
  <2>1. ~(y < x)
    BY <1>1 DEF OpToRel
  <2>. QED BY <2>1
<1>. QED BY <1>2

\* What holds at 0 and from each index to the next holds at the last.
LEMMA UpTo ==
  ASSUME NEW n \in Nat, NEW T, 0 \in T, \A i \in 1 .. n : i - 1 \in T => i \in T
  PROVE  n \in T
<1>1. SUFFICES ASSUME n \notin T PROVE FALSE
  OBVIOUS
<1>2. {i \in 0 .. n : i \notin T} \in SUBSET Nat /\ {i \in 0 .. n : i \notin T} # {}
  BY <1>1
<1>3. PICK k \in {i \in 0 .. n : i \notin T} : \A j \in {i \in 0 .. n : i \notin T} : k <= j
  BY <1>2, LeastOfNats
<1>4. k # 0 /\ k \in 1 .. n
  BY <1>3
<1>5. k - 1 \in 0 .. n /\ ~(k <= k - 1)
  BY <1>4
<1>6. k - 1 \in T
  BY <1>3, <1>5
<1>. QED BY <1>3, <1>4, <1>6

\* h tells, index by index, what is left when each of a list is invalidated.
InTurn(h, r, list, n) ==
  h = [i \in 0 .. n |-> IF i = 0 THEN r ELSE Invalidate(h[i - 1], list[i])]

\* The recursion of InvalidateAll has a value at each index.
LEMMA TurnsExist ==
  ASSUME NEW r, NEW list, NEW n \in Nat
  PROVE  \E h : InTurn(h, r, list, n)
<1>. DEFINE T == {m \in 0 .. n : \E h : InTurn(h, r, list, m)}
<1>1. 0 \in T
  <2>. DEFINE g == [i \in 0 .. 0 |-> r]
  <2>1. \A i \in 0 .. 0 : r = IF i = 0 THEN r ELSE Invalidate(g[i - 1], list[i])
    BY SMT
  <2>2. InTurn(g, r, list, 0)
    BY <2>1, Zenon DEF InTurn
  <2>. QED BY <2>2
<1>2. ASSUME NEW m \in 1 .. n, m - 1 \in T PROVE m \in T
  <2>1. PICK h : InTurn(h, r, list, m - 1)
    BY <1>2
  <2>. DEFINE g == [i \in 0 .. m |-> IF i = m THEN Invalidate(h[m - 1], list[m]) ELSE h[i]]
  <2>2. \A i \in 0 .. m : i # 0 => g[i - 1] = h[i - 1]
    BY SMT
  <2>3. \A i \in 0 .. m : g[i] = IF i = 0 THEN r ELSE Invalidate(g[i - 1], list[i])
    <3>1. ASSUME NEW i \in 0 .. m, i = m PROVE g[i] = IF i = 0 THEN r ELSE Invalidate(g[i - 1], list[i])
      BY <3>1, <2>2
    <3>2. ASSUME NEW i \in 0 .. m, i # m PROVE g[i] = IF i = 0 THEN r ELSE Invalidate(g[i - 1], list[i])
      <4>1. i \in 0 .. m - 1
        BY <3>2
      <4>2. h[i] = IF i = 0 THEN r ELSE Invalidate(h[i - 1], list[i])
        BY <2>1, <4>1 DEF InTurn
      <4>. QED BY <4>2, <2>2, <3>2
    <3>. QED BY <3>1, <3>2
  <2>4. InTurn(g, r, list, m)
    <3>1. g = [i \in 0 .. m |-> g[i]]
      BY Zenon
    <3>. HIDE DEF g
    <3>. QED BY <2>3, <3>1, Zenon DEF InTurn
  <2>5. m \in 0 .. n
    OBVIOUS
  <2>. QED BY <2>4, <2>5, Zenon
<1>3. n \in T
  <2>. HIDE DEF T
  <2>. QED BY <1>1, <1>2, UpTo
<1>. QED BY <1>3, Zenon

\* A list of as many different members as a finite set has is a list of all.
LEMMA OntoAll ==
  ASSUME NEW S, IsFiniteSet(S), NEW f \in [1 .. Cardinality(S) -> S],
         \A i, j \in 1 .. Cardinality(S) : i # j => f[i] # f[j]
  PROVE  \A s \in S : \E i \in 1 .. Cardinality(S) : f[i] = s
<1>. DEFINE n == Cardinality(S)
<1>1. n \in Nat
  BY FS_CardinalityType
<1>. HIDE DEF n
<1>2. f \in [1 .. n -> S] /\ \A i, j \in 1 .. n : i # j => f[i] # f[j]
  BY DEF n
<1>3. f \in Injection(1 .. n, S)
  BY <1>2 DEF Injection, IsInjective
<1>4. Cardinality(1 .. n) = n
  BY <1>1, FS_Interval
<1>5. f \in Surjection(1 .. n, S)
  BY <1>3, <1>4, FS_Injection DEF n
<1>. QED BY <1>5 DEF Surjection, n

Covers(list, S) == \A s \in S : \E i \in 1 .. Len(list) : list[i] = s

LEMMA InvalidateAllInTurn ==
  ASSUME NEW r, NEW S, IsFiniteSet(S)
  PROVE  \E list, h :
           /\ list \in Seq(S)
           /\ h[0] = r /\ InvalidateAll(r, S) = h[Len(list)]
           /\ Covers(list, S)
           /\ \A i \in 1 .. Len(list) : h[i] = Invalidate(h[i - 1], list[i])
<1>1. Cardinality(S) \in Nat /\ ExistsBijection(1 .. Cardinality(S), S)
  BY FS_CardinalityType
<1>. DEFINE f == SetToSeq(S)
            after == CHOOSE a : InTurn(a, r, f, Len(f))
<1>2. f \in [1 .. Cardinality(S) -> S] /\ IsInjective(f)
  <2>1. \E g \in [1 .. Cardinality(S) -> S] : IsInjective(g)
    BY <1>1 DEF ExistsBijection, Bijection, Injection
  <2>. QED BY <2>1, Zenon DEF SetToSeq
<1>3. f \in Seq(S) /\ Len(f) \in Nat
  <2>. HIDE DEF f
  <2>. QED BY <1>1, <1>2
<1>4. InvalidateAll(r, S) = after[Len(f)]
  BY Zenon DEF InvalidateAll, InOrder, InTurn
<1>5. InTurn(after, r, f, Len(f))
  BY <1>3, TurnsExist, Zenon
<1>. HIDE DEF f, after
<1>6. after[0] = r /\ \A i \in 1 .. Len(f) : after[i] = Invalidate(after[i - 1], f[i])
  <2>1. \A i \in 0 .. Len(f) : after[i] = IF i = 0 THEN r ELSE Invalidate(after[i - 1], f[i])
    BY <1>5, Zenon DEF InTurn
  <2>. QED BY <1>3, <2>1
<1>7. Covers(f, S)
  <2>1. Len(f) = Cardinality(S)
    BY <1>1, <1>2
  <2>2. \A i, j \in 1 .. Cardinality(S) : i # j => f[i] # f[j]
    BY <1>2 DEF IsInjective
  <2>3. \A s \in S : \E i \in 1 .. Cardinality(S) : f[i] = s
    BY <1>2, <2>2, OntoAll
  <2>. QED BY <2>1, <2>3 DEF Covers
<1>. QED BY <1>3, <1>4, <1>6, <1>7
-----------------------------------------------------------------------------
(* Sequences without repetition.                                           *)

\* Without takes one element out of such a sequence and leaves the others.
LEMMA WithoutOne ==
  ASSUME NEW S, NEW q \in Seq(S), IsInjective(q), NEW x \in ToSet(q)
  PROVE  /\ Without(q, x) \in Seq(S) /\ IsInjective(Without(q, x))
         /\ ToSet(Without(q, x)) = ToSet(q) \ {x}
<1>. DEFINE i == CHOOSE j \in DOMAIN q : q[j] = x
            n == Len(q)
            a == SubSeq(q, 1, i - 1)
            b == SubSeq(q, i + 1, n)
            w == a \o b
<1>1. i \in DOMAIN q /\ q[i] = x
  BY DEF ToSet
<1>2. Without(q, x) = w
  BY DEF Without, RemoveAt
<1>. HIDE DEF i
<1>3. n \in Nat /\ i \in 1 .. n /\ DOMAIN q = 1 .. n /\ \A j \in 1 .. n : q[j] \in S
  BY <1>1
<1>4. /\ a \in Seq(S) /\ Len(a) = i - 1
      /\ \A j \in 1 .. i - 1 : a[j] = q[j]
  <2>1. \A j \in 1 .. i - 1 : q[j] \in S
    BY <1>3
  <2>2. /\ a \in Seq(S) /\ Len(a) = IF 1 <= i - 1 THEN i - 1 - 1 + 1 ELSE 0
        /\ \A j \in 1 .. (i - 1 - 1 + 1) : a[j] = q[1 + j - 1]
    BY <1>3, <2>1, SubSeqProperties
  <2>. HIDE DEF a
  <2>3. \A j \in 1 .. i - 1 : j \in 1 .. (i - 1 - 1 + 1) /\ 1 + j - 1 = j
    BY <1>3
  <2>. QED BY <1>3, <2>2, <2>3
<1>5. /\ b \in Seq(S) /\ Len(b) = n - i
      /\ \A j \in 1 .. n - i : b[j] = q[i + j]
  <2>1. \A j \in i + 1 .. n : q[j] \in S
    BY <1>3
  <2>2. /\ b \in Seq(S) /\ Len(b) = IF i + 1 <= n THEN n - (i + 1) + 1 ELSE 0
        /\ \A j \in 1 .. (n - (i + 1) + 1) : b[j] = q[i + 1 + j - 1]
    BY <1>3, <2>1, SubSeqProperties
  <2>. HIDE DEF b
  <2>3. ASSUME NEW j \in 1 .. n - i PROVE b[j] = q[i + j]
    <3>1. j \in 1 .. (n - (i + 1) + 1) /\ i + 1 + j - 1 = i + j
      BY <1>3
    <3>. QED BY <2>2, <3>1
  <2>4. Len(b) = n - i
    <3>1. Len(b) = IF i + 1 <= n THEN n - (i + 1) + 1 ELSE 0
      BY <2>2
    <3>2. n \in Int /\ i \in Int /\ 1 <= i /\ i <= n
      BY <1>3
    <3>. HIDE DEF n
    <3>3. (IF i + 1 <= n THEN n - (i + 1) + 1 ELSE 0) = n - i
      BY <3>2
    <3>. QED BY <3>1, <3>3
  <2>. QED BY <2>2, <2>3, <2>4
<1>. HIDE DEF a, b
<1>6. /\ w \in Seq(S) /\ Len(w) = n - 1
      /\ \A j \in 1 .. n - 1 : w[j] = IF j < i THEN q[j] ELSE q[j + 1]
  <2>1. /\ w \in Seq(S) /\ Len(w) = Len(a) + Len(b)
        /\ \A j \in 1 .. Len(a) + Len(b) : w[j] = IF j <= Len(a) THEN a[j] ELSE b[j - Len(a)]
    BY <1>4, <1>5, ConcatProperties
  <2>. HIDE DEF w
  <2>2. ASSUME NEW j \in 1 .. n - 1 PROVE w[j] = IF j < i THEN q[j] ELSE q[j + 1]
    <3>1. j \in 1 .. Len(a) + Len(b)
      BY <1>3, <1>4, <1>5
    <3>2. CASE j < i
      <4>1. j <= Len(a) /\ j \in 1 .. i - 1
        BY <1>3, <1>4, <3>2
      <4>. QED BY <1>4, <2>1, <3>1, <3>2, <4>1
    <3>3. CASE ~(j < i)
      <4>1. ~(j <= Len(a)) /\ j - (i - 1) \in 1 .. n - i /\ i + (j - (i - 1)) = j + 1
        BY <1>3, <1>4, <3>3
      <4>2. b[j - (i - 1)] = q[i + (j - (i - 1))]
        BY <1>5, <4>1
      <4>. QED BY <1>4, <2>1, <3>1, <3>3, <4>1, <4>2
    <3>. QED BY <3>2, <3>3
  <2>3. Len(w) = n - 1
    BY <1>3, <1>4, <1>5, <2>1
  <2>. QED BY <2>1, <2>2, <2>3
<1>. HIDE DEF w
<1>7. DOMAIN w = 1 .. n - 1
  BY <1>6
<1>8. \A j, k \in 1 .. n : q[j] = q[k] => j = k
  BY <1>3 DEF IsInjective
<1>9. IsInjective(w)
  <2>1. ASSUME NEW j \in 1 .. n - 1, NEW k \in 1 .. n - 1, w[j] = w[k] PROVE j = k
    <3>1. j \in 1 .. n /\ j + 1 \in 1 .. n /\ k \in 1 .. n /\ k + 1 \in 1 .. n
      BY <1>3
    <3>. QED BY <1>3, <1>6, <1>8, <2>1, <3>1
  <2>. QED BY <2>1, <1>7, Zenon DEF IsInjective
<1>10. ToSet(w) = ToSet(q) \ {x}
  <2>1. ASSUME NEW j \in 1 .. n - 1 PROVE w[j] \in ToSet(q) \ {x}
    <3>1. j \in 1 .. n /\ j + 1 \in 1 .. n
      BY <1>3
    <3>2. CASE j < i
      <4>1. w[j] = q[j] /\ q[j] # q[i]
        BY <1>3, <1>6, <1>8, <3>1, <3>2
      <4>. QED BY <1>1, <1>3, <3>1, <4>1 DEF ToSet
    <3>3. CASE ~(j < i)
      <4>1. w[j] = q[j + 1] /\ q[j + 1] # q[i]
        BY <1>3, <1>6, <1>8, <3>1, <3>3
      <4>. QED BY <1>1, <1>3, <3>1, <4>1 DEF ToSet
    <3>. QED BY <3>2, <3>3
  <2>2. ASSUME NEW j \in 1 .. n, q[j] # x PROVE \E k \in 1 .. n - 1 : w[k] = q[j]
    <3>1. j # i
      BY <1>1, <2>2
    <3>2. CASE j < i
      <4>1. j \in 1 .. n - 1
        BY <1>3, <3>2
      <4>. QED BY <1>6, <3>2, <4>1
    <3>3. CASE j > i
      <4>1. j - 1 \in 1 .. n - 1 /\ ~(j - 1 < i) /\ (j - 1) + 1 = j
        BY <1>3, <3>3
      <4>2. w[j - 1] = q[(j - 1) + 1]
        BY <1>6, <4>1
      <4>. QED BY <4>1, <4>2
    <3>. QED BY <1>3, <3>1, <3>2, <3>3
  <2>3. ToSet(w) \subseteq ToSet(q) \ {x}
    BY <1>7, <2>1 DEF ToSet
  <2>4. ToSet(q) \ {x} \subseteq ToSet(w)
    <3>1. ASSUME NEW y \in ToSet(q) \ {x} PROVE y \in ToSet(w)
      <4>1. PICK j \in 1 .. n : q[j] = y
        BY <1>3 DEF ToSet
      <4>. QED BY <1>7, <2>2, <3>1, <4>1 DEF ToSet
    <3>. QED BY <3>1
  <2>. QED BY <2>3, <2>4
<1>. QED BY <1>2, <1>6, <1>9, <1>10

LEMMA ToSetEmpty ==
  ASSUME NEW S, NEW q \in Seq(S)
  PROVE  /\ q = <<>> <=> ToSet(q) = {}
         /\ ToSet(q) \subseteq S
<1>1. DOMAIN q = 1 .. Len(q) /\ Len(q) \in Nat /\ \A i \in DOMAIN q : q[i] \in S
  OBVIOUS
<1>2. q # <<>> => 1 \in DOMAIN q
  OBVIOUS
<1>3. ToSet(<<>>) = {}
  BY DEF ToSet
<1>. QED BY <1>1, <1>2, <1>3 DEF ToSet

LEMMA AppendNew ==
  ASSUME NEW S, NEW q \in Seq(S), NEW x \in S
  PROVE  /\ Append(q, x) \in Seq(S) /\ Append(q, x) # <<>>
         /\ ToSet(Append(q, x)) = ToSet(q) \cup {x}
         /\ (IsInjective(q) /\ x \notin ToSet(q)) => IsInjective(Append(q, x))
<1>. DEFINE w == Append(q, x)
            n == Len(q)
<1>1. n \in Nat /\ DOMAIN q = 1 .. n
  OBVIOUS
<1>2. /\ w \in Seq(S) /\ w # <<>> /\ DOMAIN w = 1 .. n + 1 /\ w[n + 1] = x
      /\ \A i \in 1 .. n : w[i] = q[i]
  BY AppendProperties
<1>. HIDE DEF w
<1>3. 1 .. n + 1 = (1 .. n) \cup {n + 1}
  BY <1>1
<1>4. ToSet(w) = ToSet(q) \cup {x}
  <2>1. ToSet(w) = {w[i] : i \in 1 .. n} \cup {w[n + 1]}
    BY <1>2, <1>3, Zenon DEF ToSet
  <2>2. {w[i] : i \in 1 .. n} = {q[i] : i \in 1 .. n}
    BY <1>2
  <2>. QED BY <1>1, <1>2, <2>1, <2>2, Zenon DEF ToSet
<1>5. ASSUME IsInjective(q), x \notin ToSet(q) PROVE IsInjective(w)
  <2>1. \A i \in 1 .. n : q[i] # x
    BY <1>1, <1>5 DEF ToSet
  <2>2. \A i, j \in 1 .. n : q[i] = q[j] => i = j
    BY <1>1, <1>5 DEF IsInjective
  <2>3. \A i, j \in 1 .. n + 1 : w[i] = w[j] => i = j
    BY <1>1, <1>2, <1>3, <2>1, <2>2
  <2>. QED BY <1>2, <2>3 DEF IsInjective
<1>. QED BY <1>2, <1>4, <1>5 DEF w
-----------------------------------------------------------------------------
(* The memory of the object                                                *)

Attachment ==
  [ready : {"none", "open", "closing", "closed"}, presence : Presence \cup {None},
   deadline : Timer, seen : Seq(Presence) \cup {None}]

Memory ==
  [records : SUBSET Socket, users : Seq(User), tabs : [User -> Seq(Socket)],
   reserved : SUBSET Socket, reservations : Nat, occupancy : [User -> Nat],
   nextExpiry : Timer, expiryDirty : BOOLEAN, cleanup : SUBSET Socket,
   cleanupDue : Timer, due : Timer, published : Seq(Presence) \cup {None}]

Object == [m : Memory, k : [Socket -> Attachment]]

HeldIn(r, u) == {s \in r.m.records \cup r.m.reserved : UserId(r, s) = u}

\* Whoever holds a place shows a presence.
Shown(r) == \A s \in r.m.records \cup r.m.reserved : r.k[s].presence \in Presence

Counted(r) ==
  /\ r.m.records \cap r.m.reserved = {}
  /\ r.m.reservations = Cardinality(r.m.reserved)
  /\ \A u \in User : r.m.occupancy[u] = Cardinality(HeldIn(r, u))

\* The tabs of a user are records of that user, each once.
Tabbed(r) ==
  \A u \in User :
    /\ IsInjective(r.m.tabs[u])
    /\ \A s \in ToSet(r.m.tabs[u]) : s \in r.m.records /\ UserId(r, s) = u

Gathered(r) ==
  /\ IsInjective(r.m.users)
  /\ \A u \in User : u \in ToSet(r.m.users) <=> r.m.tabs[u] # <<>>

\* What is to be closed is not eligible, and has a time when it is swept.
Sweepable(r) ==
  /\ r.m.cleanup \subseteq r.m.records
  /\ r.m.cleanup \cap Eligible(r.m) = {}
  /\ r.m.cleanup = {} \/ r.m.cleanupDue # Never

Reckoned(r) == \A s \in Eligible(r.m) : r.m.nextExpiry <= r.k[s].deadline

Core(r) ==
  /\ r \in Object
  /\ Shown(r) /\ Counted(r) /\ Tabbed(r) /\ Gathered(r) /\ Sweepable(r) /\ Reckoned(r)

Halved(r) == r.m.records = Eligible(r.m) \cup r.m.cleanup

LEMMA TimerTypes ==
  /\ Timer \subseteq Nat /\ Never \in Timer /\ 0 \in Timer /\ Interval \in Timer
  /\ 0 # Never /\ Interval # Never /\ Interval # 0
  /\ Deadlines \subseteq Timer /\ \A d \in Deadlines : d # 0 /\ d # Never
  /\ \A t \in Timer : t <= Never /\ 0 <= t
  BY TimeAssumption DEF Timer, Never

LEMMA EligibleTabs ==
  ASSUME NEW r, Core(r)
  PROVE  /\ \A s \in Eligible(r.m) : UserId(r, s) \in User /\ s \in ToSet(r.m.tabs[UserId(r, s)])
         /\ Eligible(r.m) \subseteq r.m.records
         /\ \A u \in User : \A s \in ToSet(r.m.tabs[u]) : s \in Eligible(r.m)
<1>1. \A s \in Eligible(r.m) : \E u \in User : s \in ToSet(r.m.tabs[u])
  BY DEF Eligible
<1>2. \A u \in User : \A s \in ToSet(r.m.tabs[u]) : s \in r.m.records /\ UserId(r, s) = u
  BY DEF Core, Tabbed
<1>3. \A u \in User : \A s \in ToSet(r.m.tabs[u]) : s \in Eligible(r.m)
  BY DEF Eligible
<1>. QED BY <1>1, <1>2, <1>3

LEMMA HeldInUser ==
  ASSUME NEW r, Core(r), NEW s \in r.m.records \cup r.m.reserved
  PROVE  /\ s \in Socket /\ UserId(r, s) \in User /\ s \in HeldIn(r, UserId(r, s))
         /\ r.m.occupancy[UserId(r, s)] \in Nat /\ r.m.occupancy[UserId(r, s)] >= 1
         /\ IsFiniteSet(HeldIn(r, UserId(r, s)))
<1>1. s \in Socket
  BY DEF Core, Object, Memory
<1>2. UserId(r, s) \in User
  BY DEF Core, Shown, UserId, User
<1>3. s \in HeldIn(r, UserId(r, s))
  BY DEF HeldIn
<1>4. HeldIn(r, UserId(r, s)) \subseteq Socket
  BY DEF HeldIn, Core, Object, Memory
<1>5. IsFiniteSet(HeldIn(r, UserId(r, s)))
  BY <1>4, RoomAssumption, FS_Subset
<1>6. Cardinality(HeldIn(r, UserId(r, s))) \in Nat /\ Cardinality(HeldIn(r, UserId(r, s))) # 0
  BY <1>3, <1>5, FS_CardinalityType, FS_EmptySet
<1>7. r.m.occupancy[UserId(r, s)] = Cardinality(HeldIn(r, UserId(r, s)))
  BY <1>2 DEF Core, Counted
<1>. QED BY <1>1, <1>2, <1>3, <1>5, <1>6, <1>7

\* The first tab of a user who is here is a record.
LEMMA HeadsAre ==
  ASSUME NEW r, Core(r), NEW i \in DOMAIN r.m.users
  PROVE  Head(r.m.tabs[r.m.users[i]]) \in r.m.records
<1>1. r.m.users \in Seq(User) /\ r.m.tabs \in [User -> Seq(Socket)]
  BY DEF Core, Object, Memory
<1>2. PICK u \in User : u = r.m.users[i]
  BY <1>1
<1>3. u \in ToSet(r.m.users)
  BY <1>2 DEF ToSet
<1>4. r.m.tabs[u] # <<>>
  BY <1>3 DEF Core, Gathered
<1>5. r.m.tabs[u] \in Seq(Socket)
  BY <1>1
<1>6. 1 \in DOMAIN r.m.tabs[u] /\ Head(r.m.tabs[u]) = r.m.tabs[u][1]
  BY <1>4, <1>5
<1>7. Head(r.m.tabs[u]) \in ToSet(r.m.tabs[u])
  BY <1>6 DEF ToSet
<1>. QED BY <1>2, <1>7 DEF Core, Tabbed

LEMMA SameHeads ==
  ASSUME NEW r, Core(r), NEW q, q.m.users = r.m.users, q.m.tabs = r.m.tabs,
         \A x \in r.m.records : q.k[x].presence = r.k[x].presence
  PROVE  Body(q) = Body(r)
<1>1. \A i \in DOMAIN r.m.users : Head(r.m.tabs[r.m.users[i]]) \in r.m.records
  BY HeadsAre
<1>. QED BY <1>1 DEF Body

LEMMA SameBody ==
  ASSUME NEW r, Core(r), NEW q, q.m.users = r.m.users, q.m.tabs = r.m.tabs,
         \A x \in Socket : q.k[x].presence = r.k[x].presence
  PROVE  Body(q) = Body(r)
<1>1. r.m.records \subseteq Socket
  BY DEF Core, Object, Memory
<1>. QED BY <1>1, SameHeads

LEMMA DirtyFrame ==
  ASSUME NEW r \in Object
  PROVE  LET q == MarkPresenceDirty(r) IN
         /\ q \in Object /\ q.k = r.k
         /\ q.m.records = r.m.records /\ q.m.users = r.m.users /\ q.m.tabs = r.m.tabs
         /\ q.m.reserved = r.m.reserved /\ q.m.reservations = r.m.reservations
         /\ q.m.occupancy = r.m.occupancy /\ q.m.nextExpiry = r.m.nextExpiry
         /\ q.m.expiryDirty = r.m.expiryDirty /\ q.m.cleanup = r.m.cleanup
         /\ q.m.cleanupDue = r.m.cleanupDue /\ q.m.published = r.m.published
         /\ q.m.due = IF r.m.due = Never THEN Interval ELSE r.m.due
  BY TimerTypes DEF Object, Memory, MarkPresenceDirty
-----------------------------------------------------------------------------
(* Closing connections                                                     *)

TabsAre(r, u, left, us, dirty) ==
  [r EXCEPT !.m.tabs[u] = left, !.m.users = us, !.m.expiryDirty = dirty]

LEMMA TabsEdited ==
  ASSUME NEW r \in Object, NEW u \in User, NEW left \in Seq(Socket), NEW us \in Seq(User),
         NEW dirty \in BOOLEAN
  PROVE  LET q == TabsAre(r, u, left, us, dirty) IN
         /\ q \in Object /\ q.k = r.k
         /\ q.m.records = r.m.records /\ q.m.tabs = [r.m.tabs EXCEPT ![u] = left]
         /\ q.m.users = us
         /\ q.m.reserved = r.m.reserved /\ q.m.reservations = r.m.reservations
         /\ q.m.occupancy = r.m.occupancy /\ q.m.nextExpiry = r.m.nextExpiry
         /\ q.m.cleanup = r.m.cleanup
         /\ q.m.cleanupDue = r.m.cleanupDue /\ q.m.published = r.m.published
         /\ q.m.due = r.m.due
  BY DEF Object, Memory, TabsAre

\* Without s among the tabs of its user, nor its user among the users if that was
\* the last tab, the presence is in order.
LEMMA TabClosed ==
  ASSUME NEW r, Core(r), NEW s \in Eligible(r.m), NEW q \in Object,
         NEW u, u = UserId(r, s), NEW left \in Seq(Socket), NEW us \in Seq(User),
         IsInjective(left), ToSet(left) = ToSet(r.m.tabs[u]) \ {s},
         IsInjective(us),
         ToSet(us) = IF left = <<>> THEN ToSet(r.m.users) \ {u} ELSE ToSet(r.m.users),
         q.k = r.k, q.m.records = r.m.records,
         q.m.tabs = [r.m.tabs EXCEPT ![u] = left], q.m.users = us
  PROVE  Tabbed(q) /\ Gathered(q) /\ Eligible(q.m) = Eligible(r.m) \ {s}
<1>1. u \in User /\ s \in ToSet(r.m.tabs[u])
  BY EligibleTabs
<1>2. r.m.tabs \in [User -> Seq(Socket)]
  BY DEF Core, Object, Memory
<1>3. r.m.tabs[u] # <<>>
  BY <1>1, <1>2, ToSetEmpty
<1>4. \A v \in User : q.m.tabs[v] = IF v = u THEN left ELSE r.m.tabs[v]
  BY <1>2
<1>5. \A t : UserId(q, t) = UserId(r, t)
  BY DEF UserId
<1>6. \A v \in User : /\ IsInjective(r.m.tabs[v])
                      /\ \A t \in ToSet(r.m.tabs[v]) : t \in r.m.records /\ UserId(r, t) = v
  BY Zenon DEF Core, Tabbed
<1>7. Tabbed(q)
  <2>1. ASSUME NEW v \in User
        PROVE IsInjective(q.m.tabs[v])
              /\ \A t \in ToSet(q.m.tabs[v]) : t \in q.m.records /\ UserId(q, t) = v
    <3>1. CASE v = u
      BY <1>4, <1>5, <1>6, <3>1
    <3>2. CASE v # u
      <4>1. q.m.tabs[v] = r.m.tabs[v]
        BY <1>4, <3>2
      <4>. QED BY <1>5, <1>6, <4>1
    <3>. QED BY <3>1, <3>2
  <2>. QED BY <2>1, Zenon DEF Tabbed
<1>8. Gathered(q)
  <2>1. left = <<>> <=> ToSet(left) = {}
    BY ToSetEmpty
  <2>2. ASSUME NEW v \in User PROVE v \in ToSet(us) <=> q.m.tabs[v] # <<>>
    <3>1. v \in ToSet(r.m.users) <=> r.m.tabs[v] # <<>>
      BY DEF Core, Gathered
    <3>2. CASE v = u
      <4>1. q.m.tabs[v] = left
        BY <1>4, <3>2
      <4>. QED BY <1>3, <3>1, <3>2, <4>1
    <3>3. CASE v # u
      <4>1. q.m.tabs[v] = r.m.tabs[v]
        BY <1>4, <3>3
      <4>. QED BY <3>1, <3>3, <4>1
    <3>. QED BY <3>2, <3>3
  <2>. QED BY <2>2, Zenon DEF Gathered
<1>9. Eligible(q.m) = Eligible(r.m) \ {s}
  <2>1. ASSUME NEW t \in Eligible(q.m) PROVE t \in Eligible(r.m) \ {s}
    <3>1. PICK v \in User : t \in ToSet(q.m.tabs[v])
      BY DEF Eligible
    <3>2. t \in ToSet(r.m.tabs[v]) /\ (v = u => t # s)
      BY <1>4, <3>1
    <3>3. UserId(r, t) = v
      BY <1>6, <3>2
    <3>4. t # s
      BY <3>2, <3>3
    <3>. QED BY <3>2, <3>4 DEF Eligible
  <2>2. ASSUME NEW t \in Eligible(r.m) \ {s} PROVE t \in Eligible(q.m)
    <3>1. PICK v \in User : t \in ToSet(r.m.tabs[v])
      BY DEF Eligible
    <3>2. t \in ToSet(q.m.tabs[v])
      BY <1>4, <3>1
    <3>. QED BY <3>2 DEF Eligible
  <2>. QED BY <2>1, <2>2
<1>. QED BY <1>7, <1>8, <1>9

\* What Retire does: s is no tab of its user any more, nor is the user there
\* without a tab, and the rest is as it was.
LEMMA RetireDoes ==
  ASSUME NEW r, Core(r), NEW s \in Eligible(r.m)
  PROVE  LET q == Retire(r, s) IN
         /\ q \in Object /\ q.k = r.k
         /\ q.m.records = r.m.records
         /\ q.m.reserved = r.m.reserved /\ q.m.reservations = r.m.reservations
         /\ q.m.occupancy = r.m.occupancy /\ q.m.nextExpiry = r.m.nextExpiry
         /\ q.m.cleanup = r.m.cleanup
         /\ q.m.cleanupDue = r.m.cleanupDue /\ q.m.published = r.m.published
         /\ q.m.due = r.m.due \/ (r.m.due = Never /\ q.m.due = Interval)
         /\ Eligible(q.m) = Eligible(r.m) \ {s}
         /\ Tabbed(q) /\ Gathered(q)
         /\ q.m.due = Never => Body(q) = Body(r)
<1>. DEFINE u == UserId(r, s)
            tab == r.m.tabs[u]
            left == Without(tab, s)
            us == IF left = <<>> THEN Without(r.m.users, u) ELSE r.m.users
            dirty == \/ r.m.expiryDirty
                     \/ /\ r.k[s].deadline = r.m.nextExpiry
                        /\ \A t \in Eligible(r.m) \ {s} : r.k[t].deadline # r.k[s].deadline
            edited == TabsAre(r, u, left, us, dirty)
            q == Retire(r, s)
<1>1. /\ u \in User /\ s \in ToSet(tab)
      /\ tab \in Seq(Socket) /\ IsInjective(tab)
  <2>1. u \in User /\ s \in ToSet(tab)
    BY EligibleTabs
  <2>2. r.m.tabs \in [User -> Seq(Socket)]
    BY DEF Core, Object, Memory
  <2>3. IsInjective(tab)
    BY <2>1 DEF Core, Tabbed
  <2>. QED BY <2>1, <2>2, <2>3
<1>2. left \in Seq(Socket) /\ IsInjective(left) /\ ToSet(left) = ToSet(tab) \ {s}
  BY <1>1, WithoutOne
<1>3. r.m.users \in Seq(User) /\ IsInjective(r.m.users) /\ u \in ToSet(r.m.users)
  <2>1. tab # <<>>
    BY <1>1, ToSetEmpty
  <2>. QED BY <1>1, <2>1 DEF Core, Object, Memory, Gathered
<1>4. Without(r.m.users, u) \in Seq(User) /\ IsInjective(Without(r.m.users, u))
      /\ ToSet(Without(r.m.users, u)) = ToSet(r.m.users) \ {u}
  BY <1>3, WithoutOne
<1>5. /\ us \in Seq(User) /\ IsInjective(us)
      /\ ToSet(us) = IF left = <<>> THEN ToSet(r.m.users) \ {u} ELSE ToSet(r.m.users)
  BY <1>3, <1>4
<1>6. dirty \in BOOLEAN /\ r \in Object
  BY DEF Core, Object, Memory
<1>7. q = IF Body(edited) = Body(r) THEN edited ELSE MarkPresenceDirty(edited)
  <2>. DEFINE gone == [r EXCEPT !.m.tabs[u] = left,
                        !.m.users = IF left = <<>> THEN Without(@, u) ELSE @,
                        !.m.expiryDirty = @ \/ /\ r.k[s].deadline = r.m.nextExpiry
                                               /\ \A t \in Eligible(r.m) \ {s} :
                                                    r.k[t].deadline # r.k[s].deadline]
  <2>1. gone = edited
    BY <1>6 DEF Object, Memory, TabsAre
  <2>2. q = IF Body(gone) = Body(r) THEN gone ELSE MarkPresenceDirty(gone)
    BY Zenon DEF Retire
  <2>. HIDE DEF gone, edited, q
  <2>. QED BY <2>1, <2>2
<1>. HIDE DEF left, us, dirty
<1>8. PICK e : e = edited
  OBVIOUS
<1>9. /\ e \in Object /\ e.k = r.k
      /\ e.m.records = r.m.records /\ e.m.tabs = [r.m.tabs EXCEPT ![u] = left]
      /\ e.m.users = us
      /\ e.m.reserved = r.m.reserved /\ e.m.reservations = r.m.reservations
      /\ e.m.occupancy = r.m.occupancy /\ e.m.nextExpiry = r.m.nextExpiry
      /\ e.m.cleanup = r.m.cleanup
      /\ e.m.cleanupDue = r.m.cleanupDue /\ e.m.published = r.m.published
      /\ e.m.due = r.m.due
  BY <1>1, <1>2, <1>5, <1>6, <1>8, TabsEdited
<1>10. Tabbed(e) /\ Gathered(e) /\ Eligible(e.m) = Eligible(r.m) \ {s}
  BY <1>2, <1>5, <1>9, TabClosed
<1>. HIDE DEF edited, q
<1>11. CASE q = e /\ Body(e) = Body(r)
  BY <1>9, <1>10, <1>11, Zenon DEF q
<1>12. CASE q = MarkPresenceDirty(e)
  <2>1. PICK d : d = q
    OBVIOUS
  <2>2. /\ d \in Object /\ d.k = e.k
        /\ d.m.records = e.m.records /\ d.m.users = e.m.users /\ d.m.tabs = e.m.tabs
        /\ d.m.reserved = e.m.reserved /\ d.m.reservations = e.m.reservations
        /\ d.m.occupancy = e.m.occupancy /\ d.m.nextExpiry = e.m.nextExpiry
        /\ d.m.expiryDirty = e.m.expiryDirty /\ d.m.cleanup = e.m.cleanup
        /\ d.m.cleanupDue = e.m.cleanupDue /\ d.m.published = e.m.published
        /\ d.m.due = IF e.m.due = Never THEN Interval ELSE e.m.due
    BY <1>9, <1>12, <2>1, DirtyFrame, Zenon
  <2>3. Tabbed(d) /\ Gathered(d) /\ Eligible(d.m) = Eligible(r.m) \ {s}
    <3>1. \A t : UserId(d, t) = UserId(e, t)
      BY <2>2, Zenon DEF UserId
    <3>2. Tabbed(d)
      BY <1>10, <2>2, <3>1, Zenon DEF Tabbed
    <3>3. Gathered(d)
      BY <1>10, <2>2, Zenon DEF Gathered
    <3>4. Eligible(d.m) = Eligible(e.m)
      BY <2>2, Zenon DEF Eligible
    <3>. QED BY <1>10, <3>2, <3>3, <3>4
  <2>4. /\ d.m.records = r.m.records
        /\ d.m.reserved = r.m.reserved /\ d.m.reservations = r.m.reservations
        /\ d.m.occupancy = r.m.occupancy /\ d.m.nextExpiry = r.m.nextExpiry
        /\ d.m.cleanup = r.m.cleanup /\ d.k = r.k
        /\ d.m.cleanupDue = r.m.cleanupDue /\ d.m.published = r.m.published
        /\ d.m.due = r.m.due \/ (r.m.due = Never /\ d.m.due = Interval)
        /\ d.m.due # Never
    BY <1>9, <2>2, TimerTypes
  <2>. QED BY <2>1, <2>2, <2>3, <2>4, Zenon DEF q
<1>. QED BY <1>7, <1>8, <1>11, <1>12, Zenon

\* The invariants but the counts depend on these parts of memory alone.
LEMMA SamePresence ==
  ASSUME NEW r, Core(r), NEW q \in Object,
         q.m.tabs = r.m.tabs, q.m.users = r.m.users,
         \A x : UserId(q, x) = UserId(r, x),
         Eligible(r.m) \subseteq q.m.records
  PROVE  Tabbed(q) /\ Gathered(q) /\ Eligible(q.m) = Eligible(r.m)
<1>1. Eligible(q.m) = Eligible(r.m)
  BY Zenon DEF Eligible
<1>2. Gathered(q)
  BY Zenon DEF Core, Gathered
<1>3. \A u \in User : /\ IsInjective(r.m.tabs[u])
                      /\ \A x \in ToSet(r.m.tabs[u]) : x \in Eligible(r.m) /\ UserId(r, x) = u
  BY EligibleTabs DEF Core, Tabbed
<1>4. Tabbed(q)
  BY <1>3 DEF Tabbed
<1>. QED BY <1>1, <1>2, <1>4

LEMMA OneFewer ==
  ASSUME NEW S, IsFiniteSet(S), NEW x \in S
  PROVE  /\ Cardinality(S \ {x}) = Cardinality(S) - 1
         /\ Cardinality(S) \in Nat /\ Cardinality(S) # 0
<1>1. Cardinality(S \ {x}) = Cardinality(S) - 1
  BY FS_RemoveElement
<1>2. Cardinality(S) \in Nat /\ (Cardinality(S) = 0 <=> S = {})
  BY FS_CardinalityType, FS_EmptySet
<1>. QED BY <1>1, <1>2

RecordsAre(r, records, occ, cleanup, due) ==
  [r EXCEPT !.m.records = records, !.m.occupancy = occ, !.m.cleanup = cleanup,
            !.m.cleanupDue = due]

LEMMA RecordsEdited ==
  ASSUME NEW r \in Object, NEW records \in SUBSET Socket, NEW occ \in [User -> Nat],
         NEW cleanup \in SUBSET Socket, NEW due \in Timer,
         NEW q, q = RecordsAre(r, records, occ, cleanup, due)
  PROVE  /\ q \in Object /\ q.k = r.k
         /\ q.m.records = records /\ q.m.users = r.m.users /\ q.m.tabs = r.m.tabs
         /\ q.m.reserved = r.m.reserved /\ q.m.reservations = r.m.reservations
         /\ q.m.occupancy = occ
         /\ q.m.nextExpiry = r.m.nextExpiry /\ q.m.expiryDirty = r.m.expiryDirty
         /\ q.m.cleanup = cleanup /\ q.m.published = r.m.published
         /\ q.m.cleanupDue = due /\ q.m.due = r.m.due
  BY DEF Object, Memory, RecordsAre

LEMMA ForgetFrame ==
  ASSUME NEW r \in Object, NEW s \in r.m.records, UserId(r, s) \in User,
         r.m.occupancy[UserId(r, s)] - 1 \in Nat, NEW q, q = Forget(r, s)
  PROVE  /\ q \in Object /\ q.k = r.k
         /\ q.m.records = r.m.records \ {s} /\ q.m.users = r.m.users /\ q.m.tabs = r.m.tabs
         /\ q.m.reserved = r.m.reserved /\ q.m.reservations = r.m.reservations
         /\ q.m.occupancy = [r.m.occupancy EXCEPT ![UserId(r, s)] = @ - 1]
         /\ q.m.nextExpiry = r.m.nextExpiry /\ q.m.expiryDirty = r.m.expiryDirty
         /\ q.m.cleanup = r.m.cleanup \ {s} /\ q.m.published = r.m.published
         /\ q.m.cleanupDue = IF r.m.cleanup \subseteq {s} THEN Never ELSE r.m.cleanupDue
         /\ q.m.due = r.m.due
<1>1. PICK due \in Timer : due = IF r.m.cleanup \subseteq {s} THEN Never ELSE r.m.cleanupDue
  BY TimerTypes DEF Object, Memory
<1>2. PICK occ \in [User -> Nat] : occ = [r.m.occupancy EXCEPT ![UserId(r, s)] = @ - 1]
  BY DEF Object, Memory
<1>3. PICK left \in SUBSET Socket : left = r.m.records \ {s}
  BY DEF Object, Memory
<1>4. PICK cleanup \in SUBSET Socket : cleanup = r.m.cleanup \ {s}
  BY DEF Object, Memory
<1>5. q = RecordsAre(r, left, occ, cleanup, due)
  BY <1>1, <1>2, <1>3, <1>4 DEF Object, Memory, Forget, RecordsAre
<1>6. /\ q \in Object /\ q.k = r.k
      /\ q.m.records = left /\ q.m.users = r.m.users /\ q.m.tabs = r.m.tabs
      /\ q.m.reserved = r.m.reserved /\ q.m.reservations = r.m.reservations
      /\ q.m.occupancy = occ
      /\ q.m.nextExpiry = r.m.nextExpiry /\ q.m.expiryDirty = r.m.expiryDirty
      /\ q.m.cleanup = cleanup /\ q.m.published = r.m.published
      /\ q.m.cleanupDue = due /\ q.m.due = r.m.due
  BY <1>5, RecordsEdited
<1>. QED BY <1>1, <1>2, <1>3, <1>4, <1>6, Zenon

\* Forget takes a connection that is no tab out of the room and of its count.
LEMMA ForgetDoes ==
  ASSUME NEW r, Core(r), NEW s \in r.m.records, s \notin Eligible(r.m)
  PROVE  LET q == Forget(r, s) IN
         /\ Core(q) /\ q.k = r.k
         /\ q.m.records = r.m.records \ {s} /\ q.m.cleanup = r.m.cleanup \ {s}
         /\ q.m.reserved = r.m.reserved /\ q.m.reservations = r.m.reservations
         /\ q.m.nextExpiry = r.m.nextExpiry /\ q.m.published = r.m.published
         /\ q.m.due = r.m.due /\ Eligible(q.m) = Eligible(r.m)
         /\ Body(q) = Body(r)
<1>. DEFINE u == UserId(r, s)
<1>1. /\ s \in Socket /\ u \in User /\ s \in HeldIn(r, u)
      /\ r.m.occupancy[u] \in Nat /\ r.m.occupancy[u] >= 1 /\ IsFiniteSet(HeldIn(r, u))
  BY HeldInUser
<1>2. r.m.occupancy[u] - 1 \in Nat
  BY <1>1
<1>3. r \in Object
  BY DEF Core
<1>4. PICK q : q = Forget(r, s)
  OBVIOUS
<1>5. /\ q \in Object /\ q.k = r.k
      /\ q.m.records = r.m.records \ {s} /\ q.m.users = r.m.users /\ q.m.tabs = r.m.tabs
      /\ q.m.reserved = r.m.reserved /\ q.m.reservations = r.m.reservations
      /\ q.m.occupancy = [r.m.occupancy EXCEPT ![u] = @ - 1]
      /\ q.m.nextExpiry = r.m.nextExpiry /\ q.m.expiryDirty = r.m.expiryDirty
      /\ q.m.cleanup = r.m.cleanup \ {s} /\ q.m.published = r.m.published
      /\ q.m.cleanupDue = IF r.m.cleanup \subseteq {s} THEN Never ELSE r.m.cleanupDue
      /\ q.m.due = r.m.due
  BY <1>1, <1>2, <1>3, <1>4, ForgetFrame
<1>6. \A x : UserId(q, x) = UserId(r, x)
  BY <1>5 DEF UserId
<1>7. Tabbed(q) /\ Gathered(q) /\ Eligible(q.m) = Eligible(r.m)
  <2>1. Eligible(r.m) \subseteq q.m.records
    BY <1>5, EligibleTabs
  <2>. QED BY <1>5, <1>6, <2>1, SamePresence
<1>8. Shown(q)
  BY <1>5 DEF Core, Shown
<1>9. Counted(q)
  <2>1. s \notin r.m.reserved
    BY DEF Core, Counted
  <2>2. HeldIn(q, u) = HeldIn(r, u) \ {s}
    BY <1>5, <1>6, <2>1 DEF HeldIn
  <2>3. \A v \in User : v # u => HeldIn(q, v) = HeldIn(r, v)
    BY <1>1, <1>5, <1>6, <2>1 DEF HeldIn
  <2>4. r.m.occupancy \in [User -> Nat]
    BY <1>3 DEF Object, Memory
  <2>5. \A v \in User : q.m.occupancy[v] = IF v = u THEN r.m.occupancy[u] - 1 ELSE r.m.occupancy[v]
    BY <1>5, <2>4
  <2>6. Cardinality(HeldIn(q, u)) = Cardinality(HeldIn(r, u)) - 1
    BY <1>1, <2>2, OneFewer
  <2>7. \A v \in User : r.m.occupancy[v] = Cardinality(HeldIn(r, v))
    BY DEF Core, Counted
  <2>8. \A v \in User : q.m.occupancy[v] = Cardinality(HeldIn(q, v))
    BY <1>1, <2>3, <2>5, <2>6, <2>7
  <2>9. q.m.records \cap q.m.reserved = {} /\ q.m.reservations = Cardinality(q.m.reserved)
    BY <1>5 DEF Core, Counted
  <2>. QED BY <2>8, <2>9 DEF Counted
<1>10. Sweepable(q)
  <2>1. r.m.cleanup \subseteq r.m.records /\ r.m.cleanup \cap Eligible(r.m) = {}
        /\ (r.m.cleanup = {} \/ r.m.cleanupDue # Never)
    BY DEF Core, Sweepable
  <2>. QED BY <1>5, <1>7, <2>1 DEF Sweepable
<1>11. Reckoned(q)
  BY <1>5, <1>7 DEF Core, Reckoned
<1>12. Body(q) = Body(r)
  BY <1>5, SameBody
<1>. QED BY <1>4, <1>5, <1>7, <1>8, <1>9, <1>10, <1>11, <1>12 DEF Core

\* A connection that waits for its cleanup is not open any more.
Shutting(r) == \A x \in r.m.cleanup : r.k[x].ready # "open"

\* Nobody is sent anything, and a change of the presence leaves a message due.
Told(r, q) ==
  /\ q.m.published = r.m.published
  /\ \A x \in Socket : q.k[x].seen = r.k[x].seen
  /\ q.m.due = Never => r.m.due = Never /\ Body(q) = Body(r)
  /\ Shutting(r) => Shutting(q)

LEMMA ToldSelf == ASSUME NEW r PROVE Told(r, r)
  BY DEF Told

LEMMA ToldTwice ==
  ASSUME NEW r, NEW a, NEW q, Told(r, a), Told(a, q)
  PROVE  Told(r, q)
  BY DEF Told

\* What may become of memory when connections are closed: those of r that are left
\* in q are closing or are what they were, and those that are gone are closed.
Narrowed(r, q) ==
  /\ q.m.records \subseteq r.m.records
  /\ q.m.reserved = r.m.reserved /\ q.m.reservations = r.m.reservations
  /\ q.m.nextExpiry = r.m.nextExpiry /\ Told(r, q)
  /\ q.m.due = r.m.due \/ (r.m.due = Never /\ q.m.due = Interval)
  /\ Eligible(q.m) \subseteq Eligible(r.m)
  /\ \A x \in Socket : q.k[x].presence = r.k[x].presence
  /\ \A x \in Eligible(q.m) : q.k[x] = r.k[x]
  /\ \A x \in Socket : \/ q.k[x].ready = r.k[x].ready
                       \/ q.k[x].ready = "closing" /\ x \in q.m.records
  /\ \A x \in r.m.records : x \in q.m.records \/ q.k[x].ready = "closed"

LEMMA NarrowedSelf == ASSUME NEW r PROVE Narrowed(r, r)
  BY ToldSelf DEF Narrowed

LEMMA NarrowedTwice ==
  ASSUME NEW r, NEW a, NEW q, Narrowed(r, a), Narrowed(a, q), Core(r), Core(a), Core(q)
  PROVE  Narrowed(r, q)
<1>1. q.m.records \subseteq r.m.records
  BY DEF Narrowed
<1>2. q.m.reserved = r.m.reserved /\ q.m.reservations = r.m.reservations
      /\ q.m.nextExpiry = r.m.nextExpiry /\ Told(r, q)
  BY ToldTwice DEF Narrowed
<1>3. q.m.due = r.m.due \/ (r.m.due = Never /\ q.m.due = Interval)
  BY TimerTypes DEF Narrowed
<1>4. Eligible(q.m) \subseteq Eligible(r.m)
  BY DEF Narrowed
<1>5. \A x \in Socket : q.k[x].presence = r.k[x].presence
  BY DEF Narrowed
<1>6. \A x \in Eligible(q.m) : q.k[x] = r.k[x]
  BY DEF Narrowed
<1>7. a.m.records \subseteq r.m.records /\ r.m.records \subseteq Socket
  BY DEF Narrowed, Core, Object, Memory
<1>8. \A x \in Socket : \/ q.k[x].ready = r.k[x].ready
                        \/ q.k[x].ready = "closing" /\ x \in q.m.records
  BY DEF Narrowed
<1>9. \A x \in r.m.records : x \in q.m.records \/ q.k[x].ready = "closed"
  <2>1. ASSUME NEW x \in r.m.records, x \notin q.m.records PROVE q.k[x].ready = "closed"
    <3>1. CASE x \in a.m.records
      BY <2>1, <3>1 DEF Narrowed
    <3>2. CASE x \notin a.m.records
      BY <2>1, <3>2, <1>7 DEF Narrowed
    <3>. QED BY <3>1, <3>2
  <2>. QED BY <2>1
<1>. QED BY <1>1, <1>2, <1>3, <1>4, <1>5, <1>6, <1>8, <1>9 DEF Narrowed

LEMMA RetireKeeps ==
  ASSUME NEW r, Core(r), NEW s \in Eligible(r.m), NEW q, q = Retire(r, s)
  PROVE  /\ Core(q) /\ Narrowed(r, q) /\ q.k = r.k
         /\ q.m.records = r.m.records /\ q.m.cleanup = r.m.cleanup
         /\ Eligible(q.m) = Eligible(r.m) \ {s}
<1>1. /\ q \in Object /\ q.k = r.k
      /\ q.m.records = r.m.records
      /\ q.m.reserved = r.m.reserved /\ q.m.reservations = r.m.reservations
      /\ q.m.occupancy = r.m.occupancy /\ q.m.nextExpiry = r.m.nextExpiry
      /\ q.m.cleanup = r.m.cleanup
      /\ q.m.cleanupDue = r.m.cleanupDue /\ q.m.published = r.m.published
      /\ q.m.due = r.m.due \/ (r.m.due = Never /\ q.m.due = Interval)
      /\ Eligible(q.m) = Eligible(r.m) \ {s}
      /\ Tabbed(q) /\ Gathered(q)
      /\ q.m.due = Never => Body(q) = Body(r)
  BY RetireDoes
<1>2. Shown(q)
  BY <1>1 DEF Core, Shown
<1>3. Counted(q)
  <2>1. \A u : HeldIn(q, u) = HeldIn(r, u)
    BY <1>1 DEF HeldIn, UserId
  <2>. QED BY <1>1, <2>1 DEF Core, Counted
<1>4. Sweepable(q) /\ Reckoned(q)
  BY <1>1 DEF Core, Sweepable, Reckoned
<1>5. Told(r, q)
  BY <1>1, TimerTypes DEF Told, Shutting
<1>6. Narrowed(r, q)
  BY <1>1, <1>5 DEF Narrowed
<1>. QED BY <1>1, <1>2, <1>3, <1>4, <1>6 DEF Core

ClosingOf(r, s) == IF r.k[s].ready = "closed" THEN "closed" ELSE "closing"

LEMMA ShutFrame ==
  ASSUME NEW r \in Object, NEW s \in Socket, NEW q, q = Shut(r, s)
  PROVE  /\ q \in Object /\ q.m = r.m
         /\ q.k[s].ready = ClosingOf(r, s) /\ q.k[s].deadline = 0
         /\ q.k[s].presence = r.k[s].presence /\ q.k[s].seen = r.k[s].seen
         /\ \A x \in Socket : x # s => q.k[x] = r.k[x]
<1>1. PICK ready \in {"closed", "closing"} : ready = ClosingOf(r, s)
  BY DEF ClosingOf
<1>2. 0 \in Timer
  BY TimerTypes
<1>3. r.k \in [Socket -> Attachment] /\ r.k[s] \in Attachment
  BY DEF Object
<1>4. PICK a : a = [r.k[s] EXCEPT !.deadline = 0, !.ready = ready]
  OBVIOUS
<1>5. /\ a \in Attachment /\ a.ready = ready /\ a.deadline = 0
      /\ a.presence = r.k[s].presence /\ a.seen = r.k[s].seen
  BY <1>1, <1>2, <1>3, <1>4 DEF Attachment
<1>6. q = [r EXCEPT !.k = [r.k EXCEPT ![s] = a]]
  BY <1>1, <1>3, <1>4 DEF Shut, ClosingOf, Object, Attachment
<1>7. q.m = r.m /\ q.k = [r.k EXCEPT ![s] = a]
  BY <1>6 DEF Object
<1>8. q \in Object
  BY <1>3, <1>5, <1>6 DEF Object
<1>. QED BY <1>1, <1>3, <1>5, <1>7, <1>8

\* The invariants do not depend on what becomes of a connection that is no tab.
LEMMA SameMemory ==
  ASSUME NEW r, Core(r), NEW q \in Object, q.m = r.m,
         \A x \in r.m.records \cup r.m.reserved : q.k[x].presence = r.k[x].presence,
         \A x \in Eligible(r.m) : r.m.nextExpiry <= q.k[x].deadline
  PROVE  Core(q)
<1>1. \A x \in r.m.records \cup r.m.reserved : UserId(q, x) = UserId(r, x)
  BY DEF UserId
<1>2. Tabbed(q)
  <2>1. \A u \in User : /\ IsInjective(r.m.tabs[u])
                        /\ \A x \in ToSet(r.m.tabs[u]) : x \in r.m.records /\ UserId(r, x) = u
    BY Zenon DEF Core, Tabbed
  <2>2. \A u \in User : /\ IsInjective(r.m.tabs[u])
                        /\ \A x \in ToSet(r.m.tabs[u]) : x \in r.m.records /\ UserId(q, x) = u
    BY <1>1, <2>1
  <2>. QED BY <2>2 DEF Tabbed
<1>3. Shown(q)
  BY DEF Core, Shown
<1>4. \A u : HeldIn(q, u) = HeldIn(r, u)
  BY <1>1 DEF HeldIn
<1>5. Counted(q)
  BY <1>4 DEF Core, Counted
<1>6. Gathered(q) /\ Sweepable(q) /\ Reckoned(q)
  BY DEF Core, Gathered, Sweepable, Reckoned
<1>. QED BY <1>2, <1>3, <1>5, <1>6 DEF Core

LEMMA ShutKeeps ==
  ASSUME NEW r, Core(r), NEW s \in Socket, s \notin Eligible(r.m),
         s \in r.m.records \/ r.k[s].ready = "closed", NEW q, q = Shut(r, s)
  PROVE  /\ Core(q) /\ Narrowed(r, q) /\ q.m = r.m /\ q.k[s].ready = ClosingOf(r, s)
<1>1. r \in Object
  BY DEF Core
<1>2. /\ q \in Object /\ q.m = r.m
      /\ q.k[s].ready = ClosingOf(r, s) /\ q.k[s].deadline = 0
      /\ q.k[s].presence = r.k[s].presence /\ q.k[s].seen = r.k[s].seen
      /\ \A x \in Socket : x # s => q.k[x] = r.k[x]
  BY <1>1, ShutFrame
<1>3. Eligible(r.m) \subseteq Socket
  BY EligibleTabs DEF Core, Object, Memory
<1>4. \A x \in Socket : q.k[x].presence = r.k[x].presence /\ q.k[x].seen = r.k[x].seen
  BY <1>2
<1>5. \A x \in Eligible(r.m) : q.k[x] = r.k[x]
  BY <1>2, <1>3
<1>6. Core(q)
  <2>1. \A x \in Eligible(r.m) : r.m.nextExpiry <= q.k[x].deadline
    BY <1>5 DEF Core, Reckoned
  <2>2. r.m.records \cup r.m.reserved \subseteq Socket
    BY <1>1 DEF Object, Memory
  <2>3. \A x \in r.m.records \cup r.m.reserved : q.k[x].presence = r.k[x].presence
    BY <1>4, <2>2
  <2>. QED BY <1>2, <2>1, <2>3, SameMemory
<1>7. Narrowed(r, q)
  <2>1. \A x \in Socket : \/ q.k[x].ready = r.k[x].ready
                          \/ q.k[x].ready = "closing" /\ x \in q.m.records
    BY <1>2 DEF ClosingOf
  <2>2. Body(q) = Body(r)
    BY <1>2, <1>4, SameBody
  <2>3. Shutting(r) => Shutting(q)
    <3>1. r.m.cleanup \subseteq Socket
      BY <1>1 DEF Object, Memory
    <3>. QED BY <1>2, <3>1 DEF Shutting, ClosingOf
  <2>4. Told(r, q)
    BY <1>2, <1>4, <2>2, <2>3 DEF Told
  <2>. QED BY <1>2, <1>4, <1>5, <2>1, <2>4 DEF Narrowed
<1>. QED BY <1>2, <1>6, <1>7

LEMMA ToSweepFrame ==
  ASSUME NEW r \in Object, NEW s \in Socket, NEW q, q = ToSweep(r, s)
  PROVE  /\ q \in Object /\ q.k = r.k
         /\ q.m.records = r.m.records /\ q.m.users = r.m.users /\ q.m.tabs = r.m.tabs
         /\ q.m.reserved = r.m.reserved /\ q.m.reservations = r.m.reservations
         /\ q.m.occupancy = r.m.occupancy
         /\ q.m.nextExpiry = r.m.nextExpiry /\ q.m.expiryDirty = r.m.expiryDirty
         /\ q.m.cleanup = r.m.cleanup \cup {s} /\ q.m.published = r.m.published
         /\ q.m.cleanupDue # Never /\ q.m.due = r.m.due
<1>1. PICK due \in Timer : due = IF r.m.cleanupDue = Never THEN Interval ELSE r.m.cleanupDue
  BY TimerTypes DEF Object, Memory
<1>2. due # Never
  BY <1>1, TimerTypes
<1>3. PICK occ \in [User -> Nat] : occ = r.m.occupancy
  BY DEF Object, Memory
<1>4. PICK records \in SUBSET Socket : records = r.m.records
  BY DEF Object, Memory
<1>5. PICK cleanup \in SUBSET Socket : cleanup = r.m.cleanup \cup {s}
  BY DEF Object, Memory
<1>6. q = RecordsAre(r, records, occ, cleanup, due)
  BY <1>1, <1>3, <1>4, <1>5 DEF Object, Memory, ToSweep, RecordsAre
<1>7. /\ q \in Object /\ q.k = r.k
      /\ q.m.records = records /\ q.m.users = r.m.users /\ q.m.tabs = r.m.tabs
      /\ q.m.reserved = r.m.reserved /\ q.m.reservations = r.m.reservations
      /\ q.m.occupancy = occ
      /\ q.m.nextExpiry = r.m.nextExpiry /\ q.m.expiryDirty = r.m.expiryDirty
      /\ q.m.cleanup = cleanup /\ q.m.published = r.m.published
      /\ q.m.cleanupDue = due /\ q.m.due = r.m.due
  BY <1>6, RecordsEdited
<1>. QED BY <1>2, <1>3, <1>4, <1>5, <1>7, Zenon

LEMMA ToSweepKeeps ==
  ASSUME NEW r, Core(r), NEW s \in r.m.records, s \notin Eligible(r.m),
         r.k[s].ready # "open", NEW q, q = ToSweep(r, s)
  PROVE  /\ Core(q) /\ Narrowed(r, q) /\ q.m.records = r.m.records
         /\ Eligible(q.m) = Eligible(r.m) /\ q.m.cleanup = r.m.cleanup \cup {s}
<1>1. r \in Object /\ s \in Socket
  BY DEF Core, Object, Memory
<1>2. /\ q \in Object /\ q.k = r.k
      /\ q.m.records = r.m.records /\ q.m.users = r.m.users /\ q.m.tabs = r.m.tabs
      /\ q.m.reserved = r.m.reserved /\ q.m.reservations = r.m.reservations
      /\ q.m.occupancy = r.m.occupancy
      /\ q.m.nextExpiry = r.m.nextExpiry /\ q.m.expiryDirty = r.m.expiryDirty
      /\ q.m.cleanup = r.m.cleanup \cup {s} /\ q.m.published = r.m.published
      /\ q.m.cleanupDue # Never /\ q.m.due = r.m.due
  BY <1>1, ToSweepFrame
<1>3. \A x : UserId(q, x) = UserId(r, x)
  BY <1>2 DEF UserId
<1>4. Tabbed(q) /\ Gathered(q) /\ Eligible(q.m) = Eligible(r.m)
  BY <1>2, <1>3, EligibleTabs, SamePresence
<1>5. Shown(q)
  BY <1>2 DEF Core, Shown
<1>6. \A u : HeldIn(q, u) = HeldIn(r, u)
  BY <1>2, <1>3 DEF HeldIn
<1>7. Counted(q)
  BY <1>2, <1>6 DEF Core, Counted
<1>8. Sweepable(q)
  BY <1>2, <1>4 DEF Core, Sweepable
<1>9. Reckoned(q)
  BY <1>2, <1>4 DEF Core, Reckoned
<1>10. Told(r, q)
  <2>1. Body(q) = Body(r)
    BY <1>2, SameBody
  <2>. QED BY <1>2, <2>1 DEF Told, Shutting
<1>11. Narrowed(r, q)
  BY <1>2, <1>4, <1>10 DEF Narrowed
<1>. QED BY <1>2, <1>4, <1>5, <1>7, <1>8, <1>9, <1>11 DEF Core

\* Invalidate keeps memory in order: s is no tab any more, and is in the cleanup
\* unless it has left the room.
LEMMA InvalidateKeeps ==
  ASSUME NEW r, Core(r), NEW s \in Socket, s \in r.m.records \/ r.k[s].ready = "closed",
         NEW q, q = Invalidate(r, s)
  PROVE  /\ Core(q) /\ Narrowed(r, q)
         /\ s \in q.m.records => s \in q.m.cleanup
         /\ (Eligible(r.m) \cup r.m.cleanup) \cap q.m.records \subseteq Eligible(q.m) \cup q.m.cleanup
         /\ r.k[s].ready = "closed" => s \notin q.m.records
<1>1. PICK a : a = IF s \in Eligible(r.m) THEN Retire(r, s) ELSE r
  OBVIOUS
<1>2. /\ Core(a) /\ Narrowed(r, a) /\ a.k = r.k
      /\ a.m.records = r.m.records /\ a.m.cleanup = r.m.cleanup
      /\ Eligible(a.m) = Eligible(r.m) \ {s}
  <2>1. CASE s \in Eligible(r.m)
    BY <1>1, <2>1, RetireKeeps
  <2>2. CASE s \notin Eligible(r.m)
    BY <1>1, <2>2, NarrowedSelf
  <2>. QED BY <2>1, <2>2
<1>3. PICK b : b = Shut(a, s)
  OBVIOUS
<1>4. Core(b) /\ Narrowed(a, b) /\ b.m = a.m /\ b.k[s].ready = ClosingOf(a, s)
  BY <1>2, <1>3, ShutKeeps
<1>5. q = IF b.k[s].ready = "closed" THEN Forget(b, s) ELSE ToSweep(b, s)
  <2>1. q = Ended(Shut(IF s \in Eligible(r.m) THEN Retire(r, s) ELSE r, s), s)
    BY Zenon DEF Invalidate
  <2>2. q = Ended(Shut(a, s), s)
    BY <1>1, <2>1, Zenon
  <2>. QED BY <1>3, <2>2 DEF Ended
<1>6. Narrowed(r, b)
  BY <1>2, <1>4, NarrowedTwice
<1>7. s \notin Eligible(b.m)
  BY <1>2, <1>4
<1>8. CASE b.k[s].ready = "closed" /\ s \in b.m.records
  <2>1. PICK c : c = Forget(b, s)
    OBVIOUS
  <2>2. /\ Core(c) /\ c.k = b.k
        /\ c.m.records = b.m.records \ {s} /\ c.m.cleanup = b.m.cleanup \ {s}
        /\ c.m.reserved = b.m.reserved /\ c.m.reservations = b.m.reservations
        /\ c.m.nextExpiry = b.m.nextExpiry /\ c.m.published = b.m.published
        /\ c.m.due = b.m.due /\ Eligible(c.m) = Eligible(b.m)
        /\ Body(c) = Body(b)
    BY <1>4, <1>7, <1>8, <2>1, ForgetDoes
  <2>3. Told(b, c)
    BY <2>2 DEF Told, Shutting
  <2>6. Narrowed(b, c)
    BY <1>8, <2>2, <2>3 DEF Narrowed
  <2>4. Narrowed(r, c)
    BY <1>4, <1>6, <2>2, <2>6, NarrowedTwice
  <2>5. c = q
    BY <1>5, <1>8, <2>1
  <2>. QED BY <1>2, <1>4, <2>2, <2>4, <2>5
<1>9. CASE b.k[s].ready = "closed" /\ s \notin b.m.records
  <2>1. q = b
    BY <1>5, <1>9 DEF Forget
  <2>. QED BY <1>2, <1>4, <1>6, <1>9, <2>1
<1>10. CASE b.k[s].ready # "closed"
  <2>1. s \in b.m.records
    BY <1>2, <1>4, <1>10 DEF ClosingOf
  <2>2. q = ToSweep(b, s)
    BY <1>5, <1>10
  <2>3. /\ Core(q) /\ Narrowed(b, q) /\ q.m.records = b.m.records
        /\ Eligible(q.m) = Eligible(b.m) /\ q.m.cleanup = b.m.cleanup \cup {s}
    BY <1>4, <1>7, <1>10, <2>1, <2>2, ToSweepKeeps DEF ClosingOf
  <2>4. Narrowed(r, q)
    BY <1>4, <1>6, <2>3, NarrowedTwice
  <2>5. r.k[s].ready # "closed"
    BY <1>2, <1>4, <1>10 DEF ClosingOf
  <2>. QED BY <1>2, <1>4, <2>3, <2>4, <2>5
<1>. QED BY <1>8, <1>9, <1>10

\* What every turn that closes connections does to the room.
Fewer(r, q) ==
  /\ q.m.records \subseteq r.m.records
  /\ q.m.reserved = r.m.reserved /\ q.m.reservations = r.m.reservations
  /\ Eligible(q.m) \subseteq Eligible(r.m)
  /\ (Eligible(r.m) \cup r.m.cleanup) \cap q.m.records \subseteq Eligible(q.m) \cup q.m.cleanup
  /\ \A x \in Socket : q.k[x].presence = r.k[x].presence
  /\ \A x \in Socket : \/ q.k[x].ready = r.k[x].ready
                       \/ q.k[x].ready = "closing" /\ x \in q.m.records
  /\ \A x \in r.m.records : x \in q.m.records \/ q.k[x].ready = "closed"

LEMMA FewerSelf == ASSUME NEW r PROVE Fewer(r, r)
  BY DEF Fewer

LEMMA FewerTwice ==
  ASSUME NEW r, NEW a, NEW q, Fewer(r, a), Fewer(a, q), Core(r)
  PROVE  Fewer(r, q)
<1>1. q.m.records \subseteq r.m.records
  BY DEF Fewer
<1>2. q.m.reserved = r.m.reserved /\ q.m.reservations = r.m.reservations
  BY DEF Fewer
<1>4. Eligible(q.m) \subseteq Eligible(r.m)
  BY DEF Fewer
<1>5. \A x \in Socket : q.k[x].presence = r.k[x].presence
  BY DEF Fewer
<1>6. (Eligible(r.m) \cup r.m.cleanup) \cap q.m.records \subseteq Eligible(q.m) \cup q.m.cleanup
  BY DEF Fewer
<1>7. a.m.records \subseteq r.m.records /\ r.m.records \subseteq Socket
  BY DEF Fewer, Core, Object, Memory
<1>8. \A x \in Socket : \/ q.k[x].ready = r.k[x].ready
                        \/ q.k[x].ready = "closing" /\ x \in q.m.records
  BY DEF Fewer
<1>9. \A x \in r.m.records : x \in q.m.records \/ q.k[x].ready = "closed"
  <2>1. ASSUME NEW x \in r.m.records, x \notin q.m.records PROVE q.k[x].ready = "closed"
    <3>1. CASE x \in a.m.records
      BY <2>1, <3>1 DEF Fewer
    <3>2. CASE x \notin a.m.records
      BY <2>1, <3>2, <1>7 DEF Fewer
    <3>. QED BY <3>1, <3>2
  <2>. QED BY <2>1
<1>. QED BY <1>1, <1>2, <1>4, <1>5, <1>6, <1>8, <1>9 DEF Fewer

\* The runtime keeps no socket that is not a record.
Kept(r) == \A x \in Socket : r.k[x].ready \in {"open", "closing"} => x \in r.m.records

Orderly(r) == Core(r) /\ Halved(r) /\ Kept(r)

LEMMA FewerOrderly ==
  ASSUME NEW r, NEW q, Orderly(r), Core(q), Fewer(r, q)
  PROVE  Orderly(q)
<1>1. Kept(q)
  BY DEF Orderly, Kept, Fewer
<1>2. Eligible(q.m) \cup q.m.cleanup \subseteq q.m.records
  BY EligibleTabs DEF Core, Sweepable
<1>3. Halved(q)
  BY <1>2 DEF Orderly, Halved, Fewer
<1>. QED BY <1>1, <1>3 DEF Orderly

\* A connection that is in the room or closed may be invalidated.
Closable(r, s) == s \in Socket /\ (s \in r.m.records \/ r.k[s].ready = "closed")

LEMMA FewerClosable ==
  ASSUME NEW r, NEW q, Fewer(r, q), NEW s, Closable(r, s)
  PROVE  Closable(q, s)
  BY DEF Closable, Fewer

LEMMA InvalidateFewer ==
  ASSUME NEW r, Core(r), NEW s, Closable(r, s), NEW q, q = Invalidate(r, s)
  PROVE  Core(q) /\ Narrowed(r, q) /\ Fewer(r, q) /\ s \notin Eligible(q.m)
<1>1. /\ Core(q) /\ Narrowed(r, q)
      /\ s \in q.m.records => s \in q.m.cleanup
      /\ (Eligible(r.m) \cup r.m.cleanup) \cap q.m.records \subseteq Eligible(q.m) \cup q.m.cleanup
  BY InvalidateKeeps DEF Closable
<1>2. s \notin Eligible(q.m)
  BY <1>1, EligibleTabs DEF Core, Sweepable
<1>. QED BY <1>1, <1>2 DEF Fewer, Narrowed

LEMMA InvalidateAllKeeps ==
  ASSUME NEW r, Core(r), NEW S, S \subseteq Socket, \A s \in S : Closable(r, s),
         NEW q, q = InvalidateAll(r, S)
  PROVE  /\ Core(q) /\ Narrowed(r, q) /\ Fewer(r, q)
         /\ S = {} => q = r
         /\ \A s \in S : s \notin Eligible(q.m)
<1>1. IsFiniteSet(S)
  BY RoomAssumption, FS_Subset
<1>2. PICK list, h :
        /\ list \in Seq(S)
        /\ h[0] = r /\ InvalidateAll(r, S) = h[Len(list)]
        /\ Covers(list, S)
        /\ \A i \in 1 .. Len(list) : h[i] = Invalidate(h[i - 1], list[i])
  BY <1>1, InvalidateAllInTurn
<1>3. Len(list) \in Nat /\ \A i \in 1 .. Len(list) : list[i] \in S
  BY <1>2
<1>. DEFINE Out(i) == \A j \in 1 .. i : list[j] \notin Eligible(h[i].m)
            T == {i \in 0 .. Len(list) :
                    Core(h[i]) /\ Narrowed(r, h[i]) /\ Fewer(r, h[i]) /\ Out(i)}
<1>4. 0 \in T
  <2>1. Out(0)
    OBVIOUS
  <2>. HIDE DEF Out
  <2>. QED BY <1>2, <1>3, <2>1, NarrowedSelf, FewerSelf
<1>5. ASSUME NEW i \in 1 .. Len(list), i - 1 \in T PROVE i \in T
  <2>1. PICK a : a = h[i - 1]
    OBVIOUS
  <2>2. Core(a) /\ Narrowed(r, a) /\ Fewer(r, a) /\ Out(i - 1)
    BY <1>5, <2>1, Zenon
  <2>3. PICK b : b = Invalidate(a, list[i])
    OBVIOUS
  <2>4. Closable(a, list[i])
    BY <1>3, <2>2, FewerClosable
  <2>5. Core(b) /\ Narrowed(a, b) /\ Fewer(a, b) /\ list[i] \notin Eligible(b.m)
    BY <2>2, <2>3, <2>4, InvalidateFewer
  <2>6. Narrowed(r, b) /\ Fewer(r, b)
    BY <2>2, <2>5, NarrowedTwice, FewerTwice
  <2>7. b = h[i] /\ i \in 0 .. Len(list)
    BY <1>2, <1>3, <2>1, <2>3
  <2>8. Out(i)
    <3>1. Eligible(b.m) \subseteq Eligible(a.m)
      BY <2>5 DEF Fewer
    <3>2. \A j \in 1 .. i : j = i \/ j \in 1 .. i - 1
      BY <1>3
    <3>3. \A j \in 1 .. i - 1 : list[j] \notin Eligible(a.m)
      BY <2>1, <2>2
    <3>. QED BY <2>5, <2>7, <3>1, <3>2, <3>3
  <2>. HIDE DEF Out
  <2>. QED BY <2>5, <2>6, <2>7, <2>8
<1>. HIDE DEF T
<1>6. Len(list) \in T
  BY <1>3, <1>4, <1>5, UpTo
<1>7. Core(q) /\ Narrowed(r, q) /\ Fewer(r, q) /\ \A j \in 1 .. Len(list) : list[j] \notin Eligible(q.m)
  BY <1>2, <1>6, Zenon DEF T
<1>8. S = {} => q = r
  <2>1. S = {} => Len(list) = 0
    BY <1>3
  <2>. QED BY <1>2, <2>1
<1>9. \A s \in S : s \notin Eligible(q.m)
  BY <1>2, <1>7 DEF Covers
<1>. QED BY <1>7, <1>8, <1>9

-----------------------------------------------------------------------------
(* The turns that close connections                                        *)

ReckonedBy(r, next) == [r EXCEPT !.m.nextExpiry = next, !.m.expiryDirty = FALSE]

LEMMA ReckonedFrame ==
  ASSUME NEW r \in Object, NEW next \in Timer, NEW q, q = ReckonedBy(r, next)
  PROVE  /\ q \in Object /\ q.k = r.k
         /\ q.m.records = r.m.records /\ q.m.users = r.m.users /\ q.m.tabs = r.m.tabs
         /\ q.m.reserved = r.m.reserved /\ q.m.reservations = r.m.reservations
         /\ q.m.occupancy = r.m.occupancy
         /\ q.m.nextExpiry = next
         /\ q.m.cleanup = r.m.cleanup /\ q.m.published = r.m.published
         /\ q.m.cleanupDue = r.m.cleanupDue /\ q.m.due = r.m.due
  BY DEF Object, Memory, ReckonedBy

\* The invariants do not depend on when the room publishes, and little on when it
\* expires and sweeps.
LEMMA TimersKeep ==
  ASSUME NEW r, Core(r), NEW q \in Object, q.k = r.k,
         q.m.records = r.m.records, q.m.users = r.m.users, q.m.tabs = r.m.tabs,
         q.m.reserved = r.m.reserved, q.m.reservations = r.m.reservations,
         q.m.occupancy = r.m.occupancy, q.m.cleanup = r.m.cleanup,
         q.m.cleanup = {} \/ q.m.cleanupDue # Never,
         \A x \in Eligible(r.m) : q.m.nextExpiry <= r.k[x].deadline
  PROVE  /\ Core(q) /\ Fewer(r, q) /\ Eligible(q.m) = Eligible(r.m)
<1>1. \A x : UserId(q, x) = UserId(r, x)
  BY DEF UserId
<1>2. Tabbed(q) /\ Gathered(q) /\ Eligible(q.m) = Eligible(r.m)
  BY <1>1, EligibleTabs, SamePresence
<1>3. \A u : HeldIn(q, u) = HeldIn(r, u)
  BY <1>1 DEF HeldIn
<1>4. Shown(q) /\ Counted(q)
  BY <1>3 DEF Core, Shown, Counted
<1>5. Sweepable(q) /\ Reckoned(q)
  BY <1>2 DEF Core, Sweepable, Reckoned
<1>6. Fewer(r, q)
  BY <1>2 DEF Fewer
<1>. QED BY <1>2, <1>4, <1>5, <1>6 DEF Core

LEMMA LeastIs ==
  ASSUME NEW T \in SUBSET Nat, T # {}
  PROVE  Least(T) \in T /\ \A t \in T : Least(T) <= t
<1>1. \E t \in T : \A u \in T : t <= u
  BY LeastOfNats
<1>. QED BY <1>1 DEF Least

LEMMA DirtyKeeps ==
  ASSUME NEW r, Core(r), NEW q, q = MarkPresenceDirty(r)
  PROVE  /\ Core(q) /\ Fewer(r, q) /\ Eligible(q.m) = Eligible(r.m) /\ q.k = r.k
         /\ q.m.records = r.m.records /\ q.m.nextExpiry = r.m.nextExpiry
         /\ q.m.cleanup = r.m.cleanup
         /\ q.m.cleanupDue = r.m.cleanupDue /\ q.m.published = r.m.published
         /\ q.m.due # Never /\ Told(r, q)
<1>1. r \in Object
  BY DEF Core
<1>2. /\ q \in Object /\ q.k = r.k
      /\ q.m.records = r.m.records /\ q.m.users = r.m.users /\ q.m.tabs = r.m.tabs
      /\ q.m.reserved = r.m.reserved /\ q.m.reservations = r.m.reservations
      /\ q.m.occupancy = r.m.occupancy /\ q.m.nextExpiry = r.m.nextExpiry
      /\ q.m.expiryDirty = r.m.expiryDirty /\ q.m.cleanup = r.m.cleanup
      /\ q.m.cleanupDue = r.m.cleanupDue /\ q.m.published = r.m.published
      /\ q.m.due = IF r.m.due = Never THEN Interval ELSE r.m.due
  BY <1>1, DirtyFrame
<1>3. r.m.cleanup = {} \/ r.m.cleanupDue # Never
  BY DEF Core, Sweepable
<1>4. \A x \in Eligible(r.m) : q.m.nextExpiry <= r.k[x].deadline
  BY <1>2 DEF Core, Reckoned
<1>5. Core(q) /\ Fewer(r, q) /\ Eligible(q.m) = Eligible(r.m)
  BY <1>2, <1>3, <1>4, TimersKeep
<1>6. q.m.due # Never
  BY <1>2, TimerTypes
<1>7. Told(r, q)
  BY <1>2, <1>6 DEF Told, Shutting
<1>. QED BY <1>2, <1>5, <1>6, <1>7

\* Expire closes what has expired, and reckons the next expiry anew. Before the
\* next expiry nothing has expired.
LEMMA ExpireKeeps ==
  ASSUME NEW r, Core(r), NEW q, q = Expire(r)
  PROVE  /\ Core(q) /\ Fewer(r, q) /\ Told(r, q)
         /\ r.m.nextExpiry > 0 =>
              /\ q.m.due = r.m.due /\ q.m.cleanupDue = r.m.cleanupDue
              /\ r.m.nextExpiry <= q.m.nextExpiry /\ q.k = r.k
<1>. DEFINE X == {s \in Eligible(r.m) : r.k[s].deadline = 0}
<1>1. Eligible(r.m) \subseteq r.m.records /\ r.m.records \subseteq Socket /\ r.m.nextExpiry \in Timer
  BY EligibleTabs DEF Core, Object, Memory
<1>2. PICK e : e = InvalidateAll(r, X)
  OBVIOUS
<1>3. Core(e) /\ Narrowed(r, e) /\ Fewer(r, e) /\ (X = {} => e = r)
  <2>1. X \subseteq Socket /\ \A s \in X : Closable(r, s)
    BY <1>1 DEF Closable
  <2>. HIDE DEF X
  <2>. QED BY <1>2, <2>1, InvalidateAllKeeps
<1>4. CASE ~r.m.expiryDirty /\ r.m.nextExpiry > 0
  <2>1. q = r
    BY <1>4 DEF Expire
  <2>2. Fewer(r, q) /\ Told(r, q)
    BY <2>1, FewerSelf, ToldSelf
  <2>3. PICK t \in Nat : t = r.m.nextExpiry
    BY <1>1, TimerTypes
  <2>4. t <= t
    OBVIOUS
  <2>. QED BY <2>1, <2>2, <2>3, <2>4
<1>5. CASE ~(~r.m.expiryDirty /\ r.m.nextExpiry > 0)
  <2>. DEFINE left == {e.k[s].deadline : s \in Eligible(e.m)}
  <2>1. PICK next : next = Least(left \cup {Never})
    OBVIOUS
  <2>2. q = ReckonedBy(e, next)
    <3>1. q = ReckonedAnew(InvalidateAll(r, X))
      BY <1>5, Zenon DEF Expire
    <3>2. q = ReckonedAnew(e)
      BY <1>2, <3>1, Zenon
    <3>. QED BY <2>1, <3>2, Zenon DEF ReckonedAnew, ReckonedBy
  <2>3. Eligible(e.m) \subseteq Socket /\ e \in Object
    BY <1>3, EligibleTabs DEF Core, Object, Memory
  <2>4. left \subseteq Timer
    BY <2>3 DEF Object, Attachment
  <2>5. next \in left \cup {Never} /\ \A t \in left \cup {Never} : next <= t
    <3>1. left \cup {Never} \in SUBSET Nat /\ left \cup {Never} # {}
      BY <2>4, TimerTypes
    <3>. HIDE DEF left
    <3>. QED BY <2>1, <3>1, LeastIs
  <2>6. next \in Timer
    BY <2>4, <2>5, TimerTypes
  <2>9. /\ q \in Object /\ q.k = e.k
        /\ q.m.records = e.m.records /\ q.m.users = e.m.users /\ q.m.tabs = e.m.tabs
        /\ q.m.reserved = e.m.reserved /\ q.m.reservations = e.m.reservations
        /\ q.m.occupancy = e.m.occupancy
        /\ q.m.nextExpiry = next
        /\ q.m.cleanup = e.m.cleanup /\ q.m.published = e.m.published
        /\ q.m.cleanupDue = e.m.cleanupDue /\ q.m.due = e.m.due
    BY <2>2, <2>3, <2>6, ReckonedFrame
  <2>10. \A x \in Eligible(e.m) : next <= e.k[x].deadline
    BY <2>5
  <2>11. e.m.cleanup = {} \/ e.m.cleanupDue # Never
    BY <1>3 DEF Core, Sweepable
  <2>12. Core(q) /\ Fewer(e, q)
    BY <1>3, <2>9, <2>10, <2>11, TimersKeep
  <2>13. Fewer(r, q)
    BY <1>3, <2>12, FewerTwice
  <2>14. Told(r, q)
    <3>1. Body(q) = Body(e)
      BY <1>3, <2>9, SameBody
    <3>2. Told(e, q)
      BY <2>9, <3>1 DEF Told, Shutting
    <3>. QED BY <1>3, <3>2, ToldTwice DEF Narrowed
  <2>15. ASSUME r.m.nextExpiry > 0
         PROVE  /\ q.m.due = r.m.due /\ q.m.cleanupDue = r.m.cleanupDue
                /\ r.m.nextExpiry <= q.m.nextExpiry /\ q.k = r.k
    <3>1. \A x \in Eligible(r.m) : r.m.nextExpiry <= r.k[x].deadline
      BY DEF Core, Reckoned
    <3>2. X = {}
      <4>1. ASSUME NEW x \in Eligible(r.m), r.k[x].deadline = 0 PROVE FALSE
        <5>1. r.m.nextExpiry <= 0
          BY <3>1, <4>1
        <5>2. r.m.nextExpiry \in Nat
          BY <1>1, TimerTypes
        <5>. QED BY <2>15, <5>1, <5>2
      <4>. QED BY <4>1
    <3>3. e = r
      BY <1>3, <3>2
    <3>4. r.m.nextExpiry <= next
      BY <1>1, <2>5, <3>1, <3>3, TimerTypes
    <3>. QED BY <2>9, <3>3, <3>4
  <2>. QED BY <2>12, <2>13, <2>14, <2>15
<1>. QED BY <1>4, <1>5

\* Every user who is here has a tab, and so something to show.
LEMMA BodyTyped ==
  ASSUME NEW r, Core(r)
  PROVE  Body(r) \in Seq(Presence)
<1>1. r.m.users \in Seq(User) /\ r.m.tabs \in [User -> Seq(Socket)]
  BY DEF Core, Object, Memory
<1>2. ASSUME NEW i \in DOMAIN r.m.users
      PROVE  r.k[Head(r.m.tabs[r.m.users[i]])].presence \in Presence
  <2>1. Head(r.m.tabs[r.m.users[i]]) \in r.m.records
    BY HeadsAre
  <2>. QED BY <2>1 DEF Core, Shown
<1>3. DOMAIN r.m.users = 1 .. Len(r.m.users) /\ Len(r.m.users) \in Nat
  BY <1>1
<1>4. PICK b : b = Body(r)
  OBVIOUS
<1>5. b \in [1 .. Len(r.m.users) -> Presence]
  BY <1>2, <1>3, <1>4 DEF Body
<1>. QED BY <1>3, <1>4, <1>5

LEMMA ValidateAllKeeps ==
  ASSUME NEW r, Core(r), NEW S, NEW q, q = ValidateAll(r, S)
  PROVE  /\ Core(q) /\ Narrowed(r, q) /\ Fewer(r, q)
         /\ (\A s \in S : IsValid(r, s)) => q = r
         /\ \A s \in S : s \in Eligible(q.m) => IsValid(q, s)
<1>1. PICK X : X = {s \in S \cap Eligible(r.m) : ~IsValid(r, s)}
  OBVIOUS
<1>2. X \subseteq Socket /\ \A s \in X : Closable(r, s)
  BY <1>1, EligibleTabs DEF Closable, Core, Object, Memory
<1>3. q = InvalidateAll(r, X)
  BY <1>1 DEF ValidateAll
<1>4. (\A s \in S : IsValid(r, s)) => X = {}
  BY <1>1
<1>5. Core(q) /\ Narrowed(r, q) /\ Fewer(r, q) /\ (X = {} => q = r)
      /\ \A s \in X : s \notin Eligible(q.m)
  BY <1>2, <1>3, InvalidateAllKeeps
<1>6. ASSUME NEW s \in S, s \in Eligible(q.m) PROVE IsValid(q, s)
  <2>1. s \in Eligible(r.m) /\ q.k[s] = r.k[s]
    BY <1>5, <1>6 DEF Narrowed
  <2>2. IsValid(r, s)
    BY <1>1, <1>5, <1>6, <2>1
  <2>. QED BY <1>6, <2>1, <2>2 DEF IsValid
<1>. QED BY <1>4, <1>5, <1>6

LEMMA ValidateKeeps ==
  ASSUME NEW r, Core(r), NEW s, NEW q, q = Validate(r, s)
  PROVE  Core(q) /\ Fewer(r, q) /\ Told(r, q)
<1>1. CASE s \in Eligible(r.m) /\ ~IsValid(r, s)
  <2>1. Closable(r, s)
    BY <1>1, EligibleTabs DEF Closable, Core, Object, Memory
  <2>. QED BY <1>1, <2>1, InvalidateFewer DEF Validate, Narrowed
<1>2. CASE ~(s \in Eligible(r.m) /\ ~IsValid(r, s))
  BY <1>2, FewerSelf, ToldSelf DEF Validate
<1>. QED BY <1>1, <1>2

ShownTo(r, S, body) ==
  [r EXCEPT !.k = [s \in Socket |-> IF s \in S THEN [@[s] EXCEPT !.seen = body] ELSE @[s]]]

LEMMA ShownToKeeps ==
  ASSUME NEW r, Core(r), NEW S, NEW body \in Seq(Presence) \cup {None},
         NEW q, q = ShownTo(r, S, body)
  PROVE  /\ Core(q) /\ Fewer(r, q) /\ q.m = r.m
         /\ \A s \in Socket : q.k[s].seen = IF s \in S THEN body ELSE r.k[s].seen
         /\ \A s \in Socket : q.k[s].ready = r.k[s].ready
<1>1. r \in Object
  BY DEF Core
<1>2. q.m = r.m /\ q.k = [s \in Socket |-> IF s \in S THEN [r.k[s] EXCEPT !.seen = body] ELSE r.k[s]]
  BY <1>1 DEF ShownTo, Object
<1>3. \A s \in Socket : /\ q.k[s] \in Attachment /\ q.k[s].ready = r.k[s].ready
                        /\ q.k[s].presence = r.k[s].presence /\ q.k[s].deadline = r.k[s].deadline
                        /\ q.k[s].seen = IF s \in S THEN body ELSE r.k[s].seen
  <2>1. ASSUME NEW s \in Socket
        PROVE  /\ q.k[s] \in Attachment /\ q.k[s].ready = r.k[s].ready
               /\ q.k[s].presence = r.k[s].presence /\ q.k[s].deadline = r.k[s].deadline
               /\ q.k[s].seen = IF s \in S THEN body ELSE r.k[s].seen
    <3>1. r.k[s] \in Attachment
      BY <1>1 DEF Object
    <3>2. q.k[s] = IF s \in S THEN [r.k[s] EXCEPT !.seen = body] ELSE r.k[s]
      BY <1>2
    <3>. QED BY <3>1, <3>2 DEF Attachment
  <2>. QED BY <2>1
<1>4. q \in Object
  <2>1. q.k \in [Socket -> Attachment]
    BY <1>2, <1>3
  <2>2. q = [r EXCEPT !.k = q.k]
    BY <1>1 DEF ShownTo, Object
  <2>. QED BY <1>1, <2>1, <2>2 DEF Object
<1>5. Eligible(r.m) \subseteq Socket
  BY EligibleTabs DEF Core, Object, Memory
<1>6. \A x \in Eligible(r.m) : r.m.nextExpiry <= q.k[x].deadline
  BY <1>3, <1>5 DEF Core, Reckoned
<1>7. Core(q)
  <2>1. r.m.records \cup r.m.reserved \subseteq Socket
    BY <1>1 DEF Object, Memory
  <2>2. \A x \in r.m.records \cup r.m.reserved : q.k[x].presence = r.k[x].presence
    BY <1>3, <2>1
  <2>. QED BY <1>2, <1>4, <1>6, <2>2, SameMemory
<1>. QED BY <1>2, <1>3, <1>7 DEF Fewer

\* Whoever of S still counts was sent the body.
Sent(r, q, S, body) ==
  /\ q.m.published = r.m.published
  /\ q.m.due = Never => r.m.due = Never /\ Body(q) = Body(r)
  /\ Shutting(r) => Shutting(q)
  /\ \A x \in Socket : x \notin S => q.k[x].seen = r.k[x].seen
  /\ body = None => \A x \in Socket : q.k[x].seen = r.k[x].seen
  /\ body # None => \A x \in S : x \in Eligible(q.m) => q.k[x].seen = body

\* Sending closes whatever is not valid any more, and whatever cannot be sent to.
LEMMA SendToKeeps ==
  ASSUME NEW r, Core(r), NEW S, S \subseteq Socket, NEW lost, NEW body \in Seq(Presence) \cup {None},
         NEW q, q = SendTo(r, S, lost, body)
  PROVE  /\ Core(q) /\ Fewer(r, q) /\ Sent(r, q, S, body)
         /\ (lost = {} /\ \A s \in S : IsValid(r, s)) => q.m = r.m
<1>1. PICK c : c = ValidateAll(r, S)
  OBVIOUS
<1>2. /\ Core(c) /\ Fewer(r, c) /\ ((\A s \in S : IsValid(r, s)) => c = r)
      /\ Narrowed(r, c) /\ \A s \in S : s \in Eligible(c.m) => IsValid(c, s)
  BY <1>1, ValidateAllKeeps
<1>3. PICK valid : valid = {s \in S : IsValid(c, s)}
  OBVIOUS
<1>4. PICK sent : sent = [c EXCEPT !.k = [s \in Socket |->
                 IF s \in valid \ lost /\ body # None THEN [@[s] EXCEPT !.seen = body] ELSE @[s]]]
  OBVIOUS
<1>5. q = InvalidateAll(sent, valid \cap lost)
  BY <1>1, <1>3, <1>4, Zenon DEF SendTo
<1>6. PICK X : X = {s \in valid \ lost : body # None}
  OBVIOUS
<1>7. sent = ShownTo(c, X, body)
  BY <1>4, <1>6, Zenon DEF ShownTo
<1>8. /\ Core(sent) /\ Fewer(c, sent) /\ sent.m = c.m
      /\ \A s \in Socket : sent.k[s].seen = IF s \in X THEN body ELSE c.k[s].seen
      /\ \A s \in Socket : sent.k[s].ready = c.k[s].ready
  BY <1>2, <1>7, ShownToKeeps
<1>9. PICK Y : Y = valid \cap lost
  OBVIOUS
<1>10. Y \subseteq Socket /\ \A s \in Y : Closable(sent, s)
  BY <1>2, <1>3, <1>8, <1>9, EligibleTabs DEF Closable, IsValid
<1>11. /\ Core(q) /\ Fewer(sent, q) /\ (Y = {} => q = sent)
       /\ Narrowed(sent, q) /\ \A s \in Y : s \notin Eligible(q.m)
  BY <1>5, <1>8, <1>9, <1>10, InvalidateAllKeeps
<1>12. Fewer(r, q)
  BY <1>2, <1>8, <1>11, FewerTwice
<1>13. (lost = {} /\ \A s \in S : IsValid(r, s)) => q.m = r.m
  BY <1>2, <1>8, <1>9, <1>11
<1>14. Body(sent) = Body(c)
  <2>1. \A x \in Socket : sent.k[x].presence = c.k[x].presence
    BY <1>8 DEF Fewer
  <2>. QED BY <1>2, <1>8, <2>1, SameBody
<1>15. Shutting(c) => Shutting(sent)
  <2>1. c.m.cleanup \subseteq Socket
    BY <1>2 DEF Core, Object, Memory
  <2>. QED BY <1>8, <2>1 DEF Shutting
<1>16. Told(r, c) /\ Told(sent, q)
  BY <1>2, <1>11 DEF Narrowed
<1>17. \A x \in Socket : q.k[x].seen = IF x \in X THEN body ELSE r.k[x].seen
  BY <1>8, <1>16 DEF Told
<1>18. body # None => \A x \in S : x \in Eligible(q.m) => q.k[x].seen = body
  <2>1. ASSUME body # None, NEW x \in S, x \in Eligible(q.m) PROVE q.k[x].seen = body
    <3>1. x \in Eligible(c.m)
      BY <1>8, <1>11, <2>1 DEF Fewer
    <3>2. x \in valid /\ x \notin lost
      BY <1>2, <1>3, <1>9, <1>11, <2>1, <3>1
    <3>. QED BY <1>6, <1>17, <2>1, <3>2
  <2>. QED BY <2>1
<1>19. Sent(r, q, S, body)
  <2>1. q.m.published = r.m.published
    BY <1>8, <1>16 DEF Told
  <2>2. q.m.due = Never => r.m.due = Never /\ Body(q) = Body(r)
    BY <1>8, <1>14, <1>16 DEF Told
  <2>3. Shutting(r) => Shutting(q)
    BY <1>15, <1>16 DEF Told
  <2>4. X \subseteq S /\ (body = None => X = {})
    BY <1>3, <1>6
  <2>. QED BY <1>17, <1>18, <2>1, <2>2, <2>3, <2>4 DEF Sent
<1>. QED BY <1>11, <1>12, <1>13, <1>19

SweptBy(r, due) == [r EXCEPT !.m.cleanupDue = due]

LEMMA SweptFrame ==
  ASSUME NEW r \in Object, NEW due \in Timer, NEW q, q = SweptBy(r, due)
  PROVE  /\ q \in Object /\ q.k = r.k
         /\ q.m.records = r.m.records /\ q.m.users = r.m.users /\ q.m.tabs = r.m.tabs
         /\ q.m.reserved = r.m.reserved /\ q.m.reservations = r.m.reservations
         /\ q.m.occupancy = r.m.occupancy /\ q.m.nextExpiry = r.m.nextExpiry
         /\ q.m.cleanup = r.m.cleanup /\ q.m.cleanupDue = due
         /\ q.m.due = r.m.due /\ q.m.published = r.m.published
  BY DEF Object, Memory, SweptBy

LEMMA SweepKeeps ==
  ASSUME NEW r, Core(r), NEW q, q = Sweep(r)
  PROVE  Core(q) /\ Fewer(r, q) /\ Told(r, q)
<1>1. CASE r.m.cleanupDue > 0
  BY <1>1, FewerSelf, ToldSelf DEF Sweep
<1>2. CASE ~(r.m.cleanupDue > 0)
  <2>1. PICK a : a = InvalidateAll(r, r.m.cleanup)
    OBVIOUS
  <2>2. \A s \in r.m.cleanup : Closable(r, s)
    BY DEF Closable, Core, Sweepable, Object, Memory
  <2>3. Core(a) /\ Fewer(r, a) /\ Told(r, a)
    <3>1. PICK S : S = r.m.cleanup
      OBVIOUS
    <3>2. S \subseteq Socket
      BY <3>1 DEF Core, Object, Memory
    <3>3. Core(a) /\ Fewer(r, a) /\ Narrowed(r, a)
      BY <2>1, <2>2, <3>1, <3>2, InvalidateAllKeeps
    <3>. QED BY <3>3 DEF Narrowed
  <2>4. PICK due \in Timer : due = IF a.m.cleanup = {} THEN Never ELSE Interval
    BY TimerTypes
  <2>5. q = SweptBy(a, due)
    BY <1>2, <2>1, <2>4, Zenon DEF Sweep, SweptBy
  <2>6. a \in Object
    BY <2>3 DEF Core
  <2>7. /\ q \in Object /\ q.k = a.k
        /\ q.m.records = a.m.records /\ q.m.users = a.m.users /\ q.m.tabs = a.m.tabs
        /\ q.m.reserved = a.m.reserved /\ q.m.reservations = a.m.reservations
        /\ q.m.occupancy = a.m.occupancy /\ q.m.nextExpiry = a.m.nextExpiry
        /\ q.m.cleanup = a.m.cleanup /\ q.m.cleanupDue = due
        /\ q.m.due = a.m.due /\ q.m.published = a.m.published
    BY <2>4, <2>5, <2>6, SweptFrame
  <2>8. q.m.cleanup = {} \/ q.m.cleanupDue # Never
    BY <2>4, <2>7, TimerTypes
  <2>9. \A x \in Eligible(a.m) : q.m.nextExpiry <= a.k[x].deadline
    BY <2>3, <2>7 DEF Core, Reckoned
  <2>10. Core(q) /\ Fewer(a, q)
    BY <2>3, <2>7, <2>8, <2>9, TimersKeep
  <2>11. Told(a, q)
    <3>1. Body(q) = Body(a)
      BY <2>3, <2>7, SameBody
    <3>. QED BY <2>7, <3>1 DEF Told, Shutting
  <2>. QED BY <2>3, <2>10, <2>11, FewerTwice, ToldTwice
<1>. QED BY <1>1, <1>2

\* If no message is due, what was published is who is here; and whoever has its
\* setup behind it was shown what was published, if that is known.
Informed(r, ph) ==
  /\ Shutting(r)
  /\ r.m.due = Never => Body(r) = r.m.published
  /\ r.m.published # None =>
       \A x \in Eligible(r.m) : ph[x] \in {"setup2", "live"} => r.k[x].seen = r.m.published

LEMMA ToldInformed ==
  ASSUME NEW r, NEW q, NEW ph, Core(r), Told(r, q), Eligible(q.m) \subseteq Eligible(r.m),
         Informed(r, ph)
  PROVE  Informed(q, ph)
<1>1. Eligible(r.m) \subseteq Socket
  BY EligibleTabs DEF Core, Object, Memory
<1>2. \A x \in Eligible(q.m) : q.k[x].seen = r.k[x].seen
  BY <1>1 DEF Told
<1>. QED BY <1>2 DEF Informed, Told

LEMMA SameInformed ==
  ASSUME NEW r, Core(r), NEW q, q.m.users = r.m.users, q.m.tabs = r.m.tabs,
         q.m.cleanup = r.m.cleanup, q.m.published = r.m.published,
         q.m.due = Never => r.m.due = Never,
         \A x \in r.m.records : q.k[x].presence = r.k[x].presence /\ q.k[x].seen = r.k[x].seen,
         \A x \in r.m.cleanup : q.k[x].ready = "open" => r.k[x].ready = "open",
         NEW ph, Informed(r, ph)
  PROVE  Informed(q, ph)
<1>1. Body(q) = Body(r)
  BY SameHeads
<1>2. Eligible(q.m) = Eligible(r.m)
  BY Zenon DEF Eligible
<1>3. Eligible(r.m) \subseteq r.m.records
  BY EligibleTabs DEF Core
<1>. QED BY <1>1, <1>2, <1>3 DEF Informed, Shutting

PublishedBy(r, due, body) == [r EXCEPT !.m.due = due, !.m.published = body]

LEMMA PublishedKeeps ==
  ASSUME NEW r, Core(r), NEW due \in Timer, NEW body \in Seq(Presence) \cup {None},
         NEW q, q = PublishedBy(r, due, body)
  PROVE  /\ Core(q) /\ Fewer(r, q) /\ q.m.records = r.m.records
         /\ Eligible(q.m) = Eligible(r.m) /\ q.k = r.k
         /\ q.m.due = due /\ q.m.published = body /\ Body(q) = Body(r)
         /\ Shutting(r) => Shutting(q)
<1>1. r \in Object
  BY DEF Core
<1>2. /\ q.m.due = due /\ q.m.published = body /\ q \in Object /\ q.k = r.k
      /\ q.m.records = r.m.records /\ q.m.users = r.m.users /\ q.m.tabs = r.m.tabs
      /\ q.m.reserved = r.m.reserved /\ q.m.reservations = r.m.reservations
      /\ q.m.occupancy = r.m.occupancy /\ q.m.nextExpiry = r.m.nextExpiry
      /\ q.m.cleanup = r.m.cleanup /\ q.m.cleanupDue = r.m.cleanupDue
  BY <1>1 DEF Object, Memory, PublishedBy
<1>3. q.m.cleanup = {} \/ q.m.cleanupDue # Never
  BY <1>2 DEF Core, Sweepable
<1>4. \A x \in Eligible(r.m) : q.m.nextExpiry <= r.k[x].deadline
  BY <1>2 DEF Core, Reckoned
<1>5. Body(q) = Body(r) /\ (Shutting(r) => Shutting(q))
  BY <1>2, SameBody DEF Shutting
<1>6. Core(q) /\ Fewer(r, q) /\ Eligible(q.m) = Eligible(r.m)
  BY <1>2, <1>3, <1>4, TimersKeep
<1>. QED BY <1>2, <1>5, <1>6

\* The second half of Publish.
PublishedOr(r, body, lost) ==
  LET done == PublishedBy(r, Never, body)
  IN IF body = r.m.published THEN done ELSE SendTo(done, done.m.records, lost, body)

LEMMA PublishKeeps ==
  ASSUME NEW r, Core(r), NEW lost, NEW q, q = Publish(r, lost)
  PROVE  /\ Core(q) /\ Fewer(r, q)
         /\ \A ph : Informed(r, ph) => Informed(q, ph)
<1>1. CASE r.m.due > 0
  BY <1>1, FewerSelf DEF Publish
<1>2. CASE ~(r.m.due > 0)
  <2>1. PICK a : a = ValidateAll(r, r.m.records)
    OBVIOUS
  <2>2. Core(a) /\ Fewer(r, a) /\ Told(r, a)
    BY <2>1, ValidateAllKeeps DEF Narrowed
  <2>3. PICK body \in Seq(Presence) : body = Body(a)
    BY <2>2, BodyTyped
  <2>4. PICK b : b = PublishedBy(a, Never, body)
    OBVIOUS
  <2>5. /\ Core(b) /\ Fewer(a, b) /\ b.m.records \subseteq Socket
        /\ Eligible(b.m) = Eligible(a.m) /\ b.k = a.k
        /\ b.m.due = Never /\ b.m.published = body /\ Body(b) = body
        /\ Shutting(a) => Shutting(b)
    <3>1. /\ Core(b) /\ Fewer(a, b)
          /\ Eligible(b.m) = Eligible(a.m) /\ b.k = a.k
          /\ b.m.due = Never /\ b.m.published = body /\ Body(b) = body
          /\ Shutting(a) => Shutting(b)
      BY <2>2, <2>3, <2>4, PublishedKeeps, TimerTypes
    <3>. QED BY <3>1 DEF Core, Object, Memory
  <2>6. q = PublishedOr(a, body, lost)
    <3>1. q = PublishedOr(a, Body(a), lost)
      <4>1. q = PublishedOr(ValidateAll(r, r.m.records), Body(ValidateAll(r, r.m.records)), lost)
        BY <1>2, Zenon DEF Publish, PublishedOr, PublishedBy
      <4>. QED BY <2>1, <4>1
    <3>. QED BY <2>3, <3>1
  <2>9. body # None
    BY RoomAssumption
  <2>10. ASSUME NEW ph, Informed(r, ph) PROVE Informed(a, ph)
    BY <2>2, <2>10, ToldInformed DEF Fewer
  <2>7. CASE q = b /\ body = a.m.published
    <3>1. ASSUME NEW ph, Informed(a, ph) PROVE Informed(q, ph)
      BY <2>5, <2>7, <2>9, <3>1 DEF Informed
    <3>. QED BY <2>2, <2>5, <2>7, <2>10, <3>1, FewerTwice
  <2>8. CASE q = SendTo(b, b.m.records, lost, body)
    <3>1. Core(q) /\ Fewer(b, q) /\ Sent(b, q, b.m.records, body)
      BY <2>3, <2>5, <2>8, SendToKeeps
    <3>3. ASSUME NEW ph, Informed(a, ph) PROVE Informed(q, ph)
      <4>1. Eligible(q.m) \subseteq b.m.records
        BY <2>5, <3>1, EligibleTabs DEF Fewer
      <4>2. \A x \in Eligible(q.m) : q.k[x].seen = body
        BY <2>9, <3>1, <4>1 DEF Sent
      <4>. QED BY <2>5, <3>1, <3>3, <4>2 DEF Informed, Sent
    <3>2. Fewer(a, q)
      BY <2>2, <2>5, <3>1, FewerTwice
    <3>. QED BY <2>2, <2>10, <3>1, <3>2, <3>3, FewerTwice
  <2>. QED BY <2>4, <2>6, <2>7, <2>8 DEF PublishedOr
<1>. QED BY <1>1, <1>2

ReservedAre(r, reserved, count, occ) ==
  [r EXCEPT !.m.reserved = reserved, !.m.reservations = count, !.m.occupancy = occ]

LEMMA ReservedFrame ==
  ASSUME NEW r \in Object, NEW reserved \in SUBSET Socket, NEW count \in Nat,
         NEW occ \in [User -> Nat], NEW q, q = ReservedAre(r, reserved, count, occ)
  PROVE  /\ q \in Object /\ q.k = r.k
         /\ q.m.records = r.m.records /\ q.m.users = r.m.users /\ q.m.tabs = r.m.tabs
         /\ q.m.reserved = reserved /\ q.m.reservations = count
         /\ q.m.occupancy = occ /\ q.m.nextExpiry = r.m.nextExpiry
         /\ q.m.cleanup = r.m.cleanup /\ q.m.cleanupDue = r.m.cleanupDue
         /\ q.m.due = r.m.due /\ q.m.published = r.m.published
  BY DEF Object, Memory, ReservedAre

\* Release gives back the place of an admission.
LEMMA ReleaseKeeps ==
  ASSUME NEW r, Core(r), NEW s, NEW q, q = Release(r, s)
  PROVE  /\ Core(q) /\ q.k = r.k /\ q.m.records = r.m.records /\ q.m.cleanup = r.m.cleanup
         /\ Eligible(q.m) = Eligible(r.m) /\ q.m.reserved = r.m.reserved \ {s}
         /\ q.m.nextExpiry = r.m.nextExpiry /\ q.m.due = r.m.due
         /\ q.m.cleanupDue = r.m.cleanupDue /\ q.m.published = r.m.published
         /\ Body(q) = Body(r)
<1>1. CASE s \notin r.m.reserved
  BY <1>1 DEF Release
<1>2. CASE s \in r.m.reserved
  <2>. DEFINE u == UserId(r, s)
  <2>1. /\ s \in Socket /\ u \in User /\ s \in HeldIn(r, u)
        /\ r.m.occupancy[u] \in Nat /\ r.m.occupancy[u] >= 1 /\ IsFiniteSet(HeldIn(r, u))
    BY <1>2, HeldInUser
  <2>2. r \in Object /\ r.m.reserved \subseteq Socket /\ r.m.reservations = Cardinality(r.m.reserved)
    BY DEF Core, Counted, Object, Memory
  <2>3. r.m.reservations - 1 \in Nat /\ Cardinality(r.m.reserved \ {s}) = r.m.reservations - 1
    <3>1. IsFiniteSet(r.m.reserved)
      BY <2>2, RoomAssumption, FS_Subset
    <3>2. Cardinality(r.m.reserved \ {s}) = Cardinality(r.m.reserved) - 1
          /\ Cardinality(r.m.reserved) \in Nat /\ Cardinality(r.m.reserved) # 0
      BY <1>2, <3>1, OneFewer
    <3>. QED BY <2>2, <3>2
  <2>4. PICK count \in Nat : count = r.m.reservations - 1
    BY <2>3
  <2>5. PICK occ \in [User -> Nat] : occ = [r.m.occupancy EXCEPT ![u] = @ - 1]
    <3>1. r.m.occupancy \in [User -> Nat] /\ r.m.occupancy[u] - 1 \in Nat
      BY <2>1, <2>2 DEF Object, Memory
    <3>. QED BY <3>1
  <2>6. PICK left \in SUBSET Socket : left = r.m.reserved \ {s}
    BY <2>2
  <2>7. q = ReservedAre(r, left, count, occ)
    BY <1>2, <2>2, <2>4, <2>5, <2>6 DEF Release, ReservedAre, Object, Memory
  <2>8. /\ q \in Object /\ q.k = r.k
        /\ q.m.records = r.m.records /\ q.m.users = r.m.users /\ q.m.tabs = r.m.tabs
        /\ q.m.reserved = left /\ q.m.reservations = count
        /\ q.m.occupancy = occ /\ q.m.nextExpiry = r.m.nextExpiry
        /\ q.m.cleanup = r.m.cleanup /\ q.m.cleanupDue = r.m.cleanupDue
        /\ q.m.due = r.m.due /\ q.m.published = r.m.published
    BY <2>2, <2>7, ReservedFrame
  <2>9. \A x : UserId(q, x) = UserId(r, x)
    BY <2>8 DEF UserId
  <2>10. Tabbed(q) /\ Gathered(q) /\ Eligible(q.m) = Eligible(r.m)
    BY <2>8, <2>9, EligibleTabs, SamePresence
  <2>11. Shown(q)
    BY <2>6, <2>8 DEF Core, Shown
  <2>12. Counted(q)
    <3>1. s \notin r.m.records
      BY <1>2 DEF Core, Counted
    <3>2. HeldIn(q, u) = HeldIn(r, u) \ {s}
      BY <2>6, <2>8, <2>9, <3>1 DEF HeldIn
    <3>3. \A v \in User : v # u => HeldIn(q, v) = HeldIn(r, v)
      BY <2>6, <2>8, <2>9, <3>1 DEF HeldIn
    <3>4. r.m.occupancy \in [User -> Nat]
      BY <2>2 DEF Object, Memory
    <3>5. \A v \in User : q.m.occupancy[v] = IF v = u THEN r.m.occupancy[u] - 1 ELSE r.m.occupancy[v]
      BY <2>5, <2>8, <3>4
    <3>6. Cardinality(HeldIn(q, u)) = Cardinality(HeldIn(r, u)) - 1
      BY <2>1, <3>2, OneFewer
    <3>7. \A v \in User : r.m.occupancy[v] = Cardinality(HeldIn(r, v))
      BY DEF Core, Counted
    <3>8. \A v \in User : q.m.occupancy[v] = Cardinality(HeldIn(q, v))
      BY <2>1, <3>3, <3>5, <3>6, <3>7
    <3>9. q.m.records \cap q.m.reserved = {} /\ q.m.reservations = Cardinality(q.m.reserved)
      BY <2>3, <2>4, <2>6, <2>8 DEF Core, Counted
    <3>. QED BY <3>8, <3>9 DEF Counted
  <2>13. Sweepable(q) /\ Reckoned(q)
    BY <2>8, <2>10 DEF Core, Sweepable, Reckoned
  <2>14. Body(q) = Body(r)
    BY <2>8, SameBody
  <2>. QED BY <2>6, <2>8, <2>10, <2>11, <2>12, <2>13, <2>14 DEF Core
<1>. QED BY <1>1, <1>2

-----------------------------------------------------------------------------
(* Admission                                                               *)

\* A place for s
Placed(r, s) ==
  [r EXCEPT !.m.reserved = @ \cup {s}, !.m.reservations = @ + 1,
            !.m.occupancy[UserId(r, s)] = @ + 1]

\* The place becomes a record.
Entered(r, s) ==
  [r EXCEPT !.m.records = @ \cup {s}, !.m.reserved = @ \ {s}, !.m.reservations = @ - 1]

LEMMA ReserveKeeps ==
  ASSUME NEW r, Core(r), NEW s \in Socket, s \notin r.m.records \cup r.m.reserved,
         r.k[s].presence \in Presence, NEW q, q = Placed(r, s)
  PROVE  /\ Core(q) /\ q.k = r.k /\ q.m.records = r.m.records /\ q.m.cleanup = r.m.cleanup
         /\ Eligible(q.m) = Eligible(r.m) /\ q.m.reserved = r.m.reserved \cup {s}
         /\ q.m.nextExpiry = r.m.nextExpiry /\ q.m.due = r.m.due
         /\ q.m.cleanupDue = r.m.cleanupDue /\ q.m.published = r.m.published
         /\ Body(q) = Body(r)
<1>. DEFINE u == UserId(r, s)
<1>1. u \in User
  BY DEF UserId, User
<1>2. r \in Object /\ r.m.reserved \subseteq Socket /\ r.m.records \subseteq Socket
      /\ r.m.occupancy \in [User -> Nat] /\ r.m.reservations \in Nat
      /\ r.m.reservations = Cardinality(r.m.reserved)
  BY DEF Core, Counted, Object, Memory
<1>3. PICK count \in Nat : count = r.m.reservations + 1
  BY <1>2
<1>4. PICK occ \in [User -> Nat] : occ = [r.m.occupancy EXCEPT ![u] = @ + 1]
  <2>1. r.m.occupancy \in [User -> Nat] /\ r.m.occupancy[u] + 1 \in Nat
    BY <1>1, <1>2
  <2>. QED BY <2>1
<1>5. PICK more \in SUBSET Socket : more = r.m.reserved \cup {s}
  BY <1>2
<1>6. q = ReservedAre(r, more, count, occ)
  BY <1>2, <1>3, <1>4, <1>5 DEF Placed, ReservedAre, Object, Memory
<1>7. /\ q \in Object /\ q.k = r.k
      /\ q.m.records = r.m.records /\ q.m.users = r.m.users /\ q.m.tabs = r.m.tabs
      /\ q.m.reserved = more /\ q.m.reservations = count
      /\ q.m.occupancy = occ /\ q.m.nextExpiry = r.m.nextExpiry
      /\ q.m.cleanup = r.m.cleanup /\ q.m.cleanupDue = r.m.cleanupDue
      /\ q.m.due = r.m.due /\ q.m.published = r.m.published
  <2>1. r \in Object
    BY <1>2
  <2>. QED BY <1>6, <2>1, ReservedFrame
<1>8. \A x : UserId(q, x) = UserId(r, x)
  BY <1>7 DEF UserId
<1>9. Tabbed(q) /\ Gathered(q) /\ Eligible(q.m) = Eligible(r.m)
  BY <1>7, <1>8, EligibleTabs, SamePresence
<1>10. Shown(q)
  BY <1>5, <1>7 DEF Core, Shown
<1>11. Counted(q)
  <2>1. IsFiniteSet(r.m.reserved) /\ IsFiniteSet(HeldIn(r, u))
    <3>1. HeldIn(r, u) \subseteq Socket
      BY <1>2 DEF HeldIn
    <3>. QED BY <1>2, <3>1, RoomAssumption, FS_Subset
  <2>2. HeldIn(q, u) = HeldIn(r, u) \cup {s} /\ s \notin HeldIn(r, u)
    BY <1>5, <1>7, <1>8 DEF HeldIn
  <2>3. \A v \in User : v # u => HeldIn(q, v) = HeldIn(r, v)
    BY <1>5, <1>7, <1>8 DEF HeldIn
  <2>4. \A v \in User : q.m.occupancy[v] = IF v = u THEN r.m.occupancy[u] + 1 ELSE r.m.occupancy[v]
    BY <1>2, <1>4, <1>7
  <2>5. Cardinality(HeldIn(q, u)) = Cardinality(HeldIn(r, u)) + 1
    BY <2>1, <2>2, FS_AddElement
  <2>6. \A v \in User : r.m.occupancy[v] = Cardinality(HeldIn(r, v))
    BY DEF Core, Counted
  <2>7. \A v \in User : q.m.occupancy[v] = Cardinality(HeldIn(q, v))
    BY <1>1, <2>3, <2>4, <2>5, <2>6
  <2>8. Cardinality(q.m.reserved) = Cardinality(r.m.reserved) + 1
    <3>1. Cardinality(r.m.reserved \cup {s}) = Cardinality(r.m.reserved) + 1
      BY <2>1, FS_AddElement
    <3>. QED BY <1>5, <1>7, <3>1, Zenon
  <2>9. q.m.records \cap q.m.reserved = {}
    BY <1>5, <1>7 DEF Core, Counted
  <2>. QED BY <1>2, <1>3, <1>7, <2>7, <2>8, <2>9 DEF Counted
<1>12. Sweepable(q) /\ Reckoned(q)
  BY <1>7, <1>9 DEF Core, Sweepable, Reckoned
<1>13. Body(q) = Body(r)
  BY <1>7, SameBody
<1>. QED BY <1>5, <1>7, <1>9, <1>10, <1>11, <1>12, <1>13 DEF Core

MovedTo(r, records, reserved, count, occ) ==
  [r EXCEPT !.m.records = records, !.m.reserved = reserved, !.m.reservations = count,
            !.m.occupancy = occ]

LEMMA MovedFrame ==
  ASSUME NEW r \in Object, NEW records \in SUBSET Socket, NEW reserved \in SUBSET Socket,
         NEW count \in Nat, NEW occ \in [User -> Nat],
         NEW q, q = MovedTo(r, records, reserved, count, occ)
  PROVE  /\ q \in Object /\ q.k = r.k
         /\ q.m.records = records /\ q.m.users = r.m.users /\ q.m.tabs = r.m.tabs
         /\ q.m.reserved = reserved /\ q.m.reservations = count
         /\ q.m.occupancy = occ /\ q.m.nextExpiry = r.m.nextExpiry
         /\ q.m.cleanup = r.m.cleanup /\ q.m.cleanupDue = r.m.cleanupDue
         /\ q.m.due = r.m.due /\ q.m.published = r.m.published
  BY DEF Object, Memory, MovedTo

\* An admission becomes a record, which is no tab yet.
LEMMA RecordKeeps ==
  ASSUME NEW r, Core(r), NEW s \in r.m.reserved, NEW q, q = Entered(r, s)
  PROVE  /\ Core(q) /\ q.k = r.k /\ q.m.records = r.m.records \cup {s} /\ q.m.cleanup = r.m.cleanup
         /\ Eligible(q.m) = Eligible(r.m) /\ q.m.reserved = r.m.reserved \ {s}
         /\ q.m.nextExpiry = r.m.nextExpiry /\ q.m.due = r.m.due
         /\ q.m.cleanupDue = r.m.cleanupDue /\ q.m.published = r.m.published
         /\ Body(q) = Body(r)
<1>1. r \in Object /\ r.m.reserved \subseteq Socket /\ r.m.records \subseteq Socket
      /\ r.m.occupancy \in [User -> Nat] /\ s \in Socket
      /\ r.m.reservations = Cardinality(r.m.reserved)
  BY DEF Core, Counted, Object, Memory
<1>2. Cardinality(r.m.reserved \ {s}) = Cardinality(r.m.reserved) - 1
      /\ Cardinality(r.m.reserved) \in Nat /\ Cardinality(r.m.reserved) # 0
  BY <1>1, RoomAssumption, FS_Subset, OneFewer
<1>3. PICK count \in Nat : count = r.m.reservations - 1
  BY <1>1, <1>2
<1>4. PICK occ \in [User -> Nat] : occ = r.m.occupancy
  BY <1>1
<1>5. PICK more \in SUBSET Socket : more = r.m.records \cup {s}
  BY <1>1
<1>6. PICK left \in SUBSET Socket : left = r.m.reserved \ {s}
  BY <1>1
<1>7. q = MovedTo(r, more, left, count, occ)
  BY <1>1, <1>3, <1>4, <1>5, <1>6 DEF Entered, MovedTo, Object, Memory
<1>8. /\ q \in Object /\ q.k = r.k
      /\ q.m.records = more /\ q.m.users = r.m.users /\ q.m.tabs = r.m.tabs
      /\ q.m.reserved = left /\ q.m.reservations = count
      /\ q.m.occupancy = occ /\ q.m.nextExpiry = r.m.nextExpiry
      /\ q.m.cleanup = r.m.cleanup /\ q.m.cleanupDue = r.m.cleanupDue
      /\ q.m.due = r.m.due /\ q.m.published = r.m.published
  <2>1. r \in Object
    BY <1>1
  <2>. QED BY <1>7, <2>1, MovedFrame
<1>9. \A x : UserId(q, x) = UserId(r, x)
  BY <1>8 DEF UserId
<1>10. Eligible(r.m) \subseteq q.m.records
  BY <1>5, <1>8, EligibleTabs
<1>11. Tabbed(q) /\ Gathered(q) /\ Eligible(q.m) = Eligible(r.m)
  BY <1>8, <1>9, <1>10, SamePresence
<1>12. Shown(q)
  BY <1>5, <1>6, <1>8 DEF Core, Shown
<1>13. Counted(q)
  <2>1. q.m.records \cup q.m.reserved = r.m.records \cup r.m.reserved
    BY <1>5, <1>6, <1>8
  <2>2. \A u : HeldIn(q, u) = HeldIn(r, u)
    BY <1>9, <2>1 DEF HeldIn
  <2>3. q.m.records \cap q.m.reserved = {}
    BY <1>5, <1>6, <1>8 DEF Core, Counted
  <2>4. q.m.reservations = Cardinality(q.m.reserved)
    BY <1>1, <1>2, <1>3, <1>6, <1>8
  <2>. QED BY <1>4, <1>8, <2>2, <2>3, <2>4 DEF Core, Counted
<1>14. Sweepable(q)
  BY <1>5, <1>8, <1>11 DEF Core, Sweepable
<1>15. Reckoned(q)
  BY <1>8, <1>11 DEF Core, Reckoned
<1>16. Body(q) = Body(r)
  BY <1>8, SameBody
<1>. QED BY <1>5, <1>6, <1>8, <1>11, <1>12, <1>13, <1>14, <1>15, <1>16 DEF Core

CountedAs(r, records, occ) == [r EXCEPT !.m.records = records, !.m.occupancy = occ]
Rejoined(r, s) == [r EXCEPT !.m.records = @ \cup {s}, !.m.occupancy[UserId(r, s)] = @ + 1]

LEMMA CountedFrame ==
  ASSUME NEW r \in Object, NEW records \in SUBSET Socket, NEW occ \in [User -> Nat],
         NEW q, q = CountedAs(r, records, occ)
  PROVE  /\ q \in Object /\ q.k = r.k
         /\ q.m.records = records /\ q.m.users = r.m.users /\ q.m.tabs = r.m.tabs
         /\ q.m.reserved = r.m.reserved /\ q.m.reservations = r.m.reservations
         /\ q.m.occupancy = occ /\ q.m.nextExpiry = r.m.nextExpiry
         /\ q.m.cleanup = r.m.cleanup /\ q.m.cleanupDue = r.m.cleanupDue
         /\ q.m.due = r.m.due /\ q.m.published = r.m.published
  BY DEF Object, Memory, CountedAs

\* A socket that outlived the object is a record again, which is no tab yet.
LEMMA RejoinKeeps ==
  ASSUME NEW r, Core(r), NEW s \in Socket, s \notin r.m.records \cup r.m.reserved,
         r.k[s].presence \in Presence, NEW q, q = Rejoined(r, s)
  PROVE  /\ Core(q) /\ q.k = r.k /\ q.m.records = r.m.records \cup {s} /\ q.m.cleanup = r.m.cleanup
         /\ Eligible(q.m) = Eligible(r.m) /\ q.m.reserved = r.m.reserved
         /\ q.m.published = r.m.published
<1>. DEFINE u == UserId(r, s)
<1>1. u \in User
  BY DEF UserId, User
<1>2. r \in Object /\ r.m.reserved \subseteq Socket /\ r.m.records \subseteq Socket
      /\ r.m.occupancy \in [User -> Nat]
  BY DEF Core, Object, Memory
<1>3. PICK occ \in [User -> Nat] : occ = [r.m.occupancy EXCEPT ![u] = @ + 1]
  <2>1. r.m.occupancy \in [User -> Nat] /\ r.m.occupancy[u] + 1 \in Nat
    BY <1>1, <1>2
  <2>. QED BY <2>1
<1>4. PICK more \in SUBSET Socket : more = r.m.records \cup {s}
  BY <1>2
<1>5. q = CountedAs(r, more, occ)
  BY <1>2, <1>3, <1>4 DEF Rejoined, CountedAs, Object, Memory
<1>6. /\ q \in Object /\ q.k = r.k
      /\ q.m.records = more /\ q.m.users = r.m.users /\ q.m.tabs = r.m.tabs
      /\ q.m.reserved = r.m.reserved /\ q.m.reservations = r.m.reservations
      /\ q.m.occupancy = occ /\ q.m.nextExpiry = r.m.nextExpiry
      /\ q.m.cleanup = r.m.cleanup /\ q.m.cleanupDue = r.m.cleanupDue
      /\ q.m.due = r.m.due /\ q.m.published = r.m.published
  <2>1. r \in Object
    BY <1>2
  <2>. QED BY <1>5, <2>1, CountedFrame
<1>7. \A x : UserId(q, x) = UserId(r, x)
  BY <1>6 DEF UserId
<1>8. Eligible(r.m) \subseteq q.m.records
  BY <1>4, <1>6, EligibleTabs
<1>9. Tabbed(q) /\ Gathered(q) /\ Eligible(q.m) = Eligible(r.m)
  BY <1>6, <1>7, <1>8, SamePresence
<1>10. Shown(q)
  BY <1>4, <1>6 DEF Core, Shown
<1>11. Counted(q)
  <2>1. IsFiniteSet(HeldIn(r, u))
    <3>1. HeldIn(r, u) \subseteq Socket
      BY <1>2 DEF HeldIn
    <3>. QED BY <3>1, RoomAssumption, FS_Subset
  <2>2. HeldIn(q, u) = HeldIn(r, u) \cup {s} /\ s \notin HeldIn(r, u)
    BY <1>4, <1>6, <1>7 DEF HeldIn
  <2>3. \A v \in User : v # u => HeldIn(q, v) = HeldIn(r, v)
    BY <1>4, <1>6, <1>7 DEF HeldIn
  <2>4. \A v \in User : q.m.occupancy[v] = IF v = u THEN r.m.occupancy[u] + 1 ELSE r.m.occupancy[v]
    BY <1>2, <1>3, <1>6
  <2>5. Cardinality(HeldIn(q, u)) = Cardinality(HeldIn(r, u)) + 1
    BY <2>1, <2>2, FS_AddElement
  <2>6. \A v \in User : r.m.occupancy[v] = Cardinality(HeldIn(r, v))
    BY DEF Core, Counted
  <2>7. \A v \in User : q.m.occupancy[v] = Cardinality(HeldIn(q, v))
    BY <1>1, <2>3, <2>4, <2>5, <2>6
  <2>8. q.m.records \cap q.m.reserved = {} /\ q.m.reservations = Cardinality(q.m.reserved)
    BY <1>4, <1>6 DEF Core, Counted
  <2>. QED BY <2>7, <2>8 DEF Counted
<1>12. Sweepable(q)
  BY <1>4, <1>6, <1>9 DEF Core, Sweepable
<1>13. Reckoned(q)
  BY <1>6, <1>9 DEF Core, Reckoned
<1>. QED BY <1>4, <1>6, <1>9, <1>10, <1>11, <1>12, <1>13 DEF Core

OpenedBy(r, u, tab, next) == [r EXCEPT !.m.tabs[u] = tab, !.m.nextExpiry = next]

LEMMA OpenedFrame ==
  ASSUME NEW r \in Object, NEW u \in User, NEW tab \in Seq(Socket), NEW next \in Timer,
         NEW q, q = OpenedBy(r, u, tab, next)
  PROVE  /\ q \in Object /\ q.k = r.k
         /\ q.m.records = r.m.records /\ q.m.users = r.m.users
         /\ q.m.tabs = [r.m.tabs EXCEPT ![u] = tab]
         /\ q.m.reserved = r.m.reserved /\ q.m.reservations = r.m.reservations
         /\ q.m.occupancy = r.m.occupancy /\ q.m.nextExpiry = next
         /\ q.m.cleanup = r.m.cleanup /\ q.m.cleanupDue = r.m.cleanupDue
         /\ q.m.due = r.m.due /\ q.m.published = r.m.published
  BY DEF Object, Memory, OpenedBy

JoinedBy(r, users) == [r EXCEPT !.m.users = users]

LEMMA JoinedFrame ==
  ASSUME NEW r \in Object, NEW users \in Seq(User), NEW q, q = JoinedBy(r, users)
  PROVE  /\ q \in Object /\ q.k = r.k
         /\ q.m.records = r.m.records /\ q.m.users = users /\ q.m.tabs = r.m.tabs
         /\ q.m.reserved = r.m.reserved /\ q.m.reservations = r.m.reservations
         /\ q.m.occupancy = r.m.occupancy /\ q.m.nextExpiry = r.m.nextExpiry
         /\ q.m.cleanup = r.m.cleanup /\ q.m.cleanupDue = r.m.cleanupDue
         /\ q.m.due = r.m.due /\ q.m.published = r.m.published
  BY DEF Object, Memory, JoinedBy

\* The second half of Activate.
OpenedOr(r, opened, u, changed) ==
  LET added == [opened EXCEPT !.m.users = Append(@, u)]
  IN IF r.m.tabs[u] # <<>> THEN opened
     ELSE IF changed THEN MarkPresenceDirty(added) ELSE added

Joins(r, s, q) == q = Activate(r, s, TRUE)
Activated(r, s, q) == Joins(r, s, q) \/ q = Activate(r, s, FALSE)

\* Nobody joins without the presence being told, unless they were here before.
Heeded(r, s, q) ==
  Joins(r, s, q) /\ q.m.due = Never => r.m.due = Never /\ Body(q) = Body(r)

\* Activate makes a record a tab of its user.
LEMMA ActivateKeeps ==
  ASSUME NEW r, Core(r), NEW s \in r.m.records, s \notin Eligible(r.m), s \notin r.m.cleanup,
         NEW q, Activated(r, s, q)
  PROVE  /\ Core(q) /\ q.k = r.k /\ q.m.records = r.m.records /\ q.m.cleanup = r.m.cleanup
         /\ Eligible(q.m) = Eligible(r.m) \cup {s} /\ q.m.reserved = r.m.reserved
         /\ q.m.published = r.m.published
         /\ Heeded(r, s, q)
<1>0. PICK changed : q = Activate(r, s, changed) /\ (Joins(r, s, q) => changed)
  <2>1. CASE Joins(r, s, q)
    <3>1. q = Activate(r, s, TRUE)
      BY <2>1, Zenon DEF Joins
    <3>. QED BY <3>1, Zenon
  <2>2. CASE ~Joins(r, s, q)
    <3>1. q = Activate(r, s, FALSE)
      BY <2>2, Zenon DEF Activated
    <3>. QED BY <2>2, <3>1, Zenon
  <2>. QED BY <2>1, <2>2
<1>1. PICK u \in User : u = UserId(r, s)
  BY HeldInUser
<1>2. r \in Object /\ s \in Socket /\ r.m.users \in Seq(User) /\ r.m.tabs \in [User -> Seq(Socket)]
      /\ r.m.nextExpiry \in Timer /\ r.k[s].deadline \in Timer
  BY DEF Core, Object, Memory, Attachment
<1>3. PICK tab \in Seq(Socket) : tab = Append(r.m.tabs[u], s)
  <2>1. r.m.tabs[u] \in Seq(Socket) /\ s \in Socket
    BY <1>2
  <2>. QED BY <2>1, AppendNew
<1>4. PICK next \in Timer : next = Sooner(r.m.nextExpiry, r.k[s].deadline)
  BY <1>2 DEF Sooner
<1>5. PICK a : a = OpenedBy(r, u, tab, next)
  OBVIOUS
<1>6. PICK users \in Seq(User) : users = IF r.m.tabs[u] # <<>> THEN r.m.users ELSE Append(r.m.users, u)
  <2>1. r.m.users \in Seq(User) /\ Append(r.m.users, u) \in Seq(User)
    BY <1>2, AppendNew
  <2>. QED BY <2>1
<1>7. PICK b : b = JoinedBy(a, users)
  OBVIOUS
<1>8. /\ a \in Object /\ a.k = r.k
      /\ a.m.records = r.m.records /\ a.m.users = r.m.users
      /\ a.m.tabs = [r.m.tabs EXCEPT ![u] = tab]
      /\ a.m.reserved = r.m.reserved /\ a.m.reservations = r.m.reservations
      /\ a.m.occupancy = r.m.occupancy /\ a.m.nextExpiry = next
      /\ a.m.cleanup = r.m.cleanup /\ a.m.cleanupDue = r.m.cleanupDue
      /\ a.m.due = r.m.due /\ a.m.published = r.m.published
  <2>1. r \in Object
    BY <1>2
  <2>. QED BY <1>5, <2>1, OpenedFrame
<1>9. /\ b \in Object /\ b.k = r.k
      /\ b.m.records = r.m.records /\ b.m.users = users
      /\ b.m.tabs = [r.m.tabs EXCEPT ![u] = tab]
      /\ b.m.reserved = r.m.reserved /\ b.m.reservations = r.m.reservations
      /\ b.m.occupancy = r.m.occupancy /\ b.m.nextExpiry = next
      /\ b.m.cleanup = r.m.cleanup /\ b.m.cleanupDue = r.m.cleanupDue
      /\ b.m.due = r.m.due /\ b.m.published = r.m.published
  <2>1. /\ b \in Object /\ b.k = a.k
        /\ b.m.records = a.m.records /\ b.m.users = users /\ b.m.tabs = a.m.tabs
        /\ b.m.reserved = a.m.reserved /\ b.m.reservations = a.m.reservations
        /\ b.m.occupancy = a.m.occupancy /\ b.m.nextExpiry = a.m.nextExpiry
        /\ b.m.cleanup = a.m.cleanup /\ b.m.cleanupDue = a.m.cleanupDue
        /\ b.m.due = a.m.due /\ b.m.published = a.m.published
    <3>1. a \in Object
      BY <1>8
    <3>. QED BY <1>7, <3>1, JoinedFrame
  <2>. QED BY <1>8, <2>1
<1>10. \/ q = b /\ (changed => r.m.tabs[u] # <<>>)
       \/ q = MarkPresenceDirty(b)
  <2>1. a = [r EXCEPT !.m.tabs[UserId(r, s)] = Append(@, s),
                      !.m.nextExpiry = Sooner(@, r.k[s].deadline)]
    BY <1>1, <1>2, <1>3, <1>4, <1>5 DEF OpenedBy, Object, Memory
  <2>2. a.m.users = r.m.users
    BY <1>8
  <2>3. q = IF r.m.tabs[u] # <<>> THEN a
            ELSE IF changed THEN MarkPresenceDirty([a EXCEPT !.m.users = Append(@, u)])
            ELSE [a EXCEPT !.m.users = Append(@, u)]
    <3>1. q = OpenedOr(r, [r EXCEPT !.m.tabs[UserId(r, s)] = Append(@, s),
                                    !.m.nextExpiry = Sooner(@, r.k[s].deadline)], UserId(r, s), changed)
      BY <1>0, Zenon DEF Activate, OpenedOr
    <3>2. q = OpenedOr(r, a, u, changed)
      BY <1>1, <2>1, <3>1, Zenon
    <3>. QED BY <3>2, Zenon DEF OpenedOr
  <2>4. CASE r.m.tabs[u] # <<>>
    <3>1. q = a /\ users = a.m.users
      BY <1>6, <2>2, <2>3, <2>4
    <3>2. b = a
      BY <1>7, <1>8, <3>1 DEF JoinedBy, Object, Memory
    <3>. QED BY <2>4, <3>1, <3>2
  <2>5. CASE r.m.tabs[u] = <<>>
    <3>1. b = [a EXCEPT !.m.users = Append(@, u)]
      BY <1>6, <1>7, <1>8, <2>5 DEF JoinedBy, Object, Memory
    <3>. QED BY <2>3, <2>5, <3>1
  <2>. QED BY <2>4, <2>5
<1>11. tab # <<>> /\ IsInjective(tab) /\ ToSet(tab) = ToSet(r.m.tabs[u]) \cup {s}
  <2>1. s \notin ToSet(r.m.tabs[u]) /\ IsInjective(r.m.tabs[u]) /\ r.m.tabs[u] \in Seq(Socket)
    BY <1>2, EligibleTabs DEF Core, Tabbed
  <2>. QED BY <1>2, <1>3, <2>1, AppendNew
<1>12. IsInjective(users) /\ ToSet(users) = ToSet(r.m.users) \cup {u}
  <2>1. u \in ToSet(r.m.users) <=> r.m.tabs[u] # <<>>
    BY DEF Core, Gathered
  <2>2. IsInjective(r.m.users)
    BY DEF Core, Gathered
  <2>3. CASE r.m.tabs[u] # <<>>
    BY <1>6, <2>1, <2>2, <2>3
  <2>4. CASE r.m.tabs[u] = <<>>
    BY <1>2, <1>6, <2>1, <2>2, <2>4, AppendNew
  <2>. QED BY <2>3, <2>4
<1>13. \A v \in User : b.m.tabs[v] = IF v = u THEN tab ELSE r.m.tabs[v]
  BY <1>2, <1>9
<1>14. \A x : UserId(b, x) = UserId(r, x)
  BY <1>9 DEF UserId
<1>15. Tabbed(b)
  <2>1. ASSUME NEW v \in User
        PROVE IsInjective(b.m.tabs[v])
              /\ \A t \in ToSet(b.m.tabs[v]) : t \in b.m.records /\ UserId(b, t) = v
    <3>1. IsInjective(r.m.tabs[v]) /\ \A t \in ToSet(r.m.tabs[v]) : t \in r.m.records /\ UserId(r, t) = v
      BY Zenon DEF Core, Tabbed
    <3>2. CASE v = u
      <4>1. b.m.tabs[v] = tab
        BY <1>13, <3>2
      <4>. QED BY <1>1, <1>9, <1>11, <1>14, <3>1, <3>2, <4>1
    <3>3. CASE v # u
      <4>1. b.m.tabs[v] = r.m.tabs[v]
        BY <1>13, <3>3
      <4>. QED BY <1>9, <1>14, <3>1, <4>1
    <3>. QED BY <3>2, <3>3
  <2>. QED BY <2>1, Zenon DEF Tabbed
<1>16. Gathered(b)
  <2>1. ASSUME NEW v \in User PROVE v \in ToSet(users) <=> b.m.tabs[v] # <<>>
    <3>1. v \in ToSet(r.m.users) <=> r.m.tabs[v] # <<>>
      BY DEF Core, Gathered
    <3>2. CASE v = u
      BY <1>11, <1>12, <1>13, <3>2
    <3>3. CASE v # u
      BY <1>12, <1>13, <3>1, <3>3
    <3>. QED BY <3>2, <3>3
  <2>. QED BY <1>9, <1>12, <2>1 DEF Gathered
<1>17. Eligible(b.m) = Eligible(r.m) \cup {s}
  <2>1. ASSUME NEW t \in Eligible(b.m) PROVE t \in Eligible(r.m) \cup {s}
    <3>1. PICK v \in User : t \in ToSet(b.m.tabs[v])
      BY DEF Eligible
    <3>2. t \in ToSet(r.m.tabs[v]) \/ t = s
      BY <1>11, <1>13, <3>1
    <3>. QED BY <3>2 DEF Eligible
  <2>2. ASSUME NEW t \in Eligible(r.m) PROVE t \in Eligible(b.m)
    <3>1. PICK v \in User : t \in ToSet(r.m.tabs[v])
      BY DEF Eligible
    <3>2. t \in ToSet(b.m.tabs[v])
      BY <1>11, <1>13, <3>1
    <3>. QED BY <3>2 DEF Eligible
  <2>3. s \in Eligible(b.m)
    <3>1. s \in ToSet(b.m.tabs[u])
      BY <1>11, <1>13
    <3>. QED BY <3>1 DEF Eligible
  <2>. QED BY <2>1, <2>2, <2>3
<1>18. Core(b)
  <2>1. Shown(b)
    BY <1>9 DEF Core, Shown
  <2>2. \A v : HeldIn(b, v) = HeldIn(r, v)
    BY <1>9, <1>14 DEF HeldIn
  <2>3. Counted(b)
    BY <1>9, <2>2 DEF Core, Counted
  <2>4. Sweepable(b)
    BY <1>9, <1>17 DEF Core, Sweepable
  <2>5. Reckoned(b)
    <3>1. next <= r.m.nextExpiry /\ next <= r.k[s].deadline
      <4>1. r.m.nextExpiry \in Nat /\ r.k[s].deadline \in Nat
        BY <1>2, TimerTypes
      <4>. QED BY <1>4, <4>1 DEF Sooner
    <3>2. \A x \in Eligible(r.m) : next <= r.k[x].deadline
      <4>1. ASSUME NEW x \in Eligible(r.m) PROVE next <= r.k[x].deadline
        <5>1. r.k[x].deadline \in Timer
          BY <1>2, EligibleTabs DEF Core, Object, Memory, Attachment
        <5>2. r.m.nextExpiry <= r.k[x].deadline
          BY DEF Core, Reckoned
        <5>3. next \in Nat /\ r.m.nextExpiry \in Nat /\ r.k[x].deadline \in Nat
          BY <1>2, <5>1, TimerTypes
        <5>. QED BY <3>1, <5>2, <5>3
      <4>. QED BY <4>1
    <3>. QED BY <1>9, <1>17, <3>1, <3>2 DEF Reckoned
  <2>. QED BY <1>9, <1>15, <1>16, <2>1, <2>3, <2>4, <2>5 DEF Core
<1>19. CASE q = b /\ (changed => r.m.tabs[u] # <<>>)
  <2>1. ASSUME Joins(r, s, q) PROVE Body(b) = Body(r)
    <3>1. r.m.tabs[u] # <<>> /\ users = r.m.users
      BY <1>0, <1>6, <1>19, <2>1
    <3>2. Head(tab) = Head(r.m.tabs[u])
      BY <1>2, <1>3, <3>1
    <3>3. \A i \in DOMAIN users : users[i] \in User
      OBVIOUS
    <3>4. \A i \in DOMAIN users : Head(b.m.tabs[users[i]]) = Head(r.m.tabs[users[i]])
      BY <1>13, <3>2, <3>3
    <3>. QED BY <1>9, <3>1, <3>4 DEF Body
  <2>2. Heeded(r, s, q)
    BY <1>9, <1>19, <2>1 DEF Heeded
  <2>. QED BY <1>9, <1>17, <1>18, <1>19, <2>2
<1>20. CASE q = MarkPresenceDirty(b)
  <2>1. /\ Core(q) /\ Fewer(b, q) /\ Eligible(q.m) = Eligible(b.m) /\ q.k = b.k
        /\ q.m.records = b.m.records /\ q.m.cleanup = b.m.cleanup /\ q.m.published = b.m.published
        /\ q.m.due # Never
    BY <1>18, <1>20, DirtyKeeps
  <2>2. q.m.reserved = b.m.reserved /\ Heeded(r, s, q)
    BY <2>1 DEF Fewer, Heeded
  <2>. QED BY <1>9, <1>17, <2>1, <2>2
<1>. QED BY <1>10, <1>19, <1>20

-----------------------------------------------------------------------------
(* The object is built again                                               *)

\* h tells, index by index, what is left when each of a list is restored.
Rejoining(h, r, list, n) ==
  h = [i \in 0 .. n |-> IF i = 0 THEN r ELSE Restore(h[i - 1], list[i])]

\* The recursion over the sockets to restore has a value at each index.
LEMMA RejoiningExists ==
  ASSUME NEW r, NEW list, NEW n \in Nat
  PROVE  \E h : Rejoining(h, r, list, n)
<1>. DEFINE T == {m \in 0 .. n : \E h : Rejoining(h, r, list, m)}
<1>1. 0 \in T
  <2>. DEFINE g == [i \in 0 .. 0 |-> r]
  <2>1. \A i \in 0 .. 0 : r = IF i = 0 THEN r ELSE Restore(g[i - 1], list[i])
    BY SMT
  <2>2. Rejoining(g, r, list, 0)
    BY <2>1, Zenon DEF Rejoining
  <2>. QED BY <2>2
<1>2. ASSUME NEW m \in 1 .. n, m - 1 \in T PROVE m \in T
  <2>1. PICK h : Rejoining(h, r, list, m - 1)
    BY <1>2
  <2>. DEFINE g == [i \in 0 .. m |-> IF i = m THEN Restore(h[m - 1], list[m]) ELSE h[i]]
  <2>2. \A i \in 0 .. m : i # 0 => g[i - 1] = h[i - 1]
    BY SMT
  <2>3. \A i \in 0 .. m : g[i] = IF i = 0 THEN r ELSE Restore(g[i - 1], list[i])
    <3>1. ASSUME NEW i \in 0 .. m, i = m PROVE g[i] = IF i = 0 THEN r ELSE Restore(g[i - 1], list[i])
      BY <3>1, <2>2
    <3>2. ASSUME NEW i \in 0 .. m, i # m PROVE g[i] = IF i = 0 THEN r ELSE Restore(g[i - 1], list[i])
      <4>1. i \in 0 .. m - 1
        BY <3>2
      <4>2. h[i] = IF i = 0 THEN r ELSE Restore(h[i - 1], list[i])
        BY <2>1, <4>1 DEF Rejoining
      <4>. QED BY <4>2, <2>2, <3>2
    <3>. QED BY <3>1, <3>2
  <2>4. Rejoining(g, r, list, m)
    <3>1. g = [i \in 0 .. m |-> g[i]]
      BY Zenon
    <3>. HIDE DEF g
    <3>. QED BY <2>3, <3>1, Zenon DEF Rejoining
  <2>5. m \in 0 .. n
    OBVIOUS
  <2>. QED BY <2>4, <2>5, Zenon
<1>3. n \in T
  <2>. HIDE DEF T
  <2>. QED BY <1>1, <1>2, UpTo
<1>. QED BY <1>3, Zenon

LEMMA RestoreInTurn ==
  ASSUME NEW r, NEW order, Len(order) \in Nat
  PROVE  \E h : /\ h[0] = r /\ RestoreAll(r, order) = h[Len(order)]
                /\ \A i \in 1 .. Len(order) : h[i] = Restore(h[i - 1], order[i])
<1>. DEFINE after == CHOOSE a : Rejoining(a, r, order, Len(order))
<1>1. RestoreAll(r, order) = after[Len(order)]
  BY Zenon DEF RestoreAll, InOrder, Rejoining
<1>2. Rejoining(after, r, order, Len(order))
  BY RejoiningExists, Zenon
<1>. HIDE DEF after
<1>3. \A i \in 0 .. Len(order) : after[i] = IF i = 0 THEN r ELSE Restore(after[i - 1], order[i])
  BY <1>2, Zenon DEF Rejoining
<1>. QED BY <1>1, <1>3

\* Some of the sockets that the runtime kept are back in memory.
Rebuilt(k, X, q) ==
  /\ Core(q) /\ Halved(q) /\ q.m.reserved = {} /\ q.m.records \subseteq X
  /\ \A x \in Socket : q.k[x].presence = k[x].presence
  /\ Shutting(q) /\ q.m.published = saved.published
  /\ \A x \in Socket : q.k[x].seen = k[x].seen
  /\ \A x \in Eligible(q.m) : k[x].ready = "open"
  /\ \A x \in Socket : \/ q.k[x].ready = k[x].ready
                       \/ q.k[x].ready = "closing" /\ x \in q.m.records
  /\ \A x \in X : x \in q.m.records \/ q.k[x].ready = "closed"

LEMMA RestoreKeeps ==
  ASSUME NEW k, NEW X, X \subseteq Socket, NEW r, Rebuilt(k, X, r), NEW s \in Socket, s \notin X,
         k[s].presence \in Presence, NEW q, q = Restore(r, s)
  PROVE  Rebuilt(k, X \cup {s}, q)
<1>1. Core(r) /\ s \notin r.m.records \cup r.m.reserved /\ r.k[s].presence \in Presence
  BY DEF Rebuilt
<1>2. PICK a : a = Rejoined(r, s)
  OBVIOUS
<1>3. /\ Core(a) /\ a.k = r.k /\ a.m.records = r.m.records \cup {s} /\ a.m.cleanup = r.m.cleanup
      /\ Eligible(a.m) = Eligible(r.m) /\ a.m.reserved = r.m.reserved
      /\ a.m.published = r.m.published
  BY <1>1, <1>2, RejoinKeeps
<1>4. s \notin Eligible(a.m) /\ s \notin a.m.cleanup /\ s \in a.m.records
  BY <1>1, <1>3, EligibleTabs DEF Core, Sweepable
<1>5. (q = Activate(a, s, FALSE) /\ r.k[s].ready = "open") \/ q = Invalidate(a, s)
  BY <1>2, Zenon DEF Restore, Rejoined
<1>6. CASE q = Activate(a, s, FALSE) /\ r.k[s].ready = "open"
  <2>1. /\ Core(q) /\ q.k = a.k /\ q.m.records = a.m.records /\ q.m.cleanup = a.m.cleanup
        /\ Eligible(q.m) = Eligible(a.m) \cup {s} /\ q.m.reserved = a.m.reserved
        /\ q.m.published = a.m.published
    <3>1. Activated(a, s, q)
      BY <1>6, Zenon DEF Activated
    <3>. QED BY <1>3, <1>4, <3>1, ActivateKeeps
  <2>2. k[s].ready = "open"
    BY <1>6 DEF Rebuilt
  <2>3. Shutting(q) /\ q.m.published = saved.published
    BY <1>3, <2>1 DEF Rebuilt, Shutting
  <2>4. \A x \in Eligible(q.m) : k[x].ready = "open"
    BY <1>3, <2>1, <2>2 DEF Rebuilt
  <2>. QED BY <1>3, <2>1, <2>3, <2>4 DEF Rebuilt, Halved
<1>7. CASE q = Invalidate(a, s)
  <2>1. /\ Core(q) /\ Narrowed(a, q)
        /\ s \in q.m.records => s \in q.m.cleanup
        /\ (Eligible(a.m) \cup a.m.cleanup) \cap q.m.records \subseteq Eligible(q.m) \cup q.m.cleanup
    BY <1>3, <1>4, <1>7, InvalidateKeeps
  <2>2. Halved(q)
    <3>1. Eligible(q.m) \cup q.m.cleanup \subseteq q.m.records
      BY <2>1, EligibleTabs DEF Core, Sweepable
    <3>2. q.m.records \subseteq r.m.records \cup {s}
      BY <1>3, <2>1 DEF Narrowed
    <3>3. r.m.records = Eligible(r.m) \cup r.m.cleanup
      BY DEF Rebuilt, Halved
    <3>. QED BY <1>3, <2>1, <3>1, <3>2, <3>3 DEF Halved
  <2>3. q.m.reserved = {} /\ q.m.records \subseteq X \cup {s}
    BY <1>3, <2>1 DEF Rebuilt, Narrowed
  <2>4. \A x \in Socket : q.k[x].presence = k[x].presence
    BY <1>3, <2>1 DEF Rebuilt, Narrowed
  <2>5. \A x \in Socket : \/ q.k[x].ready = k[x].ready
                          \/ q.k[x].ready = "closing" /\ x \in q.m.records
    <3>1. ASSUME NEW x \in Socket, ~(q.k[x].ready = "closing" /\ x \in q.m.records)
          PROVE  q.k[x].ready = k[x].ready
      <4>1. q.k[x].ready = r.k[x].ready
        BY <1>3, <2>1, <3>1 DEF Narrowed
      <4>2. CASE r.k[x].ready = k[x].ready
        BY <4>1, <4>2
      <4>3. CASE r.k[x].ready = "closing" /\ x \in r.m.records
        <5>1. x \in q.m.records \/ q.k[x].ready = "closed"
          BY <1>3, <2>1, <4>3 DEF Narrowed
        <5>. QED BY <3>1, <4>1, <4>3, <5>1
      <4>. QED BY <4>2, <4>3 DEF Rebuilt
    <3>. QED BY <3>1
  <2>6. \A x \in X \cup {s} : x \in q.m.records \/ q.k[x].ready = "closed"
    <3>1. ASSUME NEW x \in X \cup {s}, x \notin q.m.records PROVE q.k[x].ready = "closed"
      <4>1. CASE x \in a.m.records
        BY <2>1, <3>1, <4>1 DEF Narrowed
      <4>2. CASE x \notin a.m.records
        <5>1. x \in X /\ x \in Socket /\ x \notin r.m.records
          BY <1>3, <3>1, <4>2
        <5>2. a.k[x].ready = "closed"
          BY <1>3, <5>1 DEF Rebuilt
        <5>. QED BY <2>1, <3>1, <5>1, <5>2 DEF Narrowed
      <4>. QED BY <4>1, <4>2
    <3>. QED BY <3>1
  <2>7. Shutting(q) /\ q.m.published = saved.published
        /\ \A x \in Socket : q.k[x].seen = k[x].seen
    <3>1. Shutting(a)
      BY <1>3 DEF Rebuilt, Shutting
    <3>. QED BY <1>3, <2>1, <3>1 DEF Rebuilt, Narrowed, Told
  <2>8. \A x \in Eligible(q.m) : k[x].ready = "open"
    BY <1>3, <2>1 DEF Rebuilt, Narrowed
  <2>. QED BY <2>1, <2>2, <2>3, <2>4, <2>5, <2>6, <2>7, <2>8 DEF Rebuilt
<1>. QED BY <1>5, <1>6, <1>7

Started(k) ==
  [m |-> [EmptyRoom EXCEPT !.due = saved.due, !.published = saved.published], k |-> k]

LEMMA StartedKeeps ==
  ASSUME NEW k \in [Socket -> Attachment], saved.due \in Timer,
         saved.published \in Seq(Presence) \cup {None}, NEW q, q = Started(k)
  PROVE  Rebuilt(k, {}, q)
<1>1. /\ q.k = k /\ q.m.records = {} /\ q.m.users = <<>> /\ q.m.tabs = [u \in User |-> <<>>]
      /\ q.m.reserved = {} /\ q.m.reservations = 0 /\ q.m.occupancy = [u \in User |-> 0]
      /\ q.m.nextExpiry = Never /\ q.m.cleanup = {} /\ q.m.cleanupDue = Never
  BY DEF Started, EmptyRoom
<1>2. q \in Object
  <2>1. <<>> \in Seq(User) /\ [u \in User |-> <<>>] \in [User -> Seq(Socket)]
    OBVIOUS
  <2>2. [u \in User |-> 0] \in [User -> Nat] /\ {} \in SUBSET Socket /\ 0 \in Nat
    OBVIOUS
  <2>3. q.m \in Memory
    BY <2>1, <2>2, TimerTypes DEF Started, EmptyRoom, Memory
  <2>. QED BY <2>3 DEF Started, Object
<1>3. Cardinality({}) = 0
  BY FS_EmptySet
<1>4. \A u \in User : HeldIn(q, u) = {}
  BY <1>1 DEF HeldIn
<1>5. Eligible(q.m) = {}
  <2>1. \A u \in User : ToSet(q.m.tabs[u]) = {}
    BY <1>1 DEF ToSet
  <2>. QED BY <2>1, Zenon DEF Eligible
<1>6. Tabbed(q) /\ Gathered(q)
  <2>1. IsInjective(<<>>) /\ ToSet(<<>>) = {}
    BY DEF IsInjective, ToSet
  <2>2. \A u \in User : q.m.tabs[u] = <<>>
    BY <1>1
  <2>. QED BY <1>1, <2>1, <2>2 DEF Tabbed, Gathered
<1>7. Core(q)
  BY <1>1, <1>2, <1>3, <1>4, <1>5, <1>6 DEF Core, Shown, Counted, Sweepable, Reckoned
<1>8. Shutting(q) /\ q.m.published = saved.published
  BY <1>1 DEF Shutting, Started, EmptyRoom
<1>. QED BY <1>1, <1>5, <1>7, <1>8 DEF Rebuilt, Halved

LEMMA OrderOfAll ==
  ASSUME NEW S, IsFiniteSet(S), NEW order \in SetToSeqs(S)
  PROVE  /\ Len(order) \in Nat /\ order \in [1 .. Len(order) -> S]
         /\ \A i, j \in 1 .. Len(order) : order[i] = order[j] => i = j
         /\ \A s \in S : \E i \in 1 .. Len(order) : order[i] = s
<1>. DEFINE n == Cardinality(S)
<1>1. n \in Nat
  BY FS_CardinalityType
<1>2. order \in [1 .. n -> S] /\ \A i, j \in 1 .. n : i # j => order[i] # order[j]
  BY DEF SetToSeqs
<1>. HIDE DEF n
<1>3. Len(order) = n
  BY <1>1, <1>2
<1>4. \A s \in S : \E i \in 1 .. n : order[i] = s
  BY <1>2, OntoAll DEF n
<1>. QED BY <1>1, <1>2, <1>3, <1>4

LEMMA RebuiltReady ==
  ASSUME NEW k, NEW S, NEW b, Rebuilt(k, S, b), NEW q, Fewer(b, q)
  PROVE  \A x \in Socket : \/ q.k[x].ready = k[x].ready
                           \/ q.k[x].ready = "closing" /\ x \in q.m.records
<1>1. ASSUME NEW x \in Socket, ~(q.k[x].ready = "closing" /\ x \in q.m.records)
      PROVE  q.k[x].ready = k[x].ready
  <2>1. q.k[x].ready = b.k[x].ready
    BY <1>1 DEF Fewer
  <2>2. CASE b.k[x].ready = k[x].ready
    BY <2>1, <2>2
  <2>3. CASE b.k[x].ready = "closing" /\ x \in b.m.records
    <3>1. x \in q.m.records \/ q.k[x].ready = "closed"
      BY <2>3 DEF Fewer
    <3>. QED BY <1>1, <2>1, <2>3, <3>1
  <2>. QED BY <2>2, <2>3 DEF Rebuilt
<1>. QED BY <1>1

\* Rebuilding puts back every socket that the runtime kept, and memory is in order.
LEMMA RebuildKeeps ==
  ASSUME NEW k \in [Socket -> Attachment], \A x \in Retained(k) : k[x].presence \in Presence,
         saved.due \in Timer, saved.published \in Seq(Presence) \cup {None},
         NEW order \in SetToSeqs(Retained(k)), NEW q, q = Rebuild(k, order)
  PROVE  /\ Orderly(q) /\ q.m.reserved = {} /\ q.m.records \subseteq Retained(k)
         /\ \A x \in Socket : q.k[x].presence = k[x].presence
         /\ \A x \in Socket : \/ q.k[x].ready = k[x].ready
                              \/ q.k[x].ready = "closing" /\ x \in q.m.records
         /\ Shutting(q) /\ q.m.published = saved.published
         /\ \A x \in Socket : q.k[x].seen = k[x].seen
         /\ \A x \in Eligible(q.m) : k[x].ready = "open"
         /\ q.m.due = Never => Body(q) = q.m.published
<1>. DEFINE S == Retained(k)
            n == Len(order)
<1>1. S \subseteq Socket /\ IsFiniteSet(S)
  <2>1. S \subseteq Socket
    BY DEF Retained
  <2>. QED BY <2>1, RoomAssumption, FS_Subset
<1>2. /\ n \in Nat /\ order \in [1 .. n -> S]
      /\ \A i, j \in 1 .. n : order[i] = order[j] => i = j
      /\ \A s \in S : \E i \in 1 .. n : order[i] = s
  BY <1>1, OrderOfAll
<1>3. PICK a : a = Started(k)
  OBVIOUS
<1>4. Rebuilt(k, {}, a)
  BY <1>3, StartedKeeps
<1>5. PICK h : /\ h[0] = a /\ RestoreAll(a, order) = h[n]
               /\ \A i \in 1 .. n : h[i] = Restore(h[i - 1], order[i])
  BY <1>2, RestoreInTurn
<1>. HIDE DEF S, n
<1>. DEFINE X(i) == {order[j] : j \in 1 .. i}
            T == {i \in 0 .. n : Rebuilt(k, X(i), h[i])}
<1>6. 0 \in T
  <2>1. X(0) = {}
    OBVIOUS
  <2>2. Rebuilt(k, X(0), h[0])
    BY <1>4, <1>5, <2>1
  <2>. HIDE DEF X
  <2>. QED BY <1>2, <2>2
<1>7. ASSUME NEW i \in 1 .. n, i - 1 \in T PROVE i \in T
  <2>1. X(i) = X(i - 1) \cup {order[i]}
    <3>1. 1 .. i = (1 .. i - 1) \cup {i}
      BY <1>2
    <3>. QED BY <3>1
  <2>2. order[i] \notin X(i - 1)
    <3>1. \A j \in 1 .. i - 1 : j \in 1 .. n /\ j # i
      BY <1>2
    <3>. QED BY <1>2, <3>1
  <2>3. X(i - 1) \subseteq Socket
    <3>1. \A j \in 1 .. i - 1 : j \in 1 .. n
      BY <1>2
    <3>. QED BY <1>1, <1>2, <3>1
  <2>4. Rebuilt(k, X(i - 1), h[i - 1])
    BY <1>7, Zenon
  <2>5. order[i] \in S /\ order[i] \in Socket
    BY <1>1, <1>2
  <2>6. k[order[i]].presence \in Presence
    BY <2>5 DEF S
  <2>7. PICK Y : Y = X(i - 1)
    OBVIOUS
  <2>8. PICK s \in Socket : s = order[i]
    BY <2>5
  <2>9. PICK b : b = h[i - 1]
    OBVIOUS
  <2>10. PICK c : c = h[i]
    OBVIOUS
  <2>11. Rebuilt(k, Y, b) /\ s \notin Y /\ Y \subseteq Socket
    BY <2>2, <2>3, <2>4, <2>7, <2>8, <2>9, Zenon
  <2>12. c = Restore(b, s) /\ k[s].presence \in Presence
    BY <1>5, <2>6, <2>8, <2>9, <2>10
  <2>13. Rebuilt(k, Y \cup {s}, c)
    BY <2>11, <2>12, RestoreKeeps
  <2>14. Rebuilt(k, X(i), h[i])
    BY <2>1, <2>7, <2>8, <2>10, <2>13, Zenon
  <2>15. i \in 0 .. n
    BY <1>2
  <2>. QED BY <2>14, <2>15, Zenon
<1>8. Rebuilt(k, S, h[n])
  <2>1. n \in T
    <3>. HIDE DEF T
    <3>. QED BY <1>2, <1>6, <1>7, UpTo
  <2>2. X(n) = S
    BY <1>2
  <2>3. Rebuilt(k, X(n), h[n])
    BY <2>1, Zenon
  <2>. HIDE DEF X
  <2>. QED BY <2>2, <2>3, Zenon
<1>9. PICK b : b = h[n]
  OBVIOUS
<1>10. Core(b) /\ Orderly(b) /\ b.m.reserved = {} /\ b.m.records \subseteq S
       /\ \A x \in Socket : b.k[x].presence = k[x].presence
  <2>1. Rebuilt(k, S, b)
    BY <1>8, <1>9
  <2>2. Kept(b)
    <3>1. ASSUME NEW x \in Socket, b.k[x].ready \in {"open", "closing"} PROVE x \in b.m.records
      <4>1. CASE b.k[x].ready = k[x].ready
        <5>1. x \in S
          BY <3>1, <4>1 DEF S, Retained
        <5>. QED BY <2>1, <3>1, <5>1 DEF Rebuilt
      <4>. QED BY <2>1, <4>1 DEF Rebuilt
    <3>. QED BY <3>1 DEF Kept
  <2>. QED BY <2>1, <2>2 DEF Orderly, Rebuilt
<1>11. PICK c : c = IF Body(b) = b.m.published THEN b ELSE MarkPresenceDirty(b)
  OBVIOUS
<1>12. Core(c) /\ Fewer(b, c) /\ Told(b, c) /\ (c.m.due = Never => Body(c) = c.m.published)
  <2>1. CASE c = b /\ Body(b) = b.m.published
    BY <1>10, <2>1, FewerSelf, ToldSelf
  <2>2. CASE c = MarkPresenceDirty(b)
    BY <1>10, <2>2, DirtyKeeps
  <2>. QED BY <1>11, <2>1, <2>2
<1>13. q = Expire(c)
  <2>1. RestoreAll(Started(k), order) = b
    BY <1>3, <1>5, <1>9
  <2>2. q = Expire(IF Body(RestoreAll(Started(k), order)) = RestoreAll(Started(k), order).m.published
                   THEN RestoreAll(Started(k), order)
                   ELSE MarkPresenceDirty(RestoreAll(Started(k), order)))
    BY Zenon DEF Rebuild, Started
  <2>. QED BY <1>11, <2>1, <2>2, Zenon
<1>14. Core(q) /\ Fewer(c, q) /\ Told(c, q)
  BY <1>12, <1>13, ExpireKeeps
<1>15. Fewer(b, q)
  BY <1>10, <1>12, <1>14, FewerTwice
<1>16. Orderly(q)
  BY <1>10, <1>14, <1>15, FewerOrderly
<1>17. \A x \in Socket : \/ q.k[x].ready = k[x].ready
                         \/ q.k[x].ready = "closing" /\ x \in q.m.records
  <2>1. Rebuilt(k, S, b)
    BY <1>8, <1>9
  <2>. QED BY <1>15, <2>1, RebuiltReady
<1>18. /\ Shutting(q) /\ q.m.published = saved.published
       /\ \A x \in Socket : q.k[x].seen = k[x].seen
       /\ \A x \in Eligible(q.m) : k[x].ready = "open"
  <2>1. Rebuilt(k, S, b)
    BY <1>8, <1>9
  <2>2. Told(b, q)
    BY <1>12, <1>14, ToldTwice
  <2>3. Shutting(q) /\ q.m.published = saved.published
        /\ \A x \in Socket : q.k[x].seen = k[x].seen
    BY <2>1, <2>2 DEF Rebuilt, Told
  <2>4. \A x \in Eligible(q.m) : k[x].ready = "open"
    BY <1>15, <2>1 DEF Rebuilt, Fewer
  <2>. QED BY <2>3, <2>4
<1>19. q.m.due = Never => Body(q) = q.m.published
  BY <1>12, <1>14 DEF Told
<1>. QED BY <1>10, <1>15, <1>16, <1>17, <1>18, <1>19 DEF Fewer, S

-----------------------------------------------------------------------------
(* The caps                                                                *)

Places(r) == r.m.records \cup r.m.reserved

Capped(r) ==
  /\ Cardinality(Places(r)) <= RoomCap
  /\ \A u \in User : Cardinality(HeldIn(r, u)) <= UserCap

\* A room whose places are among those of a room within its caps is within them.
LEMMA FewerPlaces ==
  ASSUME NEW r, r \in Object, NEW q, q \in Object, Capped(r), Places(q) \subseteq Places(r),
         \A x \in Socket : q.k[x].presence = r.k[x].presence
  PROVE  Capped(q)
<1>1. Places(r) \subseteq Socket
  BY DEF Places, Object, Memory
<1>2. IsFiniteSet(Places(r)) /\ IsFiniteSet(Places(q))
  BY <1>1, RoomAssumption, FS_Subset
<1>3. Cardinality(Places(q)) <= RoomCap
  <2>1. Cardinality(Places(q)) <= Cardinality(Places(r))
    BY <1>2, FS_Subset
  <2>2. Cardinality(Places(r)) <= RoomCap
    BY DEF Capped
  <2>3. Cardinality(Places(q)) \in Nat /\ Cardinality(Places(r)) \in Nat /\ RoomCap \in Nat
    BY <1>2, RoomAssumption, FS_CardinalityType
  <2>. QED BY <2>1, <2>2, <2>3
<1>4. ASSUME NEW u \in User PROVE Cardinality(HeldIn(q, u)) <= UserCap
  <2>1. HeldIn(q, u) \subseteq HeldIn(r, u) /\ HeldIn(r, u) \subseteq Socket
    BY <1>1 DEF HeldIn, UserId, Places
  <2>2. IsFiniteSet(HeldIn(r, u)) /\ IsFiniteSet(HeldIn(q, u))
    BY <2>1, RoomAssumption, FS_Subset
  <2>3. Cardinality(HeldIn(q, u)) <= Cardinality(HeldIn(r, u))
    BY <2>1, <2>2, FS_Subset
  <2>4. Cardinality(HeldIn(r, u)) <= UserCap
    BY DEF Capped
  <2>5. /\ Cardinality(HeldIn(q, u)) \in Nat /\ Cardinality(HeldIn(r, u)) \in Nat
        /\ UserCap \in Nat
    BY <2>2, RoomAssumption, FS_CardinalityType
  <2>. QED BY <2>3, <2>4, <2>5
<1>. QED BY <1>3, <1>4 DEF Capped

LEMMA FewerCapped ==
  ASSUME NEW r, NEW q, Core(r), Core(q), Capped(r), Fewer(r, q)
  PROVE  Capped(q)
<1>1. r \in Object /\ q \in Object
  BY DEF Core
<1>2. Places(q) \subseteq Places(r) /\ \A x \in Socket : q.k[x].presence = r.k[x].presence
  BY DEF Fewer, Places
<1>. QED BY <1>1, <1>2, FewerPlaces

\* A place that fits leaves the room within its caps.
LEMMA FittingCapped ==
  ASSUME NEW r, Core(r), Capped(r), NEW s \in Socket, s \notin Places(r),
         r.k[s].presence \in Presence, Fits(r, r.k[s].presence), NEW q, q = Placed(r, s)
  PROVE  Capped(q)
<1>1. /\ Core(q) /\ q.k = r.k /\ q.m.records = r.m.records
      /\ q.m.reserved = r.m.reserved \cup {s}
  BY ReserveKeeps DEF Places
<1>2. Places(q) = Places(r) \cup {s}
  BY <1>1 DEF Places
<1>3. Places(r) \subseteq Socket /\ r.m.records \subseteq Socket /\ r.m.reserved \subseteq Socket
  BY DEF Places, Core, Object, Memory
<1>4. IsFiniteSet(Places(r)) /\ IsFiniteSet(r.m.records) /\ IsFiniteSet(r.m.reserved)
  BY <1>3, RoomAssumption, FS_Subset
<1>5. Cardinality(Places(q)) <= RoomCap
  <2>1. Cardinality(Places(r)) = Cardinality(r.m.records) + Cardinality(r.m.reserved)
    <3>1. r.m.records \cap r.m.reserved = {} /\ Cardinality({}) = 0
      BY FS_EmptySet DEF Core, Counted
    <3>2. /\ Cardinality(r.m.records) \in Nat /\ Cardinality(r.m.reserved) \in Nat
      BY <1>4, FS_CardinalityType
    <3>3. Cardinality(r.m.records \cup r.m.reserved)
            = Cardinality(r.m.records) + Cardinality(r.m.reserved)
                - Cardinality(r.m.records \cap r.m.reserved)
      BY <1>4, FS_Union
    <3>4. Cardinality(r.m.records \cap r.m.reserved) = 0
      BY <3>1
    <3>5. Cardinality(r.m.records \cup r.m.reserved)
            = Cardinality(r.m.records) + Cardinality(r.m.reserved)
      BY <3>2, <3>3, <3>4
    <3>. QED BY <3>5 DEF Places
  <2>2. Cardinality(r.m.records) + Cardinality(r.m.reserved) < RoomCap
    BY DEF Fits, Core, Counted
  <2>3. Cardinality(Places(q)) = Cardinality(Places(r)) + 1
    BY <1>2, <1>4, FS_AddElement
  <2>4. Cardinality(Places(r)) \in Nat /\ RoomCap \in Nat
    BY <1>4, RoomAssumption, FS_CardinalityType
  <2>. QED BY <2>1, <2>2, <2>3, <2>4
<1>6. ASSUME NEW u \in User PROVE Cardinality(HeldIn(q, u)) <= UserCap
  <2>1. HeldIn(r, u) \subseteq Socket
    BY <1>3 DEF HeldIn
  <2>2. IsFiniteSet(HeldIn(r, u)) /\ Cardinality(HeldIn(r, u)) \in Nat
    BY <2>1, RoomAssumption, FS_Subset, FS_CardinalityType
  <2>3. Cardinality(HeldIn(r, u)) <= UserCap /\ UserCap \in Nat
    BY RoomAssumption DEF Capped
  <2>4. \A x : UserId(q, x) = UserId(r, x)
    BY <1>1 DEF UserId
  <2>5. CASE UserId(r, s) # u
    <3>1. HeldIn(q, u) = HeldIn(r, u)
      BY <1>1, <2>4, <2>5 DEF HeldIn
    <3>. QED BY <2>3, <3>1
  <2>6. CASE UserId(r, s) = u
    <3>1. HeldIn(q, u) = HeldIn(r, u) \cup {s}
      BY <1>1, <2>4, <2>6 DEF HeldIn
    <3>2. s \notin HeldIn(r, u)
      BY DEF HeldIn, Places
    <3>3. Cardinality(HeldIn(q, u)) = Cardinality(HeldIn(r, u)) + 1
      BY <2>2, <3>1, <3>2, FS_AddElement
    <3>4. Cardinality(HeldIn(r, u)) < UserCap
      <4>1. r.m.occupancy[u] < UserCap
        BY <2>6 DEF Fits, UserId
      <4>2. r.m.occupancy[u] = Cardinality(HeldIn(r, u))
        BY DEF Core, Counted
      <4>. QED BY <4>1, <4>2
    <3>. QED BY <2>2, <2>3, <3>3, <3>4
  <2>. QED BY <2>5, <2>6
<1>. QED BY <1>5, <1>6 DEF Capped

-----------------------------------------------------------------------------
(* The queue of updates and the phases of the fetches                      *)

\* The phase of a fetch tells what the room may hold of its connection.
Phased(r, ph) ==
  \A s \in Socket :
    /\ ph[s] = "none" => s \notin Places(r) /\ r.k[s].ready = "none"
    /\ ph[s] \in {"setup", "setup2"} => r.k[s].ready # "none"

\* A fetch waits for one update at a time.
Waiting(up, ph) ==
  /\ \A i \in 1 .. Len(up) : up[i] \in Socket => ph[up[i]] \in {"setup", "setup2", "failing"}
  /\ \A i, j \in 1 .. Len(up) : (up[i] \in Socket /\ up[i] = up[j]) => i = j

Waiter == Socket \cup {Nobody, Alarm}

LEMMA FewerPhased ==
  ASSUME NEW r, NEW q, NEW ph, Phased(r, ph), Fewer(r, q)
  PROVE  Phased(q, ph)
<1>1. Places(q) \subseteq Places(r)
  BY DEF Fewer, Places
<1>2. \A x \in Socket : \/ q.k[x].ready = r.k[x].ready
                        \/ q.k[x].ready = "closing" /\ x \in Places(q)
  BY DEF Fewer, Places
<1>. QED BY <1>1, <1>2 DEF Phased

LEMMA MovedOn ==
  ASSUME NEW r, NEW ph \in [Socket -> Phases], Phased(r, ph), NEW s \in Socket,
         NEW p \in Phases \ {"none"}, p \in {"setup", "setup2"} => r.k[s].ready # "none",
         NEW ph1, ph1 = [ph EXCEPT ![s] = p]
  PROVE  Phased(r, ph1) /\ ph1 \in [Socket -> Phases]
<1>1. ph1[s] = p /\ \A x \in Socket : x # s => ph1[x] = ph[x]
  OBVIOUS
<1>. QED BY <1>1 DEF Phased

LEMMA ShorterQueue ==
  ASSUME NEW up \in Seq(Waiter), up # <<>>, NEW ph, Waiting(up, ph)
  PROVE  /\ Tail(up) \in Seq(Waiter) /\ Waiting(Tail(up), ph)
         /\ Head(up) \in Waiter
         /\ Head(up) \in Socket => /\ ph[Head(up)] \in {"setup", "setup2", "failing"}
                                   /\ \A i \in 1 .. Len(Tail(up)) : Tail(up)[i] # Head(up)
<1>. DEFINE tl == Tail(up)
            n == Len(up)
<1>1. /\ n \in Nat /\ n # 0 /\ tl \in Seq(Waiter) /\ Len(tl) = n - 1
      /\ \A i \in 1 .. n - 1 : tl[i] = up[i + 1]
      /\ Head(up) = up[1] /\ Head(up) \in Waiter
  BY HeadTailProperties
<1>. HIDE DEF tl, n
<1>2. \A i \in 1 .. n - 1 : i + 1 \in 1 .. n /\ i + 1 # 1
  BY <1>1
<1>3. 1 \in 1 .. n
  BY <1>1
<1>4. /\ \A i \in 1 .. n : up[i] \in Socket => ph[up[i]] \in {"setup", "setup2", "failing"}
      /\ \A i, j \in 1 .. n : (up[i] \in Socket /\ up[i] = up[j]) => i = j
  BY DEF Waiting, n
<1>5. \A i \in 1 .. n - 1 : tl[i] \in Socket => ph[tl[i]] \in {"setup", "setup2", "failing"}
  BY <1>1, <1>2, <1>4
<1>6. \A i, j \in 1 .. n - 1 : (tl[i] \in Socket /\ tl[i] = tl[j]) => i = j
  <2>1. ASSUME NEW i \in 1 .. n - 1, NEW j \in 1 .. n - 1, tl[i] \in Socket, tl[i] = tl[j]
        PROVE  i = j
    <3>1. i + 1 = j + 1
      BY <1>1, <1>2, <1>4, <2>1
    <3>. QED BY <3>1
  <2>. QED BY <2>1
<1>7. Waiting(tl, ph)
  BY <1>1, <1>5, <1>6 DEF Waiting
<1>8. ASSUME Head(up) \in Socket
      PROVE  /\ ph[Head(up)] \in {"setup", "setup2", "failing"}
             /\ \A i \in 1 .. n - 1 : tl[i] # Head(up)
  BY <1>1, <1>2, <1>3, <1>4, <1>8
<1>. QED BY <1>1, <1>7, <1>8 DEF tl

\* The phase of a fetch that no update is for is its own.
LEMMA NotWaiting ==
  ASSUME NEW up \in Seq(Waiter), NEW ph \in [Socket -> Phases], Waiting(up, ph), NEW s \in Socket,
         \A i \in 1 .. Len(up) : up[i] # s, NEW p \in Phases,
         NEW ph1, ph1 = [ph EXCEPT ![s] = p]
  PROVE  Waiting(up, ph1)
<1>1. \A x \in Socket : x # s => ph1[x] = ph[x]
  OBVIOUS
<1>. QED BY <1>1 DEF Waiting

LEMMA LongerQueue ==
  ASSUME NEW up \in Seq(Waiter), NEW ph, Waiting(up, ph), NEW w \in Waiter,
         w \in Socket => /\ ph[w] \in {"setup", "setup2", "failing"}
                         /\ \A i \in 1 .. Len(up) : up[i] # w,
         NEW q, q = Append(up, w)
  PROVE  q \in Seq(Waiter) /\ Waiting(q, ph)
<1>. DEFINE n == Len(up)
<1>1. /\ n \in Nat /\ q \in Seq(Waiter) /\ Len(q) = n + 1 /\ q[n + 1] = w
      /\ \A i \in 1 .. n : q[i] = up[i]
  BY AppendProperties
<1>2. /\ \A i \in 1 .. n : up[i] \in Socket => ph[up[i]] \in {"setup", "setup2", "failing"}
      /\ \A i, j \in 1 .. n : (up[i] \in Socket /\ up[i] = up[j]) => i = j
  BY DEF Waiting
<1>. HIDE DEF n
<1>3. 1 .. n + 1 = (1 .. n) \cup {n + 1}
  BY <1>1
<1>4. \A i \in 1 .. n + 1 : q[i] \in Socket => ph[q[i]] \in {"setup", "setup2", "failing"}
  BY <1>1, <1>2, <1>3
<1>5. \A i, j \in 1 .. n + 1 : (q[i] \in Socket /\ q[i] = q[j]) => i = j
  <2>1. w \in Socket => \A i \in 1 .. n : up[i] # w
    BY DEF n
  <2>. QED BY <1>1, <1>2, <1>3, <2>1
<1>. QED BY <1>1, <1>4, <1>5 DEF Waiting

-----------------------------------------------------------------------------
(* The inductive invariant, and what each action leaves of it              *)

RoomInv(r, ph) == Orderly(r) /\ Capped(r) /\ Phased(r, ph)

Typed ==
  /\ saved \in [due : Timer, published : Seq(Presence) \cup {None}]
  /\ alarm \in Timer
  /\ updates \in Seq(Waiter)
  /\ step \in [at : {"start", "read", "put"}, installed : Timer]
  /\ phase \in [Socket -> Phases]
  /\ faults \in 0 .. MaxFaults

\* An update that has begun is at the head of the queue.
Running(up, st) == st.at # "start" => up # <<>>

IInv ==
  /\ Typed /\ RoomInv(Here, phase) /\ Waiting(updates, phase) /\ Running(updates, step)

\* What a step makes of the room, of the phases and of the queue is in order.
Landed ==
  /\ \E q : Becomes(q) /\ RoomInv(q, phase')
  /\ Waiting(updates', phase') /\ updates' \in Seq(Waiter) /\ phase' \in [Socket -> Phases]

LEMMA BecomesHere ==
  ASSUME NEW q, q \in Object, Becomes(q)
  PROVE  Here' = q
<1>1. q = [m |-> q.m, k |-> q.k]
  BY DEF Object
<1>. QED BY <1>1 DEF Becomes, Here

LEMMA LandedKeeps ==
  ASSUME Landed, saved' \in [due : Timer, published : Seq(Presence) \cup {None}],
         alarm' \in Timer, step' \in [at : {"start", "read", "put"}, installed : Timer],
         faults' \in 0 .. MaxFaults, Running(updates', step')
  PROVE  IInv'
<1>1. PICK q : Becomes(q) /\ RoomInv(q, phase')
  BY DEF Landed
<1>2. q \in Object
  BY <1>1 DEF RoomInv, Orderly, Core
<1>3. Here' = q
  BY <1>1, <1>2, BecomesHere
<1>4. RoomInv(Here', phase')
  BY <1>1, <1>3
<1>5. Typed' /\ Waiting(updates', phase')
  BY DEF Landed, Typed
<1>. QED BY <1>4, <1>5 DEF IInv

LEMMA RoomTypes ==
  ASSUME IInv
  PROVE  /\ Here \in Object /\ Core(Here) /\ Orderly(Here) /\ Capped(Here) /\ Phased(Here, phase)
         /\ Here.m = room /\ Here.k = sock
  BY DEF IInv, RoomInv, Orderly, Core, Here

LEMMA FewerRoom ==
  ASSUME NEW r, NEW ph, RoomInv(r, ph), NEW q, Core(q), Fewer(r, q)
  PROVE  RoomInv(q, ph)
<1>1. Orderly(r) /\ Core(r) /\ Capped(r) /\ Phased(r, ph)
  BY DEF RoomInv, Orderly
<1>2. Orderly(q) /\ Capped(q) /\ Phased(q, ph)
  BY <1>1, FewerOrderly, FewerCapped, FewerPhased
<1>. QED BY <1>2 DEF RoomInv

LEMMA ReleaseRoom ==
  ASSUME NEW r, NEW ph, RoomInv(r, ph), NEW s, NEW q, q = Release(r, s)
  PROVE  RoomInv(q, ph)
<1>1. Orderly(r) /\ Core(r) /\ Capped(r) /\ Phased(r, ph) /\ r \in Object
  BY DEF RoomInv, Orderly, Core
<1>2. /\ Core(q) /\ q.k = r.k /\ q.m.records = r.m.records /\ q.m.cleanup = r.m.cleanup
      /\ Eligible(q.m) = Eligible(r.m) /\ q.m.reserved = r.m.reserved \ {s}
  BY <1>1, ReleaseKeeps
<1>3. Orderly(q)
  BY <1>1, <1>2 DEF Orderly, Halved, Kept
<1>4. Places(q) \subseteq Places(r)
  BY <1>2 DEF Places
<1>5. Capped(q)
  <2>1. q \in Object /\ \A x \in Socket : q.k[x].presence = r.k[x].presence
    BY <1>2 DEF Core
  <2>. QED BY <1>1, <1>4, <2>1, FewerPlaces
<1>6. Phased(q, ph)
  BY <1>1, <1>2, <1>4 DEF Phased
<1>. QED BY <1>3, <1>5, <1>6 DEF RoomInv

\* Nothing is in order but by the queue and the phases when they stay.
LEMMA StayLands ==
  ASSUME IInv, NEW q, Becomes(q), RoomInv(q, phase), UNCHANGED <<updates, phase>>
  PROVE  Landed
<1>1. updates' = updates /\ phase' = phase
  OBVIOUS
<1>. QED BY <1>1 DEF IInv, Typed, Landed

LEMMA QueueLands ==
  ASSUME IInv, NEW q, Becomes(q), RoomInv(q, phase), NEW w \in {Nobody, Alarm}, Queue(w),
         UNCHANGED phase
  PROVE  Landed
<1>1. w \in Waiter /\ w \notin Socket
  BY RoomAssumption DEF Waiter
<1>2. updates \in Seq(Waiter) /\ Waiting(updates, phase) /\ phase \in [Socket -> Phases]
  BY DEF IInv, Typed
<1>3. updates' \in Seq(Waiter) /\ Waiting(updates', phase)
  BY <1>1, <1>2, LongerQueue DEF Queue
<1>. QED BY <1>2, <1>3 DEF Landed

\* A fetch that waited for nothing queues an update and waits for it.
LEMMA JoinLands ==
  ASSUME IInv, NEW q, Becomes(q), NEW s \in Socket, phase[s] = "charging",
         NEW p \in {"setup", "failing"}, Queue(s), phase' = [phase EXCEPT ![s] = p],
         RoomInv(q, phase')
  PROVE  Landed
<1>1. updates \in Seq(Waiter) /\ Waiting(updates, phase) /\ phase \in [Socket -> Phases]
  BY DEF IInv, Typed
<1>2. \A i \in 1 .. Len(updates) : updates[i] # s
  BY <1>1 DEF Waiting
<1>3. PICK ph : ph = phase'
  OBVIOUS
<1>4. p \in Phases /\ ph = [phase EXCEPT ![s] = p]
  BY <1>3 DEF Phases
<1>5. Waiting(updates, ph) /\ ph \in [Socket -> Phases] /\ ph[s] = p
  <2>1. Waiting(updates, ph)
    BY <1>1, <1>2, <1>4, NotWaiting
  <2>. QED BY <1>1, <1>4, <2>1
<1>6. s \in Waiter
  BY DEF Waiter
<1>7. updates' \in Seq(Waiter) /\ Waiting(updates', ph)
  BY <1>1, <1>2, <1>5, <1>6, LongerQueue DEF Queue
<1>. QED BY <1>3, <1>5, <1>7 DEF Landed

\* The update at the head is over: its fetch queues another one,
LEMMA AgainLands ==
  ASSUME IInv, NEW q, Becomes(q), updates # <<>>, NEW s \in Socket, s = Head(updates),
         NEW p \in {"setup2", "failing"}, updates' = Append(Tail(updates), s),
         phase' = [phase EXCEPT ![s] = p], RoomInv(q, phase')
  PROVE  Landed
<1>1. updates \in Seq(Waiter) /\ Waiting(updates, phase) /\ phase \in [Socket -> Phases]
  BY DEF IInv, Typed
<1>2. PICK tl : tl = Tail(updates)
  OBVIOUS
<1>3. /\ tl \in Seq(Waiter) /\ Waiting(tl, phase)
      /\ \A i \in 1 .. Len(tl) : tl[i] # s
  BY <1>1, <1>2, ShorterQueue
<1>4. PICK ph : ph = phase'
  OBVIOUS
<1>5. p \in Phases /\ ph = [phase EXCEPT ![s] = p]
  BY <1>4 DEF Phases
<1>6. Waiting(tl, ph) /\ ph \in [Socket -> Phases] /\ ph[s] = p
  <2>1. Waiting(tl, ph)
    BY <1>1, <1>3, <1>5, NotWaiting
  <2>. QED BY <1>1, <1>5, <2>1
<1>7. s \in Waiter
  BY DEF Waiter
<1>8. updates' \in Seq(Waiter) /\ Waiting(updates', ph)
  BY <1>2, <1>3, <1>6, <1>7, LongerQueue
<1>. QED BY <1>4, <1>6, <1>8 DEF Landed

\* or it is done,
LEMMA DoneLands ==
  ASSUME IInv, NEW q, Becomes(q), updates # <<>>, NEW s \in Socket, s = Head(updates),
         NEW p \in {"live", "refused"}, updates' = Tail(updates),
         phase' = [phase EXCEPT ![s] = p], RoomInv(q, phase')
  PROVE  Landed
<1>1. updates \in Seq(Waiter) /\ Waiting(updates, phase) /\ phase \in [Socket -> Phases]
  BY DEF IInv, Typed
<1>2. PICK tl : tl = Tail(updates)
  OBVIOUS
<1>3. /\ tl \in Seq(Waiter) /\ Waiting(tl, phase)
      /\ \A i \in 1 .. Len(tl) : tl[i] # s
  BY <1>1, <1>2, ShorterQueue
<1>4. PICK ph : ph = phase'
  OBVIOUS
<1>5. p \in Phases /\ ph = [phase EXCEPT ![s] = p]
  BY <1>4 DEF Phases
<1>6. Waiting(tl, ph) /\ ph \in [Socket -> Phases]
  <2>1. Waiting(tl, ph)
    BY <1>1, <1>3, <1>5, NotWaiting
  <2>. QED BY <1>1, <1>5, <2>1
<1>. QED BY <1>2, <1>3, <1>4, <1>6 DEF Landed

\* or nobody waited for it.
LEMMA OverLands ==
  ASSUME IInv, NEW q, Becomes(q), RoomInv(q, phase), updates # <<>>, updates' = Tail(updates),
         UNCHANGED phase
  PROVE  Landed
<1>1. updates \in Seq(Waiter) /\ Waiting(updates, phase) /\ phase \in [Socket -> Phases]
  BY DEF IInv, Typed
<1>2. Tail(updates) \in Seq(Waiter) /\ Waiting(Tail(updates), phase)
  BY <1>1, ShorterQueue
<1>. QED BY <1>1, <1>2 DEF Landed

LEMMA MovedRoom ==
  ASSUME NEW r, NEW ph \in [Socket -> Phases], RoomInv(r, ph), NEW s \in Socket,
         NEW p \in Phases \ {"none"}, p \in {"setup", "setup2"} => r.k[s].ready # "none",
         NEW ph1, ph1 = [ph EXCEPT ![s] = p]
  PROVE  RoomInv(r, ph1)
<1>1. Phased(r, ph)
  BY DEF RoomInv
<1>2. Phased(r, ph1)
  BY <1>1, MovedOn
<1>. QED BY <1>2 DEF RoomInv

LEMMA FailLands ==
  ASSUME IInv, updates # <<>>, NEW s \in Socket, s = Head(updates),
         phase[s] \in {"setup", "setup2"}, NEW r, RoomInv(r, phase), Fail(s, r)
  PROVE  Landed
<1>1. Orderly(r) /\ Core(r) /\ Phased(r, phase)
  BY DEF RoomInv, Orderly
<1>2. Closable(r, s)
  <2>1. r.k[s].ready \in {"none", "open", "closing", "closed"}
    BY <1>1 DEF Core, Object, Attachment
  <2>2. r.k[s].ready # "none"
    BY <1>1 DEF Phased
  <2>. QED BY <1>1, <2>1, <2>2 DEF Closable, Orderly, Kept
<1>3. PICK q : q = Invalidate(r, s)
  OBVIOUS
<1>4. Core(q) /\ Fewer(r, q)
  BY <1>1, <1>2, <1>3, InvalidateFewer
<1>5. RoomInv(q, phase)
  BY <1>4, FewerRoom
<1>6. PICK ph : ph = phase'
  OBVIOUS
<1>7. /\ Becomes(q) /\ updates' = Append(Tail(updates), s)
      /\ phase' = [phase EXCEPT ![s] = "failing"]
  BY <1>3 DEF Fail
<1>8. RoomInv(q, ph)
  <2>1. phase \in [Socket -> Phases] /\ "failing" \in Phases \ {"none"}
    BY DEF IInv, Typed, Phases
  <2>. QED BY <1>5, <1>6, <1>7, <2>1, MovedRoom
<1>. QED BY <1>6, <1>7, <1>8, AgainLands

LEMMA FinishLands ==
  ASSUME IInv, updates # <<>>, NEW s \in Socket, s = Head(updates), NEW p \in {"live", "refused"},
         NEW r, RoomInv(r, phase), Finish(s, r, p)
  PROVE  Landed
<1>1. PICK ph : ph = phase'
  OBVIOUS
<1>2. Becomes(r) /\ updates' = Tail(updates) /\ phase' = [phase EXCEPT ![s] = p]
  BY DEF Finish
<1>3. RoomInv(r, ph)
  <2>1. phase \in [Socket -> Phases] /\ p \in Phases \ {"none"} /\ p \notin {"setup", "setup2"}
    BY DEF IInv, Typed, Phases
  <2>. QED BY <1>1, <1>2, <2>1, MovedRoom
<1>. QED BY <1>1, <1>2, <1>3, DoneLands

UnknownFrom(r) == [r EXCEPT !.m.published = None]

LEMMA UnknownKeeps ==
  ASSUME NEW r, Core(r), NEW q, q = PublishedUnknown(r)
  PROVE  Core(q) /\ Fewer(r, q)
<1>1. PICK a : a = UnknownFrom(r)
  OBVIOUS
<1>2. r.m.due \in Timer /\ r \in Object
  BY DEF Core, Object, Memory
<1>3. PICK due \in Timer : due = r.m.due
  BY <1>2
<1>4. PICK body \in Seq(Presence) \cup {None} : body = None
  OBVIOUS
<1>5. a = PublishedBy(r, due, body)
  BY <1>1, <1>2, <1>3, <1>4 DEF UnknownFrom, PublishedBy, Object, Memory
<1>6. Core(a) /\ Fewer(r, a)
  BY <1>5, PublishedKeeps
<1>7. q = MarkPresenceDirty(a)
  BY <1>1, Zenon DEF PublishedUnknown, UnknownFrom
<1>8. Core(q) /\ Fewer(a, q)
  BY <1>6, <1>7, DirtyKeeps
<1>. QED BY <1>6, <1>8, FewerTwice

LEMMA SetupLands ==
  ASSUME IInv, updates # <<>>, NEW s \in Socket, s = Head(updates), phase[s] = "setup",
         NEW r, RoomInv(r, phase), NEW lost, ContinueSetup(s, r, lost)
  PROVE  Landed
<1>1. Orderly(r) /\ Core(r) /\ Phased(r, phase)
  BY DEF RoomInv, Orderly
<1>2. PICK body \in Seq(Presence) \cup {None} : body = Body(r)
  BY <1>1, BodyTyped
<1>3. PICK S : S = {s}
  OBVIOUS
<1>4. PICK sent : sent = SendTo(r, S, lost, body)
  OBVIOUS
<1>5. Core(sent) /\ Fewer(r, sent)
  <2>1. S \subseteq Socket
    BY <1>3
  <2>. QED BY <1>1, <1>4, <2>1, SendToKeeps
<1>6. RoomInv(sent, phase)
  BY <1>5, FewerRoom
<1>7. PICK checked : checked = Validate(r, s)
  OBVIOUS
<1>8. RoomInv(checked, phase)
  BY <1>1, <1>7, ValidateKeeps, FewerRoom
<1>9. PICK unknown : unknown = PublishedUnknown(sent)
  OBVIOUS
<1>10. RoomInv(unknown, phase)
  BY <1>5, <1>6, <1>9, UnknownKeeps, FewerRoom
<1>11. \/ Fail(s, checked)
       \/ /\ Becomes(unknown) /\ updates' = Append(Tail(updates), s)
          /\ phase' = [phase EXCEPT ![s] = "setup2"]
       \/ Finish(s, sent, "live")
       \/ Fail(s, sent)
  <2>1. sent = SendTo(r, {s}, lost, Body(r))
    BY <1>2, <1>3, <1>4
  <2>. QED BY <1>7, <1>9, <2>1, Zenon DEF ContinueSetup
<1>12. CASE Fail(s, checked)
  BY <1>8, <1>12, FailLands
<1>13. CASE Fail(s, sent)
  BY <1>6, <1>13, FailLands
<1>14. CASE Finish(s, sent, "live")
  <2>1. PICK p \in {"live", "refused"} : p = "live"
    OBVIOUS
  <2>2. Finish(s, sent, p)
    BY <1>14, <2>1
  <2>. QED BY <1>6, <2>2, FinishLands
<1>15. CASE /\ Becomes(unknown) /\ updates' = Append(Tail(updates), s)
            /\ phase' = [phase EXCEPT ![s] = "setup2"]
  <2>1. PICK p \in {"setup2", "failing"} : p = "setup2"
    OBVIOUS
  <2>2. PICK ph : ph = phase'
    OBVIOUS
  <2>3. RoomInv(unknown, ph)
    <3>1. phase \in [Socket -> Phases] /\ p \in Phases \ {"none"}
      BY <2>1 DEF IInv, Typed, Phases
    <3>2. unknown.k[s].ready # "none"
      BY <1>10 DEF RoomInv, Phased
    <3>3. ph = [phase EXCEPT ![s] = p]
      BY <1>15, <2>1, <2>2
    <3>. QED BY <1>10, <3>1, <3>2, <3>3, MovedRoom
  <2>. QED BY <1>15, <2>1, <2>2, <2>3, AgainLands
<1>. QED BY <1>11, <1>12, <1>13, <1>14, <1>15

LEMMA ContinueLands ==
  ASSUME IInv, updates # <<>>, NEW s \in Socket, s = Head(updates),
         NEW r, RoomInv(r, phase), NEW lost, Continue(s, r, lost)
  PROVE  Landed
<1>1. CASE phase[s] = "setup" /\ ContinueSetup(s, r, lost)
  BY <1>1, SetupLands
<1>2. CASE phase[s] = "setup2" /\ Finish(s, r, "live")
  <2>1. PICK p \in {"live", "refused"} : p = "live"
    OBVIOUS
  <2>2. Finish(s, r, p)
    BY <1>2, <2>1
  <2>. QED BY <2>2, FinishLands
<1>3. CASE phase[s] = "setup2" /\ Fail(s, Validate(r, s))
  <2>1. PICK checked : checked = Validate(r, s)
    OBVIOUS
  <2>2. RoomInv(checked, phase)
    BY <2>1, ValidateKeeps, FewerRoom DEF RoomInv, Orderly
  <2>3. Fail(s, checked)
    BY <1>3, <2>1
  <2>. QED BY <1>3, <2>2, <2>3, FailLands
<1>4. CASE Finish(s, Release(r, s), "refused")
  <2>1. PICK p \in {"live", "refused"} : p = "refused"
    OBVIOUS
  <2>2. PICK freed : freed = Release(r, s)
    OBVIOUS
  <2>3. RoomInv(freed, phase)
    BY <2>2, ReleaseRoom
  <2>4. Finish(s, freed, p)
    BY <1>4, <2>1, <2>2
  <2>. QED BY <2>3, <2>4, FinishLands
<1>. QED BY <1>1, <1>2, <1>3, <1>4 DEF Continue

LEMMA ReturnLands ==
  ASSUME IInv, updates # <<>>, NEW r, RoomInv(r, phase), NEW lost, Return(r, lost)
  PROVE  Landed
<1>1. CASE Head(updates) \in Socket /\ Continue(Head(updates), r, lost)
  <2>1. PICK s \in Socket : s = Head(updates)
    BY <1>1
  <2>2. Continue(s, r, lost)
    BY <1>1, <2>1
  <2>. QED BY <2>1, <2>2, ContinueLands
<1>2. CASE Becomes(r) /\ updates' = Tail(updates) /\ UNCHANGED phase
  BY <1>2, OverLands
<1>. QED BY <1>1, <1>2 DEF Return

LEMMA FaultTypes ==
  ASSUME IInv, Fault \/ UNCHANGED faults
  PROVE  faults' \in 0 .. MaxFaults
<1>1. faults \in 0 .. MaxFaults /\ MaxFaults \in Nat
  BY RoomAssumption DEF IInv, Typed
<1>. QED BY <1>1 DEF Fault

LEMMA QueueRuns ==
  ASSUME NEW up \in Seq(Waiter), NEW w \in Waiter, NEW st
  PROVE  Running(Append(up, w), st)
<1>1. Append(up, w) # <<>>
  BY AppendProperties
<1>. QED BY <1>1 DEF Running

LEMMA AtStartTypes ==
  /\ AtStart \in [at : {"start", "read", "put"}, installed : Timer]
  /\ \A up : Running(up, AtStart)
  BY TimerTypes DEF AtStart, Running

\* Steps that leave the schedule and the running update alone.
LEMMA QuietKeeps ==
  ASSUME IInv, Landed, UNCHANGED <<saved, alarm, step>>, Fault \/ UNCHANGED faults,
         updates' = updates \/ \E w \in Waiter : Queue(w)
  PROVE  IInv'
<1>1. /\ saved' \in [due : Timer, published : Seq(Presence) \cup {None}]
      /\ alarm' \in Timer /\ step' \in [at : {"start", "read", "put"}, installed : Timer]
  BY DEF IInv, Typed
<1>2. faults' \in 0 .. MaxFaults
  BY FaultTypes
<1>3. Running(updates', step')
  <2>1. CASE updates' = updates
    BY <2>1 DEF IInv, Running
  <2>2. CASE \E w \in Waiter : Queue(w)
    BY <2>2, QueueRuns DEF IInv, Typed, Queue
  <2>. QED BY <2>1, <2>2
<1>. QED BY <1>1, <1>2, <1>3, LandedKeeps

\* What was published is written once no update waits, and by the last update as
\* soon as it has put the schedule.
Written(up, st, was, now) ==
  (up = <<>> \/ (st.at = "put" /\ Tail(up) = <<>>)) => was.published = now.published

PresenceInv == Informed(Here, phase) /\ Written(updates, step, saved, room)

LEMMA BecomesInformed ==
  ASSUME NEW q, q \in Object, Becomes(q), NEW ph, ph = phase', Informed(q, ph)
  PROVE  Informed(Here', phase') /\ room' = q.m
<1>1. Here' = q
  BY BecomesHere
<1>. QED BY <1>1 DEF Becomes

\* What is asked of the phases is only asked of those that change.
LEMMA InformedMoved ==
  ASSUME NEW r, NEW ph, Informed(r, ph), Eligible(r.m) \subseteq Socket, NEW s, NEW ph1,
         \A x \in Socket : x # s => ph1[x] = ph[x],
         \/ ph1[s] \notin {"setup2", "live"} \/ s \notin Eligible(r.m)
         \/ r.m.published = None \/ r.k[s].seen = r.m.published
  PROVE  Informed(r, ph1)
<1>1. ASSUME r.m.published # None, NEW x \in Eligible(r.m), ph1[x] \in {"setup2", "live"}
      PROVE  r.k[x].seen = r.m.published
  <2>1. CASE x = s
    BY <1>1, <2>1
  <2>2. CASE x # s
    BY <1>1, <2>2 DEF Informed
  <2>. QED BY <2>1, <2>2
<1>. QED BY <1>1 DEF Informed

\* A turn that queues an update leaves the writing to it.
LEMMA QueueWrites ==
  ASSUME IInv, NEW w \in Waiter, Queue(w), step' = step
  PROVE  Written(updates', step', saved', room')
<1>1. updates \in Seq(Waiter) /\ Running(updates, step)
  BY DEF IInv, Typed
<1>2. PICK up : up = Append(updates, w) /\ up = updates'
  BY DEF Queue
<1>3. up \in Seq(Waiter) /\ Len(up) = Len(updates) + 1 /\ Len(updates) \in Nat
  <2>1. Append(updates, w) \in Seq(Waiter) /\ Len(Append(updates, w)) = Len(updates) + 1
    BY <1>1, AppendProperties
  <2>. QED BY <1>1, <1>2, <2>1
<1>4. up # <<>>
  BY <1>3
<1>5. step.at = "put" => Tail(up) # <<>>
  <2>1. ASSUME updates # <<>> PROVE Tail(up) # <<>>
    <3>1. Len(updates) # 0
      BY <1>1, <2>1
    <3>2. Len(Tail(up)) = Len(updates)
      BY <1>3, <1>4, HeadTailProperties
    <3>. QED BY <3>1, <3>2
  <2>. QED BY <1>1, <2>1 DEF Running
<1>. QED BY <1>2, <1>4, <1>5 DEF Written

\* A turn that changes neither the queue nor what is published changes nothing
\* of what is written.
LEMMA StayWrites ==
  ASSUME PresenceInv, UNCHANGED <<saved, updates, step>>, room'.published = room.published
  PROVE  Written(updates', step', saved', room')
  BY DEF PresenceInv, Written

\* The room that a turn leaves is the one it is told to be.
LEMMA ToldStays ==
  ASSUME NEW r, NEW q, NEW ph, Core(r), Core(q), Fewer(r, q), Told(r, q), Informed(r, ph)
  PROVE  Informed(q, ph) /\ q \in Object /\ Eligible(q.m) \subseteq Socket
<1>1. Eligible(q.m) \subseteq Eligible(r.m)
  BY DEF Fewer
<1>2. Eligible(r.m) \subseteq Socket
  BY EligibleTabs DEF Core, Object, Memory
<1>. QED BY <1>1, <1>2, ToldInformed DEF Core

Attached(r, s, p, d) == [r EXCEPT !.k[s].presence = p, !.k[s].deadline = d]

LEMMA AttachedFrame ==
  ASSUME NEW r \in Object, NEW s \in Socket, NEW p \in Presence, NEW d \in Timer,
         NEW q, q = Attached(r, s, p, d)
  PROVE  /\ q \in Object /\ q.m = r.m /\ q.k[s].presence = p
         /\ q.k[s].ready = r.k[s].ready
         /\ \A x \in Socket : x # s => q.k[x] = r.k[x]
         /\ \A x \in Socket : q.k[x].ready = r.k[x].ready
<1>1. r.k[s] \in Attachment /\ r.k \in [Socket -> Attachment] /\ r.m \in Memory
  BY DEF Object
<1>2. PICK a : a = [r.k[s] EXCEPT !.presence = p, !.deadline = d]
  OBVIOUS
<1>3. a \in Attachment /\ a.presence = p /\ a.ready = r.k[s].ready
  BY <1>1, <1>2 DEF Attachment
<1>4. q.m = r.m /\ q.k = [r.k EXCEPT ![s] = a] /\ q = [m |-> q.m, k |-> q.k]
  BY <1>1, <1>2 DEF Attached, Object, Attachment
<1>5. q.k \in [Socket -> Attachment]
  BY <1>1, <1>3, <1>4
<1>6. q \in Object
  BY <1>1, <1>4, <1>5 DEF Object
<1>7. q.k[s] = a /\ \A x \in Socket : x # s => q.k[x] = r.k[x]
  BY <1>1, <1>4
<1>. QED BY <1>3, <1>4, <1>6, <1>7

\* The alarm is set for everything that memory has a timer for.
AlarmCovers(a, m) == a <= m.nextExpiry /\ a <= m.due /\ a <= m.cleanupDue

LEMMA ArriveKeeps ==
  ASSUME IInv, NEW s \in Socket, NEW p \in Presence, NEW d \in Deadlines, Arrive(s, p, d)
  PROVE  /\ IInv' /\ (AlarmCovers(alarm, room) => AlarmCovers(alarm', room'))
         /\ PresenceInv => PresenceInv'
<1>1. /\ Here \in Object /\ Core(Here) /\ Orderly(Here) /\ Capped(Here) /\ Phased(Here, phase)
  BY RoomTypes
<1>2. phase \in [Socket -> Phases] /\ phase[s] = "none" /\ UserOf[p] \in User
  BY DEF IInv, Typed, Arrive, User
<1>3. s \notin Places(Here) /\ Here.k[s].ready = "none"
  BY <1>1, <1>2 DEF Phased
<1>4. PICK a : a = Attached(Here, s, p, d)
  OBVIOUS
<1>5. /\ a \in Object /\ a.m = Here.m /\ a.k[s].presence = p
      /\ a.k[s].ready = Here.k[s].ready
      /\ \A x \in Socket : x # s => a.k[x] = Here.k[x]
      /\ \A x \in Socket : a.k[x].ready = Here.k[x].ready
  <2>1. d \in Timer /\ Here \in Object
    BY <1>1, TimerTypes
  <2>. QED BY <1>4, <2>1, AttachedFrame
<1>6. Core(a)
  <2>1. Places(Here) \subseteq Socket
    BY <1>1 DEF Places, Object, Memory
  <2>2. \A x \in Places(Here) : a.k[x].presence = Here.k[x].presence
    BY <1>3, <1>5, <2>1
  <2>3. \A x \in Eligible(Here.m) : Here.m.nextExpiry <= a.k[x].deadline
    <3>1. Eligible(Here.m) \subseteq Places(Here)
      BY <1>1, EligibleTabs DEF Places
    <3>2. \A x \in Eligible(Here.m) : a.k[x] = Here.k[x]
      BY <1>3, <1>5, <2>1, <3>1
    <3>. QED BY <1>1, <3>2 DEF Core, Reckoned
  <2>. QED BY <1>1, <1>5, <2>2, <2>3, SameMemory DEF Places
<1>7. Orderly(a)
  BY <1>1, <1>5, <1>6 DEF Orderly, Halved, Kept
<1>8. Places(a) = Places(Here)
  BY <1>5 DEF Places
<1>9. Capped(a)
  <2>1. \A u \in User : HeldIn(a, u) = HeldIn(Here, u)
    <3>1. \A x \in Places(Here) : UserId(a, x) = UserId(Here, x)
      <4>1. Places(Here) \subseteq Socket
        BY <1>1 DEF Places, Object, Memory
      <4>. QED BY <1>3, <1>5, <4>1 DEF UserId
    <3>. QED BY <1>5, <3>1 DEF HeldIn, Places
  <2>. QED BY <1>1, <1>8, <2>1 DEF Capped
<1>10. RoomInv(a, phase)
  BY <1>1, <1>5, <1>7, <1>8, <1>9 DEF RoomInv, Phased
<1>11. PICK r : r = Expire(a)
  OBVIOUS
<1>12. Core(r) /\ Fewer(a, r) /\ Told(a, r)
  BY <1>6, <1>11, ExpireKeeps
<1>13. RoomInv(r, phase) /\ r \in Object
  BY <1>10, <1>12, FewerRoom DEF Core
<1>14. r.k[s].presence = p /\ s \notin Places(r) /\ r.k[s].ready = "none"
  <2>1. r.k[s].presence = p
    BY <1>5, <1>12 DEF Fewer
  <2>. QED BY <1>2, <1>13, <2>1 DEF RoomInv, Phased
<1>15. PICK q : q = IF Fits(r, p) THEN Placed(r, s) ELSE r
  OBVIOUS
<1>16. Becomes(q) /\ phase' = [phase EXCEPT ![s] = "charging"]
       /\ UNCHANGED <<saved, alarm, updates, step, faults>>
  <2>1. a = [Here EXCEPT !.k[s].presence = p, !.k[s].deadline = d]
    BY <1>4 DEF Attached
  <2>2. Becomes(IF Fits(r, p)
                  THEN [r EXCEPT !.m.reserved = @ \cup {s}, !.m.reservations = @ + 1,
                                 !.m.occupancy[UserOf[p]] = @ + 1]
                  ELSE r)
    BY <1>11, <2>1, Zenon DEF Arrive
  <2>3. UserId(r, s) = UserOf[p]
    BY <1>14 DEF UserId
  <2>4. q = IF Fits(r, p)
              THEN [r EXCEPT !.m.reserved = @ \cup {s}, !.m.reservations = @ + 1,
                             !.m.occupancy[UserOf[p]] = @ + 1]
              ELSE r
    BY <1>15, <2>3, Zenon DEF Placed
  <2>. QED BY <2>2, <2>4 DEF Arrive
<1>17. PICK ph : ph = phase'
  OBVIOUS
<1>18. RoomInv(q, ph)
  <2>1. ph[s] = "charging" /\ \A x \in Socket : x # s => ph[x] = phase[x]
    BY <1>2, <1>16, <1>17
  <2>2. CASE q = r
    <3>1. "charging" \in Phases \ {"none"} /\ "charging" \notin {"setup", "setup2"}
      BY DEF Phases
    <3>. QED BY <1>13, <2>1, <2>2 DEF RoomInv, Phased
  <2>3. CASE q = Placed(r, s) /\ Fits(r, p)
    <3>1. Core(r) /\ Orderly(r) /\ Capped(r) /\ Phased(r, phase)
      BY <1>13 DEF RoomInv, Orderly
    <3>2. /\ Core(q) /\ q.k = r.k /\ q.m.records = r.m.records /\ q.m.cleanup = r.m.cleanup
          /\ Eligible(q.m) = Eligible(r.m) /\ q.m.reserved = r.m.reserved \cup {s}
      BY <1>14, <2>3, <3>1, ReserveKeeps DEF Places
    <3>3. Orderly(q)
      BY <3>1, <3>2 DEF Orderly, Halved, Kept
    <3>4. Capped(q)
      BY <1>14, <2>3, <3>1, FittingCapped
    <3>5. Phased(q, ph)
      BY <2>1, <3>1, <3>2 DEF Phased, Places
    <3>. QED BY <3>3, <3>4, <3>5 DEF RoomInv
  <2>. QED BY <1>15, <2>2, <2>3
<1>19. Landed
  <2>1. updates' \in Seq(Waiter) /\ ph \in [Socket -> Phases]
    BY <1>2, <1>16, <1>17 DEF IInv, Typed, Phases
  <2>2. Waiting(updates', ph)
    <3>1. \A i \in 1 .. Len(updates) : updates[i] # s
      BY <1>2 DEF IInv, Waiting
    <3>2. Waiting(updates, phase) /\ updates \in Seq(Waiter)
      BY DEF IInv, Typed
    <3>3. PICK c \in Phases : c = "charging"
      BY DEF Phases
    <3>4. ph = [phase EXCEPT ![s] = c]
      BY <1>16, <1>17, <3>3
    <3>5. Waiting(updates, ph)
      BY <1>2, <3>1, <3>2, <3>4, NotWaiting
    <3>. QED BY <1>16, <3>5
  <2>. QED BY <1>16, <1>17, <1>18, <2>1, <2>2 DEF Landed
<1>20. AlarmCovers(alarm, room) => AlarmCovers(alarm', room')
  <2>1. /\ q.m.nextExpiry = r.m.nextExpiry /\ q.m.due = r.m.due
        /\ q.m.cleanupDue = r.m.cleanupDue
    <3>1. CASE q = Placed(r, s)
      BY <1>12, <1>14, <3>1, ReserveKeeps DEF Places
    <3>. QED BY <1>15, <3>1
  <2>2. room' = q.m /\ alarm' = alarm /\ a.m = room
    BY <1>5, <1>16, RoomTypes DEF Becomes
  <2>3. /\ alarm \in Nat /\ room.nextExpiry \in Nat
        /\ r.m.nextExpiry \in Nat /\ r.m.due \in Nat /\ r.m.cleanupDue \in Nat
    BY <1>5, <1>13, <2>2, TimerTypes DEF IInv, Typed, Object, Memory
  <2>4. CASE room.nextExpiry > 0
    <3>1. /\ r.m.due = room.due /\ r.m.cleanupDue = room.cleanupDue
          /\ room.nextExpiry <= r.m.nextExpiry
      BY <1>6, <1>11, <2>2, <2>4, ExpireKeeps
    <3>. QED BY <2>1, <2>2, <2>3, <3>1 DEF AlarmCovers
  <2>5. CASE room.nextExpiry = 0
    BY <2>1, <2>2, <2>3, <2>5 DEF AlarmCovers
  <2>. QED BY <2>3, <2>4, <2>5
<1>21. ASSUME PresenceInv PROVE PresenceInv'
  <2>1. PICK was : was = phase
    OBVIOUS
  <2>2. Informed(Here, was)
    BY <1>21, <2>1 DEF PresenceInv
  <2>3. Informed(a, was)
    <3>1. Here.m.records \subseteq Socket /\ s \notin Here.m.records
      BY <1>1, <1>3 DEF Places, Object, Memory
    <3>2. Here.m.cleanup \subseteq Here.m.records
      BY <1>1 DEF Core, Sweepable
    <3>3. \A x \in Here.m.records : a.k[x] = Here.k[x]
      BY <1>5, <3>1
    <3>. QED BY <1>1, <1>5, <2>2, <3>2, <3>3, SameInformed
  <2>4. Informed(r, was) /\ Eligible(r.m) \subseteq Socket
    BY <1>6, <1>12, <2>3, ToldStays
  <2>5. /\ Informed(q, was) /\ Eligible(q.m) = Eligible(r.m) /\ q.m.published = r.m.published
        /\ q \in Object
    <3>1. CASE q = r
      BY <1>13, <2>4, <3>1
    <3>2. CASE q = Placed(r, s)
      <4>1. /\ Core(q) /\ q.k = r.k /\ q.m.cleanup = r.m.cleanup
            /\ Eligible(q.m) = Eligible(r.m) /\ q.m.due = r.m.due
            /\ q.m.published = r.m.published /\ Body(q) = Body(r)
        BY <1>12, <1>14, <3>2, ReserveKeeps DEF Places
      <4>. QED BY <2>4, <4>1 DEF Informed, Shutting, Core
    <3>. QED BY <1>15, <3>1, <3>2
  <2>6. Informed(q, ph)
    <3>1. ph[s] \notin {"setup2", "live"} /\ \A x \in Socket : x # s => ph[x] = was[x]
      BY <1>2, <1>16, <1>17, <2>1
    <3>. QED BY <2>4, <2>5, <3>1, InformedMoved
  <2>7. Informed(Here', phase') /\ room' = q.m
    BY <1>16, <1>17, <2>5, <2>6, BecomesInformed
  <2>8. room'.published = room.published
    BY <1>5, <1>12, <2>5, <2>7, RoomTypes DEF Told
  <2>9. Written(updates', step', saved', room')
    BY <1>16, <1>21, <2>8, StayWrites
  <2>. QED BY <2>7, <2>9 DEF PresenceInv
<1>. QED BY <1>16, <1>19, <1>20, <1>21, QuietKeeps

LEMMA RefuseKeeps ==
  ASSUME IInv, NEW s \in Socket, Refuse(s)
  PROVE  IInv'
<1>1. PICK q : q = Release(Here, s)
  OBVIOUS
<1>2. Becomes(q) /\ phase[s] = "charging" /\ phase' = [phase EXCEPT ![s] = "refused"]
      /\ UNCHANGED <<saved, alarm, updates, step, faults>>
  BY <1>1 DEF Refuse
<1>3. RoomInv(q, phase)
  BY <1>1, ReleaseRoom DEF IInv
<1>4. PICK ph : ph = phase'
  OBVIOUS
<1>5. PICK p \in Phases \ {"none"} : p = "refused"
  BY DEF Phases
<1>6. phase \in [Socket -> Phases] /\ updates \in Seq(Waiter) /\ Waiting(updates, phase)
  BY DEF IInv, Typed
<1>7. ph = [phase EXCEPT ![s] = p] /\ p \notin {"setup", "setup2"}
  BY <1>2, <1>4, <1>5
<1>8. RoomInv(q, ph)
  BY <1>3, <1>6, <1>7, MovedRoom
<1>9. Waiting(updates, ph)
  <2>1. \A i \in 1 .. Len(updates) : updates[i] # s
    BY <1>2, <1>6 DEF Waiting
  <2>. QED BY <1>6, <1>7, <2>1, NotWaiting
<1>10. Landed
  <2>1. ph \in [Socket -> Phases] /\ updates' = updates
    BY <1>2, <1>6, <1>7
  <2>. QED BY <1>2, <1>4, <1>6, <1>8, <1>9, <2>1 DEF Landed
<1>. QED BY <1>2, <1>10, QuietKeeps

LEMMA ChargeFailsKeeps ==
  ASSUME IInv, NEW s \in Socket, ChargeFails(s)
  PROVE  IInv'
<1>1. /\ phase[s] = "charging" /\ Fault /\ Queue(s) /\ phase' = [phase EXCEPT ![s] = "failing"]
      /\ UNCHANGED <<sock, room, saved, alarm, step>>
  BY DEF ChargeFails
<1>2. PICK q : q = Here
  OBVIOUS
<1>3. Becomes(q) /\ RoomInv(q, phase)
  BY <1>1, <1>2 DEF Becomes, Here, IInv
<1>4. PICK p \in {"setup", "failing"} : p = "failing"
  OBVIOUS
<1>5. PICK ph : ph = phase'
  OBVIOUS
<1>6. RoomInv(q, ph)
  <2>1. p \in Phases \ {"none"} /\ p \notin {"setup", "setup2"} /\ phase \in [Socket -> Phases]
    BY <1>4 DEF Phases, IInv, Typed
  <2>2. ph = [phase EXCEPT ![s] = p]
    BY <1>1, <1>4, <1>5
  <2>. QED BY <1>3, <2>1, <2>2, MovedRoom
<1>7. Landed
  BY <1>1, <1>3, <1>4, <1>5, <1>6, JoinLands
<1>8. s \in Waiter
  BY DEF Waiter
<1>. QED BY <1>1, <1>7, <1>8, QuietKeeps

\* The reservation of s has become a record.
LEMMA EnteredRoom ==
  ASSUME NEW r, NEW ph, RoomInv(r, ph), NEW s \in r.m.reserved, NEW q, q = Entered(r, s)
  PROVE  /\ Core(q) /\ Capped(q) /\ Phased(q, ph) /\ Kept(q) /\ Places(q) = Places(r)
         /\ q.k = r.k /\ q.m.records = r.m.records \cup {s} /\ q.m.cleanup = r.m.cleanup
         /\ Eligible(q.m) = Eligible(r.m) /\ s \notin Eligible(q.m) /\ s \notin q.m.cleanup
         /\ s \in Socket /\ s \notin r.m.records
         /\ q.m.due = r.m.due /\ q.m.published = r.m.published /\ Body(q) = Body(r)
<1>1. Core(r) /\ Orderly(r) /\ Capped(r) /\ Phased(r, ph) /\ r \in Object
  BY DEF RoomInv, Orderly, Core
<1>2. /\ Core(q) /\ q.k = r.k /\ q.m.records = r.m.records \cup {s} /\ q.m.cleanup = r.m.cleanup
      /\ Eligible(q.m) = Eligible(r.m) /\ q.m.reserved = r.m.reserved \ {s}
      /\ q.m.due = r.m.due /\ q.m.published = r.m.published /\ Body(q) = Body(r)
  BY <1>1, RecordKeeps
<1>3. Places(q) = Places(r)
  BY <1>2 DEF Places
<1>4. Capped(q)
  <2>1. q \in Object /\ \A x \in Socket : q.k[x].presence = r.k[x].presence
    BY <1>2 DEF Core
  <2>. QED BY <1>1, <1>3, <2>1, FewerPlaces
<1>5. Phased(q, ph) /\ Kept(q)
  BY <1>1, <1>2, <1>3 DEF Phased, Kept, Orderly
<1>6. s \notin r.m.records /\ s \in Socket
  BY <1>1 DEF Core, Counted, Object, Memory
<1>7. s \notin Eligible(r.m) /\ s \notin r.m.cleanup
  BY <1>1, <1>6, EligibleTabs DEF Core, Sweepable
<1>. QED BY <1>2, <1>3, <1>4, <1>5, <1>6, <1>7

Readiness == {"none", "open", "closing", "closed"}
ReadyIs(r, s, c) == [r EXCEPT !.k[s].ready = c]

LEMMA ReadyFrame ==
  ASSUME NEW r \in Object, NEW s \in Socket, NEW c \in Readiness,
         NEW q, q = ReadyIs(r, s, c)
  PROVE  /\ q \in Object /\ q.m = r.m /\ q.k[s].ready = c
         /\ q.k[s].presence = r.k[s].presence /\ q.k[s].deadline = r.k[s].deadline
         /\ q.k[s].seen = r.k[s].seen
         /\ \A x \in Socket : x # s => q.k[x] = r.k[x]
<1>1. r.k[s] \in Attachment /\ r.k \in [Socket -> Attachment] /\ r.m \in Memory
  BY DEF Object
<1>2. PICK a : a = [r.k[s] EXCEPT !.ready = c]
  OBVIOUS
<1>3. a \in Attachment /\ a.presence = r.k[s].presence /\ a.ready = c
      /\ a.deadline = r.k[s].deadline /\ a.seen = r.k[s].seen
  BY <1>1, <1>2 DEF Attachment, Readiness
<1>4. q.m = r.m /\ q.k = [r.k EXCEPT ![s] = a] /\ q = [m |-> q.m, k |-> q.k]
  BY <1>1, <1>2 DEF ReadyIs, Object, Attachment
<1>5. q.k \in [Socket -> Attachment]
  BY <1>1, <1>3, <1>4
<1>6. q \in Object
  BY <1>1, <1>4, <1>5 DEF Object
<1>7. q.k[s] = a /\ \A x \in Socket : x # s => q.k[x] = r.k[x]
  BY <1>1, <1>4
<1>. QED BY <1>3, <1>4, <1>6, <1>7

LEMMA AcceptKeeps ==
  ASSUME IInv, NEW s \in Socket, Accept(s)
  PROVE  IInv' /\ (PresenceInv => PresenceInv')
<1>1. RoomInv(Here, phase) /\ s \in Here.m.reserved /\ phase[s] = "charging"
  BY DEF IInv, Accept, Admittable, Reserving, Here
<1>2. PICK h : h = Here
  OBVIOUS
<1>3. PICK a : a = Entered(h, s)
  OBVIOUS
<1>4. /\ Core(a) /\ Capped(a) /\ Phased(a, phase) /\ Kept(a) /\ Places(a) = Places(h)
      /\ a.k = h.k /\ a.m.records = h.m.records \cup {s} /\ a.m.cleanup = h.m.cleanup
      /\ Eligible(a.m) = Eligible(h.m) /\ s \notin Eligible(a.m) /\ s \notin a.m.cleanup
      /\ a.m.due = h.m.due /\ a.m.published = h.m.published /\ Body(a) = Body(h)
  <2>1. RoomInv(h, phase) /\ s \in h.m.reserved
    BY <1>1, <1>2
  <2>. QED BY <1>3, <2>1, EnteredRoom
<1>0. PICK open \in Readiness : open = "open"
  BY DEF Readiness
<1>5. PICK b : b = ReadyIs(a, s, open)
  OBVIOUS
<1>6. /\ b \in Object /\ b.m = a.m /\ b.k[s].ready = "open"
      /\ b.k[s].presence = a.k[s].presence /\ b.k[s].deadline = a.k[s].deadline
      /\ \A x \in Socket : x # s => b.k[x] = a.k[x]
  <2>1. a \in Object
    BY <1>4 DEF Core
  <2>2. b.k[s].ready = open
    BY <1>5, <2>1, ReadyFrame
  <2>3. /\ b \in Object /\ b.m = a.m
        /\ b.k[s].presence = a.k[s].presence /\ b.k[s].deadline = a.k[s].deadline
        /\ \A x \in Socket : x # s => b.k[x] = a.k[x]
    BY <1>5, <2>1, ReadyFrame
  <2>. QED BY <1>0, <2>2, <2>3
<1>7. \A x \in Socket : b.k[x].presence = a.k[x].presence /\ b.k[x].deadline = a.k[x].deadline
  BY <1>6
<1>8. Core(b)
  <2>1. Places(a) \subseteq Socket /\ Eligible(a.m) \subseteq Socket
    BY <1>4, EligibleTabs DEF Places, Core, Object, Memory
  <2>2. \A x \in a.m.records \cup a.m.reserved : b.k[x].presence = a.k[x].presence
    BY <1>7, <2>1 DEF Places
  <2>3. \A x \in Eligible(a.m) : a.m.nextExpiry <= b.k[x].deadline
    BY <1>4, <1>7, <2>1 DEF Core, Reckoned
  <2>. QED BY <1>4, <1>6, <2>2, <2>3, SameMemory
<1>9. PICK q : q = Activate(b, s, TRUE)
  OBVIOUS
<1>10. /\ Core(q) /\ q.k = b.k /\ q.m.records = b.m.records /\ q.m.cleanup = b.m.cleanup
       /\ Eligible(q.m) = Eligible(b.m) \cup {s} /\ q.m.reserved = b.m.reserved
       /\ q.m.published = b.m.published /\ Heeded(b, s, q)
  <2>1. Activated(b, s, q)
    BY <1>9, Zenon DEF Activated, Joins
  <2>2. s \in b.m.records /\ s \notin Eligible(b.m) /\ s \notin b.m.cleanup
    BY <1>4, <1>6
  <2>. QED BY <1>8, <2>1, <2>2, ActivateKeeps
<1>11. /\ Becomes(q) /\ Queue(s) /\ phase' = [phase EXCEPT ![s] = "setup"]
       /\ UNCHANGED <<saved, alarm, step, faults>>
  <2>1. b = [Recorded(s) EXCEPT !.k[s].ready = "open"]
    BY <1>0, <1>2, <1>3, <1>5, Zenon DEF Recorded, Entered, ReadyIs
  <2>2. Becomes(Activate([Recorded(s) EXCEPT !.k[s].ready = "open"], s, TRUE))
    BY Zenon DEF Accept
  <2>3. Becomes(q)
    BY <1>9, <2>1, <2>2, Zenon
  <2>. QED BY <2>3 DEF Accept
<1>12. RoomInv(q, phase)
  <2>1. Halved(q)
    <3>1. h.m.records = Eligible(h.m) \cup h.m.cleanup
      BY <1>1, <1>2 DEF RoomInv, Orderly, Halved
    <3>. QED BY <1>4, <1>6, <1>10, <3>1 DEF Halved
  <2>2. Kept(q)
    BY <1>4, <1>6, <1>10 DEF Kept
  <2>3. Places(q) = Places(a)
    BY <1>6, <1>10 DEF Places
  <2>4. Capped(q)
    <3>1. q \in Object /\ a \in Object /\ \A x \in Socket : q.k[x].presence = a.k[x].presence
      BY <1>4, <1>7, <1>10 DEF Core
    <3>. QED BY <1>4, <2>3, <3>1, FewerPlaces
  <2>5. Phased(q, phase)
    BY <1>1, <1>4, <1>6, <1>10, <2>3 DEF Phased
  <2>. QED BY <1>10, <2>1, <2>2, <2>4, <2>5 DEF RoomInv, Orderly
<1>13. PICK p \in {"setup", "failing"} : p = "setup"
  OBVIOUS
<1>14. PICK ph : ph = phase'
  OBVIOUS
<1>15. RoomInv(q, ph)
  <2>1. p \in Phases \ {"none"} /\ phase \in [Socket -> Phases]
    BY <1>13 DEF Phases, IInv, Typed
  <2>2. ph = [phase EXCEPT ![s] = p]
    BY <1>11, <1>13, <1>14
  <2>3. q.k[s].ready # "none"
    BY <1>6, <1>10
  <2>. QED BY <1>12, <2>1, <2>2, <2>3, MovedRoom
<1>16. Landed
  BY <1>1, <1>11, <1>13, <1>14, <1>15, JoinLands
<1>17. s \in Waiter
  BY DEF Waiter
<1>18. ASSUME PresenceInv PROVE PresenceInv'
  <2>1. PICK was : was = phase
    OBVIOUS
  <2>2. Informed(h, was) /\ h \in Object /\ Eligible(h.m) \subseteq Socket
    BY <1>2, <1>18, <2>1, RoomTypes, EligibleTabs DEF PresenceInv, Object, Memory
  <2>3. Shutting(q)
    <3>1. s \notin q.m.cleanup /\ q.m.cleanup = h.m.cleanup /\ h.m.cleanup \subseteq Socket
      BY <1>4, <1>6, <1>10, <2>2 DEF Object, Memory
    <3>2. \A x \in q.m.cleanup : q.k[x] = h.k[x]
      BY <1>4, <1>6, <1>10, <3>1
    <3>. QED BY <2>2, <3>1, <3>2 DEF Informed, Shutting
  <2>4. q.m.due = Never => Body(q) = q.m.published
    <3>1. Body(b) = Body(a)
      <4>1. b.m.users = a.m.users /\ b.m.tabs = a.m.tabs
        BY <1>6
      <4>. QED BY <1>4, <1>7, <4>1, SameBody
    <3>2. Joins(b, s, q)
      BY <1>9, Zenon DEF Joins
    <3>3. q.m.due = Never => b.m.due = Never /\ Body(q) = Body(b)
      BY <1>10, <3>2 DEF Heeded
    <3>. QED BY <1>4, <1>6, <1>10, <2>2, <3>1, <3>3 DEF Informed
  <2>5. ph[s] = "setup" /\ \A x \in Socket : x # s => ph[x] = was[x]
    BY <1>11, <1>14, <2>1 DEF IInv, Typed
  <2>6. ASSUME q.m.published # None, NEW x \in Eligible(q.m), ph[x] \in {"setup2", "live"}
        PROVE  q.k[x].seen = q.m.published
    <3>1. x # s /\ x \in Eligible(h.m) /\ x \in Socket
      BY <1>4, <1>6, <1>10, <2>2, <2>5, <2>6
    <3>2. h.k[x].seen = h.m.published
      BY <1>4, <1>6, <1>10, <2>2, <2>5, <2>6, <3>1 DEF Informed
    <3>. QED BY <1>4, <1>6, <1>10, <3>1, <3>2
  <2>7. Informed(q, ph)
    BY <2>3, <2>4, <2>6 DEF Informed
  <2>8. q \in Object
    BY <1>10 DEF Core
  <2>9. Informed(Here', phase')
    BY <1>11, <1>14, <2>7, <2>8, BecomesInformed
  <2>10. Written(updates', step', saved', room')
    BY <1>11, <1>17, QueueWrites
  <2>. QED BY <2>9, <2>10 DEF PresenceInv
<1>. QED BY <1>11, <1>16, <1>17, <1>18, QuietKeeps

LEMMA AcceptFailsKeeps ==
  ASSUME IInv, NEW s \in Socket, AcceptFails(s)
  PROVE  IInv' /\ (PresenceInv => PresenceInv')
<1>1. RoomInv(Here, phase) /\ s \in Here.m.reserved /\ phase[s] = "charging"
  BY DEF IInv, AcceptFails, Admittable, Reserving, Here
<1>2. PICK h : h = Here
  OBVIOUS
<1>3. PICK a : a = Entered(h, s)
  OBVIOUS
<1>4. /\ Core(a) /\ Capped(a) /\ Phased(a, phase) /\ Kept(a)
      /\ a.m.records = h.m.records \cup {s} /\ a.m.cleanup = h.m.cleanup
      /\ Eligible(a.m) = Eligible(h.m) /\ a.k = h.k
      /\ a.m.due = h.m.due /\ a.m.published = h.m.published /\ Body(a) = Body(h)
  <2>1. RoomInv(h, phase) /\ s \in h.m.reserved
    BY <1>1, <1>2
  <2>. QED BY <1>3, <2>1, EnteredRoom
<1>5. PICK q : q = Invalidate(a, s)
  OBVIOUS
<1>6. /\ Core(q) /\ Narrowed(a, q)
      /\ s \in q.m.records => s \in q.m.cleanup
      /\ (Eligible(a.m) \cup a.m.cleanup) \cap q.m.records \subseteq Eligible(q.m) \cup q.m.cleanup
  BY <1>4, <1>5, InvalidateKeeps
<1>7. Fewer(a, q)
  <2>1. Closable(a, s)
    BY <1>4 DEF Closable
  <2>. QED BY <1>4, <1>5, <2>1, InvalidateFewer
<1>8. Halved(q)
  <2>1. Eligible(q.m) \cup q.m.cleanup \subseteq q.m.records
    BY <1>6, EligibleTabs DEF Core, Sweepable
  <2>2. q.m.records \subseteq h.m.records \cup {s}
    BY <1>4, <1>6 DEF Narrowed
  <2>3. h.m.records = Eligible(h.m) \cup h.m.cleanup
    BY <1>1, <1>2 DEF RoomInv, Orderly, Halved
  <2>. QED BY <1>4, <1>6, <2>1, <2>2, <2>3 DEF Halved
<1>9. Kept(q)
  <2>1. ASSUME NEW x \in Socket, q.k[x].ready \in {"open", "closing"} PROVE x \in q.m.records
    <3>1. CASE q.k[x].ready = a.k[x].ready
      <4>1. x \in a.m.records
        BY <1>4, <2>1, <3>1 DEF Kept
      <4>. QED BY <1>6, <2>1, <4>1 DEF Narrowed
    <3>. QED BY <1>6, <3>1 DEF Narrowed
  <2>. QED BY <2>1 DEF Kept
<1>10. RoomInv(q, phase)
  BY <1>4, <1>6, <1>7, <1>8, <1>9, FewerCapped, FewerPhased DEF RoomInv, Orderly
<1>11. /\ Becomes(q) /\ Queue(s) /\ phase' = [phase EXCEPT ![s] = "failing"] /\ Fault
       /\ UNCHANGED <<saved, alarm, step>>
  <2>1. a = Recorded(s)
    BY <1>2, <1>3, Zenon DEF Recorded, Entered
  <2>2. Becomes(Invalidate(Recorded(s), s))
    BY Zenon DEF AcceptFails
  <2>3. Becomes(q)
    BY <1>5, <2>1, <2>2, Zenon
  <2>. QED BY <2>3 DEF AcceptFails
<1>12. PICK p \in {"setup", "failing"} : p = "failing"
  OBVIOUS
<1>13. PICK ph : ph = phase'
  OBVIOUS
<1>14. RoomInv(q, ph)
  <2>1. p \in Phases \ {"none"} /\ phase \in [Socket -> Phases] /\ p \notin {"setup", "setup2"}
    BY <1>12 DEF Phases, IInv, Typed
  <2>2. ph = [phase EXCEPT ![s] = p]
    BY <1>11, <1>12, <1>13
  <2>. QED BY <1>10, <2>1, <2>2, MovedRoom
<1>15. Landed
  BY <1>1, <1>11, <1>12, <1>13, <1>14, JoinLands
<1>16. s \in Waiter
  BY DEF Waiter
<1>17. ASSUME PresenceInv PROVE PresenceInv'
  <2>1. PICK was : was = phase
    OBVIOUS
  <2>2. Informed(h, was)
    BY <1>2, <1>17, <2>1 DEF PresenceInv
  <2>3. Informed(a, was)
    BY <1>4, <2>2 DEF Informed, Shutting
  <2>4. Informed(q, was) /\ q \in Object /\ Eligible(q.m) \subseteq Socket
    BY <1>4, <1>6, <1>7, <2>3, ToldStays DEF Narrowed
  <2>5. ph[s] = "failing" /\ \A x \in Socket : x # s => ph[x] = was[x]
    BY <1>11, <1>13, <2>1 DEF IInv, Typed
  <2>6. Informed(q, ph)
    BY <2>4, <2>5, InformedMoved
  <2>7. Informed(Here', phase')
    BY <1>11, <1>13, <2>4, <2>6, BecomesInformed
  <2>8. Written(updates', step', saved', room')
    BY <1>11, <1>16, QueueWrites
  <2>. QED BY <2>7, <2>8 DEF PresenceInv
<1>. QED BY <1>11, <1>15, <1>16, <1>17, QuietKeeps

LEMMA ReadAlarmKeeps ==
  ASSUME IInv, ReadAlarm
  PROVE  IInv'
<1>1. PICK q : q = Here
  OBVIOUS
<1>2. /\ updates # <<>> /\ step' = [at |-> "read", installed |-> alarm]
      /\ UNCHANGED <<sock, room, saved, alarm, updates, phase, faults>>
  BY DEF ReadAlarm
<1>3. Becomes(q) /\ RoomInv(q, phase)
  BY <1>1, <1>2 DEF Becomes, Here, IInv
<1>4. Landed
  BY <1>2, <1>3, StayLands
<1>5. /\ saved' \in [due : Timer, published : Seq(Presence) \cup {None}]
      /\ alarm' \in Timer /\ step' \in [at : {"start", "read", "put"}, installed : Timer]
      /\ faults' \in 0 .. MaxFaults
  BY <1>2 DEF IInv, Typed
<1>6. Running(updates', step')
  BY <1>2 DEF Running
<1>. QED BY <1>4, <1>5, <1>6, LandedKeeps

\* What is stored and what is set of a room have their types.
LEMMA ScheduleTypes ==
  ASSUME NEW r, Core(r)
  PROVE  /\ Schedule(r) \in [due : Timer, published : Seq(Presence) \cup {None}]
         /\ Earliest(r) \in Timer
         /\ Earliest(r) <= r.m.nextExpiry /\ Earliest(r) <= r.m.due /\ Earliest(r) <= r.m.cleanupDue
<1>1. /\ r.m.nextExpiry \in Timer /\ r.m.due \in Timer /\ r.m.cleanupDue \in Timer
      /\ r.m.published \in Seq(Presence) \cup {None}
  BY DEF Core, Object, Memory
<1>2. PICK T : T = {r.m.nextExpiry, r.m.due, r.m.cleanupDue}
  OBVIOUS
<1>3. T \in SUBSET Nat /\ T # {} /\ T \subseteq Timer
  BY <1>1, <1>2, TimerTypes
<1>4. Least(T) \in T /\ \A x \in T : Least(T) <= x
  BY <1>3, LeastIs
<1>5. Earliest(r) = Least(T)
  BY <1>2 DEF Earliest
<1>. QED BY <1>1, <1>2, <1>3, <1>4, <1>5 DEF Schedule

LEMMA ExpiredRoom ==
  ASSUME IInv, NEW q, q = Expire(Here)
  PROVE  RoomInv(q, phase) /\ Core(q)
<1>1. PICK h : h = Here
  OBVIOUS
<1>2. RoomInv(h, phase) /\ Core(h)
  BY <1>1, RoomTypes DEF IInv
<1>3. q = Expire(h)
  BY <1>1
<1>4. Core(q) /\ Fewer(h, q)
  BY <1>2, <1>3, ExpireKeeps
<1>. QED BY <1>2, <1>4, FewerRoom

LEMMA PutScheduleKeeps ==
  ASSUME IInv, PutSchedule
  PROVE  IInv'
<1>1. PICK q : q = Expire(Here)
  OBVIOUS
<1>2. /\ Becomes(q) /\ saved' = Schedule(q) /\ step.at = "read" /\ step' = [step EXCEPT !.at = "put"]
      /\ UNCHANGED <<alarm, updates, phase, faults>>
  BY <1>1 DEF PutSchedule
<1>3. RoomInv(q, phase) /\ Core(q)
  BY <1>1, ExpiredRoom
<1>4. Landed
  BY <1>2, <1>3, StayLands
<1>5. saved' \in [due : Timer, published : Seq(Presence) \cup {None}]
  BY <1>2, <1>3, ScheduleTypes
<1>6. /\ alarm' \in Timer /\ step' \in [at : {"start", "read", "put"}, installed : Timer]
      /\ faults' \in 0 .. MaxFaults
  BY <1>2 DEF IInv, Typed
<1>7. Running(updates', step')
  BY <1>2 DEF Running, IInv
<1>. QED BY <1>4, <1>5, <1>6, <1>7, LandedKeeps

LEMMA UpdateKeeps ==
  ASSUME IInv, NEW lost, Update(lost)
  PROVE  IInv'
<1>1. PICK r : r = IF step.at = "put" THEN Here ELSE Expire(Here)
  OBVIOUS
<1>2. /\ SetAlarm(r) /\ Return(r, lost) /\ Lost(lost) /\ step' = AtStart /\ UNCHANGED saved
      /\ step.at \in {"put", "read"}
  BY <1>1 DEF Update
<1>3. RoomInv(r, phase) /\ Core(r)
  <2>1. CASE r = Here
    BY <2>1, RoomTypes DEF IInv
  <2>2. CASE r = Expire(Here)
    BY <2>2, ExpiredRoom
  <2>. QED BY <1>1, <2>1, <2>2
<1>4. updates # <<>>
  BY <1>2 DEF IInv, Running
<1>5. Landed
  BY <1>2, <1>3, <1>4, ReturnLands
<1>6. alarm' \in Timer
  <2>1. alarm' = Earliest(r) \/ alarm' = alarm
    BY <1>2 DEF SetAlarm
  <2>. QED BY <1>3, <2>1, ScheduleTypes DEF IInv, Typed
<1>7. /\ saved' \in [due : Timer, published : Seq(Presence) \cup {None}]
      /\ step' \in [at : {"start", "read", "put"}, installed : Timer] /\ Running(updates', step')
  BY <1>2, AtStartTypes DEF IInv, Typed
<1>8. faults' \in 0 .. MaxFaults
  BY <1>2, FaultTypes DEF Lost
<1>. QED BY <1>5, <1>6, <1>7, <1>8, LandedKeeps

LEMMA UpdateFailsKeeps ==
  ASSUME IInv, UpdateFails
  PROVE  IInv'
<1>1. PICK r : r = IF step.at = "read" THEN Expire(Here) ELSE Here
  OBVIOUS
<1>2. PICK s : s = Head(updates)
  OBVIOUS
<1>3. /\ updates # <<>> /\ Fault /\ step' = AtStart /\ UNCHANGED saved
      /\ \/ s \in Socket /\ phase[s] # "failing" /\ Fail(s, r) /\ UNCHANGED alarm
         \/ s \in Socket /\ phase[s] = "failing" /\ Finish(s, Release(r, s), "refused")
              /\ UNCHANGED alarm
         \/ s \notin Socket /\ Becomes(r) /\ updates' = Tail(updates)
              /\ alarm' = (IF s = Alarm THEN 0 ELSE alarm) /\ UNCHANGED phase
  BY <1>1, <1>2 DEF UpdateFails
<1>4. RoomInv(r, phase)
  <2>1. CASE r = Here
    BY <2>1 DEF IInv
  <2>2. CASE r = Expire(Here)
    BY <2>2, ExpiredRoom
  <2>. QED BY <1>1, <2>1, <2>2
<1>5. Landed
  <2>1. CASE s \in Socket /\ phase[s] # "failing" /\ Fail(s, r)
    <3>1. phase[s] \in {"setup", "setup2", "failing"}
      <4>1. updates \in Seq(Waiter) /\ Waiting(updates, phase)
        BY DEF IInv, Typed
      <4>. QED BY <1>2, <1>3, <2>1, <4>1, ShorterQueue
    <3>. QED BY <1>2, <1>3, <1>4, <2>1, <3>1, FailLands
  <2>2. CASE s \in Socket /\ Finish(s, Release(r, s), "refused")
    <3>1. PICK p \in {"live", "refused"} : p = "refused"
      OBVIOUS
    <3>2. PICK freed : freed = Release(r, s)
      OBVIOUS
    <3>3. RoomInv(freed, phase)
      BY <1>4, <3>2, ReleaseRoom
    <3>4. Finish(s, freed, p)
      BY <2>2, <3>1, <3>2
    <3>. QED BY <1>2, <1>3, <2>2, <3>3, <3>4, FinishLands
  <2>3. CASE Becomes(r) /\ updates' = Tail(updates) /\ UNCHANGED phase
    BY <1>3, <1>4, <2>3, OverLands
  <2>. QED BY <1>3, <2>1, <2>2, <2>3
<1>6. alarm' \in Timer
  <2>1. alarm' = 0 \/ alarm' = alarm
    BY <1>3
  <2>. QED BY <2>1, TimerTypes DEF IInv, Typed
<1>7. /\ saved' \in [due : Timer, published : Seq(Presence) \cup {None}]
      /\ step' \in [at : {"start", "read", "put"}, installed : Timer] /\ Running(updates', step')
  BY <1>3, AtStartTypes DEF IInv, Typed
<1>8. faults' \in 0 .. MaxFaults
  BY <1>3, FaultTypes
<1>. QED BY <1>5, <1>6, <1>7, <1>8, LandedKeeps

\* A turn that may close connections, with an update queued after it.
LEMMA TurnKeeps ==
  ASSUME IInv, NEW q, Core(q), Fewer(Here, q), Becomes(q), NEW w \in {Nobody, Alarm}, Queue(w),
         UNCHANGED <<saved, step, phase>>, alarm' \in Timer, Fault \/ UNCHANGED faults
  PROVE  IInv'
<1>1. PICK h : h = Here
  OBVIOUS
<1>2. RoomInv(q, phase)
  <2>1. RoomInv(h, phase) /\ Fewer(h, q)
    BY <1>1 DEF IInv
  <2>. QED BY <2>1, FewerRoom
<1>3. UNCHANGED phase /\ UNCHANGED saved /\ UNCHANGED step
  OBVIOUS
<1>4. Landed
  BY <1>2, <1>3, QueueLands
<1>5. /\ saved' \in [due : Timer, published : Seq(Presence) \cup {None}]
      /\ step' \in [at : {"start", "read", "put"}, installed : Timer]
  BY <1>3 DEF IInv, Typed
<1>6. faults' \in 0 .. MaxFaults
  BY FaultTypes
<1>7. Running(updates', step')
  BY QueueRuns DEF IInv, Typed, Queue, Waiter
<1>. QED BY <1>4, <1>5, <1>6, <1>7, LandedKeeps

LEMMA NotifyKeeps ==
  ASSUME IInv, NEW lost, Notify(lost)
  PROVE  IInv'
<1>1. PICK h : h = Here
  OBVIOUS
<1>2. PICK none \in Seq(Presence) \cup {None} : none = None
  OBVIOUS
<1>3. PICK q : q = SendTo(h, h.m.records, lost, none)
  OBVIOUS
<1>4. Core(h) /\ h.m.records \subseteq Socket /\ h.m = room
  BY <1>1, RoomTypes DEF Object, Memory
<1>5. Core(q) /\ Fewer(h, q)
  BY <1>3, <1>4, SendToKeeps
<1>6. /\ Becomes(q) /\ Queue(Nobody) /\ Lost(lost) /\ UNCHANGED <<saved, alarm, step, phase>>
  BY <1>1, <1>2, <1>3, <1>4 DEF Notify
<1>7. /\ UNCHANGED <<saved, step, phase>> /\ UNCHANGED alarm /\ (Fault \/ UNCHANGED faults)
  BY <1>6 DEF Lost
<1>8. PICK w \in {Nobody, Alarm} : w = Nobody
  OBVIOUS
<1>9. alarm' \in Timer
  BY <1>7 DEF IInv, Typed
<1>10. Fewer(Here, q) /\ Queue(w)
  BY <1>1, <1>5, <1>6, <1>8
<1>. QED BY <1>5, <1>6, <1>7, <1>9, <1>10, TurnKeeps

LEMMA PeerClosesKeeps ==
  ASSUME IInv, NEW s \in Socket, PeerCloses(s)
  PROVE  IInv' /\ (PresenceInv => PresenceInv')
<1>1. PICK h : h = Here
  OBVIOUS
<1>2. /\ h \in Object /\ Core(h) /\ Orderly(h) /\ Capped(h) /\ Phased(h, phase)
      /\ h.m = room /\ h.k = sock
  BY <1>1, RoomTypes
<1>3. PICK c \in Readiness : c = "closed"
  BY DEF Readiness
<1>4. PICK q : q = ReadyIs(h, s, c)
  OBVIOUS
<1>5. /\ q \in Object /\ q.m = h.m /\ q.k[s].ready = c
      /\ q.k[s].presence = h.k[s].presence /\ q.k[s].deadline = h.k[s].deadline
      /\ q.k[s].seen = h.k[s].seen
      /\ \A x \in Socket : x # s => q.k[x] = h.k[x]
  BY <1>2, <1>4, ReadyFrame
<1>6. \A x \in Socket : q.k[x].presence = h.k[x].presence /\ q.k[x].deadline = h.k[x].deadline
  BY <1>5
<1>7. \A x \in Socket : q.k[x].ready = h.k[x].ready \/ (x = s /\ q.k[x].ready = "closed")
  BY <1>3, <1>5
<1>8. Core(q)
  <2>1. h.m.records \cup h.m.reserved \subseteq Socket /\ Eligible(h.m) \subseteq Socket
    BY <1>2, EligibleTabs DEF Core, Object, Memory
  <2>2. \A x \in h.m.records \cup h.m.reserved : q.k[x].presence = h.k[x].presence
    BY <1>6, <2>1
  <2>3. \A x \in Eligible(h.m) : h.m.nextExpiry <= q.k[x].deadline
    BY <1>2, <1>6, <2>1 DEF Core, Reckoned
  <2>. QED BY <1>2, <1>5, <2>2, <2>3, SameMemory
<1>9. RoomInv(q, phase)
  <2>1. Halved(q) /\ Kept(q)
    BY <1>2, <1>5, <1>7 DEF Orderly, Halved, Kept
  <2>2. Capped(q)
    <3>1. Places(q) \subseteq Places(h)
      BY <1>5 DEF Places
    <3>. QED BY <1>2, <1>5, <1>6, <3>1, FewerPlaces
  <2>3. Phased(q, phase)
    <3>1. h.k[s].ready \in {"open", "closing"}
      BY <1>2 DEF PeerCloses
    <3>2. Places(q) = Places(h)
      BY <1>5 DEF Places
    <3>. QED BY <1>2, <1>7, <3>1, <3>2 DEF Phased
  <2>. QED BY <1>8, <2>1, <2>2, <2>3 DEF RoomInv, Orderly
<1>10. Becomes(q) /\ UNCHANGED <<updates, phase>> /\ UNCHANGED <<saved, alarm, step>>
       /\ UNCHANGED faults
  <2>1. q.k = [sock EXCEPT ![s].ready = "closed"]
    BY <1>2, <1>3, <1>4 DEF ReadyIs, Object
  <2>. QED BY <1>2, <1>5, <2>1 DEF PeerCloses, Becomes
<1>11. Landed
  BY <1>9, <1>10, StayLands
<1>12. ASSUME PresenceInv PROVE PresenceInv'
  <2>1. PICK ph : ph = phase
    OBVIOUS
  <2>2. Informed(h, ph)
    BY <1>1, <1>12, <2>1 DEF PresenceInv
  <2>3. Informed(q, ph)
    <3>1. h.m.cleanup \subseteq Socket /\ h.m.records \subseteq Socket
      BY <1>2 DEF Object, Memory
    <3>2. \A x \in h.m.records : q.k[x].presence = h.k[x].presence /\ q.k[x].seen = h.k[x].seen
      BY <1>5, <3>1
    <3>3. \A x \in h.m.cleanup : q.k[x].ready = "open" => h.k[x].ready = "open"
      BY <1>7, <3>1
    <3>. QED BY <1>2, <1>5, <2>2, <3>2, <3>3, SameInformed
  <2>4. ph = phase' /\ saved' = saved /\ updates' = updates /\ step' = step
    BY <1>10, <2>1
  <2>5. Informed(Here', phase') /\ room' = q.m
    BY <1>5, <1>10, <2>3, <2>4, BecomesInformed
  <2>6. Written(updates', step', saved', room')
    BY <1>2, <1>5, <1>12, <2>4, <2>5, StayWrites
  <2>. QED BY <2>5, <2>6 DEF PresenceInv
<1>. QED BY <1>10, <1>11, <1>12, QuietKeeps

LEMMA WebSocketCloseKeeps ==
  ASSUME IInv, NEW s \in Socket, WebSocketClose(s)
  PROVE  IInv'
<1>1. PICK h : h = Here
  OBVIOUS
<1>2. PICK q : q = Invalidate(h, s)
  OBVIOUS
<1>3. Core(h) /\ h.k[s].ready = "closed" /\ s \in h.m.records
  BY <1>1, RoomTypes DEF WebSocketClose
<1>4. Core(q) /\ Fewer(h, q) /\ s \notin q.m.records
  <2>1. Closable(h, s)
    BY <1>3 DEF Closable
  <2>. QED BY <1>2, <1>3, <2>1, InvalidateFewer, InvalidateKeeps
<1>5. Forget(Invalidate(Here, s), s) = q
  BY <1>1, <1>2, <1>4 DEF Forget
<1>6. Becomes(q) /\ Queue(Nobody) /\ UNCHANGED <<saved, alarm, step, phase, faults>>
  BY <1>5 DEF WebSocketClose
<1>7. PICK w \in {Nobody, Alarm} : w = Nobody
  OBVIOUS
<1>8. /\ UNCHANGED <<saved, step, phase>> /\ UNCHANGED faults /\ alarm' \in Timer
  BY <1>6 DEF IInv, Typed
<1>9. Fewer(Here, q) /\ Queue(w)
  BY <1>1, <1>4, <1>6, <1>7
<1>. QED BY <1>4, <1>6, <1>8, <1>9, TurnKeeps

LEMMA WebSocketErrorKeeps ==
  ASSUME IInv, NEW s \in Socket, WebSocketError(s)
  PROVE  IInv'
<1>1. PICK h : h = Here
  OBVIOUS
<1>2. PICK q : q = IF s \in h.m.records THEN Invalidate(h, s) ELSE h
  OBVIOUS
<1>3. Core(h) /\ h.m = room
  BY <1>1, RoomTypes
<1>4. Core(q) /\ Fewer(h, q)
  <2>1. CASE q = h
    BY <1>3, <2>1, FewerSelf
  <2>2. CASE q = Invalidate(h, s) /\ s \in h.m.records
    <3>1. Closable(h, s)
      BY <2>2 DEF Closable
    <3>. QED BY <1>3, <2>2, <3>1, InvalidateFewer
  <2>. QED BY <1>2, <2>1, <2>2
<1>5. Becomes(q) /\ Queue(Nobody) /\ UNCHANGED <<saved, alarm, step, phase, faults>>
  BY <1>1, <1>2, <1>3 DEF WebSocketError
<1>6. PICK w \in {Nobody, Alarm} : w = Nobody
  OBVIOUS
<1>7. /\ UNCHANGED <<saved, step, phase>> /\ UNCHANGED faults /\ alarm' \in Timer
  BY <1>5 DEF IInv, Typed
<1>8. Fewer(Here, q) /\ Queue(w)
  BY <1>1, <1>4, <1>5, <1>6
<1>. QED BY <1>4, <1>5, <1>7, <1>8, TurnKeeps

LEMMA FireKeeps ==
  ASSUME IInv, NEW lost, Fire(lost)
  PROVE  IInv'
<1>1. PICK h : h = Here
  OBVIOUS
<1>2. Core(h)
  BY <1>1, RoomTypes
<1>3. PICK a : a = Expire(h)
  OBVIOUS
<1>4. PICK b : b = Sweep(a)
  OBVIOUS
<1>5. PICK q : q = Publish(b, lost)
  OBVIOUS
<1>6. Core(a) /\ Fewer(h, a)
  BY <1>2, <1>3, ExpireKeeps
<1>7. Core(b) /\ Fewer(a, b)
  BY <1>4, <1>6, SweepKeeps
<1>8. Core(q) /\ Fewer(b, q)
  BY <1>5, <1>7, PublishKeeps
<1>9. Fewer(h, q)
  BY <1>2, <1>6, <1>7, <1>8, FewerTwice
<1>10. /\ Becomes(q) /\ Queue(Alarm) /\ Lost(lost) /\ alarm' = Never
       /\ UNCHANGED <<saved, step, phase>>
  <2>1. Publish(Sweep(Expire(Here)), lost) = q
    BY <1>1, <1>3, <1>4, <1>5
  <2>. QED BY <2>1 DEF Fire
<1>11. PICK w \in {Nobody, Alarm} : w = Alarm
  OBVIOUS
<1>12. (Fault \/ UNCHANGED faults) /\ alarm' \in Timer
  BY <1>10, TimerTypes DEF Lost
<1>13. Fewer(Here, q) /\ Queue(w)
  BY <1>1, <1>9, <1>10, <1>11
<1>. QED BY <1>8, <1>10, <1>12, <1>13, TurnKeeps

-----------------------------------------------------------------------------
(* Construction, and the passing of time                                   *)

\* What a new object knows of what its sockets k were shown.
ShownAs(k, q) ==
  /\ Shutting(q) /\ q.m.published = saved.published
  /\ \A x \in Socket : q.k[x].seen = k[x].seen
  /\ \A x \in Eligible(q.m) : k[x].ready = "open"
  /\ q.m.due = Never => Body(q) = q.m.published

\* Construction leaves a room in order that holds what the runtime kept.
LEMMA ConstructLeaves ==
  ASSUME IInv, NEW k \in [Socket -> Attachment], Construct(k),
         \A x \in Socket : k[x].presence = sock[x].presence, Retained(k) \subseteq Retained(sock)
  PROVE  \E q : /\ Becomes(q) /\ Orderly(q) /\ Capped(q) /\ q.m.reserved = {}
                /\ saved' = Schedule(q) /\ alarm' = Earliest(q)
                /\ q.m.records \subseteq Retained(k)
                /\ \A x \in Socket : \/ q.k[x].ready = k[x].ready
                                     \/ q.k[x].ready = "closing" /\ x \in q.m.records
                /\ ShownAs(k, q)
<1>1. PICK h : h = Here
  OBVIOUS
<1>2. Core(h) /\ Orderly(h) /\ Capped(h) /\ h.m = room /\ h.k = sock
  BY <1>1, RoomTypes
<1>3. PICK order \in SetToSeqs(Retained(k)) :
        /\ Becomes(Rebuild(k, order)) /\ saved' = Schedule(Rebuild(k, order))
        /\ alarm' = Earliest(Rebuild(k, order))
  BY DEF Construct
<1>4. PICK q : q = Rebuild(k, order)
  OBVIOUS
<1>5. Retained(sock) \subseteq h.m.records
  BY <1>2 DEF Orderly, Kept, Retained
<1>6. \A x \in Retained(k) : k[x].presence \in Presence
  <2>1. \A x \in h.m.records : h.k[x].presence \in Presence /\ x \in Socket
    BY <1>2 DEF Core, Shown, Object, Memory
  <2>. QED BY <1>2, <1>5, <2>1
<1>7. saved.due \in Timer /\ saved.published \in Seq(Presence) \cup {None}
  BY DEF IInv, Typed
<1>8. /\ Orderly(q) /\ q.m.reserved = {} /\ q.m.records \subseteq Retained(k)
      /\ \A x \in Socket : q.k[x].presence = k[x].presence
      /\ \A x \in Socket : \/ q.k[x].ready = k[x].ready
                           \/ q.k[x].ready = "closing" /\ x \in q.m.records
      /\ ShownAs(k, q)
  <2>1. /\ Orderly(q) /\ q.m.reserved = {} /\ q.m.records \subseteq Retained(k)
        /\ \A x \in Socket : q.k[x].presence = k[x].presence
        /\ \A x \in Socket : \/ q.k[x].ready = k[x].ready
                             \/ q.k[x].ready = "closing" /\ x \in q.m.records
    BY <1>4, <1>6, <1>7, RebuildKeeps
  <2>2. /\ Shutting(q) /\ q.m.published = saved.published
        /\ \A x \in Socket : q.k[x].seen = k[x].seen
        /\ \A x \in Eligible(q.m) : k[x].ready = "open"
        /\ q.m.due = Never => Body(q) = q.m.published
    BY <1>4, <1>6, <1>7, RebuildKeeps
  <2>. QED BY <2>1, <2>2 DEF ShownAs
<1>9. Capped(q)
  <2>1. Places(q) \subseteq Places(h)
    BY <1>5, <1>8 DEF Places
  <2>2. q \in Object /\ h \in Object /\ \A x \in Socket : q.k[x].presence = h.k[x].presence
    BY <1>2, <1>8 DEF Orderly, Core
  <2>. QED BY <1>2, <2>1, <2>2, FewerPlaces
<1>. QED BY <1>3, <1>4, <1>8, <1>9

LEMMA HibernateKeeps ==
  ASSUME IInv, Hibernate
  PROVE  IInv' /\ (PresenceInv => PresenceInv')
<1>1. PICK k : k = sock
  OBVIOUS
<1>2. /\ Core(Here) /\ Phased(Here, phase) /\ Here.k = sock /\ Here.m = room
      /\ k \in [Socket -> Attachment] /\ Orderly(Here)
  BY <1>1, RoomTypes DEF Object
<1>3. Construct(k) /\ UNCHANGED <<updates, step, phase, faults>>
  BY <1>1 DEF Hibernate
<1>4. PICK q : /\ Becomes(q) /\ Orderly(q) /\ Capped(q) /\ q.m.reserved = {}
               /\ saved' = Schedule(q) /\ alarm' = Earliest(q)
               /\ q.m.records \subseteq Retained(k)
               /\ \A x \in Socket : \/ q.k[x].ready = k[x].ready
                                    \/ q.k[x].ready = "closing" /\ x \in q.m.records
               /\ ShownAs(k, q)
  BY <1>1, <1>2, <1>3, ConstructLeaves
<1>5. Phased(q, phase)
  <2>1. Places(q) \subseteq Places(Here)
    <3>1. Retained(k) \subseteq Here.m.records
      BY <1>1, <1>2 DEF Orderly, Kept, Retained
    <3>. QED BY <1>4, <3>1 DEF Places
  <2>2. \A x \in Socket : \/ q.k[x].ready = Here.k[x].ready
                          \/ q.k[x].ready = "closing" /\ x \in Places(q)
    BY <1>1, <1>2, <1>4 DEF Places
  <2>. QED BY <1>2, <2>1, <2>2 DEF Phased
<1>6. RoomInv(q, phase) /\ Core(q)
  BY <1>4, <1>5 DEF RoomInv, Orderly
<1>7. Landed
  BY <1>3, <1>4, <1>6, StayLands
<1>8. /\ saved' \in [due : Timer, published : Seq(Presence) \cup {None}] /\ alarm' \in Timer
  BY <1>4, <1>6, ScheduleTypes
<1>9. /\ step' \in [at : {"start", "read", "put"}, installed : Timer]
      /\ faults' \in 0 .. MaxFaults /\ Running(updates', step')
  <2>1. updates' = updates /\ step' = step /\ faults' = faults
    BY <1>3
  <2>. QED BY <2>1 DEF IInv, Typed
<1>10. ASSUME PresenceInv PROVE PresenceInv'
  <2>1. PICK ph : ph = phase'
    OBVIOUS
  <2>2. ph = phase /\ updates = <<>>
    BY <1>3, <2>1 DEF Hibernate
  <2>3. Informed(Here, ph) /\ saved.published = room.published
    BY <1>10, <2>2 DEF PresenceInv, Written
  <2>4. ASSUME NEW x \in Eligible(q.m) PROVE x \in Eligible(Here.m) /\ x \in Socket
    <3>1. x \in Socket /\ sock[x].ready = "open"
      BY <1>1, <1>4, <1>6, EligibleTabs DEF ShownAs, Core, Object, Memory
    <3>2. x \in Here.m.records
      BY <1>2, <3>1 DEF Orderly, Kept
    <3>3. x \notin Here.m.cleanup
      BY <1>2, <2>3, <3>1 DEF Informed, Shutting
    <3>. QED BY <1>2, <3>1, <3>2, <3>3 DEF Orderly, Halved
  <2>5. ASSUME q.m.published # None, NEW x \in Eligible(q.m), ph[x] \in {"setup2", "live"}
        PROVE  q.k[x].seen = q.m.published
    <3>1. q.m.published = Here.m.published /\ q.k[x].seen = Here.k[x].seen
      BY <1>1, <1>2, <1>4, <2>3, <2>4 DEF ShownAs
    <3>. QED BY <2>3, <2>4, <2>5, <3>1 DEF Informed
  <2>6. Informed(q, ph)
    BY <1>4, <2>5 DEF Informed, ShownAs
  <2>7. Informed(Here', phase') /\ room' = q.m
    BY <1>4, <1>6, <2>1, <2>6, BecomesInformed DEF Core
  <2>8. Written(updates', step', saved', room')
    BY <1>4, <2>7 DEF Written, Schedule
  <2>. QED BY <2>7, <2>8 DEF PresenceInv
<1>. QED BY <1>7, <1>8, <1>9, <1>10, LandedKeeps

Severed(k) ==
  [s \in Socket |-> IF s \in Retained(k) THEN [k[s] EXCEPT !.ready = "closed"] ELSE k[s]]

LEMMA RestartKeeps ==
  ASSUME IInv, Restart
  PROVE  IInv' /\ (PresenceInv => PresenceInv')
<1>1. PICK k : k = Severed(sock)
  OBVIOUS
<1>2. /\ Core(Here) /\ Phased(Here, phase) /\ Here.k = sock /\ Here.m = room
      /\ sock \in [Socket -> Attachment] /\ Orderly(Here)
  BY RoomTypes DEF Object
<1>3. \A x \in Socket : k[x] = IF x \in Retained(sock) THEN [sock[x] EXCEPT !.ready = "closed"] ELSE sock[x]
  BY <1>1 DEF Severed
<1>4. \A x \in Socket : /\ k[x] \in Attachment /\ k[x].presence = sock[x].presence
                        /\ k[x].ready \notin {"open", "closing"}
                        /\ k[x].ready = sock[x].ready \/ (k[x].ready = "closed" /\ x \in Retained(sock))
  <2>1. ASSUME NEW x \in Socket, x \in Retained(sock)
        PROVE  k[x] \in Attachment /\ k[x].presence = sock[x].presence /\ k[x].ready = "closed"
    BY <1>2, <1>3, <2>1 DEF Attachment
  <2>2. ASSUME NEW x \in Socket, x \notin Retained(sock)
        PROVE  k[x] = sock[x] /\ k[x].ready \notin {"open", "closing"}
    BY <1>3, <2>2 DEF Retained
  <2>. QED BY <1>2, <2>1, <2>2
<1>5. k \in [Socket -> Attachment]
  <2>1. k = [x \in Socket |-> k[x]]
    BY <1>1 DEF Severed
  <2>. QED BY <1>4, <2>1
<1>6. Retained(k) = {}
  BY <1>4 DEF Retained
<1>7. /\ Construct(k) /\ Fault /\ updates' = <<>> /\ step' = AtStart
      /\ phase' = [s \in Socket |-> IF phase[s] = "none" THEN "none"
                                    ELSE IF phase[s] = "live" THEN "live" ELSE "refused"]
  <2>1. Construct(Severed(sock))
    BY Zenon DEF Restart, Severed
  <2>. QED BY <1>1, <2>1 DEF Restart
<1>8. PICK q : /\ Becomes(q) /\ Orderly(q) /\ Capped(q) /\ q.m.reserved = {}
               /\ saved' = Schedule(q) /\ alarm' = Earliest(q)
               /\ q.m.records \subseteq Retained(k)
               /\ \A x \in Socket : \/ q.k[x].ready = k[x].ready
                                    \/ q.k[x].ready = "closing" /\ x \in q.m.records
               /\ ShownAs(k, q)
  BY <1>4, <1>5, <1>6, <1>7, ConstructLeaves
<1>9. PICK ph : ph = phase'
  OBVIOUS
<1>10. /\ ph \in [Socket -> Phases]
       /\ \A s \in Socket : /\ ph[s] = "none" <=> phase[s] = "none"
                            /\ ph[s] \notin {"setup", "setup2"}
  BY <1>7, <1>9 DEF Phases
<1>11. Phased(q, ph)
  <2>1. Places(q) = {}
    BY <1>6, <1>8 DEF Places
  <2>2. \A x \in Socket : q.k[x].ready = k[x].ready
    BY <1>6, <1>8
  <2>3. ASSUME NEW x \in Socket, ph[x] = "none" PROVE q.k[x].ready = "none"
    <3>1. sock[x].ready = "none"
      BY <1>2, <1>10, <2>3 DEF Phased
    <3>. QED BY <1>4, <2>2, <3>1 DEF Retained
  <2>. QED BY <1>10, <2>1, <2>3 DEF Phased
<1>12. RoomInv(q, ph) /\ Core(q)
  BY <1>8, <1>11 DEF RoomInv, Orderly
<1>13. Landed
  <2>1. updates' \in Seq(Waiter) /\ Waiting(updates', ph)
    <3>1. <<>> \in Seq(Waiter) /\ Len(<<>>) = 0
      OBVIOUS
    <3>2. Waiting(<<>>, ph)
      BY <3>1 DEF Waiting
    <3>. QED BY <1>7, <3>1, <3>2
  <2>. QED BY <1>8, <1>9, <1>10, <1>12, <2>1 DEF Landed
<1>14. /\ saved' \in [due : Timer, published : Seq(Presence) \cup {None}] /\ alarm' \in Timer
  BY <1>8, <1>12, ScheduleTypes
<1>15. /\ step' \in [at : {"start", "read", "put"}, installed : Timer]
       /\ faults' \in 0 .. MaxFaults /\ Running(updates', step')
  BY <1>7, AtStartTypes, FaultTypes
<1>16. PresenceInv'
  <2>1. Eligible(q.m) = {}
    <3>1. Eligible(q.m) \subseteq q.m.records
      BY <1>12, EligibleTabs DEF Core
    <3>. QED BY <1>6, <1>8, <3>1
  <2>2. Informed(q, ph)
    BY <1>8, <2>1 DEF Informed, ShownAs
  <2>3. Informed(Here', phase') /\ room' = q.m
    BY <1>8, <1>9, <1>12, <2>2, BecomesInformed DEF Core
  <2>4. Written(updates', step', saved', room')
    BY <1>8, <2>3 DEF Written, Schedule
  <2>. QED BY <2>3, <2>4 DEF PresenceInv
<1>. QED BY <1>13, <1>14, <1>15, <1>16, LandedKeeps

\* Every timer counts down alike.
LEMMA DownIs ==
  ASSUME NEW t \in Timer
  PROVE  /\ Down(t) \in Timer /\ Down(t) <= t
         /\ t # Never => Down(t) # Never
         /\ \A u \in Timer : t <= u => Down(t) <= Down(u)
<1>1. LongestDeadline \in Nat /\ Never = LongestDeadline + 1 /\ Timer = 0 .. LongestDeadline + 1
  BY TimeAssumption DEF Never, Timer
<1>2. \A u \in Timer : u \in Nat /\ u <= Never
  BY <1>1
<1>3. \A u \in Timer : Down(u) = IF u = 0 \/ u = Never THEN u ELSE u - 1
  BY DEF Down
<1>4. ASSUME NEW u \in Timer, t <= u PROVE Down(t) <= Down(u)
  <2>1. Never \in Nat
    BY <1>1
  <2>. QED BY <1>2, <1>3, <1>4, <2>1
<1>. QED BY <1>1, <1>2, <1>3, <1>4

Later(m) == [m EXCEPT !.nextExpiry = Down(@), !.cleanupDue = Down(@), !.due = Down(@)]
Aged(k) == [s \in Socket |-> [k[s] EXCEPT !.deadline = Down(@)]]

LEMMA TickKeeps ==
  ASSUME IInv, Tick
  PROVE  IInv' /\ (PresenceInv => PresenceInv')
<1>1. PICK h : h = Here
  OBVIOUS
<1>2. /\ h \in Object /\ Core(h) /\ Orderly(h) /\ Capped(h) /\ Phased(h, phase)
      /\ h.m = room /\ h.k = sock
  BY <1>1, RoomTypes
<1>3. PICK a : a = [m |-> Later(h.m), k |-> h.k]
  OBVIOUS
<1>4. /\ h.m.nextExpiry \in Timer /\ h.m.cleanupDue \in Timer /\ h.m.due \in Timer
      /\ h.m \in Memory /\ h.k \in [Socket -> Attachment]
  BY <1>2 DEF Object, Memory
<1>5. /\ a \in Object /\ a.k = h.k
      /\ a.m.records = h.m.records /\ a.m.users = h.m.users /\ a.m.tabs = h.m.tabs
      /\ a.m.reserved = h.m.reserved /\ a.m.reservations = h.m.reservations
      /\ a.m.occupancy = h.m.occupancy /\ a.m.cleanup = h.m.cleanup
      /\ a.m.nextExpiry = Down(h.m.nextExpiry) /\ a.m.cleanupDue = Down(h.m.cleanupDue)
      /\ a.m.due = Down(h.m.due) /\ a.m.published = h.m.published
  <2>1. PICK e \in Timer : e = Down(h.m.nextExpiry)
    BY <1>4, DownIs
  <2>2. PICK c \in Timer : c = Down(h.m.cleanupDue)
    BY <1>4, DownIs
  <2>3. PICK d \in Timer : d = Down(h.m.due)
    BY <1>4, DownIs
  <2>4. a.m = [h.m EXCEPT !.nextExpiry = e, !.cleanupDue = c, !.due = d] /\ a.k = h.k
        /\ a = [m |-> a.m, k |-> a.k]
    BY <1>3, <2>1, <2>2, <2>3 DEF Later
  <2>5. a.m \in Memory
    BY <1>4, <2>4 DEF Memory
  <2>6. a \in Object
    BY <1>4, <2>4, <2>5 DEF Object
  <2>. QED BY <1>4, <2>1, <2>2, <2>3, <2>4, <2>6 DEF Memory
<1>6. /\ Core(a) /\ Eligible(a.m) = Eligible(h.m)
  <2>1. a.m.cleanup = {} \/ a.m.cleanupDue # Never
    BY <1>2, <1>4, <1>5, DownIs DEF Core, Sweepable
  <2>2. ASSUME NEW x \in Eligible(h.m) PROVE a.m.nextExpiry <= h.k[x].deadline
    <3>1. x \in Socket
      BY <1>2, EligibleTabs DEF Core, Object, Memory
    <3>2. h.k[x].deadline \in Timer
      BY <1>4, <3>1 DEF Attachment
    <3>3. a.m.nextExpiry <= h.m.nextExpiry /\ a.m.nextExpiry \in Timer
      BY <1>4, <1>5, DownIs
    <3>4. h.m.nextExpiry <= h.k[x].deadline
      BY <1>2 DEF Core, Reckoned
    <3>5. a.m.nextExpiry \in Nat /\ h.m.nextExpiry \in Nat /\ h.k[x].deadline \in Nat
      BY <1>4, <3>2, <3>3, TimerTypes
    <3>. QED BY <3>3, <3>4, <3>5
  <2>. QED BY <1>2, <1>5, <2>1, <2>2, TimersKeep
<1>7. PICK q : q = [m |-> a.m, k |-> Aged(h.k)]
  OBVIOUS
<1>8. /\ q \in Object /\ q.m = a.m
      /\ \A x \in Socket : /\ q.k[x].presence = h.k[x].presence /\ q.k[x].ready = h.k[x].ready
                           /\ q.k[x].deadline = Down(h.k[x].deadline)
                           /\ q.k[x].seen = h.k[x].seen
  <2>1. ASSUME NEW x \in Socket
        PROVE  /\ q.k[x] \in Attachment
               /\ q.k[x].presence = h.k[x].presence /\ q.k[x].ready = h.k[x].ready
               /\ q.k[x].deadline = Down(h.k[x].deadline)
               /\ q.k[x].seen = h.k[x].seen
    <3>1. h.k[x] \in Attachment /\ h.k[x].deadline \in Timer
      BY <1>4 DEF Attachment
    <3>2. PICK d \in Timer : d = Down(h.k[x].deadline)
      BY <3>1, DownIs
    <3>3. q.k[x] = [h.k[x] EXCEPT !.deadline = d]
      BY <1>7, <3>2 DEF Aged
    <3>. QED BY <3>1, <3>2, <3>3 DEF Attachment
  <2>2. q.k = [x \in Socket |-> q.k[x]] /\ q.m = a.m /\ q = [m |-> q.m, k |-> q.k]
    BY <1>7 DEF Aged
  <2>3. q.k \in [Socket -> Attachment] /\ a.m \in Memory
    BY <1>5, <2>1, <2>2 DEF Object
  <2>4. q \in Object
    BY <2>2, <2>3 DEF Object
  <2>. QED BY <2>1, <2>2, <2>4
<1>9. Core(q)
  <2>1. a.m.records \cup a.m.reserved \subseteq Socket /\ Eligible(a.m) \subseteq Socket
    BY <1>6, EligibleTabs DEF Core, Object, Memory
  <2>2. \A x \in a.m.records \cup a.m.reserved : q.k[x].presence = a.k[x].presence
    BY <1>5, <1>8, <2>1
  <2>3. ASSUME NEW x \in Eligible(a.m) PROVE a.m.nextExpiry <= q.k[x].deadline
    <3>1. h.k[x].deadline \in Timer
      BY <1>4, <2>1 DEF Attachment
    <3>2. h.m.nextExpiry <= h.k[x].deadline
      BY <1>2, <1>6 DEF Core, Reckoned
    <3>. QED BY <1>4, <1>5, <1>8, <2>1, <3>1, <3>2, DownIs
  <2>. QED BY <1>6, <1>8, <2>2, <2>3, SameMemory
<1>10. RoomInv(q, phase)
  <2>1. Places(q) = Places(h)
    BY <1>5, <1>8 DEF Places
  <2>2. Halved(q) /\ Kept(q)
    BY <1>2, <1>5, <1>6, <1>8 DEF Orderly, Halved, Kept
  <2>3. Capped(q)
    BY <1>2, <1>8, <2>1, FewerPlaces
  <2>4. Phased(q, phase)
    BY <1>2, <1>8, <2>1 DEF Phased
  <2>. QED BY <1>9, <2>2, <2>3, <2>4 DEF RoomInv, Orderly
<1>11. Becomes(q) /\ UNCHANGED <<updates, phase>> /\ UNCHANGED faults
  <2>1. room' = Later(room) /\ sock' = Aged(sock)
    BY DEF Tick, Later, Aged
  <2>. QED BY <1>2, <1>3, <1>7, <2>1 DEF Becomes, Tick
<1>12. Landed
  BY <1>10, <1>11, StayLands
<1>13. saved' \in [due : Timer, published : Seq(Presence) \cup {None}]
  <2>1. saved \in [due : Timer, published : Seq(Presence) \cup {None}]
    BY DEF IInv, Typed
  <2>2. PICK d \in Timer : d = Down(saved.due)
    BY <2>1, DownIs
  <2>3. saved' = [saved EXCEPT !.due = d]
    BY <2>2 DEF Tick
  <2>. QED BY <2>1, <2>3
<1>14. alarm' \in Timer
  BY DownIs DEF IInv, Typed, Tick
<1>15. step' \in [at : {"start", "read", "put"}, installed : Timer] /\ step'.at = step.at
  <2>1. step \in [at : {"start", "read", "put"}, installed : Timer]
    BY DEF IInv, Typed
  <2>2. PICK i \in Timer : i = Down(step.installed)
    BY <2>1, DownIs
  <2>3. step' = [step EXCEPT !.installed = i]
    BY <2>2 DEF Tick
  <2>. QED BY <2>1, <2>3
<1>16. Running(updates', step') /\ faults' \in 0 .. MaxFaults
  BY <1>11, <1>15 DEF IInv, Running, Typed
<1>20. ASSUME PresenceInv PROVE PresenceInv'
  <2>1. PICK ph : ph = phase
    OBVIOUS
  <2>2. Informed(h, ph)
    BY <1>1, <1>20, <2>1 DEF PresenceInv
  <2>3. Informed(q, ph)
    <3>1. h.m.cleanup \subseteq Socket /\ h.m.records \subseteq Socket
      BY <1>2 DEF Object, Memory
    <3>2. \A x \in h.m.records : q.k[x].presence = h.k[x].presence /\ q.k[x].seen = h.k[x].seen
      BY <1>8, <3>1
    <3>3. \A x \in h.m.cleanup : q.k[x].ready = "open" => h.k[x].ready = "open"
      BY <1>8, <3>1
    <3>4. q.m.due = Never => h.m.due = Never
      BY <1>4, <1>5, <1>8, DownIs
    <3>. QED BY <1>2, <1>5, <1>8, <2>2, <3>2, <3>3, <3>4, SameInformed
  <2>4. ph = phase' /\ updates' = updates
    BY <1>11, <2>1
  <2>5. Informed(Here', phase') /\ room' = q.m
    BY <1>8, <1>11, <2>3, <2>4, BecomesInformed
  <2>6. saved'.published = saved.published /\ step'.at = step.at
    <3>1. saved \in [due : Timer, published : Seq(Presence) \cup {None}]
          /\ step \in [at : {"start", "read", "put"}, installed : Timer]
      BY DEF IInv, Typed
    <3>. QED BY <3>1 DEF Tick
  <2>7. room'.published = room.published
    BY <1>2, <1>5, <1>8, <2>5
  <2>8. Written(updates', step', saved', room')
    BY <1>20, <2>4, <2>6, <2>7 DEF PresenceInv, Written
  <2>. QED BY <2>5, <2>8 DEF PresenceInv
<1>. QED BY <1>12, <1>13, <1>14, <1>15, <1>16, <1>20, LandedKeeps

-----------------------------------------------------------------------------
(* The theorems                                                            *)

LEMMA InitHolds == Init => IInv
<1>. SUFFICES ASSUME Init PROVE IInv
  OBVIOUS
<1>1. /\ sock = [s \in Socket |-> NoSocket] /\ room = EmptyRoom
      /\ saved = [due |-> Never, published |-> <<>>] /\ alarm = Never
      /\ updates = <<>> /\ step = AtStart /\ phase = [s \in Socket |-> "none"] /\ faults = 0
  BY DEF Init
<1>2. PICK k : k = sock
  OBVIOUS
<1>3. NoSocket \in Attachment /\ NoSocket.ready = "none"
  BY TimerTypes DEF NoSocket, Attachment
<1>4. k \in [Socket -> Attachment] /\ \A x \in Socket : k[x].ready = "none"
  BY <1>1, <1>2, <1>3
<1>5. saved.due \in Timer /\ saved.published \in Seq(Presence) \cup {None}
  <2>1. <<>> \in Seq(Presence)
    OBVIOUS
  <2>. QED BY <1>1, <2>1, TimerTypes
<1>6. PICK q : q = Started(k)
  OBVIOUS
<1>7. Rebuilt(k, {}, q)
  BY <1>4, <1>5, <1>6, StartedKeeps
<1>8. Here = q
  BY <1>1, <1>2, <1>6 DEF Here, Started, EmptyRoom
<1>9. Core(q) /\ Halved(q) /\ Places(q) = {} /\ q.k = k
  BY <1>6, <1>7 DEF Rebuilt, Places, Started
<1>10. Capped(q)
  <2>1. Cardinality({}) = 0 /\ RoomCap \in Nat /\ UserCap \in Nat
    BY RoomAssumption, FS_EmptySet
  <2>2. \A u \in User : HeldIn(q, u) = {}
    BY <1>9 DEF HeldIn, Places
  <2>. QED BY <1>9, <2>1, <2>2 DEF Capped
<1>11. Kept(q) /\ Phased(q, phase)
  BY <1>1, <1>4, <1>9 DEF Kept, Phased
<1>12. RoomInv(Here, phase)
  BY <1>8, <1>9, <1>10, <1>11 DEF RoomInv, Orderly
<1>13. Typed
  <2>1. <<>> \in Seq(Waiter) /\ <<>> \in Seq(Presence)
    OBVIOUS
  <2>2. phase \in [Socket -> Phases]
    BY <1>1 DEF Phases
  <2>3. faults \in 0 .. MaxFaults
    BY <1>1, RoomAssumption
  <2>. QED BY <1>1, <2>1, <2>2, <2>3, AtStartTypes, TimerTypes DEF Typed
<1>14. Waiting(updates, phase) /\ Running(updates, step)
  <2>1. Len(updates) = 0
    BY <1>1
  <2>. QED BY <1>1, <2>1, AtStartTypes DEF Waiting
<1>. QED BY <1>12, <1>13, <1>14 DEF IInv

LEMMA StutterKeeps ==
  ASSUME IInv, UNCHANGED vars
  PROVE  IInv'
<1>1. PICK q : q = Here
  OBVIOUS
<1>2. /\ sock' = sock /\ room' = room /\ saved' = saved /\ alarm' = alarm /\ updates' = updates
      /\ step' = step /\ phase' = phase /\ faults' = faults
  BY DEF vars
<1>3. Becomes(q) /\ RoomInv(q, phase)
  BY <1>1, <1>2 DEF Becomes, Here, IInv
<1>4. Landed
  BY <1>2, <1>3, StayLands
<1>. QED BY <1>2, <1>4, QuietKeeps

LEMMA NextKeeps == IInv /\ [Next]_vars => IInv'
<1>. SUFFICES ASSUME IInv, [Next]_vars PROVE IInv'
  OBVIOUS
<1>1. CASE \E s \in Socket, p \in Presence, d \in Deadlines : Arrive(s, p, d)
  BY <1>1, ArriveKeeps
<1>2. ASSUME NEW s \in Socket,
             \/ Refuse(s) \/ ChargeFails(s) \/ Accept(s) \/ AcceptFails(s)
             \/ PeerCloses(s) \/ WebSocketClose(s) \/ WebSocketError(s)
      PROVE  IInv'
  BY <1>2, RefuseKeeps, ChargeFailsKeeps, AcceptKeeps, AcceptFailsKeeps, PeerClosesKeeps,
     WebSocketCloseKeeps, WebSocketErrorKeeps
<1>3. CASE ReadAlarm \/ PutSchedule \/ UpdateFails
  BY <1>3, ReadAlarmKeeps, PutScheduleKeeps, UpdateFailsKeeps
<1>4. CASE \E lost \in Losses : Update(lost) \/ Notify(lost) \/ Fire(lost)
  BY <1>4, UpdateKeeps, NotifyKeeps, FireKeeps
<1>5. CASE Hibernate \/ Restart \/ Tick
  BY <1>5, HibernateKeeps, RestartKeeps, TickKeeps
<1>6. CASE UNCHANGED vars
  BY <1>6, StutterKeeps
<1>. QED BY <1>1, <1>2, <1>3, <1>4, <1>5, <1>6 DEF Next

LEMMA Inductive == Spec => []IInv
<1>. QED BY InitHolds, NextKeeps, PTL DEF Spec

LEMMA InvImplies == IInv => TypeOK /\ WithinCaps /\ NothingHalfClosed
<1>. SUFFICES ASSUME IInv PROVE TypeOK /\ WithinCaps /\ NothingHalfClosed
  OBVIOUS
<1>1. /\ Here \in Object /\ Core(Here) /\ Orderly(Here) /\ Capped(Here)
      /\ Here.m = room /\ Here.k = sock
  BY RoomTypes
<1>2. room \in Memory /\ sock \in [Socket -> Attachment] /\ Typed
  BY <1>1 DEF Object, IInv
<1>3. TypeOK
  <2>1. room.cleanup \subseteq room.records
    BY <1>1 DEF Core, Sweepable
  <2>2. sock \in [Socket -> [ready : {"none", "open", "closing", "closed"},
                             presence : Presence \cup {None}, deadline : Timer,
                             seen : Seq(Presence) \cup {None}]]
    BY <1>2 DEF Attachment
  <2>3. /\ room.records \subseteq Socket
        /\ room.users \in Seq(User) /\ room.tabs \in [User -> Seq(Socket)]
        /\ room.reserved \subseteq Socket
        /\ room.occupancy \in [User -> Nat] /\ room.reservations \in Nat
        /\ {room.nextExpiry, room.cleanupDue, room.due, saved.due, alarm} \subseteq Timer
        /\ room.expiryDirty \in BOOLEAN
    BY <1>2 DEF Memory, Typed
  <2>. QED BY <1>2, <2>1, <2>2, <2>3 DEF TypeOK, Typed, Waiter
<1>4. WithinCaps
  <2>1. \A u \in User : Held(u) = HeldIn(Here, u)
    BY <1>1 DEF Held, HeldIn, UserId
  <2>2. Places(Here) = room.records \cup room.reserved
    BY <1>1 DEF Places
  <2>3. Retained(sock) \subseteq room.records
    BY <1>1 DEF Orderly, Kept, Retained
  <2>4. /\ room.reservations = Cardinality(room.reserved)
        /\ \A u \in User : room.occupancy[u] = Cardinality(HeldIn(Here, u))
    BY <1>1 DEF Core, Counted
  <2>. QED BY <1>1, <2>1, <2>2, <2>3, <2>4 DEF WithinCaps, Capped
<1>5. NothingHalfClosed
  BY <1>1 DEF Orderly, Halved, NothingHalfClosed
<1>. QED BY <1>3, <1>4, <1>5

\* Whatever interleaves, the object's memory and its attachments stay well formed:
\* every user who is listed has tabs, every tab is a connection that is recorded,
\* every counter is a number and never falls below zero.
THEOREM TypesAreKept == Spec => []TypeOK
<1>. QED BY Inductive, InvImplies, PTL

\* Admissions that wait for the budget, fail, expire or are torn down, in any order
\* with closes, sweeps, hibernation and loss of the object, never let a room or a
\* user exceed its cap, and the counters that fetch reads are always exact.
THEOREM CapsAreKept == Spec => []WithinCaps
<1>. QED BY Inductive, InvImplies, PTL

\* A connection that counts no longer is always on the list of the cleanup sweep: no
\* order of invalidations, sweeps and failures leaves a record half closed.
THEOREM EveryRecordIsSwept == Spec => []NothingHalfClosed
<1>. QED BY Inductive, InvImplies, PTL

-----------------------------------------------------------------------------
(* The alarm                                                               *)

\* With no fault, the alarm covers what memory waits for whenever no update waits;
\* and it is still the one that the running update read, unless it has fired since,
\* and so has queued an update behind this one.
AlarmInv ==
  faults = 0 =>
    /\ updates = <<>> => AlarmCovers(alarm, room)
    /\ (step.at # "start" /\ Alarm \notin ToSet(Tail(updates))) => alarm = step.installed

LEMMA NoFault ==
  ASSUME IInv, faults' = 0, Fault \/ UNCHANGED faults
  PROVE  faults = 0 /\ ~Fault
<1>1. faults \in Nat
  BY RoomAssumption DEF IInv, Typed
<1>. QED BY <1>1 DEF Fault

LEMMA TailOfLonger ==
  ASSUME NEW up \in Seq(Waiter), up # <<>>, NEW w \in Waiter
  PROVE  ToSet(Tail(Append(up, w))) = ToSet(Tail(up)) \cup {w}
<1>1. Tail(Append(up, w)) = Append(Tail(up), w)
  <2>. DEFINE a == Tail(Append(up, w))
              b == Append(Tail(up), w)
              n == Len(up)
  <2>1. /\ n \in Nat /\ n # 0 /\ Tail(up) \in Seq(Waiter) /\ Len(Tail(up)) = n - 1
        /\ \A i \in 1 .. n - 1 : Tail(up)[i] = up[i + 1]
    BY HeadTailProperties
  <2>2. PICK l : l = Append(up, w)
    OBVIOUS
  <2>3. /\ l \in Seq(Waiter) /\ l # <<>> /\ Len(l) = n + 1 /\ l[n + 1] = w
        /\ \A i \in 1 .. n : l[i] = up[i]
    BY <2>2, AppendProperties
  <2>4. /\ Tail(l) \in Seq(Waiter) /\ Len(Tail(l)) = n
        /\ \A i \in 1 .. n : Tail(l)[i] = l[i + 1]
    BY <2>1, <2>3, HeadTailProperties
  <2>5. PICK t : t = Tail(up)
    OBVIOUS
  <2>6. /\ b \in Seq(Waiter) /\ Len(b) = n /\ b[n] = w
        /\ \A i \in 1 .. n - 1 : b[i] = t[i]
    <3>1. t \in Seq(Waiter) /\ Len(t) = n - 1
      BY <2>1, <2>5
    <3>2. /\ b \in Seq(Waiter) /\ Len(b) = Len(t) + 1 /\ b[Len(t) + 1] = w
          /\ \A i \in 1 .. Len(t) : b[i] = t[i]
      BY <2>5, <3>1, AppendProperties
    <3>. QED BY <2>1, <3>1, <3>2
  <2>7. a = Tail(l)
    BY <2>2
  <2>. HIDE DEF a, b, n
  <2>8. \A i \in 1 .. n : a[i] = b[i]
    <3>1. ASSUME NEW i \in 1 .. n, i = n PROVE a[i] = b[i]
      BY <2>1, <2>3, <2>4, <2>6, <2>7, <3>1
    <3>2. ASSUME NEW i \in 1 .. n, i # n PROVE a[i] = b[i]
      <4>1. i \in 1 .. n - 1 /\ i + 1 \in 1 .. n
        BY <2>1, <3>2
      <4>. QED BY <2>1, <2>3, <2>4, <2>5, <2>6, <2>7, <4>1
    <3>. QED BY <3>1, <3>2
  <2>9. a \in Seq(Waiter) /\ Len(a) = n
    BY <2>4, <2>7
  <2>10. a = b
    BY <2>1, <2>6, <2>8, <2>9
  <2>. QED BY <2>10 DEF a, b
<1>2. Tail(up) \in Seq(Waiter)
  BY HeadTailProperties
<1>3. PICK t : t = Tail(up)
  OBVIOUS
<1>4. t \in Seq(Waiter)
  BY <1>2, <1>3
<1>5. ToSet(Append(t, w)) = ToSet(t) \cup {w}
  BY <1>4, AppendNew
<1>. QED BY <1>1, <1>3, <1>5

\* Steps that leave the alarm and the running update alone, and memory waits for
\* nothing sooner unless an update is queued.
LEMMA SameAlarm ==
  ASSUME IInv, AlarmInv, Fault \/ UNCHANGED faults, UNCHANGED <<alarm, step>>,
         \/ updates' = updates /\ (updates = <<>> => (AlarmCovers(alarm, room) => AlarmCovers(alarm, room')))
         \/ \E w \in Waiter : Queue(w)
  PROVE  AlarmInv'
<1>. SUFFICES ASSUME faults' = 0
              PROVE  /\ updates' = <<>> => AlarmCovers(alarm', room')
                     /\ (step'.at # "start" /\ Alarm \notin ToSet(Tail(updates'))) => alarm' = step'.installed
  BY DEF AlarmInv
<1>1. faults = 0
  BY NoFault
<1>2. alarm' = alarm /\ step' = step
  OBVIOUS
<1>3. /\ updates = <<>> => AlarmCovers(alarm, room)
      /\ (step.at # "start" /\ Alarm \notin ToSet(Tail(updates))) => alarm = step.installed
  BY <1>1 DEF AlarmInv
<1>4. CASE updates' = updates /\ (updates = <<>> => (AlarmCovers(alarm, room) => AlarmCovers(alarm, room')))
  BY <1>2, <1>3, <1>4
<1>5. CASE \E w \in Waiter : Queue(w)
  <2>1. PICK w \in Waiter : updates' = Append(updates, w)
    BY <1>5 DEF Queue
  <2>2. updates \in Seq(Waiter)
    BY DEF IInv, Typed
  <2>3. updates' # <<>>
    BY <2>1, <2>2, AppendProperties
  <2>4. ASSUME step'.at # "start", Alarm \notin ToSet(Tail(updates')) PROVE alarm' = step'.installed
    <3>1. updates # <<>>
      BY <1>2, <2>4 DEF IInv, Running
    <3>2. ToSet(Tail(updates')) = ToSet(Tail(updates)) \cup {w}
      BY <2>1, <2>2, <3>1, TailOfLonger
    <3>. QED BY <1>2, <1>3, <2>4, <3>2
  <2>. QED BY <2>3, <2>4
<1>. QED BY <1>4, <1>5

\* Where the update has begun or there is none, its start is all there is to know.
LEMMA StartedAlarm ==
  ASSUME step' = AtStart, updates' = <<>> => AlarmCovers(alarm', room')
  PROVE  AlarmInv'
  BY DEF AlarmInv, AtStart

\* The update at the head ends with the room as the update left it.
LEMMA ReturnIdle ==
  ASSUME NEW r, Core(r), NEW lost, lost = {}, updates \in Seq(Waiter), updates # <<>>,
         Return(r, lost), updates' = <<>>
  PROVE  /\ room'.nextExpiry = r.m.nextExpiry /\ room'.due = r.m.due
         /\ room'.cleanupDue = r.m.cleanupDue
         /\ Tail(updates) = <<>>
<1>1. Tail(updates) \in Seq(Waiter)
  BY HeadTailProperties
<1>2. ASSUME NEW x \in Waiter PROVE Append(Tail(updates), x) # updates'
  <2>1. Append(Tail(updates), x) # <<>>
    BY <1>1, AppendProperties
  <2>. QED BY <2>1
<1>3. CASE Becomes(r) /\ updates' = Tail(updates)
  BY <1>3 DEF Becomes
<1>4. CASE Head(updates) \in Socket /\ Continue(Head(updates), r, lost)
  <2>1. PICK s \in Socket : s = Head(updates)
    BY <1>4
  <2>2. Continue(s, r, lost)
    BY <1>4, <2>1
  <2>3. \A q : ~Fail(s, q)
    BY <1>2 DEF Fail, Waiter
  <2>4. CASE ContinueSetup(s, r, lost)
    <3>1. PICK body \in Seq(Presence) \cup {None} : body = Body(r)
      BY BodyTyped
    <3>2. PICK S : S = {s}
      OBVIOUS
    <3>3. PICK sent : sent = SendTo(r, S, lost, body)
      OBVIOUS
    <3>4. sent = SendTo(r, {s}, lost, Body(r))
      BY <3>1, <3>2, <3>3
    <3>5. Finish(s, sent, "live") /\ IsValid(r, s)
      <4>1. updates' # Append(Tail(updates), s)
        BY <1>2 DEF Waiter
      <4>. QED BY <2>3, <2>4, <3>4, <4>1, Zenon DEF ContinueSetup
    <3>6. sent.m = r.m
      <4>1. S \subseteq Socket /\ \A x \in S : IsValid(r, x)
        BY <3>2, <3>5
      <4>. QED BY <3>1, <3>3, <4>1, SendToKeeps
    <3>. QED BY <3>5, <3>6 DEF Finish, Becomes
  <2>5. CASE Finish(s, r, "live")
    BY <2>5 DEF Finish, Becomes
  <2>6. CASE Finish(s, Release(r, s), "refused")
    <3>1. PICK freed : freed = Release(r, s)
      OBVIOUS
    <3>2. Finish(s, freed, "refused")
      BY <2>6, <3>1
    <3>3. /\ freed.m.nextExpiry = r.m.nextExpiry /\ freed.m.due = r.m.due
          /\ freed.m.cleanupDue = r.m.cleanupDue
      BY <3>1, ReleaseKeeps
    <3>. QED BY <3>2, <3>3 DEF Finish, Becomes
  <2>. QED BY <2>2, <2>3, <2>4, <2>5, <2>6 DEF Continue
<1>. QED BY <1>3, <1>4 DEF Return

LEMMA UpdateAlarm ==
  ASSUME IInv, AlarmInv, NEW lost, Update(lost)
  PROVE  AlarmInv'
<1>1. PICK r : r = IF step.at = "put" THEN Here ELSE Expire(Here)
  OBVIOUS
<1>2. /\ SetAlarm(r) /\ Return(r, lost) /\ Lost(lost) /\ step' = AtStart
      /\ step.at \in {"put", "read"}
  BY <1>1 DEF Update
<1>3. Core(r)
  <2>1. CASE r = Here
    BY <2>1, RoomTypes
  <2>2. CASE r = Expire(Here)
    BY <2>2, ExpiredRoom
  <2>. QED BY <1>1, <2>1, <2>2
<1>4. updates # <<>> /\ updates \in Seq(Waiter)
  BY <1>2 DEF IInv, Running, Typed
<1>5. SUFFICES ASSUME faults' = 0, updates' = <<>> PROVE AlarmCovers(alarm', room')
  BY <1>2 DEF AlarmInv, AtStart
<1>6. faults = 0 /\ lost = {}
  <2>1. Fault \/ UNCHANGED faults
    BY <1>2 DEF Lost
  <2>. QED BY <1>2, <1>5, <2>1, NoFault DEF Lost
<1>7. /\ room'.nextExpiry = r.m.nextExpiry /\ room'.due = r.m.due
      /\ room'.cleanupDue = r.m.cleanupDue
      /\ Tail(updates) = <<>>
  BY <1>2, <1>3, <1>4, <1>5, <1>6, ReturnIdle
<1>8. Alarm \notin ToSet(Tail(updates))
  BY <1>7 DEF ToSet
<1>9. alarm = step.installed
  BY <1>2, <1>6, <1>8 DEF AlarmInv
<1>10. alarm' = Earliest(r)
  BY <1>2, <1>9 DEF SetAlarm
<1>. QED BY <1>3, <1>7, <1>10, ScheduleTypes DEF AlarmCovers

LEMMA FireAlarm ==
  ASSUME IInv, NEW lost, Fire(lost)
  PROVE  AlarmInv'
<1>1. updates' = Append(updates, Alarm) /\ step' = step /\ updates \in Seq(Waiter)
  BY DEF Fire, Queue, IInv, Typed
<1>2. updates' # <<>>
  BY <1>1, AppendProperties DEF Waiter
<1>3. ASSUME step.at # "start" PROVE Alarm \in ToSet(Tail(updates'))
  <2>1. updates # <<>>
    BY <1>3 DEF IInv, Running
  <2>2. Alarm \in Waiter
    BY DEF Waiter
  <2>. QED BY <1>1, <2>1, <2>2, TailOfLonger
<1>. QED BY <1>1, <1>2, <1>3 DEF AlarmInv

LEMMA HibernateAlarm ==
  ASSUME IInv, Hibernate
  PROVE  AlarmInv'
<1>1. PICK k : k = sock
  OBVIOUS
<1>2. Construct(k) /\ UNCHANGED <<updates, step>> /\ updates = <<>>
  BY <1>1 DEF Hibernate
<1>3. PICK q : Becomes(q) /\ Orderly(q) /\ alarm' = Earliest(q)
  <2>1. /\ k \in [Socket -> Attachment] /\ Retained(k) \subseteq Retained(sock)
        /\ \A x \in Socket : k[x].presence = sock[x].presence
    BY <1>1, RoomTypes DEF Object
  <2>. QED BY <1>2, <2>1, ConstructLeaves
<1>4. AlarmCovers(alarm', room')
  BY <1>3, ScheduleTypes DEF AlarmCovers, Becomes, Orderly
<1>5. step'.at = "start"
  BY <1>2 DEF IInv, Running
<1>. QED BY <1>4, <1>5 DEF AlarmInv

LEMMA TickAlarm ==
  ASSUME IInv, AlarmInv, Tick
  PROVE  AlarmInv'
<1>1. /\ room.nextExpiry \in Timer /\ room.cleanupDue \in Timer /\ room.due \in Timer
      /\ alarm \in Timer /\ room \in Memory
      /\ step \in [at : {"start", "read", "put"}, installed : Timer]
  BY RoomTypes DEF Object, Memory, IInv, Typed
<1>2. /\ alarm' = Down(alarm) /\ updates' = updates /\ faults' = faults
      /\ step'.at = step.at /\ step'.installed = Down(step.installed)
      /\ room' = Later(room)
  BY <1>1 DEF Tick, Later
<1>3. /\ room'.nextExpiry = Down(room.nextExpiry) /\ room'.due = Down(room.due)
      /\ room'.cleanupDue = Down(room.cleanupDue)
  BY <1>1, <1>2 DEF Later, Memory
<1>4. AlarmCovers(alarm, room) => AlarmCovers(alarm', room')
  BY <1>1, <1>2, <1>3, DownIs DEF AlarmCovers
<1>. QED BY <1>2, <1>4 DEF AlarmInv

LEMMA PutScheduleAlarm ==
  ASSUME IInv, AlarmInv, PutSchedule
  PROVE  AlarmInv'
<1>1. /\ step.at = "read" /\ step' = [step EXCEPT !.at = "put"]
      /\ alarm' = alarm /\ updates' = updates /\ faults' = faults
  BY DEF PutSchedule
<1>2. updates # <<>> /\ step'.installed = step.installed
  BY <1>1 DEF IInv, Running, Typed
<1>. QED BY <1>1, <1>2 DEF AlarmInv

LEMMA ReadAlarmAlarm ==
  ASSUME AlarmInv, ReadAlarm
  PROVE  AlarmInv'
<1>1. /\ updates # <<>> /\ step'.installed = alarm
      /\ alarm' = alarm /\ updates' = updates
  BY DEF ReadAlarm
<1>. QED BY <1>1 DEF AlarmInv

\* A step that touches the queue only to add to it, and leaves the timers alone.
LEMMA QueuedAlarm ==
  ASSUME IInv, AlarmInv, UNCHANGED alarm, UNCHANGED step, Fault \/ UNCHANGED faults,
         NEW w \in Waiter, Queue(w)
  PROVE  AlarmInv'
  BY SameAlarm

LEMMA AlarmKept == IInv /\ AlarmInv /\ [Next]_vars => AlarmInv'
<1>. SUFFICES ASSUME IInv, AlarmInv, [Next]_vars PROVE AlarmInv'
  OBVIOUS
<1>1. ASSUME Fault PROVE AlarmInv'
  BY <1>1, NoFault DEF AlarmInv
<1>2. CASE \E s \in Socket, p \in Presence, d \in Deadlines : Arrive(s, p, d)
  <2>1. PICK s \in Socket, p \in Presence, d \in Deadlines : Arrive(s, p, d)
    BY <1>2
  <2>2. UNCHANGED <<alarm, step>> /\ UNCHANGED faults /\ updates' = updates
    BY <2>1 DEF Arrive
  <2>3. AlarmCovers(alarm, room) => AlarmCovers(alarm', room')
    BY <2>1, ArriveKeeps
  <2>. QED BY <2>2, <2>3, SameAlarm
<1>3. ASSUME NEW s \in Socket, Refuse(s) PROVE AlarmInv'
  <2>1. PICK freed : freed = Release(Here, s)
    OBVIOUS
  <2>2. /\ Becomes(freed) /\ UNCHANGED <<alarm, step>> /\ UNCHANGED faults /\ updates' = updates
    BY <1>3, <2>1 DEF Refuse
  <2>3. /\ freed.m.nextExpiry = room.nextExpiry /\ freed.m.due = room.due
        /\ freed.m.cleanupDue = room.cleanupDue
    <3>1. PICK h : h = Here
      OBVIOUS
    <3>2. freed = Release(h, s) /\ Core(h) /\ h.m = room
      BY <2>1, <3>1, RoomTypes
    <3>. QED BY <3>2, ReleaseKeeps
  <2>4. AlarmCovers(alarm, room) => AlarmCovers(alarm', room')
    BY <2>2, <2>3 DEF AlarmCovers, Becomes
  <2>. QED BY <2>2, <2>4, SameAlarm
<1>4. ASSUME NEW s \in Socket, ChargeFails(s) \/ AcceptFails(s) PROVE AlarmInv'
  BY <1>1, <1>4 DEF ChargeFails, AcceptFails
<1>5. ASSUME NEW s \in Socket, Accept(s) PROVE AlarmInv'
  <2>1. UNCHANGED alarm /\ UNCHANGED step /\ UNCHANGED faults /\ Queue(s) /\ s \in Waiter
    BY <1>5 DEF Accept, Waiter
  <2>. QED BY <2>1, QueuedAlarm
<1>6. ASSUME NEW s \in Socket, PeerCloses(s) PROVE AlarmInv'
  BY <1>6 DEF PeerCloses, AlarmInv
<1>7. ASSUME NEW s \in Socket, WebSocketClose(s) \/ WebSocketError(s) PROVE AlarmInv'
  <2>1. UNCHANGED alarm /\ UNCHANGED step /\ UNCHANGED faults /\ Queue(Nobody) /\ Nobody \in Waiter
    BY <1>7 DEF WebSocketClose, WebSocketError, Waiter
  <2>. QED BY <2>1, QueuedAlarm
<1>8. CASE ReadAlarm \/ PutSchedule
  BY <1>8, ReadAlarmAlarm, PutScheduleAlarm
<1>9. CASE UpdateFails
  BY <1>1, <1>9 DEF UpdateFails
<1>10. ASSUME NEW lost, Notify(lost) PROVE AlarmInv'
  <2>1. /\ UNCHANGED alarm /\ UNCHANGED step /\ Queue(Nobody) /\ Nobody \in Waiter
        /\ Fault \/ UNCHANGED faults
    BY <1>10 DEF Notify, Lost, Waiter
  <2>. QED BY <2>1, QueuedAlarm
<1>11. ASSUME NEW lost, Update(lost) \/ Fire(lost) PROVE AlarmInv'
  BY <1>11, UpdateAlarm, FireAlarm
<1>12. CASE Hibernate \/ Tick
  BY <1>12, HibernateAlarm, TickAlarm
<1>13. CASE Restart
  BY <1>1, <1>13 DEF Restart
<1>14. CASE UNCHANGED vars
  <2>1. alarm' = alarm /\ room' = room /\ updates' = updates /\ step' = step /\ faults' = faults
    BY <1>14 DEF vars
  <2>. QED BY <2>1 DEF AlarmInv
<1>15. ASSUME NEW s \in Socket,
              \/ Refuse(s) \/ ChargeFails(s) \/ Accept(s) \/ AcceptFails(s)
              \/ PeerCloses(s) \/ WebSocketClose(s) \/ WebSocketError(s)
       PROVE  AlarmInv'
  BY <1>3, <1>4, <1>5, <1>6, <1>7, <1>15
<1>16. CASE \E lost \in Losses : Update(lost) \/ Notify(lost) \/ Fire(lost)
  BY <1>10, <1>11, <1>16
<1>. QED BY <1>2, <1>8, <1>9, <1>12, <1>13, <1>14, <1>15, <1>16 DEF Next

LEMMA AlarmFirst == Init => AlarmInv
<1>. SUFFICES ASSUME Init PROVE AlarmInv
  OBVIOUS
<1>1. /\ room.nextExpiry = Never /\ room.due = Never /\ room.cleanupDue = Never
      /\ alarm = Never /\ step.at = "start"
  BY DEF Init, EmptyRoom, AtStart
<1>2. Never <= Never
  BY TimerTypes
<1>. QED BY <1>1, <1>2 DEF AlarmInv, AlarmCovers

LEMMA CoveredOwed == IInv /\ AlarmInv => AlarmCoversObligations
<1>. SUFFICES ASSUME IInv, AlarmInv, updates = <<>>, faults = 0, NEW t \in Owed
              PROVE  alarm <= t
  BY DEF AlarmCoversObligations
<1>1. alarm <= room.nextExpiry /\ alarm <= room.due /\ alarm <= room.cleanupDue
  BY DEF AlarmInv, AlarmCovers
<1>2. CASE t \in {room.due, room.cleanupDue}
  BY <1>1, <1>2
<1>3. ASSUME NEW s \in Eligible(room), t = sock[s].deadline PROVE alarm <= t
  <2>1. /\ room.nextExpiry <= sock[s].deadline /\ room.nextExpiry \in Nat
        /\ sock[s].deadline \in Nat /\ alarm \in Nat
    <3>1. PICK h : h = Here
      OBVIOUS
    <3>2. h \in Object /\ Core(h) /\ h.m = room /\ h.k = sock
      BY <3>1, RoomTypes
    <3>3. s \in Socket
      BY <3>2, EligibleTabs DEF Core, Object, Memory
    <3>4. sock[s].deadline \in Timer /\ room.nextExpiry \in Timer
      BY <3>2, <3>3 DEF Object, Memory, Attachment
    <3>. QED BY <3>2, <3>4, TimerTypes DEF Core, Reckoned, IInv, Typed
  <2>. QED BY <1>1, <1>3, <2>1
<1>. QED BY <1>2, <1>3 DEF Owed

\* Without a fault, whenever no update of the alarm is queued or running, the alarm
\* is no later than anything that the room has to do: the expiry of a connection
\* that counts, the cleanup of one that closes, the presence message that is due.
\* No interleaving of admissions, events, sweeps and queued updates leaves the
\* object asleep on an obligation.
THEOREM AlarmIsSet == Spec => []AlarmCoversObligations
<1>. QED BY Inductive, AlarmFirst, AlarmKept, CoveredOwed, PTL DEF Spec

-----------------------------------------------------------------------------
(* Everyone sees the presence, as long as no update of the alarm fails     *)

\* A published presence that is not known any more is due.
LEMMA UnknownInformed ==
  ASSUME NEW r, Core(r), Shutting(r), NEW q, q = PublishedUnknown(r), NEW ph
  PROVE  Informed(q, ph) /\ Core(q)
<1>1. PICK a : a = UnknownFrom(r)
  OBVIOUS
<1>2. r.m.due \in Timer /\ r \in Object
  BY DEF Core, Object, Memory
<1>3. PICK due \in Timer : due = r.m.due
  BY <1>2
<1>4. PICK body \in Seq(Presence) \cup {None} : body = None
  OBVIOUS
<1>5. a = PublishedBy(r, due, body)
  BY <1>1, <1>2, <1>3, <1>4 DEF UnknownFrom, PublishedBy, Object, Memory
<1>6. Core(a) /\ Shutting(a) /\ a.m.published = None
  BY <1>4, <1>5, PublishedKeeps
<1>7. q = MarkPresenceDirty(a)
  BY <1>1, Zenon DEF PublishedUnknown, UnknownFrom
<1>8. Core(q) /\ q.m.due # Never /\ q.m.published = None /\ Told(a, q)
  BY <1>6, <1>7, DirtyKeeps
<1>. QED BY <1>6, <1>8 DEF Informed, Told

\* An update that fails its fetch: another update of it is queued,
LEMMA FailInforms ==
  ASSUME IInv, updates # <<>>, NEW s \in Socket, s = Head(updates),
         phase[s] \in {"setup", "setup2"}, NEW r, RoomInv(r, phase), Informed(r, phase), Fail(s, r)
  PROVE  Informed(Here', phase') /\ updates' # <<>>
<1>1. Orderly(r) /\ Core(r) /\ Phased(r, phase)
  BY DEF RoomInv, Orderly
<1>2. Closable(r, s)
  <2>1. r.k[s].ready \in {"none", "open", "closing", "closed"}
    BY <1>1 DEF Core, Object, Attachment
  <2>2. r.k[s].ready # "none"
    BY <1>1 DEF Phased
  <2>. QED BY <1>1, <2>1, <2>2 DEF Closable, Orderly, Kept
<1>3. PICK q : q = Invalidate(r, s)
  OBVIOUS
<1>4. Core(q) /\ Fewer(r, q) /\ Told(r, q)
  BY <1>1, <1>2, <1>3, InvalidateFewer DEF Narrowed
<1>5. PICK p : p = phase
  OBVIOUS
<1>6. Informed(q, p) /\ q \in Object /\ Eligible(q.m) \subseteq Socket
  BY <1>1, <1>4, <1>5, ToldStays
<1>7. PICK ph : ph = phase'
  OBVIOUS
<1>8. /\ Becomes(q) /\ updates' = Append(Tail(updates), s)
      /\ ph = [phase EXCEPT ![s] = "failing"]
  BY <1>3, <1>7 DEF Fail
<1>9. Informed(q, ph)
  <2>1. phase \in [Socket -> Phases]
    BY DEF IInv, Typed
  <2>2. ph[s] \notin {"setup2", "live"} /\ \A x \in Socket : x # s => ph[x] = p[x]
    BY <1>5, <1>8, <2>1
  <2>. QED BY <1>6, <2>2, InformedMoved
<1>10. updates' # <<>>
  <2>1. updates \in Seq(Waiter) /\ s \in Waiter
    BY DEF IInv, Typed, Waiter
  <2>2. Tail(updates) \in Seq(Waiter)
    BY <2>1, HeadTailProperties
  <2>. QED BY <1>8, <2>1, <2>2, AppendProperties
<1>. QED BY <1>6, <1>7, <1>8, <1>9, <1>10, BecomesInformed

\* or it is done with what it has seen.
LEMMA FinishInforms ==
  ASSUME IInv, NEW s \in Socket, NEW p, NEW r, Core(r), Informed(r, phase), Finish(s, r, p),
         \/ p \notin {"setup2", "live"} \/ s \notin Eligible(r.m)
         \/ r.m.published = None \/ r.k[s].seen = r.m.published
  PROVE  Informed(Here', phase') /\ room' = r.m /\ updates' = Tail(updates)
<1>1. PICK ph : ph = phase'
  OBVIOUS
<1>2. Becomes(r) /\ updates' = Tail(updates) /\ ph = [phase EXCEPT ![s] = p]
  BY <1>1 DEF Finish
<1>3. PICK was : was = phase
  OBVIOUS
<1>4. ph[s] = p /\ \A x \in Socket : x # s => ph[x] = was[x]
  BY <1>2, <1>3 DEF IInv, Typed
<1>5. Eligible(r.m) \subseteq Socket /\ r \in Object
  BY EligibleTabs DEF Core, Object, Memory
<1>6. Informed(r, ph)
  BY <1>3, <1>4, <1>5, InformedMoved
<1>. QED BY <1>1, <1>2, <1>5, <1>6, BecomesInformed

\* The update before which a newcomer is shown the presence.
LEMMA SetupInforms ==
  ASSUME IInv, updates # <<>>, NEW s \in Socket, s = Head(updates), phase[s] = "setup",
         NEW r, RoomInv(r, phase), Informed(r, phase), NEW lost, ContinueSetup(s, r, lost)
  PROVE  /\ Informed(Here', phase')
         /\ updates' = <<>> => Tail(updates) = <<>> /\ room'.published = r.m.published
<1>1. Orderly(r) /\ Core(r) /\ Phased(r, phase)
  BY DEF RoomInv, Orderly
<1>2. PICK body \in Seq(Presence) \cup {None} : body = Body(r) /\ body # None
  BY <1>1, BodyTyped, RoomAssumption
<1>3. PICK S : S = {s}
  OBVIOUS
<1>4. PICK sent : sent = SendTo(r, S, lost, body)
  OBVIOUS
<1>5. Core(sent) /\ Fewer(r, sent) /\ Sent(r, sent, S, body)
  <2>1. S \subseteq Socket
    BY <1>3
  <2>. QED BY <1>1, <1>4, <2>1, SendToKeeps
<1>6. RoomInv(sent, phase)
  BY <1>5, FewerRoom
<1>7. PICK was : was = phase
  OBVIOUS
<1>8. was[s] = "setup" /\ Informed(r, was)
  BY <1>7
<1>9. Informed(sent, was) /\ Shutting(sent)
  <2>1. Shutting(sent) /\ (sent.m.due = Never => Body(sent) = sent.m.published)
    BY <1>5, <1>8 DEF Informed, Sent
  <2>2. ASSUME sent.m.published # None, NEW x \in Eligible(sent.m), was[x] \in {"setup2", "live"}
        PROVE  sent.k[x].seen = sent.m.published
    <3>1. x \in Socket /\ x \in Eligible(r.m) /\ x \notin S
      BY <1>1, <1>3, <1>5, <1>8, <2>2, EligibleTabs DEF Fewer, Core, Object, Memory
    <3>. QED BY <1>5, <1>8, <2>2, <3>1 DEF Informed, Sent
  <2>. QED BY <2>1, <2>2 DEF Informed
<1>10. \/ Fail(s, Validate(r, s))
       \/ /\ Becomes(PublishedUnknown(sent)) /\ updates' = Append(Tail(updates), s)
          /\ phase' = [phase EXCEPT ![s] = "setup2"]
       \/ Finish(s, sent, "live") /\ body = sent.m.published
       \/ Fail(s, sent)
  <2>1. sent = SendTo(r, {s}, lost, Body(r))
    BY <1>2, <1>3, <1>4
  <2>. QED BY <1>2, <2>1, Zenon DEF ContinueSetup
<1>11. CASE Fail(s, Validate(r, s))
  <2>1. PICK checked : checked = Validate(r, s)
    OBVIOUS
  <2>2. Core(checked) /\ Fewer(r, checked) /\ Told(r, checked)
    BY <1>1, <2>1, ValidateKeeps
  <2>3. RoomInv(checked, phase)
    BY <2>2, FewerRoom
  <2>4. Informed(checked, was)
    BY <1>1, <1>8, <2>2, ToldStays
  <2>5. Fail(s, checked) /\ Informed(checked, phase)
    BY <1>7, <1>11, <2>1, <2>4
  <2>. QED BY <2>3, <2>5, FailInforms
<1>12. CASE Fail(s, sent)
  <2>1. Informed(sent, phase)
    BY <1>7, <1>9
  <2>. QED BY <1>6, <1>12, <2>1, FailInforms
<1>13. CASE Finish(s, sent, "live") /\ body = sent.m.published
  <2>1. PICK p : p = "live"
    OBVIOUS
  <2>2. Informed(sent, phase) /\ Finish(s, sent, p)
    BY <1>7, <1>9, <1>13, <2>1
  <2>3. s \notin Eligible(sent.m) \/ sent.k[s].seen = sent.m.published
    BY <1>2, <1>3, <1>5, <1>13 DEF Sent
  <2>4. Informed(Here', phase') /\ room' = sent.m /\ updates' = Tail(updates)
    BY <1>5, <2>2, <2>3, FinishInforms
  <2>. QED BY <1>5, <2>4 DEF Sent
<1>14. CASE /\ Becomes(PublishedUnknown(sent)) /\ updates' = Append(Tail(updates), s)
            /\ phase' = [phase EXCEPT ![s] = "setup2"]
  <2>1. PICK unknown : unknown = PublishedUnknown(sent)
    OBVIOUS
  <2>2. PICK ph : ph = phase'
    OBVIOUS
  <2>3. Informed(unknown, ph) /\ Core(unknown)
    BY <1>5, <1>9, <2>1, UnknownInformed
  <2>4. unknown \in Object
    BY <2>3 DEF Core
  <2>5. Informed(Here', phase')
    BY <1>14, <2>1, <2>2, <2>3, <2>4, BecomesInformed
  <2>6. updates' # <<>>
    <3>1. updates \in Seq(Waiter) /\ s \in Waiter
      BY DEF IInv, Typed, Waiter
    <3>2. Tail(updates) \in Seq(Waiter)
      BY <3>1, HeadTailProperties
    <3>. QED BY <1>14, <3>1, <3>2, AppendProperties
  <2>. QED BY <2>5, <2>6
<1>. QED BY <1>10, <1>11, <1>12, <1>13, <1>14

LEMMA ContinueInforms ==
  ASSUME IInv, updates # <<>>, NEW s \in Socket, s = Head(updates),
         NEW r, RoomInv(r, phase), Informed(r, phase), NEW lost, Continue(s, r, lost)
  PROVE  /\ Informed(Here', phase')
         /\ updates' = <<>> => Tail(updates) = <<>> /\ room'.published = r.m.published
<1>1. Orderly(r) /\ Core(r)
  BY DEF RoomInv, Orderly
<1>2. PICK was : was = phase
  OBVIOUS
<1>3. Informed(r, was)
  BY <1>2
<1>4. CASE phase[s] = "setup" /\ ContinueSetup(s, r, lost)
  BY <1>4, SetupInforms
<1>5. CASE phase[s] = "setup2" /\ Finish(s, r, "live")
  <2>1. PICK p : p = "live"
    OBVIOUS
  <2>2. Finish(s, r, p)
    BY <1>5, <2>1
  <2>3. s \notin Eligible(r.m) \/ r.m.published = None \/ r.k[s].seen = r.m.published
    BY <1>2, <1>3, <1>5 DEF Informed
  <2>4. Informed(Here', phase') /\ room' = r.m /\ updates' = Tail(updates)
    BY <1>1, <2>2, <2>3, FinishInforms
  <2>. QED BY <2>4
<1>6. CASE phase[s] = "setup2" /\ Fail(s, Validate(r, s))
  <2>1. PICK checked : checked = Validate(r, s)
    OBVIOUS
  <2>2. Core(checked) /\ Fewer(r, checked) /\ Told(r, checked)
    BY <1>1, <2>1, ValidateKeeps
  <2>3. RoomInv(checked, phase)
    BY <2>2, FewerRoom
  <2>4. Informed(checked, was)
    BY <1>1, <1>3, <2>2, ToldStays
  <2>5. Fail(s, checked) /\ Informed(checked, phase)
    BY <1>2, <1>6, <2>1, <2>4
  <2>. QED BY <1>6, <2>3, <2>5, FailInforms
<1>7. CASE Finish(s, Release(r, s), "refused")
  <2>1. PICK p : p = "refused"
    OBVIOUS
  <2>2. PICK freed : freed = Release(r, s)
    OBVIOUS
  <2>3. /\ Core(freed) /\ freed.k = r.k /\ freed.m.cleanup = r.m.cleanup
        /\ Eligible(freed.m) = Eligible(r.m) /\ freed.m.due = r.m.due
        /\ freed.m.published = r.m.published /\ Body(freed) = Body(r)
    BY <1>1, <2>2, ReleaseKeeps
  <2>4. Informed(freed, was)
    BY <1>3, <2>3 DEF Informed, Shutting
  <2>5. Finish(s, freed, p) /\ Informed(freed, phase) /\ p \notin {"setup2", "live"}
    BY <1>2, <1>7, <2>1, <2>2, <2>4
  <2>6. Informed(Here', phase') /\ room' = freed.m /\ updates' = Tail(updates)
    BY <2>3, <2>5, FinishInforms
  <2>. QED BY <2>3, <2>6
<1>. QED BY <1>4, <1>5, <1>6, <1>7 DEF Continue

LEMMA ReturnInforms ==
  ASSUME IInv, updates # <<>>, NEW r, RoomInv(r, phase), Informed(r, phase), NEW lost,
         Return(r, lost)
  PROVE  /\ Informed(Here', phase')
         /\ updates' = <<>> => Tail(updates) = <<>> /\ room'.published = r.m.published
<1>1. CASE Head(updates) \in Socket /\ Continue(Head(updates), r, lost)
  <2>1. PICK s \in Socket : s = Head(updates)
    BY <1>1
  <2>2. Continue(s, r, lost)
    BY <1>1, <2>1
  <2>. QED BY <2>1, <2>2, ContinueInforms
<1>2. CASE Becomes(r) /\ updates' = Tail(updates) /\ UNCHANGED phase
  <2>1. r \in Object
    BY DEF RoomInv, Orderly, Core
  <2>2. PICK ph : ph = phase'
    OBVIOUS
  <2>3. Informed(r, ph)
    BY <1>2, <2>2
  <2>4. Informed(Here', phase') /\ room' = r.m
    BY <1>2, <2>1, <2>2, <2>3, BecomesInformed
  <2>. QED BY <1>2, <2>4
<1>. QED BY <1>1, <1>2 DEF Return

\* What Expire leaves of the room.
LEMMA ExpiredInformed ==
  ASSUME IInv, Informed(Here, phase), NEW r, r = Expire(Here)
  PROVE  /\ RoomInv(r, phase) /\ r \in Object /\ Informed(r, phase)
         /\ r.m.published = room.published
<1>1. Core(Here) /\ RoomInv(Here, phase) /\ Here.m = room
  BY RoomTypes DEF IInv
<1>2. PICK h : h = Here
  OBVIOUS
<1>3. PICK ph : ph = phase
  OBVIOUS
<1>4. Core(r) /\ Fewer(h, r) /\ Told(h, r)
  <2>1. Core(h) /\ r = Expire(h)
    BY <1>1, <1>2
  <2>. QED BY <2>1, ExpireKeeps
<1>5. Core(h) /\ Informed(h, ph) /\ RoomInv(h, ph) /\ h.m = room
  BY <1>1, <1>2, <1>3
<1>6. Informed(r, ph) /\ r \in Object
  BY <1>4, <1>5, ToldStays
<1>7. RoomInv(r, ph)
  BY <1>4, <1>5, FewerRoom
<1>. QED BY <1>3, <1>4, <1>5, <1>6, <1>7 DEF Told

LEMMA UpdateInforms ==
  ASSUME IInv, PresenceInv, NEW lost, Update(lost)
  PROVE  PresenceInv'
<1>1. updates # <<>>
  BY DEF Update, IInv, Running
<1>2. PICK r : /\ r = (IF step.at = "put" THEN Here ELSE Expire(Here)) /\ Return(r, lost)
  BY DEF Update
<1>3. /\ RoomInv(r, phase) /\ Informed(r, phase)
      /\ Tail(updates) = <<>> => saved.published = r.m.published
  <2>1. CASE step.at = "put"
    <3>1. r = Here /\ RoomInv(Here, phase) /\ Here.m = room /\ Informed(Here, phase)
      BY <1>2, <2>1, RoomTypes DEF IInv, PresenceInv
    <3>2. Tail(updates) = <<>> => saved.published = room.published
      BY <2>1 DEF PresenceInv, Written
    <3>. QED BY <3>1, <3>2
  <2>2. CASE step.at # "put"
    <3>1. r = Expire(Here)
      BY <1>2, <2>2
    <3>2. RoomInv(r, phase) /\ Informed(r, phase)
      BY <3>1, ExpiredInformed DEF PresenceInv
    <3>3. Schedule(r) = saved
      BY <2>2, <3>1 DEF Update
    <3>. QED BY <3>2, <3>3 DEF Schedule
  <2>. QED BY <2>1, <2>2
<1>4. /\ Informed(Here', phase')
      /\ updates' = <<>> => Tail(updates) = <<>> /\ room'.published = r.m.published
  BY <1>1, <1>2, <1>3, ReturnInforms
<1>5. step'.at # "put" /\ saved' = saved
  BY DEF Update, AtStart
<1>. QED BY <1>3, <1>4, <1>5 DEF PresenceInv, Written

LEMMA PutScheduleInforms ==
  ASSUME IInv, PresenceInv, PutSchedule
  PROVE  PresenceInv'
<1>1. PICK r : r = Expire(Here) /\ Becomes(r) /\ saved' = Schedule(r)
  BY DEF PutSchedule
<1>2. r \in Object /\ Informed(r, phase)
  BY <1>1, ExpiredInformed DEF PresenceInv
<1>3. PICK ph : ph = phase'
  OBVIOUS
<1>4. Informed(r, ph)
  BY <1>2, <1>3 DEF PutSchedule
<1>5. Informed(Here', phase') /\ room' = r.m
  BY <1>1, <1>2, <1>3, <1>4, BecomesInformed
<1>. QED BY <1>1, <1>5 DEF PresenceInv, Written, Schedule

\* Turns that leave the phases and what was shown.
LEMMA TurnInforms ==
  ASSUME IInv, Informed(Here, phase), NEW q, Core(q), Fewer(Here, q), Told(Here, q), Becomes(q),
         UNCHANGED phase
  PROVE  Informed(Here', phase')
<1>1. PICK h : h = Here
  OBVIOUS
<1>2. PICK ph : ph = phase /\ ph = phase'
  OBVIOUS
<1>3. Core(h) /\ Fewer(h, q) /\ Told(h, q) /\ Informed(h, ph)
  BY <1>1, <1>2, RoomTypes
<1>4. Informed(q, ph) /\ q \in Object
  BY <1>3, ToldStays
<1>. QED BY <1>2, <1>4, BecomesInformed

LEMMA RefuseInforms ==
  ASSUME IInv, PresenceInv, NEW s \in Socket, Refuse(s)
  PROVE  PresenceInv'
<1>1. PICK h : h = Here
  OBVIOUS
<1>2. PICK q : q = Release(h, s)
  OBVIOUS
<1>3. Core(h) /\ h.m = room
  BY <1>1, RoomTypes
<1>4. /\ Core(q) /\ q.k = h.k /\ q.m.cleanup = h.m.cleanup
      /\ Eligible(q.m) = Eligible(h.m) /\ q.m.due = h.m.due
      /\ q.m.published = h.m.published /\ Body(q) = Body(h)
  BY <1>2, <1>3, ReleaseKeeps
<1>5. PICK was : was = phase
  OBVIOUS
<1>6. PICK ph : ph = phase'
  OBVIOUS
<1>7. Informed(h, was)
  BY <1>1, <1>5 DEF PresenceInv
<1>8. Informed(q, was)
  BY <1>4, <1>7 DEF Informed, Shutting
<1>9. Becomes(q) /\ phase' = [phase EXCEPT ![s] = "refused"] /\ UNCHANGED <<saved, updates, step>>
  BY <1>1, <1>2 DEF Refuse
<1>10. ph[s] = "refused" /\ \A x \in Socket : x # s => ph[x] = was[x]
  BY <1>5, <1>6, <1>9 DEF IInv, Typed
<1>11. Eligible(q.m) \subseteq Socket /\ q \in Object
  BY <1>4, EligibleTabs DEF Core, Object, Memory
<1>12. Informed(q, ph)
  BY <1>8, <1>10, <1>11, InformedMoved
<1>13. Informed(Here', phase') /\ room' = q.m
  BY <1>6, <1>9, <1>11, <1>12, BecomesInformed
<1>14. Written(updates', step', saved', room')
  BY <1>3, <1>4, <1>9, <1>13, StayWrites
<1>. QED BY <1>13, <1>14 DEF PresenceInv

LEMMA ChargeFailsInforms ==
  ASSUME IInv, PresenceInv, NEW s \in Socket, ChargeFails(s)
  PROVE  PresenceInv'
<1>1. /\ Queue(s) /\ phase' = [phase EXCEPT ![s] = "failing"]
      /\ UNCHANGED <<sock, room, saved, alarm, step>>
  BY DEF ChargeFails
<1>2. PICK h : h = Here
  OBVIOUS
<1>3. h \in Object /\ Becomes(h) /\ Eligible(h.m) \subseteq Socket
  BY <1>1, <1>2, RoomTypes, EligibleTabs DEF Becomes, Here, Object, Memory
<1>4. PICK was : was = phase
  OBVIOUS
<1>5. PICK ph : ph = phase'
  OBVIOUS
<1>6. Informed(h, was)
  BY <1>2, <1>4 DEF PresenceInv
<1>7. ph[s] = "failing" /\ \A x \in Socket : x # s => ph[x] = was[x]
  BY <1>1, <1>4, <1>5 DEF IInv, Typed
<1>8. Informed(h, ph)
  BY <1>3, <1>6, <1>7, InformedMoved
<1>9. Informed(Here', phase')
  BY <1>3, <1>5, <1>8, BecomesInformed
<1>10. Written(updates', step', saved', room')
  <2>1. s \in Waiter
    BY DEF Waiter
  <2>. QED BY <1>1, <2>1, QueueWrites
<1>. QED BY <1>9, <1>10 DEF PresenceInv

LEMMA ReadAlarmInforms ==
  ASSUME PresenceInv, ReadAlarm
  PROVE  PresenceInv'
<1>1. /\ updates # <<>> /\ step' = [at |-> "read", installed |-> alarm]
      /\ UNCHANGED <<sock, room, saved, alarm, updates, phase, faults>>
  BY DEF ReadAlarm
<1>2. Informed(Here', phase')
  <2>1. Here' = Here /\ phase' = phase
    BY <1>1 DEF Here
  <2>. QED BY <2>1 DEF PresenceInv
<1>3. Written(updates', step', saved', room')
  BY <1>1 DEF Written
<1>. QED BY <1>2, <1>3 DEF PresenceInv

LEMMA NotifyInforms ==
  ASSUME IInv, PresenceInv, NEW lost, Notify(lost)
  PROVE  PresenceInv'
<1>1. PICK h : h = Here
  OBVIOUS
<1>2. PICK none \in Seq(Presence) \cup {None} : none = None
  OBVIOUS
<1>3. PICK q : q = SendTo(h, h.m.records, lost, none)
  OBVIOUS
<1>4. Core(h) /\ h.m.records \subseteq Socket /\ h.m = room
  BY <1>1, RoomTypes DEF Object, Memory
<1>5. Core(q) /\ Fewer(h, q) /\ Sent(h, q, h.m.records, none)
  BY <1>3, <1>4, SendToKeeps
<1>6. Told(h, q)
  BY <1>2, <1>5 DEF Sent, Told
<1>7. Becomes(q) /\ Queue(Nobody) /\ UNCHANGED phase /\ step' = step
  BY <1>1, <1>2, <1>3, <1>4 DEF Notify
<1>8. Informed(Here', phase')
  BY <1>1, <1>5, <1>6, <1>7, TurnInforms DEF PresenceInv
<1>9. Written(updates', step', saved', room')
  BY <1>7, QueueWrites DEF Waiter
<1>. QED BY <1>8, <1>9 DEF PresenceInv

LEMMA WebSocketCloseInforms ==
  ASSUME IInv, PresenceInv, NEW s \in Socket, WebSocketClose(s)
  PROVE  PresenceInv'
<1>1. PICK h : h = Here
  OBVIOUS
<1>2. PICK q : q = Invalidate(h, s)
  OBVIOUS
<1>3. Core(h) /\ h.k[s].ready = "closed" /\ s \in h.m.records
  BY <1>1, RoomTypes DEF WebSocketClose
<1>4. Core(q) /\ Fewer(h, q) /\ Told(h, q) /\ s \notin q.m.records
  <2>1. Closable(h, s)
    BY <1>3 DEF Closable
  <2>. QED BY <1>2, <1>3, <2>1, InvalidateFewer, InvalidateKeeps DEF Narrowed
<1>5. Forget(Invalidate(Here, s), s) = q
  BY <1>1, <1>2, <1>4 DEF Forget
<1>6. Becomes(q) /\ Queue(Nobody) /\ UNCHANGED phase /\ step' = step
  BY <1>5 DEF WebSocketClose
<1>7. Informed(Here', phase')
  BY <1>1, <1>4, <1>6, TurnInforms DEF PresenceInv
<1>8. Written(updates', step', saved', room')
  BY <1>6, QueueWrites DEF Waiter
<1>. QED BY <1>7, <1>8 DEF PresenceInv

LEMMA WebSocketErrorInforms ==
  ASSUME IInv, PresenceInv, NEW s \in Socket, WebSocketError(s)
  PROVE  PresenceInv'
<1>1. PICK h : h = Here
  OBVIOUS
<1>2. PICK q : q = IF s \in h.m.records THEN Invalidate(h, s) ELSE h
  OBVIOUS
<1>3. Core(h) /\ h.m = room
  BY <1>1, RoomTypes
<1>4. Core(q) /\ Fewer(h, q) /\ Told(h, q)
  <2>1. CASE q = h
    BY <1>3, <2>1, FewerSelf, ToldSelf
  <2>2. CASE q = Invalidate(h, s) /\ s \in h.m.records
    <3>1. Closable(h, s)
      BY <2>2 DEF Closable
    <3>. QED BY <1>3, <2>2, <3>1, InvalidateFewer DEF Narrowed
  <2>. QED BY <1>2, <2>1, <2>2
<1>5. Becomes(q) /\ Queue(Nobody) /\ UNCHANGED phase /\ step' = step
  BY <1>1, <1>2, <1>3 DEF WebSocketError
<1>6. Informed(Here', phase')
  BY <1>1, <1>4, <1>5, TurnInforms DEF PresenceInv
<1>7. Written(updates', step', saved', room')
  BY <1>5, QueueWrites DEF Waiter
<1>. QED BY <1>6, <1>7 DEF PresenceInv

LEMMA FireInforms ==
  ASSUME IInv, PresenceInv, NEW lost, Fire(lost)
  PROVE  PresenceInv'
<1>1. PICK h : h = Here
  OBVIOUS
<1>2. PICK ph : ph = phase
  OBVIOUS
<1>3. Core(h) /\ Informed(h, ph)
  BY <1>1, <1>2, RoomTypes DEF PresenceInv
<1>4. PICK a : a = Expire(h)
  OBVIOUS
<1>5. PICK b : b = Sweep(a)
  OBVIOUS
<1>6. PICK q : q = Publish(b, lost)
  OBVIOUS
<1>7. Core(a) /\ Informed(a, ph)
  BY <1>3, <1>4, ExpireKeeps, ToldStays
<1>8. Core(b) /\ Informed(b, ph)
  BY <1>5, <1>7, SweepKeeps, ToldStays
<1>9. q \in Object /\ Informed(q, ph)
  BY <1>6, <1>8, PublishKeeps DEF Core
<1>10. Becomes(q) /\ Queue(Alarm) /\ phase' = phase /\ step' = step
  <2>1. Publish(Sweep(Expire(Here)), lost) = q
    BY <1>1, <1>4, <1>5, <1>6
  <2>. QED BY <2>1 DEF Fire
<1>11. Informed(Here', phase')
  BY <1>2, <1>9, <1>10, BecomesInformed
<1>12. Written(updates', step', saved', room')
  BY <1>10, QueueWrites DEF Waiter
<1>. QED BY <1>11, <1>12 DEF PresenceInv

\* Only an update of the alarm that fails may leave what is written behind what
\* was sent.
LEMMA PresenceKept == IInv /\ PresenceInv /\ [Next]_vars /\ [~UpdateFails]_vars => PresenceInv'
<1>. SUFFICES ASSUME IInv, PresenceInv, [Next]_vars, [~UpdateFails]_vars PROVE PresenceInv'
  OBVIOUS
<1>1. CASE \E s \in Socket, p \in Presence, d \in Deadlines : Arrive(s, p, d)
  BY <1>1, ArriveKeeps
<1>2. ASSUME NEW s \in Socket,
             \/ Refuse(s) \/ ChargeFails(s) \/ Accept(s) \/ AcceptFails(s)
             \/ PeerCloses(s) \/ WebSocketClose(s) \/ WebSocketError(s)
      PROVE  PresenceInv'
  BY <1>2, RefuseInforms, ChargeFailsInforms, AcceptKeeps, AcceptFailsKeeps, PeerClosesKeeps,
     WebSocketCloseInforms, WebSocketErrorInforms
<1>3. CASE ReadAlarm \/ PutSchedule
  BY <1>3, ReadAlarmInforms, PutScheduleInforms
<1>4. CASE \E lost \in Losses : Update(lost) \/ Notify(lost) \/ Fire(lost)
  BY <1>4, UpdateInforms, NotifyInforms, FireInforms
<1>5. CASE Hibernate \/ Restart \/ Tick
  BY <1>5, HibernateKeeps, RestartKeeps, TickKeeps
<1>6. CASE UNCHANGED vars
  <2>1. Here' = Here /\ phase' = phase /\ updates' = updates /\ step' = step /\ saved' = saved
        /\ room' = room
    BY <1>6 DEF vars, Here
  <2>. QED BY <2>1 DEF PresenceInv
<1>. QED BY <1>1, <1>2, <1>3, <1>4, <1>5, <1>6 DEF Next

LEMMA PresenceFirst == Init => PresenceInv
<1>. SUFFICES ASSUME Init PROVE PresenceInv
  OBVIOUS
<1>1. /\ sock = [s \in Socket |-> NoSocket] /\ room = EmptyRoom
      /\ saved = [due |-> Never, published |-> <<>>] /\ phase = [s \in Socket |-> "none"]
  BY DEF Init
<1>2. Core(Here) /\ Here.m = room
  BY InitHolds, RoomTypes
<1>3. Body(Here) = <<>>
  <2>1. Body(Here) \in Seq(Presence)
    BY <1>2, BodyTyped
  <2>2. DOMAIN Body(Here) = {}
    BY <1>1 DEF Body, Here, EmptyRoom
  <2>. QED BY <2>1, <2>2
<1>4. Eligible(Here.m) \subseteq {}
  <2>1. Here.m.records = {}
    BY <1>1 DEF Here, EmptyRoom
  <2>. QED BY <1>2, <2>1, EligibleTabs DEF Core
<1>5. Here.m.published = <<>> /\ Here.m.cleanup = {}
  BY <1>1 DEF Here, EmptyRoom
<1>6. Informed(Here, phase)
  BY <1>3, <1>4, <1>5 DEF Informed, Shutting
<1>7. Written(updates, step, saved, room)
  BY <1>1 DEF Written, EmptyRoom
<1>. QED BY <1>6, <1>7 DEF PresenceInv

LEMMA InformedSees == IInv /\ PresenceInv => EveryoneSeesPresence
<1>. SUFFICES ASSUME IInv, PresenceInv, room.due = Never,
                     NEW s \in Eligible(room), phase[s] = "live"
              PROVE  sock[s].seen = Body(Here)
  BY DEF EveryoneSeesPresence
<1>1. Core(Here) /\ Here.m = room /\ Here.k = sock
  BY RoomTypes
<1>2. Body(Here) = room.published
  BY <1>1 DEF PresenceInv, Informed
<1>3. Body(Here) # None
  BY <1>1, BodyTyped, RoomAssumption
<1>. QED BY <1>1, <1>2, <1>3 DEF PresenceInv, Informed

\* As long as no update of the alarm fails, whenever no presence message is due,
\* every connection that counts and has its setup behind it was last shown exactly
\* who is here now: no interleaving of newcomers, closes, expiries, lost sends,
\* hibernation and restarts leaves a viewer with somebody who left, or without
\* somebody who came.
THEOREM PresenceIsSeen == Spec /\ [][~UpdateFails]_vars => []EveryoneSeesPresence
<1>. QED BY Inductive, PresenceFirst, PresenceKept, InformedSees, PTL DEF Spec
===============================================================================
