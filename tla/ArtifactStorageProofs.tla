------------------------ MODULE ArtifactStorageProofs ------------------------
(***************************************************************************)
(* Theorems about ArtifactStorage, for every value of its constants: its   *)
(* types, that it implements ArtifactHistory, and what it promises as long *)
(* as D1 reports what it did.                                              *)
(***************************************************************************)
EXTENDS ArtifactStorage, FiniteSetTheorems, SequenceTheorems, TLAPS

-----------------------------------------------------------------------------
(* Finite cardinalities. *)

\* There are finitely many object keys, so a set of keys has a size.
LEMMA KeysFinite ==
  /\ IsFiniteSet(Key)
  /\ \A ks \in SUBSET Key : IsFiniteSet(ks) /\ Cardinality(ks) \in Nat
<1>1. IsFiniteSet(Key)
  BY FS_Product, StorageAssumption DEF Key
<1>2. ASSUME NEW ks \in SUBSET Key PROVE IsFiniteSet(ks) /\ Cardinality(ks) \in Nat
  BY <1>1, FS_Subset, FS_CardinalityType
<1>. QED BY <1>1, <1>2

\* What is referenced or released is a set of keys.
LEMMA KeySets ==
  ASSUME TypeOK
  PROVE  /\ \A vs \in SUBSET Upload : FilesOf(vs) \in SUBSET Key
         /\ Referenced \in SUBSET Key
         /\ \A u \in Upload : Own(u) \in SUBSET Key /\ Claim(u) \in SUBSET Key
         /\ \A s : VersionsOf(s) \in SUBSET published
         /\ \A s : Candidates(s) \in SUBSET published
BY StorageAssumption DEF TypeOK, FilesOf, Referenced, Own, Claim, VersionsOf, Candidates, Key, Memories, Fields, Job

\* A debit leaves a natural number.
LEMMA DebitNat ==
  ASSUME TypeOK, NEW n \in Nat
  PROVE  Debit(n) \in Nat
BY DEF TypeOK, Debit

-----------------------------------------------------------------------------
(* Type correctness. *)

USE DEF Job

RowsOK ==
  /\ current \in [Shareable -> Upload \cup {None}]
  /\ site \in SUBSET Shareable
  /\ log \in [Shareable -> Seq(Entries)]
  /\ published \in SUBSET Upload
  /\ files \in [Upload -> SUBSET Key]
  /\ content \in [Upload -> SUBSET Key]

BucketOK == Objects \in SUBSET Key /\ bucket \in [Objects -> Time]

LEMMA NoMemoryType == NoMemory \in Memories
BY StorageAssumption DEF NoMemory, Memories, Fields, Time

LEMMA BeginType ==
  ASSUME TypeOK, NEW j \in Job, NEW p \in Phases, NEW kind \in Kinds \cup {"prune", "delete"},
         NEW s \in Shareable, NEW base \in Upload \cup {None}, NEW expected \in Upload \cup {None},
         NEW ks \in SUBSET Key, Begin(j, p, kind, s, base, expected, ks)
  PROVE  TypeOK'
<1>1. [NoMemory EXCEPT !.kind = kind, !.target = s, !.base = base, !.expected = expected,
                       !.begun = now, !.keys = ks] \in Memories
  BY NoMemoryType, StorageAssumption DEF NoMemory, Memories, Fields, TypeOK, Time
<1>2. mem' \in [Job -> Memories]
  BY <1>1 DEF TypeOK, Begin
<1>3. phase' \in [Job -> Phases]
  BY DEF TypeOK, Begin, Goto
<1>. QED
  BY <1>2, <1>3 DEF TypeOK, Begin, rows, quota, cron, Objects

LEMMA BegunPhase ==
  /\ {"begun", "reading", "pruning", "deletable"} \subseteq Phases
  /\ CreateKinds \cup {"page", "append", "site"} \subseteq Kinds
  /\ {} \in SUBSET Key
BY DEF Phases, Kinds, CreateKinds, PageKinds, SiteKinds

LEMMA StartType ==
  ASSUME TypeOK, NEW u \in Upload, Start(u) PROVE TypeOK'
<1>1. PICK s \in Shareable :
        \/ \E kind \in CreateKinds : BeginCreate(u, s, kind)
        \/ BeginAppend(u, s)
        \/ \E expected \in {None, current[s]} : BeginPage(u, s, expected)
        \/ \E base, expected \in {None, current[s]} : BeginSite(u, s, base, expected)
  BY DEF Start
<1>2. current[s] \in Upload \cup {None}
  BY DEF TypeOK
<1>3. ASSUME NEW kind \in CreateKinds, BeginCreate(u, s, kind) PROVE TypeOK'
  <2>1. kind \in Kinds \cup {"prune", "delete"}
    BY DEF CreateKinds, Kinds, PageKinds, SiteKinds
  <2>2. Begin(u, "begun", kind, s, None, None, {})
    BY <1>3 DEF BeginCreate
  <2>. QED BY <2>1, <2>2, BeginType, BegunPhase
<1>4. CASE BeginAppend(u, s)
  BY <1>2, <1>4, BeginType DEF BeginAppend, Kinds, PageKinds, Phases
<1>5. ASSUME NEW expected \in {None, current[s]}, BeginPage(u, s, expected) PROVE TypeOK'
  <2>1. expected \in Upload \cup {None}
    BY <1>2
  <2>2. Begin(u, "begun", "page", s, None, expected, {})
    BY <1>5 DEF BeginPage
  <2>. QED BY <2>1, <2>2, BeginType, BegunPhase
<1>6. ASSUME NEW base \in {None, current[s]}, NEW expected \in {None, current[s]},
             BeginSite(u, s, base, expected)
      PROVE  TypeOK'
  <2>1. base \in Upload \cup {None} /\ expected \in Upload \cup {None}
    BY <1>2
  <2>2. Begin(u, "begun", "site", s, base, expected, {})
    BY <1>6 DEF BeginSite
  <2>. QED BY <2>1, <2>2, BeginType, BegunPhase
<1>. QED BY <1>1, <1>3, <1>4, <1>5, <1>6

\* The steps most actions are made of.
LEMMA GotoType ==
  ASSUME TypeOK, NEW j \in Job, NEW p \in Phases, Goto(j, p)
  PROVE  phase' \in [Job -> Phases]
BY DEF TypeOK, Goto

LEMMA RememberType ==
  ASSUME TypeOK, NEW j \in Job, NEW m \in Memories, mem' = [mem EXCEPT ![j] = m]
  PROVE  mem' \in [Job -> Memories]
BY DEF TypeOK

LEMMA EndType ==
  ASSUME TypeOK, NEW j \in Job, NEW p \in Phases, End(j, p)
  PROVE  phase' \in [Job -> Phases] /\ mem' \in [Job -> Memories]
BY GotoType, RememberType, NoMemoryType DEF End

LEMMA UndoType ==
  ASSUME TypeOK, NEW u \in Upload, NEW m \in Memories, Undo(u, m)
  PROVE  phase' \in [Job -> Phases] /\ mem' \in [Job -> Memories]
<1>1. "undo" \in Phases
  BY DEF Phases
<1>. QED BY <1>1, GotoType, RememberType DEF Undo

LEMMA BucketType ==
  ASSUME TypeOK
  PROVE  /\ \A k \in Key : bucket' = WithObject(k) => BucketOK'
         /\ \A gone : bucket' = Without(gone) => BucketOK'
         /\ bucket' = bucket => BucketOK'
BY DEF TypeOK, BucketOK, Objects, WithObject, Without

\* A step of requests only: the rows, the jobs and the clock stay.
LEMMA RequestType ==
  ASSUME TypeOK, UNCHANGED <<rows, cron, now>>,
         phase' \in [Job -> Phases], mem' \in [Job -> Memories],
         used' \in Nat, usedAt' \in Time, BucketOK'
  PROVE  TypeOK'
BY DEF TypeOK, BucketOK, rows, cron

LEMMA AdvancePhases ==
  {"idle", "begun", "reserved", "stored", "undo", "pruning", "picked", "cleaning", "deleting",
   "done", "dead"} \subseteq Phases
BY DEF Phases

\* The memory of a running request, and the updates requests make to it.
LEMMA MemoryType ==
  ASSUME TypeOK, NEW j \in Job
  PROVE  /\ mem[j] \in Memories
         /\ \A b \in SUBSET Key : [mem[j] EXCEPT !.body = b] \in Memories
         /\ \A ps \in SUBSET Path : [mem[j] EXCEPT !.sent = ps] \in Memories
         /\ \A td \in SUBSET {"object", "quota"} : [mem[j] EXCEPT !.todo = td] \in Memories
         /\ \A ks \in SUBSET Key : [mem[j] EXCEPT !.keys = ks] \in Memories
         /\ \A vs \in SUBSET Upload : [mem[j] EXCEPT !.picked = vs] \in Memories
         /\ \A vs \in SUBSET Upload, ks \in SUBSET Key :
              [mem[j] EXCEPT !.picked = vs, !.keys = ks] \in Memories
         /\ \A td \in SUBSET {"object", "quota"}, ps \in SUBSET Path :
              [mem[j] EXCEPT !.todo = td, !.sent = ps] \in Memories
<1>1. mem[j] \in Memories
  BY DEF TypeOK
<1>. QED BY <1>1 DEF Memories, Fields

LEMMA UpdateType ==
  ASSUME TypeOK, NEW j \in Job
  PROVE  /\ \A b \in SUBSET Key : mem' = [mem EXCEPT ![j].body = b] => mem' \in [Job -> Memories]
         /\ \A ps \in SUBSET Path : mem' = [mem EXCEPT ![j].sent = ps] => mem' \in [Job -> Memories]
         /\ \A td \in SUBSET {"object", "quota"} :
              mem' = [mem EXCEPT ![j].todo = td] => mem' \in [Job -> Memories]
         /\ \A ks \in SUBSET Key : mem' = [mem EXCEPT ![j].keys = ks] => mem' \in [Job -> Memories]
         /\ \A vs \in SUBSET Upload :
              mem' = [mem EXCEPT ![j].picked = vs] => mem' \in [Job -> Memories]
         /\ \A vs \in SUBSET Upload, ks \in SUBSET Key :
              mem' = [mem EXCEPT ![j].picked = vs, ![j].keys = ks] => mem' \in [Job -> Memories]
<1>. USE MemoryType
<1>0. mem \in [Job -> Memories]
  BY DEF TypeOK
<1>1. ASSUME NEW b \in SUBSET Key, mem' = [mem EXCEPT ![j].body = b] PROVE mem' \in [Job -> Memories]
  <2>1. mem' = [mem EXCEPT ![j] = [mem[j] EXCEPT !.body = b]]
    BY <1>1
  <2>. QED BY <1>0, <2>1
<1>2. ASSUME NEW ps \in SUBSET Path, mem' = [mem EXCEPT ![j].sent = ps] PROVE mem' \in [Job -> Memories]
  <2>1. mem' = [mem EXCEPT ![j] = [mem[j] EXCEPT !.sent = ps]]
    BY <1>2
  <2>. QED BY <1>0, <2>1
<1>3. ASSUME NEW td \in SUBSET {"object", "quota"}, mem' = [mem EXCEPT ![j].todo = td] PROVE mem' \in [Job -> Memories]
  <2>1. mem' = [mem EXCEPT ![j] = [mem[j] EXCEPT !.todo = td]]
    BY <1>3
  <2>. QED BY <1>0, <2>1
<1>4. ASSUME NEW ks \in SUBSET Key, mem' = [mem EXCEPT ![j].keys = ks] PROVE mem' \in [Job -> Memories]
  <2>1. mem' = [mem EXCEPT ![j] = [mem[j] EXCEPT !.keys = ks]]
    BY <1>4
  <2>. QED BY <1>0, <2>1
<1>5. ASSUME NEW vs \in SUBSET Upload, mem' = [mem EXCEPT ![j].picked = vs] PROVE mem' \in [Job -> Memories]
  <2>1. mem' = [mem EXCEPT ![j] = [mem[j] EXCEPT !.picked = vs]]
    BY <1>5
  <2>. QED BY <1>0, <2>1
<1>6. ASSUME NEW vs \in SUBSET Upload, NEW ks \in SUBSET Key,
             mem' = [mem EXCEPT ![j].picked = vs, ![j].keys = ks]
      PROVE  mem' \in [Job -> Memories]
  <2>1. mem' = [mem EXCEPT ![j] = [mem[j] EXCEPT !.picked = vs, !.keys = ks]]
    BY <1>0, <1>6
  <2>. QED BY <1>0, <2>1
<1>. QED BY <1>1, <1>2, <1>3, <1>4, <1>5, <1>6

\* What a request finds in its memory, and the counter's writes.
LEMMA FieldTypes ==
  ASSUME TypeOK, NEW j \in Job
  PROVE  /\ mem[j].kind \in Kinds \cup {"none", "prune", "delete"}
         /\ mem[j].target \in Shareable \cup {None}
         /\ mem[j].kind # "none" => mem[j].target \in Shareable
         /\ mem[j].base \in Upload \cup {None}
         /\ mem[j].begun \in Time
         /\ mem[j].body \in SUBSET Key /\ mem[j].keys \in SUBSET Key
         /\ mem[j].sent \in SUBSET Path
         /\ mem[j].todo \in SUBSET {"object", "quota"}
         /\ mem[j].picked \in SUBSET Upload
BY MemoryType DEF Memories, Fields

LEMMA ReserveType ==
  ASSUME TypeOK, NEW u \in Upload, NEW n \in Nat, Reserve(u, n)
  PROVE  used' \in Nat /\ usedAt' \in Time
BY FieldTypes DEF Reserve, TypeOK

LEMMA OwnKeys ==
  ASSUME NEW u \in Upload PROVE \A p \in Path : <<u, p>> \in Key
BY DEF Key

\* Publishing rows of known type leaves the rows typed.
LEMMA PublishType ==
  ASSUME TypeOK, NEW u \in Upload,
         NEW op \in {"create", "replace", "append", "edit"},
         NEW fs \in SUBSET Key, NEW body \in SUBSET Key, Publish(u, op, fs, body),
         site' \in SUBSET Shareable
  PROVE  RowsOK'
<1>1. log' \in [Shareable -> Seq(Entries)]
  <2>1. [id |-> u, op |-> op] \in Entries
    BY DEF Entries
  <2>2. \A s \in Shareable : Append(log[s], [id |-> u, op |-> op]) \in Seq(Entries)
    BY <2>1 DEF TypeOK
  <2>. QED BY <2>2 DEF TypeOK, Publish
<1>2. current' \in [Shareable -> Upload \cup {None}]
  BY DEF TypeOK, Publish
<1>3. published' \in SUBSET Upload /\ files' \in [Upload -> SUBSET Key]
  BY DEF TypeOK, Publish
<1>4. content' \in [Upload -> SUBSET Key]
  BY DEF TypeOK, Publish
<1>. QED BY <1>1, <1>2, <1>3, <1>4 DEF RowsOK

LEMMA CommitType ==
  ASSUME TypeOK, NEW u \in Upload, Commit(u)
  PROVE  RowsOK'
<1>. DEFINE own == {<<u, Entry>>}
<1>1. own \in SUBSET Key /\ Own(u) \in SUBSET Key /\ mem[u].body \cup own \in SUBSET Key
  BY OwnKeys, KeySets, FieldTypes, StorageAssumption
<1>. HIDE DEF own
<1>2. CASE CommitNewPage(u)
  BY <1>1, <1>2, PublishType DEF CommitNewPage, TypeOK, own
<1>3. CASE CommitPage(u)
  BY <1>1, <1>3, PublishType DEF CommitPage, TypeOK, own
<1>4. CASE CommitNewSite(u)
  <2>1. Publish(u, "create", Own(u), Own(u))
    BY <1>4 DEF CommitNewSite
  <2>2. site' \in SUBSET Shareable
    BY <1>4, FieldTypes DEF CommitNewSite, TypeOK
  <2>. QED BY <2>1, <2>2, <1>1, PublishType
<1>5. CASE CommitSite(u)
  <2>1. PICK deleted \in SUBSET (Path \ mem[u].sent) :
          LET base      == IF mem[u].base = None THEN {} ELSE files[mem[u].base]
              inherited == {k \in base : k[2] \notin deleted \cup mem[u].sent}
              manifest  == inherited \cup Own(u)
          IN  Publish(u, IF mem[u].base = None THEN "replace" ELSE "edit", manifest, manifest)
    BY <1>5 DEF CommitSite
  <2>. DEFINE base     == IF mem[u].base = None THEN {} ELSE files[mem[u].base]
              manifest == {k \in base : k[2] \notin deleted \cup mem[u].sent} \cup Own(u)
              op       == IF mem[u].base = None THEN "replace" ELSE "edit"
  <2>2. base \in SUBSET Key
    BY FieldTypes DEF TypeOK
  <2>3. manifest \in SUBSET Key /\ op \in {"create", "replace", "append", "edit"}
    BY <2>2, <1>1
  <2>4. Publish(u, op, manifest, manifest) /\ site' \in SUBSET Shareable
    BY <2>1, <1>5 DEF CommitSite, TypeOK
  <2>. HIDE DEF manifest, op
  <2>. QED BY <2>3, <2>4, PublishType
<1>. QED BY <1>2, <1>3, <1>4, <1>5 DEF Commit

LEMMA RowsUnchanged ==
  ASSUME TypeOK, UNCHANGED rows PROVE RowsOK'
BY DEF TypeOK, RowsOK, rows

LEMMA BucketUnchanged ==
  ASSUME TypeOK, UNCHANGED bucket PROVE BucketOK'
BY DEF TypeOK, BucketOK, Objects

\* Everything but the jobs and the clock.
LEMMA JobType ==
  ASSUME TypeOK, UNCHANGED <<cron, now>>, RowsOK', BucketOK',
         used' \in Nat, usedAt' \in Time,
         phase' \in [Job -> Phases], mem' \in [Job -> Memories]
  PROVE  TypeOK'
BY DEF TypeOK, RowsOK, BucketOK, cron

LEMMA SentFinite ==
  ASSUME TypeOK, NEW u \in Upload
  PROVE  Cardinality(mem[u].sent) \in Nat
BY FieldTypes, StorageAssumption, FS_Subset, FS_CardinalityType

LEMMA UndoneType ==
  ASSUME TypeOK, NEW u \in Upload, NEW t \in {"object", "quota"}, Undone(u, t)
  PROVE  phase' \in [Job -> Phases] /\ mem' \in [Job -> Memories]
<1>1. CASE mem[u].todo = {t}
  BY <1>1, EndType, AdvancePhases DEF Undone
<1>2. CASE mem[u].todo # {t}
  <2>1. mem[u].todo \ {t} \in SUBSET {"object", "quota"}
    BY FieldTypes
  <2>2. mem' = [mem EXCEPT ![u].todo = mem[u].todo \ {t}] /\ phase' = phase
    BY <1>2 DEF Undone, TypeOK
  <2>. QED BY <2>1, <2>2, UpdateType DEF TypeOK
<1>. QED BY <1>1, <1>2

\* Every step of a running upload.
LEMMA AdvanceType ==
  ASSUME TypeOK, NEW u \in Upload, Advance(u) PROVE TypeOK'
<1>. USE FieldTypes, AdvancePhases
<1>0. Entry \in Path /\ {Entry} \in SUBSET Path /\ \A p \in Path : <<u, p>> \in Key
  BY OwnKeys, StorageAssumption
<1>1. CASE ReadSource(u)
  <2>1. phase' \in [Job -> Phases] /\ mem' \in [Job -> Memories]
    <3>1. CASE <<mem[u].base, Entry>> \in Objects
      <4>1. mem[u].base \in Upload
        BY <3>1 DEF TypeOK, Key
      <4>2. content[mem[u].base] \in SUBSET Key
        BY <4>1 DEF TypeOK
      <4>. QED BY <1>1, <3>1, <4>2, GotoType, UpdateType DEF ReadSource
    <3>2. CASE <<mem[u].base, Entry>> \notin Objects
      BY <1>1, <3>2, EndType DEF ReadSource
    <3>. QED BY <3>1, <3>2
  <2>. QED BY <1>1, <2>1 DEF ReadSource, TypeOK, rows, quota, cron, Objects
<1>2. CASE ReservePage(u)
  <2>1. phase' \in [Job -> Phases]
    BY <1>2, GotoType DEF ReservePage
  <2>2. used' \in Nat /\ usedAt' \in Time
    BY <1>2, ReserveType DEF ReservePage
  <2>. QED BY <1>2, <2>1, <2>2 DEF ReservePage, TypeOK, rows, cron, Objects
<1>3. CASE RefusePage(u)
  BY <1>3, EndType DEF RefusePage, TypeOK, rows, quota, cron, Objects
<1>4. CASE PutPage(u)
  <2>1. phase' \in [Job -> Phases] /\ mem' \in [Job -> Memories]
    <3>1. mem' = [mem EXCEPT ![u].sent = {Entry}]
      BY <1>4 DEF PutPage
    <3>2. mem' \in [Job -> Memories]
      BY <3>1, <1>0, UpdateType
    <3>. QED BY <1>4, <3>2, GotoType DEF PutPage
  <2>2. BucketOK'
    BY <1>4, <1>0, BucketType DEF PutPage
  <2>. QED BY <1>4, <2>1, <2>2, RequestType DEF PutPage, TypeOK, quota
<1>5. CASE PutPageFails(u)
  <2>1. phase' \in [Job -> Phases] /\ mem' \in [Job -> Memories]
    BY <1>5, MemoryType, UndoType DEF PutPageFails
  <2>2. BucketOK'
    BY <1>5, <1>0, BucketType DEF PutPageFails
  <2>. QED BY <1>5, <2>1, <2>2, RequestType DEF PutPageFails, TypeOK, quota
<1>6. ASSUME NEW p \in Path, AddFile(u, p) PROVE TypeOK'
  <2>1. mem[u].sent \cup {p} \in SUBSET Path
    OBVIOUS
  <2>2. mem' = [mem EXCEPT ![u].sent = mem[u].sent \cup {p}]
    BY <1>6 DEF AddFile, TypeOK
  <2>3. mem' \in [Job -> Memories]
    BY <2>1, <2>2, UpdateType
  <2>4. BucketOK'
    BY <1>6, <1>0, BucketType DEF AddFile
  <2>. QED BY <1>6, <2>3, <2>4, RequestType DEF AddFile, TypeOK, quota
<1>7. CASE AbortSite(u)
  <2>1. ASSUME bucket' = bucket, Undo(u, [mem[u] EXCEPT !.todo = {"object"}]) PROVE TypeOK'
    <3>1. phase' \in [Job -> Phases] /\ mem' \in [Job -> Memories]
      BY <2>1, MemoryType, UndoType
    <3>. QED BY <1>7, <2>1, <3>1, BucketUnchanged, RequestType DEF AbortSite, TypeOK, quota
  <2>2. ASSUME NEW p \in Path \ mem[u].sent, bucket' = WithObject(<<u, p>>),
               Undo(u, [mem[u] EXCEPT !.todo = {"object"}, !.sent = @ \cup {p}])
        PROVE  TypeOK'
    <3>1. [mem[u] EXCEPT !.todo = {"object"}, !.sent = mem[u].sent \cup {p}] \in Memories
      BY MemoryType
    <3>2. phase' \in [Job -> Phases] /\ mem' \in [Job -> Memories]
      BY <2>2, <3>1, UndoType DEF Memories, Fields
    <3>3. BucketOK'
      BY <2>2, <1>0, BucketType
    <3>. QED BY <1>7, <3>2, <3>3, RequestType DEF AbortSite, TypeOK, quota
  <2>. QED BY <1>7, <2>1, <2>2 DEF AbortSite
<1>8. CASE ReserveSite(u)
  <2>1. phase' \in [Job -> Phases]
    BY <1>8, GotoType DEF ReserveSite
  <2>2. used' \in Nat /\ usedAt' \in Time
    BY <1>8, SentFinite, ReserveType DEF ReserveSite, quota, TypeOK
  <2>. QED BY <1>8, <2>1, <2>2 DEF ReserveSite, TypeOK, rows, cron, Objects
<1>9. CASE Commits(u)
  <2>1. RowsOK'
    BY <1>9, CommitType DEF Commits
  <2>2. phase' \in [Job -> Phases] /\ mem' \in [Job -> Memories]
    <3>1. CASE mem[u].kind \in CreateKinds
      BY <1>9, <3>1, EndType DEF Commits
    <3>2. CASE mem[u].kind \notin CreateKinds
      <4>1. [NoMemory EXCEPT !.target = mem[u].target, !.begun = mem[u].begun] \in Memories
        BY NoMemoryType DEF NoMemory, Memories, Fields
      <4>. QED BY <1>9, <3>2, <4>1, GotoType, RememberType DEF Commits
    <3>. QED BY <3>1, <3>2
  <2>. QED BY <1>9, <2>1, <2>2, JobType, BucketUnchanged DEF Commits, TypeOK, quota
<1>10. CASE CommitRefused(u)
  <2>1. phase' \in [Job -> Phases] /\ mem' \in [Job -> Memories]
    BY <1>10, MemoryType, UndoType DEF CommitRefused
  <2>. QED BY <1>10, <2>1, BucketUnchanged, RequestType DEF CommitRefused, TypeOK, quota
<1>11. CASE CommitReplyLost(u)
  <2>1. phase' \in [Job -> Phases] /\ mem' \in [Job -> Memories]
    BY <1>11, MemoryType, UndoType DEF CommitReplyLost
  <2>2. RowsOK'
    BY <1>11, CommitType DEF CommitReplyLost
  <2>. QED BY <1>11, <2>1, <2>2, JobType, BucketUnchanged DEF CommitReplyLost, TypeOK, quota
<1>12. CASE UndoObjects(u)
  <2>1. phase' \in [Job -> Phases] /\ mem' \in [Job -> Memories]
    BY <1>12, UndoneType DEF UndoObjects
  <2>2. BucketOK'
    BY <1>12, BucketType DEF UndoObjects
  <2>. QED BY <1>12, <2>1, <2>2, RequestType DEF UndoObjects, TypeOK, quota
<1>13. CASE UndoQuota(u)
  <2>1. phase' \in [Job -> Phases] /\ mem' \in [Job -> Memories]
    BY <1>13, UndoneType DEF UndoQuota
  <2>2. used' \in Nat /\ usedAt' \in Time
    BY <1>13, KeySets, KeysFinite, DebitNat DEF UndoQuota
  <2>. QED BY <1>13, <2>1, <2>2, BucketUnchanged, RequestType DEF UndoQuota, TypeOK
<1>. QED BY <1>1, <1>2, <1>3, <1>4, <1>5, <1>6, <1>7, <1>8, <1>9, <1>10, <1>11, <1>12, <1>13
         DEF Advance

LEMMA RemoveType ==
  ASSUME TypeOK, NEW vs \in SUBSET Upload, Remove(vs)
  PROVE  /\ published' \in SUBSET Upload /\ files' \in [Upload -> SUBSET Key]
         /\ used' \in Nat /\ usedAt' \in Time
<1>1. ReleasedObjects(vs) \in SUBSET Key
  BY KeySets DEF ReleasedObjects
<1>2. used' \in Nat
  BY <1>1, KeysFinite, DebitNat DEF Remove
<1>. QED BY <1>2 DEF Remove, TypeOK

\* Every step that removes versions and their objects.
LEMMA CleanType ==
  ASSUME TypeOK, NEW j \in Job, Clean(j) PROVE TypeOK'
<1>. USE AdvancePhases
<1>0. Candidates(mem[j].target) \in SUBSET Upload
  BY KeySets DEF TypeOK
<1>1. CASE PruneSelect(j)
  <2>1. mem' \in [Job -> Memories]
    BY <1>1, <1>0, UpdateType DEF PruneSelect
  <2>2. phase' \in [Job -> Phases]
    BY <1>1, GotoType DEF PruneSelect
  <2>. QED BY <1>1, <2>1, <2>2, BucketUnchanged, RequestType DEF PruneSelect, TypeOK, quota
<1>2. CASE PruneBatch(j)
  <2>. DEFINE ids == mem[j].picked \cap Candidates(mem[j].target)
  <2>1. ids \in SUBSET Upload /\ FilesOf(ids) \in SUBSET Key
    BY <1>0, KeySets
  <2>2. mem' \in [Job -> Memories]
    <3>1. mem[j].keys \cup FilesOf(ids) \in SUBSET Key
      BY <2>1, FieldTypes
    <3>2. mem' = [mem EXCEPT ![j].picked = {}, ![j].keys = mem[j].keys \cup FilesOf(ids)]
      BY <1>2 DEF PruneBatch, TypeOK
    <3>. HIDE DEF ids
    <3>. QED BY <3>1, <3>2, UpdateType
  <2>3. /\ published' \in SUBSET Upload /\ files' \in [Upload -> SUBSET Key]
        /\ used' \in Nat /\ usedAt' \in Time
    <3>1. Remove(ids) \/ UNCHANGED <<published, files, quota>>
      BY <1>2 DEF PruneBatch
    <3>. HIDE DEF ids
    <3>. QED BY <2>1, <3>1, RemoveType DEF TypeOK, quota
  <2>4. phase' \in [Job -> Phases]
    BY <1>2, GotoType DEF PruneBatch
  <2>. QED BY <1>2, <2>2, <2>3, <2>4, BucketUnchanged, JobType DEF PruneBatch, TypeOK, RowsOK
<1>3. CASE CleanCheck(j)
  <2>1. mem' = [mem EXCEPT ![j].keys = mem[j].keys \ Referenced]
    BY <1>3 DEF CleanCheck, TypeOK
  <2>2. mem' \in [Job -> Memories]
    <3>1. mem[j].keys \ Referenced \in SUBSET Key
      BY FieldTypes
    <3>. QED BY <2>1, <3>1, UpdateType
  <2>3. phase' \in [Job -> Phases]
    BY <1>3, GotoType DEF CleanCheck
  <2>. QED BY <1>3, <2>2, <2>3, BucketUnchanged, RequestType DEF CleanCheck, TypeOK, quota
<1>4. CASE CleanDelete(j)
  <2>1. BucketOK'
    BY <1>4, BucketType DEF CleanDelete
  <2>2. phase' \in [Job -> Phases] /\ mem' \in [Job -> Memories]
    BY <1>4, EndType DEF CleanDelete
  <2>. QED BY <1>4, <2>1, <2>2, RequestType DEF CleanDelete, TypeOK, quota
<1>. QED BY <1>1, <1>2, <1>3, <1>4 DEF Clean

LEMMA DeleterType ==
  ASSUME TypeOK, NEW d \in Deleter, StartDelete(d) \/ DeleteBatch(d) PROVE TypeOK'
<1>1. CASE StartDelete(d)
  <2>1. PICK s \in Shareable : BeginPrune(d, s) \/ BeginDelete(d, s)
    BY <1>1 DEF StartDelete
  <2>2. CASE BeginPrune(d, s)
    <3>1. Begin(d, "pruning", "prune", s, None, None, {})
      BY <2>2 DEF BeginPrune
    <3>. QED BY <3>1, BeginType, BegunPhase
  <2>3. CASE BeginDelete(d, s)
    <3>1. Begin(d, "deletable", "delete", s, None, None, FilesOf(VersionsOf(s)))
      BY <2>3 DEF BeginDelete
    <3>2. FilesOf(VersionsOf(s)) \in SUBSET Key
      BY KeySets DEF TypeOK
    <3>. QED BY <3>1, <3>2, BeginType, BegunPhase
  <2>. QED BY <2>1, <2>2, <2>3
<1>2. CASE DeleteBatch(d)
  <2>. DEFINE s == mem[d].target
  <2>1. CASE current[s] = None
    BY <1>2, <2>1, EndType, AdvancePhases, BucketUnchanged, RequestType
       DEF DeleteBatch, TypeOK, quota
  <2>2. CASE current[s] # None
    <3>1. VersionsOf(s) \in SUBSET Upload
      BY KeySets DEF TypeOK
    <3>2. /\ published' \in SUBSET Upload /\ files' \in [Upload -> SUBSET Key]
          /\ used' \in Nat /\ usedAt' \in Time
      BY <1>2, <2>2, <3>1, RemoveType DEF DeleteBatch
    <3>3. current' \in [Shareable -> Upload \cup {None}]
      BY <1>2, <2>2 DEF DeleteBatch, TypeOK
    <3>4. phase' \in [Job -> Phases]
      BY <1>2, <2>2, GotoType, AdvancePhases DEF DeleteBatch
    <3>5. RowsOK'
      BY <1>2, <2>2, <3>2, <3>3 DEF DeleteBatch, TypeOK, RowsOK
    <3>. QED BY <1>2, <2>2, <3>2, <3>4, <3>5, BucketUnchanged, JobType DEF DeleteBatch, TypeOK
  <2>. QED BY <2>1, <2>2
<1>. QED BY <1>1, <1>2

\* The daily jobs.
LEMMA CronType ==
  ASSUME TypeOK, QuotaCron \/ OrphanCron \/ VerifyCron PROVE TypeOK'
<1>0. /\ Referenced \in SUBSET Key /\ Cardinality(Referenced) \in Nat
      /\ now \in Int /\ QuotaGrace \in Int /\ ObjectGrace \in Int
      /\ Objects \in SUBSET Key
  BY KeySets, KeysFinite, StorageAssumption DEF TypeOK, Time
<1>1. NoScan \in Scans /\ NoCount \in Counts
  BY DEF NoScan, NoCount, Scans, Counts
<1>2. CASE QuotaCron
  <2>1. quotaScan' \in Counts /\ used' \in Nat
    <3>1. CASE QuotaSelect
      BY <1>0, <3>1 DEF QuotaSelect, TypeOK, Counts, quota
    <3>2. CASE QuotaUpdate
      BY <1>1, <3>2 DEF QuotaUpdate, TypeOK, Counts
    <3>. QED BY <1>2, <3>1, <3>2 DEF QuotaCron
  <2>2. UNCHANGED <<rows, usedAt, bucket, phase, mem, orphanScan, verifyScan, alarm, now>>
    BY <1>2 DEF QuotaCron, QuotaSelect, QuotaUpdate, quota
  <2>. QED BY <2>1, <2>2 DEF TypeOK, rows, Objects
<1>3. CASE OrphanCron
  <2>1. orphanScan' \in Scans
    <3>1. CASE OrphanRead
      BY <1>0, <3>1 DEF OrphanRead, Scans
    <3>2. CASE OrphanList
      BY <1>0, <3>2 DEF OrphanList, TypeOK, Scans
    <3>3. CASE \E gone \in SUBSET orphanScan.keys : OrphanDelete(gone)
      BY <1>1, <3>3 DEF OrphanDelete
    <3>. QED BY <1>3, <3>1, <3>2, <3>3 DEF OrphanCron
  <2>2. BucketOK'
    BY <1>3, BucketType DEF OrphanCron, OrphanRead, OrphanList, OrphanDelete
  <2>3. UNCHANGED <<rows, quota, phase, mem, quotaScan, verifyScan, alarm, now>>
    BY <1>3 DEF OrphanCron, OrphanRead, OrphanList, OrphanDelete
  <2>. QED BY <2>1, <2>2, <2>3 DEF TypeOK, BucketOK, rows, quota
<1>4. CASE VerifyCron
  <2>1. verifyScan' \in Scans /\ alarm' \in BOOLEAN
    <3>1. CASE VerifyRead
      BY <1>0, <3>1 DEF VerifyRead, TypeOK, Scans
    <3>2. CASE VerifyList
      BY <1>0, <3>2 DEF VerifyList, TypeOK, Scans
    <3>3. CASE VerifyRecheck
      BY <1>1, <3>3 DEF VerifyRecheck, TypeOK
    <3>. QED BY <1>4, <3>1, <3>2, <3>3 DEF VerifyCron
  <2>2. UNCHANGED <<rows, quota, bucket, phase, mem, quotaScan, orphanScan, now>>
    BY <1>4 DEF VerifyCron, VerifyRead, VerifyList, VerifyRecheck
  <2>. QED BY <2>1, <2>2 DEF TypeOK, rows, quota, Objects
<1>. QED BY <1>2, <1>3, <1>4

\* TypeOK is inductive.
LEMMA InitType == Init => TypeOK
<1>. SUFFICES ASSUME Init PROVE TypeOK
  OBVIOUS
<1>1. NoMemory \in Memories /\ NoScan \in Scans /\ NoCount \in Counts /\ 0 \in Time
  BY NoMemoryType, StorageAssumption DEF NoScan, NoCount, Scans, Counts, Time
<1>2. \A s \in Shareable : <<>> \in Seq(Entries)
  OBVIOUS
<1>. QED BY <1>1, <1>2 DEF Init, TypeOK, Phases, Objects

LEMMA NextType ==
  ASSUME TypeOK, [Next]_vars PROVE TypeOK'
<1>1. ASSUME NEW u \in Upload, Start(u) \/ Advance(u) PROVE TypeOK'
  BY <1>1, StartType, AdvanceType
<1>2. ASSUME NEW d \in Deleter, StartDelete(d) \/ DeleteBatch(d) PROVE TypeOK'
  BY <1>2, DeleterType
<1>3. ASSUME NEW j \in Job, Clean(j) PROVE TypeOK'
  BY <1>3, CleanType
<1>4. ASSUME NEW j \in Job, Crash(j) PROVE TypeOK'
  <2>1. phase' \in [Job -> Phases] /\ mem' \in [Job -> Memories]
    BY <1>4, EndType, AdvancePhases DEF Crash
  <2>. QED BY <1>4, <2>1, BucketUnchanged, RequestType DEF Crash, TypeOK, quota
<1>5. CASE QuotaCron \/ OrphanCron \/ VerifyCron
  BY <1>5, CronType
<1>6. CASE Tick
  BY <1>6, StorageAssumption DEF Tick, TypeOK, Time, rows, quota, cron, Objects
<1>7. CASE UNCHANGED vars
  BY <1>7 DEF vars, rows, quota, cron, TypeOK, Objects
<1>. QED BY <1>1, <1>2, <1>3, <1>4, <1>5, <1>6, <1>7 DEF Next

\* Every variable keeps its type, whatever interleaves and whatever dies.
THEOREM TypeCorrect == Spec => []TypeOK
BY InitType, NextType, PTL DEF Spec

-----------------------------------------------------------------------------
(***************************************************************************)
(* Publication implements ArtifactHistory, for every value of the          *)
(* constants and whether or not D1 loses replies: an artifact's versions   *)
(* are made one from the other, however long ago a request read the one it *)
(* replaces, and the current version is always one of them.                *)
(*                                                                         *)
(* What an append or an edit has read stays what it read: the content of   *)
(* a version never changes once it is published, and the commit demands    *)
(* that the version read is still the current one.  A contribution is the  *)
(* key of an upload; an upload that has not published is in no version, so *)
(* what it adds is new.                                                    *)
(***************************************************************************)

Unpublished(j) == phase[j] \in {"idle", "reading", "begun", "reserved", "stored"}

\* An upload that may still publish is among no artifact's versions, and none
\* is among those of two.
LoggedOnce ==
  \A s \in Shareable : \A i \in DOMAIN log[s] :
    /\ ~Unpublished(log[s][i].id)
    /\ \A t \in Shareable : \A k \in DOMAIN log[t] : log[s][i].id = log[t][k].id => s = t

\* The current version is the last one published, and its row is there.
CurrentLast ==
  \A s \in Shareable : current[s] # None =>
    /\ log[s] # <<>> /\ current[s] = log[s][Len(log[s])].id
    /\ current[s] \in published

\* Versions are made of what was published, and name no file they do not say.
BodiesPublished ==
  \A v \in Upload :
    /\ \A k \in content[v] : ~Unpublished(k[1])
    /\ files[v] \subseteq content[v]

\* What a request under way has read of its base.
MadeFromBase(u) ==
  Unpublished(u) /\ phase[u] # "idle" =>
    /\ mem[u].kind \in Kinds
    /\ mem[u].base # None => mem[u].expected = mem[u].base /\ ~Unpublished(mem[u].base)
    /\ mem[u].kind = "append" => mem[u].base # None
    /\ phase[u] = "reading" => mem[u].kind = "append"
    /\ mem[u].body = IF mem[u].kind = "append" /\ phase[u] # "reading"
                     THEN content[mem[u].base] ELSE {}

Made == \A u \in Upload : MadeFromBase(u)

\* Retention and deletion are about an artifact.
Aimed(j) == phase[j] \in {"pruning", "picked", "deletable"} => mem[j].target \in Shareable

\* The inductive strengthening of CurrentPublished, and the invariant under
\* which every step is one of ArtifactHistory.
HistoryInv ==
  /\ TypeOK /\ LoggedOnce /\ CurrentLast /\ BodiesPublished /\ Made
  /\ \A j \in Job : Aimed(j)

LEMMA LogTypes ==
  ASSUME TypeOK, NEW s \in Shareable
  PROVE  /\ log[s] \in Seq(Entries) /\ Len(log[s]) \in Nat
         /\ DOMAIN log[s] = 1 .. Len(log[s])
         /\ \A i \in DOMAIN log[s] : log[s][i] \in Entries /\ log[s][i].id \in Upload
<1>1. log[s] \in Seq(Entries)
  BY DEF TypeOK
<1>2. Len(log[s]) \in Nat /\ DOMAIN log[s] = 1 .. Len(log[s])
  BY <1>1, LenProperties
<1>3. \A i \in DOMAIN log[s] : log[s][i] \in Entries
  BY <1>1, <1>2, ElementOfSeq
<1>. QED BY <1>1, <1>2, <1>3 DEF Entries

-----------------------------------------------------------------------------
(* Steps that publish nothing. *)

Others(j) == \A i \in Job \ {j} : phase'[i] = phase[i] /\ mem'[i] = mem[i]

\* A request never becomes unpublished again, and what it read of its base
\* stays true as long as published content does.
LEMMA MadeKept ==
  ASSUME HistoryInv, NEW j \in Job, Others(j),
         j \in Upload => MadeFromBase(j)' /\ (Unpublished(j)' => Unpublished(j)),
         \A v \in Upload : ~Unpublished(v) => content'[v] = content[v]
  PROVE  Made' /\ \A v \in Upload : Unpublished(v)' => Unpublished(v)
<1>1. \A v \in Upload : Unpublished(v)' => Unpublished(v)
  BY DEF Others, Unpublished, Job
<1>2. ASSUME NEW u \in Upload \ {j} PROVE MadeFromBase(u)'
  <2>1. mem[u].base \in Upload \cup {None}
    BY FieldTypes DEF HistoryInv, Job
  <2>2. phase'[u] = phase[u] /\ mem'[u] = mem[u] /\ MadeFromBase(u)
    BY DEF HistoryInv, Made, Others, Job
  <2>3. mem[u].base # None /\ ~Unpublished(mem[u].base) =>
          ~Unpublished(mem[u].base)' /\ content'[mem[u].base] = content[mem[u].base]
    BY <1>1, <2>1, <2>2
  <2>. QED BY <2>2, <2>3 DEF MadeFromBase, Unpublished
<1>. QED BY <1>1, <1>2 DEF Made

\* A step of one job that leaves the versions alone; rows may vanish, though
\* not the current one's.
LEMMA NothingPublished ==
  ASSUME HistoryInv, TypeOK', NEW j \in Job, Others(j), Aimed(j)',
         j \in Upload => MadeFromBase(j)' /\ (Unpublished(j)' => Unpublished(j)),
         UNCHANGED <<log, content>>,
         \A v \in Upload : files'[v] \subseteq files[v],
         \A s \in Shareable : current'[s] # None =>
           current'[s] = current[s] /\ current[s] \in published'
  PROVE  HistoryInv'
<1>1. Made' /\ \A v \in Upload : Unpublished(v)' => Unpublished(v)
  BY MadeKept
<1>2. \A s \in Shareable : \A i \in DOMAIN log[s] : log[s][i].id \in Upload
  BY LogTypes DEF HistoryInv
<1>3. LoggedOnce'
  BY <1>1, <1>2 DEF HistoryInv, LoggedOnce
<1>4. CurrentLast'
  BY DEF HistoryInv, CurrentLast
<1>5. \A v \in Upload : \A k \in content[v] : k[1] \in Upload
  BY DEF HistoryInv, TypeOK, Key
<1>6. BodiesPublished'
  BY <1>1, <1>5 DEF HistoryInv, BodiesPublished
<1>7. \A i \in Job : Aimed(i)'
  BY DEF HistoryInv, Others, Aimed
<1>. QED BY <1>1, <1>3, <1>4, <1>6, <1>7 DEF HistoryInv

LEMMA RowsStay ==
  ASSUME HistoryInv, TypeOK', NEW j \in Job, Others(j), UNCHANGED rows, Aimed(j)',
         j \in Upload => MadeFromBase(j)' /\ (Unpublished(j)' => Unpublished(j))
  PROVE  HistoryInv'
BY NothingPublished DEF rows, HistoryInv, CurrentLast

\* A request that has published, given up or never will publish.
LEMMA PastPublishing ==
  ASSUME HistoryInv, TypeOK', NEW j \in Job, Others(j), UNCHANGED rows, ~Unpublished(j)',
         Aimed(j)'
  PROVE  HistoryInv'
BY RowsStay DEF MadeFromBase

\* A request that goes on towards its commit with what it has read.
LEMMA GoesOn ==
  ASSUME HistoryInv, TypeOK', NEW u \in Upload, Others(u), UNCHANGED rows,
         phase[u] \in {"begun", "reserved", "stored"},
         phase'[u] \in {"begun", "reserved", "stored"},
         mem'[u].kind = mem[u].kind, mem'[u].base = mem[u].base,
         mem'[u].expected = mem[u].expected, mem'[u].body = mem[u].body
  PROVE  HistoryInv'
<1>1. mem[u].base \in Upload \cup {None} /\ u \in Job
  BY FieldTypes DEF HistoryInv, Job
<1>2. MadeFromBase(u) /\ Unpublished(u)
  BY DEF HistoryInv, Made, Unpublished
<1>3. content' = content
  BY DEF rows
<1>4. ASSUME mem[u].base # None, ~Unpublished(mem[u].base) PROVE ~Unpublished(mem[u].base)'
  BY <1>1, <1>2, <1>4 DEF Others, Unpublished, Job
<1>5. MadeFromBase(u)'
  BY <1>2, <1>3, <1>4 DEF MadeFromBase, Unpublished
<1>. QED BY <1>1, <1>2, <1>5, RowsStay DEF Aimed

-----------------------------------------------------------------------------
(* The steps of a request before and after its commit. *)

\* A version that exists has been published.
LEMMA CurrentTyped ==
  ASSUME HistoryInv, NEW s \in Shareable, current[s] # None
  PROVE  current[s] \in Upload /\ ~Unpublished(current[s])
<1>1. log[s] # <<>> /\ current[s] = log[s][Len(log[s])].id
  BY DEF HistoryInv, CurrentLast
<1>2. Len(log[s]) \in DOMAIN log[s]
  BY <1>1, LogTypes, EmptySeq DEF HistoryInv
<1>. QED BY <1>1, <1>2, LogTypes DEF HistoryInv, LoggedOnce

LEMMA StartKeeps ==
  ASSUME HistoryInv, TypeOK', NEW u \in Upload, Start(u) PROVE HistoryInv'
<1>1. PICK s \in Shareable :
        \/ \E kind \in CreateKinds : BeginCreate(u, s, kind)
        \/ BeginAppend(u, s)
        \/ \E expected \in {None, current[s]} : BeginPage(u, s, expected)
        \/ \E base, expected \in {None, current[s]} : BeginSite(u, s, base, expected)
  BY DEF Start
<1>2. PICK p \in {"begun", "reading"}, kind \in Kinds, base \in {None, current[s]},
           expected \in {None, current[s]} :
        /\ Begin(u, p, kind, s, base, expected, {})
        /\ base # None => expected = base
        /\ (kind = "append") = (p = "reading")
        /\ kind = "append" => base # None
  BY <1>1, BegunPhase DEF BeginCreate, BeginAppend, BeginPage, BeginSite, CreateKinds
<1>3. /\ phase'[u] = p /\ phase[u] = "idle"
      /\ mem'[u].kind = kind /\ mem'[u].base = base /\ mem'[u].expected = expected
      /\ mem'[u].body = {}
  BY <1>2 DEF HistoryInv, TypeOK, Begin, Goto, NoMemory, Job
<1>4. Others(u) /\ UNCHANGED rows /\ u \in Job
  BY <1>2 DEF HistoryInv, TypeOK, Begin, Goto, Others, Job
<1>5. base # None => base \in Upload /\ ~Unpublished(base)
  BY <1>2, CurrentTyped
<1>6. base # None => base # u /\ ~Unpublished(base)'
  BY <1>3, <1>4, <1>5 DEF Others, Unpublished, Job
<1>7. MadeFromBase(u)'
  BY <1>2, <1>3, <1>6 DEF MadeFromBase
<1>. QED BY <1>3, <1>4, <1>7, RowsStay DEF Unpublished, Aimed

\* A step of one request leaves the others where they are.
LEMMA OneMoves ==
  ASSUME HistoryInv, NEW j \in Job, NEW p, Goto(j, p),
         mem' = [mem EXCEPT ![j] = mem'[j]]
  PROVE  Others(j) /\ phase'[j] = p
BY DEF HistoryInv, TypeOK, Goto, Others, Job

LEMMA EndsAlone ==
  ASSUME HistoryInv, NEW j \in Job, NEW p \in {"done", "dead"}, End(j, p)
  PROVE  Others(j) /\ ~Unpublished(j)' /\ Aimed(j)'
BY DEF HistoryInv, TypeOK, End, Goto, Others, Unpublished, Aimed, Job

LEMMA UndoesAlone ==
  ASSUME HistoryInv, NEW u \in Upload, NEW m, Undo(u, m)
  PROVE  Others(u) /\ ~Unpublished(u)' /\ Aimed(u)'
BY DEF HistoryInv, TypeOK, Undo, Goto, Others, Unpublished, Aimed, Job

LEMMA ReadKeeps ==
  ASSUME HistoryInv, TypeOK', NEW u \in Upload, ReadSource(u) PROVE HistoryInv'
<1>0. u \in Job
  BY DEF Job
<1>1. CASE <<mem[u].base, Entry>> \in Objects
  <2>1. /\ phase[u] = "reading" /\ phase'[u] = "begun"
        /\ mem' = [mem EXCEPT ![u].body = content[mem[u].base]]
        /\ Others(u) /\ UNCHANGED rows
    BY <1>0, <1>1 DEF ReadSource, HistoryInv, TypeOK, Goto, Others, Job
  <2>2. MadeFromBase(u) /\ Unpublished(u) /\ Unpublished(u)'
    BY <2>1 DEF HistoryInv, Made, Unpublished
  <2>3. /\ mem'[u].kind = mem[u].kind /\ mem'[u].base = mem[u].base
        /\ mem'[u].expected = mem[u].expected /\ mem'[u].body = content[mem[u].base]
    <3>1. mem[u] \in Memories /\ mem \in [Job -> Memories]
      BY <1>0, MemoryType DEF HistoryInv, TypeOK
    <3>. QED BY <1>0, <2>1, <3>1 DEF Memories, Fields
  <2>4. mem[u].base \in Upload
    BY <1>1 DEF HistoryInv, TypeOK, Key
  <2>5. mem[u].base # None /\ mem[u].expected = mem[u].base /\ ~Unpublished(mem[u].base)
    BY <2>2, <2>4, StorageAssumption, <2>1 DEF MadeFromBase
  <2>6. ~Unpublished(mem[u].base)' /\ content' = content
    BY <2>1, <2>3, <2>4, <2>5, <2>2 DEF Others, Unpublished, rows, Job
  <2>7. MadeFromBase(u)'
    BY <2>1, <2>2, <2>3, <2>5, <2>6 DEF MadeFromBase, Unpublished
  <2>. QED BY <1>0, <2>1, <2>2, <2>7, RowsStay DEF Aimed
<1>2. CASE <<mem[u].base, Entry>> \notin Objects
  BY <1>0, <1>2, EndsAlone, PastPublishing DEF ReadSource
<1>. QED BY <1>1, <1>2

LEMMA StagingKeeps ==
  ASSUME HistoryInv, TypeOK', NEW u \in Upload,
         \/ ReservePage(u) \/ ReserveSite(u) \/ PutPage(u)
         \/ \E p \in Path : AddFile(u, p)
  PROVE  HistoryInv'
<1>0. /\ u \in Job /\ mem[u] \in Memories /\ mem \in [Job -> Memories]
      /\ phase \in [Job -> Phases]
  BY MemoryType DEF Job, HistoryInv, TypeOK
<1>1. /\ UNCHANGED rows
      /\ phase[u] \in {"begun", "reserved"} /\ phase'[u] \in {"begun", "reserved", "stored"}
      /\ \A i \in Job \ {u} : phase'[i] = phase[i]
  BY <1>0 DEF ReservePage, ReserveSite, PutPage, AddFile, Goto
<1>2. PICK ps : mem' = [mem EXCEPT ![u] = [mem[u] EXCEPT !.sent = ps]]
  <2>1. ReservePage(u) \/ ReserveSite(u) =>
          mem' = [mem EXCEPT ![u] = [mem[u] EXCEPT !.sent = mem[u].sent]]
    BY <1>0 DEF ReservePage, ReserveSite, Memories, Fields
  <2>. QED BY <2>1 DEF PutPage, AddFile
<1>3. /\ mem'[u].kind = mem[u].kind /\ mem'[u].base = mem[u].base
      /\ mem'[u].expected = mem[u].expected /\ mem'[u].body = mem[u].body
      /\ Others(u)
  BY <1>0, <1>1, <1>2 DEF Memories, Fields, Others, Job
<1>. QED BY <1>1, <1>3, GoesOn

LEMMA GivesUpKeeps ==
  ASSUME HistoryInv, TypeOK', NEW u \in Upload,
         RefusePage(u) \/ PutPageFails(u) \/ AbortSite(u) \/ CommitRefused(u)
  PROVE  HistoryInv'
<1>0. u \in Job
  BY DEF Job
<1>1. CASE RefusePage(u)
  BY <1>0, <1>1, EndsAlone, PastPublishing DEF RefusePage
<1>2. CASE PutPageFails(u) \/ AbortSite(u) \/ CommitRefused(u)
  BY <1>0, <1>2, UndoesAlone, PastPublishing DEF PutPageFails, AbortSite, CommitRefused
<1>. QED BY <1>1, <1>2

LEMMA UndoKeeps ==
  ASSUME HistoryInv, TypeOK', NEW u \in Upload, UndoObjects(u) \/ UndoQuota(u)
  PROVE  HistoryInv'
<1>0. u \in Job
  BY DEF Job
<1>1. PICK t : Undone(u, t) /\ phase[u] = "undo" /\ UNCHANGED rows
  BY DEF UndoObjects, UndoQuota
<1>2. Others(u) /\ ~Unpublished(u)' /\ Aimed(u)'
  <2>1. CASE mem[u].todo = {t}
    BY <1>0, <1>1, <2>1, EndsAlone DEF Undone
  <2>2. CASE mem[u].todo # {t}
    BY <1>0, <1>1, <2>2 DEF Undone, HistoryInv, TypeOK, Others, Unpublished, Aimed, Job
  <2>. QED BY <2>1, <2>2
<1>. QED BY <1>0, <1>1, <1>2, PastPublishing

\* Retention selects, checks and deletes without touching the versions...
\* Retention selects, checks and deletes without touching the versions...
LEMMA CleanKeeps ==
  ASSUME HistoryInv, TypeOK', NEW j \in Job, Clean(j) \/ Crash(j) PROVE HistoryInv'
<1>0. mem[j] \in Memories /\ mem \in [Job -> Memories] /\ Aimed(j)
  BY MemoryType DEF HistoryInv, TypeOK
<1>1. CASE PruneSelect(j) \/ CleanCheck(j) \/ CleanDelete(j) \/ Crash(j)
  <2>1. UNCHANGED rows
    BY <1>1 DEF PruneSelect, CleanCheck, CleanDelete, Crash
  <2>2. Others(j) /\ ~Unpublished(j)' /\ Aimed(j)'
    <3>1. CASE CleanDelete(j) \/ Crash(j)
      BY <3>1, EndsAlone DEF CleanDelete, Crash
    <3>2. CASE CleanCheck(j)
      BY <3>2 DEF CleanCheck, Goto, HistoryInv, TypeOK, Others, Unpublished, Aimed
    <3>3. CASE PruneSelect(j)
      <4>1. PICK ids : /\ mem' = [mem EXCEPT ![j] = [mem[j] EXCEPT !.picked = ids]]
                       /\ phase[j] = "pruning" /\ Goto(j, IF ids = {} THEN "cleaning" ELSE "picked")
        BY <3>3 DEF PruneSelect
      <4>2. mem'[j].target = mem[j].target
        BY <1>0, <4>1 DEF Memories, Fields
      <4>. QED BY <1>0, <4>1, <4>2 DEF Goto, HistoryInv, TypeOK, Others, Unpublished, Aimed
    <3>. QED BY <1>1, <3>1, <3>2, <3>3
  <2>. QED BY <2>1, <2>2, PastPublishing
\* ... and removes neither the current version of its artifact nor any of
\* another artifact.
<1>2. CASE PruneBatch(j)
  <2>. DEFINE s   == mem[j].target
              ids == mem[j].picked \cap Candidates(s)
              m   == [mem[j] EXCEPT !.picked = {}, !.keys = mem[j].keys \cup FilesOf(ids)]
  <2>1. /\ UNCHANGED <<log, content, current>> /\ s \in Shareable
        /\ mem' = [mem EXCEPT ![j] = m] /\ Goto(j, "pruning")
    BY <1>0, <1>2 DEF PruneBatch, Aimed
  <2>2. m.target = s
    BY <1>0 DEF Memories, Fields
  <2>3. Others(j) /\ ~Unpublished(j)' /\ Aimed(j)'
    <3>. HIDE DEF m
    <3>. QED BY <2>1, <2>2 DEF Goto, HistoryInv, TypeOK, Others, Unpublished, Aimed
  <2>4. CASE current[s] = None
    <3>1. UNCHANGED rows
      BY <1>2, <2>4 DEF PruneBatch, rows
    <3>. QED BY <2>3, <3>1, PastPublishing
  <2>5. CASE current[s] # None
    <3>1. /\ published' = published \ ids
          /\ \A v \in Upload : files'[v] = IF v \in ids THEN {} ELSE files[v]
      BY <1>2, <2>5 DEF PruneBatch, Remove
    <3>2. ASSUME NEW t \in Shareable, current[t] # None PROVE current[t] \notin ids
      <4>1. Len(log[t]) \in DOMAIN log[t] /\ current[t] = log[t][Len(log[t])].id
        BY <3>2, LogTypes, EmptySeq DEF HistoryInv, CurrentLast
      <4>2. CASE t = s
        BY <4>2 DEF Candidates, Kept
      <4>3. CASE t # s
        BY <2>1, <4>1, <4>3 DEF HistoryInv, LoggedOnce, Candidates, VersionsOf
      <4>. QED BY <4>2, <4>3
    <3>. HIDE DEF ids
    <3>. QED BY <2>1, <2>3, <3>1, <3>2, NothingPublished DEF MadeFromBase, HistoryInv, CurrentLast
  <2>. QED BY <2>4, <2>5
<1>. QED BY <1>1, <1>2 DEF Clean

\* A deletion removes one artifact with its versions, and no other's.
LEMMA DeleterKeeps ==
  ASSUME HistoryInv, TypeOK', NEW d \in Deleter, StartDelete(d) \/ DeleteBatch(d)
  PROVE  HistoryInv'
<1>0. d \in Job /\ d \notin Upload /\ Aimed(d)
  BY StorageAssumption DEF Job, HistoryInv
<1>1. CASE StartDelete(d)
  <2>1. PICK s, p, kind, ks :
          /\ s \in Shareable /\ p \in {"pruning", "deletable"}
          /\ Begin(d, p, kind, s, None, None, ks)
    BY <1>1 DEF StartDelete, BeginPrune, BeginDelete
  <2>2. Others(d) /\ UNCHANGED rows /\ phase'[d] = p /\ mem'[d].target = s
    BY <1>0, <2>1 DEF Begin, Goto, NoMemory, HistoryInv, TypeOK, Others
  <2>. QED BY <1>0, <2>1, <2>2, PastPublishing DEF Unpublished, Aimed
<1>2. CASE DeleteBatch(d)
  <2>. DEFINE s == mem[d].target
  <2>0. s \in Shareable
    BY <1>0, <1>2 DEF DeleteBatch, Aimed
  <2>1. CASE current[s] = None
    BY <1>0, <1>2, <2>1, EndsAlone, PastPublishing DEF DeleteBatch
  <2>2. CASE current[s] # None
    <3>1. /\ published' = published \ VersionsOf(s)
          /\ \A v \in Upload : files'[v] = IF v \in VersionsOf(s) THEN {} ELSE files[v]
          /\ current' = [current EXCEPT ![s] = None]
          /\ UNCHANGED <<log, content>>
      BY <1>2, <2>2 DEF DeleteBatch, Remove
    <3>2. Others(d) /\ Aimed(d)'
      BY <1>0, <1>2, <2>2 DEF DeleteBatch, Goto, HistoryInv, TypeOK, Others, Aimed
    <3>3. ASSUME NEW t \in Shareable, current'[t] # None
          PROVE  current'[t] = current[t] /\ current[t] \in published'
      <4>1. t # s /\ current'[t] = current[t]
        BY <2>0, <3>1, <3>3 DEF HistoryInv, TypeOK
      <4>2. Len(log[t]) \in DOMAIN log[t] /\ current[t] = log[t][Len(log[t])].id
        BY <3>3, <4>1, LogTypes, EmptySeq DEF HistoryInv, CurrentLast
      <4>3. current[t] \notin VersionsOf(s)
        BY <2>0, <4>1, <4>2 DEF HistoryInv, LoggedOnce, VersionsOf
      <4>. QED BY <3>1, <3>3, <4>1, <4>3 DEF HistoryInv, CurrentLast
    <3>. QED BY <1>0, <3>1, <3>2, <3>3, NothingPublished
  <2>. QED BY <2>1, <2>2
<1>. QED BY <1>1, <1>2

-----------------------------------------------------------------------------
(* Publication. *)

\* What a commit does: it publishes a version of the target whose body is new
\* or is made from the version before it.
Published(u, op, fs, body) ==
  LET s == mem[u].target IN
  /\ phase[u] = "stored" /\ s \in Shareable
  /\ Publish(u, op, fs, body)
  /\ fs \subseteq body /\ body \in SUBSET Key
  /\ \/ op = "create" /\ log[s] = <<>> /\ body \subseteq Own(u) \cup {<<u, Entry>>}
     \/ /\ op = "replace" /\ current[s] # None
        /\ body \subseteq Own(u) \cup {<<u, Entry>>}
     \/ /\ op = "append" /\ current[s] # None
        /\ body = content[current[s]] \cup {<<u, Entry>>}
     \/ /\ op = "edit" /\ current[s] # None
        /\ body \subseteq content[current[s]] \cup Own(u)

LEMMA CommitPublishes ==
  ASSUME HistoryInv, NEW u \in Upload, Commit(u)
  PROVE  \E op, fs, body : Published(u, op, fs, body)
<1>0. /\ u \in Job /\ phase[u] = "stored"
      /\ Own(u) \in SUBSET Key /\ {<<u, Entry>>} \in SUBSET Key
      /\ mem[u].base \in Upload \cup {None}
      /\ \A v \in Upload : content[v] \in SUBSET Key
  BY KeySets, FieldTypes, OwnKeys, StorageAssumption
     DEF Job, Commit, CommitNewPage, CommitPage, CommitNewSite, CommitSite, HistoryInv, TypeOK
<1>1. MadeFromBase(u) /\ Unpublished(u) /\ mem[u].kind \in Kinds
  BY <1>0 DEF HistoryInv, Made, MadeFromBase, Unpublished
<1>2. mem[u].target \in Shareable
  BY <1>0, <1>1, FieldTypes DEF HistoryInv, Kinds, PageKinds, CreateKinds, SiteKinds
<1>3. CASE CommitNewPage(u)
  BY <1>0, <1>2, <1>3 DEF CommitNewPage, IdFree, Published
<1>4. CASE CommitPage(u) /\ mem[u].kind = "page"
  <2>1. mem[u].body = {}
    BY <1>0, <1>1, <1>4 DEF MadeFromBase
  <2>2. Publish(u, "replace", {<<u, Entry>>}, {<<u, Entry>>}) /\ current[mem[u].target] # None
    BY <1>4, <2>1 DEF CommitPage, Current
  <2>. QED BY <1>0, <1>2, <2>2 DEF Published
<1>5. CASE CommitPage(u) /\ mem[u].kind = "append"
  <2>1. /\ mem[u].base # None /\ mem[u].expected = mem[u].base
        /\ mem[u].body = content[mem[u].base]
    BY <1>0, <1>1, <1>5 DEF MadeFromBase
  <2>2. current[mem[u].target] = mem[u].base
    BY <1>5, <2>1 DEF CommitPage, Current
  <2>3. mem[u].body \cup {<<u, Entry>>} \in SUBSET Key
    BY <1>0, <2>1
  <2>4. Publish(u, "append", {<<u, Entry>>}, mem[u].body \cup {<<u, Entry>>})
    BY <1>5 DEF CommitPage
  <2>. QED BY <1>0, <1>2, <2>1, <2>2, <2>3, <2>4 DEF Published
<1>6. CASE CommitNewSite(u)
  BY <1>0, <1>2, <1>6 DEF CommitNewSite, IdFree, Published
<1>7. CASE CommitSite(u)
  <2>. DEFINE base == IF mem[u].base = None THEN {} ELSE files[mem[u].base]
              manifest(d) == {k \in base : k[2] \notin d \cup mem[u].sent} \cup Own(u)
              op == IF mem[u].base = None THEN "replace" ELSE "edit"
  <2>1. PICK d \in SUBSET (Path \ mem[u].sent) : Publish(u, op, manifest(d), manifest(d))
    BY <1>7 DEF CommitSite
  <2>2. Current(u)
    BY <1>7 DEF CommitSite
  <2>3. CASE mem[u].base = None
    <3>1. manifest(d) = Own(u) /\ op = "replace"
      BY <2>3
    <3>. HIDE DEF manifest, op
    <3>. QED BY <1>0, <1>2, <2>1, <2>2, <3>1 DEF Published, Current
  <2>4. CASE mem[u].base # None
    <3>1. current[mem[u].target] = mem[u].base
      BY <1>0, <1>1, <2>2, <2>4 DEF MadeFromBase, Current
    <3>2. base \subseteq content[mem[u].base] /\ op = "edit"
      BY <1>0, <2>4 DEF HistoryInv, BodiesPublished
    <3>3. manifest(d) \subseteq content[mem[u].base] \cup Own(u)
      BY <3>2
    <3>4. manifest(d) \in SUBSET Key
      BY <1>0, <2>4, <3>3
    <3>. HIDE DEF manifest, op
    <3>. QED BY <1>0, <1>2, <2>1, <2>4, <3>1, <3>2, <3>3, <3>4 DEF Published
  <2>. QED BY <2>3, <2>4
<1>. QED BY <1>3, <1>4, <1>5, <1>6, <1>7 DEF Commit, CommitPage

\* The request that publishes stops being unpublished.
LEMMA CommitKeeps ==
  ASSUME HistoryInv, TypeOK', NEW u \in Upload, Commits(u) \/ CommitReplyLost(u)
  PROVE  HistoryInv'
<1>0. /\ u \in Job /\ Commit(u) /\ phase[u] = "stored" /\ MadeFromBase(u) /\ Unpublished(u)
      /\ mem[u].kind \in Kinds
  BY DEF Job, Commits, CommitReplyLost, Commit, CommitNewPage, CommitPage, CommitNewSite,
         CommitSite, HistoryInv, Made, MadeFromBase, Unpublished
<1>1. PICK op, fs, body : Published(u, op, fs, body)
  BY <1>0, CommitPublishes
<1>. DEFINE s == mem[u].target
            e == [id |-> u, op |-> op]
<1>2. /\ s \in Shareable /\ fs \subseteq body /\ body \in SUBSET Key
      /\ log' = [log EXCEPT ![s] = Append(log[s], e)]
      /\ published' = published \cup {u}
      /\ files' = [files EXCEPT ![u] = fs] /\ content' = [content EXCEPT ![u] = body]
      /\ current' = [current EXCEPT ![s] = u]
  BY <1>1 DEF Published, Publish
<1>3. Others(u) /\ ~Unpublished(u)' /\ Aimed(u)'
  <2>1. CASE Commits(u) /\ mem[u].kind \in CreateKinds
    BY <1>0, <2>1, EndsAlone DEF Commits
  <2>2. CASE Commits(u) /\ mem[u].kind \notin CreateKinds
    <3>1. Goto(u, "pruning") /\ mem' = [mem EXCEPT ![u] = [NoMemory EXCEPT !.target = s, !.begun = mem[u].begun]]
      BY <2>2 DEF Commits
    <3>2. mem'[u].target = s
      BY <1>0, <3>1 DEF NoMemory, HistoryInv, TypeOK
    <3>. QED BY <1>0, <1>2, <3>1, <3>2 DEF Goto, HistoryInv, TypeOK, Others, Unpublished, Aimed
  <2>3. CASE CommitReplyLost(u)
    BY <2>3, UndoesAlone DEF CommitReplyLost
  <2>. QED BY <2>1, <2>2, <2>3 DEF Commits, CommitReplyLost
<1>. HIDE DEF s
<1>4. \A v \in Upload : ~Unpublished(v) => content'[v] = content[v]
  BY <1>0, <1>2 DEF HistoryInv, TypeOK
<1>5. Made' /\ \A v \in Upload : Unpublished(v)' => Unpublished(v)
  BY <1>0, <1>3, <1>4, MadeKept DEF MadeFromBase
<1>6. /\ Len(log[s]) \in Nat /\ Len(log'[s]) = Len(log[s]) + 1
      /\ DOMAIN log'[s] = 1 .. Len(log[s]) + 1 /\ DOMAIN log[s] = 1 .. Len(log[s])
      /\ log'[s][Len(log[s]) + 1].id = u
      /\ \A i \in DOMAIN log[s] : log'[s][i] = log[s][i]
  <2>1. log[s] \in Seq(Entries) /\ e \in Entries /\ log'[s] = Append(log[s], e)
    BY <1>2, LogTypes DEF HistoryInv, TypeOK, Entries
  <2>. QED BY <1>2, <2>1, LogTypes, AppendProperties DEF HistoryInv
<1>7. \A t \in Shareable \ {s} : log'[t] = log[t] /\ current'[t] = current[t]
  BY <1>2 DEF HistoryInv, TypeOK
<1>8. LoggedOnce'
  <2>1. \A t \in Shareable : \A i \in DOMAIN log'[t] :
          \/ i \in DOMAIN log[t] /\ log'[t][i] = log[t][i]
          \/ t = s /\ log'[t][i].id = u
    BY <1>2, <1>6, <1>7
  <2>2. \A t \in Shareable : \A i \in DOMAIN log[t] : log[t][i].id \in Upload /\ log[t][i].id # u
    BY <1>0, LogTypes DEF HistoryInv, LoggedOnce
  <2>. QED BY <1>3, <1>5, <2>1, <2>2 DEF HistoryInv, LoggedOnce
<1>9. CurrentLast'
  <2>1. Len(log'[s]) # 0 /\ current'[s] = log'[s][Len(log'[s])].id /\ current'[s] \in published'
    BY <1>2, <1>6 DEF HistoryInv, TypeOK
  <2>2. log'[s] # <<>>
    BY <2>1
  <2>. QED BY <1>2, <1>7, <2>1, <2>2 DEF HistoryInv, CurrentLast
<1>10. BodiesPublished'
  <2>1. \A v \in Upload : \A k \in content[v] : k[1] \in Upload
    BY DEF HistoryInv, TypeOK, Key
  <2>2. \A k \in body : k[1] \in Upload /\ ~Unpublished(k[1])'
    <3>1. \A k \in Own(u) \cup {<<u, Entry>>} : k[1] = u
      BY DEF Own
    <3>2. current[s] # None => \A k \in content[current[s]] : ~Unpublished(k[1])'
      BY <1>2, <1>5, <2>1, CurrentTyped DEF HistoryInv, BodiesPublished
    <3>. QED BY <1>1, <1>2, <1>3, <3>1, <3>2 DEF Published, s, Key
  <2>. QED BY <1>2, <1>5, <2>1, <2>2 DEF HistoryInv, TypeOK, BodiesPublished
<1>. QED BY <1>3, <1>5, <1>8, <1>9, <1>10 DEF HistoryInv, Others, Aimed

-----------------------------------------------------------------------------
LEMMA HistoryInit == Init => HistoryInv
<1>. SUFFICES ASSUME Init PROVE HistoryInv
  OBVIOUS
<1>1. \A s \in Shareable : DOMAIN log[s] = {} /\ current[s] = None
  BY DEF Init
<1>2. \A j \in Job : phase[j] = "idle"
  BY DEF Init
<1>3. \A v \in Upload : content[v] = {} /\ files[v] = {} /\ v \in Job
  BY DEF Init, Job
<1>. QED BY <1>1, <1>2, <1>3, InitType
         DEF HistoryInv, LoggedOnce, CurrentLast, BodiesPublished, Made, MadeFromBase, Aimed

\* The daily jobs and the clock touch nothing of it.
LEMMA CronKeeps ==
  ASSUME HistoryInv, TypeOK', UNCHANGED <<rows, phase, mem>>
  PROVE  HistoryInv'
BY DEF HistoryInv, LoggedOnce, CurrentLast, BodiesPublished, Made, MadeFromBase, Aimed,
       Unpublished, rows

LEMMA HistoryNext ==
  ASSUME HistoryInv, [Next]_vars PROVE HistoryInv'
<1>1. TypeOK'
  BY NextType DEF HistoryInv
<1>2. ASSUME NEW u \in Upload, Start(u) \/ Advance(u) PROVE HistoryInv'
  BY <1>1, <1>2, StartKeeps, ReadKeeps, StagingKeeps, GivesUpKeeps, CommitKeeps, UndoKeeps
     DEF Advance
<1>3. ASSUME NEW d \in Deleter, StartDelete(d) \/ DeleteBatch(d) PROVE HistoryInv'
  BY <1>1, <1>3, DeleterKeeps
<1>4. ASSUME NEW j \in Job, Clean(j) \/ Crash(j) PROVE HistoryInv'
  BY <1>1, <1>4, CleanKeeps
<1>5. CASE QuotaCron \/ OrphanCron \/ VerifyCron \/ Tick \/ UNCHANGED vars
  <2>1. UNCHANGED <<rows, phase, mem>>
    BY <1>5 DEF QuotaCron, QuotaSelect, QuotaUpdate, OrphanCron, OrphanRead, OrphanList,
                OrphanDelete, VerifyCron, VerifyRead, VerifyList, VerifyRecheck, Tick, vars
  <2>. QED BY <1>1, <2>1, CronKeeps
<1>. QED BY <1>2, <1>3, <1>4, <1>5 DEF Next

LEMMA HistoryInvariant == Spec => []HistoryInv
BY HistoryInit, HistoryNext, PTL DEF Spec

\* Retention, deletion and publication never leave an artifact whose current
\* version has no row, however they interleave.
THEOREM CurrentStays == Spec => []CurrentPublished
<1>1. HistoryInv => CurrentPublished
  <2>. SUFFICES ASSUME HistoryInv, NEW s \in Shareable, current[s] # None
                PROVE  current[s] \in VersionsOf(s)
    BY DEF CurrentPublished
  <2>1. Len(log[s]) \in DOMAIN log[s]
    BY LogTypes, EmptySeq DEF HistoryInv, CurrentLast
  <2>. QED BY <2>1 DEF HistoryInv, CurrentLast, VersionsOf
<1>. QED BY <1>1, HistoryInvariant, PTL

-----------------------------------------------------------------------------
(* The refinement. *)

\* What ArtifactHistory sees: the versions of an artifact and what they say...
Versions(l, c) == [i \in DOMAIN l |-> [op |-> l[i].op, body |-> c[l[i].id]]]
Histories == [s \in Shareable |-> Versions(log[s], content)]

\* ... and which artifacts exist.
Existing == {s \in Shareable : current[s] # None}

Version == [op : {"create", "replace", "append", "edit"}, body : SUBSET Key]

LEMMA VersionsTyped ==
  ASSUME TypeOK, NEW s \in Shareable
  PROVE  /\ Versions(log[s], content) \in Seq(Version)
         /\ Len(Versions(log[s], content)) = Len(log[s])
<1>1. \A i \in 1 .. Len(log[s]) : [op |-> log[s][i].op, body |-> content[log[s][i].id]] \in Version
  <2>1. ASSUME NEW i \in 1 .. Len(log[s])
        PROVE  /\ log[s][i].op \in {"create", "replace", "append", "edit"}
               /\ log[s][i].id \in Upload
    BY LogTypes DEF Entries
  <2>2. \A v \in Upload : content[v] \in SUBSET Key
    BY DEF TypeOK
  <2>. QED BY <2>1, <2>2 DEF Version
<1>2. Versions(log[s], content) \in [1 .. Len(log[s]) -> Version]
  BY <1>1, LogTypes DEF Versions
<1>. QED BY <1>2, LogTypes

\* Publishing adds one version, and rewrites none.
LEMMA PublishExtends ==
  ASSUME HistoryInv, NEW u \in Upload, Unpublished(u), NEW s \in Shareable, s = mem[u].target,
         NEW op \in {"create", "replace", "append", "edit"}, NEW fs, NEW body \in SUBSET Key,
         Publish(u, op, fs, body)
  PROVE  Histories' = [Histories EXCEPT ![s] = Append(Histories[s], [op |-> op, body |-> body])]
<1>. DEFINE e == [id |-> u, op |-> op]
            v == [op |-> op, body |-> body]
            h == Versions(log[s], content)
<1>1. /\ log' = [log EXCEPT ![s] = Append(log[s], e)]
      /\ content' = [content EXCEPT ![u] = body]
  BY DEF Publish
<1>2. \A t \in Shareable : \A i \in DOMAIN log[t] :
        log[t][i].id # u /\ content'[log[t][i].id] = content[log[t][i].id]
  BY <1>1, LogTypes DEF HistoryInv, TypeOK, LoggedOnce
<1>3. ASSUME NEW t \in Shareable \ {s} PROVE Versions(log'[t], content') = Versions(log[t], content)
  BY <1>1, <1>2 DEF Versions, HistoryInv, TypeOK
<1>4. Versions(log'[s], content') = Append(h, v)
  <2>1. /\ log[s] \in Seq(Entries) /\ e \in Entries /\ log'[s] = Append(log[s], e)
        /\ h \in Seq(Version) /\ v \in Version /\ Len(h) = Len(log[s])
    BY <1>1, LogTypes, VersionsTyped DEF HistoryInv, TypeOK, Entries, Version
  <2>2. /\ Len(log[s]) \in Nat /\ DOMAIN log'[s] = 1 .. Len(log[s]) + 1
        /\ log'[s][Len(log[s]) + 1] = e
        /\ \A i \in 1 .. Len(log[s]) : log'[s][i] = log[s][i]
    BY <2>1, LogTypes, AppendProperties DEF HistoryInv
  <2>3. /\ DOMAIN Append(h, v) = 1 .. Len(log[s]) + 1
        /\ Append(h, v)[Len(log[s]) + 1] = v
        /\ \A i \in 1 .. Len(log[s]) : Append(h, v)[i] = h[i]
        /\ Append(h, v) \in Seq(Version)
    BY <2>1, <2>2, AppendProperties
  <2>4. content'[u] = body
    BY <1>1 DEF HistoryInv, TypeOK
  <2>5. \A i \in 1 .. Len(log[s]) + 1 :
          [op |-> log'[s][i].op, body |-> content'[log'[s][i].id]] = Append(h, v)[i]
    <3>. SUFFICES ASSUME NEW i \in 1 .. Len(log[s]) + 1
                  PROVE  [op |-> log'[s][i].op, body |-> content'[log'[s][i].id]] = Append(h, v)[i]
      OBVIOUS
    <3>1. CASE i = Len(log[s]) + 1
      BY <2>2, <2>3, <2>4, <3>1
    <3>2. CASE i # Len(log[s]) + 1
      <4>1. i \in DOMAIN log[s]
        BY <2>2, <3>2, LogTypes DEF HistoryInv
      <4>2. log'[s][i] = log[s][i] /\ Append(h, v)[i] = h[i]
        BY <2>2, <2>3, <3>2
      <4>3. h[i] = [op |-> log[s][i].op, body |-> content[log[s][i].id]]
        BY <4>1 DEF Versions
      <4>. QED BY <1>2, <4>1, <4>2, <4>3
    <3>. QED BY <3>1, <3>2
  <2>6. Versions(log'[s], content') = [i \in 1 .. Len(log[s]) + 1 |-> Append(h, v)[i]]
    BY <2>2, <2>5 DEF Versions
  <2>. QED BY <2>3, <2>6
<1>. QED BY <1>3, <1>4 DEF Histories

\* What is current is what was said last; what a request adds was never said.
LEMMA SaidSoFar ==
  ASSUME HistoryInv, NEW s \in Shareable
  PROVE  /\ current[s] # None => History!Body(s) = content[current[s]]
         /\ \A u \in Upload : Unpublished(u) => \A k \in History!Known(s) : k[1] # u
<1>. DEFINE h == Versions(log[s], content)
<1>1. DOMAIN h = DOMAIN log[s] /\ Len(h) = Len(log[s])
  BY VersionsTyped DEF HistoryInv, Versions
<1>2. \A i \in DOMAIN log[s] : h[i].body = content[log[s][i].id] /\ log[s][i].id \in Upload
  BY LogTypes DEF HistoryInv, Versions
<1>3. History!Body(s) = h[Len(h)].body /\ History!Known(s) = UNION {h[i].body : i \in DOMAIN h}
  BY DEF History!Body, History!Known, Versions
<1>. HIDE DEF h
<1>4. ASSUME current[s] # None PROVE History!Body(s) = content[current[s]]
  <2>1. Len(log[s]) \in DOMAIN log[s] /\ current[s] = log[s][Len(log[s])].id
    BY <1>4, LogTypes, EmptySeq DEF HistoryInv, CurrentLast
  <2>. QED BY <1>1, <1>2, <1>3, <2>1
<1>5. \A k \in History!Known(s) : ~Unpublished(k[1])
  BY <1>1, <1>2, <1>3 DEF HistoryInv, BodiesPublished
<1>. QED BY <1>4, <1>5

LEMMA CommitExtends ==
  ASSUME HistoryInv, NEW u \in Upload, Commit(u)
  PROVE  History!Next
<1>0. Unpublished(u)
  BY DEF Commit, CommitNewPage, CommitPage, CommitNewSite, CommitSite, Unpublished
<1>1. PICK op, fs, body : Published(u, op, fs, body)
  BY CommitPublishes
<1>op. op \in {"create", "replace", "append", "edit"}
  BY <1>1 DEF Published
<1>2. PICK s \in Shareable : s = mem[u].target
  BY <1>1 DEF Published
<1>3. /\ Publish(u, op, fs, body) /\ body \in SUBSET Key
      /\ Histories' = [Histories EXCEPT ![s] = Append(Histories[s], [op |-> op, body |-> body])]
  BY <1>0, <1>1, <1>2, PublishExtends DEF Published
<1>4. Existing' = Existing \cup {s}
  BY <1>2, <1>3, StorageAssumption DEF Existing, Publish, HistoryInv, TypeOK
<1>5. History!Extend(s, op, body)
  BY <1>3 DEF History!Extend, Histories, Versions
<1>6. <<Histories, Existing>>' # <<Histories, Existing>>
  <2>1. Histories[s] \in Seq(Version) /\ [op |-> op, body |-> body] \in Version
    BY <1>op, <1>3, VersionsTyped DEF Histories, HistoryInv, Version
  <2>2. Len(Append(Histories[s], [op |-> op, body |-> body])) # Len(Histories[s])
    BY <2>1, AppendProperties, LenProperties
  <2>3. Histories'[s] = Append(Histories[s], [op |-> op, body |-> body])
    BY <1>3 DEF Histories
  <2>. QED BY <2>2, <2>3
<1>7. Own(u) \cup {<<u, Entry>>} \subseteq Key \ History!Known(s)
  <2>1. \A k \in Own(u) \cup {<<u, Entry>>} : k[1] = u
    BY DEF Own
  <2>2. Own(u) \cup {<<u, Entry>>} \subseteq Key
    BY KeySets, OwnKeys, StorageAssumption DEF HistoryInv
  <2>. QED BY <1>0, <2>1, <2>2, SaidSoFar
<1>8. CASE op = "create"
  <2>1. log[s] = <<>>
    BY <1>1, <1>2, <1>8 DEF Published
  <2>2. Histories[s] = <<>>
    BY <2>1 DEF Histories, Versions
  <2>. QED BY <1>3, <1>4, <1>5, <1>6, <1>8, <2>2
           DEF History!Next, History!Create, Histories, Versions, Existing
<1>9. CASE op # "create"
  <2>1. s \in Existing /\ History!Body(s) = content[current[s]] /\ Existing' = Existing
    BY <1>1, <1>2, <1>4, <1>9, SaidSoFar DEF Published, Existing
  <2>2. CASE op = "replace"
    <3>1. body \in SUBSET (Key \ History!Known(s))
      BY <1>1, <1>7, <2>2 DEF Published
    <3>2. History!Replace(s)
      BY <1>5, <2>1, <2>2, <3>1 DEF History!Replace, Existing
    <3>. QED BY <1>6, <3>2 DEF History!Next, Histories, Versions, Existing
  <2>3. CASE op = "append"
    <3>1. body = History!Body(s) \cup {<<u, Entry>>} /\ <<u, Entry>> \in Key \ History!Known(s)
      BY <1>1, <1>2, <1>7, <2>1, <2>3 DEF Published
    <3>2. PICK c \in Key \ History!Known(s) : c = <<u, Entry>>
      BY <3>1
    <3>3. History!Extend(s, "append", History!Body(s) \cup {c})
      BY <1>5, <2>3, <3>1, <3>2 DEF History!Extend
    <3>4. History!AppendTo(s)
      BY <2>1, <3>2, <3>3 DEF History!AppendTo, Existing
    <3>. QED BY <1>6, <3>4 DEF History!Next, Histories, Versions, Existing
  <2>4. CASE op = "edit"
    <3>1. body \subseteq History!Body(s) \cup Own(u)
      BY <1>1, <1>2, <2>1, <2>4 DEF Published
    <3>2. PICK kept, own : /\ kept \in SUBSET History!Body(s)
                           /\ own \in SUBSET (Key \ History!Known(s))
                           /\ body = kept \cup own
      <4>1. body = (body \cap History!Body(s)) \cup (body \cap Own(u))
        BY <3>1
      <4>. QED BY <1>7, <4>1
    <3>3. History!Edit(s)
      BY <1>5, <2>1, <2>4, <3>2 DEF History!Edit, Existing
    <3>. QED BY <1>6, <3>3 DEF History!Next, Histories, Versions, Existing
  <2>. QED BY <1>op, <1>9, <2>2, <2>3, <2>4
<1>. QED BY <1>8, <1>9

LEMMA StepIsHistory ==
  ASSUME HistoryInv, [Next]_vars
  PROVE  History!Next \/ UNCHANGED <<Histories, Existing>>
<1>1. UNCHANGED <<log, content, current>> => UNCHANGED <<Histories, Existing>>
  BY DEF Histories, Versions, Existing
<1>2. ASSUME NEW u \in Upload, Start(u)
      PROVE  UNCHANGED <<log, content, current>>
  BY <1>2 DEF Start, BeginCreate, BeginAppend, BeginPage, BeginSite, Begin, rows
<1>3. ASSUME NEW u \in Upload, Advance(u)
      PROVE  Commit(u) \/ UNCHANGED <<log, content, current>>
  BY <1>3 DEF Advance, ReadSource, ReservePage, RefusePage, PutPage, PutPageFails, AddFile, AbortSite,
              ReserveSite, Commits, CommitRefused, CommitReplyLost, UndoObjects, UndoQuota, rows
<1>4. ASSUME NEW j \in Job, Clean(j) \/ Crash(j) PROVE UNCHANGED <<log, content, current>>
  BY <1>4 DEF Clean, PruneSelect, PruneBatch, CleanCheck, CleanDelete, Crash, rows
<1>5. ASSUME NEW d \in Deleter, StartDelete(d) PROVE UNCHANGED <<log, content, current>>
  BY <1>5 DEF StartDelete, BeginPrune, BeginDelete, Begin, rows
<1>6. ASSUME NEW d \in Deleter, DeleteBatch(d)
      PROVE  History!Next \/ UNCHANGED <<log, content, current>>
  <2>1. PICK s \in Shareable : s = mem[d].target
    BY <1>6 DEF DeleteBatch, HistoryInv, Aimed, Job
  <2>2. CASE current[s] # None
    <3>1. UNCHANGED <<log, content>> /\ current' = [current EXCEPT ![s] = None]
      BY <1>6, <2>1, <2>2 DEF DeleteBatch
    <3>2. s \in Existing /\ Existing' = Existing \ {s} /\ Histories' = Histories
      BY <2>2, <3>1 DEF Existing, Histories, Versions, HistoryInv, TypeOK
    <3>3. History!Delete(s)
      BY <3>2 DEF History!Delete, Existing, Histories, Versions
    <3>. QED BY <3>2, <3>3 DEF History!Next, Existing, Histories, Versions
  <2>3. CASE current[s] = None
    BY <1>6, <2>1, <2>3 DEF DeleteBatch, rows
  <2>. QED BY <2>2, <2>3
<1>7. CASE QuotaCron \/ OrphanCron \/ VerifyCron \/ Tick \/ UNCHANGED vars
  <2>1. UNCHANGED rows
    BY <1>7 DEF QuotaCron, QuotaSelect, QuotaUpdate, OrphanCron, OrphanRead, OrphanList,
                OrphanDelete, VerifyCron, VerifyRead, VerifyList, VerifyRecheck, Tick, vars
  <2>. QED BY <1>1, <2>1 DEF rows
<1>. QED BY <1>1, <1>2, <1>3, <1>4, <1>5, <1>6, <1>7, CommitExtends DEF Next

\* No update is lost: however requests interleave, fail or die, each version
\* of an artifact is made from the one it replaces, as ArtifactHistory says.
THEOREM NoUpdateLost == Spec => NoLostUpdate
<1>1. Init => History!Init
  <2>. SUFFICES ASSUME Init PROVE History!Init
    OBVIOUS
  <2>1. \A s \in Shareable : log[s] = <<>> /\ current[s] = None
    BY DEF Init
  <2>. QED BY <2>1 DEF History!Init
<1>2. HistoryInv /\ [Next]_vars => [History!Next]_<<Histories, Existing>>
  BY StepIsHistory
<1>. QED BY <1>1, <1>2, HistoryInvariant, PTL
         DEF Spec, NoLostUpdate, History!Spec, Histories, Versions, Existing

-----------------------------------------------------------------------------
(***************************************************************************)
(* What the storage of artifacts promises as long as D1 reports what it    *)
(* did (LostReply = FALSE), for every value of the constants: no published *)
(* version loses an object, no loss is reported that is none, and the      *)
(* storage counter can be trusted.                                         *)
(*                                                                         *)
(* NoDangling is not inductive: it does not say why the keys a cleanup, a  *)
(* compensation or the orphan collection is about to delete stay           *)
(* unreferenced between their check and their deletion.  They do because   *)
(* a version's rows name only objects its request has just stored or its   *)
(* base's rows name already.  An upload that has not published yet is      *)
(* called fresh: nobody else knows its keys, and its objects are younger   *)
(* than any cutoff of the orphan collection.                               *)
(*                                                                         *)
(* The invariants of the other two theorems build on that one: AlarmInv    *)
(* adds what the check of the references has read, CountInv what each      *)
(* upload has reserved and how old the stamp of the counter can be.        *)
(***************************************************************************)

Fresh(u) == phase[u] \in {"idle", "reading", "begun", "reserved", "stored", "undo"}

OnlyPublishedHasFiles == \A v \in Upload \ published : files[v] = {}

\* No row, cleanup or scan names an object of a fresh upload.
FreshUnnamed ==
  \A k \in Key : Fresh(k[1]) =>
    /\ k \notin Referenced
    /\ \A j \in Job : k \notin mem[j].keys
    /\ k \notin orphanScan.keys

\* What was unreferenced when checked stays so until deleted.
CleanedUnreferenced ==
  \A j \in Job : phase[j] = "deleting" => mem[j].keys \cap Referenced = {}

\* What a request is about to publish is stored.
StagedPresent ==
  \A u \in Upload :
    /\ phase[u] \in {"reading", "begun", "stored"} => Own(u) \subseteq Objects
    /\ phase[u] = "stored" /\ IsPage(u) => Entry \in mem[u].sent

\* The objects of a fresh upload are no older than its request.
StagedYoung ==
  \A k \in Objects : Fresh(k[1]) => phase[k[1]] # "idle" /\ mem[k[1]].begun <= bucket[k]

WithinRequest ==
  \A j \in Job : ~Ended(j) => mem[j].begun <= now /\ now <= mem[j].begun + MaxRequest

\* Every fresh request began after the cutoff of a running scan...
ScanOlder ==
  orphanScan.stage # "off" =>
    /\ orphanScan.cutoff < now
    /\ \A u \in Upload : Fresh(u) /\ phase[u] # "idle" => orphanScan.cutoff < mem[u].begun

\* ... so what was published since the scan read the rows is too young for it.
ScanRows ==
  orphanScan.stage = "rows" =>
    \A k \in Referenced \ orphanScan.keys : orphanScan.cutoff < bucket[k]

ScanListed == orphanScan.stage = "listed" => orphanScan.keys \cap Referenced = {}

\* The inductive strengthening of NoDangling.
SafeInv ==
  /\ TypeOK
  /\ OnlyPublishedHasFiles /\ FreshUnnamed /\ CleanedUnreferenced
  /\ StagedPresent /\ StagedYoung /\ WithinRequest
  /\ ScanOlder /\ ScanRows /\ ScanListed
  /\ Referenced \subseteq Objects

-----------------------------------------------------------------------------
(* One step of one job: the other jobs, the clock and the scan stay.       *)

Alone(j) ==
  /\ \A i \in Job \ {j} : phase'[i] = phase[i] /\ mem'[i] = mem[i]
  /\ UNCHANGED <<orphanScan, now>>

\* A job that begins does so now, and an upload never becomes fresh again.
Proceeds(j) ==
  /\ ~Ended(j)' => IF phase[j] = "idle" THEN mem'[j].begun = now
                                        ELSE ~Ended(j) /\ mem'[j].begun = mem[j].begun
  /\ Fresh(j)' => Fresh(j) /\ phase'[j] # "idle"

\* The rows gain only objects the job stored, in the step in which it stops
\* being fresh.
RowsStep(j) ==
  /\ OnlyPublishedHasFiles'
  /\ \A k \in Referenced' \ Referenced : k \in Objects' /\ k[1] = j /\ Fresh(j) /\ ~Fresh(j)'

\* The job takes note only of keys the rows name, and deletes them only
\* when the rows do not.
KeysStep(j) ==
  /\ \A k \in mem'[j].keys : k \in mem[j].keys \cup Referenced
  /\ phase'[j] = "deleting" => mem'[j].keys \cap Referenced' = {}

\* Objects vanish only unreferenced and never under another fresh upload;
\* objects appear only under the job itself.
BucketStep(j) ==
  /\ \A k \in Objects \ Objects' : k \notin Referenced /\ (Fresh(k[1]) => k[1] = j)
  /\ \A k \in Objects' : \/ k \in Objects /\ bucket'[k] = bucket[k]
                         \/ k[1] = j /\ bucket'[k] = now /\ phase[j] # "idle" /\ Fresh(j)

StagedStep(j) ==
  j \in Upload =>
    /\ phase'[j] \in {"reading", "begun", "stored"} => Own(j)' \subseteq Objects'
    /\ phase'[j] = "stored" /\ IsPage(j)' => Entry \in mem'[j].sent

\* Where a key's owner is typed: an upload, so a job.
LEMMA KeyOwner ==
  \A k \in Key : k[1] \in Upload /\ k[1] \in Job
BY DEF Key, Job

LEMMA JobStepSafe ==
  ASSUME SafeInv, TypeOK', NEW j \in Job, Alone(j), Proceeds(j), RowsStep(j), KeysStep(j),
         BucketStep(j), StagedStep(j)
  PROVE  SafeInv'
<1>. USE KeyOwner
<1>0. /\ now \in Int /\ MaxRequest \in Nat
      /\ Objects \subseteq Key /\ Objects' \subseteq Key
      /\ \A k \in Objects : bucket[k] \in Int
      /\ \A i \in Job : mem[i].begun \in Int
      /\ Referenced \subseteq Key /\ Referenced' \subseteq Key
      /\ orphanScan.cutoff \in Int
  <2>1. TypeOK
    BY DEF SafeInv
  <2>2. Referenced \in SUBSET Key
    BY <2>1, KeySets
  <2>3. Referenced' \in SUBSET Key
    BY DEF TypeOK, Referenced, FilesOf
  <2>4. \A i \in Job : mem[i].begun \in Int
    BY <2>1, FieldTypes DEF Time
  <2>. QED BY <2>1, <2>2, <2>3, <2>4, StorageAssumption DEF TypeOK, Time, Scans
<1>1. FreshUnnamed'
  BY <1>0 DEF SafeInv, FreshUnnamed, Alone, Proceeds, RowsStep, KeysStep, Fresh
<1>2. CleanedUnreferenced'
  BY <1>0 DEF SafeInv, FreshUnnamed, CleanedUnreferenced, Alone, RowsStep, KeysStep
<1>3. (Referenced \subseteq Objects)'
  BY <1>0 DEF SafeInv, RowsStep, BucketStep
<1>4. StagedPresent'
  <2>1. CASE j \notin Upload
    BY <1>0, <2>1 DEF SafeInv, StagedPresent, Alone, BucketStep, Own, IsPage, Fresh, Job
  <2>2. ASSUME j \in Upload, NEW u \in Upload \ {j}
        PROVE  /\ phase'[u] \in {"reading", "begun", "stored"} => Own(u)' \subseteq Objects'
               /\ phase'[u] = "stored" /\ IsPage(u)' => Entry \in mem'[u].sent
    <3>1. phase'[u] = phase[u] /\ mem'[u] = mem[u]
      BY DEF Alone, Job
    <3>2. ASSUME phase[u] \in {"reading", "begun", "stored"} PROVE Own(u) \subseteq Objects'
      <4>1. Own(u) \subseteq Objects /\ Fresh(u)
        BY <3>2 DEF SafeInv, StagedPresent, Fresh
      <4>2. \A k \in Own(u) : k[1] = u
        BY DEF Own
      <4>. QED BY <4>1, <4>2 DEF BucketStep
    <3>. QED BY <3>1, <3>2 DEF SafeInv, StagedPresent, Own, IsPage
  <2>. QED BY <2>1, <2>2 DEF StagedPresent, StagedStep
<1>5. StagedYoung'
  BY <1>0 DEF SafeInv, StagedYoung, WithinRequest, Alone, Proceeds, BucketStep, Fresh, Ended
<1>6. WithinRequest'
  BY <1>0 DEF SafeInv, WithinRequest, Alone, Proceeds, Ended
<1>7. ScanOlder'
  <2>1. ASSUME orphanScan.stage # "off", NEW u \in Upload, Fresh(u)', phase'[u] # "idle"
        PROVE  orphanScan.cutoff < mem'[u].begun
    <3>1. u \in Job
      BY DEF Job
    <3>2. CASE u = j
      BY <2>1, <3>2, <1>0 DEF SafeInv, ScanOlder, Proceeds, Fresh, Ended
    <3>3. CASE u # j
      BY <2>1, <3>1, <3>3 DEF SafeInv, ScanOlder, Alone, Fresh
    <3>. QED BY <3>2, <3>3
  <2>. QED BY <2>1 DEF SafeInv, ScanOlder, Alone
<1>8. ScanRows'
  BY <1>0 DEF SafeInv, ScanRows, ScanOlder, StagedYoung, Alone, RowsStep, BucketStep, Fresh
<1>9. ScanListed'
  BY <1>0 DEF SafeInv, ScanListed, FreshUnnamed, Alone, RowsStep
<1>. QED BY <1>1, <1>2, <1>3, <1>4, <1>5, <1>6, <1>7, <1>8, <1>9 DEF SafeInv, RowsStep

-----------------------------------------------------------------------------
(* The pieces of a job's step. *)

LEMMA RowsKept ==
  ASSUME SafeInv, NEW j, UNCHANGED rows
  PROVE  RowsStep(j)
BY DEF SafeInv, RowsStep, OnlyPublishedHasFiles, Referenced, FilesOf, rows

LEMMA BucketKept ==
  ASSUME NEW j, UNCHANGED bucket
  PROVE  BucketStep(j)
BY DEF BucketStep, Objects

\* A job that ends forgets everything.
LEMMA EndStep ==
  ASSUME SafeInv, NEW j \in Job, NEW p \in {"done", "dead"}, End(j, p), UNCHANGED <<cron, now>>
  PROVE  Alone(j) /\ Proceeds(j) /\ KeysStep(j) /\ StagedStep(j)
<1>1. phase'[j] = p /\ mem'[j] = NoMemory
  BY DEF SafeInv, TypeOK, End, Goto
<1>2. Alone(j)
  BY DEF SafeInv, TypeOK, Alone, End, Goto, cron
<1>. QED BY <1>1, <1>2 DEF Proceeds, Ended, Fresh, KeysStep, NoMemory, StagedStep

\* A job that goes on keeps what it may forget nothing of.
LEMMA GoOnStep ==
  ASSUME SafeInv, NEW j \in Job, ~Ended(j), NEW p, NEW m, Goto(j, p), mem' = [mem EXCEPT ![j] = m],
         m.begun = mem[j].begun, p # "idle",
         p \in {"reading", "begun", "reserved", "stored", "undo"} => Fresh(j),
         UNCHANGED <<cron, now>>
  PROVE  Alone(j) /\ Proceeds(j) /\ phase'[j] = p /\ mem'[j] = m
<1>1. phase'[j] = p /\ mem'[j] = m
  BY DEF SafeInv, TypeOK, Goto
<1>2. Alone(j)
  BY DEF SafeInv, TypeOK, Alone, Goto, cron
<1>. QED BY <1>1, <1>2 DEF Proceeds, Ended, Fresh

LEMMA BeginSafe ==
  ASSUME SafeInv, TypeOK', NEW j \in Job, NEW p \in Phases \ {"idle", "stored", "deleting"},
         NEW kind, NEW s, NEW base, NEW expected, NEW ks \in SUBSET Referenced,
         Begin(j, p, kind, s, base, expected, ks)
  PROVE  SafeInv'
<1>1. /\ phase[j] = "idle" /\ phase'[j] = p
      /\ mem'[j].begun = now /\ mem'[j].keys = ks /\ mem'[j].sent = {}
  BY DEF SafeInv, TypeOK, Begin, Goto, NoMemory
<1>2. Alone(j)
  BY DEF SafeInv, TypeOK, Alone, Begin, Goto, cron
<1>3. Proceeds(j) /\ KeysStep(j)
  BY <1>1 DEF Proceeds, Ended, Fresh, KeysStep
<1>4. StagedStep(j)
  BY <1>1 DEF StagedStep, Own
<1>. QED BY <1>2, <1>3, <1>4, RowsKept, BucketKept, JobStepSafe DEF Begin

\* A step that touches neither rows nor objects.
LEMMA QuietSafe ==
  ASSUME SafeInv, TypeOK', NEW j \in Job, UNCHANGED <<rows, bucket>>,
         Alone(j), Proceeds(j), KeysStep(j), StagedStep(j)
  PROVE  SafeInv'
BY RowsKept, BucketKept, JobStepSafe

LEMMA MemFields ==
  ASSUME SafeInv, NEW j \in Job
  PROVE  /\ \A x : [mem[j] EXCEPT !.body = x].begun = mem[j].begun
         /\ \A x : [mem[j] EXCEPT !.body = x].keys = mem[j].keys
         /\ \A x : [mem[j] EXCEPT !.body = x].sent = mem[j].sent
         /\ \A x : [mem[j] EXCEPT !.sent = x].begun = mem[j].begun
         /\ \A x : [mem[j] EXCEPT !.sent = x].keys = mem[j].keys
         /\ \A x : [mem[j] EXCEPT !.sent = x].sent = x
         /\ \A x : [mem[j] EXCEPT !.todo = x].begun = mem[j].begun
         /\ \A x : [mem[j] EXCEPT !.todo = x].keys = mem[j].keys
         /\ \A x, y : [mem[j] EXCEPT !.todo = x, !.sent = y].begun = mem[j].begun
         /\ \A x, y : [mem[j] EXCEPT !.todo = x, !.sent = y].keys = mem[j].keys
         /\ \A x : [mem[j] EXCEPT !.picked = x].begun = mem[j].begun
         /\ \A x : [mem[j] EXCEPT !.picked = x].keys = mem[j].keys
         /\ \A x, y : [mem[j] EXCEPT !.picked = x, !.keys = y].begun = mem[j].begun
         /\ \A x, y : [mem[j] EXCEPT !.picked = x, !.keys = y].keys = y
         /\ \A x : [mem[j] EXCEPT !.keys = x].begun = mem[j].begun
         /\ \A x : [mem[j] EXCEPT !.keys = x].keys = x
<1>1. mem[j] \in Memories
  BY MemoryType DEF SafeInv
<1>. QED BY <1>1 DEF Memories, Fields

LEMMA UploadJob == \A u \in Upload : u \in Job
BY DEF Job

LEMMA ReadSourceSafe ==
  ASSUME SafeInv, TypeOK', NEW u \in Upload, ReadSource(u) PROVE SafeInv'
<1>1. CASE <<mem[u].base, Entry>> \in Objects
  <2>. DEFINE m == [mem[u] EXCEPT !.body = content[mem[u].base]]
  <2>1. mem' = [mem EXCEPT ![u] = m] /\ Goto(u, "begun") /\ phase[u] = "reading"
    BY <1>1 DEF ReadSource, SafeInv, TypeOK
  <2>2. m.begun = mem[u].begun /\ m.keys = mem[u].keys /\ m.sent = mem[u].sent
    BY MemFields, UploadJob
  <2>. HIDE DEF m
  <2>3. Alone(u) /\ Proceeds(u) /\ phase'[u] = "begun" /\ mem'[u] = m
    BY <2>1, <2>2, GoOnStep, UploadJob DEF ReadSource, Ended, Fresh
  <2>4. StagedStep(u)
    BY <2>1, <2>2, <2>3, <1>1 DEF SafeInv, StagedPresent, StagedStep, Own, Objects, ReadSource
  <2>. QED BY <2>2, <2>3, <2>4, QuietSafe, UploadJob DEF ReadSource, KeysStep
<1>2. CASE <<mem[u].base, Entry>> \notin Objects
  BY <1>2, EndStep, QuietSafe, UploadJob DEF ReadSource
<1>. QED BY <1>1, <1>2

\* A job that only moves on.
LEMMA MoveStep ==
  ASSUME SafeInv, NEW j \in Job, ~Ended(j), NEW p, Goto(j, p), UNCHANGED <<mem, cron, now>>,
         p # "idle", p \in {"reading", "begun", "reserved", "stored", "undo"} => Fresh(j)
  PROVE  Alone(j) /\ Proceeds(j) /\ phase'[j] = p /\ mem'[j] = mem[j]
<1>1. mem' = [mem EXCEPT ![j] = mem[j]]
  BY DEF SafeInv, TypeOK
<1>. QED BY <1>1, GoOnStep

LEMMA ReserveSafe ==
  ASSUME SafeInv, TypeOK', NEW u \in Upload, ReservePage(u) \/ ReserveSite(u) \/ RefusePage(u)
  PROVE  SafeInv'
<1>1. CASE ReservePage(u)
  <2>1. Alone(u) /\ Proceeds(u) /\ phase'[u] = "reserved" /\ mem'[u] = mem[u]
    BY <1>1, MoveStep, UploadJob DEF ReservePage, Ended, Fresh
  <2>. QED BY <1>1, <2>1, QuietSafe, UploadJob DEF ReservePage, KeysStep, StagedStep
<1>2. CASE ReserveSite(u)
  <2>1. Alone(u) /\ Proceeds(u) /\ phase'[u] = "stored" /\ mem'[u] = mem[u]
    BY <1>2, MoveStep, UploadJob DEF ReserveSite, Ended, Fresh
  <2>2. StagedStep(u)
    BY <1>2, <2>1 DEF ReserveSite, SafeInv, StagedPresent, StagedStep, Own, Objects, IsPage
  <2>. QED BY <1>2, <2>1, <2>2, QuietSafe, UploadJob DEF ReserveSite, KeysStep
<1>3. CASE RefusePage(u)
  BY <1>3, EndStep, QuietSafe, UploadJob DEF RefusePage
<1>. QED BY <1>1, <1>2, <1>3

\* A put of one of the job's own keys.
LEMMA PutStep ==
  ASSUME SafeInv, NEW u \in Upload, Fresh(u), phase[u] # "idle", NEW p \in Path,
         bucket' = WithObject(<<u, p>>)
  PROVE  BucketStep(u) /\ Objects' = Objects \cup {<<u, p>>}
BY DEF BucketStep, WithObject, Objects

LEMMA UndoStep ==
  ASSUME SafeInv, NEW u \in Upload, Fresh(u), phase[u] # "idle", NEW m, Undo(u, m),
         m.begun = mem[u].begun, m.keys = mem[u].keys, UNCHANGED <<cron, now>>
  PROVE  Alone(u) /\ Proceeds(u) /\ KeysStep(u) /\ StagedStep(u)
<1>1. Alone(u) /\ Proceeds(u) /\ phase'[u] = "undo" /\ mem'[u] = m
  BY GoOnStep, UploadJob DEF Undo, Ended, Fresh
<1>. QED BY <1>1 DEF KeysStep, StagedStep

LEMMA PutSafe ==
  ASSUME SafeInv, TypeOK', NEW u \in Upload, PutPage(u) \/ PutPageFails(u) PROVE SafeInv'
<1>. USE UploadJob
<1>0. Entry \in Path
  BY StorageAssumption
<1>1. CASE PutPage(u)
  <2>. DEFINE m == [mem[u] EXCEPT !.sent = {Entry}]
  <2>1. mem' = [mem EXCEPT ![u] = m] /\ Goto(u, "stored") /\ phase[u] = "reserved"
    BY <1>1 DEF PutPage, SafeInv, TypeOK
  <2>2. m.begun = mem[u].begun /\ m.keys = mem[u].keys /\ m.sent = {Entry}
    BY MemFields
  <2>. HIDE DEF m
  <2>3. Alone(u) /\ Proceeds(u) /\ phase'[u] = "stored" /\ mem'[u] = m
    BY <1>1, <2>1, <2>2, GoOnStep DEF PutPage, Ended, Fresh
  <2>4. BucketStep(u) /\ Objects' = Objects \cup {<<u, Entry>>}
    BY <1>0, <1>1, <2>1, PutStep DEF PutPage, Fresh
  <2>5. StagedStep(u)
    BY <2>2, <2>3, <2>4 DEF StagedStep, Own
  <2>6. KeysStep(u)
    BY <2>2, <2>3 DEF KeysStep
  <2>. QED BY <1>1, <2>3, <2>4, <2>5, <2>6, RowsKept, JobStepSafe DEF PutPage
<1>2. CASE PutPageFails(u)
  <2>1. phase[u] = "reserved" /\ Fresh(u)
    BY <1>2 DEF PutPageFails, Fresh
  <2>2. BucketStep(u)
    BY <1>0, <1>2, <2>1, PutStep, BucketKept DEF PutPageFails
  <2>3. Alone(u) /\ Proceeds(u) /\ KeysStep(u) /\ StagedStep(u)
    BY <1>2, <2>1, UndoStep, MemFields DEF PutPageFails
  <2>. QED BY <1>2, <2>2, <2>3, RowsKept, JobStepSafe DEF PutPageFails
<1>. QED BY <1>1, <1>2

LEMMA StagingSafe ==
  ASSUME SafeInv, TypeOK', NEW u \in Upload, AbortSite(u) \/ (\E p \in Path : AddFile(u, p))
  PROVE  SafeInv'
<1>. USE UploadJob
<1>1. ASSUME NEW p \in Path, AddFile(u, p) PROVE SafeInv'
  <2>. DEFINE m == [mem[u] EXCEPT !.sent = mem[u].sent \cup {p}]
  <2>0. phase[u] = "begun" /\ ~IsPage(u) /\ Fresh(u) /\ ~Ended(u)
    BY <1>1 DEF AddFile, Fresh, Ended
  <2>1. mem' = [mem EXCEPT ![u] = m] /\ Goto(u, "begun")
    BY <1>1, <2>0 DEF AddFile, Goto, SafeInv, TypeOK
  <2>2. m.begun = mem[u].begun /\ m.keys = mem[u].keys /\ m.sent = mem[u].sent \cup {p}
    BY MemFields
  <2>. HIDE DEF m
  <2>3. Alone(u) /\ Proceeds(u) /\ phase'[u] = "begun" /\ mem'[u] = m
    BY <1>1, <2>0, <2>1, <2>2, GoOnStep DEF AddFile
  <2>4. BucketStep(u) /\ Objects' = Objects \cup {<<u, p>>}
    BY <1>1, <2>0, PutStep DEF AddFile
  <2>5. StagedStep(u)
    BY <2>0, <2>2, <2>3, <2>4 DEF StagedStep, SafeInv, StagedPresent, Own
  <2>6. KeysStep(u)
    BY <2>2, <2>3 DEF KeysStep
  <2>. QED BY <1>1, <2>3, <2>4, <2>5, <2>6, RowsKept, JobStepSafe DEF AddFile
<1>2. CASE AbortSite(u)
  <2>1. phase[u] = "begun" /\ Fresh(u) /\ UNCHANGED <<rows, cron, now>>
    BY <1>2 DEF AbortSite, Fresh
  <2>2. ASSUME bucket' = bucket, Undo(u, [mem[u] EXCEPT !.todo = {"object"}]) PROVE SafeInv'
    <3>1. Alone(u) /\ Proceeds(u) /\ KeysStep(u) /\ StagedStep(u)
      BY <2>1, <2>2, UndoStep, MemFields
    <3>. QED BY <2>1, <2>2, <3>1, RowsKept, BucketKept, JobStepSafe
  <2>3. ASSUME NEW p \in Path \ mem[u].sent, bucket' = WithObject(<<u, p>>),
               Undo(u, [mem[u] EXCEPT !.todo = {"object"}, !.sent = @ \cup {p}])
        PROVE  SafeInv'
    <3>1. BucketStep(u)
      BY <2>1, <2>3, PutStep
    <3>. DEFINE m == [mem[u] EXCEPT !.todo = {"object"}, !.sent = mem[u].sent \cup {p}]
    <3>2. Undo(u, m)
      BY <2>3, MemoryType DEF SafeInv, Memories, Fields
    <3>3. m.begun = mem[u].begun /\ m.keys = mem[u].keys
      BY MemFields
    <3>. HIDE DEF m
    <3>4. Alone(u) /\ Proceeds(u) /\ KeysStep(u) /\ StagedStep(u)
      BY <2>1, <3>2, <3>3, UndoStep
    <3>. QED BY <2>1, <3>1, <3>4, RowsKept, JobStepSafe
  <2>. QED BY <1>2, <2>2, <2>3 DEF AbortSite
<1>. QED BY <1>1, <1>2

\* One step of a compensation, the last one or not.
LEMMA UndoneStep ==
  ASSUME SafeInv, NEW u \in Upload, NEW t, phase[u] = "undo", Undone(u, t), UNCHANGED <<cron, now>>
  PROVE  Alone(u) /\ Proceeds(u) /\ KeysStep(u) /\ StagedStep(u)
<1>. USE UploadJob
<1>1. CASE mem[u].todo = {t}
  BY <1>1, EndStep DEF Undone
<1>2. CASE mem[u].todo # {t}
  <2>1. Undo(u, [mem[u] EXCEPT !.todo = mem[u].todo \ {t}])
    BY <1>2 DEF Undone, Undo, Goto, SafeInv, TypeOK
  <2>. QED BY <2>1, MemFields, UndoStep DEF Fresh
<1>. QED BY <1>1, <1>2

LEMMA CompensationSafe ==
  ASSUME SafeInv, TypeOK', NEW u \in Upload, CommitRefused(u) \/ UndoObjects(u) \/ UndoQuota(u)
  PROVE  SafeInv'
<1>. USE UploadJob
<1>1. CASE CommitRefused(u)
  <2>1. Alone(u) /\ Proceeds(u) /\ KeysStep(u) /\ StagedStep(u)
    BY <1>1, UndoStep, MemFields DEF CommitRefused, Fresh
  <2>. QED BY <1>1, <2>1, QuietSafe DEF CommitRefused
<1>2. CASE UndoQuota(u)
  BY <1>2, UndoneStep, QuietSafe DEF UndoQuota
<1>3. CASE UndoObjects(u)
  <2>1. PICK gone \in SUBSET Own(u) : bucket' = Without(gone)
    BY <1>3 DEF UndoObjects
  <2>2. \A k \in Own(u) : k[1] = u /\ (k \in Objects => k \notin Referenced)
    BY <1>3 DEF UndoObjects, Own, SafeInv, TypeOK, FreshUnnamed, Fresh
  <2>3. BucketStep(u)
    BY <2>1, <2>2 DEF BucketStep, Without, Objects
  <2>. QED BY <1>3, <2>3, UndoneStep, RowsKept, JobStepSafe DEF UndoObjects
<1>. QED BY <1>1, <1>2, <1>3

-----------------------------------------------------------------------------
(* Publication and removal. *)

\* A version's rows name its request's objects and its base's.
LEMMA CommitRows ==
  ASSUME SafeInv, NEW u \in Upload, Commit(u)
  PROVE  /\ OnlyPublishedHasFiles'
         /\ \A k \in Referenced' \ Referenced : k \in Own(u)
<1>. DEFINE own == {<<u, Entry>>}
<1>1. ASSUME NEW op, NEW fs, NEW body, Publish(u, op, fs, body), fs \subseteq Own(u) \cup Referenced
      PROVE  /\ OnlyPublishedHasFiles'
             /\ \A k \in Referenced' \ Referenced : k \in Own(u)
  <2>1. \A v \in Upload : files'[v] = IF v = u THEN fs ELSE files[v]
    BY <1>1 DEF Publish, SafeInv, TypeOK
  <2>2. published' = published \cup {u} /\ published \subseteq Upload
    BY <1>1 DEF Publish, SafeInv, TypeOK
  <2>. QED BY <1>1, <2>1, <2>2 DEF SafeInv, OnlyPublishedHasFiles, Referenced, FilesOf
<1>2. phase[u] = "stored" => (IsPage(u) => own \subseteq Own(u))
  BY DEF SafeInv, StagedPresent, Own
<1>3. CASE CommitNewPage(u)
  <2>1. IsPage(u)
    BY <1>3 DEF CommitNewPage, IsPage, PageKinds
  <2>. QED BY <1>1, <1>2, <1>3, <2>1 DEF CommitNewPage
<1>4. CASE CommitPage(u)
  <2>1. IsPage(u)
    BY <1>4 DEF CommitPage, IsPage, PageKinds
  <2>. QED BY <1>1, <1>2, <1>4, <2>1 DEF CommitPage
<1>5. CASE CommitNewSite(u)
  BY <1>1, <1>5 DEF CommitNewSite
<1>6. CASE CommitSite(u)
  <2>. DEFINE base == IF mem[u].base = None THEN {} ELSE files[mem[u].base]
              manifest(d) == {k \in base : k[2] \notin d \cup mem[u].sent} \cup Own(u)
              op == IF mem[u].base = None THEN "replace" ELSE "edit"
  <2>1. PICK d \in SUBSET (Path \ mem[u].sent) : Publish(u, op, manifest(d), manifest(d))
    BY <1>6 DEF CommitSite
  <2>2. base \subseteq Referenced
    <3>1. mem[u].base \in Upload \cup {None}
      BY FieldTypes, UploadJob DEF SafeInv
    <3>. QED BY <3>1 DEF SafeInv, OnlyPublishedHasFiles, Referenced, FilesOf
  <2>3. manifest(d) \subseteq Own(u) \cup Referenced
    BY <2>2
  <2>. HIDE DEF manifest, op
  <2>. QED BY <1>1, <2>1, <2>3
<1>. QED BY <1>3, <1>4, <1>5, <1>6 DEF Commit

LEMMA CommitsSafe ==
  ASSUME SafeInv, TypeOK', NEW u \in Upload, Commits(u) PROVE SafeInv'
<1>. USE UploadJob
<1>1. phase[u] = "stored" /\ Commit(u) /\ UNCHANGED <<quota, bucket, cron, now>>
  BY DEF Commits, Commit, CommitNewPage, CommitPage, CommitNewSite, CommitSite
<1>2. Alone(u) /\ Proceeds(u) /\ KeysStep(u) /\ StagedStep(u) /\ ~Fresh(u)'
  <2>1. CASE mem[u].kind \in CreateKinds
    <3>1. End(u, "done")
      BY <2>1 DEF Commits
    <3>2. Alone(u) /\ Proceeds(u) /\ KeysStep(u) /\ StagedStep(u)
      BY <1>1, <3>1, EndStep
    <3>3. phase'[u] = "done"
      BY <3>1 DEF End, Goto, SafeInv, TypeOK
    <3>. QED BY <3>2, <3>3 DEF Fresh
  <2>2. CASE mem[u].kind \notin CreateKinds
    <3>. DEFINE m == [NoMemory EXCEPT !.target = mem[u].target, !.begun = mem[u].begun]
    <3>1. Goto(u, "pruning") /\ mem' = [mem EXCEPT ![u] = m]
      BY <2>2 DEF Commits
    <3>2. m.begun = mem[u].begun /\ m.keys = {}
      BY DEF NoMemory
    <3>. HIDE DEF m
    <3>3. Alone(u) /\ Proceeds(u) /\ phase'[u] = "pruning" /\ mem'[u] = m
      BY <1>1, <3>1, <3>2, GoOnStep DEF Ended
    <3>. QED BY <3>2, <3>3 DEF KeysStep, StagedStep, Fresh
  <2>. QED BY <2>1, <2>2
<1>3. RowsStep(u)
  <2>1. Own(u) \subseteq Objects' /\ Fresh(u)
    BY <1>1 DEF SafeInv, StagedPresent, Fresh, Objects
  <2>2. \A k \in Own(u) : k[1] = u
    BY DEF Own
  <2>. QED BY <1>1, <1>2, <2>1, <2>2, CommitRows DEF RowsStep
<1>. QED BY <1>1, <1>2, <1>3, BucketKept, JobStepSafe

\* Removing rows references nothing new.
LEMMA RemoveRows ==
  ASSUME SafeInv, NEW j \in Job, NEW vs \in SUBSET Upload, Remove(vs)
  PROVE  RowsStep(j) /\ Referenced' \subseteq Referenced
<1>1. /\ published' = published \ vs
      /\ \A v \in Upload : files'[v] = IF v \in vs THEN {} ELSE files[v]
  BY DEF Remove
<1>2. published \subseteq Upload
  BY DEF SafeInv, TypeOK
<1>. QED BY <1>1, <1>2
         DEF RowsStep, SafeInv, OnlyPublishedHasFiles, Referenced, FilesOf

LEMMA CleanSafe ==
  ASSUME SafeInv, TypeOK', NEW j \in Job, Clean(j) PROVE SafeInv'
<1>0. TypeOK
  BY DEF SafeInv
<1>1. CASE PruneSelect(j)
  <2>. DEFINE ids == Candidates(mem[j].target)
              p   == IF ids = {} THEN "cleaning" ELSE "picked"
              m   == [mem[j] EXCEPT !.picked = ids]
  <2>1. Goto(j, p) /\ mem' = [mem EXCEPT ![j] = m]
    BY <1>0, <1>1 DEF PruneSelect, TypeOK
  <2>2. m.begun = mem[j].begun /\ m.keys = mem[j].keys
    BY MemFields
  <2>3. p \in {"cleaning", "picked"}
    OBVIOUS
  <2>6. ~Ended(j) /\ UNCHANGED <<cron, now>>
    BY <1>1 DEF PruneSelect, Ended
  <2>. HIDE DEF m, p
  <2>4. Alone(j) /\ Proceeds(j) /\ phase'[j] = p /\ mem'[j] = m
    BY <2>1, <2>2, <2>3, <2>6, GoOnStep
  <2>5. KeysStep(j) /\ StagedStep(j)
    BY <2>2, <2>3, <2>4 DEF KeysStep, StagedStep
  <2>. QED BY <1>1, <2>4, <2>5, QuietSafe DEF PruneSelect
<1>2. CASE PruneBatch(j)
  <2>. DEFINE ids == mem[j].picked \cap Candidates(mem[j].target)
              m   == [mem[j] EXCEPT !.picked = {}, !.keys = mem[j].keys \cup FilesOf(ids)]
  <2>1. ids \subseteq published /\ ids \subseteq Upload
    BY <1>0, KeySets DEF TypeOK
  <2>2. FilesOf(ids) \subseteq Referenced
    BY <2>1 DEF FilesOf, Referenced
  <2>3. Goto(j, "pruning") /\ mem' = [mem EXCEPT ![j] = m]
    BY <1>0, <1>2 DEF PruneBatch, TypeOK
  <2>4. m.begun = mem[j].begun /\ m.keys = mem[j].keys \cup FilesOf(ids)
    BY MemFields
  <2>5. RowsStep(j)
    <3>1. Remove(ids) \/ UNCHANGED rows
      BY <1>2 DEF PruneBatch, rows
    <3>. HIDE DEF ids
    <3>. QED BY <2>1, <3>1, RemoveRows, RowsKept
  <2>. HIDE DEF ids, m
  <2>6. Alone(j) /\ Proceeds(j) /\ phase'[j] = "pruning" /\ mem'[j] = m
    BY <1>2, <2>3, <2>4, GoOnStep DEF PruneBatch, Ended
  <2>7. KeysStep(j) /\ StagedStep(j)
    BY <2>2, <2>4, <2>6 DEF KeysStep, StagedStep
  <2>. QED BY <1>2, <2>5, <2>6, <2>7, BucketKept, JobStepSafe DEF PruneBatch
<1>3. CASE CleanCheck(j)
  <2>. DEFINE m == [mem[j] EXCEPT !.keys = mem[j].keys \ Referenced]
  <2>1. Goto(j, "deleting") /\ mem' = [mem EXCEPT ![j] = m]
    BY <1>0, <1>3 DEF CleanCheck, TypeOK
  <2>2. m.begun = mem[j].begun /\ m.keys = mem[j].keys \ Referenced
    BY MemFields
  <2>. HIDE DEF m
  <2>3. Alone(j) /\ Proceeds(j) /\ phase'[j] = "deleting" /\ mem'[j] = m
    BY <1>3, <2>1, <2>2, GoOnStep DEF CleanCheck, Ended
  <2>4. Referenced' = Referenced
    BY <1>3 DEF CleanCheck, rows, Referenced, FilesOf
  <2>5. KeysStep(j) /\ StagedStep(j)
    BY <2>2, <2>3, <2>4 DEF KeysStep, StagedStep
  <2>. QED BY <1>3, <2>3, <2>5, QuietSafe DEF CleanCheck
<1>4. CASE CleanDelete(j)
  <2>1. PICK gone \in SUBSET mem[j].keys : bucket' = Without(gone)
    BY <1>4 DEF CleanDelete
  <2>2. \A k \in mem[j].keys : k \notin Referenced /\ ~Fresh(k[1])
    BY <1>0, <1>4, FieldTypes DEF CleanDelete, SafeInv, CleanedUnreferenced, FreshUnnamed
  <2>3. BucketStep(j)
    BY <2>1, <2>2 DEF BucketStep, Without, Objects
  <2>. QED BY <1>4, <2>3, EndStep, RowsKept, JobStepSafe DEF CleanDelete
<1>. QED BY <1>1, <1>2, <1>3, <1>4 DEF Clean

LEMMA DeleterSafe ==
  ASSUME SafeInv, TypeOK', NEW d \in Deleter, StartDelete(d) \/ DeleteBatch(d) PROVE SafeInv'
<1>0. TypeOK /\ d \in Job
  BY DEF SafeInv, Job
<1>1. CASE StartDelete(d)
  <2>1. PICK s \in Shareable : BeginPrune(d, s) \/ BeginDelete(d, s)
    BY <1>1 DEF StartDelete
  <2>2. FilesOf(VersionsOf(s)) \subseteq Referenced
    BY DEF FilesOf, VersionsOf, Referenced
  <2>3. {"pruning", "deletable"} \subseteq Phases \ {"idle", "stored", "deleting"}
    BY DEF Phases
  <2>4. CASE BeginPrune(d, s)
    <3>1. Begin(d, "pruning", "prune", s, None, None, {})
      BY <2>4 DEF BeginPrune
    <3>. QED BY <1>0, <2>3, <3>1, BeginSafe
  <2>5. CASE BeginDelete(d, s)
    <3>1. Begin(d, "deletable", "delete", s, None, None, FilesOf(VersionsOf(s)))
      BY <2>5 DEF BeginDelete
    <3>. QED BY <1>0, <2>2, <2>3, <3>1, BeginSafe
  <2>. QED BY <2>1, <2>4, <2>5
<1>2. CASE DeleteBatch(d)
  <2>. DEFINE s == mem[d].target
  <2>1. CASE current[s] = None
    BY <1>0, <1>2, <2>1, EndStep, QuietSafe DEF DeleteBatch
  <2>2. CASE current[s] # None
    <3>1. VersionsOf(s) \in SUBSET Upload /\ Remove(VersionsOf(s))
      BY <1>0, <1>2, <2>2, KeySets DEF DeleteBatch, TypeOK
    <3>2. Alone(d) /\ Proceeds(d) /\ phase'[d] = "cleaning" /\ mem'[d] = mem[d]
      BY <1>0, <1>2, <2>2, MoveStep DEF DeleteBatch, Ended
    <3>3. KeysStep(d) /\ StagedStep(d)
      BY <3>2 DEF KeysStep, StagedStep
    <3>. QED BY <1>0, <1>2, <3>1, <3>2, <3>3, RemoveRows, BucketKept, JobStepSafe DEF DeleteBatch
  <2>. QED BY <2>1, <2>2
<1>. QED BY <1>1, <1>2

LEMMA UploadSafe ==
  ASSUME SafeInv, TypeOK', LostReply = FALSE, NEW u \in Upload, Start(u) \/ Advance(u)
  PROVE  SafeInv'
<1>. USE UploadJob
<1>1. CASE Start(u)
  <2>1. PICK p \in {"begun", "reading"}, kind \in Kinds, s \in Shareable,
             base \in Upload \cup {None}, expected \in Upload \cup {None} :
          Begin(u, p, kind, s, base, expected, {})
    <3>1. \A s \in Shareable : current[s] \in Upload \cup {None}
      BY DEF SafeInv, TypeOK
    <3>. QED BY <1>1, <3>1, BegunPhase
             DEF Start, BeginCreate, BeginAppend, BeginPage, BeginSite
  <2>2. {"begun", "reading"} \subseteq Phases \ {"idle", "stored", "deleting"}
    BY DEF Phases
  <2>. QED BY <2>1, <2>2, BeginSafe
<1>2. CASE Advance(u)
  BY <1>2, ReadSourceSafe, ReserveSafe, PutSafe, StagingSafe, CommitsSafe, CompensationSafe
     DEF Advance, CommitReplyLost
<1>. QED BY <1>1, <1>2

-----------------------------------------------------------------------------
(* The daily jobs and the clock. *)

\* Nothing the invariant speaks of changes.
LEMMA IdleSafe ==
  ASSUME SafeInv, TypeOK', UNCHANGED <<rows, bucket, phase, mem, orphanScan, now>>
  PROVE  SafeInv'
BY DEF SafeInv, OnlyPublishedHasFiles, FreshUnnamed, CleanedUnreferenced, StagedPresent,
       StagedYoung, WithinRequest, ScanOlder, ScanRows, ScanListed, Fresh, Own, IsPage, Ended,
       Referenced, FilesOf, Objects, rows

LEMMA TickSafe ==
  ASSUME SafeInv, TypeOK', Tick PROVE SafeInv'
<1>1. UNCHANGED <<rows, bucket, phase, mem, orphanScan>> /\ now' = now + 1
  BY DEF Tick, cron
<1>2. WithinRequest'
  BY <1>1, FieldTypes, StorageAssumption
     DEF Tick, SafeInv, TypeOK, WithinRequest, Ended, Time
<1>3. ScanOlder'
  BY <1>1 DEF SafeInv, TypeOK, ScanOlder, Fresh, Scans, Time
<1>. QED BY <1>1, <1>2, <1>3
     DEF SafeInv, OnlyPublishedHasFiles, FreshUnnamed, CleanedUnreferenced, StagedPresent,
         StagedYoung, ScanRows, ScanListed, Fresh, Own, IsPage, Referenced, FilesOf, Objects, rows

\* The scan reads the rows, lists what is old and unnamed, and deletes that.
LEMMA OrphanSafe ==
  ASSUME SafeInv, TypeOK', OrphanCron PROVE SafeInv'
<1>. USE KeyOwner
<1>0. /\ TypeOK
      /\ now \in Int /\ MaxRequest \in Nat /\ ObjectGrace \in Nat /\ MaxRequest < ObjectGrace
      /\ Objects \subseteq Key /\ (\A k \in Objects : bucket[k] \in Int)
      /\ \A j \in Job : mem[j].begun \in Int
      /\ Referenced \subseteq Key /\ orphanScan.cutoff \in Int /\ orphanScan.keys \subseteq Key
  BY KeySets, FieldTypes, StorageAssumption, GraceAssumption
     DEF SafeInv, TypeOK, Time, Scans
<1>1. UNCHANGED <<rows, phase, mem, now>> /\ Referenced' = Referenced
  BY DEF OrphanCron, OrphanRead, OrphanList, OrphanDelete, Referenced, FilesOf, rows
<1>2. ASSUME ScanOlder', ScanRows', ScanListed', StagedPresent', StagedYoung',
             (Referenced \subseteq Objects)',
             \A k \in Key : Fresh(k[1]) => k \notin orphanScan'.keys
      PROVE  SafeInv'
  BY <1>1, <1>2 DEF SafeInv, OnlyPublishedHasFiles, FreshUnnamed, CleanedUnreferenced,
                    WithinRequest, Fresh, Ended, rows
<1>3. CASE OrphanRead
  <2>1. /\ UNCHANGED bucket
        /\ orphanScan'.stage = "rows" /\ orphanScan'.keys = Referenced
        /\ orphanScan'.cutoff = now - ObjectGrace
    BY <1>3 DEF OrphanRead
  <2>2. ScanOlder'
    <3>1. \A u \in Upload : Fresh(u) /\ phase[u] # "idle" => now <= mem[u].begun + MaxRequest
      BY UploadJob DEF SafeInv, WithinRequest, Fresh, Ended
    <3>2. \A u \in Upload : mem[u].begun \in Int
      BY <1>0, UploadJob
    <3>3. \A u \in Upload : Fresh(u) /\ phase[u] # "idle" => now - ObjectGrace < mem[u].begun
      BY <1>0, <3>1, <3>2
    <3>. QED BY <1>0, <1>1, <2>1, <3>3 DEF ScanOlder, Fresh
  <2>3. ScanRows' /\ ScanListed'
    BY <1>1, <2>1 DEF ScanRows, ScanListed
  <2>. QED BY <1>1, <1>2, <2>1, <2>2, <2>3
       DEF SafeInv, FreshUnnamed, StagedPresent, StagedYoung, Fresh, Own, IsPage, Objects
<1>4. CASE OrphanList
  <2>1. /\ UNCHANGED bucket
        /\ orphanScan.stage = "rows" /\ orphanScan'.stage = "listed"
        /\ orphanScan'.cutoff = orphanScan.cutoff
        /\ orphanScan'.keys = {k \in Objects \ orphanScan.keys : bucket[k] <= orphanScan.cutoff}
    BY <1>0, <1>4 DEF OrphanList, TypeOK, Scans
  <2>2. ScanOlder'
    BY <1>1, <2>1 DEF SafeInv, ScanOlder, Fresh
  <2>3. ScanRows' /\ ScanListed'
    BY <1>0, <1>1, <2>1 DEF SafeInv, ScanRows, ScanListed
  <2>4. \A k \in Key : Fresh(k[1]) => k \notin orphanScan'.keys
    BY <1>0, <2>1 DEF SafeInv, StagedYoung, ScanOlder
  <2>. QED BY <1>1, <1>2, <2>1, <2>2, <2>3, <2>4
       DEF SafeInv, StagedPresent, StagedYoung, Fresh, Own, IsPage, Objects
<1>5. ASSUME NEW gone \in SUBSET orphanScan.keys, OrphanDelete(gone) PROVE SafeInv'
  <2>1. /\ orphanScan.stage = "listed" /\ orphanScan' = NoScan
        /\ Objects' = Objects \ gone /\ \A k \in Objects' : bucket'[k] = bucket[k]
    BY <1>5 DEF OrphanDelete, Without, Objects
  <2>2. \A k \in gone : k \notin Referenced /\ ~Fresh(k[1])
    BY <1>0, <1>5, <2>1 DEF SafeInv, ScanListed, FreshUnnamed
  <2>3. ScanOlder' /\ ScanRows' /\ ScanListed' /\ orphanScan'.keys = {}
    BY <2>1 DEF ScanOlder, ScanRows, ScanListed, NoScan
  <2>4. StagedPresent'
    BY <1>1, <2>1, <2>2 DEF SafeInv, StagedPresent, Fresh, Own, IsPage
  <2>5. StagedYoung'
    BY <1>1, <2>1 DEF SafeInv, StagedYoung, Fresh
  <2>6. (Referenced \subseteq Objects)'
    BY <1>1, <2>1, <2>2 DEF SafeInv
  <2>. QED BY <1>2, <2>3, <2>4, <2>5, <2>6
<1>. QED BY <1>3, <1>4, <1>5 DEF OrphanCron

-----------------------------------------------------------------------------
LEMMA SafeInit == Init => SafeInv
<1>. SUFFICES ASSUME Init PROVE SafeInv
  OBVIOUS
<1>1. TypeOK
  BY InitType
<1>2. Referenced = {} /\ Objects = {}
  BY DEF Init, Referenced, FilesOf, Objects
<1>3. \A j \in Job : phase[j] = "idle" /\ mem[j] = NoMemory
  BY DEF Init
<1>4. orphanScan.stage = "off" /\ orphanScan.keys = {}
  BY DEF Init, NoScan
<1>5. OnlyPublishedHasFiles
  BY DEF Init, OnlyPublishedHasFiles
<1>. QED BY <1>1, <1>2, <1>3, <1>4, <1>5, UploadJob
     DEF SafeInv, FreshUnnamed, CleanedUnreferenced, StagedPresent, StagedYoung, WithinRequest,
         ScanOlder, ScanRows, ScanListed, NoMemory, Ended

LEMMA SafeNext ==
  ASSUME SafeInv, LostReply = FALSE, [Next]_vars PROVE SafeInv'
<1>1. TypeOK'
  BY NextType DEF SafeInv
<1>2. ASSUME NEW u \in Upload, Start(u) \/ Advance(u) PROVE SafeInv'
  BY <1>1, <1>2, UploadSafe
<1>3. ASSUME NEW d \in Deleter, StartDelete(d) \/ DeleteBatch(d) PROVE SafeInv'
  BY <1>1, <1>3, DeleterSafe
<1>4. ASSUME NEW j \in Job, Clean(j) \/ Crash(j) PROVE SafeInv'
  BY <1>1, <1>4, CleanSafe, EndStep, QuietSafe DEF Crash
<1>5. CASE QuotaCron \/ VerifyCron
  <2>1. UNCHANGED <<rows, bucket, phase, mem, orphanScan, now>>
    BY <1>5 DEF QuotaCron, QuotaSelect, QuotaUpdate, VerifyCron, VerifyRead, VerifyList, VerifyRecheck
  <2>. QED BY <1>1, <2>1, IdleSafe
<1>6. CASE OrphanCron
  BY <1>1, <1>6, OrphanSafe
<1>7. CASE Tick
  BY <1>1, <1>7, TickSafe
<1>8. CASE UNCHANGED vars
  BY <1>1, <1>8, IdleSafe DEF vars, cron
<1>. QED BY <1>2, <1>3, <1>4, <1>5, <1>6, <1>7, <1>8 DEF Next

\* Every object a published version names is in the bucket: retention,
\* deletion, compensation and the orphan collection never remove it, however
\* they interleave with publications and whichever of them dies.
THEOREM NothingDangles ==
  ASSUME LostReply = FALSE
  PROVE  Spec => []NoDangling
<1>1. SafeInv => NoDangling
  BY DEF SafeInv, NoDangling, Referenced, FilesOf
<1>2. SafeInv /\ [Next]_vars => SafeInv'
  BY SafeNext
<1>. QED BY SafeInit, <1>1, <1>2, PTL DEF Spec

-----------------------------------------------------------------------------
(* The check of the references.  What it finds missing was unreferenced    *)
(* before it looked, and stays so: only a fresh upload's keys can become   *)
(* referenced, and an upload is fresh once.                                *)

\* An upload that is not fresh never is again.
LEMMA FreshOnce ==
  ASSUME TypeOK, LostReply = FALSE, [Next]_vars
  PROVE  \A u \in Upload : Fresh(u)' => Fresh(u)
<1>. USE DEF Fresh, Goto, End, Undo, Job
<1>0. phase \in [Job -> Phases]
  BY DEF TypeOK
<1>1. ASSUME NEW v \in Upload, Start(v) PROVE \A u \in Upload : Fresh(u)' => Fresh(u)
  <2>1. PICK p : phase' = [phase EXCEPT ![v] = p] /\ phase[v] = "idle"
    BY <1>1 DEF Start, BeginCreate, BeginAppend, BeginPage, BeginSite, Begin
  <2>. QED BY <1>0, <2>1
<1>2. ASSUME NEW v \in Upload, Advance(v) PROVE \A u \in Upload : Fresh(u)' => Fresh(u)
  <2>1. CASE ReadSource(v) \/ ReservePage(v) \/ RefusePage(v) \/ PutPage(v) \/ PutPageFails(v)
    BY <1>0, <2>1 DEF ReadSource, ReservePage, RefusePage, PutPage, PutPageFails
  <2>2. CASE AbortSite(v) \/ ReserveSite(v) \/ CommitRefused(v) \/ \E p \in Path : AddFile(v, p)
    BY <1>0, <2>2 DEF AbortSite, ReserveSite, CommitRefused, AddFile
  <2>3. CASE Commits(v)
    BY <1>0, <2>3 DEF Commits
  <2>4. CASE UndoObjects(v) \/ UndoQuota(v)
    BY <1>0, <2>4 DEF UndoObjects, UndoQuota, Undone
  <2>. QED BY <1>2, <2>1, <2>2, <2>3, <2>4 DEF Advance, CommitReplyLost
<1>3. ASSUME NEW d \in Deleter, StartDelete(d) \/ DeleteBatch(d)
      PROVE  \A u \in Upload : Fresh(u)' => Fresh(u)
  <2>1. PICK p : phase' = [phase EXCEPT ![d] = p]
    BY <1>3 DEF StartDelete, DeleteBatch, BeginPrune, BeginDelete, Begin
  <2>. QED BY <1>0, <2>1, StorageAssumption
<1>4. ASSUME NEW j \in Job, Clean(j) \/ Crash(j) PROVE \A u \in Upload : Fresh(u)' => Fresh(u)
  BY <1>0, <1>4 DEF Clean, PruneSelect, PruneBatch, CleanCheck, CleanDelete, Crash
<1>5. CASE QuotaCron \/ OrphanCron \/ VerifyCron \/ Tick \/ UNCHANGED vars
  <2>1. phase' = phase
    BY <1>5 DEF QuotaCron, QuotaSelect, QuotaUpdate, OrphanCron, OrphanRead, OrphanList,
                OrphanDelete, VerifyCron, VerifyRead, VerifyList, VerifyRecheck, Tick, vars
  <2>. QED BY <2>1
<1>. QED BY <1>1, <1>2, <1>3, <1>4, <1>5 DEF Next

LEMMA OnlyFreshAppear ==
  ASSUME SafeInv, LostReply = FALSE, [Next]_vars
  PROVE  \A k \in Referenced' \ Referenced : Fresh(k[1])
<1>1. UNCHANGED rows => Referenced' = Referenced
  BY DEF Referenced, FilesOf, rows
<1>2. ASSUME NEW u \in Upload, Commit(u) PROVE \A k \in Referenced' \ Referenced : Fresh(k[1])
  <2>1. \A k \in Own(u) : k[1] = u /\ Fresh(u)
    BY <1>2 DEF Own, Fresh, Commit, CommitNewPage, CommitPage, CommitNewSite, CommitSite
  <2>. QED BY <1>2, <2>1, CommitRows
<1>3. ASSUME NEW u \in Upload, Start(u) \/ Advance(u), ~Commit(u) PROVE UNCHANGED rows
  BY <1>3 DEF Start, BeginCreate, BeginAppend, BeginPage, BeginSite, Begin, Advance, ReadSource,
              ReservePage, RefusePage, PutPage, PutPageFails, AddFile, AbortSite, ReserveSite,
              Commits, CommitRefused, CommitReplyLost, UndoObjects, UndoQuota
<1>4. ASSUME NEW d \in Deleter, StartDelete(d) \/ DeleteBatch(d) PROVE Referenced' \subseteq Referenced
  <2>1. CASE StartDelete(d)
    BY <1>1, <2>1 DEF StartDelete, BeginPrune, BeginDelete, Begin
  <2>2. CASE DeleteBatch(d)
    <3>1. VersionsOf(mem[d].target) \in SUBSET Upload
      BY KeySets DEF SafeInv, TypeOK
    <3>. QED BY <1>1, <2>2, <3>1, RemoveRows DEF DeleteBatch, Job
  <2>. QED BY <1>4, <2>1, <2>2
<1>5. ASSUME NEW j \in Job, Clean(j) \/ Crash(j) PROVE Referenced' \subseteq Referenced
  <2>1. CASE PruneBatch(j)
    <3>1. mem[j].picked \cap Candidates(mem[j].target) \in SUBSET Upload
      BY KeySets DEF SafeInv, TypeOK
    <3>2. Remove(mem[j].picked \cap Candidates(mem[j].target)) \/ UNCHANGED rows
      BY <2>1 DEF PruneBatch, rows
    <3>. QED BY <1>1, <3>1, <3>2, RemoveRows
  <2>2. CASE PruneSelect(j) \/ CleanCheck(j) \/ CleanDelete(j) \/ Crash(j)
    BY <1>1, <2>2 DEF PruneSelect, CleanCheck, CleanDelete, Crash
  <2>. QED BY <1>5, <2>1, <2>2 DEF Clean
<1>6. CASE QuotaCron \/ OrphanCron \/ VerifyCron \/ Tick \/ UNCHANGED vars
  <2>1. UNCHANGED rows
    BY <1>6 DEF QuotaCron, QuotaSelect, QuotaUpdate, OrphanCron, OrphanRead, OrphanList,
                OrphanDelete, VerifyCron, VerifyRead, VerifyList, VerifyRecheck, Tick, vars
  <2>. QED BY <1>1, <2>1
<1>. QED BY <1>1, <1>2, <1>3, <1>4, <1>5, <1>6 DEF Next

\* What the check has read is published; what it misses is not any more.
MissingIsGone ==
  verifyScan.stage # "off" =>
    /\ \A k \in verifyScan.keys : ~Fresh(k[1])
    /\ verifyScan.stage = "listed" => verifyScan.keys \cap Referenced = {}

AlarmInv == SafeInv /\ MissingIsGone /\ ~alarm

LEMMA AlarmNext ==
  ASSUME AlarmInv, LostReply = FALSE, [Next]_vars PROVE AlarmInv'
<1>1. SafeInv'
  BY SafeNext DEF AlarmInv
<1>2. \A u \in Upload : Fresh(u)' => Fresh(u)
  BY FreshOnce DEF AlarmInv, SafeInv
<1>3. \A k \in Referenced' \ Referenced : Fresh(k[1])
  BY OnlyFreshAppear DEF AlarmInv
<1>4. /\ verifyScan \in Scans /\ \A k \in verifyScan.keys : k[1] \in Upload
      /\ Referenced \subseteq Key /\ Referenced \subseteq Objects
  BY KeySets DEF AlarmInv, SafeInv, TypeOK, Scans, Key
<1>5. CASE UNCHANGED <<verifyScan, alarm>>
  BY <1>1, <1>2, <1>3, <1>4, <1>5 DEF AlarmInv, MissingIsGone
<1>6. CASE VerifyCron
  <2>1. UNCHANGED <<rows, phase>> /\ Referenced' = Referenced
    BY <1>6 DEF VerifyCron, VerifyRead, VerifyList, VerifyRecheck, Referenced, FilesOf, rows
  <2>2. CASE VerifyRead
    <3>1. \A k \in Referenced : ~Fresh(k[1])
      BY <1>4 DEF AlarmInv, SafeInv, FreshUnnamed
    <3>. QED BY <1>1, <2>1, <2>2, <3>1 DEF VerifyRead, AlarmInv, MissingIsGone, Fresh
  <2>3. CASE VerifyList
    <3>1. verifyScan'.keys = verifyScan.keys \ Objects /\ verifyScan.stage = "rows" /\ alarm' = alarm
      BY <1>4, <2>3 DEF VerifyList, Scans
    <3>. QED BY <1>1, <1>4, <2>1, <3>1 DEF AlarmInv, MissingIsGone, Fresh
  <2>4. CASE VerifyRecheck
    BY <1>1, <2>1, <2>4 DEF VerifyRecheck, AlarmInv, MissingIsGone, NoScan
  <2>. QED BY <1>6, <2>2, <2>3, <2>4 DEF VerifyCron
<1>7. ASSUME ~VerifyCron PROVE UNCHANGED <<verifyScan, alarm>>
  <2>1. ASSUME NEW u \in Upload, Start(u) \/ Advance(u) PROVE UNCHANGED cron
    BY <2>1 DEF Start, BeginCreate, BeginAppend, BeginPage, BeginSite, Begin, Advance, ReadSource,
                ReservePage, RefusePage, PutPage, PutPageFails, AddFile, AbortSite, ReserveSite,
                Commits, CommitRefused, CommitReplyLost, UndoObjects, UndoQuota
  <2>2. ASSUME NEW d \in Deleter, StartDelete(d) \/ DeleteBatch(d) PROVE UNCHANGED cron
    BY <2>2 DEF StartDelete, BeginPrune, BeginDelete, Begin, DeleteBatch
  <2>3. ASSUME NEW j \in Job, Clean(j) \/ Crash(j) PROVE UNCHANGED cron
    BY <2>3 DEF Clean, PruneSelect, PruneBatch, CleanCheck, CleanDelete, Crash
  <2>4. CASE QuotaCron \/ OrphanCron \/ Tick \/ UNCHANGED vars
    BY <2>4 DEF QuotaCron, QuotaSelect, QuotaUpdate, OrphanCron, OrphanRead, OrphanList,
                OrphanDelete, Tick, vars, cron
  <2>. QED BY <1>7, <2>1, <2>2, <2>3, <2>4 DEF Next, cron
<1>. QED BY <1>5, <1>6, <1>7

\* The daily check of the references raises no false alarm, whatever is
\* published, pruned, deleted or compensated between its reads.
THEOREM NoAlarmIsFalse ==
  ASSUME LostReply = FALSE
  PROVE  Spec => []NoFalseAlarm
<1>1. Init => AlarmInv
  BY SafeInit DEF Init, AlarmInv, MissingIsGone, NoScan
<1>2. AlarmInv /\ [Next]_vars => AlarmInv'
  BY AlarmNext
<1>3. AlarmInv => NoFalseAlarm
  BY DEF AlarmInv, NoFalseAlarm
<1>. QED BY <1>1, <1>2, <1>3, PTL DEF Spec

-----------------------------------------------------------------------------
(* The storage counter.  It charges what is referenced and what a running  *)
(* upload has reserved (Charged); a commit turns one into the other.  The  *)
(* nightly correction ignores reservations, and is right because a counter *)
(* that nobody wrote for QuotaGrace has none: a writer stamps it with the  *)
(* time it began, at most MaxRequest ago, and whoever holds a reservation  *)
(* began at most MaxRequest before its own write.                          *)

Charged == Referenced \cup Reserved

\* What an upload has reserved.
Mine(u) == IF Holding(u) THEN Claim(u) ELSE {}

ReservedIsPage(u) == phase[u] = "reserved" => IsPage(u)

\* The stamp of the counter is not older than its reservations by more than a
\* request.
StampRecent == \A u \in Upload : Mine(u) # {} => mem[u].begun - MaxRequest <= usedAt

\* What the correction has counted is still right if its guard holds.
ScanExact ==
  quotaScan.stage = "read" =>
    /\ quotaScan.cutoff + QuotaGrace <= now
    /\ usedAt < quotaScan.cutoff =>
         Reserved = {} /\ quotaScan.actual = Cardinality(Referenced)

NoneDead == \A j \in Job : phase[j] # "dead"

Sound ==
  /\ used <= Quota
  /\ Cardinality(Charged) <= used
  /\ NoneDead => used = Cardinality(Charged)

CountInv ==
  /\ SafeInv
  /\ \A u \in Upload : ReservedIsPage(u)
  /\ StampRecent /\ ScanExact
  /\ Sound

LEMMA ClaimKeys ==
  ASSUME TypeOK, NEW u \in Upload
  PROVE  /\ Claim(u) \in SUBSET Key /\ Mine(u) \in SUBSET Key
         /\ \A k \in Claim(u) : k[1] = u
         /\ IsFiniteSet(Claim(u)) /\ Cardinality(Claim(u)) \in Nat
         /\ Cardinality(Claim(u)) = IF IsPage(u) THEN 1 ELSE Cardinality(mem[u].sent)
<1>1. Claim(u) \in SUBSET Key /\ \A k \in Claim(u) : k[1] = u
  BY KeySets DEF Claim, Own
<1>2. IsFiniteSet(Claim(u)) /\ Cardinality(Claim(u)) \in Nat
  BY <1>1, KeysFinite
<1>3. CASE IsPage(u)
  BY <1>1, <1>2, <1>3, FS_Singleton DEF Claim, Mine
<1>4. CASE ~IsPage(u)
  <2>1. IsFiniteSet(mem[u].sent) /\ Cardinality(mem[u].sent) \in Nat
    BY FieldTypes, StorageAssumption, FS_Subset, FS_CardinalityType DEF Job
  <2>2. IsFiniteSet({u}) /\ Cardinality({u}) = 1
    BY FS_Singleton
  <2>3. Cardinality({u} \X mem[u].sent) = 1 * Cardinality(mem[u].sent)
    BY <2>1, <2>2, FS_Product
  <2>. QED BY <1>1, <1>2, <1>4, <2>1, <2>3 DEF Claim, Mine, Own
<1>. QED BY <1>3, <1>4

\* A key is reserved if its upload has reserved it.
ReservedByOwner ==
  /\ Reserved \in SUBSET Key /\ Charged \in SUBSET Key
  /\ \A k \in Key : k \in Reserved <=> k \in Mine(k[1])

LEMMA ReservedMine == TypeOK => ReservedByOwner
<1>. SUFFICES ASSUME TypeOK PROVE ReservedByOwner
  OBVIOUS
<1>1. Reserved = UNION {Mine(u) : u \in Upload}
  BY DEF Reserved, Mine
<1>2. \A u \in Upload : Mine(u) \in SUBSET Key /\ \A k \in Mine(u) : k[1] = u
  BY ClaimKeys DEF Mine
<1>3. Referenced \in SUBSET Key /\ \A k \in Key : k[1] \in Upload
  BY KeySets DEF Key
<1>. QED BY <1>1, <1>2, <1>3 DEF Charged, ReservedByOwner

LEMMA ReservedNext == TypeOK' => ReservedByOwner'
BY ReservedMine, PTL

\* Reservations are of fresh uploads, so what is reserved is not referenced.
LEMMA Disjoint ==
  ASSUME SafeInv
  PROVE  Reserved \cap Referenced = {}
<1>1. \A k \in Reserved : k \in Key /\ k \in Mine(k[1]) /\ k[1] \in Upload
  BY ReservedMine DEF SafeInv, Key, ReservedByOwner
<1>2. \A u \in Upload : Mine(u) # {} => Fresh(u)
  BY DEF Mine, Holding, Fresh
<1>. QED BY <1>1, <1>2 DEF SafeInv, FreshUnnamed

-----------------------------------------------------------------------------
(* Counting. *)

LEMMA CountTypes ==
  ASSUME TypeOK
  PROVE  /\ used \in Nat /\ usedAt \in Int /\ now \in Int /\ Quota \in Nat
         /\ MaxRequest \in Nat /\ QuotaGrace \in Nat /\ 2 * MaxRequest <= QuotaGrace
         /\ quotaScan.cutoff \in Int /\ quotaScan.actual \in Nat
         /\ \A j \in Job : mem[j].begun \in Int
         /\ Charged \in SUBSET Key /\ IsFiniteSet(Charged) /\ Cardinality(Charged) \in Nat
BY StorageAssumption, GraceAssumption, FieldTypes, ReservedMine, KeysFinite
   DEF TypeOK, Time, Counts, ReservedByOwner

LEMMA CountSame ==
  ASSUME TypeOK, Sound, used' = used, Charged' = Charged, NoneDead' => NoneDead
  PROVE  Sound'
BY CountTypes DEF Sound

\* A reservation.
LEMMA CountUp ==
  ASSUME TypeOK, Sound, NEW ks \in SUBSET Key, ks \cap Charged = {}, Charged' = Charged \cup ks,
         used + Cardinality(ks) <= Quota, used' = used + Cardinality(ks), NoneDead' => NoneDead
  PROVE  Sound'
<1>1. /\ IsFiniteSet(Charged) /\ Cardinality(Charged) \in Nat
      /\ IsFiniteSet(ks) /\ Cardinality(ks) \in Nat /\ used \in Nat /\ Quota \in Nat
  BY CountTypes, KeysFinite
<1>2. Cardinality(Charged \cup ks) = Cardinality(Charged) + Cardinality(ks)
  <2>1. Cardinality(Charged \cap ks) = 0
    BY FS_EmptySet
  <2>2. Cardinality(Charged \cup ks) =
          Cardinality(Charged) + Cardinality(ks) - Cardinality(Charged \cap ks)
    BY <1>1, FS_Union
  <2>. QED BY <1>1, <2>1, <2>2
<1>. QED BY <1>1, <1>2, CountTypes DEF Sound

\* A reservation given back, or rows removed: the counter never has less than
\* is taken from it.
LEMMA CountDown ==
  ASSUME TypeOK, Sound, NEW ks \in SUBSET Charged, Charged' = Charged \ ks,
         used' = Debit(Cardinality(ks)), NoneDead' => NoneDead
  PROVE  Sound'
<1>1. /\ IsFiniteSet(Charged) /\ Cardinality(Charged) \in Nat
      /\ IsFiniteSet(ks) /\ Cardinality(ks) \in Nat /\ used \in Nat /\ Quota \in Nat
  BY CountTypes, KeysFinite
<1>2. /\ Cardinality(Charged \ ks) = Cardinality(Charged) - Cardinality(Charged \cap ks)
      /\ Charged \cap ks = ks
  BY <1>1, FS_Difference
<1>3. Cardinality(ks) <= Cardinality(Charged)
  BY <1>1, FS_Subset
<1>4. Cardinality(Charged') = Cardinality(Charged) - Cardinality(ks)
  BY <1>2
<1>. QED BY <1>1, <1>3, <1>4 DEF Sound, Debit

\* A request died: what it had reserved stays on the counter.
LEMMA CountDead ==
  ASSUME TypeOK, Sound, used' = used, Charged' \subseteq Charged, ~NoneDead'
  PROVE  Sound'
<1>1. IsFiniteSet(Charged) /\ Cardinality(Charged') <= Cardinality(Charged) /\ Cardinality(Charged') \in Nat
  BY CountTypes, FS_Subset, FS_CardinalityType
<1>. QED BY <1>1, CountTypes DEF Sound

-----------------------------------------------------------------------------
(* Steps of one request.  They either leave the counter's stamp alone and  *)
(* reserve nothing new, or stamp it within the last MaxRequest.            *)

KeepsStamp(j) ==
  /\ usedAt' = usedAt
  /\ Charged' = Charged \/ Referenced' = Referenced
  /\ j \in Upload => /\ Mine(j)' \subseteq Mine(j)
                     /\ Mine(j)' # {} => mem'[j].begun = mem[j].begun

Stamps == now - MaxRequest <= usedAt'

LEMMA OthersMine ==
  ASSUME SafeInv, TypeOK', NEW j \in Job, Alone(j)
  PROVE  /\ \A u \in Upload \ {j} : /\ Mine(u)' = Mine(u) /\ mem'[u] = mem[u]
                                    /\ ReservedIsPage(u)' = ReservedIsPage(u)
         /\ \A k \in Key : k[1] # j => (k \in Reserved' <=> k \in Reserved)
         /\ \A k \in Key : k[1] = j => (k \in Reserved' <=> k \in Mine(j)')
         /\ \A k \in Key : k[1] = j => (k \in Reserved <=> k \in Mine(j))
<1>1. \A u \in Upload \ {j} : phase'[u] = phase[u] /\ mem'[u] = mem[u]
  BY UploadJob DEF Alone
<1>2. ASSUME NEW u \in Upload \ {j}
      PROVE  Mine(u)' = Mine(u) /\ ReservedIsPage(u)' = ReservedIsPage(u)
  BY <1>1 DEF Mine, Holding, Claim, IsPage, Own, ReservedIsPage
<1>3. \A k \in Key : k[1] \in Upload
  BY DEF Key
<1>4. \A k \in Key : k \in Reserved <=> k \in Mine(k[1])
  BY ReservedMine DEF SafeInv, ReservedByOwner
<1>5. \A k \in Key : k \in Reserved' <=> k \in Mine(k[1])'
  BY ReservedNext DEF ReservedByOwner
<1>. QED BY <1>1, <1>2, <1>3, <1>4, <1>5

LEMMA JobCounts ==
  ASSUME CountInv, SafeInv', NEW j \in Job, Alone(j), quotaScan' = quotaScan, Sound',
         KeepsStamp(j) \/ Stamps, j \in Upload => ReservedIsPage(j)'
  PROVE  CountInv'
<1>0. /\ SafeInv /\ TypeOK /\ TypeOK' /\ now' = now
      /\ now \in Int /\ usedAt \in Int /\ usedAt' \in Int /\ MaxRequest \in Nat /\ QuotaGrace \in Nat
      /\ 2 * MaxRequest <= QuotaGrace /\ quotaScan.cutoff \in Int
      /\ \A u \in Upload : mem[u].begun \in Int /\ mem'[u].begun \in Int
  <2>1. TypeOK /\ TypeOK' /\ now' = now /\ SafeInv
    BY DEF CountInv, SafeInv, Alone
  <2>2. usedAt' \in Int /\ \A u \in Job : mem'[u].begun \in Int
    BY <2>1, StorageAssumption DEF TypeOK, Memories, Fields, Time
  <2>. QED BY <2>1, <2>2, CountTypes, UploadJob
<1>1. \A u \in Upload : ReservedIsPage(u)'
  BY <1>0, OthersMine DEF CountInv
<1>2. \A u \in Upload : Mine(u)' # {} => mem'[u].begun <= now
  BY <1>0, UploadJob DEF SafeInv, WithinRequest, Mine, Holding, Ended
<1>3. CASE Stamps
  <2>1. StampRecent'
    BY <1>0, <1>2, <1>3 DEF Stamps, StampRecent
  <2>2. ScanExact'
    BY <1>0, <1>3 DEF Stamps, CountInv, ScanExact
  <2>. QED BY <1>1, <2>1, <2>2 DEF CountInv
<1>4. CASE KeepsStamp(j)
  <2>1. StampRecent'
    BY <1>0, <1>4, OthersMine DEF KeepsStamp, CountInv, StampRecent
  <2>2. Reserved' \subseteq Reserved
    BY <1>0, <1>4, OthersMine, ReservedMine, ReservedNext DEF KeepsStamp, Key, ReservedByOwner
  <2>3. Reserved = {} => Referenced' = Referenced /\ Reserved' = {}
    BY <1>4, <2>2 DEF KeepsStamp, Charged
  <2>4. ScanExact'
    BY <1>0, <1>4, <2>3 DEF KeepsStamp, CountInv, ScanExact
  <2>. QED BY <1>1, <2>1, <2>4 DEF CountInv
<1>. QED BY <1>3, <1>4

\* A running request began within the last MaxRequest.
LEMMA StampIsRecent ==
  ASSUME SafeInv, NEW j \in Job, ~Ended(j), usedAt' = mem[j].begun
  PROVE  Stamps
BY CountTypes, FieldTypes DEF SafeInv, WithinRequest, Stamps, Time

\* The counter and the rows stay, and so does what the request has reserved.
LEMMA QuietCounts ==
  ASSUME CountInv, SafeInv', NEW j \in Job, Alone(j), UNCHANGED <<rows, quota, quotaScan>>,
         phase[j] # "dead",
         j \in Upload => /\ Mine(j)' = Mine(j) /\ ReservedIsPage(j)'
                         /\ Mine(j) # {} => mem'[j].begun = mem[j].begun
  PROVE  CountInv'
<1>1. Referenced' = Referenced
  BY DEF Referenced, FilesOf, rows
<1>2. SafeInv /\ TypeOK /\ TypeOK'
  BY DEF CountInv, SafeInv
<1>3. Reserved' = Reserved
  BY <1>2, OthersMine, ReservedMine, ReservedNext DEF Key, ReservedByOwner
<1>4. NoneDead' => NoneDead
  BY DEF NoneDead, Alone
<1>5. Sound'
  BY <1>1, <1>2, <1>3, <1>4, CountSame DEF CountInv, Charged, quota
<1>6. KeepsStamp(j)
  BY <1>1, <1>3 DEF KeepsStamp, Charged, quota
<1>. QED BY <1>5, <1>6, JobCounts

\* Who holds nothing: everyone but an upload about to publish or to undo.
LEMMA NoClaim ==
  ASSUME NEW j
  PROVE  /\ phase[j] \notin {"reserved", "stored", "undo"} => Mine(j) = {}
         /\ phase'[j] \notin {"reserved", "stored", "undo"} => Mine(j)' = {}
         /\ phase'[j] # "reserved" => ReservedIsPage(j)'
BY DEF Mine, Holding, ReservedIsPage

LEMMA ClaimStays ==
  ASSUME NEW u, mem'[u].kind = mem[u].kind, mem'[u].sent = mem[u].sent
  PROVE  Claim(u)' = Claim(u) /\ (IsPage(u)' <=> IsPage(u))
BY DEF Claim, IsPage, Own

LEMMA MoreMemFields ==
  ASSUME SafeInv, NEW j \in Job
  PROVE  /\ \A x : [mem[j] EXCEPT !.sent = x].kind = mem[j].kind
         /\ \A x : [mem[j] EXCEPT !.todo = x].kind = mem[j].kind
         /\ \A x : [mem[j] EXCEPT !.todo = x].sent = mem[j].sent
         /\ \A x : [mem[j] EXCEPT !.todo = x].todo = x
         /\ \A x, y : [mem[j] EXCEPT !.todo = x, !.sent = y].todo = x
<1>1. mem[j] \in Memories
  BY MemoryType DEF SafeInv
<1>. QED BY <1>1 DEF Memories, Fields

LEMMA IdleCounts ==
  ASSUME CountInv, SafeInv', NEW j \in Job, Alone(j), UNCHANGED <<rows, quota, quotaScan>>,
         phase[j] \notin {"reserved", "stored", "undo", "dead"},
         phase'[j] \notin {"reserved", "stored", "undo"}
  PROVE  CountInv'
BY NoClaim, QuietCounts

LEMMA BeginCounts ==
  ASSUME CountInv, SafeInv', NEW j \in Job, NEW p \in {"begun", "reading", "pruning", "deletable"},
         NEW kind, NEW s, NEW base, NEW expected, NEW ks, Begin(j, p, kind, s, base, expected, ks)
  PROVE  CountInv'
<1>1. phase[j] = "idle" /\ phase'[j] = p
  BY DEF CountInv, SafeInv, TypeOK, Begin, Goto
<1>2. Alone(j)
  BY DEF CountInv, SafeInv, TypeOK, Alone, Begin, Goto, cron
<1>. QED BY <1>1, <1>2, IdleCounts DEF Begin, cron

\* A request that ends having reserved nothing.
LEMMA EndCounts ==
  ASSUME CountInv, SafeInv', NEW j \in Job, End(j, "done"), UNCHANGED <<rows, quota, cron, now>>,
         phase[j] \notin {"reserved", "stored", "undo", "dead"}
  PROVE  CountInv'
<1>1. phase'[j] = "done"
  BY DEF CountInv, SafeInv, TypeOK, End, Goto
<1>2. Alone(j)
  BY EndStep DEF CountInv
<1>. QED BY <1>1, <1>2, IdleCounts DEF cron

\* A step of a request that changes no row and no counter.
LEMMA GoOnCounts ==
  ASSUME CountInv, SafeInv', NEW j \in Job, NEW p, NEW m, Goto(j, p), mem' = [mem EXCEPT ![j] = m],
         UNCHANGED <<rows, quota, cron, now>>,
         phase[j] \notin {"reserved", "stored", "undo", "dead"},
         p \notin {"reserved", "stored", "undo"}
  PROVE  CountInv'
<1>1. phase'[j] = p
  BY DEF CountInv, SafeInv, TypeOK, Goto
<1>2. Alone(j)
  BY DEF CountInv, SafeInv, TypeOK, Alone, Goto, cron
<1>. QED BY <1>1, <1>2, IdleCounts DEF cron

LEMMA StagingCounts ==
  ASSUME CountInv, SafeInv', NEW u \in Upload,
         ReadSource(u) \/ RefusePage(u) \/ (\E p \in Path : AddFile(u, p)) \/ AbortSite(u)
  PROVE  CountInv'
<1>. USE UploadJob
<1>0. SafeInv /\ TypeOK
  BY DEF CountInv, SafeInv
<1>1. CASE ReadSource(u)
  <2>1. CASE <<mem[u].base, Entry>> \in Objects
    <3>1. /\ Goto(u, "begun") /\ phase[u] = "reading"
          /\ mem' = [mem EXCEPT ![u] = [mem[u] EXCEPT !.body = content[mem[u].base]]]
      BY <1>0, <1>1, <2>1 DEF ReadSource, TypeOK
    <3>. QED BY <1>1, <3>1, GoOnCounts DEF ReadSource
  <2>2. CASE <<mem[u].base, Entry>> \notin Objects
    BY <1>1, <2>2, EndCounts DEF ReadSource
  <2>. QED BY <2>1, <2>2
<1>2. CASE RefusePage(u)
  BY <1>2, EndCounts DEF RefusePage
<1>3. ASSUME NEW p \in Path, AddFile(u, p) PROVE CountInv'
  <2>1. /\ Goto(u, "begun") /\ phase[u] = "begun"
        /\ mem' = [mem EXCEPT ![u] = [mem[u] EXCEPT !.sent = mem[u].sent \cup {p}]]
    BY <1>0, <1>3 DEF AddFile, TypeOK, Goto
  <2>. QED BY <1>3, <2>1, GoOnCounts DEF AddFile
<1>4. CASE AbortSite(u)
  <2>1. PICK m : Undo(u, m) /\ m.todo = {"object"}
    <3>1. ASSUME Undo(u, [mem[u] EXCEPT !.todo = {"object"}])
          PROVE  \E m : Undo(u, m) /\ m.todo = {"object"}
      <4>. DEFINE m == [mem[u] EXCEPT !.todo = {"object"}]
      <4>1. Undo(u, m) /\ m.todo = {"object"}
        BY <1>0, <3>1, MoreMemFields
      <4>. HIDE DEF m
      <4>. QED BY <4>1
    <3>2. ASSUME NEW p \in Path, Undo(u, [mem[u] EXCEPT !.todo = {"object"}, !.sent = @ \cup {p}])
          PROVE  \E m : Undo(u, m) /\ m.todo = {"object"}
      <4>. DEFINE m == [mem[u] EXCEPT !.todo = {"object"}, !.sent = mem[u].sent \cup {p}]
      <4>1. Undo(u, m)
        BY <1>0, <3>2, MemoryType DEF Memories, Fields
      <4>2. m.todo = {"object"}
        BY <1>0, MoreMemFields
      <4>. HIDE DEF m
      <4>. QED BY <4>1, <4>2
    <3>. QED BY <1>4, <3>1, <3>2 DEF AbortSite
  <2>2. phase'[u] = "undo" /\ mem'[u].todo = {"object"} /\ phase[u] = "begun"
    BY <1>0, <1>4, <2>1 DEF AbortSite, Undo, Goto, TypeOK
  <2>3. Alone(u)
    BY <1>0, <1>4, <2>1 DEF AbortSite, Undo, Goto, TypeOK, Alone, cron
  <2>4. Mine(u)' = {} /\ Mine(u) = {} /\ ReservedIsPage(u)'
    BY <2>2 DEF Mine, Holding, ReservedIsPage
  <2>. QED BY <1>4, <2>2, <2>3, <2>4, QuietCounts DEF AbortSite, cron
<1>. QED BY <1>1, <1>2, <1>3, <1>4

\* A step of an upload that keeps what it holds.
LEMMA HoldCounts ==
  ASSUME CountInv, SafeInv', NEW u \in Upload, NEW p, NEW m, Goto(u, p), mem' = [mem EXCEPT ![u] = m],
         UNCHANGED <<rows, quota, cron, now>>, phase[u] # "dead", p # "reserved",
         m.begun = mem[u].begun, Claim(u)' = Claim(u), Holding(u)' <=> Holding(u)
  PROVE  CountInv'
<1>. USE UploadJob
<1>1. phase'[u] = p /\ mem'[u] = m
  BY DEF CountInv, SafeInv, TypeOK, Goto
<1>2. Alone(u)
  BY DEF CountInv, SafeInv, TypeOK, Alone, Goto, cron
<1>3. Mine(u)' = Mine(u)
  BY DEF Mine
<1>. QED BY <1>1, <1>2, <1>3, NoClaim, QuietCounts DEF cron

LEMMA PutCounts ==
  ASSUME CountInv, SafeInv', NEW u \in Upload, PutPage(u) \/ PutPageFails(u) \/ CommitRefused(u)
  PROVE  CountInv'
<1>. USE UploadJob
<1>0. SafeInv /\ TypeOK /\ ReservedIsPage(u)
  BY DEF CountInv, SafeInv
<1>1. CASE PutPage(u)
  <2>. DEFINE m == [mem[u] EXCEPT !.sent = {Entry}]
  <2>1. mem' = [mem EXCEPT ![u] = m] /\ Goto(u, "stored") /\ phase[u] = "reserved"
    BY <1>0, <1>1 DEF PutPage, TypeOK
  <2>2. m.kind = mem[u].kind /\ m.begun = mem[u].begun
    BY <1>0, MemFields, MoreMemFields
  <2>. HIDE DEF m
  <2>3. mem'[u] = m /\ phase'[u] = "stored"
    BY <1>0, <2>1 DEF TypeOK, Goto
  <2>4. Claim(u)' = Claim(u)
    BY <1>0, <2>1, <2>2, <2>3 DEF Claim, IsPage, ReservedIsPage
  <2>5. Holding(u)' /\ Holding(u)
    BY <2>1, <2>3 DEF Holding
  <2>. QED BY <1>1, <2>1, <2>2, <2>4, <2>5, HoldCounts DEF PutPage
<1>2. ASSUME NEW td \in SUBSET {"object", "quota"}, "quota" \in td, Undo(u, [mem[u] EXCEPT !.todo = td]),
             phase[u] \in {"reserved", "stored"}, UNCHANGED <<rows, quota, cron, now>>
      PROVE  CountInv'
  <2>. DEFINE m == [mem[u] EXCEPT !.todo = td]
  <2>1. mem' = [mem EXCEPT ![u] = m] /\ Goto(u, "undo")
    BY <1>2 DEF Undo
  <2>2. m.kind = mem[u].kind /\ m.begun = mem[u].begun /\ m.sent = mem[u].sent /\ m.todo = td
    BY <1>0, MemFields, MoreMemFields
  <2>. HIDE DEF m
  <2>3. mem'[u] = m /\ phase'[u] = "undo"
    BY <1>0, <2>1 DEF TypeOK, Goto
  <2>4. Claim(u)' = Claim(u)
    BY <2>2, <2>3, ClaimStays
  <2>5. Holding(u)' /\ Holding(u)
    BY <1>2, <2>2, <2>3 DEF Holding
  <2>. QED BY <1>2, <2>1, <2>2, <2>4, <2>5, HoldCounts
<1>3. CASE PutPageFails(u)
  BY <1>2, <1>3 DEF PutPageFails
<1>4. CASE CommitRefused(u)
  BY <1>2, <1>4 DEF CommitRefused
<1>. QED BY <1>1, <1>3, <1>4

LEMMA UndoObjectsCounts ==
  ASSUME CountInv, SafeInv', NEW u \in Upload, UndoObjects(u) PROVE CountInv'
<1>. USE UploadJob
<1>0. SafeInv /\ TypeOK /\ phase[u] = "undo" /\ UNCHANGED <<rows, quota, cron, now>>
  BY DEF CountInv, SafeInv, UndoObjects
<1>1. CASE mem[u].todo = {"object"}
  <2>1. End(u, "done")
    BY <1>1 DEF UndoObjects, Undone
  <2>2. phase'[u] = "done" /\ Alone(u)
    BY <1>0, <2>1, EndStep DEF End, Goto, TypeOK
  <2>3. Mine(u) = {} /\ Mine(u)' = {} /\ ReservedIsPage(u)'
    BY <1>0, <1>1, <2>2 DEF Mine, Holding, ReservedIsPage
  <2>. QED BY <1>0, <2>2, <2>3, QuietCounts DEF cron
<1>2. CASE mem[u].todo # {"object"}
  <2>. DEFINE m == [mem[u] EXCEPT !.todo = mem[u].todo \ {"object"}]
  <2>1. mem' = [mem EXCEPT ![u] = m] /\ Goto(u, "undo")
    BY <1>0, <1>2 DEF UndoObjects, Undone, Goto, TypeOK
  <2>2. /\ m.kind = mem[u].kind /\ m.begun = mem[u].begun /\ m.sent = mem[u].sent
        /\ m.todo = mem[u].todo \ {"object"}
    BY <1>0, MemFields, MoreMemFields
  <2>. HIDE DEF m
  <2>3. mem'[u] = m /\ phase'[u] = "undo"
    BY <1>0, <2>1 DEF TypeOK, Goto
  <2>4. Claim(u)' = Claim(u)
    BY <2>2, <2>3, ClaimStays
  <2>5. Holding(u)' <=> Holding(u)
    BY <1>0, <2>2, <2>3 DEF Holding
  <2>. QED BY <1>0, <2>1, <2>2, <2>4, <2>5, HoldCounts
<1>. QED BY <1>1, <1>2

\* What an upload reserves is not charged yet.
LEMMA ReserveCounts ==
  ASSUME CountInv, SafeInv', NEW u \in Upload, ReservePage(u) \/ ReserveSite(u)
  PROVE  CountInv'
<1>. USE UploadJob
<1>0. /\ SafeInv /\ TypeOK /\ TypeOK' /\ phase[u] = "begun" /\ ~Ended(u)
      /\ UNCHANGED <<rows, mem, cron, now>>
  BY DEF CountInv, SafeInv, ReservePage, ReserveSite, Ended
<1>1. PICK p \in {"reserved", "stored"} : Goto(u, p) /\ (p = "reserved" => IsPage(u))
  BY DEF ReservePage, ReserveSite
<1>2. phase'[u] = p /\ mem'[u] = mem[u]
  BY <1>0, <1>1 DEF TypeOK, Goto
<1>3. Alone(u)
  BY <1>0, <1>1 DEF TypeOK, Alone, Goto, cron
<1>4. Claim(u)' = Claim(u) /\ (IsPage(u)' <=> IsPage(u))
  BY <1>2, ClaimStays
<1>5. Mine(u) = {} /\ Mine(u)' = Claim(u) /\ ReservedIsPage(u)'
  BY <1>0, <1>1, <1>2, <1>4 DEF Mine, Holding, ReservedIsPage
<1>6. CASE ~IsPage(u) /\ mem[u].sent = {} /\ UNCHANGED quota
  <2>1. Claim(u) = {}
    BY <1>6 DEF Claim, Own
  <2>. QED BY <1>0, <1>2, <1>3, <1>5, <1>6, <2>1, QuietCounts DEF cron
<1>7. CASE Reserve(u, Cardinality(Claim(u)))
  <2>1. Referenced' = Referenced
    BY <1>0 DEF Referenced, FilesOf, rows
  <2>2. Charged' = Charged \cup Claim(u) /\ Claim(u) \cap Charged = {}
    <3>1. /\ Claim(u) \in SUBSET Key /\ Charged \in SUBSET Key /\ Charged' \in SUBSET Key
          /\ \A k \in Claim(u) : k[1] = u
      BY <1>0, ClaimKeys, ReservedMine, ReservedNext DEF ReservedByOwner
    <3>2. \A k \in Key : k[1] = u => k \notin Referenced
      BY <1>0 DEF SafeInv, FreshUnnamed, Fresh
    <3>3. \A k \in Key : k \in Reserved' <=> (k \in Reserved \/ k \in Claim(u))
      BY <1>0, <1>3, <1>5, <3>1, OthersMine
    <3>4. \A k \in Claim(u) : k \notin Reserved
      BY <1>0, <1>3, <1>5, <3>1, OthersMine
    <3>5. Reserved \in SUBSET Key /\ Reserved' \in SUBSET Key
      BY <1>0, ReservedMine, ReservedNext DEF ReservedByOwner
    <3>. QED BY <2>1, <3>1, <3>2, <3>3, <3>4, <3>5 DEF Charged
  <2>3. Claim(u) \in SUBSET Key
    BY <1>0, ClaimKeys
  <2>4. NoneDead' => NoneDead
    BY <1>0, <1>3 DEF NoneDead, Alone
  <2>5. Sound'
    BY <1>0, <1>7, <2>2, <2>3, <2>4, CountUp DEF Reserve, CountInv
  <2>6. Stamps
    BY <1>0, <1>7, StampIsRecent DEF Reserve
  <2>. QED BY <1>0, <1>3, <1>5, <2>5, <2>6, JobCounts DEF cron
<1>8. (~IsPage(u) /\ mem[u].sent = {} /\ UNCHANGED quota) \/ Reserve(u, Cardinality(Claim(u)))
  <2>1. Cardinality(Claim(u)) = IF IsPage(u) THEN 1 ELSE Cardinality(mem[u].sent)
    BY <1>0, ClaimKeys
  <2>. QED BY <2>1 DEF ReservePage, ReserveSite
<1>. QED BY <1>6, <1>7, <1>8

LEMMA UndoQuotaCounts ==
  ASSUME CountInv, SafeInv', NEW u \in Upload, UndoQuota(u) PROVE CountInv'
<1>. USE UploadJob
<1>0. /\ SafeInv /\ TypeOK /\ TypeOK' /\ phase[u] = "undo" /\ "quota" \in mem[u].todo /\ ~Ended(u)
      /\ UNCHANGED <<rows, cron, now>> /\ Undone(u, "quota")
      /\ used' = Debit(Cardinality(Claim(u))) /\ usedAt' = mem[u].begun
  BY DEF CountInv, SafeInv, UndoQuota, Ended
<1>1. Alone(u)
  BY <1>0, UndoneStep
<1>2. Mine(u)' = {} /\ ReservedIsPage(u)'
  <2>1. CASE mem[u].todo = {"quota"}
    <3>1. phase'[u] = "done"
      BY <1>0, <2>1 DEF Undone, End, Goto, TypeOK
    <3>. QED BY <3>1, NoClaim
  <2>2. CASE mem[u].todo # {"quota"}
    <3>. DEFINE m == [mem[u] EXCEPT !.todo = mem[u].todo \ {"quota"}]
    <3>1. mem'[u] = m /\ phase'[u] = "undo"
      BY <1>0, <2>2 DEF Undone, TypeOK
    <3>2. m.todo = mem[u].todo \ {"quota"}
      BY <1>0, MoreMemFields
    <3>. HIDE DEF m
    <3>. QED BY <3>1, <3>2 DEF Mine, Holding, ReservedIsPage
  <2>. QED BY <2>1, <2>2
<1>3. Mine(u) = Claim(u)
  BY <1>0 DEF Mine, Holding
<1>4. Charged' = Charged \ Claim(u) /\ Claim(u) \subseteq Charged
  <2>1. Referenced' = Referenced
    BY <1>0 DEF Referenced, FilesOf, rows
  <2>2. /\ Claim(u) \in SUBSET Key /\ \A k \in Claim(u) : k[1] = u
        /\ Reserved \in SUBSET Key /\ Reserved' \in SUBSET Key /\ Referenced \in SUBSET Key
    BY <1>0, ClaimKeys, KeySets, ReservedMine, ReservedNext DEF ReservedByOwner
  <2>3. \A k \in Key : k[1] = u => k \notin Referenced
    BY <1>0 DEF SafeInv, FreshUnnamed, Fresh
  <2>4. \A k \in Key : k \in Reserved' <=> (k \in Reserved /\ k \notin Claim(u))
    BY <1>0, <1>1, <1>2, <1>3, <2>2, OthersMine
  <2>5. \A k \in Claim(u) : k \in Reserved
    BY <1>0, <1>1, <1>3, <2>2, OthersMine
  <2>. QED BY <2>1, <2>2, <2>3, <2>4, <2>5 DEF Charged
<1>5. NoneDead' => NoneDead
  BY <1>0, <1>1 DEF NoneDead, Alone
<1>6. Sound'
  BY <1>0, <1>4, <1>5, CountDown DEF CountInv
<1>7. Stamps
  BY <1>0, StampIsRecent
<1>. QED BY <1>0, <1>1, <1>2, <1>6, <1>7, JobCounts DEF cron

FreshUnpublished == \A u \in Upload : Fresh(u) => u \notin published

\* A commit turns exactly what was reserved into what is referenced.
LEMMA CommitCharges ==
  ASSUME SafeInv, NEW u \in Upload, u \notin published, Commit(u)
  PROVE  Referenced' = Referenced \cup Claim(u)
<1>1. ASSUME NEW op, NEW fs, NEW body, Publish(u, op, fs, body),
             Claim(u) \subseteq fs, fs \subseteq Claim(u) \cup Referenced
      PROVE  Referenced' = Referenced \cup Claim(u)
  <2>1. \A v \in Upload : files'[v] = IF v = u THEN fs ELSE files[v]
    BY <1>1 DEF Publish, SafeInv, TypeOK
  <2>2. published' = published \cup {u} /\ published \subseteq Upload
    BY <1>1 DEF Publish, SafeInv, TypeOK
  <2>. QED BY <1>1, <2>1, <2>2 DEF Referenced, FilesOf
<1>2. CASE CommitNewPage(u)
  <2>1. Claim(u) = {<<u, Entry>>}
    BY <1>2 DEF CommitNewPage, IsPage, PageKinds, Claim
  <2>. QED BY <1>1, <1>2, <2>1 DEF CommitNewPage
<1>3. CASE CommitPage(u)
  <2>1. Claim(u) = {<<u, Entry>>}
    BY <1>3 DEF CommitPage, IsPage, PageKinds, Claim
  <2>. QED BY <1>1, <1>3, <2>1 DEF CommitPage
<1>4. CASE CommitNewSite(u)
  <2>1. Claim(u) = Own(u)
    BY <1>4 DEF CommitNewSite, IsPage, PageKinds, Claim
  <2>. QED BY <1>1, <1>4, <2>1 DEF CommitNewSite
<1>5. CASE CommitSite(u)
  <2>. DEFINE base == IF mem[u].base = None THEN {} ELSE files[mem[u].base]
              manifest(d) == {k \in base : k[2] \notin d \cup mem[u].sent} \cup Own(u)
              op == IF mem[u].base = None THEN "replace" ELSE "edit"
  <2>1. PICK d \in SUBSET (Path \ mem[u].sent) : Publish(u, op, manifest(d), manifest(d))
    BY <1>5 DEF CommitSite
  <2>2. base \subseteq Referenced
    <3>1. mem[u].base \in Upload \cup {None}
      BY FieldTypes, UploadJob DEF SafeInv
    <3>. QED BY <3>1 DEF SafeInv, OnlyPublishedHasFiles, Referenced, FilesOf
  <2>3. Claim(u) = Own(u)
    BY <1>5 DEF CommitSite, IsPage, PageKinds, Claim
  <2>4. Claim(u) \subseteq manifest(d) /\ manifest(d) \subseteq Claim(u) \cup Referenced
    BY <2>2, <2>3
  <2>. HIDE DEF manifest, op
  <2>. QED BY <1>1, <2>1, <2>4
<1>. QED BY <1>2, <1>3, <1>4, <1>5 DEF Commit

LEMMA CommitsCounts ==
  ASSUME CountInv, FreshUnpublished, SafeInv', NEW u \in Upload, Commits(u) PROVE CountInv'
<1>. USE UploadJob
<1>0. /\ SafeInv /\ TypeOK /\ TypeOK' /\ phase[u] = "stored" /\ Commit(u)
      /\ UNCHANGED <<quota, cron, now>>
  BY DEF CountInv, SafeInv, Commits, Commit, CommitNewPage, CommitPage, CommitNewSite, CommitSite
<1>1. PICK p, m : /\ p \in {"done", "pruning"}
                  /\ phase' = [phase EXCEPT ![u] = p] /\ mem' = [mem EXCEPT ![u] = m]
  BY DEF Commits, End, Goto
<1>2. Alone(u) /\ phase'[u] = p
  BY <1>0, <1>1 DEF TypeOK, Alone, cron
<1>3. Mine(u)' = {} /\ Mine(u) = Claim(u) /\ ReservedIsPage(u)'
  BY <1>0, <1>1, <1>2 DEF Mine, Holding, ReservedIsPage
<1>4. Charged' = Charged
  <2>1. Referenced' = Referenced \cup Claim(u)
    BY <1>0, CommitCharges DEF FreshUnpublished, Fresh
  <2>2. /\ Claim(u) \in SUBSET Key /\ \A k \in Claim(u) : k[1] = u
        /\ Reserved \in SUBSET Key /\ Reserved' \in SUBSET Key
    BY <1>0, ClaimKeys, ReservedMine, ReservedNext DEF ReservedByOwner
  <2>3. \A k \in Key : k \in Reserved' <=> (k \in Reserved /\ k \notin Claim(u))
    BY <1>0, <1>2, <1>3, <2>2, OthersMine
  <2>4. \A k \in Claim(u) : k \in Reserved
    BY <1>0, <1>2, <1>3, <2>2, OthersMine
  <2>. QED BY <2>1, <2>2, <2>3, <2>4 DEF Charged
<1>5. NoneDead' => NoneDead
  BY <1>0, <1>2 DEF NoneDead, Alone
<1>6. Sound'
  BY <1>0, <1>4, <1>5, CountSame DEF CountInv, quota
<1>7. KeepsStamp(u)
  BY <1>0, <1>3, <1>4 DEF KeepsStamp, quota
<1>. QED BY <1>0, <1>2, <1>3, <1>6, <1>7, JobCounts DEF cron

\* Removing versions releases exactly the objects nothing references any more.
LEMMA RemoveCounts ==
  ASSUME CountInv, SafeInv', NEW j \in Job, Alone(j), NEW vs \in SUBSET Upload, Remove(vs),
         UNCHANGED quotaScan, phase[j] \notin {"reserved", "stored", "undo", "dead"},
         phase'[j] \notin {"reserved", "stored", "undo"}
  PROVE  CountInv'
<1>0. SafeInv /\ TypeOK /\ TypeOK' /\ Mine(j) = {} /\ Mine(j)' = {} /\ ReservedIsPage(j)'
  BY NoClaim DEF CountInv, SafeInv
<1>1. Reserved' = Reserved
  BY <1>0, OthersMine, ReservedMine, ReservedNext DEF ReservedByOwner
<1>2. Referenced' = Referenced \ ReleasedObjects(vs) /\ ReleasedObjects(vs) \subseteq Referenced
  <2>1. /\ published' = published \ vs /\ published \subseteq Upload
        /\ \A v \in Upload : files'[v] = IF v \in vs THEN {} ELSE files[v]
    BY <1>0 DEF Remove, TypeOK
  <2>2. \A v \in Upload \ published : files[v] = {}
    BY <1>0 DEF SafeInv, OnlyPublishedHasFiles
  <2>. QED BY <2>1, <2>2 DEF Referenced, ReleasedObjects, FilesOf
<1>3. Charged' = Charged \ ReleasedObjects(vs) /\ ReleasedObjects(vs) \subseteq Charged
  BY <1>0, <1>1, <1>2, Disjoint DEF Charged
<1>4. NoneDead' => NoneDead
  BY DEF NoneDead, Alone
<1>5. Sound'
  BY <1>0, <1>3, <1>4, CountDown DEF Remove, CountInv
<1>6. Stamps
  BY <1>0, CountTypes DEF Remove, Stamps
<1>. QED BY <1>0, <1>5, <1>6, JobCounts

LEMMA CleanCounts ==
  ASSUME CountInv, SafeInv', NEW j \in Job, Clean(j) PROVE CountInv'
<1>0. SafeInv /\ TypeOK
  BY DEF CountInv, SafeInv
<1>1. CASE PruneSelect(j)
  <2>1. PICK p \in {"cleaning", "picked"} : Goto(j, p)
    BY <1>1 DEF PruneSelect
  <2>2. mem' = [mem EXCEPT ![j] = [mem[j] EXCEPT !.picked = Candidates(mem[j].target)]]
    BY <1>0, <1>1 DEF PruneSelect, TypeOK
  <2>. QED BY <1>1, <2>1, <2>2, GoOnCounts DEF PruneSelect
<1>2. CASE PruneBatch(j)
  <2>. DEFINE ids == mem[j].picked \cap Candidates(mem[j].target)
              m   == [mem[j] EXCEPT !.picked = {}, !.keys = mem[j].keys \cup FilesOf(ids)]
  <2>1. /\ Goto(j, "pruning") /\ mem' = [mem EXCEPT ![j] = m] /\ UNCHANGED <<cron, now>>
        /\ phase[j] = "picked"
    BY <1>0, <1>2 DEF PruneBatch, TypeOK
  <2>2. CASE current[mem[j].target] # None
    <3>1. Remove(ids) /\ ids \in SUBSET Upload
      BY <1>0, <1>2, <2>2, KeySets DEF PruneBatch, TypeOK
    <3>. HIDE DEF ids, m
    <3>2. Alone(j) /\ phase'[j] = "pruning"
      BY <1>0, <2>1 DEF Alone, Goto, TypeOK, cron
    <3>. QED BY <2>1, <3>1, <3>2, RemoveCounts DEF cron
  <2>3. CASE current[mem[j].target] = None
    <3>1. UNCHANGED <<rows, quota>>
      BY <1>2, <2>3 DEF PruneBatch, rows
    <3>. HIDE DEF ids, m
    <3>. QED BY <2>1, <3>1, GoOnCounts
  <2>. QED BY <2>2, <2>3
<1>3. CASE CleanCheck(j)
  <2>1. mem' = [mem EXCEPT ![j] = [mem[j] EXCEPT !.keys = mem[j].keys \ Referenced]]
    BY <1>0, <1>3 DEF CleanCheck, TypeOK
  <2>. QED BY <1>3, <2>1, GoOnCounts DEF CleanCheck
<1>4. CASE CleanDelete(j)
  BY <1>4, EndCounts DEF CleanDelete
<1>. QED BY <1>1, <1>2, <1>3, <1>4 DEF Clean

LEMMA DeleterCounts ==
  ASSUME CountInv, SafeInv', NEW d \in Deleter, StartDelete(d) \/ DeleteBatch(d) PROVE CountInv'
<1>0. SafeInv /\ TypeOK /\ d \in Job
  BY DEF CountInv, SafeInv, Job
<1>1. CASE StartDelete(d)
  BY <1>0, <1>1, BeginCounts DEF StartDelete, BeginPrune, BeginDelete
<1>2. CASE DeleteBatch(d)
  <2>. DEFINE s == mem[d].target
  <2>1. CASE current[s] = None
    BY <1>0, <1>2, <2>1, EndCounts DEF DeleteBatch
  <2>2. CASE current[s] # None
    <3>1. VersionsOf(s) \in SUBSET Upload /\ Remove(VersionsOf(s))
      BY <1>0, <1>2, <2>2, KeySets DEF DeleteBatch, TypeOK
    <3>2. Alone(d) /\ phase'[d] = "cleaning" /\ phase[d] = "deletable"
      BY <1>0, <1>2, <2>2 DEF DeleteBatch, Alone, Goto, TypeOK, cron
    <3>. QED BY <1>0, <1>2, <3>1, <3>2, RemoveCounts DEF DeleteBatch, cron
  <2>. QED BY <2>1, <2>2
<1>. QED BY <1>1, <1>2

\* What a request that dies had reserved stays on the counter.
LEMMA CrashCounts ==
  ASSUME CountInv, SafeInv', NEW j \in Job, Crash(j) PROVE CountInv'
<1>0. /\ SafeInv /\ TypeOK /\ TypeOK' /\ UNCHANGED <<rows, quota, cron, now>>
      /\ Alone(j) /\ phase'[j] = "dead"
  BY EndStep DEF CountInv, SafeInv, TypeOK, Crash, End, Goto
<1>1. Mine(j)' = {} /\ ReservedIsPage(j)' /\ ~NoneDead'
  BY <1>0, NoClaim DEF NoneDead
<1>2. Referenced' = Referenced
  BY <1>0 DEF Referenced, FilesOf, rows
<1>3. Charged' \subseteq Charged
  BY <1>0, <1>1, <1>2, OthersMine, ReservedMine, ReservedNext DEF ReservedByOwner, Charged
<1>4. Sound'
  BY <1>0, <1>1, <1>3, CountDead DEF CountInv, quota
<1>5. KeepsStamp(j)
  BY <1>0, <1>1, <1>2 DEF KeepsStamp, quota
<1>. QED BY <1>0, <1>1, <1>4, <1>5, JobCounts DEF cron

-----------------------------------------------------------------------------
(* The clock, the other jobs, and the correction itself. *)

LEMMA Still ==
  ASSUME UNCHANGED <<rows, phase, mem>>
  PROVE  /\ Referenced' = Referenced /\ Reserved' = Reserved /\ Charged' = Charged
         /\ (NoneDead' <=> NoneDead)
         /\ \A u \in Upload : Mine(u)' = Mine(u) /\ (ReservedIsPage(u)' <=> ReservedIsPage(u))
<1>1. Referenced' = Referenced
  BY DEF Referenced, FilesOf, rows
<1>2. Reserved' = Reserved
  BY DEF Reserved, Holding, Claim, IsPage, Own
<1>. QED BY <1>1, <1>2 DEF Charged, NoneDead, Mine, Holding, Claim, IsPage, Own, ReservedIsPage

LEMMA ClockCounts ==
  ASSUME CountInv, SafeInv', UNCHANGED <<rows, quota, phase, mem, quotaScan>>, now <= now'
  PROVE  CountInv'
<1>1. TypeOK /\ TypeOK' /\ now' \in Int
  BY DEF CountInv, SafeInv, TypeOK, Time
<1>2. Sound'
  BY <1>1, Still, CountSame DEF CountInv, quota
<1>3. StampRecent'
  BY Still DEF CountInv, StampRecent, quota
<1>4. ScanExact'
  BY <1>1, Still, CountTypes DEF CountInv, ScanExact, quota
<1>. QED BY <1>2, <1>3, <1>4, Still DEF CountInv

\* A counter nobody wrote for QuotaGrace has no reservation.
LEMMA OldIsFree ==
  ASSUME CountInv, usedAt < now - QuotaGrace
  PROVE  Reserved = {}
<1>0. SafeInv /\ TypeOK
  BY DEF CountInv, SafeInv
<1>1. ASSUME NEW u \in Upload, Mine(u) # {} PROVE FALSE
  <2>1. ~Ended(u)
    BY <1>1 DEF Mine, Holding, Ended
  <2>2. now <= mem[u].begun + MaxRequest
    BY <1>0, <2>1, UploadJob DEF SafeInv, WithinRequest
  <2>3. mem[u].begun - MaxRequest <= usedAt
    BY <1>1 DEF CountInv, StampRecent
  <2>4. mem[u].begun \in Int
    BY <1>0, CountTypes, UploadJob
  <2>. QED BY <1>0, <2>2, <2>3, <2>4, CountTypes
<1>2. \A k \in Reserved : k[1] \in Upload /\ k \in Mine(k[1])
  BY <1>0, ReservedMine DEF ReservedByOwner, Key
<1>. QED BY <1>1, <1>2

LEMMA QuotaCounts ==
  ASSUME CountInv, SafeInv', QuotaCron PROVE CountInv'
<1>0. /\ TypeOK /\ TypeOK' /\ UNCHANGED <<rows, phase, mem, now, usedAt>>
      /\ quotaScan \in Counts
  BY DEF CountInv, SafeInv, TypeOK, QuotaCron, QuotaSelect, QuotaUpdate, quota
<1>1. StampRecent'
  BY <1>0, Still DEF CountInv, StampRecent
<1>2. CASE QuotaSelect
  <2>1. /\ UNCHANGED used /\ usedAt < now - QuotaGrace
        /\ quotaScan'.cutoff = now - QuotaGrace /\ quotaScan'.actual = Cardinality(Referenced)
    BY <1>2 DEF QuotaSelect, quota
  <2>2. Sound'
    BY <1>0, <2>1, Still, CountSame DEF CountInv
  <2>3. Reserved = {}
    BY <2>1, OldIsFree
  <2>4. quotaScan'.cutoff + QuotaGrace <= now
    BY <1>0, <2>1, CountTypes
  <2>5. Reserved' = {} /\ quotaScan'.actual = Cardinality(Referenced)' /\ now' = now
    BY <1>0, <2>1, <2>3, Still
  <2>6. ScanExact'
    BY <2>4, <2>5 DEF ScanExact
  <2>. QED BY <1>0, <1>1, <2>2, <2>6, Still DEF CountInv
<1>3. CASE QuotaUpdate
  <2>1. quotaScan.stage = "read" /\ quotaScan' = NoCount
    BY <1>3 DEF QuotaUpdate
  <2>2. ScanExact'
    BY <2>1 DEF ScanExact, NoCount
  <2>3. Sound'
    <3>1. CASE usedAt < quotaScan.cutoff /\ used = quotaScan.recorded
      <4>1. Charged = Referenced /\ used' = Cardinality(Charged)
        BY <1>3, <2>1, <3>1 DEF CountInv, ScanExact, QuotaUpdate, Charged
      <4>. QED BY <1>0, <4>1, Still, CountTypes DEF CountInv, Sound
    <3>2. CASE ~(usedAt < quotaScan.cutoff /\ used = quotaScan.recorded)
      BY <1>0, <1>3, <3>2, Still, CountSame DEF QuotaUpdate, CountInv
    <3>. QED BY <3>1, <3>2
  <2>. QED BY <1>0, <1>1, <2>2, <2>3, Still DEF CountInv
<1>. QED BY <1>2, <1>3 DEF QuotaCron

-----------------------------------------------------------------------------
LEMMA UploadCounts ==
  ASSUME CountInv, FreshUnpublished, SafeInv', LostReply = FALSE, NEW u \in Upload, Start(u) \/ Advance(u)
  PROVE  CountInv'
<1>1. CASE Start(u)
  BY <1>1, UploadJob, BeginCounts DEF Start, BeginCreate, BeginAppend, BeginPage, BeginSite
<1>2. CASE Advance(u)
  BY <1>2, StagingCounts, PutCounts, ReserveCounts, CommitsCounts, UndoObjectsCounts, UndoQuotaCounts
     DEF Advance, CommitReplyLost
<1>. QED BY <1>1, <1>2

LEMMA CountNext ==
  ASSUME CountInv, FreshUnpublished, LostReply = FALSE, [Next]_vars PROVE CountInv'
<1>1. SafeInv'
  BY SafeNext DEF CountInv
<1>2. ASSUME NEW u \in Upload, Start(u) \/ Advance(u) PROVE CountInv'
  BY <1>1, <1>2, UploadCounts
<1>3. ASSUME NEW d \in Deleter, StartDelete(d) \/ DeleteBatch(d) PROVE CountInv'
  BY <1>1, <1>3, DeleterCounts
<1>4. ASSUME NEW j \in Job, Clean(j) \/ Crash(j) PROVE CountInv'
  BY <1>1, <1>4, CleanCounts, CrashCounts
<1>5. CASE QuotaCron
  BY <1>1, <1>5, QuotaCounts
<1>6. CASE OrphanCron \/ VerifyCron \/ Tick \/ UNCHANGED vars
  <2>1. now \in Int
    BY DEF CountInv, SafeInv, TypeOK, Time
  <2>2. UNCHANGED <<rows, quota, phase, mem, quotaScan>> /\ now <= now'
    BY <1>6, <2>1 DEF OrphanCron, OrphanRead, OrphanList, OrphanDelete, VerifyCron, VerifyRead,
                      VerifyList, VerifyRecheck, Tick, vars, cron
  <2>. QED BY <1>1, <2>2, ClockCounts
<1>. QED BY <1>2, <1>3, <1>4, <1>5, <1>6 DEF Next

\* Only the upload that stops being fresh gets a version row.
LEMMA FreshNext ==
  ASSUME TypeOK, FreshUnpublished, LostReply = FALSE, [Next]_vars PROVE FreshUnpublished'
<1>1. \A u \in Upload : Fresh(u)' => Fresh(u)
  BY FreshOnce
<1>2. ASSUME published' \subseteq published PROVE FreshUnpublished'
  BY <1>1, <1>2 DEF FreshUnpublished
<1>3. ASSUME NEW u \in Upload, Start(u) \/ Advance(u) PROVE FreshUnpublished'
  <2>1. CASE Commits(u)
    <3>1. ~Fresh(u)'
      BY <2>1 DEF Commits, End, Goto, Fresh, TypeOK, Job
    <3>2. published' = published \cup {u}
      BY <2>1 DEF Commits, Commit, CommitNewPage, CommitPage, CommitNewSite, CommitSite, Publish
    <3>. QED BY <1>1, <3>1, <3>2 DEF FreshUnpublished
  <2>2. CASE ~Commits(u)
    <3>1. UNCHANGED published
      BY <1>3, <2>2 DEF Start, BeginCreate, BeginAppend, BeginPage, BeginSite, Begin, Advance, ReadSource,
              ReservePage, RefusePage, PutPage, PutPageFails, AddFile, AbortSite, ReserveSite,
              CommitRefused, CommitReplyLost, UndoObjects, UndoQuota, rows
    <3>. QED BY <1>2, <3>1
  <2>. QED BY <2>1, <2>2
<1>4. ASSUME NEW d \in Deleter, StartDelete(d) \/ DeleteBatch(d) PROVE FreshUnpublished'
  BY <1>2, <1>4 DEF StartDelete, BeginPrune, BeginDelete, Begin, DeleteBatch, Remove, rows
<1>5. ASSUME NEW j \in Job, Clean(j) \/ Crash(j) PROVE FreshUnpublished'
  BY <1>2, <1>5 DEF Clean, PruneSelect, PruneBatch, Remove, CleanCheck, CleanDelete, Crash, rows
<1>6. CASE QuotaCron \/ OrphanCron \/ VerifyCron \/ Tick \/ UNCHANGED vars
  <2>1. UNCHANGED published
    BY <1>6 DEF QuotaCron, QuotaSelect, QuotaUpdate, OrphanCron, OrphanRead, OrphanList,
                OrphanDelete, VerifyCron, VerifyRead, VerifyList, VerifyRecheck, Tick, vars, rows
  <2>. QED BY <1>2, <2>1
<1>. QED BY <1>3, <1>4, <1>5, <1>6 DEF Next

LEMMA CountInit == Init => CountInv /\ FreshUnpublished
<1>. SUFFICES ASSUME Init PROVE CountInv /\ FreshUnpublished
  OBVIOUS
<1>1. SafeInv
  BY SafeInit
<1>2. \A j \in Job : phase[j] = "idle"
  BY DEF Init
<1>3. \A u \in Upload : Mine(u) = {} /\ ReservedIsPage(u)
  BY <1>2, UploadJob DEF Mine, Holding, ReservedIsPage
<1>4. Charged = {}
  BY <1>2, UploadJob DEF Init, Charged, Reserved, Holding, Referenced, FilesOf
<1>5. Cardinality(Charged) = 0 /\ used = 0 /\ Quota \in Nat
  BY <1>4, FS_EmptySet, StorageAssumption DEF Init
<1>. QED BY <1>1, <1>3, <1>5 DEF CountInv, StampRecent, ScanExact, Sound, NoneDead, Init, NoCount,
                                 FreshUnpublished

\* The counter never has less than is stored and reserved, has exactly that
\* as long as no request died, and never lets the workspace exceed its quota.
THEOREM CounterIsSound ==
  ASSUME LostReply = FALSE
  PROVE  Spec => []CounterSound
<1>1. CountInv => CounterSound
  <2>1. SUFFICES ASSUME CountInv PROVE CounterSound
    OBVIOUS
  <2>2. /\ used \in Nat /\ Quota \in Nat /\ IsFiniteSet(Charged) /\ Cardinality(Charged) \in Nat
        /\ Referenced \subseteq Charged /\ Sound
    BY <2>1, CountTypes DEF CountInv, SafeInv, Charged
  <2>3. Cardinality(Referenced) <= Cardinality(Charged) /\ Cardinality(Referenced) \in Nat
    BY <2>2, FS_Subset, FS_CardinalityType
  <2>4. WithinQuota
    BY <2>2, <2>3 DEF Sound, WithinQuota
  <2>5. NeverUndercounted /\ ExactUnlessCrashed
    BY <2>2 DEF Sound, NoneDead, Charged, NeverUndercounted, ExactUnlessCrashed
  <2>. QED BY <2>4, <2>5 DEF CounterSound
<1>2. CountInv /\ FreshUnpublished /\ [Next]_vars => (CountInv /\ FreshUnpublished)'
  BY CountNext, FreshNext DEF CountInv, SafeInv
<1>. QED BY CountInit, <1>1, <1>2, PTL DEF Spec
=============================================================================
