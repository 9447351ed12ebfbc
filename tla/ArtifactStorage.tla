--------------------------- MODULE ArtifactStorage ---------------------------
(***************************************************************************)
(* Publication and storage of artifacts: the rows of D1 (artifacts, their  *)
(* versions, the workspace's storage counter), the objects of R2, and the  *)
(* requests and daily jobs that change them one statement at a time.       *)
(*                                                                         *)
(* A D1 batch is one transaction, a single statement is atomic, an R2 call *)
(* is atomic, and anything may run between two of them.  No lock spans a   *)
(* request: the code relies on guarded statements, on the order of its     *)
(* steps and on compensation, and the daily jobs repair what a request     *)
(* that died left behind.                                                  *)
(*                                                                         *)
(* One workspace on the Free plan; every stored file counts one unit.  An  *)
(* upload u publishes at most one version, also called u, and owns the     *)
(* object keys <<u, p>>.  A page has the one file Entry; a site has a file *)
(* per path, and a version of a site may reuse the keys of its base.       *)
(***************************************************************************)
EXTENDS Integers, FiniteSets, Sequences

CONSTANTS
  Shareable,      \* artifact identifiers
  Upload,         \* publication requests, and the versions they publish
  Deleter,        \* deletion and retention-settings requests
  Path,           \* file paths of a static site
  Entry,          \* the entrypoint path (/index.html)
  None,           \* "no version": an artifact without a row, no expectation
  Quota,          \* workspaces.storage_quota_bytes, in files
  Retain,         \* shareables.retain_versions
  MaxRequest,     \* how long a request may run (environment assumption)
  QuotaGrace,     \* QUOTA_GRACE_MS
  ObjectGrace,    \* R2_GRACE_MS
  LostReply,      \* may D1 apply a batch and still report an error?
  Offered,        \* which kinds of upload this instance serves
  Daily,          \* which of the daily jobs run in this instance
  MaxTime,        \* bound: the clock stops here
  LastBegin,      \* bound: no request begins later
  MaxCrashes      \* bound: requests that die

CreateKinds == {"createPage", "createSite"}
PageKinds   == {"createPage", "page", "append"}
SiteKinds   == {"createSite", "site"}
Kinds       == PageKinds \cup SiteKinds

ASSUME StorageAssumption ==
  /\ IsFiniteSet(Upload) /\ IsFiniteSet(Deleter) /\ IsFiniteSet(Path)
  /\ Entry \in Path
  /\ None \notin Upload /\ None \notin Shareable
  /\ Upload \cap Deleter = {}
  /\ Quota \in Nat /\ Retain \in Nat \ {0}
  /\ MaxRequest \in Nat /\ QuotaGrace \in Nat /\ ObjectGrace \in Nat
  /\ LostReply \in BOOLEAN
  /\ Offered \subseteq Kinds
  /\ Daily \subseteq {"quota", "orphans", "verify"}
  /\ MaxTime \in Nat /\ LastBegin \in Nat /\ MaxCrashes \in Nat

\* The graces outlast the requests they wait for.  One request length is
\* enough for the objects; the storage counter needs two, because a request
\* stamps the counter with the time it began, not the time it wrote.
ASSUME GraceAssumption ==
  /\ MaxRequest < ObjectGrace
  /\ 2 * MaxRequest <= QuotaGrace

Key  == Upload \X Path
Job  == Upload \cup Deleter
Time == 0..MaxTime

VARIABLES
  \* D1
  current,    \* shareables.current_version_id; None: no such row
  site,       \* shareables.artifact_kind = 'static_site'
  log,        \* versions.number: the n-th version published of an artifact
  published,  \* the version rows
  files,      \* version_files.r2_key (versions.r2_key of a page), per version
  used,       \* workspaces.storage_used_bytes
  usedAt,     \* workspaces.storage_updated_at
  \* R2
  bucket,     \* the objects: key to upload time
  content,    \* what a version says: the contributions its body is made of
  \* requests
  phase,      \* where each request stands
  mem,        \* what it remembers, until it ends
  \* daily jobs
  quotaScan,  \* reconcileQuota between its SELECT and its UPDATE
  orphanScan, \* reconcileR2Orphans between its reads and its deletion
  verifyScan, \* verifyR2References between its reads
  alarm,      \* R2ReferenceMissingError has been thrown
  now

rows  == <<current, site, log, published, files, content>>
quota == <<used, usedAt>>
cron  == <<quotaScan, orphanScan, verifyScan, alarm>>
vars  == <<rows, quota, bucket, phase, mem, cron, now>>

NoMemory == [kind |-> "none", target |-> None, base |-> None, expected |-> None,
             begun |-> 0, body |-> {}, sent |-> {}, todo |-> {}, keys |-> {}, picked |-> {}]
NoScan   == [stage |-> "off", keys |-> {}, cutoff |-> 0]
NoCount  == [stage |-> "off", recorded |-> 0, actual |-> 0, cutoff |-> 0]

-----------------------------------------------------------------------------
(* What the code computes from the rows and the bucket. *)

Objects == DOMAIN bucket

FilesOf(vs) == UNION {files[v] : v \in vs}

\* Keys some row references: unreferencedObjectKeys keeps the others.
Referenced == FilesOf(published)

VersionsOf(s) == {v \in published : \E i \in DOMAIN log[s] : log[s][i].id = v}

\* versions.number
Number(s, v) == CHOOSE i \in DOMAIN log[s] : log[s][i].id = v

\* releasedObjectBytes: objects only the removed rows reference.
ReleasedObjects(removed) == FilesOf(removed) \ FilesOf(published \ removed)

KeptOneShort(s) ==
  {v \in VersionsOf(s) :
     Cardinality({w \in VersionsOf(s) : Number(s, w) > Number(s, v)}) < Retain - 1}

\* candidates(): not current, and not among the Retain newest, where the
\* current version counts first.
Kept(s) ==
  {v \in VersionsOf(s) :
     \/ v = current[s]
     \/ Cardinality({w \in VersionsOf(s) :
                       w = current[s] \/ Number(s, w) > Number(s, v)}) < Retain}
Candidates(s) == VersionsOf(s) \ Kept(s)

DebitTwice(n) == used - n - n

\* MAX(storage_used_bytes - n, 0)
Debit(n) == IF used >= n THEN used - n ELSE 0

\* bucket.put and bucket.delete
WithObject(k)   == [o \in Objects \cup {k} |-> IF o = k THEN now ELSE bucket[o]]
Without(gone)   == [o \in Objects \ gone |-> bucket[o]]

-----------------------------------------------------------------------------
Init ==
  /\ current = [s \in Shareable |-> None]
  /\ site = {}
  /\ log = [s \in Shareable |-> <<>>]
  /\ published = {}
  /\ files = [u \in Upload |-> {}]
  /\ content = [u \in Upload |-> {}]
  /\ used = 0 /\ usedAt = 0
  /\ bucket = [k \in {} |-> 0]
  /\ phase = [j \in Job |-> "idle"]
  /\ mem = [j \in Job |-> NoMemory]
  /\ quotaScan = NoCount /\ orphanScan = NoScan /\ verifyScan = NoScan
  /\ alarm = FALSE
  /\ now = 0

-----------------------------------------------------------------------------
(* Requests. *)

Goto(j, p)    == phase' = [phase EXCEPT ![j] = p]
Ended(j)      == phase[j] \in {"idle", "done", "dead"}
End(j, p)     == Goto(j, p) /\ mem' = [mem EXCEPT ![j] = NoMemory]
Undo(u, m)    == Goto(u, "undo") /\ mem' = [mem EXCEPT ![u] = m]

IsPage(u) == mem[u].kind \in PageKinds
Own(u)    == {u} \X mem[u].sent
\* What a request reserves: a page's file before it is put, a site's files
\* once they all are.
Claim(u)  == IF IsPage(u) THEN {<<u, Entry>>} ELSE Own(u)

Begin(j, p, kind, s, base, expected, ks) ==
  /\ phase[j] = "idle" /\ now <= LastBegin
  /\ Goto(j, p)
  /\ mem' = [mem EXCEPT ![j] =
               [NoMemory EXCEPT !.kind = kind, !.target = s, !.base = base,
                                !.expected = expected, !.begun = now, !.keys = ks]]
  /\ UNCHANGED <<rows, quota, bucket, cron, now>>

\* createNewShareableFromFile and beginStaticSiteBundleUploadSession: a fresh
\* id; two requests may still draw the same one before either commits.
BeginCreate(u, s, kind) ==
  /\ kind \in CreateKinds \cap Offered
  /\ log[s] = <<>>
  /\ Begin(u, "begun", kind, s, None, None, {})

\* createVersion: the owner publishes over whatever is current unless it names
\* the version it expects; anybody else expects the version just read.
BeginPage(u, s, expected) ==
  /\ "page" \in Offered
  /\ current[s] # None /\ s \notin site
  /\ expected \in {None, current[s]}
  /\ Begin(u, "begun", "page", s, None, expected, {})

\* appendShareable, first read: the current version and its object key.
BeginAppend(u, s) ==
  /\ "append" \in Offered
  /\ current[s] # None /\ s \notin site
  /\ Begin(u, "reading", "append", s, current[s], current[s], {})

\* appendShareable, second read: the body, unless retention removed it.
ReadSource(u) ==
  /\ phase[u] = "reading"
  /\ IF <<mem[u].base, Entry>> \in Objects
     THEN Goto(u, "begun") /\ mem' = [mem EXCEPT ![u].body = content[mem[u].base]]
     ELSE End(u, "done")
  /\ UNCHANGED <<rows, quota, bucket, cron, now>>

\* beginStaticSiteBundleVersionUploadSession: a base must be the current
\* version, and is then also the version the commit expects.
BeginSite(u, s, base, expected) ==
  /\ "site" \in Offered
  /\ current[s] # None /\ s \in site
  /\ base \in {None, current[s]} /\ expected \in {None, current[s]}
  /\ base # None => expected = base
  /\ Begin(u, "begun", "site", s, base, expected, {})

\* reserveQuota: one guarded UPDATE, stamped with the time the request began.
Reserve(u, n) ==
  /\ used + n <= Quota
  /\ used' = used + n
  /\ usedAt' = mem[u].begun

ReservePage(u) ==
  /\ phase[u] = "begun" /\ IsPage(u)
  /\ Reserve(u, 1)
  /\ Goto(u, "reserved")
  /\ UNCHANGED <<rows, bucket, mem, cron, now>>

\* Any check that ends a request before it changed anything, over-quota and
\* revoked access included.
RefusePage(u) ==
  /\ phase[u] \in {"reading", "begun"} /\ IsPage(u)
  /\ End(u, "done")
  /\ UNCHANGED <<rows, quota, bucket, cron, now>>

PutPage(u) ==
  /\ phase[u] = "reserved"
  /\ bucket' = WithObject(<<u, Entry>>)
  /\ mem' = [mem EXCEPT ![u].sent = {Entry}]
  /\ Goto(u, "stored")
  /\ UNCHANGED <<rows, quota, cron, now>>

\* The put failed, or succeeded and its answer was lost: only the quota is
\* given back.
PutPageFails(u) ==
  /\ phase[u] = "reserved"
  /\ bucket' \in {bucket, WithObject(<<u, Entry>>)}
  /\ Undo(u, [mem[u] EXCEPT !.todo = {"quota"}])
  /\ UNCHANGED <<rows, quota, cron, now>>

\* StaticSiteBundleUploadSession.addFile: staged before any quota is reserved.
AddFile(u, p) ==
  /\ phase[u] = "begun" /\ ~IsPage(u)
  /\ p \notin mem[u].sent
  /\ bucket' = WithObject(<<u, p>>)
  /\ mem' = [mem EXCEPT ![u].sent = @ \cup {p}]
  /\ UNCHANGED <<rows, quota, phase, cron, now>>

\* A file is refused, its put fails (perhaps after landing), or a check of
\* commit or commitVersion ends the session: everything staged is dropped.
AbortSite(u) ==
  /\ phase[u] = "begun" /\ ~IsPage(u)
  /\ \/ bucket' = bucket /\ Undo(u, [mem[u] EXCEPT !.todo = {"object"}])
     \/ \E p \in Path \ mem[u].sent :
          /\ bucket' = WithObject(<<u, p>>)
          /\ Undo(u, [mem[u] EXCEPT !.todo = {"object"}, !.sent = @ \cup {p}])
  /\ UNCHANGED <<rows, quota, cron, now>>

\* commit and commitVersion up to the reservation; a version that sends
\* nothing over a base reserves nothing.
ReserveSite(u) ==
  /\ phase[u] = "begun" /\ ~IsPage(u)
  /\ IF mem[u].base = None THEN Entry \in mem[u].sent
                           ELSE current[mem[u].target] = mem[u].base
  /\ IF mem[u].base # None /\ mem[u].sent = {}
     THEN UNCHANGED quota
     ELSE Reserve(u, Cardinality(mem[u].sent))
  /\ Goto(u, "stored")
  /\ UNCHANGED <<rows, bucket, mem, cron, now>>

-----------------------------------------------------------------------------
(* The publishing batches.  A batch that a guard, a trigger or D1 refuses  *)
(* changes nothing.                                                        *)

Publish(u, op, fs, body) ==
  LET s == mem[u].target IN
  /\ published' = published \cup {u}
  /\ files' = [files EXCEPT ![u] = fs]
  /\ content' = [content EXCEPT ![u] = body]
  /\ current' = [current EXCEPT ![s] = u]
  /\ log' = [log EXCEPT ![s] = Append(@, [id |-> u, op |-> op])]

\* The primary key of a new artifact.
IdFree(u) == log[mem[u].target] = <<>>

CurrentUnchecked(u) == current[mem[u].target] # None

\* The guard of the version INSERT and of the current_version_id UPDATE.
Current(u) ==
  /\ current[mem[u].target] # None
  /\ mem[u].expected # None => current[mem[u].target] = mem[u].expected

CommitNewPage(u) ==
  /\ phase[u] = "stored" /\ mem[u].kind = "createPage"
  /\ IdFree(u)
  /\ Publish(u, "create", {<<u, Entry>>}, {<<u, Entry>>})
  /\ UNCHANGED site

CommitPage(u) ==
  /\ phase[u] = "stored" /\ mem[u].kind \in {"page", "append"}
  /\ Current(u)
  /\ Publish(u, IF mem[u].kind = "append" THEN "append" ELSE "replace",
             {<<u, Entry>>}, mem[u].body \cup {<<u, Entry>>})
  /\ UNCHANGED site

CommitNewSite(u) ==
  /\ phase[u] = "stored" /\ mem[u].kind = "createSite"
  /\ IdFree(u)
  /\ Publish(u, "create", Own(u), Own(u))
  /\ site' = site \cup {mem[u].target}

\* commitVersion: the rows of the base, minus the deleted and the replaced
\* paths, are copied inside the batch, then the files sent are added.
CommitSite(u) ==
  /\ phase[u] = "stored" /\ mem[u].kind = "site"
  /\ Current(u)
  /\ \E deleted \in SUBSET (Path \ mem[u].sent) :
       LET base      == IF mem[u].base = None THEN {} ELSE files[mem[u].base]
           inherited == {k \in base : k[2] \notin deleted \cup mem[u].sent}
           manifest  == inherited \cup Own(u)
       IN  /\ \E k \in manifest : k[2] = Entry
           /\ Publish(u, IF mem[u].base = None THEN "replace" ELSE "edit", manifest, manifest)
  /\ UNCHANGED site

Commit(u) == CommitNewPage(u) \/ CommitPage(u) \/ CommitNewSite(u) \/ CommitSite(u)

\* Retention runs after a new version, not after a new artifact.
Commits(u) ==
  /\ Commit(u)
  /\ IF mem[u].kind \in CreateKinds
     THEN End(u, "done")
     ELSE /\ Goto(u, "pruning")
          /\ mem' = [mem EXCEPT ![u] = [NoMemory EXCEPT !.target = mem[u].target,
                                                        !.begun = mem[u].begun]]
  /\ UNCHANGED <<quota, bucket, cron, now>>

CommitRefused(u) ==
  /\ phase[u] = "stored"
  /\ Undo(u, [mem[u] EXCEPT !.todo = {"object", "quota"}])
  /\ UNCHANGED <<rows, quota, bucket, cron, now>>

\* D1 applied the batch and the request saw an error.
CommitReplyLost(u) ==
  /\ LostReply
  /\ Commit(u)
  /\ Undo(u, [mem[u] EXCEPT !.todo = {"object", "quota"}])
  /\ UNCHANGED <<quota, bucket, cron, now>>

-----------------------------------------------------------------------------
(* Compensation: one step after the other for a version of a site, side by *)
(* side for a new artifact and for a page that met another version.        *)
(* Deletion is best effort and its failure is swallowed.                   *)

Undone(u, t) ==
  IF mem[u].todo = {t}
  THEN End(u, "done")
  ELSE phase' = phase /\ mem' = [mem EXCEPT ![u].todo = @ \ {t}]

UndoObjects(u) ==
  /\ phase[u] = "undo" /\ "object" \in mem[u].todo
  /\ \E gone \in SUBSET Own(u) : bucket' = Without(gone)
  /\ Undone(u, "object")
  /\ UNCHANGED <<rows, quota, cron, now>>

\* releaseQuota
UndoQuota(u) ==
  /\ phase[u] = "undo" /\ "quota" \in mem[u].todo
  /\ "object" \in mem[u].todo => mem[u].kind # "site"
  /\ used' = Debit(Cardinality(Claim(u)))
  /\ usedAt' = mem[u].begun
  /\ Undone(u, "quota")
  /\ UNCHANGED <<rows, bucket, cron, now>>

-----------------------------------------------------------------------------
(* Retention and deletion: rows first, then the objects no row references. *)

Remove(vs) ==
  /\ published' = published \ vs
  /\ files' = [v \in Upload |-> IF v \in vs THEN {} ELSE files[v]]
  /\ used' = Debit(Cardinality(ReleasedObjects(vs)))
  /\ usedAt' = now

\* A retention settings edit prunes too.
BeginPrune(d, s) ==
  /\ current[s] # None
  /\ Begin(d, "pruning", "prune", s, None, None, {})

\* pruneVersions: select what retention may remove...
PruneSelect(j) ==
  /\ phase[j] = "pruning"
  /\ LET ids == Candidates(mem[j].target) IN
       /\ mem' = [mem EXCEPT ![j].picked = ids]
       /\ Goto(j, IF ids = {} THEN "cleaning" ELSE "picked")
  /\ UNCHANGED <<rows, quota, bucket, cron, now>>

\* ... then delete what still qualifies, in one batch, and select again.
PruneBatch(j) ==
  /\ phase[j] = "picked"
  /\ LET s   == mem[j].target
         ids == mem[j].picked \cap Candidates(s)
     IN  /\ IF current[s] # None THEN Remove(ids) ELSE UNCHANGED <<published, files, quota>>
         /\ mem' = [mem EXCEPT ![j].picked = {}, ![j].keys = @ \cup FilesOf(ids)]
  /\ Goto(j, "pruning")
  /\ UNCHANGED <<current, site, log, content, bucket, cron, now>>

\* deleteShareable: read the keys before the cascade drops them...
BeginDelete(d, s) ==
  /\ current[s] # None
  /\ Begin(d, "deletable", "delete", s, None, None, FilesOf(VersionsOf(s)))

\* ... then delete the artifact and all its versions in one batch.
DeleteBatch(d) ==
  /\ phase[d] = "deletable"
  /\ LET s == mem[d].target IN
       IF current[s] = None
       THEN End(d, "done") /\ UNCHANGED <<rows, quota>>
       ELSE /\ Remove(VersionsOf(s))
            /\ current' = [current EXCEPT ![s] = None]
            /\ Goto(d, "cleaning")
            /\ UNCHANGED <<site, log, content, mem>>
  /\ UNCHANGED <<bucket, cron, now>>

CleanUnchecked(j) ==
  /\ phase[j] = "cleaning"
  /\ Goto(j, "deleting")
  /\ UNCHANGED <<rows, quota, bucket, mem, cron, now>>

\* unreferencedObjectKeys, then bucket.delete.
CleanCheck(j) ==
  /\ phase[j] = "cleaning"
  /\ mem' = [mem EXCEPT ![j].keys = @ \ Referenced]
  /\ Goto(j, "deleting")
  /\ UNCHANGED <<rows, quota, bucket, cron, now>>

CleanDelete(j) ==
  /\ phase[j] = "deleting"
  /\ \E gone \in SUBSET mem[j].keys : bucket' = Without(gone)
  /\ End(j, "done")
  /\ UNCHANGED <<rows, quota, cron, now>>

\* The isolate dies between two steps: nothing more of the request runs.
Crash(j) ==
  /\ ~Ended(j)
  /\ Cardinality({i \in Job : phase[i] = "dead"}) < MaxCrashes
  /\ End(j, "dead")
  /\ UNCHANGED <<rows, quota, bucket, cron, now>>

-----------------------------------------------------------------------------
(* The daily jobs of runReconciliation.  A scan that starts before its     *)
(* grace has elapsed since the clock's origin finds nothing to do.         *)

\* reconcileQuota, the SELECT: a counter nobody wrote for QuotaGrace.
QuotaSelect ==
  /\ "quota" \in Daily /\ quotaScan = NoCount
  /\ usedAt < now - QuotaGrace
  /\ used # Cardinality(Referenced)
  /\ quotaScan' = [stage |-> "read", recorded |-> used,
                   actual |-> Cardinality(Referenced), cutoff |-> now - QuotaGrace]
  /\ UNCHANGED <<rows, quota, bucket, phase, mem, orphanScan, verifyScan, alarm, now>>

QuotaUpdateBlind ==
  /\ quotaScan.stage = "read"
  /\ used' = quotaScan.actual
  /\ quotaScan' = NoCount
  /\ UNCHANGED <<rows, usedAt, bucket, phase, mem, orphanScan, verifyScan, alarm, now>>

\* reconcileQuota, the UPDATE: only over the row that was read.
QuotaUpdate ==
  /\ quotaScan.stage = "read"
  /\ used' = IF usedAt < quotaScan.cutoff /\ used = quotaScan.recorded
             THEN quotaScan.actual ELSE used
  /\ quotaScan' = NoCount
  /\ UNCHANGED <<rows, usedAt, bucket, phase, mem, orphanScan, verifyScan, alarm, now>>

\* reconcileR2Orphans reads the rows, then lists the bucket, then deletes.
OrphanRead ==
  /\ "orphans" \in Daily /\ orphanScan = NoScan
  /\ now >= ObjectGrace
  /\ orphanScan' = [stage |-> "rows", keys |-> Referenced, cutoff |-> now - ObjectGrace]
  /\ UNCHANGED <<rows, quota, bucket, phase, mem, quotaScan, verifyScan, alarm, now>>

OrphanListYoung ==
  /\ orphanScan.stage = "rows"
  /\ orphanScan' = [orphanScan EXCEPT !.stage = "listed",
                     !.keys = {k \in Objects \ orphanScan.keys : bucket[k] > orphanScan.cutoff}]
  /\ UNCHANGED <<rows, quota, bucket, phase, mem, quotaScan, verifyScan, alarm, now>>

OrphanList ==
  /\ orphanScan.stage = "rows"
  /\ orphanScan' = [orphanScan EXCEPT !.stage = "listed",
                     !.keys = {k \in Objects \ orphanScan.keys : bucket[k] <= orphanScan.cutoff}]
  /\ UNCHANGED <<rows, quota, bucket, phase, mem, quotaScan, verifyScan, alarm, now>>

OrphanDelete(gone) ==
  /\ orphanScan.stage = "listed"
  /\ bucket' = Without(gone)
  /\ orphanScan' = NoScan
  /\ UNCHANGED <<rows, quota, phase, mem, quotaScan, verifyScan, alarm, now>>

VerifyReadEntries ==
  /\ "verify" \in Daily /\ verifyScan = NoScan
  /\ verifyScan' = [stage |-> "rows", keys |-> {k \in Referenced : k[2] = Entry}, cutoff |-> 0]
  /\ UNCHANGED <<rows, quota, bucket, phase, mem, quotaScan, orphanScan, alarm, now>>

\* verifyR2References: rows, bucket, and the rows again for what is missing.
VerifyRead ==
  /\ "verify" \in Daily /\ verifyScan = NoScan
  /\ verifyScan' = [stage |-> "rows", keys |-> Referenced, cutoff |-> 0]
  /\ UNCHANGED <<rows, quota, bucket, phase, mem, quotaScan, orphanScan, alarm, now>>

VerifyList ==
  /\ verifyScan.stage = "rows"
  /\ verifyScan' = [verifyScan EXCEPT !.stage = "listed", !.keys = @ \ Objects]
  /\ UNCHANGED <<rows, quota, bucket, phase, mem, quotaScan, orphanScan, alarm, now>>

VerifyNoRecheck ==
  /\ verifyScan.stage = "listed"
  /\ alarm' = (alarm \/ verifyScan.keys # {})
  /\ verifyScan' = NoScan
  /\ UNCHANGED <<rows, quota, bucket, phase, mem, quotaScan, orphanScan, now>>

VerifyRecheck ==
  /\ verifyScan.stage = "listed"
  /\ alarm' = (alarm \/ verifyScan.keys \cap Referenced # {})
  /\ verifyScan' = NoScan
  /\ UNCHANGED <<rows, quota, bucket, phase, mem, quotaScan, orphanScan, now>>

\* Time passes, but no request outlives MaxRequest.
Tick ==
  /\ now < MaxTime
  /\ \A j \in Job : Ended(j) \/ now < mem[j].begun + MaxRequest
  /\ now' = now + 1
  /\ UNCHANGED <<rows, quota, bucket, phase, mem, cron>>

-----------------------------------------------------------------------------
Start(u) ==
  \E s \in Shareable :
    \/ \E kind \in CreateKinds : BeginCreate(u, s, kind)
    \/ BeginAppend(u, s)
    \/ \E expected \in {None, current[s]} : BeginPage(u, s, expected)
    \/ \E base, expected \in {None, current[s]} : BeginSite(u, s, base, expected)

StartDelete(d) == \E s \in Shareable : BeginPrune(d, s) \/ BeginDelete(d, s)

\* What a request does on its own once it has begun.
Advance(u) ==
  \/ ReadSource(u) \/ ReservePage(u) \/ RefusePage(u) \/ PutPage(u) \/ PutPageFails(u)
  \/ \E p \in Path : AddFile(u, p)
  \/ AbortSite(u) \/ ReserveSite(u)
  \/ Commits(u) \/ CommitRefused(u) \/ CommitReplyLost(u)
  \/ UndoObjects(u) \/ UndoQuota(u)

Clean(j) == PruneSelect(j) \/ PruneBatch(j) \/ CleanCheck(j) \/ CleanDelete(j)

QuotaCron  == QuotaSelect \/ QuotaUpdate
OrphanCron == OrphanRead \/ OrphanList \/ \E gone \in SUBSET orphanScan.keys : OrphanDelete(gone)
VerifyCron == VerifyRead \/ VerifyList \/ VerifyRecheck

Next ==
  \/ \E u \in Upload : Start(u) \/ Advance(u)
  \/ \E d \in Deleter : StartDelete(d) \/ DeleteBatch(d)
  \/ \E j \in Job : Clean(j) \/ Crash(j)
  \/ QuotaCron \/ OrphanCron \/ VerifyCron
  \/ Tick

Spec == Init /\ [][Next]_vars

-----------------------------------------------------------------------------
(* Properties. *)

\* Requests that hold a reservation: reserved and neither published nor given
\* back.
Holding(u)  == phase[u] \in {"reserved", "stored"} \/ (phase[u] = "undo" /\ "quota" \in mem[u].todo)
Reserved    == UNION {Claim(u) : u \in {w \in Upload : Holding(w)}}

Phases == {"idle", "reading", "begun", "reserved", "stored", "undo", "pruning", "picked",
           "deletable", "cleaning", "deleting", "done", "dead"}

Fields ==
  [kind : Kinds \cup {"none", "prune", "delete"}, target : Shareable \cup {None},
   base : Upload \cup {None}, expected : Upload \cup {None}, begun : Time, body : SUBSET Key,
   sent : SUBSET Path, todo : SUBSET {"object", "quota"}, keys : SUBSET Key, picked : SUBSET Upload]
\* A request of some kind has a target.
Memories == {m \in Fields : m.kind # "none" => m.target # None}
Scans  == [stage : {"off", "rows", "listed"}, keys : SUBSET Key, cutoff : Int]
Counts == [stage : {"off", "read"}, recorded : Nat, actual : Nat, cutoff : Int]
Entries == [id : Upload, op : {"create", "replace", "append", "edit"}]

\* Every variable keeps its type.
TypeOK ==
  /\ current \in [Shareable -> Upload \cup {None}]
  /\ site \in SUBSET Shareable
  /\ log \in [Shareable -> Seq(Entries)]
  /\ published \in SUBSET Upload
  /\ files \in [Upload -> SUBSET Key]
  /\ content \in [Upload -> SUBSET Key]
  /\ used \in Nat /\ usedAt \in Time
  /\ Objects \in SUBSET Key /\ bucket \in [Objects -> Time]
  /\ phase \in [Job -> Phases]
  /\ mem \in [Job -> Memories]
  /\ quotaScan \in Counts /\ orphanScan \in Scans /\ verifyScan \in Scans
  /\ alarm \in BOOLEAN
  /\ now \in Time

\* A published version can be read: no deletion, compensation or orphan
\* collection removes an object some row references.
NoDangling == \A v \in published : files[v] \subseteq Objects

\* An artifact's current version is one of its version rows: retention and
\* publication never race a reader out of the current version.
CurrentPublished ==
  \A s \in Shareable : current[s] # None => current[s] \in VersionsOf(s)

\* The storage counter covers every stored file some row references and every
\* reservation of a request still running: neither release, retention,
\* deletion nor the nightly correction ever takes it below.
NeverUndercounted == used >= Cardinality(Referenced \cup Reserved)

\* What is published never exceeds the quota.
WithinQuota == Cardinality(Referenced) <= Quota

\* As long as no request died, every path of success and failure has given
\* back exactly what it took: the counter is exact at every moment.
ExactUnlessCrashed ==
  (\A j \in Job : phase[j] # "dead") => used = Cardinality(Referenced \cup Reserved)

\* The storage counter can be trusted: every path of success and failure gives
\* back what it took, so it never lets more be published than the quota.
CounterSound == NeverUndercounted /\ ExactUnlessCrashed /\ WithinQuota

\* verifyR2References raises no false alarm, whatever is published, pruned or
\* deleted between its reads.
NoFalseAlarm == ~alarm

\* Publication as one step per version: the refinement mapping reads an
\* artifact's history off its version numbers.
History == INSTANCE ArtifactHistory WITH
  Artifact <- Shareable,
  Contribution <- Key,
  history <- [s \in Shareable |->
                [i \in DOMAIN log[s] |-> [op |-> log[s][i].op, body |-> content[log[s][i].id]]]],
  live <- {s \in Shareable : current[s] # None}

\* No update is lost: an append or a delta upload is made from the version it
\* replaces, however long ago it read it and whatever was published since.
NoLostUpdate == History!Spec

-----------------------------------------------------------------------------
(* Fairness: a request that has begun goes on or dies, time passes, the    *)
(* jobs run daily, and bucket.delete does not fail for ever.               *)

Fairness ==
  /\ \A j \in Job : WF_vars(Clean(j) \/ Crash(j))
  /\ \A u \in Upload : WF_vars(Advance(u) \/ Crash(u))
  /\ \A d \in Deleter : WF_vars(DeleteBatch(d) \/ Crash(d))
  /\ WF_vars(Tick)
  /\ WF_vars(QuotaCron)
  /\ WF_vars(OrphanRead) /\ WF_vars(OrphanList) /\ SF_vars(OrphanDelete(orphanScan.keys))
  /\ WF_vars(VerifyCron)

FairSpec == Spec /\ Fairness

\* Whatever died half-way, the bucket ends up holding what the rows reference.
OrphansCollected == <>[](Objects = Referenced)

\* Whatever died half-way, the counter ends up at what is stored.
CounterRepaired == <>[](used = Cardinality(Referenced))

\* When D1 applies a batch whose reply is lost, the compensation may delete
\* what was published; a loss that stays is reported, not silent.
NoSilentLoss == ~NoDangling ~> (alarm \/ NoDangling)
=============================================================================
