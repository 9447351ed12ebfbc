# Verification of artifactshare

Artifactshare publishes artifacts - HTML pages and static sites, mostly written
by agents - from a CLI, an HTTP API and an MCP server, and serves them to the
members of a workspace. It runs on Cloudflare Workers with D1 (SQLite) for rows,
R2 for objects and Durable Objects for live rooms. This directory holds TLA+
models of the parts of it in which several requests, jobs or processes meet, the
TLC configurations that check them, and proofs that TLAPS checks.

Paths below are relative to `src/apps/web/app/services/` unless they start with
`src/`.

1. [The system](#1-the-system)
2. [Storage of artifacts](#2-storage-of-artifacts)
3. [Credentials of the CLI](#3-credentials-of-the-cli)
4. [Live rooms](#4-live-rooms)
5. [Bridges](#5-bridges)
6. [Plans: contributors and billing](#6-plans-contributors-and-billing)
7. [People: roles and access requests](#7-people-roles-and-access-requests)
8. [Links: publication, moderation, review](#8-links-publication-moderation-review)
9. [Runs](#9-runs)
10. [Proofs](#10-proofs)
11. [What is not modelled](#11-what-is-not-modelled)

## 1. The system

Nothing in the system holds a lock across a request. A D1 batch is one
transaction, a D1 statement and an R2 call are atomic, and anything may run
between two of them. The code relies on guards inside the statements
(`WHERE current_version_id = ?`, `EXISTS (...)`), on the order of the steps, on
compensation when a later step fails, and on daily jobs that repair what a dead
request left. So the questions worth a model checker are: what may run between a
check and its use; what is left when a request stops half-way; what a repeated
or late request does.

| Component | State | Operations | How it interacts | What is hard | What makes it correct |
|---|---|---|---|---|---|
| **Artifact publication** (`shareables`, `modules/publish/operations`) | `shareables`, `versions`, `version_files`; R2 objects | create, new version, append, static site (full and delta), delete | reserves quota, writes R2, commits in one batch, then prunes | upload before commit, compensation of each failed step, a base read long before the commit | a published version can be read; no update is lost; what failed leaves nothing |
| **Storage accounting** (`physical-storage`, `reserveQuota`) | `workspaces.storage_used_bytes`, `storage_updated_at` | reserve, release, debit | every upload, prune and delete; the nightly correction | concurrent reservations, files shared by versions | never below what is stored and reserved; exact unless a request died |
| **Version retention** (`version-retention`, `retention-settings`) | `retain_versions`, `version_retention_tombstones` | preview, save, prune in batches | after every new version and every settings edit | selection and deletion are separate statements; keys are checked, then deleted | the current version survives; shared objects survive |
| **Reconciliation** (`reconcile`) | none of its own | correct counters, collect orphans, verify references | the cron of `src/apps/web/workers/app.ts` | rows and objects read at different times, uploads in flight | deletes nothing in use, repairs everything, no false alarm |
| **CLI refresh credentials** (`cli-refresh-credentials`) | `cli_refresh_credentials`, `cli_refresh_sessions`, `sessions`, `cli_family_authorities` | issue, rotate, replay, legacy refresh, revoke one, revoke all, cleanup | device login, bots, the CLI | refreshes of one credential at once; refreshes against revocations | a family never forks; ended is ended; one family per device |
| **CLI profile** (`src/packages/cli/src/command-runners`, `token-store.ts`) | one entry of the token store per profile | login, staged refresh, logout | calls the server; several stores | killed between the server's answer and the save | an interrupted refresh never locks the profile out |
| **Workspace bots** (`bot-members`) | bot users, their family | create, reissue, stop, cancel | issue and revoke credentials | stop against reissue in flight | a stopped bot has nothing that works |
| CLI device login (`cli-device-authority`, `cli-authority`) | `deviceCode`, `cli_session_authorities` | intents, approval contexts, bootstrap authorities, presets | the sign-in library, credentials | approval while the chosen project or client changes | a session gets the authority its approver chose |
| **Bridge publishing** (`bridge-publish-session`, `bridge-conversation-binding`) | `bridge_requests`, `bridge_conversations`, `bridge_operations`, the projects of conversations | execute an intent under an idempotency key and a lease; resolve, create, narrow and bind a destination | publication, project grants | a lease of 60 s that its holder may outlive; first shares of one channel at once | one intent publishes at most once; nothing private is shared wider |
| **Contributor slots** (`shareables`) | `workspace_members.contributed_at`, `pending_uploads` | reserve, release, finalize, clear stale ones | every publication by a person, removal of members | reservations that outlive their grace | contributors never exceed the limit |
| **Artifact live room** (`src/apps/web/workers/artifact-live-room.ts`) | WebSockets, admissions, presence, one alarm, budgets | admit, notify, presence, expire, alarm | view counts and version changes | state used after an await, alarm computed while its write is pending | caps hold, every obligation has an alarm, every place comes free |
| **Billing** (`billing-sync`, `billing-usage`) | the plan of a workspace, `billing_webhook_events` | start a checkout, sync a subscription, record usage | the webhooks of the payment provider | repeated, reordered and concurrent deliveries | the plan follows the subscription; each change is logged once |
| **Team management** (`team-management`) | `workspace_members`, roles | transfer ownership, remove, restore, grant and revoke admin | revokes sessions, moves assets | concurrent batches over the same member | an owner stays; each change is by somebody who may make it |
| **Access requests** (`access-requests`) | `access_requests`, `shareable_grants` | create, decide, list | notifications, placement of artifacts | the handler changes while it decides | decided once, by the handler of the moment |
| **Workspace placement** (`workspace-domain-claims`, `oauth-workspace-integration`) | `users.workspace_id`, domain claims, migration waits | claim, move a person, list blockers | sign-in | conditions read before the move | nobody lives in a workspace that removed them |
| Access decisions (`modules/access/facts.ts`, `access`, `agent-scope`) | none | who may read, write, share | everything | many combinations | agree with the sharing rules |
| **Link sharing, reports, suspension** (`link-*`) | links and their terms, the publication ledger, suspensions, gates of reviews | publish, shorten, report, review, pause, resume, appeal | a workflow, mail, alerts | requests at the daily limit, a changing policy, retried steps | the limit and the policy hold; what is recorded is what happened |
| Projects, pins, comments | containers, members, pins, threads | single guarded batches | publication, access | windows over changing rows | windows neither skip nor repeat |
| Events, notifications, Slack | `events`, `slack_notification_outbox` | emit, deliver | after commits | best effort | no delivery undoes a commit |
| Sign-in, sessions, API tokens, publisher clients | `sessions`, `accounts`, `api_tokens`, `publisher_clients` | library callbacks, guard predicates | everything | - | - |
| MCP, API routes, user interface | none | parse, authorize, call the services, render | - | - | - |
| Sandbox delivery (`src/apps/web/workers/sandbox.ts`) | `sandbox_token_uses` | serve objects under signed tokens | R2 | - | - |
| Backups, alerts, scripts | external | a linear workflow, filters, tooling | - | - | - |

Names in bold are modelled. `PROJECT.json` lists every component with its files and what is modelled of it,
and under `hazards` each place in the code that is hard to test, with the
properties that watch it.

## 2. Storage of artifacts

`ArtifactStorage.tla` models publication, accounting, retention and
reconciliation together, because their hazards are about each other. One
workspace on the Free plan; every file counts one unit.

| Variable | Code |
|---|---|
| `current` | `shareables.current_version_id`; `None` when the row does not exist |
| `site` | `shareables.artifact_kind = 'static_site'` |
| `published`, `log`, `files` | the `versions` rows, their numbers, and the keys in `version_files` or `versions.r2_key` |
| `content` | the body of a version, as the set of contributions it is made of |
| `used`, `usedAt` | `workspaces.storage_used_bytes`, `storage_updated_at` |
| `bucket` | R2: key to upload time |
| `phase`, `mem` | where a request stands and what its local variables hold |
| `quotaScan`, `orphanScan`, `verifyScan`, `alarm` | the daily jobs between their steps; `R2ReferenceMissingError` |

A request is a `Job`: an `Upload` publishes at most one version, a `Deleter`
deletes an artifact or saves retention settings. Each goes through `phase`, one
step per D1 batch or R2 call:

    idle -> [reading ->] begun -> reserved -> stored -> pruning <-> picked
                           |         |          |          |
                           +---------+----------+-> undo   +-> cleaning -> deleting -> done

* `BeginCreate`, `BeginPage`, `BeginAppend`, `BeginSite`: what the request reads
  and decides first, in particular the version it *expects* to replace. An owner
  may publish without expectation; an append and a delta upload expect the
  version they read.
* `ReservePage` then `PutPage` (page), or `AddFile`... then `ReserveSite`
  (site): a page reserves before it stores, a site stores before it reserves.
* `Commit*`: the publishing batch, all or nothing, with the guard
  (`Current`, `IdFree`) evaluated at the commit. A delta upload copies the rows
  of its base *inside* the batch.
* `CommitRefused`, `PutPageFails`, `AbortSite`, then `UndoObjects` and
  `UndoQuota`: compensation. A version of a site releases the quota after the
  objects, a new artifact and a page release both side by side. `bucket.delete`
  may fail for any subset of the keys and the failure is swallowed.
* `CommitReplyLost` (only with `LostReply`): D1 applied the batch and the request
  saw an error, so it compensates a version that is published.
* `PruneSelect`, `PruneBatch`, `CleanCheck`, `CleanDelete`: retention after a
  new version or a settings edit; select, delete what *still* qualifies, select
  again, and at the end delete the objects that no row references.
  `DeleteBatch` deletes an artifact and joins the cleanup.
* `Crash`: the isolate dies between two steps; nothing of the request runs again.
* `QuotaSelect`/`QuotaUpdate`, `OrphanRead`/`OrphanList`/`OrphanDelete`,
  `VerifyRead`/`VerifyList`/`VerifyRecheck`: the daily jobs, a step per read or
  write.
* `Tick`: time, under the environment assumption that a request does not run
  longer than `MaxRequest`. The graces (`QUOTA_GRACE_MS` one hour,
  `R2_GRACE_MS` one day) are sound only under such an assumption.

`ArtifactHistory.tla` is what publication promises when a request is one step: an
artifact is a sequence of versions, each made from the one before it.
`NoLostUpdate` says that `ArtifactStorage` implements it, under the mapping that
reads the history off the version numbers. It is what breaks when an append or a
delta upload commits over a version it has not read.

Two observations from building the model:

* `reserveQuota` stamps `storage_updated_at` with the time the *request* began.
  The nightly correction leaves a counter alone that was written within
  `QUOTA_GRACE_MS`. So the stamp can go
  back: while one request holds a reservation it made at time 1, another that
  began at time 0 writes the counter and stamps it 0, up to `MaxRequest` later.
  The grace must therefore cover `2 * MaxRequest` (`GraceAssumption`). With a
  grace equal to `MaxRequest` TLC finds `NeverUndercounted` violated. An hour is
  ample for requests of minutes.
* With `LostReply` the compensation of a batch that did commit deletes the
  objects of a published version. `NoDangling` is then false; what holds is
  `NoSilentLoss`: the reference check reports a loss that stays.

## 3. Credentials of the CLI

`CliCredentials.tla` models the server. A *family* is a chain of one-time refresh
credentials; at a refresh the credential is revoked, its successor and a session
are created, and the old row remembers the successor, the session and the
caller's rotation id for `ROTATION_RETRY_TTL_MS`, so that a caller whose answer
was lost can ask again.

| Variable | Code |
|---|---|
| `cred` | `cli_refresh_credentials`: revoked or not, owner, family, device, expiry, successor, `rotation_request_id`, `rotation_retry_until`, session |
| `status` | `cli_family_authorities.status` |
| `sess` | `sessions` with their link in `cli_refresh_sessions`; `login` marks a session from a device login |
| `stopped`, `reissuing` | `bot_stopped_at`; reissues that have read and not yet written |
| `call` | refresh calls between their read, their batch and their second read, with the one clock reading they use throughout |
| `ended`, `promised` | history: families some batch ended; sessions that existed at a "revoke all" |

`RefreshRead`, `Rotate`/`RotateNothing` and `ReplayRead` are the three steps of
`refreshCliSession`; the guards of the rotating UPDATE are evaluated when the
batch commits, against the clock the call read when it began. `LegacyRead` and
`LegacyInsert` are the older refresh without a rotation id. `Issue`,
`RevokeFamily`, `RevokeAll`, `CreateBot`, `ReissueRead`/`ReissueWrite`,
`StopBot` and `Cleanup` are one batch each. One reissue in flight per bot is
enough: its batch uses nothing that it read except that the bot was active.

`CliProfile.tla` EXTENDS it with the CLI's side: the entry of a profile in the
token store and the steps of `login`, of the refresh that a refused request
starts, and of `logout`. A refresh *stages* its rotation id in the store before
it sends it. `Interrupted` ends a command anywhere - killed, refused by the
store, out of luck with the network - while its call goes on at the server.
A lost request is a command interrupted in `send`, a lost answer one interrupted
in `wait`, a retry the next command.

`TokenStore.tla` models where the entries lie: the native store of the system
(`native`) and `tokens.json` (`file`, `torn` while it is truncated and not yet
written), which every change reads and writes whole. `Native` and `Posix` are the
platforms. A call is the body of `saveProfileCredential`,
`deleteProfileCredential` or a forced import, one step per call of the system.
Two processes in the file at once may lose an entry (`raced`), which the
properties exclude and the code accepts. A save that falls back to plaintext
because the native store refused it leaves the older native entry in front of it.

`WindowsCredential.tla` models the PowerShell scripts that keep a credential in
Credential Manager: a manifest (`target`) that names `chunks`, of which a new set
is written under a version of its own before the manifest is switched.
`CredentialEntry.tla` is the promise of one entry, and the scripts of one process
implement it (`Entry`), wherever a call fails or a script is killed; that is why
a call of the native store counts as one step in `TokenStore`. A removal that is
killed may leave the entry.

The run `revoke_all` shows a disagreement: `unlinkedCliSessionIds` says that a
revocation of everything removes unlinked CLI sessions user-wide
(`cli-refresh-credentials.server.ts:1360`), but the statement that deletes them
is conditioned on the user having an active family (`:1344`). A device login
that was approved and has not been issued a refresh credential yet survives.

One hazard of the profile is known and not covered by a property: with two
processes of one profile, the one that read the entry first may stage over the
entry that the other has saved, which puts the consumed credential back (TLC
finds `NotLockedOut` violated with two processes; nothing in the repository
promises otherwise).

## 4. Live rooms

`LiveRoom.tla` models the Durable Object of one artifact
(`src/apps/web/workers/artifact-live-room.ts`). An action is one synchronous turn
of the object. What interleaves at its awaits: admissions (`Arrive`, the answer of
the budget with `Refuse`, `ChargeFails` or `Accept`, the steps of `Continue`), the
queue of alarm updates (`updates`, with `ReadAlarm`, `PutSchedule`, `Update`), notices (`Notify`),
closing and failing sockets, the alarm (`Fire`, with `Sweep` and `Publish`),
hibernation and restart (`Construct` rebuilds the memory from the retained
sockets and the stored schedule).

`room` is the memory of the object, `sock` the attachments of its sockets,
`saved` and `alarm` what storage holds, `step` and `phase` where an update and an
admission stand. `room.users` lists the users who are here and `room.tabs` the
eligible connections of each, in the order of the code's maps; the first tab speaks
for its user. Loops over a set of records are folds in a fixed order.
Timers count what is left, so a run needs no absolute clock.
`MaxFaults` storage writes, sends and acceptances fail. With one failure a record
never stays without an alarm; two failed storage calls in a row may leave one
until the next event. Presence is promised as long as no update of the alarm
fails: a message that went out and was not recorded may be forgotten when the object
hibernates (section 10).

## 5. Bridges

`BridgeRequests.tla` models one idempotency key at a time: `row` is
`bridge_requests` with its lease generation, `call` the HTTP calls between their
queries, `artifact`, `version`, `ops`, `objects` what they make. A call acquires
the row (`AcquireRead`, `AcquireWrite`, `AcquireReread`), stages its object,
commits in one batch that demands that its lease still stands, and after a failed
or unheard commit cleans up, reads again, compensates and releases. A retry takes
a lease over once it has run out; `effect` and `told` record what was done for a
key and what its callers were told. `BridgePromise.tla` is the promise: the work
of a key is done at most once, and whoever is told of success is told of that one
result; `AtMostOnce` is the refinement.

Known limits of the code that the properties leave out: a version whose commit
was applied but whose reply was lost has its object deleted while it is current;
a publication that failed and was superseded before its cleanup is not undone; a
retry after the holder failed may be refused as a mismatch; a failing cleanup is
not modelled.

`BridgeConversations.tla` models how a call finds its destination: `ids` and
`ceiling` are `bridge_conversations`, `project` the projects made for them,
`request` the binding of a request. Calls resolve, create a project and a mapping
(two batches, undone by `Unmap` and `WithoutEmpty`), narrow a project when the
channel is private, attach an alias, bind and commit. A ceiling that was private
stays private; privacy may become stricter than needed when a reply is lost.

## 6. Plans: contributors and billing

`ContributorSlots.tla` models the contributor guardrail of
`modules/publish/operations` and `shareables`: `member` is the `workspace_members`
row with `contributed_at` and `pending_uploads`, `upload` an upload between its
statements. Nothing ties a reservation to its upload; the reservations of a row
lapse together after `Grace`. An upload slower than that may finalize without a
slot: `lapsed` is the history of the people it happened to, and the limit is
stated for the others. `Full`, that nobody is refused while fewer slots than the
limit are in use, holds for uploads shorter than the grace. A publication by a
person removed meanwhile is refused at the commit.

`BillingSync.tla` models `billing-sync`: `event` is `billing_webhook_events`,
`op` the deliveries between their awaits, `row` the plan of the workspace, `sub`
the subscriptions at the provider, which go on changing while a delivery holds
what it fetched. Any number of deliveries may run at once, each repeated and
processed more than once; the audit log has its plan change once. Nothing in the
code keeps deliveries apart or tells an older answer from a newer one
(`billing-sync.server.ts:126-258`), and two things follow, which the model shows
and the properties name as the only ones of their kind:

* `late`: the row was written from an answer older than one that a delivery had
  acted on before. It stays wrong until the next event of that subscription.
  `QuietMeansCurrent` says that once every event is processed the row is right
  unless it was last written so. `newest` and `at` are histories for this.
* `ReadBefore`: a delivery writes that had read the workspace when it had another
  subscription, or none. It may end the plan of the subscription that came in
  between, and takes its own contract for the first and resets the controls the
  owner chose. `EndsWithItsSubscription` and `ControlsStay` except only its step.

With one delivery at a time (`serial`) neither happens, which the run also checks.
`OnePlan` keeps the case `two` small: no plan is `team` and no payment late.
An event that fails on every try, as one with an unknown price does, stays
unprocessed; such events are not in the model.

## 7. People: roles and access requests

`WorkspaceRoles.tla` models the operations of `team-management` and of the
placement at sign-in on the members of one workspace: `role` and `status` are
`workspace_members`, `home` is `users.workspace_id`, `version` the OAuth token
version, `audit` the audit row the last step wrote. Each operation is authorized
and read in one step and committed in another, whose guards (`Demotes`,
`Removable`, ...) are the WHERE clauses of the batch. `removals` numbers the
stints of a person, which is what `removed_at` tells apart in the code. A
workspace without an owner is repaired by the loader of the members page
(`Candidate`, with a fallback). An integration counts the owners when it is
planned and not in its batch, so it can leave a workspace ownerless: `OwnerKept`
excludes its step. A sign-in that races a removal can restore the membership.

`AccessRequests.tla` models who decides a request for access. The code says it
twice: `Resolved` is the walk over candidates before a request is stored or a
decision prepared, `Handler` the SQL expression inside every write. `world` is
the artifact, its project and the people. A request whose handler disappears may
reach nobody until the next change. Whoever created a project is or was a member
(`CreatorsJoined`): an integration takes nobody away who has projects.

## 8. Links: publication, moderation, review

`LinkPublication.tla` models the limit on new public links and their terms:
`file` carries the link, its expiry and the ledger of publications, a request
reads the file, then policy and ledger, and commits in a batch whose triggers
decide again (`Exceeds`, `Shortened`). Requests end within the tick in which they
began. Moves between projects and grants in the same batches are left out.

A change of the policy is two steps as well, `Draft` and `SetPolicy`, between any
steps of the requests and of another change. No batch checks the policy or the
expiry again, so a link may outlast the policy's maximum. `LinksWithinMax` says
that this happens in three ways and no other; `overtaken` is the history of the
links they left, until their next write or the next lower maximum:

* an expiry was read or granted (`link-sharing.server.ts:62`) before a maximum was
  lowered, and written after it (`shareables.server.ts:869`);
* a rename had read its file as not shared (`shareables.server.ts:1246`), and
  writes no expiry over the one that a publication gave it meanwhile;
* a change wrote back a maximum that it had read before another change
  (`link-sharing.server.ts:500`, `:594`): it shortens only what is above *its* idea
  of a lower maximum (`:575`), so links stay above what another one had set.

The guide (`app/guides/link-sharing.en.md:16`, `:32`) promises the maximum for the
end date a person can select and for existing links when it is lowered; it says
nothing of these races. TLC finds a violation when any one of the three is struck
from `overtaken`.

`LinkModeration.tla` models `link-suspension`: `paused`, the append-only `log`
of pauses and resumptions, `op` the operators between the write and the notices,
`appeal` the owner's appeals. Who is to be told is read at the time of the
notice; when people, the artifact or the address changed since (`since`), nobody
may be told. A delayed "paused" may arrive after a "resumed"; no property orders
the notices, and `OwnerIsTold` assumes that no step of a request fails for good.

`LinkJudgment.tla` models the review of a link by a workflow whose steps may run
again: `gate` is the row that admits one review per cooldown, `flow` the
workflow, `recorded` and `announced` what it did. An idle review shortens the
gate that it took itself, never a newer one. A workflow that fails for good keeps
its gate until the cooldown ends.

## 9. Runs

An MC module joins several small instances of one or more modules: its frozen
variable `of` selects the case, each case with its own bounds, and a property
speaks of the cases it is about. Symmetry is used where no liveness is checked.
Deadlock is not checked: every instance is finite (ids, clock) and may
legitimately come to rest.

| Run | Cases | Shows | Bounds, and why they are enough |
|---|---|---|---|
| `storage` | `publish`, `orphans`, `audit`, `counter` | `TypeOK`, `NoDangling`, `CurrentPublished`, `CounterSound`, `NoFalseAlarm`, `NoLostUpdate` | Three uploads are the least for "read, replaced by another, pruned by a third"; `Retain = 1` prunes at once; two paths so that versions share one object and not the other; the quota is reached; graces of 2 over requests of 1, so that each job meets requests before, in and after its grace |
| `repair` | `repair`, `lost` | `Repaired`, `LossReported` under fairness | One crash; the clock runs on past both graces after the last request, as real time does. In `lost` a version of a site is built over another whose reply may be lost |
| `cli` | `devices`, `bots`, `profile` | `TypeOK`, `NoFork`, `EndedForGood`, `OneFamilyPerDevice`, `BotHoldsOneFamily`, `NotLockedOut`, `LogoutLeavesNothing` | Three credentials and sessions, two calls: two logins on a device with a refresh, one family rotated twice by concurrent calls, a bot reissued during a refresh; lifetimes of 1 and a clock to 2 expire everything between the steps of a call; the credentials of the profile live for 2, past the retry window |
| `revoke_all` | - | the violation of `RevokeAllEndsSessions` | The smallest instance with a login, a session and a revocation |
| `stores` | `file`, `keychain`, `manager`, `entry`, `scripts` | `AnswersAreTrue`, `KeepsThePromise` | Two processes, two accounts, two credentials; one refused call or one killed writer; credentials of one to three chunks and up to two faults and two kills |
| `room` | `pair`, `sends`, `tabs`, `users`, `room` | `CapsHold`, `ObligationsKept` | Two sockets of two users, of one user in two tabs, and at each cap of one; one storage call, send or acceptance fails, in `sends` and `tabs` none of the alarm's updates; `sends` has a longer admission, so that a message goes out and is lost before the first expiry |
| `bridge` | - | `NothingHalfDone`, `AtMostOnce` | Three calls over two keys, a lease of one tick, one lost reply: a holder, the retry that takes over, and one more |
| `conversations` | `private`, `races`, `lost`, `retry` | `Confidential`, `BindingStands` | Three calls from channels under two ids; two calls with a retry and a lost reply |
| `plan` | `slots`, `refusal`, `serial`, `races`, `two` | `WithinLimit`, `Covered`, `RemovedHoldsNothing`, `PlanFollows`, `FullOrEnded` | Three uploads of two people at a limit of one, slower and faster than the grace; three events one at a time, and two or three with two deliveries in flight: three are the least for an old answer that is overtaken by a newer one and by another subscription |
| `people` | `roles`, `members`, `placement`, `decisions`, `handlers` | `HomeIsActive`, `OwnerKept`, `ChangesAnswerable`, `DecidesWithAuthority` | Three people and two operations and the loader; `handlers` enumerates every workspace of three people, 150 000 states at rest, to compare the two statements of who decides |
| `links` | `limit`, `races`, `policy`, `moves`, `appeals`, `gates` | `WithinLimit`, `TermsKept`, `RecordIsHistory`, `GatesHold` | Two requests over three files and a limit of two; two requests with a change of the policy, and one with two changes, over two terms and none; two operators or two appeals; three reviews over five ticks with two faults |
| `progress` | `room`, `roles`, `billing`, `moderation` | `EveryPlaceReturned`, `OwnerReturns`, `EveryEventProcessed`, `OwnerIsTold` under fairness | Two actors each |

Every property has a mutant in `PROJECT.json`: an operator next to the one it
replaces (`CleanUnchecked` beside `CleanCheck`, `MayRotateAgain` beside
`MayRotate`...) that breaks the property.

**Fairness.** In `repair`, a request that has begun goes on or dies (weak
fairness of its steps *or* `Crash`): Workers run a handler to its end or kill it.
Time passes. The daily jobs run again and again, because the cron triggers them
whatever the last one did. The one strong fairness, on
`OrphanDelete(orphanScan.keys)`, says that `bucket.delete` does not fail for ever.
In `progress` each component has the fairness of its own module: in a live room
the runtime delivers a due alarm, resolves pending storage calls and closes
sockets; the members page is loaded again and again and every operation goes on;
the payment provider repeats a delivery until it is answered, so that it is
processed if it can be again and again (strong fairness); an operator's request
goes on. Nothing is assumed about when users begin requests.


## 10. Proofs

TLAPS checks these theorems for every value of the constants that the modules'
named assumptions allow. A proof module extends the module it is about; those of
the links, the plan and the roles also hold an instance each of `LinkModeration`
(`Pauses`), `LinkJudgment` (`Gates`), `BillingSync` (`Billing`) and
`AccessRequests` (`Requests`), whose constants and variables they declare. A theorem that states a property of a run holds on the
run's instances too; the run is the cheap check, the theorem the general one.

| Theorem | Module | Statement |
|---|---|---|
| `TypeCorrect` | `ArtifactStorageProofs` | `Spec => []TypeOK` |
| `NothingDangles` | `ArtifactStorageProofs` | `ASSUME LostReply = FALSE PROVE Spec => []NoDangling` |
| `NoAlarmIsFalse` | `ArtifactStorageProofs` | `ASSUME LostReply = FALSE PROVE Spec => []NoFalseAlarm` |
| `CounterIsSound` | `ArtifactStorageProofs` | `ASSUME LostReply = FALSE PROVE Spec => []CounterSound` |
| `CurrentStays` | `ArtifactStorageProofs` | `Spec => []CurrentPublished` |
| `NoUpdateLost` | `ArtifactStorageProofs` | `Spec => NoLostUpdate`, which is `History!Spec` |
| `TypeCorrect` | `CliCredentialsProofs` | `Spec => []TypeOK` |
| `FamiliesNeverFork` | `CliCredentialsProofs` | `Spec => []NoFork` |
| `EndedStaysEnded` | `CliCredentialsProofs` | `Spec => []EndedForGood` |
| `DeviceHoldsOne` | `CliCredentialsProofs` | `Spec => []OneFamilyPerDevice` |
| `BotHoldsOne` | `CliCredentialsProofs` | `Spec => []BotHoldsOneFamily` |
| `NeverLockedOut` | `CliCredentialsProofs` | `ASSUME OneProcess PROVE ProfileSpec => []NotLockedOut` |
| `NothingAfterLogout` | `CliCredentialsProofs` | `ASSUME OneProcess PROVE ProfileSpec => LogoutLeavesNothing` |
| `NothingIsHalfDone` | `BridgeRequestsProofs` | `Spec => []NothingHalfDone` |
| `PromiseKept` | `BridgeRequestsProofs` | `Spec => AtMostOnce`, which is `Promise!Spec` |
| `SlotTypes`, `GuardrailHolds`, `ReservationsKept`, `NothingLeftOnRemoval` | `ContributorSlotsProofs` | `Spec => []TypeOK`, `[]WithinLimit`, `[]Covered`, `[]RemovedHoldsNothing` |
| `NobodyIsStuck` | `WorkspaceRolesProofs` | `Spec => []HomeIsActive` |
| `OwnerStays` | `WorkspaceRolesProofs` | `Spec => OwnerKept` |
| `EveryChangeAnswerable` | `WorkspaceRolesProofs` | `Spec => ChangesAnswerable` |
| `LimitHolds` | `LinkPublicationProofs` | `Spec => []WithinLimit` |
| `RetriesSuffice` | `LinkPublicationProofs` | `Spec => [][RetryIsEnough]_vars` |
| `TermsHold` | `LinkPublicationProofs` | `Spec => []LinksWithinMax` |
| `HandlersAgree` | `WorkspaceRolesProofs` | `Requests!Spec => []SameHandler` |
| `DecisionsAreRight` | `WorkspaceRolesProofs` | `Requests!Spec => [][RightlyDecided]_vars` |
| `HistoryIsRecorded`, `ReasonStaysPrivate`, `AppealsAreSpaced` | `LinkPublicationProofs` | `Pauses!Spec => []RecordIsHistory`, `[]ReasonIsForTheOwner`, `[]AppealsSpaced` |
| `ReviewedOnce`, `VerdictIsOne`, `IdleGivesBack` | `LinkPublicationProofs` | `Gates!Spec => []OncePerCooldown`, `[]OneVerdict`, `[]GateGivenBack` |
| `GateStands` | `LinkPublicationProofs` | `Gates!Spec => [][NewerGateStands]_vars` |
| `LogIsExact`, `OneIsBilled` | `ContributorSlotsProofs` | `Billing!Spec => []LoggedOnce`, `[]OneCustomer` |
| `PlanIsCurrent` | `ContributorSlotsProofs` | `Billing!Spec => []QuietMeansCurrent` |
| `PlanOutlivesOthers` | `ContributorSlotsProofs` | `Billing!Spec => [][EndsWithItsSubscription]_vars` |
| `ConversationsAreConfidential` | `BridgeConversationsProofs` | `Spec => []Confidential` |
| `RequestsStayBound` | `BridgeConversationsProofs` | `Spec => BindingStands` |
| `TypesAreKept`, `CapsAreKept`, `EveryRecordIsSwept`, `AlarmIsSet` | `LiveRoomProofs` | `Spec => []TypeOK`, `[]WithinCaps`, `[]NothingHalfClosed`, `[]AlarmCoversObligations` |
| `PresenceIsSeen` | `LiveRoomProofs` | `Spec /\ [][~UpdateFails]_vars => []EveryoneSeesPresence` |

**Storage.** The theorems of `ArtifactStorageProofs` hold for any finite number of
uploads, deleters and paths, any number of artifacts, any quota and retention and
any bounds on clock and crashes, under `StorageAssumption` (the types of the
constants) and `GraceAssumption`: requests are shorter than the object grace, and
twice a request is no longer than the grace of the counter.

`NoDangling` is not inductive; it says nothing about the keys a cleanup, a
compensation or the orphan collection has decided to delete and has not deleted
yet. `SafeInv` adds what makes those decisions stay right:

* `OnlyPublishedHasFiles`, `FreshUnnamed`: an upload that has not published is
  *fresh*, and no row, cleanup or scan names its keys. So a compensation deletes
  only what nobody else knows.
* `StagedPresent`: what a request is about to publish is in the bucket.
* `CleanedUnreferenced`, `ScanListed`: keys found unreferenced stay so until
  they are deleted. A batch makes only two sorts of keys referenced: its own,
  which are fresh, and those of its base, copied inside the batch from rows
  that reference them at that moment. A copy made before the batch would not do.
* `WithinRequest`, `StagedYoung`, `ScanOlder`, `ScanRows`: why the orphan
  collection may list the bucket after it read the rows. What is published
  meanwhile is young: its objects are no older than its request, a request is
  shorter than the grace, and so they are younger than the cutoff.

The proof is not one large case split: `JobStepSafe` proves once that a step of
one job keeps `SafeInv` if it satisfies six small step conditions (`Alone`,
`Proceeds`, `RowsStep`, `KeysStep`, `BucketStep`, `StagedStep`), and each
action is shown to satisfy those. The jobs of the cron and `Tick` are treated on
their own. `TypeOK` is a conjunct of `SafeInv` and is taken from the first
theorem's lemmas. Without `LostReply = FALSE` the theorem is false, as the case
`lost` of `repair` shows: there only the report of a loss is promised.

`NoAlarmIsFalse` adds `MissingIsGone` to it: what the check of the references has
read belongs to no fresh upload, and what it misses after it listed the bucket is
referenced no more. It stays so, because only keys of fresh uploads become
referenced (`OnlyFreshAppear`) and no upload becomes fresh twice (`FreshOnce`).

**The counter.** `CounterIsSound` compares `used` with the number of keys in
`Charged`, what is referenced and what running uploads have reserved. `CountInv`
adds to `SafeInv`:

* `Sound`: `used` is within the quota, at least the number of charged keys, and
  exactly that while no request died. A reservation adds the keys of its upload,
  which nobody else has; a commit turns exactly these into referenced ones
  (`CommitCharges`; what a version inherits was referenced already); giving back,
  pruning and deleting remove exactly what they subtract, so the debit's floor
  at zero is never hit. A crash only forgets keys.
* `StampRecent`, `ScanExact`: why the nightly correction may write a number that
  it read earlier and that leaves reservations out. The stamp of the counter is at
  most one request older than any reservation, and a reservation at most one
  request old; so a counter older than the grace has no reservation (`OldIsFree`),
  and every step that changes what is charged after the read stamps it anew, so
  that the guard of the UPDATE fails. This is where twice a request is needed: with
  a shorter grace the theorem is false (section 2).
* `ReservedIsPage`, `FreshUnpublished`: what a compensation gives back is what its
  upload reserved, and an upload publishes once.

`JobCounts` treats once a step of one job, which either leaves the stamp alone and
reserves nothing new or stamps the counter now; `CountUp`, `CountDown`, `CountSame`
and `CountDead` are the four things that can happen to the sum.

**History.** `CurrentStays` and `NoUpdateLost` need neither the graces nor
`LostReply = FALSE`. `HistoryInv` says that the current version is the last one
published and its row is there (`CurrentLast`), that an upload which may still
publish is in no history and in no body, and every version in one history only
(`LoggedOnce`, `BodiesPublished`), and that what a request under way remembers of
its base is what that version says, with the base being the version it expects
(`Made`). A published body never changes, so a body read long ago is still that
of the base; the guard of the batch makes the base the version that is replaced.
Every step is then a step of `ArtifactHistory` or leaves all histories alone.

**Credentials.** The first five theorems hold for any accounts, devices, numbers of
credentials, sessions and concurrent calls and any lifetimes, under
`CredentialAssumption` (the types of the constants; users and bots are
different). The four safety properties share one inductive strengthening,
`FamilyInv`, because each of them needs the others' facts about rows:

* `CredentialsRooted`, `SessionsRooted`, `FreeRowsBlank`: a family's root row is
  never deleted and gives every row of the family its owner. A free row id is
  therefore a family nobody has, so a batch that opens a family ends nothing and
  forks nothing (`FreeIsNew`, `OpensFamily`).
* `EndedDead`: `EndedForGood` only says that an ended family has no credential
  that *works*. `stopWorkspaceBot` leaves expired credentials unrevoked, and a
  refresh in flight compares the expiry with the clock it read when it began. It
  is not the expiry that stops it but the family's status, so the invariant says
  that an unrevoked credential of an ended family is expired *and* its family has
  no authority.
* `OneHeld`, `OneActive`: the cardinalities restated without Cardinality.

The steps fall into two kinds. `ShrinkingStep` treats once every step that
issues nothing (revocations, stop, cleanup, reads, time): rows keep their names
and only end. `SessionJoins` and `OpensFamily` treat the steps that add a
session or a family.

**Profile.** `OneProcess` says that a profile has at most one process at a time;
with two both theorems are false (section 3). Any number of commands, interrupted
anywhere, and of calls that run on at the server. `ProfileInv` adds to
`FamilyInv`:

* `StoreInv`: every call in flight that carries the stored credential carries the
  stored rotation id, and none carries its successor. So whichever of them
  rotates the credential, the stored id gets the answer (`Consumed`), until the
  window is over or the family is ended. This is where staging the id before
  sending it is needed: without a staged id no call is in flight.
* `ServerInv`: tokens in flight were issued, so a successor is nobody's yet.
* `PlaceInv`: what the process holds at each place between two steps; a
  credential that is not saved yet is unrevoked or of an ended family
  (`Unsaved`), and a process about to forget has ended the family (`Dead`).

`Settles` and `Quiet` say what a step of the server leaves of the rows a profile
depends on. Every step satisfies `Settles` for the rows it does not rotate;
rotation, issue and a new call are treated on their own. The steps of the process
are one lemma each.

**Bridge requests.** Any calls, request ids, lease, clock and number of lost
replies, under `LeaseAssumption`. `BridgeInv` says of everything that exists
whose it is:

* `Recorded`: the results on record for a request id are exactly what its
  completed row carries. A batch is guarded by the lease, so the row is not
  completed and nothing was recorded before: the refinement of `BridgePromise`
  maps the batch to `Perform` and each answer "ok" to `Tell`.
* `RowsOK`: a leased row names the call that took it, and that call is at a step
  from which it will still release or complete it. A call whose lease was taken
  over is named by no row, so it can do nothing but fail.
* `Origin`: a version, an artifact or a lost reply belongs to a call that
  completed its request. A call that holds a lease therefore owns nothing yet, and
  it commits at most once however often a publication tries again.
* `Linked`: an artifact whose current version is its first has no other version.
  That is why `cleanupFailedShareable` may delete the artifact: it takes no
  version of anybody else with it, and leaves no object behind.
* `Content`: at which steps a call's object may lie in the bucket without a
  version, and that a version without its object is one whose commit was not
  heard of.

`MoveInv`, `LeaseInv`, `CommittedInv` and `GoneInv` treat the four kinds of
steps - a call walks on and touches only its own object, takes or frees its row,
commits, something disappears - and every action is an instance of one.

**Contributor slots.** Any people, uploads, guardrail and faults. `SlotInv` adds
to the three properties that only a running upload of a person holds a slot
(`HeldWhileRunning`) and that a person who comes to a commit without one has
lapsed (`BypassLapses`). `WithinLimit` is
about cardinalities: a reservation adds one contributor to a set that was below
the limit at that same statement, a finalized one changes why a person counts and
not whether, and removals and lapses take away.

**Roles.** Any people, calls and bounds, under `RolesAssumption`. `RolesInv`
adds to `HomeIsActive`:

* `SingleOwner`: the unique index, kept by each batch because the guard that
  promotes looks at the row it demotes (`Demotes`).
* `NoRowNoRole`, `OthersOnly`: who an owner's operation can be about.
* `StintSeen`: while the target of a removal lives in the workspace with the token
  version that the removal read, it is in the stint that the removal saw.

`OwnerKept` and `ChangesAnswerable` are action properties and follow step by step
from it. The attempt to prove `ChangesAnswerable` for any number of operations
changed it: the token version is what a removal compares, and two late sign-ins
can bring back a person whose home is *another* workspace without changing it, so
for such a person a removal may strike a later stint than it read. With the two
operations of the run this does not happen, with three it does. The comment in
`team-management.server.ts:1281` speaks of a member of this workspace, and so does
`RemovesWhatWasSeen` now.

**Links.** Any files, requests, limit, window and terms, under
`PublicationAssumption`. `LimitInv` adds that the ledger, which keeps only the
*latest* publication of a file, still covers every publication that counts
(`LedgerRemembers`); that every request in flight began in this tick
(`Requested`), so that the cutoff a batch counts from is the current one; and
that nothing lies ahead of the clock (`Past`). In a window that ends now, a
commit adds one file to a set that the ledger covers and that is below the limit;
a window that ended earlier no longer changes; the next window has lost files and
won none. `RetriesSuffice` needs that the `Limit` latest rows of a full ledger
have a least element, and that fewer than `Limit` rows are later than that one.

`TermsHold` is about any number of requests and of changes of the policy.
`TermsInv` adds to `LinksWithinMax` what a request in flight may still write
(`Ends`): the expiry it holds is within the maximum as long as it has seen every
change of the policy, which `seen` counts; and that a change which no other has
overtaken has read the maximum there is (`DraftsCurrent`), so that what it takes
for lowering is lowering.

**Access requests.** Any people, projects, handlers and changes, under
`RequestsAssumption` and `WorldsAssumption`: the workspaces to start from are well
formed, and whoever created a project is or was a member. The code justifies the
second: an integration does not take away anybody who created a project
(`has_projects`, `workspace-domain-claims.server.ts:960`). It is needed: a creator
without a row who manages the project from outside would be named by the walk and
not by the expression. `SameHandler` itself speaks of workspaces whose managers
are outsiders.

The proof brings both statements to the same form, the first of five sets with
somebody in it (`First`): `WalkIsFirst` for the walk, `CoalesceIsFirst` for the
expression, whether it has two queries or four. `CapableNow` and `EditorsOf` turn
what a candidate may grant into conditions on the workspace. For a person's
artifact the sets are then equal one by one (`AgreeOnPersons`); for a bot's they
are equal only when no active creator comes first (`AgreeOnBots`).
`RightlyDecided` is proved step by step: the conditions of the batch name the
handler of now, and `Agree` makes that the person of the walk; `Deciding` knows
that an approval gives something, and `InsertTakes` that a new request overwrites
no decided one.

**Moderation.** Any people, operators, appeals and bounds, under
`ModerationAssumption`. `ModerationInv` adds what a request knows at each step
(`Known`): a notice under way is about a recorded move, at the address of its
record. `OwnedSince` says that whoever owns the artifact now is among its owners
since every move. Therefore the second look at the recipient, after the batch, is
enough: who owned the artifact then may read the reason even if they lose it before
the email is sent. A move is recorded only where the flag changes, so the parity of
the record is the flag.

**Reviews.** Any number of reviews, kinds of gates, cooldowns of at least one tick,
faults and edits, under `JudgmentAssumption`. A gate is a row with the time at
which it opens, and everything a review does to it later is conditioned on that
time. `JudgmentInv` therefore says what the times tell:

* `Asking`: two requests of one kind have read the clock at different times.
  `Trigger` takes the gate only if it is open, and a gate taken now opens later
  than now; so the times at which two taken gates open differ.
* `HoldsGate`, `ComesFirst`: a review that goes on has its gate, in full, until
  the cooldown is over, and whoever asks later does so after it.
* `GateOf`: a gate that opens sooner than its taker's cooldown was given back, and
  then has no more than the grace left.

The attempt to prove the last of the four properties as it first stood, that a
gate not given back is never shortened, failed for a reason: what is *left* of a
gate that was given back can end in the very tick in which the gate of an older
request would have, so the older one then takes it for its own (a cooldown of
four, a grace of one). `NewerGateStands` now says that a gate held in full is
never shortened. The case does no harm: what is left is within the grace.

**Billing.** Any deliveries, checkouts, subscriptions, events and edits, under
`BillingAssumption`. `BillingInv` says that an event is logged at most once and
only once it is processed, which the batch makes one step, and that a checkout
which asks for its customer has the workspace's (`CustomersKept`). `AnswersInv`
speaks of answers by their age, the number of events there were when they were
given, since deliveries are not kept apart:

* `Newest`: a processed event is no younger than the newest answer on its
  subscription that was acted on, written or ignored.
* `Answered`: an answer is what the subscription is now, unless an event of it is
  younger; and a subscription that was told to have ended has ended, for good.
* `EndsOwn`: the end of a subscription is about to be written only where the
  workspace was read with that one, or none.
* `RowCurrent`: the row is what its subscription is, unless it was written late or
  an event is younger than the newest answer acted on. A paid plan has a
  subscription.

When every event is processed, none is younger than the newest answer, which is
`PlanIsCurrent`.

**Bridge conversations.** Any calls, ids, limit, repetitions and lost replies,
under `BoundAssumption`. `ConvInv` says of every step of a call what the call still
knows, although each step is a statement of its own and the conversations it found
may be mapped, narrowed, archived or undone meanwhile:

* `Mapped`, `Housed`, `Fresh`: what a row refers to is there, and what a call is to
  publish is not there before its commit.
* `Settled`, `BoundTo`, `Attaches`: if the ids of a request lead to a conversation,
  they lead to that one only, and so do all requests with the same ids. Ids only
  come to be mapped, as long as nothing is undone.
* `KeptPrivate`: a conversation that a call of a private channel found or made is
  private, and stays so.
* `UndoOnce`: only a call whose reply was lost undoes what it made; with one lost
  reply only one call does.

The attempt to prove `NoLeftoverProject` for any number of lost replies showed it
false, which TLC then confirmed with two: a call makes a project, its reply is
lost, and it takes its mapping away; before it removes the project, another call
commits into that project and loses its reply too. The first call keeps the
project, since it is not empty any more; the second removes its artifact and not
the project, which it did not make. `Confidential` now says it for one lost reply.
What a lost reply may undo is a mapping, so `ConversationNeverWidens`, `OneProject`
and `BindingStands` speak of executions without one.

**Live rooms.** Any connections, users, caps, deadlines, interval and faults, under
`TimeAssumption` (an authorization outlasts the presence interval) and
`RoomAssumption` (the types of the constants). The handlers are compositions of
a few operations on the object's memory, `Invalidate`, `Activate`, `Forget`,
`Expire`, `SendTo`. The first part of the proof says what each operation keeps,
the second composes them into the handlers. `IInv`:

* `Core`: the users listed are those with tabs, a tab is a connection that is
  recorded, in one place only; occupancy counts the records and reservations of a
  user; and `nextExpiry` is no later than any eligible connection's deadline.
* `Halved`, `Kept`, `Capped`: records are the eligible and those to clean up,
  every socket that the runtime retains has one, and nothing exceeds a cap. An
  admission counts before its first await and only becomes a record after it, so
  no number of them overtakes the cap.
* `Phased`, `Waiting`, `Running`: what the room may hold of a connection at each
  step of its fetch, and that a fetch waits for one update of the alarm at a time.

`AlarmInv` says for executions without a fault so far that the alarm covers what
memory owes when no update waits, and that while one runs the alarm is the one it
read, or has fired since and queued another update. `updateAlarm` computes the
alarm anew after its last await; covering with what was known before it would not do.

`PresenceInv` relates memory, storage and sockets: with no message due, what is
recorded as published is who is here, and every eligible connection whose setup is
over was shown it, unless what was published is unknown (`Informed`); and when no
update waits, storage says the same as memory (`Written`), so that an object built
again starts from it. The attempt to prove it without a hypothesis failed for a
reason, and TLC then found the case in 24 states: a message is sent, the write of
the schedule fails, and the object hibernates. The constructor restores the older
schedule; as the retained sockets may come back in another order, in which another
tab speaks for its user or users are listed differently, who is here can again be
what that schedule says was published. Nothing is sent then, although the viewers
were last shown the message in between. Hence `[][~UpdateFails]_vars`: presence is promised as long as
no update of the alarm fails. Lost sends, failed acceptances, failed charges and
restarts are all allowed.

**Only model-checked.** Liveness under fairness (`Repaired`, `LossReported`, the
four properties of `progress`) and anything with ENABLED is beyond the prover, as
are induction over data and RECURSIVE operators; no module uses the last two. Of
the safety properties, `Full`, `ControlsStay` and those of `TokenStore` and
`WindowsCredential` have no theorem: TLC checks them on the instances of section 9
only. `DecidesWithAuthority`, `RecordIsHistory`, `GatesHold`, `PlanFollows`,
`CapsHold` and `ObligationsKept` of the runs `people`, `links`, `plan` and `room`
join instances of `AccessRequests`, `LinkModeration`, `LinkJudgment`, `BillingSync`
and `LiveRoom`; the theorems state their parts.

## 11. What is not modelled

Within the modelled components:

* Publication: titles, grants, placement and publisher stamps, which share the
  batch but no state with what is modelled. The checks that refuse a request
  before it changed anything are one action, `RefusePage` or `AbortSite`. Quota on
  paid plans, which has no upper bound.
* Retention settings: the preview and its confirmation; the edit is `Deleter`'s.
* Reconciliation: orphaned preview images, and the caps on rows and keys per
  batch. The cap means that an orphan may wait for a later day; `FairSpec`
  already lets any collection fail.
* Credentials: families of publisher clients (they supersede only each other),
  the project an agent family is bound to, the token hashes. Rotation ids and
  tokens are ids, so collisions of random values are excluded. The approval of a
  device login and its presets.
* Bots: memberships, grants, the cancellation of an unused bot.
* Profile: several processes on one profile; `TokenStore` has two processes on
  the stores instead.
* Live rooms: what the messages say, and the HTTP handlers around the room.
* Links: grants and moves in the batch of a publication. The order of two notices.
* Billing: events that fail on every try (an unknown price), usage records.
* Membership: the audit rows speak of changes by people; the loader's promotion and
  the activation at sign-in write none.

Whole components, with reasons, are in `PROJECT.json` with status
`not_modelled`. Route handlers, rendering, schemas and scripts have no state of
their own; sign-in is mostly the configuration of a library.
