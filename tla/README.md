# Verification of SupportPilot

SupportPilot is a multi-tenant support application: a FastAPI service, a document
worker, PostgreSQL (with pgvector), an object store on a shared file system and a
React client. Members upload documents; workers parse, chunk and embed them;
searches are served from the active version of each document. This directory holds
TLA+ models of that system, TLC configurations that check them on small instances,
and proofs checked by TLAPS for every value of the constants. Paths below are
relative to the repository root.

Contents: [1 Inventory](#1-inventory-of-the-system) - [2 Modules](#2-modules-and-how-they-correspond-to-the-code) -
[3 Runs](#3-runs-bounds-and-what-they-show) - [4 Fairness](#4-fairness) -
[5 Proofs](#5-proofs) - [6 Findings](#6-where-the-code-and-its-documents-disagree) -
[7 Abstractions](#7-abstractions-and-what-is-not-modelled) - [8 Plan](#8-plan) -
[9 Running](#9-running-the-checks)

## 1 Inventory of the system

| Component (source) | State | Operations | What is hard | What makes it correct |
|---|---|---|---|---|
| **Job queue** (`packages/jobs/service.py`, `Job` in `database/models.py`) | one row per job: state, owner, lease expiry, available_at, attempt_count | claim a batch, mark processing, renew, complete, fail, retry by hand | several pollers, leases that run out while their holder still works, dead workers, counters and comparisons at a boundary | one holder per job; a stale holder changes nothing; counters agree with the state; nothing is forgotten |
| **Document worker** (`apps/worker/main.py`) | its batch, the job in hand, the list of objects to remove | begin, load, fetch, index, publish; list, remove, purge; record a failure; sweep | several transactions per job with minutes between them; every step may raise, also after it took effect; the process may die | only the holder publishes; status follows the job; a completed deletion leaves nothing |
| **Upload service and document routes** (`packages/documents/service.py`, `api/routes/documents.py`) | document, version and job rows; the request's own progress | replay by key, stage the file, quota, lock the document, move, insert, commit, clean up; delete; retry | concurrent uploads with one key, content or document; READ COMMITTED; an exception at each await; the store is not part of the transaction | an upload is all or nothing; one version per key; numbers without gaps; a failed request whose cleanup works leaves nothing |
| **Object store** (`packages/storage/local.py`) | files under staging and final keys | write, move, read, delete, sweep stale staging | shared by API and workers without a transaction | bytes stay while their document lives, unless their own upload takes them back |
| **Malware scanner** (`packages/storage/malware.py`) | none | scan | - | a refusal or exception of the upload |
| **Chunk repository, retrieval** (`packages/rag/repository.py`, `routes/retrieval.py`) | the chunks of each version | replace, delete, dense and lexical candidates, fusion | a search reads twice while versions are activated or deleted | a search shows what its workspace served; fusion is a rank order |
| **Parser** (`rag/parsing.py`) | the block collector; the open paragraph or element; the heading stack | parse Markdown, plain text, HTML, PDF | counting of nested and unclosed elements, columns, skipped heading levels | text is collected once, in order, under its headings (where elements are closed and levels not skipped) |
| **Chunker** (`rag/chunking.py`) | the chunk under construction | split, fit to the model's budget, pack with overlap | limits, overlap, sentence and word boundaries | tokens are covered but for those the sentence pattern skips; limits of the model, of size and of overlap |
| **Embedder, tokenizer, lexical scorer** (`rag/`) | none | wrappers of libraries, real-valued scores | - | - |
| **Refresh sessions** (`security/sessions.py`, `routes/auth.py`) | rows of a session family | issue, rotate, detect reuse, log out | rotation races reuse detection and logout on rows the UPDATE may not see; the answer is sent before the commit | one usable session per family; a dead family stays dead |
| **Workspaces and members** (`routes/workspaces.py`, `rbac.py`, `api/dependencies.py`) | memberships and roles | create, add, change role, remove | roles are read without locks and used later | a workspace keeps its one owner; nobody acts above the role he was admitted with |
| **Tenant context and row-level security** (`database/tenant.py`, `migrations/`) | session settings, policies, a trigger on the active version | set per transaction | declarative, evaluated by PostgreSQL | rows of other workspaces do not decide |
| **Models, database session, settings** | the rows above; one transaction per request | commit (after the answer was sent) or roll back | - | - |
| **Web client** (`apps/web/src/api.ts`, `auth.tsx`) | the access token and the shared refresh promise of each page; the cookie they share | sign in, refresh on 401 or on opening, sign out | answers that are lost or late, several pages with one cookie, a cookie that arrives before its access token, a refresh that completes after a logout | the refreshes of a page never replay an exchanged token; no refresh hangs |
| **API wiring, health, logging; web pages; scripts, containers** | none | - | - | - |

How they interact. The upload service moves a file to its final key and then commits
document, version and job together; deletion sets `deleted_at` and inserts the
deletion job in one transaction. Workers learn of work only by polling the job table
and answer only by changing rows; between their transactions they use the object
store and the embedder. The API and the workers share no memory: rows, row locks and
files are all they have. A search reads chunks joined with the document's active
version. The worker hands the bytes of a version to the parser, its blocks to the
chunker, and publishes the chunks. The pages of a browser present the cookie they
share to the session routes. `PROJECT.json` lists every component with its status and, under `hazards`,
the lines of the code where these interactions are hard to test.

## 2 Modules and how they correspond to the code

```
JobLifecycle  <--implements--  JobQueue  <--EXTENDS--  DocumentPipeline
UploadContract  <--implements--  Upload
RefreshSessions  <--EXTENDS--  BrowserSession
Parser, Chunker  <--EXTENDS--  Indexing
WorkspaceAccess
JobQueue_proofs, DocumentPipeline_proofs, Upload_proofs, Sessions_proofs,
WorkspaceAccess_proofs, Chunker_proofs, Parser_proofs, Indexing_proofs  theorems
MCJobQueue, MCDocumentPipeline, MCUpload, MCBrowserSession,
MCWorkspaceAccess, MCIndexing                                           instances for TLC
```

**`JobLifecycle`** is what the queue promises to everybody else, without leases,
clocks or counters: a job is held by at most one worker; only the holder completes,
postpones or parks it; a holder may lose it at any time; a finished job is never
given out again.

**`JobQueue`** is the job table. One action per function of `jobs/service.py`:
`Claim`, `MarkProcessing`, `RenewLease`, `MarkCompleted`, `MarkFailed` (with the
outcomes `Reschedule` and `GiveUp`), `RetryJob`; besides them `Enqueue` (the insert
of an upload or deletion), `Tick` (the clock) and `Crash`. Each function takes the
row lock first and commits or raises, so one action is one transaction. *Any* worker
may call *any* function on *any* job: what holds here does not depend on the worker
program. `lease` and `wait` are what is left until `lease_expires_at` and
`available_at`; NULL and "in the past" are values of their own. `trust[w][j]` is an
observer: how long worker `w`, counting from its last claim or renewal, may believe
it owns `j`. It is never read by an action.
`Claim` takes any set of at most `BatchSize` claimable rows, because `SKIP LOCKED`
may pass over any of them.

**`DocumentPipeline`** extends the queue with the document and version rows, the
chunk index, the object store and the worker program of `apps/worker/main.py`, with a
program counter per worker. The transactions of a job are separate actions, and
between them anything may happen:

| code | actions |
|---|---|
| `upload_document_version` (committed), `delete_document`, `retry_document_job` | `Upload`, `DeleteDocument`, `RetryDocumentJob` |
| its exception handlers, when it raises after the commit took effect | `Withdraw` (of the versions in `raised`) |
| `run` (claim), `begin_processing` | `Poll`, `Begin` (also when it raises) |
| `finish_document_job` | `Load`/`LoadRefused`, `Fetch`/`FetchMissing`, `Renew`, `Commit`/`CommitRefused` |
| `finish_delete_job` | `List`, `Remove` (one object at a time), `Purge`/`PurgeRefused` |
| any other exception, `fail_job`, a failing `fail_job` | `Fault`, `Fail`, `FailUnrecorded` |
| the process stops or dies | `WorkerCrash` |

`Commit` and `Purge` may be followed by `fail_job` although they took effect
(`Finished`): the acknowledgement was lost.

**`UploadContract`** is what an upload promises: version, number, key and bytes
appear in one step of a document that is not deleted (`Accept`), or not at all; bytes
go away only after their document was deleted. `DocumentPipeline`'s `Upload` is this
`Accept` seen from the worker's side, with the withdrawal of section 6 besides.

**`Upload`** is `upload_document_version` step by step, for several concurrent
requests. `pc[r]` names the place in the function:

| `pc[r]` | the request | steps out of it |
|---|---|---|
| `idle` | has not arrived | `Replay` (the key is known: the stored answer), `Open` |
| `writing` | streams into its staging file | `WriteChunk` (the file is fresh again), `WriteRefused`, `FileGone`, `OverQuota`, `Admit` |
| `admitted` | must find or create its document | `ReserveNew`, `Reserve` (waits for the row lock), `Duplicate`, `NotFound`, `StepFailed` |
| `reserved` | has its number, perhaps the lock | `Move`, `FileGone`, `StepFailed`, `MoveLate` |
| `moved` | has its file at the final key (`promoted_key`) | `Flush` (waits for colliding uncommitted rows), `IntegrityError`, `CommitFailed`, `RollbackFailed` |
| `flushed` | inserted, not committed | `Commit`, `CommitFailed`, `CommitUnconfirmed`, `RollbackFailed` |
| `committed` | sets the tenant context for its answer | `SetContext`, `ContextLost` |
| `unwind`, `withdraw` | runs the exception handlers, without and with a promoted file | `Unwind`, `Withdraw`, `CleanupFailed` |
| `aborting` | `session.rollback` raised: still holds its locks and rows while the outer handler runs | `Withdraw`, `CleanupFailed` |
| any of these | the process dies | `Die` |

Around it: `DeleteDocument`, `EraseObject` (the deletion job), and `Sweep`
(`delete_stale_staging`), which removes a staging file that is in `stale`: an hour old
(`Age`), whether its request has ended without removing it or is only slow. `row[r]` is the version row committed for `r`: a version
id is drawn per request, so versions and objects are named by their request. A row
lock is `lock[d]`; queries see `row` and `docs`, the committed state; `Unhindered`
is PostgreSQL's wait of an insert for an uncommitted row with the same unique key
(`job_idempotency`, `version_number`, `version content`).

**`RefreshSessions`** is the `refresh_sessions` table and the routes login, refresh
and logout. A request issues at most one session, so session, row and token are named
by their request. `row[s]` combines the columns: `pending` (inserted, not committed),
`live`, `rotated` (`used_at` and `revoked_at`), `revoked`. `pc[r]` is the place in the
handler and `held[r]` the row locks:

| code | actions |
|---|---|
| the route reads its cookie | `Arrive` |
| `issue_session` after a login or registration | `Login` |
| `rotate_session`: `FOR UPDATE`, then rotation or reuse | `Rotate`, `DetectReuse` (both wait for the lock in `LockPresented`) |
| the UPDATE of the family, its snapshot, its locks, its commit | `StartRevocation`, `LockNext` (one row at a time), `CommitRevocation` |
| the commit of `get_db_session`, after the answer | `CommitIssue`, `CommitLogout` |
| `revoke_session` | `Logout` |
| any refusal; a transaction that does not commit; PostgreSQL's choice of a deadlock victim | `Refuse`, `Abort`, `Deadlocked` |

Any request may carry any token at any time: what holds here does not depend on the
client.

**`BrowserSession`** adds the client, `api.ts` and `auth.tsx`, in several pages of one
browser: the cookie `jar` they share, and for each page `signedIn` (`currentAuth` is
set) and `promise` (`refreshPromise`). `StartRefresh`, `SignIn`, `SignOut` send a
request with the cookie of that moment. Answers come in any order. A success comes in two
steps: with its headers (`ReceiveHeaders`) the browser changes the cookie, with its body
(`ReceiveBody`) the page gets its access token; in between another answer may arrive. A
logout is answered without a body. `ReceiveError` is an error; `Disconnect` is a `fetch`
or a body that rejects whatever the service did; `Reload` abandons a page. An answer can be
received from the stage `issued` on, before the commit. `Publish` is `publishAuth` with the `finally` of the promise.

**`WorkspaceAccess`** is who may do what: memberships with their roles, the check every
route begins with (`Admit`: `get_current_principal`, `require_workspace_roles` and
what row-level security lets them see), `Create`, `AddMember`, `LoadTarget` followed by
`ChangeRole` or `RemoveMember`, `Erase` (`delete_document`), and a search with its two
statements (`DenseQuery`, `LexicalQuery`). A request reads without locks, so between
its steps other requests change what it has read (`acting`, `target`). A statement
names its row by id and acts on whatever that row is by then. `standing` and `shown`
are observers: the actor's membership when the request was admitted, and the versions
served since then. No action reads them.

**`Parser`** and **`Chunker`** are `rag/parsing.py` and `rag/chunking.py` on small texts.
A text is a sequence of tokens, which carry what the code tells apart: a terminator
before white space or inside a word, a token that costs the embedding model more than
one. `Supply` says what each item of a source can be; `SupplyAssumption` gives the items
their types (only a heading has a level, only a blank line has no text).

| code | model |
|---|---|
| `_parse_markdown`, `_parse_plain_text`, `_CanonicalHTMLParser` | `ParseItem`: a line or event of the tokenizer per step (`OnLine`, `OnEvent`) |
| `_parse_pdf`, `_reading_order`, `_pdf_paragraphs` | `ParseItem` takes a page, `ParseLine` its lines in reading order; `unread` are those left. Lines have their place on the page in points |
| `_BlockCollector`, the locals of the parsers | `collector` |
| `_split_block` | `Divide`; the cutting of long sentences is `Slice` |
| `_fit_piece` | `Fit`, `Unfit` |
| `_pack_section`, `_tail_overlap` | `PackPiece`, `PackLast` |

The code's lists of fragments are in the order of the text and never overlap, so they
are sets of ranges of places; its loops are steps on the first piece, which is cut until
it is short enough and fits, and is then packed. **`Indexing`** is `RAGIndexer`: parse,
chunk, or refuse the document.

Definitions whose name ends in `Mutant` are plausible defects of the definition after
them (a dropped guard, an off-by-one, a missing reset). They are not part of any
specification; `PROJECT.json` names, for every property of every passing run, one
that the run rejects.

## 3 Runs, bounds and what they show

| run | instance | properties | result |
|---|---|---|---|
| `queue` | 2 workers, 2 jobs, lease 2 ticks, backoff cap 2, 3 attempts, batch 2 | `TypeOK`, `TrustIsBacked`, `LeaseExclusion`, `AttemptLedger`, `OverrunOnlyByLapse`, `ImplementsLifecycle`, `AbandonedLeaseRecovered`, `EveryWaitingJobClaimed` | holds |
| `pipeline_safety` | 2 workers, 1 document, 2 versions, deletion while it has one version, batch 2, 2 attempts, any upload may see an exception after its commit | `PipelineTypeOK`, `StatusFollowsJob`, `ServedVersionSound`, `DeletionLeavesNothing`, `LiveObjectsKept`, `OnlyHolderPublishes` | holds |
| `pipeline_liveness` | 2 workers, 1 version, deletion, 2 attempts (a failed job is rescheduled once), no exception after a commit | `VersionsSettle`, `DeletionsSettle` | holds |
| `upload_safety` | 3 requests, 2 documents, 3 keys, 3 contents, quota 2, one staging file at a time old enough to be swept, dying processes | `UploadTypeOK`, `OneVersionPerKey`, `ConflictJustified`, `FailedLeavesNothing`, `ImplementsContract` | holds |
| `upload_faults` | 2 documents that were created, then 3 uploads: two of one key to different documents, the third to the document of the first; deletion of that document; every fault | `OneVersionPerKey`, `EveryRequestEnds` | holds |
| `upload_lost_bytes` | 1 request | `CommittedVersionHasObject` | violated, see 6 |
| `upload_quota` | 2 requests, quota 1 | `WithinQuota` | violated, see 6 |
| `sessions` | 2 pages; 1 login, up to 3 refreshes, 1 logout; at most 5 requests and faults together | `SessionTypeOK`, `OneLiveSession`, `ReuseHasCause`, `DeadFamilyStaysDead`, `LogoutEndsFamily`, `ReuseStopsReplacement`, `PromiseSettles` | holds |
| `session_replay` | 2 pages, 4 requests | `EntireFamilyRevoked` | violated, see 6 |
| `access` | 2 concurrent requests (any number in sequence), 3 users, 2 workspaces, 1 document, 4 membership rows, 2 versions | `AccessTypeOK`, `OwnerStays`, `EvidenceJustified`, `ChangesJustified` | holds |
| `indexing` | every Markdown source of up to 5 lines, HTML source of up to 6 events, plain text of up to 6 + 2 tokens, PDF of up to 8 lines on its first page and 3 pages; target 3, maximum 4, overlap 2, budget 5 | `TextCollected`, `PathIsOutline`, `ChunksCover`, `ChunksBounded` | holds |
| `chunk_maximum` | the same sources | `ChunkWithinMaximum` | violated, see 6 |

What the properties say, beyond their comments in the modules:

* `LeaseExclusion` and `TrustIsBacked`: between the claim (or last renewal) and the
  expiry it was told, a worker's belief that it owns the job is backed by the row, and
  two workers never believe it together.
* `ImplementsLifecycle`: whoever is past the expiry changes nothing, whatever it calls. The
  owner's check compares with `<=`, the claim with `<`: at the instant of expiry the job is
  nobody's. An owner still accepted at that instant breaks this property; a claim already
  allowed at that instant would break none.
* `AbandonedLeaseRecovered`, `EveryWaitingJobClaimed`: a lease that nobody works on any
  more is taken over, and no waiting job starves.
* `OnlyHolderPublishes`: a worker that outlived its lease publishes nothing, even if
  nobody took over, although it indexed for minutes outside any transaction.
* `StatusFollowsJob`: the version status is written by `begin_processing`,
  `fail_job`, the final transaction and, through the job, by manual retries and
  reclaims. No order of these leaves a version active whose job is not completed, or
  shown as processing while nobody ever will.
* `ServedVersionSound`: the active version is complete, and a failed or crashed later
  version never leaves a document without one.
* `DeletionLeavesNothing`: objects are removed before ownership is proven, and
  processing jobs of the same document may be under way, stale or retried afterwards;
  still nothing is left or comes back. The run deletes a document of one version; for
  several, with the worker dying between their objects, there is the theorem.
* `LiveObjectsKept`: no failure, retry, crash or deletion job takes the bytes of a version of
  a live document; only the handlers of its own upload do, after an exception that follows
  an effective commit (`raised`, section 6).
* `VersionsSettle`, `DeletionsSettle`: through exceptions, automatic retries with backoff and
  what dead workers left behind, every version and every deletion comes to an end.
* `ImplementsContract`: interleaved uploads, deletions, failures and dying processes
  look like atomic `Accept` steps: consecutive numbers, unique keys and contents, no
  version added to a deleted document, no committed version without bytes.
* `ConflictJustified`: a refusal as "conflict" is the requester's own doing. Requests
  for one document never trip over each other's version number - what the row lock,
  held to the end of the transaction, is for.
* `FailedLeavesNothing`: an exit of the function by an exception removes its
  files and has committed nothing. It is checked and proved for cleanups that work: if
  `store.delete` raises in the handler, or the rollback and then the removal fail, files
  stay (`CleanupFailed`); a staging file is then left to the sweep, a promoted one to nobody.
* `EveryRequestEnds`: an upload can hold its document while its insert waits for another
  upload with the same key, which holds a document others wait for. These waits form
  chains, never a circle, also when a rollback fails and locks are kept longer.
* `OneLiveSession`, `DeadFamilyStaysDead`, `LogoutEndsFamily`: rotation consumes a
  session and commits its replacement in one transaction under the lock of the old row,
  so a family cannot fork, and no late rotation revives it.
* `ReuseStopsReplacement`: what the family-wide UPDATE does achieve. It may miss a
  session further down the line (section 6), but never the one that replaced the
  presented token, nor any other that was issued for it.
* `ReuseHasCause`: the refreshes within a page never present an exchanged token twice,
  although answers overtake commits. Two pages, a reload or a lost answer do: then an
  honest user is signed out everywhere, which the property allows for. The alarm is also
  raised for a token whose session was revoked (the code tests `used_at` or `revoked_at`):
  there the property asks for a sign-out with that token - it may be the page's own,
  while its refresh was under way - or an earlier reuse in the family.
* `PromiseSettles`: a page never keeps a refresh promise that will not settle, although
  two revocations may deadlock.
* `OwnerStays`, `ChangesJustified`: the roles a request acts on are stale by the time it
  writes, yet nothing is done that its actor could not have done when it was admitted,
  and no interleaving of stale writes touches an owner. The observers say "when it was
  admitted" deliberately: the code does allow a manager who was demoted
  meanwhile one last change.
* `EvidenceJustified`: the two statements of a search may see different versions of a
  document, but only versions served while it ran.
* `TextCollected`: said of the source alone (which elements are open, how often a place
  occurs, which line is above which), never in terms of the collector. See "Observations"
  in section 6 for the exception it names, elements without an end tag.
* `PathIsOutline`: a block and an item of the source belong together when as many
  tokens precede them (`Origin`); the block's headings must be those the item stands
  under (`Ancestors`), each at its level unless the source skips one.
* `ChunksCover`, `ChunksBounded`: apart from the tokens the sentence pattern skips,
  chunks cover the text in order, keep to their section and make progress. Every chunk
  respects the budget of the model; the maximum and the overlap are respected by the
  tokens it was packed from, which is what the code counts, so the `ValueError` for a
  chunk above the hard maximum is never raised, and `assert_fits` never fails. The
  stored chunk may have more tokens (`ChunkWithinMaximum`, section 6).

**Why these bounds are enough to meet the interesting cases.**
A lease of one tick passes through "valid", "at the instant of expiry" and "lapsed";
two ticks add a renewal that lengthens. `AttemptCap = MaxAttempts + 1` counts
exactly up to the first overrun, after which the code's comparisons do not change.
Three attempts let the backoff double and meet its cap. Two workers and two jobs give
claims that split, overlap and steal batches; two jobs in one batch give a lease
that lapses behind the head of the batch. Two versions and one deletion are every kind of
job of one document; documents share nothing but the queue. For uploads three
requests are needed: one holds a document while its insert waits for a second with the
same key, which holds another document, and a third waits for the first document. Creating
the two documents takes two requests more; in `upload_faults` they come first and without
trouble (`ChainScript`), and all that follows is free. In `upload_safety` numbers 1, 2, 3 of
one document come from three requests, and one old file suffices for a sweep under a slow
or after a dead request (`MaxStale`). `MaxRaised` bounds the uploads of `pipeline_safety` that
see an exception after their commit; both of them may.
`MaxDeletable` is the number of versions up to which a document may be deleted in the
run: deletions meet one version, and versions overtake each other when there are two.
For sessions, a reuse needs a login and two refreshes, a rotation that the revocation
misses one more, and a logout one more again; the one budget for requests and faults
trades them against each other. The pages are alike, so the first request is
sent by the first page (`HomeFirst`). For access, two requests at a time and any number in
sequence give every pair of stale reads and writes; three users are an owner and two
who manage or replace each other, and a second workspace makes roles of the wrong
workspace available. For indexing, a text longer than `MaxSize` is split at every kind
of terminator, a token of weight 3 and a limit of 5 make the budget bind before the
target, and three blocks put pieces of two sections next to each other; PDF pages hold
lines of both columns, across them, apart by more than a band, and a heading.
`UploadSafety` uses symmetry over requests, keys and the contents that are not
singled out; `UploadFaults` and all runs with liveness properties use none; `PipelineSafety` uses it
over workers and `Access` over the slots for requests.
The upload and session configurations set `CHECK_DEADLOCK FALSE`: a finite set of
requests ends and then the modelled system rightly stops; so does `Indexing`, where a
document is indexed or refused once.

`Faults` is the set of disturbances the environment may cause: `death`, `late_move`
(the request is cancelled while a thread renames the file), `lost_ack` (the commit
took effect but raised), `lost_context` (the statement after the commit raises) and
`cleanup` (the rollback or a removal in the exception handlers raises).
`upload_safety` allows only those the code handles; `upload_faults` allows all and
checks what must still hold; `upload_lost_bytes` shows what does not.
Failures of single steps (a query, the lock wait, the move, flush, commit) are not in
`Faults`: they are always possible.

## 4 Fairness

Fairness is asked only of what the code does by itself; nothing helpful is assumed of
the environment.

* `QueueFairness`: time passes, and a job that stays claimable is claimed. The worker
  loop polls without end (`run`), and the query orders by `available_at`: a waiting row
  only moves to the front, as each claim removes rows before it. The order itself is
  not modelled; this is what it buys.
* `PipelineFairness`: each worker keeps executing its program (`ProcessStep`), time
  passes, and a job that is claimable again and again when workers poll is claimed in
  the end (strong fairness, as a worker is not polling all the time).
* The pipeline's liveness properties have a premise, `Calm`: from some point on no
  worker dies, no lease of a job in hand runs out, and `fail_job` succeeds if the job
  is still owned. Without it they are false, and rightly so: workers that die on
  every attempt make no progress (a job that kills them is claimed without end, section 6). `Calm` does
  not exclude exceptions of jobs: they lead to retries and finally to a dead letter,
  which is an outcome the properties accept. A version that was left `processing` by a
  worker that died *before* the calm must still settle, and does.
* `UploadFairness`: a request that can proceed does (`Proceed`). Sweeps, exceptions, deaths and unconfirmed commits (`Disturb`) are possible and
  never fair: no request is rescued by a failure. Weak fairness suffices for the lock
  because finitely many requests compete for it; with endless traffic PostgreSQL's
  queue of lock waiters takes that role.

* `FairBrowserSpec`: the service goes on with the requests it has (`Serve`), and answers
  reach the browser or are given up. Failures, refusals other than that of an unknown
  token, lost answers and reloads are never fair. That a deadlock is broken is
  PostgreSQL's (`Deadlocked`).

## 5 Proofs

TLAPS checks every theorem below for every value of the constants, under the named
`ASSUME`s of the modules, which are as weak as the code needs: identities are
distinct from the NULLs, times, batch sizes and attempts are positive,
`AttemptCap > MaxAttempts`, the job set is documents times versions, inputs are well
formed (`SupplyAssumption`), the overlap of chunks is smaller than the target and that no
larger than the maximum (`ChunkerAssumption`), no tag is the value for "nothing captured"
(`NothingAssumption`), the founding memberships satisfy the constraints of their table. TLC evaluates the same assumptions on every run.

| theorem | says |
|---|---|
| `JobQueue_proofs` `TypeCorrect`, `LeaseRecordCorrect`, `TrustIsBackedCorrect`, `LeaseExclusionCorrect`, `AttemptLedgerCorrect`, `OverrunCorrect` | the queue's invariants and its action property, for any number of workers and jobs, any lease, batch and backoff |
| `QueueImplementsLifecycle` | `JobQueue` implements `JobLifecycle` |
| `DocumentPipeline_proofs` `PipelineKeepsQueueInvariants` | lease exclusion and the attempt ledger in the running pipeline, whose steps are calls of the job service or leave its table alone (lemma `PipelineIsQueue`) |
| `DeletionCorrect` | a completed deletion leaves no chunk and no object, and none comes back |
| `ServingInvCorrect`, `PipelineTypeCorrect`, `StatusFollowsJobCorrect`, `ServedVersionCorrect`, `LiveObjectsCorrect` | types, and what members see: statuses, the active version, the bytes of versions whose upload saw no exception after its commit |
| `OnlyHolderPublishesCorrect` | chunks and the active version change only by a worker whose lease of the job has not run out |
| `Upload_proofs` `UploadTypeCorrect`, `UInvCorrect` | types; what a request checked holds until its commit |
| `OneVersionPerKeyCorrect`, `ConflictJustifiedCorrect` | for every set of faults, failing cleanups included |
| `CommittedVersionHasObjectCorrect`, `UploadImplementsContract` | under `CommitsAnswered`: neither `lost_ack` nor `lost_context` occurs |
| `FailedLeavesNothingCorrect` | under `CommitsAnswered` and `CleanupWorks`: neither `late_move` nor `cleanup` occurs |
| `Sessions_proofs` `SInvCorrect`, `SessionTypeCorrect`, `OneLiveSessionCorrect`, `DeadFamilyCorrect`, `LogoutCorrect`, `ReuseCorrect` | for any number of requests with any tokens |
| `BrowserUsesSessions`, `BrowserOneLiveSession`, `BrowserKeepsFamilies` | the browser is one of the clients these theorems are about |
| `CInvCorrect`, `ReuseHasCauseCorrect` | for any number of pages: an exchanged token is found a second time only after a race of pages or an answer given up, a revoked one only after a sign-out with it or a reuse in its family |
| `WorkspaceAccess_proofs` `AInvCorrect`, `AccessTypeCorrect`, `OwnerStaysCorrect`, `EvidenceCorrect`, `ChangesCorrect` | for any number of users, workspaces, documents and concurrent requests |
| `Indexing_proofs` `DocumentInvCorrect`, `ParsingInvCorrect`, `TextCollectedCorrect`, `PathIsOutlineCorrect` | for sources of any length: the blocks are the text that counts (in HTML that is not well-nested, a subsequence), and in Markdown they carry the headings they stand under, exactly these if no level is skipped (lemmas in `Parser_proofs`) |
| `IndexInvCorrect`, `ChunksCoverCorrect`, `ChunksBoundedCorrect` | for any document, target, maximum, overlap and budget: the chunks cover the document but for skipped tokens, fit the model, and keep the limits of size and overlap for the tokens that were not skipped (lemmas in `Chunker_proofs`) |

**The queue.** `IInv` is `TypeOK /\ LeaseRecord /\ TrustIsBacked /\ AttemptLedger`.
`LeaseExclusion` is not inductive: from a state in which only `v` trusts a job whose
row names nobody, a claim would break it. `TrustIsBacked` is the missing link - whoever
trusts is named by the row, and the row's lease lasts at least as long - and needs
`LeaseRecord` to exclude a `Waiting` row with an owner. The refinement maps a job to
*held* while its row is leased with time left; a claim, renewal or failure then
corresponds to `Assign`, a stutter, and `Postpone` or `Park`, and one `Tick` to a
`Lapse` of every lease that reaches its end.

**Deletion.** `DeletionInv` adds to `DeletionLeavesNothing`: a document is deleted
exactly when its deletion job exists (`RowsAgree`), a worker is in
`finish_delete_job` only with a deletion job that exists (`WorkersAgree`), and while it
removes objects its list covers all that are left (`KeysCover`). The last one holds
because a deleted document receives no version; the final transaction of a processing
job cannot bring chunks back because it checks `deleted_at` under the row lock.

**What members see.** `ServingInv` adds `StatusFollowsJob`, `ServedVersionSound` and
`LiveObjectsKept` to `DeletionInv`, with one more link, `KeysOwn`: the list of a
deletion job names versions of its own document only. A worker removes bytes and
chunks only of a document that is deleted, and a commit publishes only under
the lock in which it read that the document is not.

**Uploads.** `UInv` says what a request may rely on between the document check and
the commit: its existing document stays locked and live (`DocumentHeld`), its new
document is known to nobody else (`NewDocumentsApart`), its number still follows the
last one and its content is still new (`ReservationValid`), and flushed rows collide
neither with committed rows nor with each other (`FlushedFit`). `TransactionsApart`
is the heart: two requests between check and commit are at different documents, so a
commit disturbs no other reservation. With it a conflict can only be a key or a
content that was committed before, and a commit is an `Accept` of `UploadContract`.
`ObjectInv` adds the files: a version is committed only with its file at the final
key, and only a request without a version cleans up. The last part is what
`CommitsAnswered` is needed for, and where the code deviates (section 6).

**Sessions.** `OneLiveSession` needs to know what open requests hold: locks are on
committed rows and exclude each other (`LocksApart`); a rotation that has inserted its
replacement holds the usable row it will consume (`RotationHolds`); families grow from
their login along exchanged tokens (`FamilyLine`, `RootFirst`). Two replacements of one
family would be held up by two usable rows, of which there is one. `RevocationCovers` is
what `ReuseStopsReplacement` rests on: whoever exchanged the presented token committed
before the revocation could lock it, hence before its snapshot. For a session
further down the line nothing similar holds, which is the finding.

**Access.** An owner is neither added nor changed, because `CanManage` refuses the role
`owner` on both sides; the difficulty is that a target's role is read early. `TargetFixed`
says that the row of a loaded id is still the same member's and still no owner's, as no
request can make it one; so the write, whatever role it meets, hits no owner.
`ActorStands` ties the role a request acts on to `standing`, which is what
`ChangesJustified` speaks of, and `ServingSeen` gives `EvidenceJustified`.

**Publishing.** `OnlyHolderPublishes` speaks of what a worker may believe (`trust`), while the
code reads the row. `HandBacked` is the link, the converse of `TrustIsBacked`: as long as
the row grants a worker a job it has in hand, the worker counts on that lease for at least
as long. Only its death makes a worker forget, and then it has nothing in hand. So the
last transaction, which finds the row still granted, is one of a worker that trusts.

**The browser.** `CInv` is `SInv` of `RefreshSessions` together with `ClientInv`. A token is in the
jar, and is sent, only after the headers of its answer (`CookiesReceived`); an exchanged token has left
the jar for good (`ExchangedLeft`); a refresh that waits is the promise its page shares
(`OneWaits`), so of two refreshes of one page with one token the first was refused or
given up (`SamePageRefused`); and a rotated session was exchanged by a request that
committed (`RotatedBy`). A second presentation of an exchanged token then needs two requests
with it, and unless one of them was given up they are of two pages. For revoked sessions,
`RevokedFor` names the request that revoked them; it needs that a revocation locks rows of
the presented session's family only (`ReuseLocks`), and that committed rows stay in their
family (`RowsStay`).

**Parsing.** `DocumentInv` types the collector through every parser, so that whatever is
handed on is a document: each block has a text, and headings that have one. `ParsingInv`
relates the collector to the items read so far, and the blocks to all of them once the
parser has ended. For lines of text, the blocks followed by the open paragraph are the text of
the lines. `OutlineOK` adds, for Markdown, that the path of each block, and the headings now in force,
are the headings its items stand under: those an enclosing heading has not closed, each at its level
unless a level was skipped, after which a heading of that level stays. That a block
and its items belong together is a matter of how many tokens precede them (`Offset`), so every
step shows that appending an item or a block moves no earlier offset. For HTML, `HtmlOK` says that
the collected text is a subsequence of the source's (`Embeds`, with an explicit embedding
that the induction extends); and as long as every element was closed properly, that it *is*
the text that counts and that the element being captured is the outermost open one that counts:
the depth counter finds its end tag among those of elements inside it.
For PDF, `PageOK` is a bijection between the tokens of the lines read on a page and the places
of that page in the blocks, which keeps the order of two lines of one column; the order in
which lines are taken guarantees that the ones above were read before (`ReadOnce`).
`TextCollected` and `PathIsOutline` then follow by counting.
None of this uses an induction theorem of the library: where a fact needs induction over a
number, the proof takes the least counterexample, which is a fact about natural numbers
the provers can use.

**Chunking.** `IndexInv`
says of the three places a token can be in during packing - the pieces, the current chunk,
the finished chunks - that every collected token is in one of them (`HeldOK`), that the
pieces are what follows the current chunk (`InOrderOK`, `LastOK`), that the chunk under
construction fits and has a token no chunk has (`FilledOK`), and that finished chunks are
bounded and each goes further than those before (`ChunksOK`). The last part is where
overlap could go wrong: the tokens repeated from the chunk before are an end of it
(`EndIsReady`), and the piece that follows is new. `PieceIsSmall` and `KeptIsReady` show
that `Slice` and `KeepLimit` leave room for the maximum: a slice has at most `Target`
tokens, and the overlap is cut to what the target has left.

**Only model-checked:** liveness, which needs `ENABLED` and fairness. Every invariant
and every action property of a passing run is proved.

## 6 Where the code and its documents disagree

1. **A chunk may exceed the token maximum** (`chunk_maximum`,
   `packages/rag/chunking.py:142`). Packing counts the tokens of the sentences of a block,
   but the chunk is the text from the first sentence to the last, and its `token_count`
   includes what `_SENTENCE_PATTERN` skipped between them: text before a terminator inside
   a word ("example.com"). Only the model's 512 tokens bound it.
   `docs/adr/0007-c1-e1-production-rag-pipeline.md:31` says "500-token maximum", and
   `tests/unit/test_rag_production.py:326` asserts `token_count <= 500` of its sample.
   `ChunksBoundedCorrect` shows that the skipped tokens are the only excess.
2. **An exception after the commit deletes the bytes of a committed version**
   (`upload_lost_bytes`, `packages/documents/service.py:258`). `promoted_key` is still
   set when `set_tenant_context` raises after the commit, and a commit that took effect
   may itself raise; in both cases a handler removes the object.
   `docs/week-2-preview-plan.md:193` says that object-storage and database failures
   leave no user-visible partial version. `CommittedVersionHasObjectCorrect` shows that
   these two faults are the only way.
3. **The quota can be exceeded** (`upload_quota`, `packages/documents/service.py:152`).
   The sum of the stored bytes is read without a lock long before the version commits;
   `docs/threat-model.md:31` speaks of a hard limit.
4. **A replay does not always revoke the entire family** (`session_replay`,
   `packages/security/sessions.py:80`). The UPDATE sees the rows committed when it
   starts. If a rotation of the family has inserted its session and commits while the
   UPDATE waits for the old row, the new session stays usable after the replay was
   answered; `docs/adr/0003-authentication-sessions.md:35` says "Revoke the entire token
   family when replay is detected". `ReuseCorrect` shows what is guaranteed. A second
   presentation of a revoked token repeats the UPDATE and ends the family.

**Observations.** What else the models make visible:

* An honest user can trigger the reuse alarm: two pages that refresh at the same time, a reload during a refresh, a lost answer.
* A logout that overtakes the commit of the request that issued its session finds no row
  and revokes nothing; one that waits for a rotation of its session finds it used and leaves
  the replacement usable; a logout that fails leaves the cookie. A refresh whose body
  comes after the answer to a logout signs its page in again (`api.ts:81`), and if its
  headers came before, the page is signed in without a cookie until its access token
  expires.
* A job that kills its workers is claimed for ever: the claim of an expired lease increments
  `attempt_count` without comparing it (`jobs/service.py:47`), although ADR 0004 speaks of "a configured
  maximum attempt count" (line 130). `OverrunOnlyByLapse` and its theorem show that
  this is the only way past the limit.
* If the cleanup of a failed upload fails itself, a promoted file stays for good.
* A transaction may fail to commit after a success was answered (`lost` in
  `RefreshSessions`). The `revoked_at` set at `sessions.py:88` and `:93` is
  rolled back with the error that follows it.
* A manager who is demoted or removed while his request runs still has its
  effect; `add_member` may even add him again. Removing a member who is already gone
  succeeds silently; changing one is an internal error. A role equal to the one that
  was read causes no statement, whatever the role is by then.
* Text before a terminator inside a word ("example.com") is dropped from a block of more
  than 500 tokens that has to be split (`chunking.py:12`), unless merging two fragments of
  the block brings it back (finding 1).
* An HTML element without an end tag (`br`, `img`) inside a paragraph, heading or
  list item keeps the capture open, and what follows it up to the end of the document
  can be lost (`parsing.py:105-117`).
* After a skipped level (h1, h3, h3) the cut at `parsing.py:45` keeps a sibling
  heading as a parent. Lines that cross both columns of a PDF band are read before both.

## 7 Abstractions, and what is not modelled

* **Time** is one clock in ticks. Workers in fact compare with their own clocks
  (one host in the shipped deployment); skew is not modelled.
* **Atomicity.** A transaction of the job service or the worker is one action. Row
  locks inside a worker's transaction are not state, so deadlock between a stale worker
  (version, document, job) and a new one (job, version) appears only as its effect, an
  aborted transaction (`Fault`). In `Upload` the locks are state, because a request
  holds them across several steps.
* **Data.** Files have size 1; contents, keys and ids are model values; chunks are
  present or not; a size or digest that does not match is a `Fault`.
  `max_attempts` is one constant (a deletion job's default differs).
* **`WorkerCrash`** also stands for the end of the worker loop by an uncaught
  exception of the poll or the sweep.
* **Renaming and reading routes** change nothing the modelled operations read.
* **Sessions.** A token is the name of its session, so guessed tokens, wrong secrets and
  unknown ids are all "not a token". Expiry and inactive users are `Refuse`. Access
  tokens are not modelled: they expire by themselves, and their 401 is what may start a
  refresh at any time.
* **Access.** Creating a workspace is a transaction of its own at one step. Contributor
  routes admit one more role and otherwise act like the manager routes; uploads are in
  `Upload`. `Publish` stands for the worker's last transaction, of a version that was
  not indexed before. The candidates of a search are all chunks in scope; rankings only
  choose among them.
* **Parsing.** `_pdf_lines` (the grouping of words into lines), the joining of hyphenated
  words, the bullet that is cut off a list item and the kinds of blocks are left
  out. A block's own order is its place in the sequence.
* **External behaviour** modelled from its use: PostgreSQL's row locks, unique-key waits,
  the order in which an UPDATE takes its locks, deadlock detection, and its rollback when
  a client dies.
* **Not modelled:** the lexical score and the fusion of two rankings (real-valued
  computation without state), the embedder and its files, password hashing, the
  malware scanner (a no-op), loading of settings, wiring, logging, rendering, build
  files; the policies of tables whose rows are only reached through their workspace.

## 8 Plan

Done: the queue, the pipeline, uploads, sessions with their client, memberships and
searches, parsing and chunking; each checked, and the safety properties proved.
What would add most next:

1. The lock orders of `begin_processing`, `finish_document_job`, `fail_job`,
   `finish_delete_job` and the routes as state of `DocumentPipeline`, with the waits-for
   relation (the deadlock listed under `hazards`).
2. Clocks of workers that differ by a bounded skew; the order of the claim query.
3. That `DocumentPipeline`'s upload is `UploadContract`'s `Accept`, and that the
   publications of `WorkspaceAccess` are its `Commit`.

## 9 Running the checks

```
tlc -workers 2 -config JobQueue.cfg MCJobQueue.tla     # likewise for the other runs
tlapm JobQueue_proofs.tla                              # likewise for the other proofs
```

No run takes more than a few minutes on two cores; nor does a proof module.
