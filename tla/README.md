# A TLA+ model of werrss

werrss subscribes to WeChat publications through WeRead accounts, archives their
articles and assets in PostgreSQL and a blob store, and serves them as RSS. Several
replicas of one binary share a database. Each runs worker loops, a scheduler and an
HTTP server, and none of them has state of its own that matters: whatever keeps
them from stepping on each other is a row, a lease, a token or a revision, and is
compared in a SQL statement. That is what this project models.

The modules are translated from the Rust source under `src/src/` and the SQL in
it. `PROJECT.json` maps every definition to the lines it stands for.

## 1. Inventory

| Component | State it keeps | Operations | What is hard | What makes it correct |
|---|---|---|---|---|
| Job queue (`domain/job.rs`, `job_repository.rs`, `job_service.rs`) | the `jobs` table | enqueue, claim, heartbeat, succeed, retry, fail, defer, cancel, recover | leases that expire under a live worker, loops that share a lease owner, a budget charged by two paths | one active job per key, only the claim's holder ends it, every claim is paid for once |
| Worker loop (`worker.rs`) | the pass in progress | recover, claim, execute with heartbeats and timeout, apply the outcome | the timeout races the handler's own commit; crashes | every claim ends, every job ends |
| Scheduler (`scheduler.rs`, `scheduler_repository.rs`) | `next_fetch_at`, cooldown, reservation on `sources` | enqueue due sources, enqueue due credential refreshes | replicas race; five conditions have to be clear at once | no source is scheduled twice, none is left out |
| Source synchronization (`source_sync_handler.rs`, `sync_service.rs`, `sync_run_repository.rs`) | `sync_runs`, the gate and the schedule | list, fetch, persist, finish a failed run | minutes without a lock between reading the source and writing it | stopped, paused and deleted sources come to rest; only the holder moves the schedule |
| Source administration (`source_service.rs`, `source_repository.rs`, `web/admin.rs`) | `sources` | create, edit, pause, gate, delete | all of it happens under running handlers | nothing of a deleted source stays |
| Feed delivery and rebuild (`feed_service.rs`, `feed_rebuild_service.rs`, `feed_rebuild_handler.rs`, `feed_cache_repository.rs`) | `feed_cache`, `feed_build_leases`, `feed_revision` | read, acquire, render, publish, release, enqueue a rebuild | rendering without a transaction, late publication, expired bytes as a fallback | the cache shows the revision it names and never goes back |
| Accounts and credentials (`auth_service.rs`, `credential_repository.rs`, `account_lease_repository.rs`) | `weread_accounts`, `account_leases`, the `credential_refresh` job | enrol, refresh, replace, disable, delete; acquire, heartbeat and release the account lease | a refresh overtaken by a login; an account deleted and enrolled again counts versions from one again | credentials are replaced only by someone who read them; the gate opens onto usable ones |
| QR login (`qr_login.rs`, `weread_qr.rs`) | attempts, their locks and cookie jars, in memory | start, poll, cancel, prune | the lock of an attempt is held across upstream calls; requests are dropped anywhere | bounded attempts, none used twice, nobody waits for ever |
| Articles and backfill (`article_backfill_handler.rs`, `article_repository.rs`, `sync_service.rs`) | `articles`, observation versions | allocate a version, fetch, merge, publish | observations applied out of order; images that cannot be stored | a delayed observation never replaces a later one; visible changes are published |
| Asset cache (`asset_repository.rs`, `unit_of_work.rs`) | asset records, blob rows, deletion queues | store a batch, evict, restore, read, maintain, drain | rows and objects are two stores; a commit without an answer | what is called available is served, no object is forgotten, the limit holds |
| Asset refresh and repair (`asset_repository.rs`, `asset_repair_handler.rs`, `asset_refresh_handler.rs`) | repair state, generations, entries, lineages | admit, repair, confirm expiry, refresh, resume, cancel | slots that outlive their jobs, late handlers, chains over several jobs | every generation completes; at most one recovery of an asset |
| Asset download (`asset_archive_service.rs`, `archive/`) | none | sanitize, fetch, rewrite | budgets shared by broken bodies, a second copy of the rules for repair | limits hold; both copies agree |
| Blob stores (`opendal_blob_store.rs`) | body and sidecar of a key | put, get, delete, reconcile | calls that fail after they took effect, or land after they were given up | an acknowledged put is readable, an acknowledged delete is complete |
| Browser pool, sessions, health (`browser_pool.rs`, `webdriver.rs`, `browser_health.rs`) | permits, account lease, snapshot | wait, connect, request, close, release, probe | futures dropped at any await; probe and jobs share the pool | permits come back, leases are never taken from others, health recovers |
| Upstream answers (`weread.rs`, `identity.rs`, `article_page.rs`) | none | parse lists, find the account of an article | several fields may speak for one fact | an answer is read whole or refused |
| Configuration (`config.rs`), runtime supervisor (`runtime_supervisor.rs`, `runtime.rs`) | tasks | load, plan, build, start, drain | settings validated twice; a task that ends by itself; shutdown with work in hand | what is accepted can be built; everything comes down together (no loop is restarted) |
| Configuration transfer (`config_transfer*.rs`) | none | export, preview, import | an import of many statements beside other requests | all or nothing; a preview is kept |
| Feed tokens, web sessions (`feed_token_*`, `web/auth.rs`, `web/admin.rs`) | token hashes; the limiter's windows | issue, rotate, log in, log out | tokens beside deletion and import | a retired token opens nothing, nothing changes without a session |
| User interface, RSS text, logging | none | - | - | keep no state |

How they meet: the scheduler and administration put `source_sync` jobs on the
queue; a worker claims one and runs its handler; the handler's last transaction
writes articles, the schedule, the run, the job's outcome, the feed revision and
a `feed_rebuild` job at once; a worker or a reader rebuilds the feed under the
build lease and publishes it if the revision is still the one it read. A public miss
of an image admits a repair job, which may become a chain of refresh jobs over the
articles that show it. Everything else is an unlocked read followed, later, by a
compared write.

The hazards this leads to are listed in `PROJECT.json` with the line where each
one bites and the property that would catch it.

## 2. Modules

| Module | Models | Proofs |
|---|---|---|
| `Jobs` | the row of a job and the transitions of `domain/job.rs` and the SQL statements, as operators from row to row | |
| `JobQueue` | the table and the worker loops over it | `JobQueueProofs` |
| `JobLifecycle` | the abstract job: absent, waiting, held, succeeded, failed | |
| `FeedCache` | one source's feed: revision, cache, build lease, rebuild job, readers | `CacheProofs` |
| `SourceSync` | one source's synchronization: row, scheduler, job, handlers, runs, operator | `SourceSyncProofs` |
| `AccountCredentials` | one account: row, lease, refresh job, refreshes and logins, its source's gate | `AccountProofs` |
| `QrLogin` | the QR login attempts of one process and the requests on them | `AccountProofs` |
| `AssetRefresh` | recovery of images: repairs, generations, chains, lineages, their jobs | `AssetRefreshProofs` |
| `AssetCache` | image records, blob rows and queues against the objects of the store | `CacheProofs` |
| `BlobStore` | one key of a blob store, call by call | `CacheProofs` |
| `AssetFetch` | sanitizing, downloading and rewriting, as operators | |
| `ArticleList` | the answer of the list endpoint, as operators | |
| `ArticleArchive` | one article and the jobs that observe it; composes the two above | `ArticleArchiveProofs` |
| `Configuration` | the environment and what components accept, as operators | |
| `BrowserSessions` | permits, account lease, sessions and their cleanup | |
| `Runtime` | one process and its tasks; composes the two above | `RuntimeProofs` |
| `ArticleIdentity` | which account an article belongs to, as operators | |
| `ConfigTransfer` | bundles: validation, export, preview, rows of an import, as operators | |
| `AdminSessions` | sessions and the login limiter | |
| `WebAdmin` | the requests over the configuration tables; composes the three above | `WebAdminProofs` |
| `MC...` | the instances TLC checks | |

`JobQueue` composes `Jobs` and is shown to implement `JobLifecycle`. `FeedCache`,
`SourceSync`, `AccountCredentials` and `AssetRefresh` hold jobs of the queue in a
reduced form. What they take from `JobQueue` is exactly what is proved there: no two
passes hold the same claim (`ClaimHeldOnce`) and a claim is ended only by its holder or
once its lease has passed (`OnlyHolderEnds`), so a claim can be named by the worker
that holds it. `AssetCache` takes from `BlobStore` that an acknowledged object is readable until it is
deleted or a request that was given up lands over it (`OkIsReadable`); such late deletes and
late puts are steps of `AssetCache` too.

### Conventions

* A SQL statement, or a transaction that takes the row locks it needs before it
  reads, is one step. What the code does without a transaction is several steps, and so
  is an import, which takes its locks one after the other.
* Time is `clock_timestamp()` of the one database. An instant is kept as the time
  left until it and is zero once it has passed; `Tick` counts down. Where only the fact
  matters that a lease has expired or a cooldown has passed, that is a step that may happen.
* The outcome of a commit may be unknown to the caller; a handler whose process
  dies, is timed out or is dropped by its heartbeat simply stops.
* Payloads, identifiers and texts are left out. A feed's content is named by the
  revision that was current when it was read; URLs, responses, list answers and
  environments are records of what the code asks about them.
* Every record update that changes several fields of one entry is written
  `[f EXCEPT ![x] = [@ EXCEPT !.a = .., !.b = ..]]`.

### JobQueue

`jobs[j]` is a row: status, run-after, claim and failure counters, and the lease
(owner, token, time left). `pass[w]` is the `run_once` call of a worker loop:
`RecoverExpired`, then `Claim` or `NoClaim`, then the handler with `Heartbeat`,
then `HandlerReturns` or `HandlerCommits` (the outcome in the handler's own
transaction), `Timeout`, `HeartbeatLost`, and `ApplyOutcome` or `OutcomeRejected`.
`Crash` takes a process away at any point. Two loops of one replica share their lease
owner, as they do in the code, so only the token tells their claims apart.
The asset-refresh bookkeeping that the outcome statements carry along touches other
tables and is in `AssetRefresh`; the deletion of rows with their source is in
`SourceSync`. No code outside the tests calls `JobService::cancel`; the model has
it as an operation of the queue.

### FeedCache

`build[b]` is where a builder is: acquire the lease, find the source, list the
articles, render, publish. A worker builds for the `feed_rebuild` job; a reader builds
when it finds no fresh cache and may fall back on the expired bytes it read first,
wait for another builder, or enqueue a rebuild. A cached feed whose asset URLs have another format
counts as missing in the code (`cache_is_compatible`); the format is a setting and is left out. `publish_if_current` compares the
lease, the revision and, against a row of the same revision, which rendering was
generated later. `releasing` holds the release statements that a dropped build has
spawned and that have yet to arrive.

### SourceSync

`source` is the row with pause, gate, schedule, cooldown and reservation; `job` its active
job; `pass[w]` a worker's handler: the quiet-hours check, the lookup, `start_run`,
the list, the pages, and one of the two final transactions. `open` are the
`sync_runs` rows that are still `running`, `abandoned` says that one of them has
lost its handler. Operator steps happen at any time. Failures are the classes of
`classify_acquisition_error`; a retryable failure of a single page becomes a backfill
job, so at the pages only the gating classes fail the run. A quiet window whose end falls
into a daylight-saving gap is left out: the days of the model are all alike.

### AccountCredentials

`account` is the `weread_accounts` row: absent, placeholder of an import, or
enrolled, with version, disabled flag and the time left to its expiry. `deleting` is how far a
transaction that deletes it has got: it has locked the row, then the lease row if there was one, and
everybody reads the old rows until it commits. `account_leases` has no foreign key, so a lease
acquired after the second statement found none outlives the row; a pass that took its lease and read the row in that
window is `doomed` (a history flag), and the properties name it as their one exception. `stamp` is a
history value that names the row's contents over every incarnation of the row; the
code has no such thing, the properties need it. `lease` is the `account_leases` row,
`pass[u]` the call of `refresh_if_needed` (a worker) or `replace` (an operator):
check, acquire, load, exchange, commit, release, report. The heartbeat task is a step
of its own: refused or failed, it cancels the guard for good. `Replace` stands for
`replace` and `enroll_placeholder`, which share their conditions and their resumption
of gated sources. `GateSource` may close the gate at any time; `SourceSync` has the
handler behind it. Authenticated synchronizations take the same lease but write
nothing under it, so they add only another reason for `AccountBusy`, which a refresh
or login already gives. Encryption is taken as correct, so `Cipher` errors are left out.

### QrLogin

`attempts` is the map of one API process, `locked[a]` the holder of an attempt's
lock, `jars` the transport's cookie jars, `request[r]` an HTTP request. The lock of the
map is held for single look-ups, so each of them is one step; what happens between
`drop(state)` and `remove_attempt` is a step boundary, because the runtime is
multi-threaded. `Disconnect` drops a request wherever it waits. The exchange of a
confirmed login (four upstream requests) is one step with its outcome. Waiting and
scanned are one answer: the code treats them alike.

### AssetRefresh

The tables are one record `db`; operators take a table state to the next, and an action
assigns `db'` once, because the transactions serialize on two advisory locks. `worker[w]`
is the handler call of a loop: the repair reads, fetches and reports, the refresh reads its
entry, fetches the article and reports, and the lease may be lost between any two of these.
Outcomes, cancellation and recovery carry the terminal cleanup of `job_repository.rs`.
The pruning and the deletion of unused records, two transactions of the maintenance pass, are one step, and
finished jobs have no row, so that pruning cannot wait for one as the SQL does.
`listed` are the articles that a synchronization may bring (back); `ClaimElsewhere` is the
claim of another replica under a handler that lost its lease.

### AssetCache

`tab` are the committed tables, `obj` the blobs with an object in the store, `tx` the one
transaction that holds the capacity lock, working on its own copy. Objects change at once,
rows at the commit, which may succeed, fail, or not be answered. `tasks` are the deletions a
rolled back unit of work still does; each ends with the object deleted, with a clean-up row, or forgotten,
because the INSERT of that row failed too, the task was dropped or a put that was given up landed after it. A
restore may be dropped between its put and its commit. The history `hist` names the exceptions that
the code has and the properties state: objects lost in one of these ways or with a process, blobs reused
after their eviction was decided or while a delete of theirs that was given up is under way, evictions forgotten by
`restore_missing_asset`. Two simplifications allow more than the code does: a batch whose clean-up INSERT failed may still
commit, and a put that lands after its clean-up is one of the forgotten ends of that clean-up.
An orphan with an active repair is kept, as in the SQL. `older` is the order in which eviction goes through the blobs, least
recently used first, kept as the pairs of the relation. A blob of n bytes is n places of the cache, so that the size of a set of blobs is
the number of places they take (`Bytes`).

### BlobStore

`kind` is the configured backend; every backend call of put, get, exists and delete is a
step that may fail, fail after it took effect or, on object stores, WebDAV and FTP, which share the
timeout of `run_backend_operation`, be given up and land later, when a locked backend has let the key's lock
go. What a conditional write does then depends on what it finds. `stray` is history: a request has
landed with no condition to stop it and has changed the objects. Keys are
fresh UUIDs in the code, so the second client on a key stands for a clean-up or a
reconciliation. `reconcile_external_write` publishes a sidecar without comparing the body's
bytes; that body and sidecar agree is therefore stated only for WebDAV and FTP. `phase` is a
history value: whether anything has happened to the key since a delete left it clean, and whether
a delete has come.

### ArticleArchive, AssetFetch, ArticleList

`work[w]` is a job: allocate a version, fetch the page, fetch its images one by one,
persist. `Persist` is one transaction under the source row's lock and merges into whatever
is there by then. The refresh looks only at the raw content of a page: when that sanitizes to nothing, the
transaction replaces the article's links by none and the merge keeps the old HTML (`emptied`, a history
flag until links and HTML are written together again). A synchronization of several articles is reduced to one article. What a
first observation knows is what `ArticleList` reads from an answer. `queued` is the backfill
job a synchronization leaves, `caching` whether this process has an archiver.
`MentionsAssets` is a test for a substring, as in the code: a foreign URL that contains the
text counts too. `PRODUCTION_EXPIRY_RULES` is empty, so a repair never confirms an expiry by
itself; `AssetRefresh` has the step for when one does. Whether an image is dropped
because of the memory budget is left open. The HTML of an article is kept as the set of its
images, each with its position. A body that is cut off is charged whole, where the code charges the
chunks it has read; `InOrder` lists them as the document does, where the code
goes through them one by one.

### Runtime, BrowserSessions, Configuration

`raw` is the environment; `Configuration` decides in the code's order whether it is accepted,
what is planned, and what each component refuses. `todo` are the components still to build,
`task` the JoinSet, `worker[w]` the loop around `run_once` with its gate, `ses[h]` the browser
session of a worker or of the health monitor. A job is the sequence of sessions it opens.
`Interrupt` drops a handler at any await; its clean-up is a task of its own. A lease whose
acquire was dropped with the statement under way belongs to nobody and appears as another process's. Sessions of the
admin's identity resolver are left out of the pool.

### WebAdmin, AdminSessions, ConfigTransfer, ArticleIdentity

`req[r]` is a request: what it asks, where it is, its answer. An import holds rows in `tx[r]`
and writes them at its commit; SELECT, UPDATE and DELETE pass by rows that others have inserted and
not committed, INSERT waits for them. A patch of a source, a login and the switch of an account first take their
row FOR UPDATE (`SelectSource`, `SelectAccount`) and hold it while their write waits for the book index or for
sources (`LockedSources`, `LockedAccounts`); the other requests commit in one step that waits for the
rows it needs. PostgreSQL refuses one request of a cycle of waiting ones (`Deadlocked`, `DeadlockVictim`), an import or not. A
statement's write and its look at the index are one step, so two patches that swap their books end in a
conflict where the code may meet a deadlock; the administrator is refused either way. A body that
cannot be read is refused before the session is looked at, as axum's extractor does. The size of a bundle is its number of
records; `MAX_BUNDLE_BYTES` is left out. A session is a signed cookie, so a logout
ends nothing on the server and a restart forgets only the limiter. `Workloads` says which requests
meet: ten mixes, each with its tables, clock steps and faults. The tables a workload starts from satisfy the code's own
validation and its unique index (`GoodRows`, `Named`). QR handlers are in `QrLogin`,
and `next_fetch_at` is in `SourceSync`.

## 3. Runs

| Run | Result | What it shows |
|---|---|---|
| `queue` | pass | two loops of one replica, two jobs of one key: keys stay exclusive, every claim is paid for once and ended only by its holder; the queue implements `JobLifecycle`; every job ends, also when a handler hangs and keeps its heartbeat |
| `feed_cache` | pass | the cache names its content, neither it nor a reader goes back, it catches up, and a rebuild of a deleted source leaves the queue |
| `sync_source` | pass | stopped and deleted sources are idle, runs are closed, the schedule is fenced, an enabled source is synchronized again and again, a paused one comes to rest |
| `account_credentials` | pass | no replacement lands on credentials its pass has not read, through deletions and new enrolments, except that a pass which got in before a deletion's commit may reach the first credentials enrolled after it; the gate opens only onto a usable account, a refresh job ends |
| `qr_login` | pass | capacity, one holder per lock, a consumed attempt is not looked up again, every request ends |
| `qr_cancel` | violation | a cancellation can win after a concurrent poll has confirmed the login |
| `asset_refresh` | pass | every chain has its job, every asset at most one recovery, a late handler changes nothing, every generation completes |
| `asset_cache` | pass | what a record calls available can be served; an object without a row is some clean-up's, unless it was lost in one of the ways `ObjectsAccounted` lists; the size limit holds |
| `blob_store` | pass | an acknowledged blob stays readable until it is deleted and an acknowledged delete leaves nothing, unless a request that was given up has landed with no condition to stop it; no error path keeps a lock; on five kinds of backend |
| `article_archive` | pass | the row moves only to newer observations and keeps what it knew; HTML and hash agree, and so do the links, but for the refresh of a page that sanitizes to nothing; local images do not become external again; visible changes are published; downloads stay within budget, repair and archive judge alike, list answers are read whole or refused |
| `runtime` | pass | an accepted environment can be built, but for three known refusals; workers have handlers for what they claim; a normal end has waited for everything; leases are respected; the process comes down; the browser's health recovers |
| `web_admin` | pass | imports are whole, previews are kept, exports come back; revisions follow what readers see; risk control stays; retired tokens stay retired; nothing changes without a session; every request is answered |

Safety and liveness of a component share a run, under the specification with fairness
where there is liveness to check. `qr_cancel` is a place where a unit test promises more than
the code does; `findings` quotes it.

### Disagreements between documents and code without a run

Met while modelling; the modules follow the code.

* A deferral whose time has passed when its statement runs is refused
  (`job_repository.rs:1093`) and charged to the budget; `ARCHITECTURE.md:557` says a
  deferral is not.
* A synchronization that ends while a rebuild runs is deduplicated against it and the
  rebuild's job is then finished (`feed_rebuild_handler.rs:150`); `ARCHITECTURE.md:575,608`
  say the feed is rebuilt. Readers rebuild it, which is what `FeedProgress` needs.
* A job that fails by recoveries or timeouts leaves its source due at once
  (`job_repository.rs:1336`); `ARCHITECTURE.md:360-363` describes a cooldown.
* The quiet window is checked once, at the start of a run (`source_sync_handler.rs:310`),
  against `ARCHITECTURE.md:553`.
* A refused credential refresh is enqueued again by the next scheduler pass
  (`scheduler_repository.rs:380`), against `README.md:395`.
* The head of `auth_service.rs` calls lease loss terminal; `execute_job` retries it.
* A batch of images may reuse a blob it has decided to evict (`asset_repository.rs:2600`), and
  the eviction is done after the commit (`unit_of_work.rs:405`): the record is available and its
  object is gone. `AvailableIsServed` excepts exactly these blobs.
* `SOURCE_FAILURE_COOLDOWN_SECONDS=0` is documented and accepted (`README.md:134`, `config.rs:1327`), and
  refused when the worker is built (`source_sync_handler.rs:134`). It is one of the
  three refusals in `OnlyKnownRefusals`.
* A refresh whose page sanitizes to nothing deletes the article's links
  (`asset_repository.rs:1978`) and keeps its HTML with the local images (`article.rs:344`), which maintenance may
  then take for orphans. `ArticleInv` excepts exactly this state.
* An account's deletion does not remove a lease that is acquired while it is under way
  (`credential_repository.rs:419-424`). `NoStaleOverwrite` excepts exactly the passes with such a lease.
* `docs/ASSET_CACHING.md:95-96` asks of a backend that bytes are verified; `reconcile_external_write`
  does not compare those of a body it finds.

### Hazards without a property

* `asset_archive_service.rs:701`: the byte budget of an article also pays for bodies that are cut off, so a large
  one leaves less for the others; only what is kept is bounded by a property.
* `web/auth.rs:105`: a restart forgets the windows of the limiter; the bound on guesses is stated for
  one run of the process.
* `config_transfer_repository.rs:263`: a preview is two queries, and what is committed between them may
  make its counts true of no moment; `BundlesAgree` is about previews that nothing came into.
* `job_repository.rs:713`: the job an insert conflicts with can finish before the SELECT that
  looks for it; the enqueue is then an error the caller has to repeat.
* `source_sync_handler.rs:884`: an authentication failure of a request sent before a login is stored
  after it and closes the gate again, until the next login; it also replaces `risk_controlled`.
* `auth_service.rs:719`: upstream may have rotated the refresh token before the commit.
* `weread_qr.rs:161`: a cookie jar can outlive the attempt it was made for.

### Bounds

* Queue: two jobs of one key, two loops, two attempts, one deferral per job, leases of 2
  units and an execution timeout of 3. Every race of the queue is between two
  passes over one row (a holder and a successor), or two rows over one key, and
  two attempts give a budget that is spent both by a retry and by a recovery.
  Delays of 0 and 1 let a job be due at once and later.
* Feed: one worker and one reader, so that each can be overtaken by the other; the
  revision moves up to twice, so a candidate can be overtaken and its successor too; one
  fault. Tokens are fresh uuids: four are always enough for `Acquire` to find an unused one.
* Synchronization: two workers (a holder that lost its lease and its successor), two
  attempts, a day of three units with one quiet one, one fault. The times are
  chosen so that a retry can come due before, inside and after the quiet window.
* Account: a worker and an operator, so that a refresh can be overtaken by a login and
  a login by a refresh; two attempts; two enrolments, enough for a deletion and an enrolment
  that reuses the first version while a pass of the old account is about to write; one fault. Credentials last one
  unit and are due when they have expired (`LifeFor`, `RefreshBefore`).
* QR login: three requests over two attempts and a capacity of one: a start that loses
  its place to another, and two requests on one attempt. A deadline of one unit on a
  clock of two lets each check fall before or after it.
* Asset refresh: two assets of one article (their chains collide) or one asset of two articles
  (its chain has two jobs); two jobs, one of them public at most, and as many as the cluster bound, so that this bound
  is left to the proof; two generations, so that a
  follow-up happens. One loop here, whose job can be recovered and claimed by another
  replica under a late handler (`ClaimElsewhere`).
* Asset cache: one URL with two bodies of one and two bytes in a cache of two, so that every store
  has to evict or to fail; three blob ids, two record versions. `MaxLost` is one: with one object forgotten no
  transaction begins any more, and one blob at a time has a delete that was given up under it.
* Blob store: two clients and three contents, two of one size and one of another, one request that
  is given up and still under way; when it has landed another may be. The clients, and the two contents of one size, are interchangeable (symmetry).
* Article: one article, three kinds of jobs, two at work at a time and three versions: an
  overtaken observation and a later one. Four pages, eight responses, 250 list answers;
  byte limits of 2 and 3, so that the article's budget is the narrower one for a second image.
* Runtime: one worker and the monitor over one permit; two lease tokens, one failing task, one
  pending clean-up; some 300 environments. 9,000,000 s stands for chrono's limit.
* Web: up to five requests, two accounts, four sources, three books, sections of two records,
  a limiter of two failures in two units. Two imports that name two sources in either order with a patch or a
  login between them (`Circle`) make an import wait for a patch or a login that waits for it, and for another import.

The bounds on history (`MaxIssued`, `MaxRevision`, `MaxFaults`, `MaxDeferrals`, `MaxGen`,
`MaxVer`, ...) are guards; the proofs hold for every value of them. `CHECK_DEADLOCK FALSE` is
set where the system may rest: a feed whose source is deleted and that no reader asks for, an
account that is deleted for good, and the QR login and the administration once their requests
are served.

### Fairness

* Queue: weak fairness of `Tick` and of each loop's own next step. `run_until_shutdown`
  polls for ever, and each step of a pass is a statement or a return that the
  execution timeout forces. Nothing is assumed of heartbeats, enqueues or crashes.
* Feed: weak fairness of workers, of recovery, of time, and of the readers: a feed
  is fetched again and again.
* Synchronization: weak fairness of time, recovery and handler steps. The scheduler, the
  claim and the quiet check need strong fairness outside quiet hours: they are
  enabled once a day for the length of the open hours, and the code polls many times
  within that stretch (seconds against hours), which a day of three units
  cannot show otherwise. Nothing is assumed of the operator or of faults.
* Account: weak fairness of a worker's claim and steps, of a pass's steps and of the
  recovery of expired claims. Nothing is assumed of heartbeats, of time, of operators or of
  upstream's answers.
* QR login: weak fairness of a request's own steps, since every upstream call has a timeout, and
  strong fairness of taking an attempt's lock: tokio's mutex hands it out in the
  order of arrival.
* Asset refresh: weak fairness of handler steps, of the recovery of jobs nobody holds, of the
  deletion queue and of cooldowns; strong fairness of the claim of each job, since claims
  are ordered by age, and of the resume pass of the maintenance loop. Nothing is assumed of requests, of fetches that succeed, of
  cancellations or crashes. A loop that ends brings its process down; that one is started again, or
  that another replica goes on, is assumed.
* Runtime: weak fairness of the supervisor, of every task's steps and of clean-ups: every await has
  a timeout or a result. Strong fairness of the monitor's exit, whose `select!` picks at random.
  Nothing is assumed of signals, failures, other replicas or the sidecar, except where a
  property says that the sidecar stays up. That a request of the HTTP server ends is assumed: the
  graceful shutdown has no timeout (`runtime_supervisor.rs:605`).
* Web: weak fairness of each request that was received.

## 4. Proofs

TLAPS proves the following for every number of jobs, workers, readers, revisions,
tokens and faults, and for every duration, from the `ASSUME`s of the modules alone.

**Queue.** `QueueInvariant`: `Spec => []QueueInv`. The properties a reader cares
about are not inductive alone. `ClaimHeldOnce` needs that a token is the value of the
claim counter at the claim, that it never exceeds the counter, and that a running
row carries the latest one (`ClaimsLinked`); `ClaimAccounting` needs the row's CHECK
constraint (`RowsValid`) for the status each outcome leaves. The proof takes the row
transitions first, one lemma each, then one lemma per action. From the
invariant follow `ClaimsAccounted`, `ClaimsHeldOnce` and the action properties
`StaleWorkersFenced` and `TerminalJobsStay`.

**Feed.** `FeedInvariant`: `Spec => []FeedInv`. The content of a candidate lies
between the revision it read first and the source's (`CandidateBounds`), so an equal
revision at publication pins it; the lease that is still live orders renderings
(`LeaseFences`); and what a reader has been, or may be, answered with is not ahead of
the cache (`ServedBounds`). From it follow `ContentNamed`, `HolderRendersLast`,
`CacheNeverGoesBack` and `ReadersNeverGoBack`.

**Synchronization.** `SyncInvariant`: `Spec => []SyncInv`. `StoppedIdle`, `DeletedIdle` and
`RunsClosed` are about the source, its job and its runs; what makes them inductive is
the link to the handlers (`PassesLinked`): a claim is named by a pass that runs, an
open run belongs to a pass that has not returned, and until the first fault every
pass of a source that exists holds the claim, so that no fault-free end of a pass
finds its run open. Three lemmas cover the handler: it moves on, it ends its pass,
or its final transaction commits. From the invariant follow `StoppedStaysIdle`,
`DeletedStaysIdle`, `RunsAreClosed` and the action property `StaleHandlersFenced`.

**Account.** `AccountInvariant`: `Spec => []AccountInv`. `NoStaleOverwrite` is about
one step, but whether the writer's read is still current depends on everything since.
The invariant ties it to the lease row: a pass whose token is in that row, live or
expired, has read the present contents (`SnapshotFresh`). It is preserved because
whoever else writes must first put its own token there, and a deletion clears the token it locks. A deletion that
found no token to lock misses only doomed passes (`DeletionMisses`), and the account of a doomed pass is the one it
read, or absent, or at its first version again. From
it follow `ReplacesWhatItRead` and `GateOpensOnlyUsable`. The proof also shows that, but for doomed
passes, the lease alone decides: the version a replacement compares can never differ while the lease admits it.

**Refinement.** `QueueImplementsLifecycle`: `JobQueue` implements `JobLifecycle`. The abstract
state of a job is read off its row, so each row transition has a lemma that says
which abstract step it is; recovery, which changes several rows in one statement, is a step of
all of them at once. `QueueInv` is needed for two things: a row that is
absent has spent nothing (`RowsValid`), and the claim a pass ends is one that runs (`ClaimsLinked`).

**QR login.** `QrInvariant`: `QrSpec => []QrInv`. `CapacityKept` is inductive by the second look at the
capacity in `Insert`. What a retried poll must not meet is a removed attempt that is put back,
so `ConsumedIsOut` also says that a challenge between its request upstream and its insertion
is known to nobody else; and since every consumed attempt is out, the look-up of
`ConsumedNeverFound` cannot find one. One lemma, `MovingKeeps`, serves all steps in which a request
only moves on.

**Blob store.** `StoreInvariant` and `AckedPutIsReadable`: `Spec => []BlobInv` and
`Spec => []OkIsReadable`, by one induction over both. Three facts carry it, as long as no given-up
request has landed unconditionally (`stray`); a delete that leaves the key clean starts afresh. The lock belongs to
the one call past it (`LockExact`). What a writer has read before it writes is still so
(`ViewExact`), as long as it is alone with the objects: it holds a lock that deletes take as well, or no delete
has come; on an object store, where nobody is alone, a conditional write never replaces what exists.
And a delete that may answer that the key is clean is the only thing at work on it,
with the body gone before the sidecar goes (`PhaseExact`). The lemmas go by backend call, each with the
ways it may fail, fail after taking effect, or land late.

**Article.** `ArticleConsistent`: `Spec => []ArticleInv`. The lemmas are about the operators:
what sanitizing leaves of a page (`SanitizedPage`), which images rewriting makes local and that it
links them (`RewrittenHtml`), and what a merge keeps (`KeptImages`, `MergedRow`,
`StoredObservation`). A page that sanitizes to nothing is the one case in which links and HTML part,
and `emptied` follows it. With them `Persist` preserves the invariant whatever was stored since its job
read anything. The other part concerns the jobs: a job's version is its own (`VersionsDistinct`)
and its page is still as it was sanitized (`PageAsSanitized`). `NewerObservationsOnly`,
`LocalImagesStay` and `VisibleChangesPublished` follow step by step, since only `Persist` and the deletion of
the source write the row. `FetchesAreLimited` is a second induction: a turn of the download loop keeps at
most one image, so fewer are kept than turns were begun. `RepairsAgree` is a case
analysis of both copies of the download rules over any response.

**Runtime.** `RuntimeConsistent`: `Spec => []RuntimeInv`. It has three parts. The supervisor: no task runs before
its turn, none is aborted before the end, workers are started last, so an abort during start-up
finds none in a job (`TasksFollowPhase`). The sessions: a token exists from the lease to its
release and is in one pair of hands, a session's or a clean-up's (`SessionsShaped`, `OneHolder`,
`RowShaped`, `LeaseAccountedFor`). And the permits: `PermitsConserved` counts those of the sessions, and a
session that changes stage takes or returns one (`PermitMoves`); when a process drops
its sessions, all come back at once (`PermitsDropped`). `SessionsInJobs` ties the parts together: a
worker that starts a job has no session left from the one before. `LeaseIsRespected` follows with two
lemmas on the ways a session or a lease can end (`EndsByRelease`, `LeaseEnds`).

`AcceptedCanBeBuilt`: `Spec => []ConfigurationAgrees`, for every environment: what the loader accepts,
over all its lists of checks, no builder refuses but for the reasons in `OnlyKnownRefusals`. The
invariant (`RefusalInv`) is that past the loading the environment was accepted and that what is left to
start are its roles; that an accepted environment passed each check is read off the lists one by one.

**Asset cache.** `CacheStaysInBounds` and `AvailableImagesAreServed`: `CacheSpec => []CacheInv` and
`CacheSpec => []AvailableIsServed`. The induction is over what a transaction may have in its copy
while it holds the capacity lock: it only adds rows to the committed tables until it evicts, an object
that was cleaned up has no row in either, and the blobs a record calls available are those of its
rows. The size limit follows because the rows that are pending were counted before they were added, and eviction takes the
shortest run of the oldest blobs that makes room; that there is a shortest one is the
well-foundedness of the naturals (`WFMin`), and `older` is shown to stay a total order.

**Asset refresh.** `RefreshIsSound`: `RefreshSpec => []RefreshInv`, and `LostLeasesAreHarmless`. The inductive
invariant `RefreshIInv` says that the tables are in order for every asset (`TablesOK`: its counters and
entries, the job its slot names, what its jobs name), that handlers are where their jobs put them
(`HandlersOK`), and that the active jobs are within the cluster bound. A transaction breaks this for the asset it works on and restores
it, so the lemmas about its operators are stated of tables that are in order for the others
(`Apart`), with the relation each operator establishes between its argument and its result (`Settles`, `Grows`,
`Released`). One transaction settles the entries of many generations in turn with a `FoldSet`. That a fold keeps what each of its
steps keeps is not an induction over data here: of the subsets for which it fails there is a smallest
(`SmallestSubset`), which contradicts the step (`FoldedIn`).

**Web administration.** `WebAdminIsSound`: `Spec => []WebInv`. The inductive invariant `WebIInv` says that
the tables are well formed (`TablesOK`), that a request is where its question and its answer put it
(`RequestsOK`), that only imports have written rows, no two the same (`OnlyImportsHold`, `RowsExclusive`), that the rows an
import holds are explained by the committed rows and its own statements so far (`ImportsOK`, with
`UnwrittenRow` and `WrittenRow`), and two facts about cookies and the limiter's windows (`SessionsOK`,
`LimiterOK`). What one request's step may do to the tables is a formula of its own, `StepOK`: which
sources it changes and how the revision moves with them, which tokens, which rows it lets go. Every handler is
shown to take such a step, once; `StepKeeps` turns that into the invariant, and the
action properties `SourcesAreKept`, `AccessIsKept` and `ImportsAreWhole` follow from `StepOK` as well.

**Bundles.** `BundlesAreKept`: `Spec => []BundlesAgree`, on top of `WebIInv`. What a file or a
preview said remains true of the tables as long as nothing is committed (`BooksOK`, `SentOK`, `FilesOK`, `ToldOK`). An
import that nobody disturbs has, at each statement, done exactly what counting its records against the tables
says (`PlansOK`); `PlannedIsTold` then equates two ways of counting, of the preview's summary and
of the import's rows, by bijections and the cardinality theorems for finite sets.

### Assumptions

The constants are counts and durations in `Nat`, positive where the code refuses zero. Names that a
module uses for "nobody" or "nothing" are none of the workers, clients or contents (`StoreNames`,
`SessionConstants`, `RuntimeConstants`, `CacheConstants`, `WebAssumption`). The workers of a process are finitely many, and so are the blobs, sources
and accounts. A session's lifetime and the limiter's window are positive (`SessionTimesAssumption`), and
chrono can hold a week (`ChronoAssumption`). Workloads send what the handlers can receive
(`IsWorkload`, part of `WebAssumption`). A page has a
finite list of images, a response has a size and an environment has numbers that are naturals; all of these
are `u64` or collections in the code. TLC evaluates each assumption in the run of its module.

### What is only model-checked

Outside the prover's reach:

* liveness, which rests on fairness;
* sums and lists in general, since they take induction over data: that the bytes kept for an article stay
  within `MaxFetch` (the sum in `FetchWithinBudget`) and that a list answer is read whole or refused
  (`ListsRead`), so of `AnswersJudged` the two other parts are proved (`FetchesAreLimited`,
  `RepairsAgree`) and the whole is checked; what `ArticleIdentity` computes;


## 5. Not modelled, and the plan

Not modelled, because there is no state or decision to check: routing and extraction of
requests, static pages, translations, logging, the XML of a feed, the text of HTML and of
pages, the WebDriver protocol. Encryption, signatures and hashes are taken as correct. Of the
blob stores, SFTP and the listing of object versions are left out: the first shares the
locked path, the second needs a store that keeps versions. A remote browser session that a
cancelled connect leaves behind belongs to the sidecar.

Open:

1. The local-time arithmetic of quiet hours and the pacer as operators against a reference
   definition.
2. The observation versions of several articles in one synchronization.
3. The sum in `FetchWithinBudget` by the argument of `FoldedIn`.
