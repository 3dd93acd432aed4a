------------------------------ MODULE FeedCache ------------------------------
(***************************************************************************)
(* The feed cache of one source: the revision counter, the build lease     *)
(* that makes rendering single-flight, publication by compare-and-swap,    *)
(* and the two kinds of builder, feed_rebuild jobs and feed requests       *)
(* (application/feed_rebuild_service.rs, feed_rebuild_handler.rs and       *)
(* feed_service.rs over persistence/repositories/feed_cache_repository.rs).*)
(*                                                                         *)
(* A build holds no transaction while it reads and renders: the revision,  *)
(* the articles and the clock are read by separate statements, and edits,  *)
(* synchronizations, other builders and the clock move between them.  What *)
(* a feed shows changes only together with the revision, so the content a  *)
(* reader saw is named by the revision that was current when it read.      *)
(***************************************************************************)
EXTENDS Naturals

CONSTANTS
    Workers,        \* worker loops that run the source's rebuild job
    Requests,       \* concurrent feed requests
    Tokens,         \* build lease tokens; at least one more than can be in use
    BuildLeaseFor,  \* FEED_BUILD_LEASE
    CacheTtl,       \* RSS_CACHE_TTL
    MaxRevision,    \* bound: feed-visible changes in a behaviour
    MaxFaults       \* bound: errors, crashes, dropped requests, missed heartbeats

ASSUME BuildLeaseForAssumption == BuildLeaseFor \in Nat \ {0}
ASSUME CacheTtlAssumption == CacheTtl \in Nat \ {0}
ASSUME BuildersAssumption == Workers \cap Requests = {}
ASSUME FeedBoundsAssumption == MaxRevision \in Nat /\ MaxFaults \in Nat

VARIABLES
    source,     \* the sources row: whether it exists and its feed_revision
    cache,      \* the feed_cache row
    lease,      \* the feed_build_leases row
    rebuild,    \* the source's feed_rebuild job and the worker that runs it
    build,      \* build[b]: the rebuild builder b is in
    releasing,  \* tokens whose release_build statement has yet to run
    served,     \* history: the latest revision each reader was answered with
    faults      \* history: faults so far

feedVars == <<source, cache, lease, rebuild, build, releasing, served, faults>>

Builders == Workers \cup Requests

NoToken == "no token"
NoWorker == "no worker"
ASSUME TokensAssumption == NoToken \notin Tokens
ASSUME WorkersAssumption == NoWorker \notin Workers

\* A row that is not there.
NoRow == [present |-> FALSE, rev |-> 0, seen |-> 0, left |-> 0]
CacheRow == [present : BOOLEAN, rev : Nat, seen : Nat, left : Nat]

JobRecord == [status : {"none", "queued", "running"}, holder : Workers \cup {NoWorker}]

NoLease == [token |-> NoToken, left |-> 0]
LeaseRow == [token : Tokens \cup {NoToken}, left : Nat]

\* `stale` is the revision of the expired cache a request may fall back on, and
\* `outdated` says that the cached row was generated after this candidate.
NoBuild ==
    [pc |-> "idle", token |-> NoToken, rev |-> 0, seen |-> 0, left |-> 0,
     outdated |-> FALSE, hasStale |-> FALSE, stale |-> 0]

BuildRecord ==
    [pc : {"idle", "acquire", "find", "list", "render", "publish", "wait", "enqueue"},
     token : Tokens \cup {NoToken}, rev : Nat, seen : Nat, left : Nat,
     outdated : BOOLEAN, hasStale : BOOLEAN, stale : Nat]

Building(b) == build[b].pc \in {"find", "list", "render", "publish"}

\* The fence of heartbeat_build, release_build and publish_if_current.
LeaseLive(token) == lease.token = token /\ lease.left > 0

\* FeedCacheRead::is_fresh, as the cache query computes it.
Fresh == cache.present /\ cache.left > 0 /\ cache.rev = source.rev

FeedInit ==
    /\ source = [exists |-> TRUE, rev |-> 0]
    /\ cache = NoRow
    /\ lease = NoLease
    /\ rebuild = [status |-> "none", holder |-> NoWorker]
    /\ build = [b \in Builders |-> NoBuild]
    /\ releasing = {}
    /\ served = [r \in Requests |-> 0]
    /\ faults = 0

-----------------------------------------------------------------------------
(* Changes of the source. *)

\* An insert under the key feed_rebuild:{source} that an active job may hold.
EnqueuedRebuild ==
    IF rebuild.status = "none" THEN [rebuild EXCEPT !.status = "queued"] ELSE rebuild

Change ==
    /\ source.exists
    /\ source.rev < MaxRevision
    /\ source' = [source EXCEPT !.rev = @ + 1]
    /\ UNCHANGED <<cache, lease, build, releasing, served, faults>>

\* A synchronization, backfill or asset refresh commits feed-visible articles: it bumps the
\* revision and enqueues a rebuild in the same transaction.
SyncCommits == Change /\ rebuild' = EnqueuedRebuild

\* An operator's edit bumps the revision only.
EditSource == Change /\ UNCHANGED rebuild

\* Deleting the source deletes its jobs, its cache and its build lease.
DeleteSource ==
    /\ source.exists
    /\ source' = [source EXCEPT !.exists = FALSE]
    /\ cache' = NoRow
    /\ lease' = NoLease
    /\ rebuild' = [status |-> "none", holder |-> NoWorker]
    /\ UNCHANGED <<build, releasing, served, faults>>

-----------------------------------------------------------------------------
(* Builders. *)

\* A worker claims the rebuild job.
ClaimRebuild(w) ==
    /\ build[w].pc = "idle"
    /\ rebuild.status = "queued"
    /\ rebuild' = [status |-> "running", holder |-> w]
    /\ build' = [build EXCEPT ![w] = [NoBuild EXCEPT !.pc = "acquire"]]
    /\ UNCHANGED <<source, cache, lease, releasing, served, faults>>

\* A request is answered from a fresh cache. (cache_is_compatible, which takes a
\* cached feed with another format of asset URLs for a missing one, is left out:
\* the format is a setting of the process.) ...
ServeFresh(r) ==
    /\ build[r].pc \in {"idle", "wait"}
    /\ source.exists /\ Fresh
    /\ served' = [served EXCEPT ![r] = cache.rev]
    /\ build' = [build EXCEPT ![r] = NoBuild]
    /\ UNCHANGED <<source, cache, lease, rebuild, releasing, faults>>

\* ... and otherwise rebuilds before it answers, keeping what it read.
RequestRebuild(r) ==
    /\ build[r].pc = "idle"
    /\ source.exists /\ ~Fresh
    /\ build' = [build EXCEPT ![r] = [NoBuild EXCEPT !.pc = "acquire",
                                                     !.hasStale = cache.present,
                                                     !.stale = cache.rev]]
    /\ UNCHANGED <<source, cache, lease, rebuild, releasing, served, faults>>

TokensInUse == {lease.token} \cup releasing \cup {build[b].token : b \in Builders}

\* Mutant: an expired lease is not taken over.
AcquireUnheld(b, token) ==
    /\ build[b].pc = "acquire"
    /\ source.exists
    /\ lease.token = NoToken
    /\ token \in Tokens \ TokensInUse
    /\ lease' = [token |-> token, left |-> BuildLeaseFor]
    /\ build' = [build EXCEPT ![b] = [@ EXCEPT !.pc = "find", !.token = token]]
    /\ UNCHANGED <<source, cache, rebuild, releasing, served, faults>>

\* acquire_build inserts the lease row or takes over an expired one.
Acquire(b, token) ==
    /\ build[b].pc = "acquire"
    /\ source.exists
    /\ lease.left = 0
    /\ token \in Tokens \ TokensInUse
    /\ lease' = [token |-> token, left |-> BuildLeaseFor]
    /\ build' = [build EXCEPT ![b] = [@ EXCEPT !.pc = "find", !.token = token]]
    /\ UNCHANGED <<source, cache, rebuild, releasing, served, faults>>

\* How a job ends for the worker that runs it; another worker may hold it by now.
JobBecomes(w, status) ==
    IF rebuild.status = "running" /\ rebuild.holder = w
    THEN [status |-> status, holder |-> NoWorker]
    ELSE rebuild

\* AlreadyActive: the worker defers its job, the request waits for the cache.
AlreadyActive(b) ==
    /\ build[b].pc = "acquire"
    /\ source.exists
    /\ lease.left > 0
    /\ IF b \in Workers
       THEN /\ rebuild' = JobBecomes(b, "queued")
            /\ build' = [build EXCEPT ![b] = NoBuild]
       ELSE /\ build' = [build EXCEPT ![b] = [@ EXCEPT !.pc = "wait"]]
            /\ UNCHANGED rebuild
    /\ UNCHANGED <<source, cache, lease, releasing, served, faults>>

\* The source row with its revision ...
FindSource(b) ==
    /\ build[b].pc = "find"
    /\ source.exists
    /\ build' = [build EXCEPT ![b] = [@ EXCEPT !.pc = "list", !.rev = source.rev]]
    /\ UNCHANGED <<source, cache, lease, rebuild, releasing, served, faults>>

\* ... then the articles ...
ListArticles(b) ==
    /\ build[b].pc = "list"
    /\ build' = [build EXCEPT ![b] = [@ EXCEPT !.pc = "render", !.seen = source.rev]]
    /\ UNCHANGED <<source, cache, lease, rebuild, releasing, served, faults>>

\* ... then the instant the candidate is generated at, and the rendering.
Render(b) ==
    /\ build[b].pc = "render"
    /\ build' = [build EXCEPT ![b] = [@ EXCEPT !.pc = "publish", !.left = CacheTtl,
                                               !.outdated = FALSE]]
    /\ UNCHANGED <<source, cache, lease, rebuild, releasing, served, faults>>

HeartbeatBuild(b) ==
    /\ Building(b)
    /\ LeaseLive(build[b].token)
    /\ lease' = [lease EXCEPT !.left = BuildLeaseFor]
    /\ UNCHANGED <<source, cache, rebuild, build, releasing, served, faults>>

\* The worker's outcome is fenced by its job lease and part of the publication.
JobFence(b) == b \in Workers => rebuild.status = "running" /\ rebuild.holder = b

CanPublish(b) ==
    /\ build[b].pc = "publish"
    /\ source.exists
    /\ LeaseLive(build[b].token)
    /\ JobFence(b)

\* The publication transaction ends the build, its lease and its job.
EndBuild(b) ==
    /\ lease' = NoLease
    /\ IF b \in Workers THEN rebuild' = JobBecomes(b, "none") ELSE UNCHANGED rebuild
    /\ UNCHANGED <<source, releasing, served, faults>>

EndedPass(b) ==
    IF b \in Workers THEN NoBuild
    ELSE [build[b] EXCEPT !.pc = "wait", !.token = NoToken, !.rev = 0, !.seen = 0,
                          !.left = 0, !.outdated = FALSE]

\* The cached row gives way to a later revision, or to a later rendering of it.
Replaceable(b) ==
    \/ ~cache.present
    \/ cache.rev < build[b].rev
    \/ cache.rev = build[b].rev /\ ~build[b].outdated

\* The other candidates that are rendered and not yet published.
Candidates(b) == {c \in Builders \ {b} : build[c].pc = "publish"}

\* Mutant: the candidate's revision is not compared with the source's.
UncheckedPublish(b, older) ==
    /\ CanPublish(b)
    /\ Replaceable(b)
    /\ cache' = [present |-> TRUE, rev |-> build[b].rev, seen |-> build[b].seen,
                 left |-> build[b].left]
    /\ build' = [build EXCEPT ![b] = EndedPass(b)]
    /\ EndBuild(b)

\* Mutant: a plain upsert, the last writer wins.
BlindPublish(b, older) ==
    /\ build[b].pc = "publish"
    /\ source.exists
    /\ JobFence(b)
    /\ cache' = [present |-> TRUE, rev |-> build[b].rev, seen |-> build[b].seen,
                 left |-> build[b].left]
    /\ build' = [build EXCEPT ![b] = EndedPass(b)]
    /\ EndBuild(b)

\* Published: `older` are the other candidates that were generated before it.
Publish(b, older) ==
    /\ CanPublish(b)
    /\ build[b].rev = source.rev
    /\ Replaceable(b)
    /\ cache' = [present |-> TRUE, rev |-> build[b].rev, seen |-> build[b].seen,
                 left |-> build[b].left]
    /\ build' = [c \in Builders |->
                    IF c = b THEN EndedPass(b)
                    ELSE [build[c] EXCEPT !.outdated = @ \/ c \in older]]
    /\ EndBuild(b)

\* SourceRevisionChanged or ExistingCacheNewer: the bytes are discarded, and the
\* job has succeeded all the same.
Discard(b) ==
    /\ CanPublish(b)
    /\ ~(build[b].rev = source.rev /\ Replaceable(b))
    /\ build' = [build EXCEPT ![b] = EndedPass(b)]
    /\ EndBuild(b)
    /\ UNCHANGED cache

\* The retry budget decides whether a failed job is queued again.
AfterError == {"queued", "none"}

\* An error ends the build: its release statement is sent, the worker's job is
\* retried or failed, and a request falls back on the queue.
FailBuild(b, status) ==
    /\ releasing' = releasing \cup ({build[b].token} \ {NoToken})
    /\ IF b \in Workers
       THEN /\ rebuild' = JobBecomes(b, status)
            /\ build' = [build EXCEPT ![b] = NoBuild]
       ELSE /\ build' = [build EXCEPT ![b] = [EndedPass(b) EXCEPT !.pc = "enqueue"]]
            /\ UNCHANGED rebuild
    /\ UNCHANGED <<source, cache, lease, served>>

\* The source is gone: a permanent failure.
SourceNotFound(b) ==
    /\ build[b].pc \in {"acquire", "find"}
    /\ ~source.exists
    /\ FailBuild(b, "none")
    /\ UNCHANGED faults

\* The source, the build lease or the job lease is gone: nothing is committed.
PublishFails(b, status) ==
    /\ build[b].pc = "publish"
    /\ ~CanPublish(b)
    /\ FailBuild(b, status)
    /\ UNCHANGED faults

\* A statement fails or the worker's timeout drops the build.
BuildError(b, status) ==
    /\ build[b].pc = "acquire" \/ Building(b)
    /\ faults < MaxFaults
    /\ faults' = faults + 1
    /\ FailBuild(b, status)

\* The process dies: nothing is released and a job stays running until recovery.
BuilderDies(b) ==
    /\ build[b].pc # "idle"
    /\ faults < MaxFaults
    /\ faults' = faults + 1
    /\ build' = [build EXCEPT ![b] = NoBuild]
    /\ rebuild' = IF rebuild.holder = b THEN [rebuild EXCEPT !.holder = NoWorker] ELSE rebuild
    /\ UNCHANGED <<source, cache, lease, releasing, served>>

\* A reader hangs up: the build is dropped and its release statement spawned.
RequestDropped(r) ==
    /\ build[r].pc # "idle"
    /\ faults < MaxFaults
    /\ faults' = faults + 1
    /\ releasing' = releasing \cup ({build[r].token} \ {NoToken})
    /\ build' = [build EXCEPT ![r] = NoBuild]
    /\ UNCHANGED <<source, cache, lease, rebuild, served>>

\* release_build, called on an error or spawned when the build is dropped.
Release(token) ==
    /\ token \in releasing
    /\ releasing' = releasing \ {token}
    /\ lease' = IF LeaseLive(token) THEN NoLease ELSE lease
    /\ UNCHANGED <<source, cache, rebuild, build, served, faults>>

\* The statement failed or its process died; the lease has to expire.
ReleaseLost(token) ==
    /\ token \in releasing
    /\ faults < MaxFaults
    /\ faults' = faults + 1
    /\ releasing' = releasing \ {token}
    /\ UNCHANGED <<source, cache, lease, rebuild, build, served>>

\* An abandoned job's lease passes and recovery takes it back ...
RecoverRebuild(status) ==
    /\ rebuild.status = "running"
    /\ rebuild.holder = NoWorker
    /\ rebuild' = [rebuild EXCEPT !.status = status]
    /\ UNCHANGED <<source, cache, lease, build, releasing, served, faults>>

\* ... or takes it from a worker that is still building.
JobLeaseLost(status) ==
    /\ rebuild.status = "running"
    /\ rebuild.holder # NoWorker
    /\ faults < MaxFaults
    /\ faults' = faults + 1
    /\ rebuild' = [status |-> status, holder |-> NoWorker]
    /\ UNCHANGED <<source, cache, lease, build, releasing, served>>

-----------------------------------------------------------------------------
(* Requests that could not rebuild. *)

\* What a request that could not wait, or waited in vain, answers: the expired
\* bytes it read first, or nothing.
AnswersStale(r) ==
    /\ build' = [build EXCEPT ![r] = NoBuild]
    /\ served' = [served EXCEPT ![r] = IF build[r].hasStale THEN build[r].stale ELSE @]

\* A request that failed to rebuild leaves the work to the queue, and waits for
\* the cache only when the job was there already.  The jobs table has no reference
\* to the sources table, so a job is enqueued for a deleted source too.
EnqueueRebuild(r) ==
    /\ build[r].pc = "enqueue"
    /\ rebuild' = EnqueuedRebuild
    /\ IF rebuild.status = "none" THEN AnswersStale(r)
       ELSE build' = [build EXCEPT ![r] = EndedPass(r)] /\ UNCHANGED served
    /\ UNCHANGED <<source, cache, lease, releasing, faults>>

EnqueueFails(r) ==
    /\ build[r].pc = "enqueue"
    /\ faults < MaxFaults
    /\ faults' = faults + 1
    /\ AnswersStale(r)
    /\ UNCHANGED <<source, cache, lease, rebuild, releasing>>

GiveUpWaiting(r) ==
    /\ build[r].pc = "wait"
    /\ ~(source.exists /\ Fresh)
    /\ AnswersStale(r)
    /\ UNCHANGED <<source, cache, lease, rebuild, releasing, faults>>

Elapse(t) == IF t > 0 THEN t - 1 ELSE 0

\* A running build renews its lease in time unless a heartbeat is missed.
HeartbeatDue ==
    lease.left = 1 /\ \E b \in Builders : Building(b) /\ build[b].token = lease.token

Tick ==
    /\ cache.left > 0 \/ lease.left > 0 \/ \E b \in Builders : build[b].left > 0
    /\ IF HeartbeatDue THEN faults < MaxFaults /\ faults' = faults + 1
       ELSE UNCHANGED faults
    /\ cache' = [cache EXCEPT !.left = Elapse(@)]
    /\ lease' = [lease EXCEPT !.left = Elapse(@)]
    /\ build' = [b \in Builders |-> [build[b] EXCEPT !.left = Elapse(@)]]
    /\ UNCHANGED <<source, rebuild, releasing, served>>

-----------------------------------------------------------------------------
BuildStep(b) ==
    \/ \E token \in Tokens : Acquire(b, token)
    \/ AlreadyActive(b) \/ FindSource(b) \/ ListArticles(b) \/ Render(b)
    \/ \E older \in SUBSET Candidates(b) : Publish(b, older)
    \/ Discard(b)
    \/ SourceNotFound(b)
    \/ \E status \in AfterError : PublishFails(b, status)

WorkerStep(w) == ClaimRebuild(w) \/ BuildStep(w)

RequestStep(r) ==
    \/ ServeFresh(r) \/ RequestRebuild(r) \/ BuildStep(r)
    \/ EnqueueRebuild(r) \/ GiveUpWaiting(r)

Fault(b) ==
    \/ \E status \in AfterError : BuildError(b, status)
    \/ BuilderDies(b)

Recover ==
    \/ \E token \in Tokens : Release(token)
    \/ \E status \in AfterError : RecoverRebuild(status)

Lost ==
    \/ \E b \in Builders : Fault(b)
    \/ \E r \in Requests : RequestDropped(r) \/ EnqueueFails(r)
    \/ \E token \in Tokens : ReleaseLost(token)
    \/ \E status \in AfterError : JobLeaseLost(status)

FeedNext ==
    \/ SyncCommits \/ EditSource \/ DeleteSource
    \/ \E w \in Workers : WorkerStep(w)
    \/ \E r \in Requests : RequestStep(r)
    \/ \E b \in Builders : HeartbeatBuild(b)
    \/ Recover
    \/ Lost
    \/ Tick

FeedSpec == FeedInit /\ [][FeedNext]_feedVars

\* Worker loops poll, readers come back, recovery and release statements run and
\* time passes.  Nothing is assumed of changes, heartbeats and faults.
FairFeedSpec ==
    /\ FeedSpec
    /\ \A w \in Workers : WF_feedVars(WorkerStep(w))
    /\ \A r \in Requests : WF_feedVars(RequestStep(r))
    /\ WF_feedVars(Recover)
    /\ WF_feedVars(Tick)

-----------------------------------------------------------------------------
(* Invariants. *)

\* Every variable has its type, and only requests fall back on an expired cache.
FeedTypeOK ==
    /\ source \in [exists : BOOLEAN, rev : Nat]
    /\ cache \in CacheRow
    /\ lease \in LeaseRow
    /\ rebuild \in JobRecord
    /\ build \in [Builders -> BuildRecord]
    /\ releasing \in SUBSET Tokens
    /\ served \in [Requests -> Nat]
    /\ faults \in Nat

\* A cached feed shows the articles of exactly the revision it is labelled with,
\* although the two are read by separate statements and no lock is held between
\* them, and it is never ahead of the source (rebuild_with_lease and the revision
\* check of publish_if_current).
CacheNamesContent ==
    cache.present => cache.seen = cache.rev /\ cache.rev <= source.rev

\* A builder whose lease is still live never finds a later rendering in the cache:
\* the build lease already orders the renderings of a revision, so the
\* ExistingCacheNewer outcome of publish_if_current is a second line of defence.
HolderNotOutdated ==
    \A b \in Builders : CanPublish(b) /\ build[b].rev = source.rev => Replaceable(b)

\* What a candidate was read from: the source's revision first, the articles after.
CandidateBounds ==
    \A b \in Builders :
        /\ build[b].rev <= source.rev
        /\ build[b].seen <= source.rev
        /\ build[b].pc \in {"render", "publish"} => build[b].rev <= build[b].seen

\* No two builds hold the same token, and the holder of a live lease rendered last.
LeaseFences ==
    /\ lease.token = NoToken => lease.left = 0
    /\ \A b \in Builders : LeaseLive(build[b].token) => ~build[b].outdated
    /\ \A b \in Builders : build[b].pc = "acquire" => ~build[b].outdated

\* What readers were answered with, and may still be, is not ahead of the cache.
ServedBounds ==
    /\ cache.present => \A r \in Requests :
           served[r] <= cache.rev /\ (build[r].hasStale => build[r].stale <= cache.rev)
    /\ ~cache.present /\ source.exists =>
           \A r \in Requests : served[r] = 0 /\ ~build[r].hasStale
    /\ \A r \in Requests : build[r].hasStale => served[r] <= build[r].stale

\* The inductive invariant.
FeedInv ==
    /\ FeedTypeOK
    /\ CacheNamesContent
    /\ CandidateBounds
    /\ LeaseFences
    /\ ServedBounds

-----------------------------------------------------------------------------
(* Action and temporal properties. *)

\* A slow builder never replaces a cached feed by an older one (the
\* compare-and-swap of publish_if_current).
CacheForward ==
    [][cache.present /\ cache'.present => cache.rev <= cache'.rev]_feedVars

\* No reader sees the feed go back, whether it is answered from the cache, after
\* a wait or with the expired bytes it read first (get_feed, rebuild_and_deliver).
ServedForward ==
    [][\A r \in Requests : served[r] <= served'[r]]_feedVars

\* While readers come back the cache reaches the current revision again and again,
\* whatever crashed, lost its lease or was discarded before.
CatchesUp == []<>(source.exists => cache.present /\ cache.rev = source.rev)

\* A rebuild enqueued for a source that is gone leaves the queue for good.
OrphansDrain == <>[](source.exists \/ rebuild.status = "none")

\* Both: the cache keeps up with a source that stays, the queue forgets one that goes.
FeedProgress == CatchesUp /\ OrphansDrain
=============================================================================
