----------------------------- MODULE AssetCache -----------------------------
(***************************************************************************)
(* The image cache: PostgreSQL rows and objects of an external blob store  *)
(* (persistence/repositories/asset_repository.rs, unit_of_work.rs).        *)
(*                                                                         *)
(* Rows change when a transaction commits, objects change at once, so a    *)
(* unit of work remembers the objects it wrote and the evictions it        *)
(* decided until its outcome is known.  Two durable queues carry what is   *)
(* still to be deleted.  The asset-capacity advisory lock is held from the *)
(* first row a cache transaction reads until it ends: there is one such    *)
(* transaction, tx, at a time, and it works on its own copy of the tables. *)
(* Clean-up after a rollback and the queue drains run outside of it, and a *)
(* request to the store that was given up (BlobStore) may land at any time.*)
(***************************************************************************)
EXTENDS Integers, Sequences, FiniteSets, FiniteSetsExt

CONSTANTS
    Urls,        \* image URLs
    Bodies,      \* response bodies
    BodySize,    \* BodySize[c]: bytes of a body
    Articles,
    BlobIds,     \* blob identifiers, numbers: of equal bytes the lowest id is found
    MaxBytes,    \* max_cache_size_bytes, 0 for no limit
    MaxCount,    \* max_count_per_article
    MaxVer,      \* bound: record versions of one URL
    MaxLost      \* bound: lost objects after which no transaction begins, and blobs in
                 \* hist.reused after which no more deletions are given up

ASSUME CacheConstants ==
    /\ BlobIds \subseteq Nat \ {0} /\ IsFiniteSet(BlobIds)
    /\ "none" \notin Bodies /\ BodySize \in [Bodies -> Nat \ {0}]
    /\ MaxBytes \in Nat /\ MaxCount \in Nat \ {0} /\ MaxVer \in Nat \ {0} /\ MaxLost \in Nat

VARIABLES
    tab,    \* the committed tables
    obj,    \* blobs that have an object in the store
    tx,     \* the transaction that holds the capacity lock
    tasks,  \* objects that a rolled back unit of work still has to delete
    hist    \* history: lost, objects that nobody will delete; reused, blobs that
            \* may be in use while their object is on its way out; over, evictions
            \* were forgotten

cacheVars == <<tab, obj, tx, tasks, hist>>

NoBlob == 0
NoRec == [blob |-> NoBlob, st |-> "none"]
Idle == [kind |-> "idle"]
Records == Urls \X (1 .. MaxVer)

-----------------------------------------------------------------------------
(* Reading a table state t. *)

Rows(t) == {b \in BlobIds : t.blob[b] # "none"}
Linked(t, r) == t.rec[r].st # "none" /\ \E a \in Articles : <<a, r>> \in t.link

\* A new identifier is one that nothing refers to, a lost object included.
Unused(t) == BlobIds \ (Rows(t) \cup obj \cup t.clnq \cup t.delq \cup tasks \cup hist.lost)
NewBlobId(t) == CHOOSE b \in BlobIds : b \in Unused(t)
RoomForBlob(t) == \E b \in BlobIds : b \in Unused(t)

\* The newest version of a URL's record, 0 when it has none.
Current(t, u) == LET S == {v \in 1 .. MaxVer : t.rec[<<u, v>>] # NoRec}
                 IN IF S = {} THEN 0 ELSE Max(S)

\* A row that may be reused: same bytes, not queued for deletion, object there.
Reusable(t, b, c) == b \in Rows(t) /\ t.blob[b] = c /\ b \notin t.delq /\ b \in obj

\* last_accessed_at becomes the present: b is younger than every other row.
Touch(t, b) ==
    [t EXCEPT !.older = {p \in @ : p[1] # b} \cup ((Rows(t) \ {b}) \X {b})]
MarkMissing(t, S) ==
    [t EXCEPT !.rec = [r \in Records |->
        IF @[r].blob \in S /\ @[r].st = "available" THEN [@[r] EXCEPT !.st = "missing"] ELSE @[r]]]

-----------------------------------------------------------------------------
(* The capacity decision. *)

\* The bytes of a set of rows, each with its place in its body.
PlacesOf(t, b) == {b} \X (1 .. BodySize[t.blob[b]])
Bytes(t, S) == Cardinality(UNION {PlacesOf(t, b) : b \in S})

\* Rows whose object the store still reports.
cached_byte_size(t, excluded) == Bytes(t, (Rows(t) \cap obj) \ excluded)

\* What repeated calls find: the oldest rows that have an object and are not
\* protected, as many as there were calls.
oldest_stored(t, protected) ==
    LET stored == (Rows(t) \cap obj) \ protected
    IN {V \in SUBSET stored : \A v \in V, b \in stored : <<b, v>> \in t.older => b \in V}

\* pend are the bodies this unit of work has written.
Fits(t, pend, gone, add) ==
    cached_byte_size(t, pend \cup gone) + Bytes(t, pend \ gone) + add <= MaxBytes

\* The evictions: no more of the oldest unprotected bodies than make room, or
\* failure.
enforce_cache_limit(t, pend, deferred, protected, add) ==
    LET enough == {V \in oldest_stored(t, protected \cup deferred) :
                       Fits(t, pend, deferred \cup V, add)}
    IN IF MaxBytes = 0 THEN [ok |-> TRUE, evict |-> {}]
       ELSE IF add > MaxBytes \/ enough = {} THEN [ok |-> FALSE, evict |-> {}]
       ELSE [ok |-> TRUE, evict |-> CHOOSE V \in enough : \A W \in enough : V \subseteq W]

-----------------------------------------------------------------------------
(* A unit of work that replaces the images of one article. *)

\* Hints for every input: the stored blob with its bytes.
prepare_asset_batch(t, inputs) ==
    [i \in 1 .. Len(inputs) |->
        LET S == {b \in BlobIds : Reusable(t, b, inputs[i].c)}
        IN IF S = {} THEN NoBlob ELSE Min(S)]

\* begin_with_assets and replace_for_article: relations of the article go, in
\* the savepoint; base is what its rollback returns to.
BeginReplace(a, inputs) ==
    /\ tx = Idle /\ Cardinality(hist.lost) < MaxLost
    /\ 1 <= Len(inputs) /\ Len(inputs) <= MaxCount
    /\ tx' = [kind |-> "replace", ph |-> "store", art |-> a, inputs |-> inputs, next |-> 1,
              hints |-> prepare_asset_batch(tab, inputs), base |-> tab,
              t |-> [tab EXCEPT !.link = {p \in @ : p[1] # a}],
              got |-> <<>>, newly |-> {}, pend |-> {}, deferred |-> {}, reused |-> {}]
    /\ UNCHANGED <<tab, obj, tasks, hist>>

Input == tx.inputs[tx.next]

\* The blob an earlier input of the batch with the same bytes got.
BatchMatch == LET S == {i \in 1 .. tx.next - 1 : tx.inputs[i].c = Input.c}
              IN IF S = {} THEN NoBlob ELSE tx.got[Min(S)]
Hint == tx.hints[tx.next]

\* The fast path: the newest record already has these bytes.
KeepRecord ==
    LET v == Current(tx.t, Input.u) IN
    /\ v # 0 /\ Hint # NoBlob
    /\ tx.t.rec[<<Input.u, v>>].blob = Hint
    /\ Reusable(tx.t, Hint, Input.c)

Matching == IF BatchMatch # NoBlob THEN BatchMatch ELSE Hint

\* attach: the record is related to the article; then the next input.
Stored(t, r, b, new, evicted) ==
    tx' = [tx EXCEPT !.t = [t EXCEPT !.link = @ \cup {<<tx.art, r>>}],
                     !.got = Append(@, b), !.next = @ + 1,
                     !.ph = IF tx.next = Len(tx.inputs) THEN "decide" ELSE "store",
                     !.newly = @ \cup new, !.pend = @ \cup new,
                     !.reused = @ \cup ({b} \cap tx.deferred),
                     !.deferred = @ \cup evicted]

\* A new version of the URL's record on blob b.
NewVersion(t, b) == [t EXCEPT !.rec[<<Input.u, Current(t, Input.u) + 1>>] =
                        [blob |-> b, st |-> "available"]]

\* store_one without a write: the record, or the blob under a new record.
StoreReuse ==
    LET r == <<Input.u, Current(tx.t, Input.u)>>
        next == <<Input.u, Current(tx.t, Input.u) + 1>>
    IN /\ tx.kind = "replace" /\ tx.ph = "store"
       /\ \/ /\ KeepRecord
             /\ Stored(Touch([tx.t EXCEPT !.rec[r].st = "available"], Hint), r, Hint, {}, {})
          \/ /\ ~KeepRecord /\ Reusable(tx.t, Matching, Input.c)
             /\ next \in Records
             /\ Stored(Touch(NewVersion(tx.t, Matching), Matching), next, Matching, {}, {})
       /\ UNCHANGED <<tab, obj, tasks, hist>>

\* The rows of a body that has been written: insert_blob's INSERT.
InsertRow(t, b, c) == [t EXCEPT !.blob[b] = c, !.older = @ \cup (Rows(t) \X {b})]

\* insert_blob succeeds: evictions are decided and remembered, the object is
\* written, its row inserted.
StoreWrite ==
    LET b == NewBlobId(tx.t)
        protected == {tx.got[i] : i \in 1 .. Len(tx.got)}
        cap == enforce_cache_limit(tx.t, tx.pend, tx.deferred, protected, BodySize[Input.c])
        t1 == InsertRow(MarkMissing(tx.t, cap.evict), b, Input.c)
        next == <<Input.u, Current(tx.t, Input.u) + 1>>
    IN /\ tx.kind = "replace" /\ tx.ph = "store"
       /\ ~KeepRecord /\ ~Reusable(tx.t, Matching, Input.c)
       /\ RoomForBlob(tx.t) /\ next \in Records
       /\ cap.ok
       /\ obj' = obj \cup {b}
       /\ Stored(NewVersion(t1, b), next, b, {b}, cap.evict)
       /\ UNCHANGED <<tab, tasks, hist>>

\* store_one fails: the body cannot fit, or the put failed and may have left an
\* object.  The savepoint is rolled back, the evictions of the batch forgotten
\* and what it wrote is deleted (cleanup_new_blobs): an object that cannot be
\* deleted gets a cleanup row, in the enclosing transaction.  It is forgotten when
\* that INSERT fails as well, which gives only a warning and leaves a transaction
\* to be abandoned, or when a put that was given up lands after the deletion.
StoreFails(written) ==
    LET protected == {tx.got[i] : i \in 1 .. Len(tx.got)}
        cap == enforce_cache_limit(tx.t, tx.pend, tx.deferred, protected, BodySize[Input.c])
        made == tx.newly \cup (IF written THEN {NewBlobId(tx.t)} ELSE {})
    IN /\ tx.kind = "replace" /\ tx.ph = "store"
       /\ RoomForBlob(tx.t)
       /\ written => cap.ok /\ ~KeepRecord /\ ~Reusable(tx.t, Matching, Input.c)
       /\ \E undeleted \in SUBSET made : \E forgotten \in SUBSET (made \ undeleted) :
             /\ obj' = (obj \ made) \cup undeleted \cup forgotten
             /\ tx' = [tx EXCEPT !.t = [tx.base EXCEPT !.clnq = @ \cup undeleted],
                                 !.newly = {}, !.pend = {}, !.deferred = {}, !.reused = {},
                                 !.ph = "decide"]
             /\ hist' = [hist EXCEPT !.lost = @ \cup forgotten]
       /\ UNCHANGED <<tab, tasks>>

CommitCleansUp(done) ==
    /\ tx.kind = "replace" /\ tx.ph = "decide"
    /\ tab' = IF done THEN [tx.t EXCEPT !.delq = @ \cup tx.deferred] ELSE tab
    /\ tasks' = tasks \cup tx.newly
    /\ hist' = [hist EXCEPT !.reused = @ \cup tx.reused, !.over = @ /\ tx.pend = {},
                            !.lost = @ \cup tx.t.clnq]
    /\ tx' = Idle
    /\ UNCHANGED obj

\* commit: the deferred evictions are queued with the rows.  An error is
\* ambiguous: nothing is cleaned up, whichever way the database decided.
Commit(done) ==
    /\ tx.kind = "replace" /\ tx.ph = "decide"
    /\ tab' = IF done THEN [tx.t EXCEPT !.delq = @ \cup tx.deferred] ELSE tab
    /\ hist' = IF done
               THEN [hist EXCEPT !.reused = @ \cup tx.reused, !.over = @ /\ tx.pend = {}]
               ELSE [hist EXCEPT !.lost = @ \cup (tx.newly \cap obj) \cup (tx.t.clnq \ tab.clnq)]
    /\ tx' = Idle
    /\ UNCHANGED <<obj, tasks>>

\* rollback, or the drop of an unfinished unit of work: the objects it still
\* remembers are deleted after the rows are gone.
Abandon ==
    /\ tx.kind = "replace"
    /\ tasks' = tasks \cup tx.newly
    /\ hist' = [hist EXCEPT !.lost = @ \cup (tx.t.clnq \ tab.clnq)]
    /\ tx' = Idle
    /\ UNCHANGED <<tab, obj>>

CleanupTaskUnqueued(b, end) ==
    /\ b \in tasks
    /\ tasks' = tasks \ {b}
    /\ obj' = IF end = "deleted" THEN obj \ {b} ELSE obj
    /\ UNCHANGED <<tab, tx, hist>>

\* cleanup_external_blobs and cleanup_blob_ids_after_rollback: deleted, or after
\* failures queued; forgotten when the INSERT fails too, the clean-up is dropped, or
\* a put that was given up lands after the deletion.
CleanupTask(b, end) ==
    /\ b \in tasks
    /\ tasks' = tasks \ {b}
    /\ obj' = IF end = "deleted" THEN obj \ {b} ELSE obj
    /\ tab' = IF end = "queued" THEN [tab EXCEPT !.clnq = @ \cup {b}] ELSE tab
    /\ tx' = IF tx = Idle \/ end # "queued" THEN tx
             ELSE [tx EXCEPT !.t.clnq = @ \cup {b}, !.base.clnq = @ \cup {b}]
    /\ hist' = IF end = "forgotten" THEN [hist EXCEPT !.lost = @ \cup {b}] ELSE hist

-----------------------------------------------------------------------------
(* Restoring the bytes of one record. *)

\* restore_missing_asset up to the lease check; the record must be linked and
\* unreadable, and bytes that are stored already are reused.
BeginRestore(r, c, ok) ==
    LET S == {b \in BlobIds : Reusable(tab, b, c)}
        b == NewBlobId(tab)
        cap == enforce_cache_limit(tab, {}, {}, {}, BodySize[c])
        t1 == InsertRow(MarkMissing(tab, cap.evict), b, c)
        use == IF S # {} THEN Min(S) ELSE b
        t2 == IF S # {} THEN tab ELSE t1
    IN /\ tx = Idle /\ Cardinality(hist.lost) < MaxLost
       /\ Linked(tab, r)
       /\ ~(tab.rec[r].blob \in obj /\ tab.rec[r].blob \notin tab.delq)
       /\ S # {} \/ (RoomForBlob(tab) /\ cap.ok)
       /\ ok \/ S = {}
       /\ obj' = obj \cup {use}
       /\ tx' = [kind |-> "restore", rec |-> r, blob |-> use, evict |-> IF S # {} THEN {} ELSE cap.evict,
                 newly |-> IF S # {} THEN {} ELSE {use}, failed |-> ~ok,
                 base |-> tab, t |-> Touch([t2 EXCEPT !.rec[r] = [blob |-> use, st |-> "available"]], use)]
       /\ UNCHANGED <<tab, tasks, hist>>

\* The lease is live: the record points at the bytes.  The evictions that made
\* room for them are not queued.
CommitRestore(done) ==
    /\ tx.kind = "restore" /\ ~tx.failed
    /\ tab' = IF done THEN tx.t ELSE tab
    /\ hist' = IF done THEN [hist EXCEPT !.over = @ \/ tx.evict # {}]
               ELSE [hist EXCEPT !.lost = @ \cup tx.newly]
    /\ tx' = Idle
    /\ UNCHANGED <<obj, tasks>>

\* The put failed or the lease is lost: cleanup_blob_ids_after_rollback.  A restore
\* that is dropped has no guard that would clean up.
AbandonRestore(dropped) ==
    /\ tx.kind = "restore"
    /\ tasks' = IF dropped THEN tasks ELSE tasks \cup tx.newly
    /\ hist' = IF dropped THEN [hist EXCEPT !.lost = @ \cup tx.newly] ELSE hist
    /\ tx' = Idle
    /\ UNCHANGED <<tab, obj>>

-----------------------------------------------------------------------------
(* Reading, unlinking and maintenance. *)

\* read_and_touch, under the lock; a missing body is answered as missing.
ReadAndTouch(r) ==
    /\ tx = Idle
    /\ Linked(tab, r)
    /\ tab.rec[r].blob \in obj \ tab.delq
    /\ tab' = Touch(tab, tab.rec[r].blob)
    /\ UNCHANGED <<obj, tx, tasks, hist>>

\* An empty replacement or a deleted article; takes no capacity lock, but the
\* article's row lock.
ClearForArticle(a) ==
    /\ \E r \in Records : <<a, r>> \in tab.link
    /\ tx.kind = "replace" => tx.art # a
    /\ tab' = [tab EXCEPT !.link = {p \in @ : p[1] # a}]
    /\ tx' = IF tx = Idle THEN tx
             ELSE [tx EXCEPT !.t.link = {p \in @ : p[1] # a}, !.base.link = {p \in @ : p[1] # a}]
    /\ UNCHANGED <<obj, tasks, hist>>

\* Rows not read for max_age, as far as they have an object.
evict_stale_blobs(t) == oldest_stored(t, {})

\* Records without an article go, but for those with an active repair.
DeleteOrphans(t, repaired) ==
    LET t1 == [t EXCEPT !.rec = [r \in Records |->
                  IF r \in repaired \/ \E a \in Articles : <<a, r>> \in t.link
                  THEN t.rec[r] ELSE NoRec]]
        dead == {b \in Rows(t1) : \A r \in Records : t1.rec[r].blob # b}
    IN [t |-> [t1 EXCEPT !.blob = [b \in BlobIds |-> IF b \in dead THEN "none" ELSE @[b]],
                         !.older = {p \in @ : p[1] \notin dead /\ p[2] \notin dead}],
        dead |-> dead]

\* maintenance inside its transaction: age, size, orphans.
MaintainedTo(stale, repaired) ==
    LET t1 == MarkMissing(tab, stale)
        cap == enforce_cache_limit(t1, {}, stale, {}, 0)
    IN DeleteOrphans([MarkMissing(t1, cap.evict) EXCEPT !.delq = @ \cup stale \cup cap.evict],
                     repaired)

\* The pass commits once all orphan objects are deleted.
Maintain(stale, repaired) ==
    /\ tx = Idle
    /\ stale \in evict_stale_blobs(tab)
    /\ obj' = obj \ MaintainedTo(stale, repaired).dead
    /\ tab' = MaintainedTo(stale, repaired).t
    /\ hist' = [hist EXCEPT !.over = FALSE, !.reused = @ \ MaintainedTo(stale, repaired).dead]
    /\ UNCHANGED <<tx, tasks>>

\* An orphan object that cannot be deleted, or a failing commit, rolls the rows back;
\* the objects deleted before it stay deleted, and a deletion that was given up may
\* still land.
MaintainFails(stale, repaired) ==
    /\ tx = Idle
    /\ stale \in evict_stale_blobs(tab)
    /\ LET dead == MaintainedTo(stale, repaired).dead
       IN \E gone \in SUBSET dead, late \in SUBSET (dead \cap obj) :
             /\ late # {} => Cardinality(hist.reused) < MaxLost
             /\ obj' = obj \ gone
             /\ hist' = [hist EXCEPT !.reused = @ \cup (late \ gone)]
    /\ UNCHANGED <<tab, tx, tasks>>

\* drain_blob_deletion_queue and drain_blob_cleanup_queue: all of the queue, or
\* a part and the rows stay.
Drain(queue, gone) ==
    /\ tx = Idle
    /\ queue # {} /\ gone \subseteq queue
    /\ obj' = obj \ gone

DrainDeletions(gone) ==
    /\ Drain(tab.delq, gone)
    /\ tab' = IF gone = tab.delq THEN [tab EXCEPT !.delq = {}] ELSE tab
    /\ UNCHANGED <<tx, tasks, hist>>

DrainCleanups(gone) ==
    /\ Drain(tab.clnq, gone)
    /\ tab' = IF gone = tab.clnq THEN [tab EXCEPT !.clnq = {}] ELSE tab
    /\ UNCHANGED <<tx, tasks, hist>>

\* A delete that maintenance gave up lands, perhaps after the blob was reused.
LateDelete(b) ==
    /\ b \in hist.reused \cap obj
    /\ obj' = obj \ {b}
    /\ UNCHANGED <<tab, tx, tasks, hist>>

\* The process dies: the transaction rolls back, what it remembered is lost.
Crash ==
    /\ tx # Idle \/ tasks # {}
    /\ hist' = [hist EXCEPT !.lost = @ \cup tasks \cup
                   (IF tx = Idle THEN {} ELSE tx.newly \cup (tx.t.clnq \ tab.clnq))]
    /\ tx' = Idle /\ tasks' = {}
    /\ UNCHANGED <<tab, obj>>

-----------------------------------------------------------------------------
CacheInit ==
    /\ tab = [blob |-> [b \in BlobIds |-> "none"], older |-> {},
              rec |-> [r \in Records |-> NoRec], link |-> {}, delq |-> {}, clnq |-> {}]
    /\ obj = {}
    /\ tx = Idle
    /\ tasks = {}
    /\ hist = [lost |-> {}, reused |-> {}, over |-> FALSE]

Batches == UNION {[1 .. n -> [u : Urls, c : Bodies]] : n \in 1 .. MaxCount}

CacheNext ==
    \/ \E a \in Articles, inputs \in Batches : BeginReplace(a, inputs)
    \/ StoreReuse
    \/ StoreWrite
    \/ \E written \in BOOLEAN : StoreFails(written)
    \/ \E done \in BOOLEAN : Commit(done)
    \/ Abandon
    \/ \E b \in BlobIds, end \in {"deleted", "queued", "forgotten"} : CleanupTask(b, end)
    \/ \E r \in Records, c \in Bodies, ok \in BOOLEAN : BeginRestore(r, c, ok)
    \/ \E done \in BOOLEAN : CommitRestore(done)
    \/ \E dropped \in BOOLEAN : AbandonRestore(dropped)
    \/ \E r \in Records : ReadAndTouch(r)
    \/ \E a \in Articles : ClearForArticle(a)
    \/ \E stale \in SUBSET BlobIds, repaired \in SUBSET {r \in Records : tab.rec[r] # NoRec} :
           Maintain(stale, repaired) \/ MaintainFails(stale, repaired)
    \/ \E S \in SUBSET BlobIds : DrainDeletions(S)
    \/ \E S \in SUBSET BlobIds : DrainCleanups(S)
    \/ \E b \in BlobIds : LateDelete(b)
    \/ Crash

CacheSpec == CacheInit /\ [][CacheNext]_cacheVars

-----------------------------------------------------------------------------
(* Properties. *)

\* A table state: rows, their order of use, records and relations.
Tables == [blob : [BlobIds -> Bodies \cup {"none"}], older : SUBSET (BlobIds \X BlobIds),
           rec : [Records -> [blob : BlobIds \cup {NoBlob}, st : {"none", "available", "missing"}]],
           link : SUBSET (Articles \X Records), delq : SUBSET BlobIds, clnq : SUBSET BlobIds]

\* Each row has its place in the order of use, each record its row, each
\* relation its record.
WellFormed(t) ==
    /\ t \in Tables
    /\ t.older \subseteq Rows(t) \X Rows(t)
    /\ \A b, c \in Rows(t) : <<b, c>> \in t.older <=> b # c /\ <<c, b>> \notin t.older
    /\ \A b, c, d \in Rows(t) : <<b, c>> \in t.older /\ <<c, d>> \in t.older => <<b, d>> \in t.older
    /\ \A r \in Records : t.rec[r] # NoRec => t.rec[r].st # "none" /\ t.rec[r].blob \in Rows(t)
    /\ \A p \in t.link : t.rec[p[2]] # NoRec

\* The committed tables are well formed; objects, queues and history speak of
\* known blobs (asset_blobs, asset_records, article_assets).
CacheTypeOK ==
    /\ WellFormed(tab)
    /\ obj \subseteq BlobIds /\ tasks \subseteq BlobIds
    /\ hist \in [lost : SUBSET BlobIds, reused : SUBSET BlobIds, over : BOOLEAN]

Served(r) == tab.rec[r].blob \in obj \ tab.delq

\* Every image an article shows and whose record says available can be served,
\* whatever was evicted, restored, rolled back, drained or lost since; the two
\* exceptions are a blob that a batch reused after it had decided to evict it, and
\* one reused after maintenance had given up its deletion, which then landed.
AvailableIsServed ==
    \A r \in Records : Linked(tab, r) /\ tab.rec[r].st = "available"
        => Served(r) \/ tab.rec[r].blob \in hist.reused

\* No object is forgotten: it has a row, a cleanup row, or somebody who will
\* delete it.  What the code does lose: the objects of a process that died, of a
\* commit whose answer never came, of a cleanup row that was rolled back or could
\* not be inserted, of a restore that was dropped, and of a put that was given up
\* and came after its clean-up.  Every other way ends in a row or a task.
ObjectsAccounted ==
    obj \subseteq Rows(tab) \cup tab.clnq \cup tasks \cup hist.lost
                 \cup (IF tx = Idle THEN {} ELSE tx.newly \cup tx.t.clnq)

\* The bytes that committed rows keep and that are not on their way out stay
\* within the limit; a restore that forgot the evictions it decided may exceed
\* it until the next write or maintenance pass.
CapRespected ==
    MaxBytes # 0 /\ ~hist.over => Bytes(tab, (Rows(tab) \cap obj) \ tab.delq) <= MaxBytes

\* What the tables and the objects keep between transactions: their shape, no
\* object forgotten, the limit respected.
CacheInv == CacheTypeOK /\ ObjectsAccounted /\ CapRespected
=============================================================================
