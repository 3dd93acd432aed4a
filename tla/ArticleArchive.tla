--------------------------- MODULE ArticleArchive ---------------------------
(***************************************************************************)
(* One article and the jobs that observe it: a source synchronization, an  *)
(* article backfill and an asset refresh (source_sync_handler.rs,          *)
(* article_backfill_handler.rs, asset_refresh_handler.rs, with             *)
(* sync_service.rs, domain/article.rs and article_repository.rs).          *)
(*                                                                         *)
(* A job reserves an observation version, fetches the page, downloads the  *)
(* images and then stores everything in one transaction that holds the     *)
(* source row's lock: Persist is one step, and what it meets can be newer  *)
(* than what the job fetched.  The images' rows are abstracted to the set  *)
(* of assets linked to the article (AssetCache has the rest).              *)
(***************************************************************************)
EXTENDS AssetFetch, ArticleList, FiniteSets

CONSTANTS
    Workers,
    Kind,        \* Kind[w]: the job type of worker w
    Pages,       \* what the upstream page may show
    Lists,       \* answers of the list endpoint that name the article
    Responses,   \* responses to an image request
    MaxVer,      \* bound: observation versions
    MaxJobs      \* bound: jobs at work at the same time

ASSUME ArticleConstants ==
    /\ Kind \in [Workers -> {"sync", "backfill", "refresh"}]
    /\ MaxVer \in Nat \ {0} /\ MaxJobs \in Nat \ {0}
    /\ \A page \in Pages : Len(page.imgs) \in Nat
    /\ \A r \in Responses : r.size \in Nat

VARIABLES
    article,   \* the article's row, NoArticle when there is none
    links,     \* assets linked to it
    source,    \* the source row: present, feed revision; the revision a rebuild
               \* job was last enqueued with (FeedCache runs it)
    seq,       \* article_observation_version_seq
    work,      \* the job in the hands of each worker
    queued,    \* a backfill job for the article is queued
    caching,   \* an asset archiver is configured
    emptied    \* history: a refresh of a page that sanitizes to nothing took the
               \* links of the HTML that is stored

vars == <<article, links, source, seq, work, queued, caching, emptied>>

NoArticle == [version |-> 0]
Idle == [pc |-> "idle"]
Hash(html) == IF html = EmptyHtml THEN <<>> ELSE <<html>>

\* What a synchronization, and the backfill it leaves behind, know of the
\* article before they see its page.
NoReference == [title |-> 0, author |-> 0, published |-> 0]
References ==
    {[title |-> r.title, author |-> r.author, published |-> r.published] :
        r \in UNION {ToSet(parse_article_list_payload(p).refs) : p \in Lists}}

-----------------------------------------------------------------------------
(* The domain's operators. *)

\* The first value that is not blank.
preferred_text(primary, fallback) == IF primary # 0 THEN primary ELSE fallback

\* SyncService::prepare_article on a page that has a title and a time, from
\* itself or from the list.
Preparable(ref, page) ==
    preferred_text(page.title, ref.title) # 0 /\ preferred_text(page.published, ref.published) # 0

prepare_article(ref, page, version) ==
    [title |-> preferred_text(page.title, ref.title), author |-> preferred_text(page.author, ref.author),
     published |-> preferred_text(page.published, ref.published),
     html |-> sanitize(page).html, hash |-> Hash(sanitize(page).html), version |-> version]

\* Every external asset was fetched, in its place, and none is signed.
complete_asset_set(external, fetched) ==
    /\ Len(external) = Len(fetched)
    /\ \A k \in 1 .. Len(external) :
           /\ ~has_provider_signature(external[k])
           /\ Cardinality({j \in 1 .. Len(fetched) : fetched[j].occ = k /\ fetched[j].url = external[k]}) = 1

\* Article::merge_observation: a known value is never replaced by nothing.
merge_observation(current, incoming) ==
    LET html == IF incoming.html = EmptyHtml THEN current.html ELSE incoming.html
    IN [incoming EXCEPT
            !.author = IF @ # 0 THEN @ ELSE current.author,
            !.html = html,
            !.hash = IF @ # <<>> THEN @ ELSE IF html = current.html THEN current.hash ELSE <<>>]

feed_visible_change(current, incoming) ==
    [current EXCEPT !.version = 0] # [incoming EXCEPT !.version = 0]

\* upsert: the row it leaves, and whether readers can see the difference.
upsert(incoming) ==
    IF article = NoArticle THEN [row |-> incoming, changed |-> TRUE]
    ELSE IF incoming.version < article.version THEN [row |-> article, changed |-> FALSE]
    ELSE LET merged == merge_observation(article, incoming)
         IN [row |-> merged, changed |-> feed_visible_change(article, merged)]

-----------------------------------------------------------------------------
Init ==
    /\ article = NoArticle /\ links = {} /\ seq = 0 /\ queued = TRUE /\ emptied = FALSE
    /\ source = [present |-> TRUE, revision |-> 0, rebuild |-> 0]
    /\ work = [w \in Workers |-> Idle]
    /\ caching \in BOOLEAN

\* The job a synchronization left for an article it could not fetch or prepare:
\* one per article, kept until it ends.
TakesQueued(w) == Kind[w] = "backfill" => queued

\* What a failed observation leaves queued: a synchronization adds the backfill
\* (its own transaction may still fail), a backfill stays while it is retried.
AfterFailure(w, temporary) ==
    IF Kind[w] = "sync" THEN IF temporary THEN {queued, TRUE} ELSE {queued}
    ELSE IF Kind[w] = "backfill" THEN {temporary} ELSE {queued}

Set(w, v) == work' = [work EXCEPT ![w] = v]
Give(w) == Set(w, Idle)

\* A lease is taken; a backfill job is the queued one.
Start(w) ==
    /\ work[w] = Idle /\ source.present
    /\ Cardinality({v \in Workers : work[v] # Idle}) < MaxJobs
    /\ TakesQueued(w)
    /\ Kind[w] = "refresh" => article # NoArticle /\ caching
    /\ \E ref \in IF Kind[w] = "refresh" THEN {NoReference} ELSE References :
          Set(w, [pc |-> "allocate", ref |-> ref])
    /\ UNCHANGED <<article, links, source, seq, queued, caching, emptied>>

\* The source is gone, or storage fails before anything was observed: the job
\* fails or is tried again.
GiveUp(w) ==
    /\ work[w].pc \in {"allocate", "page"}
    /\ Give(w)
    /\ queued' = IF Kind[w] = "backfill" /\ ~source.present THEN FALSE ELSE queued
    /\ UNCHANGED <<article, links, source, seq, caching, emptied>>

AllocateFromRow(w) ==
    /\ work[w].pc = "allocate" /\ seq < MaxVer
    /\ seq' = seq + 1
    /\ Set(w, [pc |-> "page", version |-> article.version + 1, ref |-> work[w].ref])
    /\ UNCHANGED <<article, links, source, queued, caching, emptied>>

\* allocate_observation_version, before the page is requested.  A refresh takes
\* the article as it is now for its reference.
Allocate(w) ==
    /\ work[w].pc = "allocate" /\ seq < MaxVer
    /\ seq' = seq + 1
    /\ IF Kind[w] = "refresh" /\ article = NoArticle THEN Give(w)
       ELSE Set(w, [pc |-> "page", version |-> seq + 1, ref |->
                IF Kind[w] # "refresh" THEN work[w].ref
                ELSE [title |-> article.title, author |-> article.author, published |-> article.published]])
    /\ UNCHANGED <<article, links, source, queued, caching, emptied>>

\* The page arrives and is prepared; one that cannot be is a failed article of
\* a synchronization, a failed backfill or an inconclusive refresh.  A page
\* without content is refused before; content that sanitizes to nothing is not.
ObservePage(w, page) ==
    LET j == work[w] IN
    /\ j.pc = "page"
    /\ IF Preparable(j.ref, page)
       THEN /\ Set(w, [pc |-> IF caching /\ sanitize(page).external # <<>> THEN "assets" ELSE "persist",
                       next |-> 1, bytes |-> 0, new |-> prepare_article(j.ref, page, j.version),
                       external |-> sanitize(page).external, fetched |-> <<>>])
            /\ UNCHANGED queued
       ELSE /\ Give(w)
            /\ queued' \in AfterFailure(w, Kind[w] = "sync")
    /\ UNCHANGED <<article, links, source, seq, caching, emptied>>

\* The acquisition fails: a temporary failure queues a backfill or is retried,
\* a permanent one ends the job (a synchronization's own end may drop it).
AcquisitionFails(w, temporary) ==
    /\ work[w].pc = "page"
    /\ Give(w)
    /\ queued' \in AfterFailure(w, temporary)
    /\ UNCHANGED <<article, links, source, seq, caching, emptied>>

AssetsDone(w) == work[w].next > Len(work[w].external) \/ work[w].next > MaxCount \/ work[w].bytes >= MaxFetch

\* fetch_assets: one URL after the other, within the budgets of the article.
FetchAsset(w, r) ==
    LET j == work[w]
        u == j.external[j.next]
        res == fetch_asset(u, r, j.bytes)
    IN /\ j.pc = "assets" /\ ~AssetsDone(w)
       /\ Set(w, [j EXCEPT
             !.next = IF res.stop THEN Len(j.external) + 1 ELSE @ + 1, !.bytes = @ + res.counted,
             !.fetched = IF res.kept THEN Append(@, [url |-> u, occ |-> j.next, asset |-> r.size]) ELSE @])
       /\ UNCHANGED <<article, links, source, seq, queued, caching, emptied>>

\* The images are in memory; a synchronization drops the batch that exceeds
\* what its other articles leave of the memory budget.
AssetsFetched(w) ==
    LET j == work[w] IN
    /\ j.pc = "assets" /\ AssetsDone(w)
    /\ IF Kind[w] = "refresh" /\ ~complete_asset_set(j.external, j.fetched) THEN Give(w)
       ELSE \/ Set(w, [j EXCEPT !.pc = "persist", !.next = 1, !.bytes = 0])
            \/ /\ Kind[w] = "sync" /\ j.fetched # <<>>
               /\ Set(w, [j EXCEPT !.pc = "persist", !.next = 1, !.bytes = 0, !.fetched = <<>>])
    /\ UNCHANGED <<article, links, source, seq, queued, caching, emptied>>

-----------------------------------------------------------------------------
(* The transaction that stores the observation. *)

Assets(fetched) == {[url |-> fetched[k].url, asset |-> fetched[k].asset] : k \in 1 .. Len(fetched)}

\* The images of the article after replace_for_article answered, to a
\* synchronization or a backfill: the links and the HTML and hash to store.
WithoutPreserving(j, stored) ==
    LET local == Rewrite(j.new.html, Assets(j.fetched))
    IN IF ~caching \/ j.new.html = EmptyHtml THEN [links |-> links, new |-> j.new]
       ELSE IF stored THEN [links |-> Assets(j.fetched), new |-> [j.new EXCEPT !.html = local, !.hash = Hash(local)]]
       ELSE [links |-> {}, new |-> j.new]

WithStaleHash(j, stored) ==
    LET cached == article # NoArticle /\ MentionsAssets(article.html)
        local == Rewrite(j.new.html, Assets(j.fetched))
    IN IF ~caching \/ j.new.html = EmptyHtml THEN [links |-> links, new |-> j.new]
       ELSE IF cached /\ (~stored \/ ~complete_asset_set(j.external, j.fetched))
            THEN [links |-> links, new |-> [j.new EXCEPT !.html = article.html]]
       ELSE IF stored THEN [links |-> Assets(j.fetched), new |-> [j.new EXCEPT !.html = local, !.hash = Hash(local)]]
       ELSE [links |-> {}, new |-> j.new]

WithImages(j, stored) ==
    LET incomplete == ~complete_asset_set(j.external, j.fetched)
        preserved == [j.new EXCEPT !.html = article.html, !.hash = article.hash]
        cached == article # NoArticle /\ MentionsAssets(article.html)
        local == Rewrite(j.new.html, Assets(j.fetched))
    IN IF ~caching THEN [links |-> links, new |-> j.new]
       ELSE IF incomplete /\ cached THEN [links |-> links, new |-> preserved]
       ELSE IF j.new.html = EmptyHtml THEN [links |-> links, new |-> j.new]
       ELSE IF stored THEN [links |-> Assets(j.fetched),
                            new |-> [j.new EXCEPT !.html = local, !.hash = IF local # j.new.html THEN Hash(local) ELSE @]]
       ELSE IF cached THEN [links |-> links, new |-> preserved]
       ELSE [links |-> {}, new |-> j.new]

\* A refresh replaces the links whatever its page came to: when that is nothing,
\* the merge keeps the HTML that is stored and its images lose their links.
Refreshed(j) ==
    LET local == Rewrite(j.new.html, Assets(j.fetched))
    IN [links |-> Assets(j.fetched),
        new |-> [j.new EXCEPT !.html = local, !.hash = IF local # j.new.html THEN Hash(local) ELSE @]]

Kept(w, stored) == IF Kind[w] = "refresh" THEN Refreshed(work[w]) ELSE WithImages(work[w], stored)

PublishedRevisionOnly(changed) == IF changed THEN [source EXCEPT !.revision = @ + 1] ELSE source

\* bump_feed_revision and the rebuild job, when readers see a change.
Published(changed) ==
    IF changed THEN [source EXCEPT !.revision = @ + 1, !.rebuild = source.revision + 1] ELSE source

\* A version that is older than the row's is dropped; a refresh also drops its
\* own result when the row has moved on.
Superseded(w, v) ==
    /\ article # NoArticle
    /\ IF Kind[w] = "refresh" THEN article.version >= v ELSE article.version > v

\* stored says whether the cache had room for the images.
Persist(w, stored) ==
    LET j == work[w] IN
    /\ j.pc = "persist" /\ source.present
    /\ Kind[w] = "refresh" => article # NoArticle
    /\ IF Superseded(w, j.new.version) \/ (Kind[w] = "refresh" /\ ~stored)
       THEN UNCHANGED <<article, links, source, emptied>>
       ELSE LET kept == Kept(w, stored)
                done == upsert(kept.new)
            IN /\ article' = done.row /\ links' = kept.links /\ source' = Published(done.changed)
               /\ emptied' = IF Kind[w] = "refresh" THEN j.new.html = EmptyHtml
                             ELSE emptied /\ kept.links = links
    /\ Give(w)
    /\ queued' = (queued /\ Kind[w] # "backfill")
    /\ UNCHANGED <<seq, caching>>

\* The transaction is rolled back: storage failed, the lease was lost, or the
\* source was deleted meanwhile; a refresh of a deleted article just ends.
PersistFails(w) ==
    /\ work[w].pc = "persist"
    /\ Give(w)
    /\ UNCHANGED <<article, links, source, seq, queued, caching, emptied>>

\* The source is deleted with everything that refers to it.
DeleteSource ==
    /\ source.present
    /\ source' = [source EXCEPT !.present = FALSE]
    /\ article' = NoArticle /\ links' = {} /\ queued' = FALSE /\ emptied' = FALSE
    /\ UNCHANGED <<seq, work, caching>>

\* The process ends and comes back, perhaps with the image cache switched on
\* or off; queued jobs stay, leases lapse.
Restart ==
    /\ work' = [w \in Workers |-> Idle]
    /\ caching' \in BOOLEAN
    /\ UNCHANGED <<article, links, source, seq, queued, emptied>>

WorkerStep(w) ==
    \/ Start(w) \/ GiveUp(w) \/ Allocate(w)
    \/ \E page \in Pages : ObservePage(w, page)
    \/ \E t \in BOOLEAN : AcquisitionFails(w, t)
    \/ \E r \in Responses : FetchAsset(w, r)
    \/ AssetsFetched(w)
    \/ \E stored \in BOOLEAN : Persist(w, stored)
    \/ PersistFails(w)

Next == (\E w \in Workers : WorkerStep(w)) \/ DeleteSource \/ Restart

Spec == Init /\ [][Next]_vars

-----------------------------------------------------------------------------
(* What is stored. *)

\* A row and its HTML, by their fields.
IsRow(a) ==
    /\ a = [title |-> a.title, author |-> a.author, published |-> a.published,
            html |-> a.html, hash |-> a.hash, version |-> a.version]
    /\ a.html = [text |-> a.html.text, imgs |-> a.html.imgs]
    /\ a.version \in 1 .. seq

\* What a job can have fetched.
PageUrls == UNION {ToSet(sanitize(page).external) : page \in Pages}
Fetched == [url : PageUrls, occ : Nat, asset : {r.size : r \in Responses}]

IsObservation(j) ==
    /\ j = [pc |-> j.pc, next |-> j.next, bytes |-> j.bytes, new |-> j.new,
            external |-> j.external, fetched |-> j.fetched]
    /\ j.next \in Nat \ {0} /\ j.external \in Seq(PageUrls) /\ j.fetched \in Seq(Fetched)
    /\ IsRow(j.new)

\* Every value is of its type.
TypeOK ==
    /\ seq \in 0 .. MaxVer /\ queued \in BOOLEAN /\ caching \in BOOLEAN /\ emptied \in BOOLEAN
    /\ source \in [present : BOOLEAN, revision : Nat, rebuild : Nat]
    /\ article = NoArticle \/ IsRow(article)
    /\ work = [w \in Workers |-> work[w]]
    /\ \A w \in Workers :
          /\ work[w].pc \in {"idle", "allocate", "page", "assets", "persist"}
          /\ work[w].pc = "page" => work[w].version \in 1 .. seq
          /\ work[w].pc \in {"assets", "persist"} => IsObservation(work[w])

\* The observation version of a job is its own: no other job has it, nor the row.
Observing(w) == work[w].pc \in {"page", "assets", "persist"}
VersionOf(w) == IF work[w].pc = "page" THEN work[w].version ELSE work[w].new.version
VersionsDistinct ==
    \A w \in Workers : Observing(w) =>
        /\ VersionOf(w) # article.version
        /\ \A v \in Workers \ {w} : Observing(v) => VersionOf(v) # VersionOf(w)

\* What a job brings to its transaction is the page as it was sanitized: every
\* image is external and was listed for fetching, and what was fetched has bytes.
PageAsSanitized ==
    \A w \in Workers : work[w].pc \in {"assets", "persist"} =>
        LET j == work[w] IN
        /\ j.new.hash = Hash(j.new.html)
        /\ \A i \in j.new.html.imgs :
              i = [url |-> i.url, asset |-> 0] /\ \E k \in 1 .. Len(j.external) : j.external[k] = i.url
        /\ \A k \in 1 .. Len(j.fetched) : j.fetched[k].asset # 0

\* A refresh runs only where images are cached, and brings every image of its
\* page.
RefreshesWhole ==
    \A w \in Workers : Kind[w] = "refresh" /\ work[w].pc # "idle" =>
        caching /\ (work[w].pc = "persist" => complete_asset_set(work[w].external, work[w].fetched))

\* Every revision of the feed has had its rebuild enqueued.
RebuildEnqueued == source.rebuild = source.revision

\* Every image the stored HTML shows from a local route is an asset linked to
\* the article, which is what keeps it from being collected as an orphan,
\* whichever of the three jobs wrote last and whatever they failed to fetch.  The
\* one exception: a refresh whose page sanitizes to nothing replaces the links by
\* none while the merge keeps the HTML (asset_refresh_handler.rs:381,
\* article.rs:344), until an observation links images again.
LocalImagesLinked ==
    article # NoArticle /\ ~emptied =>
        \A i \in LocalImages(article.html) : [url |-> i.url, asset |-> i.asset] \in links

\* The stored hash is the hash of the stored HTML, after rewriting, preserving
\* and merging: a stale one would hide a change from the feed.
HashDescribesHtml == article # NoArticle => article.hash = Hash(article.html)

\* Images kept for an article come from safe unsigned URLs, respect the limits
\* on their number and size, and name the occurrence they were fetched for, even
\* when other bodies of the article were cut off or refused: a turn of the loop
\* keeps at most one.
Limited(j) ==
    /\ Len(j.fetched) <= MaxCount
    /\ j.pc = "assets" => Len(j.fetched) < j.next /\ j.bytes \in Nat
    /\ \A k \in 1 .. Len(j.fetched) :
           LET one == j.fetched[k] IN
           /\ one.asset \in 1 .. MaxAsset
           /\ is_safe_asset_url(one.url) /\ ~one.url.signed
           /\ one.url = j.external[one.occ]
FetchedWithinLimits == \A w \in Workers : work[w].pc \in {"assets", "persist"} => Limited(work[w])

\* They respect the limit on their sum too.
FetchWithinBudget ==
    /\ FetchedWithinLimits
    /\ \A w \in Workers : work[w].pc \in {"assets", "persist"} =>
           FoldLeft(LAMBDA n, one : n + one.asset, 0, work[w].fetched) <= MaxFetch

\* The two download paths agree: with the budget of an article untouched, the
\* archiver keeps a body exactly when a repair of that image would.
RepairAgrees ==
    \A w \in Workers : work[w].pc = "assets" /\ ~AssetsDone(w) =>
        LET u == work[w].external[work[w].next] IN
        \A r \in Responses : fetch_asset(u, r, 0).kept <=> RepairKind(u, r) = "Fetched"

\* The row only moves to a newer observation: a job that was overtaken while it
\* fetched never puts its older page back.
OnlyNewer ==
    [][article' # article /\ article # NoArticle /\ article' # NoArticle
           => article'.version > article.version]_vars

\* What is known stays known: a body, an author or a cached image is not erased
\* by an observation that failed to see it.
NothingForgotten ==
    [][article # NoArticle /\ article' # NoArticle =>
           /\ article.author # 0 => article'.author # 0
           /\ article.html # EmptyHtml => article'.html # EmptyHtml]_vars

\* While images are cached, an article that shows a local image is replaced
\* only by HTML whose every image is local: a failed download, a full cache or
\* a dropped batch never brings external images back.
NeverDowngraded ==
    [][caching /\ article # NoArticle /\ article' # NoArticle
           /\ LocalImages(article.html) # {} /\ article'.html # article.html
           => LocalImages(article'.html) = article'.html.imgs]_vars

\* A change that readers can see is published with it: the same transaction
\* raises the feed revision and leaves a rebuild queued, and only such a
\* change does.
VisibleMeansPublished ==
    [][source'.present =>
          (feed_visible_change(article, article') <=> source'.revision > source.revision)
          /\ source'.rebuild = source'.revision]_vars

\* What the stored article is between transactions: HTML, hash and links agree,
\* and the jobs at work bring pages as they were sanitized, under versions of
\* their own.
ArticleInv ==
    /\ TypeOK /\ VersionsDistinct /\ PageAsSanitized /\ RefreshesWhole /\ RebuildEnqueued
    /\ LocalImagesLinked /\ HashDescribesHtml

\* Every answer of the list endpoint is read as a whole or refused, so what a
\* first observation starts from is complete (weread.rs, parse_article_list_payload).
ListsRead == seq = 0 => \A p \in Lists : ListReadWhole(p)

\* What is made of the answers that a changed or broken server may give.
AnswersJudged == FetchWithinBudget /\ RepairAgrees /\ ListsRead

\* Observations that arrive out of order never take the article back.
ObservationsMerge == OnlyNewer /\ NothingForgotten
=============================================================================
