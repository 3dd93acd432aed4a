---------------------------- MODULE AssetRefresh ----------------------------
(***************************************************************************)
(* Recovery of cached images whose bytes are gone                          *)
(* (persistence/repositories/asset_repository.rs with the repair and       *)
(* refresh job handlers and the terminal cleanup of job_repository.rs).    *)
(*                                                                         *)
(* A public cache miss admits a repair job for one asset record.  When the *)
(* repair finds the signed URL expired it hands its slot to a generation:  *)
(* an immutable snapshot of the articles that show the asset, refreshed    *)
(* one at a time by a chain of refresh jobs.  Requests that arrive while a *)
(* chain runs ask for one follow-up generation.  Each article has a        *)
(* lineage that bounds how often it may be refreshed.                      *)
(*                                                                         *)
(* The tables are one record, db; an operator that takes a table state d   *)
(* is a step of a transaction, and an action assigns db' once because the  *)
(* transactions serialize on the asset-capacity and asset-repair-admission *)
(* advisory locks.  Handlers read, fetch and write in several transactions *)
(* and lose their lease between any two of them.                           *)
(***************************************************************************)
EXTENDS Integers, FiniteSets, Sequences, FiniteSetsExt

CONSTANTS
    Assets,             \* asset records
    ArticleIds,         \* articles, numbers so that a snapshot can order them
    JobIds,             \* recovery job ids
    Workers,            \* worker loops; a loop stands for one owner and token
    MaxPending,         \* active recovery jobs in the cluster
    PublicMaxPending,   \* active public repair jobs
    RepairMaxAttempts,  \* admitted repairs before the circuit opens
    RefreshMaxAttempts, \* refreshes of one article before it is exhausted
    JobMaxAttempts,     \* REPAIR_JOB_MAX_ATTEMPTS
    MaxGen,             \* bound: generations of one asset a behaviour contains
    FirstTables         \* bound: the asset records and articles there may be at first

ASSUME RefreshConstants ==
    /\ IsFiniteSet(Assets) /\ IsFiniteSet(JobIds) /\ IsFiniteSet(ArticleIds)
    /\ ArticleIds \subseteq Nat
    /\ MaxPending \in Nat \ {0} /\ PublicMaxPending \in 0 .. MaxPending
    /\ {RepairMaxAttempts, RefreshMaxAttempts, JobMaxAttempts, MaxGen}
           \subseteq Nat \ {0}
    /\ FirstTables \subseteq (SUBSET Assets) \X (SUBSET ArticleIds)

VARIABLES
    db,      \* the tables
    worker   \* worker[w]: the handler call loop w is in

refreshVars == <<db, worker>>

Nil == "none"
Elsewhere == "elsewhere"   \* a loop of another replica
NoRow == [req |-> 0, comp |-> 0, served |-> 0, chain |-> 0]
Fresh == [att |-> 0, cool |-> FALSE, exh |-> FALSE]
NoJob == [type |-> Nil]
IdleWorker == [job |-> Nil, ph |-> "idle", sup |-> FALSE]

-----------------------------------------------------------------------------
(* Reading the tables. *)

Active(d) == {j \in JobIds : d.jobs[j] # NoJob}
Repairs(d) == {j \in Active(d) : d.jobs[j].type = "repair"}
Refreshes(d) == {j \in Active(d) : d.jobs[j].type = "refresh"}
RepairsOf(d, x) == {j \in Repairs(d) : d.jobs[j].asset = x}
RefreshesOf(d, a) == {j \in Refreshes(d) : d.jobs[j].art = a}

refresh_capacity_available(d) == Cardinality(Active(d)) < MaxPending

\* A body is served when its bytes are there and not queued for deletion.
BlobPresent(d, x) == x \in d.rec /\ d.body[x] = "present"
Referenced(d, x) == x \in d.rec /\ \E a \in d.art : <<x, a>> \in d.link

Spent(l) == l.exh \/ l.att >= RefreshMaxAttempts
Pending == {"unseen", "cooling", "cooled"}
Eligible == {"unseen", "cooled"}

\* An identifier no row and no running handler refers to stands for a new one.
NewJobId(d) == CHOOSE j \in JobIds \ Active(d) : \A w \in Workers : worker[w].job # j
RoomForJob(d) == \E j \in JobIds \ Active(d) : \A w \in Workers : worker[w].job # j
NewChain(d) ==
    CHOOSE c \in 1 .. Cardinality(JobIds) + Cardinality(Assets) + 1 :
        /\ \A j \in Refreshes(d) : d.jobs[j].chain # c
        /\ \A x \in Assets : d.gen[x].chain # c

lock_live_repair_lease(d, w) ==
    LET j == worker[w].job IN
    j \in Active(d) /\ d.jobs[j].st = "running" /\ d.jobs[j].owner = w

-----------------------------------------------------------------------------
(* Generations and their entries. *)

Marked(entries, S, st) ==
    [o \in DOMAIN entries |-> IF o \in S THEN [entries[o] EXCEPT !.st = st] ELSE entries[o]]

MarkEntries(d, x, g, S, st) == [d EXCEPT !.ent[x][g] = Marked(d.ent[x][g], S, st)]

EntriesIn(d, x, g, states) ==
    {o \in IF g = 0 THEN {} ELSE DOMAIN d.ent[x][g] : d.ent[x][g][o].st \in states}

snapshot_asset_generation(d, x, g) ==
    LET S == {a \in d.art : <<x, a>> \in d.link}
        order == CHOOSE s \in [1 .. Cardinality(S) -> S] :
                     \A i, k \in 1 .. Cardinality(S) : i < k => s[i] < s[k]
    IN [d EXCEPT !.ent[x][g] =
            [o \in 1 .. Cardinality(S) |-> [art |-> order[o], st |-> "unseen"]]]

complete_refresh_generation_if_terminalEarly(d, x, g) ==
    IF EntriesIn(d, x, g, Pending) = {} /\ d.gen[x].comp < g /\ d.gen[x].req > 0
    THEN [d EXCEPT !.gen[x].comp = g]
    ELSE d

complete_refresh_generation_if_terminal(d, x, g) ==
    IF EntriesIn(d, x, g, Pending \cup {"in_flight"}) = {} /\ d.gen[x].comp < g /\ d.gen[x].req > 0
    THEN [d EXCEPT !.gen[x].comp = g]
    ELSE d

refresh_generation_completed(d, x, g) ==
    d.gen[x].comp >= g \/ EntriesIn(d, x, g, Pending \cup {"in_flight"}) = {}

refresh_generation_pending(d, x, g) ==
    /\ d.gen[x].served = g
    /\ d.gen[x].chain = 0
    /\ d.gen[x].req > d.gen[x].comp

mark_exhausted_refresh_entries(d, x, g) ==
    MarkEntries(d, x, g,
        {o \in EntriesIn(d, x, g, Pending) : Spent(d.lin[d.ent[x][g][o].art])}, "done")

\* The entry to admit next, 0 when there is none, and the tables with the
\* entries that can never run retired.
select_refresh_entry(d, x, g, after) ==
    LET dead == {o \in EntriesIn(d, x, g, Pending) :
                    \/ BlobPresent(d, x)
                    \/ ~(d.ent[x][g][o].art \in d.art
                         /\ <<x, d.ent[x][g][o].art>> \in d.link)}
        d1 == MarkEntries(d, x, g, dead, "done")
        able == {o \in EntriesIn(d1, x, g, Eligible) :
                    LET a == d1.ent[x][g][o].art IN
                    /\ o > after
                    /\ ~Spent(d1.lin[a])
                    /\ ~d1.lin[a].cool
                    /\ RefreshesOf(d1, a) = {}}
    IN [db |-> d1,
        ord |-> IF able = {} THEN 0 ELSE CHOOSE o \in able : \A p \in able : o <= p]

reserve_refresh_lineage(d, a) ==
    [d EXCEPT !.lin[a] = [@ EXCEPT !.att = d.lin[a].att + 1, !.cool = FALSE]]

insert_refresh_job(d, x, g, chain, o) ==
    [d EXCEPT !.jobs[NewJobId(d)] =
        [type |-> "refresh", st |-> "queued", att |-> 0, owner |-> Nil,
         asset |-> x, art |-> d.ent[x][g][o].art, chain |-> chain, gen |-> g, ord |-> o]]

\* Job, attempt, entry and, for a new chain, the asset's slot, together.
admit_refresh_entry(d, x, g, chain, o, resume) ==
    LET d1 == insert_refresh_job(d, x, g, chain, o)
        d2 == reserve_refresh_lineage(d1, d.ent[x][g][o].art)
        d3 == MarkEntries(d2, x, g, {o} \cap EntriesIn(d2, x, g, Pending), "in_flight")
    IN IF resume /\ d3.gen[x].chain = 0 THEN [d3 EXCEPT !.gen[x].chain = chain] ELSE d3

\* Selects and admits under a new chain; used by every path but continuation.
SelectAndAdmit(d, x, g, completeIfNone) ==
    LET sel == select_refresh_entry(d, x, g, 0)
    IN IF sel.ord # 0
       THEN admit_refresh_entry(sel.db, x, g, NewChain(sel.db), sel.ord, TRUE)
       ELSE IF completeIfNone
            THEN complete_refresh_generation_if_terminal(sel.db, x, g)
            ELSE sel.db

\* served_generation moves to g, the snapshot is taken, an empty one completes.
ServeGeneration(d, x, g) ==
    LET d1 == snapshot_asset_generation([d EXCEPT !.gen[x].served = g], x, g)
    IN IF d1.ent[x][g] = <<>> THEN [d1 EXCEPT !.gen[x].comp = g] ELSE d1

start_follow_up_generation(d, x, g) ==
    LET d1 == ServeGeneration(d, x, g)
        d2 == complete_refresh_generation_if_terminal(
                  mark_exhausted_refresh_entries(d1, x, g), x, g)
    IN IF ~(d.gen[x].req >= g /\ d.gen[x].served < g /\ d.gen[x].chain = 0)
       THEN d
       ELSE IF d1.ent[x][g] = <<>> THEN d1 ELSE SelectAndAdmit(d2, x, g, FALSE)

resume_follow_up_generation(d, x, served) ==
    IF refresh_generation_completed(d, x, served) /\ d.gen[x].req > d.gen[x].served
    THEN start_follow_up_generation(d, x, d.gen[x].req)
    ELSE d

\* A request during a chain asks for exactly one follow-up.
CoalesceRequest(d, x) ==
    IF d.gen[x].req < d.gen[x].served + 1
    THEN [d EXCEPT !.gen[x].req = d.gen[x].served + 1]
    ELSE d

\* Whether a miss on x is answered by refresh state instead of a repair.
RefreshAnswersMiss(d, x) ==
    d.gen[x].chain # 0 \/ (d.gen[x].req > d.gen[x].comp /\ d.gen[x].served # 0)

resume_refresh_after_cache_miss(d, x) ==
    LET s == d.gen[x]
        d1 == mark_exhausted_refresh_entries(d, x, s.served)
        sel == select_refresh_entry(d1, x, s.served, 0)
    IN IF s.chain # 0 THEN CoalesceRequest(d, x)
       ELSE IF ~RefreshAnswersMiss(d, x) \/ ~refresh_capacity_available(d) THEN d
       ELSE IF s.served <= s.comp THEN start_follow_up_generation(d, x, s.req)
       ELSE IF sel.ord # 0
            THEN admit_refresh_entry(sel.db, x, s.served, NewChain(sel.db), sel.ord, TRUE)
            ELSE resume_follow_up_generation(
                     complete_refresh_generation_if_terminal(sel.db, x, s.served), x, s.served)

-----------------------------------------------------------------------------
(* Public admission of a repair. *)

\* Whether every live article of x is spent, or spent or cooling.
LineageRefuses(d, x) ==
    LET live == {a \in d.art : <<x, a>> \in d.link}
    IN live # {} /\ \A a \in live : Spent(d.lin[a]) \/ d.lin[a].cool

RepairRefused(d, x) ==
    \/ d.rep[x].exh
    \/ d.rep[x].cool
    \/ d.rep[x].att >= RepairMaxAttempts
    \/ ~refresh_capacity_available(d)
    \/ Cardinality(Repairs(d)) >= PublicMaxPending

InsertRepairJob(d, x) ==
    [d EXCEPT !.rep[x] = [att |-> d.rep[x].att + 1, cool |-> FALSE, exh |-> FALSE],
              !.jobs[NewJobId(d)] =
                  [type |-> "repair", st |-> "queued", att |-> 0, owner |-> Nil,
                   asset |-> x, refunded |-> FALSE]]

enqueue_repair_in_transaction(d, x) ==
    IF ~Referenced(d, x) THEN resume_refresh_after_cache_miss(d, x)
    ELSE IF BlobPresent(d, x) \/ RepairsOf(d, x) # {} THEN d
    ELSE IF RefreshAnswersMiss(d, x) THEN resume_refresh_after_cache_miss(d, x)
    ELSE IF LineageRefuses(d, x) \/ RepairRefused(d, x) THEN d
    ELSE InsertRepairJob(d, x)

-----------------------------------------------------------------------------
(* Outcomes of recovery jobs. *)

RemoveJob(d, j) == [d EXCEPT !.jobs[j] = NoJob]

route_confirmed_expiry(d, x) ==
    LET s == d.gen[x]
        g == IF s.req > s.comp THEN s.req ELSE s.req + 1
        d1 == CoalesceRequest(d, x)
        d2 == ServeGeneration([d EXCEPT !.gen[x].req = g], x, g)
    IN IF s.chain # 0 THEN d1
       ELSE IF s.served > s.comp
       THEN SelectAndAdmit(mark_exhausted_refresh_entries(d1, x, s.served), x, s.served, TRUE)
       ELSE IF d2.ent[x][g] = <<>> THEN d2
       ELSE SelectAndAdmit(mark_exhausted_refresh_entries(d2, x, g), x, g, TRUE)

\* The refund, the route and the repair's success are one transaction.
finish_confirmed_expiry(d, j) ==
    LET x == d.jobs[j].asset
        refund == [att |-> IF d.rep[x].att > 0 THEN d.rep[x].att - 1 ELSE 0,
                   cool |-> TRUE, exh |-> FALSE]
        d1 == IF x \in d.rec /\ ~d.jobs[j].refunded
              THEN [d EXCEPT !.rep[x] = refund, !.jobs[j] = [@ EXCEPT !.refunded = TRUE]]
              ELSE d
    IN RemoveJob(route_confirmed_expiry(d1, x), j)

reconcile_article_refresh_entries(d, a) ==
    LET hit(p) == {o \in EntriesIn(d, p[1], p[2], Pending) : d.ent[p[1]][p[2]][o].art = a}
        retire(p, e) == complete_refresh_generation_if_terminal(
                            MarkEntries(e, p[1], p[2], hit(p), "done"), p[1], p[2])
    IN FoldSet(retire, d, {p \in Assets \X (1 .. MaxGen) : hit(p) # {}})

continue_refresh_chain(d, t) ==
    LET d1 == mark_exhausted_refresh_entries(d, t.asset, t.gen)
        sel == select_refresh_entry(d1, t.asset, t.gen, t.ord)
    IN IF sel.ord # 0
       THEN admit_refresh_entry(sel.db, t.asset, t.gen, t.chain, sel.ord, FALSE)
       ELSE IF sel.db.gen[t.asset].chain = t.chain
            THEN [sel.db EXCEPT !.gen[t.asset].chain = 0]
            ELSE sel.db

set_refresh_entry_done(d, t) == MarkEntries(d, t.asset, t.gen, {t.ord}, "done")

ApplyRefreshOutcome(d, t, outcome) ==
    LET spent == t.art \notin d.art \/ d.lin[t.art].att >= RefreshMaxAttempts
        closed == reconcile_article_refresh_entries(set_refresh_entry_done(d, t), t.art)
    IN IF outcome = "succeeded" THEN [closed EXCEPT !.lin[t.art] = Fresh]
       ELSE IF outcome = "inconclusive" /\ t.art \in d.art
       THEN IF spent
            THEN [closed EXCEPT !.lin[t.art] = [@ EXCEPT !.cool = TRUE, !.exh = TRUE]]
            ELSE MarkEntries([d EXCEPT !.lin[t.art] = [@ EXCEPT !.cool = TRUE, !.exh = FALSE]],
                             t.asset, t.gen, {t.ord}, "cooling")
       ELSE IF outcome = "inconclusive" THEN closed
       ELSE set_refresh_entry_done(d, t)

finish_article_refresh_in_transaction(d, j, outcome) ==
    LET t == d.jobs[j]
        d1 == RemoveJob(ApplyRefreshOutcome(d, t, outcome), j)
        d2 == complete_refresh_generation_if_terminal(
                  continue_refresh_chain(d1, t), t.asset, t.gen)
        continued == Cardinality(Active(d2)) > Cardinality(Active(d1))
    IN IF ~continued /\ refresh_generation_completed(d2, t.asset, t.gen)
          /\ d2.gen[t.asset].req > d2.gen[t.asset].served
       THEN start_follow_up_generation(d2, t.asset, d2.gen[t.asset].req)
       ELSE d2

\* The association a refresh job may act on: its chain is the asset's chain.
read_refresh_target(d, j) == d.gen[d.jobs[j].asset].chain = d.jobs[j].chain

\* begin_article_refresh: the persisted entry is the one the payload names.
begin_article_refresh(d, j) ==
    LET t == d.jobs[j] IN
    /\ read_refresh_target(d, j)
    /\ d.gen[t.asset].served = t.gen
    /\ t.ord \in DOMAIN d.ent[t.asset][t.gen]
    /\ d.ent[t.asset][t.gen][t.ord] = [art |-> t.art, st |-> "in_flight"]

complete_unresolvable_article_refresh(d, j) ==
    LET t == d.jobs[j]
        g == d.gen[t.asset].served
        d1 == MarkEntries(d, t.asset, g, {t.ord} \cap EntriesIn(d, t.asset, g, {"in_flight"}), "done")
        d2 == complete_refresh_generation_if_terminal(d1, t.asset, g)
    IN IF read_refresh_target(d, j)
       THEN RemoveJob([d2 EXCEPT !.gen[t.asset].chain = 0], j)
       ELSE RemoveJob(d, j)

\* A refresh job that ends as failed gives its chain and entry back.
cleanup_terminal_refresh(d, j) ==
    LET t == d.jobs[j]
        gone == t.art \notin d.art
        spent == gone \/ Spent(d.lin[t.art])
        d1 == IF gone THEN d
              ELSE [d EXCEPT !.lin[t.art] = [@ EXCEPT !.cool = TRUE, !.exh = spent]]
        d2 == MarkEntries(d1, t.asset, t.gen, {t.ord}, IF spent THEN "done" ELSE "cooling")
        d3 == complete_refresh_generation_if_terminal(d2, t.asset, t.gen)
    IN IF d.jobs[j].type = "refresh" /\ begin_article_refresh(d, j)
       THEN [d3 EXCEPT !.gen[t.asset].chain = 0]
       ELSE d

FailJob(d, j) == RemoveJob(cleanup_terminal_refresh(d, j), j)

\* retry and recover_expired: back to the queue until the budget is spent.
RequeueJob(d, j) ==
    IF d.jobs[j].att < JobMaxAttempts
    THEN [d EXCEPT !.jobs[j] = [@ EXCEPT !.st = "queued", !.owner = Nil]]
    ELSE FailJob(d, j)

\* Only the served generation of an asset can take a new chain.
reset_article_refresh_lineage(d, a) ==
    LET d1 == reconcile_article_refresh_entries([d EXCEPT !.lin[a] = Fresh], a)
        hit == {x \in Assets : \E o \in EntriesIn(d, x, d.gen[x].served, Pending) :
                                   d.ent[x][d.gen[x].served][o].art = a}
        readmit(x, e) ==
            IF refresh_capacity_available(e) /\ RoomForJob(e)
               /\ refresh_generation_pending(e, x, e.gen[x].served)
            THEN SelectAndAdmit(e, x, e.gen[x].served, TRUE)
            ELSE e
    IN FoldSet(readmit, d1, hit)

-----------------------------------------------------------------------------
(* Periodic maintenance. *)

\* prune_asset_refresh_generations: snapshots nothing refers to any more.
Prunable(d, x, g) ==
    /\ d.gen[x].comp >= g
    /\ d.gen[x].chain = 0 \/ d.gen[x].served # g
    /\ EntriesIn(d, x, g, Pending \cup {"in_flight"}) = {}
    /\ \A j \in Refreshes(d) : ~(d.jobs[j].asset = x /\ d.jobs[j].gen = g)

\* The rows of an asset without record, entries and jobs. (The code keeps them also
\* while the row of a finished asset_repair job is there; finished jobs have no row
\* here.)
prune_asset_refresh_state(d) ==
    LET d1 == [d EXCEPT !.ent = [x \in Assets |-> [g \in 1 .. MaxGen |->
                  IF Prunable(d, x, g) THEN <<>> ELSE d.ent[x][g]]]]
        orphan(x) ==
            /\ d1.gen[x].chain = 0
            /\ d1.gen[x].req = d1.gen[x].comp
            /\ x \notin d1.rec
            /\ \A g \in 1 .. MaxGen : d1.ent[x][g] = <<>>
            /\ \A j \in Active(d1) : d1.jobs[j].asset # x
    IN [d1 EXCEPT !.gen = [x \in Assets |-> IF orphan(x) THEN NoRow ELSE d.gen[x]]]

\* maintenance: records no article shows and no repair works on are deleted.
DeleteOrphanRecords(d) ==
    LET orphan == {x \in d.rec : (\A a \in ArticleIds : <<x, a>> \notin d.link)
                                 /\ RepairsOf(d, x) = {}}
    IN [d EXCEPT !.rec = d.rec \ orphan,
                 !.rep = [x \in Assets |-> IF x \in orphan THEN Fresh ELSE d.rep[x]],
                 !.body = [x \in Assets |-> IF x \in orphan THEN "gone" ELSE d.body[x]]]

-----------------------------------------------------------------------------
\* Every stored article shows every stored asset, whose bytes are gone; listed
\* are the articles upstream still lists.
RefreshInit ==
    /\ \E first \in FirstTables : db =
            [rec |-> first[1], art |-> first[2], link |-> first[1] \X first[2],
             listed |-> first[2], body |-> [x \in Assets |-> "gone"],
             rep |-> [x \in Assets |-> Fresh],
             lin |-> [a \in ArticleIds |-> Fresh],
             gen |-> [x \in Assets |-> NoRow],
             ent |-> [x \in Assets |-> [g \in 1 .. MaxGen |-> <<>>]],
             jobs |-> [j \in JobIds |-> NoJob]]
    /\ worker = [w \in Workers |-> IdleWorker]

\* Bound: a step that may ask for another generation of x needs room for one.
GenRoom(x) == db.gen[x].req < MaxGen

\* web/api.rs: a public miss asks for a repair.
PublicMiss(x) ==
    /\ GenRoom(x)
    /\ RoomForJob(db)
    /\ db' = enqueue_repair_in_transaction(db, x)
    /\ UNCHANGED worker

\* claim_next: `att` is failure_count and one more for a claim that has not ended.
StartJob(d, j, owner) ==
    [d EXCEPT !.jobs[j] =
        [@ EXCEPT !.st = "running", !.owner = owner, !.att = d.jobs[j].att + 1]]

Claim(w, j) ==
    /\ worker[w] = IdleWorker
    /\ db.jobs[j] # NoJob /\ db.jobs[j].st = "queued"
    /\ db' = StartJob(db, j, w)
    /\ worker' = [worker EXCEPT ![w] =
                     [job |-> j, ph |-> IF db.jobs[j].type = "repair" THEN "repair load"
                                        ELSE "refresh load", sup |-> FALSE]]

\* Another replica claims a job on which a handler that lost its lease still
\* works here, and dies with it.  Without such a handler this is a Claim and a
\* death of its loop (LoopDies).
ClaimElsewhere(j) ==
    /\ \E w \in Workers : worker[w].job = j
    /\ db.jobs[j] # NoJob /\ db.jobs[j].st = "queued"
    /\ db' = StartJob(db, j, Elsewhere)
    /\ UNCHANGED worker

Proceed(w, ph) == worker' = [worker EXCEPT ![w].ph = ph]
EndCall(w) == worker' = [worker EXCEPT ![w] = IdleWorker]

\* The asset or job row as the handler's lease names it; the row may be gone.
Target(w) == db.jobs[worker[w].job].asset

\* defer: back to the queue, and failure_count stays.
DeferJob(d, j) ==
    [d EXCEPT !.jobs[j] =
        [@ EXCEPT !.st = "queued", !.owner = Nil, !.att = d.jobs[j].att - 1]]

\* repair_target and the checks before the fetch; no lock is held.
RepairLoad(w) ==
    /\ worker[w].ph = "repair load"
    /\ IF worker[w].job \notin Active(db) THEN EndCall(w) /\ UNCHANGED db
       ELSE LET x == Target(w) IN
            IF ~Referenced(db, x) \/ db.body[x] # "gone"
            THEN Proceed(w, "complete") /\ UNCHANGED db
            ELSE IF db.rep[x].exh THEN Proceed(w, "fail") /\ UNCHANGED db
            ELSE IF db.rep[x].cool
            THEN /\ EndCall(w)
                 /\ db' = IF lock_live_repair_lease(db, w)
                          THEN DeferJob(db, worker[w].job)
                          ELSE db
            ELSE Proceed(w, "repair fetch") /\ UNCHANGED db

\* restore_missing_asset: the body is back under the same record.
RestoreMissingAsset(w) ==
    /\ worker[w].ph = "repair fetch"
    /\ worker[w].job \in Active(db)
    /\ LET x == Target(w) IN
       \/ /\ ~Referenced(db, x) \/ db.body[x] = "present"
          /\ Proceed(w, "complete") /\ UNCHANGED db
       \/ /\ Referenced(db, x) /\ db.body[x] # "present"
          /\ lock_live_repair_lease(db, w)
          /\ db' = [db EXCEPT !.body[x] = "present"]
          /\ Proceed(w, "complete")

\* A confirmed expiry hands the slot over; a lost lease makes it a retry.
ConfirmedExpiry(w) ==
    /\ worker[w].ph = "repair fetch"
    /\ lock_live_repair_lease(db, w)
    /\ GenRoom(Target(w))
    /\ RoomForJob(db)
    /\ db' = finish_confirmed_expiry(db, worker[w].job)
    /\ EndCall(w)

\* record_repair_failure, reached from any failed step of the handler.
RecordRepairFailure(w) ==
    /\ worker[w].ph = "repair fetch"
    /\ IF ~lock_live_repair_lease(db, w) THEN Proceed(w, "retry") /\ UNCHANGED db
       ELSE LET x == Target(w)
                exhausted == x \in db.rec /\ db.rep[x].att >= RepairMaxAttempts
            IN /\ db' = IF x \in db.rec
                        THEN [db EXCEPT !.rep[x] = [@ EXCEPT !.cool = TRUE, !.exh = exhausted]]
                        ELSE db
               /\ Proceed(w, IF exhausted THEN "fail" ELSE "retry")

CompleteRepairAnyLease(w) ==
    /\ worker[w].ph = "complete"
    /\ IF worker[w].job \in Active(db)
       THEN db' = [db EXCEPT !.rep[Target(w)] = Fresh] /\ Proceed(w, "succeed")
       ELSE Proceed(w, "retry") /\ UNCHANGED db

\* complete_repair closes the circuit under the lease, or the job retries.
CompleteRepair(w) ==
    /\ worker[w].ph = "complete"
    /\ IF lock_live_repair_lease(db, w)
       THEN db' = [db EXCEPT !.rep[Target(w)] = Fresh] /\ Proceed(w, "succeed")
       ELSE Proceed(w, "retry") /\ UNCHANGED db

\* The worker loop applies the handler's outcome under its lease.
ApplyOutcome(w) ==
    /\ worker[w].ph \in {"succeed", "retry", "fail"}
    /\ EndCall(w)
    /\ db' = IF ~lock_live_repair_lease(db, w) THEN db
             ELSE CASE worker[w].ph = "succeed" -> RemoveJob(db, worker[w].job)
                    [] worker[w].ph = "retry" -> RequeueJob(db, worker[w].job)
                    [] worker[w].ph = "fail" -> FailJob(db, worker[w].job)

\* The validation transaction of the refresh handler, then the version it
\* reserves before it fetches the page.
RefreshLoad(w) ==
    /\ worker[w].ph = "refresh load"
    /\ IF ~lock_live_repair_lease(db, w) THEN Proceed(w, "retry") /\ UNCHANGED db
       ELSE IF begin_article_refresh(db, worker[w].job)
       THEN Proceed(w, "refresh fetch") /\ UNCHANGED db
       ELSE /\ db' = complete_unresolvable_article_refresh(db, worker[w].job)
            /\ EndCall(w)

\* What the transaction sees decides between the four outcomes; images that do
\* not fit the cache make a fetched page inconclusive.
RefreshOutcome(w, t, fetched) ==
    IF t.art \notin db.art THEN "deleted"
    ELSE IF worker[w].sup THEN "superseded"
    ELSE IF fetched THEN "succeeded" ELSE "inconclusive"

\* finalize.  The article's new content, the feed revision and the rebuild job
\* that the same transaction writes are state of SourceSync and FeedCache.
RefreshFinalize(w, fetched, keep) ==
    LET j == worker[w].job
        t == db.jobs[j]
        outcome == RefreshOutcome(w, t, fetched)
        relinked == [db EXCEPT !.link = {p \in @ : p[2] # t.art \/ p[1] \in keep}]
    IN /\ worker[w].ph = "refresh fetch"
       /\ lock_live_repair_lease(db, w)
       /\ keep \subseteq {x \in Assets : BlobPresent(db, x)}
       /\ keep # {} => outcome = "succeeded"
       /\ RoomForJob(db)
       /\ IF begin_article_refresh(db, j)
          THEN db' = finish_article_refresh_in_transaction(
                         IF outcome = "succeeded" THEN relinked ELSE db, j, outcome)
          ELSE db' = complete_unresolvable_article_refresh(db, j)
       /\ EndCall(w)

\* Any step of the refresh handler that cannot be persisted is a retry.
RefreshRetry(w) ==
    /\ worker[w].ph \in {"refresh load", "refresh fetch"}
    /\ Proceed(w, "retry")
    /\ UNCHANGED db

\* recover_expired: the lease of a running job ran out.
RecoverExpired(j) ==
    /\ db.jobs[j] # NoJob /\ db.jobs[j].st = "running"
    /\ db' = RequeueJob(db, j)
    /\ UNCHANGED worker

Cancel(j) ==
    /\ db.jobs[j] # NoJob /\ db.jobs[j].st = "queued"
    /\ db' = FailJob(db, j)
    /\ UNCHANGED worker

LoopDies(w) ==
    /\ worker[w] # IdleWorker
    /\ EndCall(w)
    /\ UNCHANGED db

\* A complete acquisition of article a by a sync or a backfill: its links are
\* replaced, its lineage is reset, and refreshes of it that reserved an older
\* version are superseded.
AcquireArticle(a, keep, newer) ==
    /\ a \in db.listed
    /\ keep \subseteq {x \in Assets : BlobPresent(db, x)}
    /\ RoomForJob(db)
    /\ db' = reset_article_refresh_lineage(
                 [db EXCEPT !.art = @ \cup {a},
                            !.link = {p \in @ : p[2] # a} \cup (keep \X {a})], a)
    /\ worker' = [w \in Workers |->
          IF newer /\ worker[w].ph = "refresh fetch" /\ worker[w].job \in Refreshes(db)
             /\ db.jobs[worker[w].job].art = a
          THEN [worker[w] EXCEPT !.sup = TRUE] ELSE worker[w]]

\* Deleting an article cascades to its links and its lineage.
DeleteArticle(a) ==
    /\ a \in db.art
    /\ db' = [db EXCEPT !.art = @ \ {a}, !.link = {p \in @ : p[2] # a}, !.lin[a] = Fresh]
    /\ UNCHANGED worker

Evict(x) ==
    /\ db.body[x] = "present"
    /\ db' = [db EXCEPT !.body[x] = "queued"]
    /\ UNCHANGED worker

DrainDeletion(x) ==
    /\ db.body[x] = "queued"
    /\ db' = [db EXCEPT !.body[x] = "gone"]
    /\ UNCHANGED worker

CooldownEnds ==
    /\ \/ \E a \in ArticleIds : db.lin[a].cool
       \/ \E x \in Assets : db.rep[x].cool
       \/ \E x \in Assets, g \in 1 .. MaxGen : EntriesIn(db, x, g, {"cooling"}) # {}
    /\ db' = [db EXCEPT
          !.lin = [a \in ArticleIds |-> [db.lin[a] EXCEPT !.cool = FALSE]],
          !.rep = [x \in Assets |-> [db.rep[x] EXCEPT !.cool = FALSE]],
          !.ent = [x \in Assets |-> [g \in 1 .. MaxGen |->
                     Marked(db.ent[x][g], EntriesIn(db, x, g, {"cooling"}), "cooled")]]]
    /\ UNCHANGED worker

ResumeCandidate_NewOnly(x) ==
    /\ db.gen[x].chain = 0
    /\ db.gen[x].req > db.gen[x].served
    /\ RepairsOf(db, x) = {}
    /\ RoomForJob(db)

\* resume_pending_refreshes takes one asset at a time under the locks; assets
\* with an active repair keep the repair slot.
ResumeCandidate(x) ==
    /\ db.gen[x].chain = 0
    /\ db.gen[x].req > db.gen[x].comp
    /\ RepairsOf(db, x) = {}
    /\ RoomForJob(db)

ResumePendingRefresh(x) ==
    /\ ResumeCandidate(x)
    /\ db' = resume_refresh_after_cache_miss(db, x)
    /\ UNCHANGED worker

\* The pruning and the deletion of records, two transactions of one maintenance
\* pass; each may also find nothing to do.
MaintainRefreshes ==
    /\ db' = DeleteOrphanRecords(prune_asset_refresh_state(db))
    /\ UNCHANGED worker

HandlerStep(w) ==
    \/ RefreshRetry(w)
    \/ RecordRepairFailure(w)
    \/ RepairLoad(w)
    \/ CompleteRepair(w)
    \/ ApplyOutcome(w)
    \/ RestoreMissingAsset(w)
    \/ ConfirmedExpiry(w)
    \/ RefreshLoad(w)
    \/ \E f \in BOOLEAN, keep \in SUBSET Assets : RefreshFinalize(w, f, keep)

RefreshNext ==
    \/ \E x \in Assets : PublicMiss(x)
    \/ \E w \in Workers, j \in JobIds : Claim(w, j)
    \/ \E j \in JobIds : ClaimElsewhere(j)
    \/ \E w \in Workers : HandlerStep(w)
    \/ \E j \in JobIds : RecoverExpired(j)
    \/ \E j \in JobIds : Cancel(j)
    \/ \E w \in Workers : LoopDies(w)
    \/ \E a \in ArticleIds, keep \in SUBSET Assets, n \in BOOLEAN : AcquireArticle(a, keep, n)
    \/ \E a \in ArticleIds : DeleteArticle(a)
    \/ \E x \in Assets : Evict(x)
    \/ \E x \in Assets : DrainDeletion(x)
    \/ CooldownEnds
    \/ \E x \in Assets : ResumePendingRefresh(x)
    \/ MaintainRefreshes

RefreshSpec == RefreshInit /\ [][RefreshNext]_refreshVars

\* When ResumePendingRefresh(x) changes the tables: the state predicate that
\* ENABLED <<ResumePendingRefresh(x)>>_refreshVars amounts to.
Resumable(x) == ResumeCandidate(x) /\ resume_refresh_after_cache_miss(db, x) # db

\* The worker loops, lease recovery, the periodic maintenance pass and the
\* clock never stop: a loop that ends brings its process down (Runtime), and
\* other replicas, or the restarted one, go on.  Requests, fetches that
\* succeed, cancellations and crashes are not promised.
FairRefreshSpec ==
    /\ RefreshSpec
    /\ \A w \in Workers : WF_refreshVars(HandlerStep(w))
    /\ \A j \in JobIds : SF_refreshVars(\E w \in Workers : Claim(w, j))
    /\ \A j \in JobIds : WF_refreshVars((\A w \in Workers : worker[w].job # j) /\ RecoverExpired(j))
    /\ \A x \in Assets : []<>Resumable(x) => []<><<ResumePendingRefresh(x)>>_refreshVars
    /\ \A x \in Assets : WF_refreshVars(DrainDeletion(x))
    /\ WF_refreshVars(CooldownEnds)

-----------------------------------------------------------------------------
(* Properties. *)

States == Pending \cup {"in_flight", "done"}
RepairRow ==
    [type : {"repair"}, st : {"queued", "running"}, att : 0 .. JobMaxAttempts,
     owner : Workers \cup {Elsewhere, Nil}, asset : Assets, refunded : BOOLEAN]
RefreshRow ==
    [type : {"refresh"}, st : {"queued", "running"}, att : 0 .. JobMaxAttempts,
     owner : Workers \cup {Elsewhere, Nil}, asset : Assets, art : ArticleIds, chain : Nat \ {0},
     gen : 1 .. MaxGen, ord : Nat \ {0}]

\* Every table holds rows of its shape, with attempts inside their policy
\* (asset_repair_states, asset_article_refresh_lineage, asset_repair_jobs).
RefreshTypeOK ==
    /\ db.rec \subseteq Assets
    /\ db.art \subseteq db.listed /\ db.listed \subseteq ArticleIds
    /\ db.link \subseteq db.rec \X db.art
    /\ db.body \in [Assets -> {"present", "queued", "gone"}]
    /\ db.rep \in [Assets -> [att : 0 .. RepairMaxAttempts, cool : BOOLEAN, exh : BOOLEAN]]
    /\ db.lin \in [ArticleIds -> [att : 0 .. RefreshMaxAttempts, cool : BOOLEAN, exh : BOOLEAN]]
    /\ \A x \in Assets :
          /\ db.gen[x].chain \in Nat
          /\ \A g \in 1 .. MaxGen : \A o \in DOMAIN db.ent[x][g] :
                db.ent[x][g][o] \in [art : ArticleIds, st : States]
    /\ \A j \in Repairs(db) : db.jobs[j] \in RepairRow
    /\ \A j \in Refreshes(db) : db.jobs[j] \in RefreshRow
    /\ \A w \in Workers : worker[w].job \in JobIds \cup {Nil} /\ worker[w].sup \in BOOLEAN

\* The slot of an asset is never lost: active_chain_id is set exactly while one
\* active refresh job carries that chain for the asset, that job names an entry
\* of the served generation, and that entry is the only one in flight.  A slot
\* that outlived its job would answer every later miss with "retryable" forever.
ChainHasItsJob ==
    \A x \in Assets :
        LET carriers == {j \in Refreshes(db) : db.jobs[j].asset = x} IN
        IF db.gen[x].chain = 0
        THEN carriers = {} /\ \A g \in 1 .. MaxGen : EntriesIn(db, x, g, {"in_flight"}) = {}
        ELSE \E j \in carriers :
                /\ carriers = {j}
                /\ db.jobs[j].chain = db.gen[x].chain
                /\ db.jobs[j].gen = db.gen[x].served
                /\ \A g \in 1 .. MaxGen : EntriesIn(db, x, g, {"in_flight"}) =
                      IF g = db.jobs[j].gen THEN {db.jobs[j].ord} ELSE {}

\* The generation counters keep the order the table's CHECK constraints demand
\* (a transaction that broke it would be refused), and a generation that is
\* behind the completed mark has no entry left to work on.
GenerationsOrdered ==
    \A x \in Assets :
        /\ db.gen[x].comp <= db.gen[x].served
        /\ db.gen[x].served <= db.gen[x].req
        /\ \A g \in 1 .. db.gen[x].comp : EntriesIn(db, x, g, Pending \cup {"in_flight"}) = {}

\* Slots are respected: no article is refreshed by two jobs at once, whichever
\* assets asked for it; no asset is repaired twice, or while a chain refreshes
\* its articles; and handing a slot from a repair to a chain, continuing a chain
\* and starting a follow-up, none of which looks at the cluster bound, never
\* put more recovery jobs in the queue than it allows.
OneRecoveryEach ==
    /\ \A a \in ArticleIds : Cardinality(RefreshesOf(db, a)) <= 1
    /\ \A x \in Assets : Cardinality(RepairsOf(db, x)) <= 1
    /\ \A x \in Assets : db.gen[x].chain # 0 => RepairsOf(db, x) = {}
    /\ Cardinality(Active(db)) <= MaxPending

\* A worker whose lease was recovered changes nothing: a step that a handler of
\* a running job takes on the tables is taken by the loop that owns the job.
StaleHandlerHarmless ==
    [][\A w \in Workers :
          (worker[w].ph \in {"repair fetch", "complete", "refresh load", "refresh fetch",
                             "succeed", "retry", "fail"}
           /\ worker'[w] # worker[w] /\ worker'[w].sup = worker[w].sup /\ db' # db)
          => lock_live_repair_lease(db, w)]_refreshVars

\* What the tables keep between transactions.
RefreshInv == RefreshTypeOK /\ ChainHasItsJob /\ GenerationsOrdered /\ OneRecoveryEach

\* Every served generation is completed again and again (or its state pruned with
\* its record): failed and cancelled jobs, cooling entries, collisions with other
\* assets' refreshes, lost leases, crashes and full capacity only delay it.
GenerationCompletes == \A x \in Assets : []<>(db.gen[x].comp = db.gen[x].served)

=============================================================================
