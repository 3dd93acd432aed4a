--------------------------- MODULE BrowserSessions ---------------------------
(***************************************************************************)
(* Browser sessions of one process: the pool of permits, the lease of a    *)
(* WeRead account, the WebDriver session and its cleanup                   *)
(* (acquisition/browser_pool.rs, webdriver.rs, weread.rs, article_page.rs, *)
(* application/source_sync_acquirer.rs, account_lease_repository.rs).      *)
(*                                                                         *)
(* ses[h] is the session of a worker, or of the health monitor: stage is   *)
(* the await it is at, mode "auth" or "public", ok the result so far,      *)
(* token the lease it holds (0 for none), hb its heartbeat task, which has *)
(* cancelled the session when it failed; lost records that the lease ended *)
(* under it.                                                               *)
(***************************************************************************)
EXTENDS Integers, FiniteSets

CONSTANTS
    Workers,   \* worker tasks of this process
    MaxTokens  \* bound on the lease tokens in use at a time

ASSUME SessionConstants ==
    IsFiniteSet(Workers) /\ Workers \cap {"monitor", "other", "none"} = {} /\ MaxTokens \in Nat

VARIABLES
    free,      \* permits of the browser pool
    ses,       \* sessions
    row,       \* the lease row of the account
    cleanups,  \* tokens of the cleanup tasks of dropped sessions
    sidecar    \* "up" or "down"

sessionVars == <<free, ses, row, cleanups, sidecar>>

Holders == Workers \cup {"monitor"}
Tokens == 1 .. MaxTokens

NoSession == [stage |-> "idle", mode |-> "public", ok |-> TRUE, token |-> 0, hb |-> "off", lost |-> FALSE]
NoLease == [token |-> 0, owner |-> "none"]
\* The lease of another replica, or one of this process that no session and no
\* clean-up knows: its release failed, or its acquire was dropped with the statement
\* under way. Nobody here will end it.
OtherLease == [token |-> 0, owner |-> "other"]

UsedTokens == {ses[h].token : h \in Holders} \cup cleanups \cup {row.token}
\* A token nobody holds any more: as good as a new UUID.
FreshToken == CHOOSE t \in Tokens : t \notin UsedTokens

Stages == {"idle", "select", "permit", "lease", "status", "connect", "prepare", "authenticate",
           "request", "page", "stop", "close", "release", "done"}
Session == [stage : Stages, mode : {"auth", "public"}, ok : BOOLEAN, token : Tokens \cup {0},
            hb : {"off", "on", "failed"}, lost : BOOLEAN]

TypeOK ==
    /\ free \in Nat
    /\ ses \in [Holders -> Session]
    /\ row \in [token : Tokens \cup {0}, owner : Workers \cup {"other", "none"}]
    /\ cleanups \subseteq Tokens
    /\ sidecar \in {"up", "down"}

SessionsInit ==
    /\ ses = [h \in Holders |-> NoSession]
    /\ row = NoLease
    /\ cleanups = {}
    /\ sidecar = "up"

-----------------------------------------------------------------------------
(* The lease row. An expired row is as good as none: nobody can renew or *)
(* release it, and anyone may acquire over it.                           *)

Holds(owner, token) == row.owner = owner /\ row.token = token

\* acquire, within MaxTokens.
LeaseAvailable == row = NoLease /\ Tokens \ UsedTokens # {}

-----------------------------------------------------------------------------
(* Sessions. *)

\* A command of the monitor's probe does not fail while the sidecar is up.
Reliable(h) == h = "monitor" /\ sidecar = "up"

Holding(h) == ses[h].stage \notin {"idle", "select", "permit", "status", "done"}

\* The session ends and its permit is dropped.
Ended(h, ok) == /\ ses' = [ses EXCEPT ![h] = [NoSession EXCEPT !.stage = "done", !.ok = ok]]
                /\ free' = free + (IF Holding(h) THEN 1 ELSE 0)
At(h, stage) == ses' = [ses EXCEPT ![h].stage = stage]
\* An error inside the session: the heartbeat task, whose own result does not
\* count any more, is stopped; then the browser is closed.
Failed(h) == ses' = [ses EXCEPT ![h] = [@ EXCEPT !.stage = "close", !.ok = FALSE, !.hb = "off"]]
cancelled(h) == ses[h].hb = "failed"

StartAuthenticated(h) == ses' = [ses EXCEPT ![h] = [NoSession EXCEPT !.stage = "select", !.mode = "auth"]]
StartPublic(h) == ses' = [ses EXCEPT ![h] = [NoSession EXCEPT !.stage = "permit"]]
StartProbe == ses' = [ses EXCEPT !["monitor"] = [NoSession EXCEPT !.stage = "status"]]

\* select_account: some account is usable, or the acquisition ends.
select_account(h) ==
    /\ ses[h].stage = "select"
    /\ (At(h, "permit") /\ UNCHANGED free) \/ Ended(h, FALSE)
    /\ UNCHANGED <<row, cleanups, sidecar>>

\* Semaphore::acquire_owned.
TakePermit(h) ==
    /\ ses[h].stage = "permit" /\ free > 0
    /\ free' = free - 1
    /\ At(h, IF ses[h].mode = "auth" THEN "lease" ELSE "connect")
    /\ UNCHANGED <<row, cleanups, sidecar>>

\* What the sidecar may answer: not ready, or an error, when it is down; that
\* all slots are taken only while some worker has a browser.
sidecar_status ==
    IF sidecar = "down" THEN {"NotReady"}
    ELSE {"Ready"} \cup (IF \E w \in Workers : Holding(w) /\ ses[w].stage \notin {"lease", "release"} THEN {"Busy"} ELSE {})

\* try_acquire_owned; a permit that a waiter is about to get is not free.
PermitLeft == free > Cardinality({w \in Workers : ses[w].stage = "permit"})
TryPermit ==
    LET h == "monitor"
    IN /\ ses[h].stage = "status"
       /\ \/ "Ready" \in sidecar_status /\ PermitLeft /\ At(h, "connect") /\ free' = free - 1
          \/ /\ "Busy" \in sidecar_status \/ ("Ready" \in sidecar_status /\ ~PermitLeft)
             /\ ses' = [ses EXCEPT ![h] = NoSession] /\ UNCHANGED free
       /\ UNCHANGED <<row, cleanups, sidecar>>

\* AccountLeaseGuard::acquire: a live lease, or an error, ends the session. A
\* session dropped here holds nothing; should its statement arrive all the same,
\* that is OtherLease.
AcquireLease(h) ==
    /\ ses[h].stage = "lease"
    /\ \/ /\ LeaseAvailable
          /\ row' = [token |-> FreshToken, owner |-> h]
          /\ ses' = [ses EXCEPT ![h] = [@ EXCEPT !.stage = "connect", !.token = FreshToken]]
          /\ UNCHANGED free
       \/ Ended(h, FALSE) /\ UNCHANGED row
    /\ UNCHANGED <<cleanups, sidecar>>

\* connect and validate_environment: a browser with the expected timezone, or an error.
connect(h) == (IF sidecar = "up" THEN {TRUE} ELSE {}) \cup (IF Reliable(h) THEN {} ELSE {FALSE})

\* The heartbeat task of an authenticated session starts with its browser.
Attached(h) == ses' = [ses EXCEPT ![h] = [@ EXCEPT !.stage = IF ses[h].mode = "auth" THEN "prepare" ELSE "page",
                                                   !.hb = IF ses[h].mode = "auth" THEN "on" ELSE "off"]]

ConnectForgettingLease(h) ==
    /\ ses[h].stage = "connect"
    /\ \/ TRUE \in connect(h) /\ Attached(h) /\ UNCHANGED free
       \/ FALSE \in connect(h) /\ Ended(h, FALSE)
    /\ UNCHANGED <<row, cleanups, sidecar>>
\* A failure leaves no browser behind, and releases the lease.
Connect(h) ==
    /\ ses[h].stage = "connect"
    /\ \/ TRUE \in connect(h) /\ Attached(h) /\ UNCHANGED free
       \/ /\ FALSE \in connect(h)
          /\ IF ses[h].mode = "auth"
             THEN ses' = [ses EXCEPT ![h] = [@ EXCEPT !.stage = "release", !.ok = FALSE]] /\ UNCHANGED free
             ELSE Ended(h, FALSE)
    /\ UNCHANGED <<row, cleanups, sidecar>>

\* prepare_request: a heartbeat before the first request.
PrepareRequest(h) ==
    /\ ses[h].stage = "prepare"
    /\ IF ~cancelled(h) /\ Holds(h, ses[h].token) THEN At(h, "authenticate") ELSE Failed(h)
    /\ UNCHANGED <<free, row, cleanups, sidecar>>

\* authenticate_request: the shelf is opened, the cookie installed, the shelf
\* opened again. A cancellation is noticed before the cookie, or at the next check.
Authenticate(h) ==
    /\ ses[h].stage = "authenticate"
    /\ Failed(h) \/ (~cancelled(h) /\ At(h, "request"))
    /\ UNCHANGED <<free, row, cleanups, sidecar>>

\* list_articles and fetch_article_content: the request, and the check after it.
Request(h) ==
    /\ ses[h].stage = "request"
    /\ Failed(h) \/ (~cancelled(h) /\ At(h, "stop"))
    /\ UNCHANGED <<free, row, cleanups, sidecar>>

\* The public page, or the monitor's look at the environment, within its deadline.
Page(h) ==
    /\ ses[h].stage = "page"
    /\ At(h, "close") \/ (~Reliable(h) /\ Failed(h))
    /\ UNCHANGED <<free, row, cleanups, sidecar>>

\* A tick of the heartbeat task that is refused, or fails. (A successful one
\* moves the expiry, which the model leaves to Expire.)
HeartbeatFails(h) ==
    /\ ses[h].hb = "on"
    /\ ses' = [ses EXCEPT ![h] = [@ EXCEPT !.hb = "failed"]]
    /\ UNCHANGED <<free, row, cleanups, sidecar>>

StopHeartbeat(h) ==
    /\ ses[h].stage = "stop"
    /\ ses' = [ses EXCEPT ![h] = [@ EXCEPT !.stage = "close", !.hb = "off", !.ok = ses[h].ok /\ ~cancelled(h)]]
    /\ UNCHANGED <<free, row, cleanups, sidecar>>

\* A browser that does not quit within its timeout is left to the sidecar.
close_webdriver(h) == IF Reliable(h) THEN {TRUE} ELSE BOOLEAN
\* An authenticated session is closed before its lease is released.
Close(h) ==
    /\ ses[h].stage = "close"
    /\ \E quit \in close_webdriver(h) :
         IF ses[h].mode = "auth"
         THEN /\ ses' = [ses EXCEPT ![h] = [@ EXCEPT !.stage = "release", !.ok = ses[h].ok /\ quit]]
              /\ UNCHANGED free
         ELSE Ended(h, ses[h].ok /\ quit)
    /\ UNCHANGED <<row, cleanups, sidecar>>

ReleaseByOwner(owner, token) == row.owner = owner
\* release deletes the row of this owner and token while it is live.
Releases(owner, token) == Holds(owner, token)

\* AuthenticatedBrowserSession::release: a refused or failed release leaves
\* the lease to the cleanup of the dropped session.
Release(h) ==
    /\ ses[h].stage = "release"
    /\ \/ Releases(h, ses[h].token) /\ row' = NoLease /\ Ended(h, ses[h].ok) /\ UNCHANGED cleanups
       \/ /\ Ended(h, FALSE) /\ UNCHANGED row
          /\ cleanups' = cleanups \cup {ses[h].token}
    /\ UNCHANGED sidecar

\* Dropping sessions (a timeout, a lost job lease, an aborted task): their
\* permits are free at once, lease and browser go to cleanup tasks.
Dropped(hs) ==
    /\ ses' = [h \in Holders |-> IF h \in hs THEN NoSession ELSE ses[h]]
    /\ free' = free + Cardinality({h \in hs : Holding(h)})
    /\ cleanups' = cleanups \cup ({ses[h].token : h \in hs} \ {0})

\* schedule_authenticated_session_cleanup: first the lease, then the browser,
\* which the model leaves to the sidecar. An error is logged, and the lease is
\* left to expire.
Cleanup(c) ==
    /\ c \in cleanups
    /\ cleanups' = cleanups \ {c}
    /\ \/ row' = IF \E w \in Workers : Releases(w, c) THEN NoLease ELSE row
       \/ row' = IF row.token = c THEN OtherLease ELSE row
    /\ UNCHANGED <<free, ses, sidecar>>

-----------------------------------------------------------------------------
(* The environment. *)

\* The lease runs out: heartbeats are late, or none is sent.
Expire ==
    /\ row # NoLease
    /\ row' = NoLease
    /\ ses' = [h \in Holders |-> IF ses[h].token # 0 /\ ses[h].token = row.token THEN [ses[h] EXCEPT !.lost = TRUE] ELSE ses[h]]
    /\ UNCHANGED <<free, cleanups, sidecar>>

\* A worker of another replica.
OtherReplica ==
    /\ \/ row = NoLease /\ row' = OtherLease
       \/ row.owner = "other" /\ row' = NoLease
    /\ UNCHANGED <<free, ses, cleanups, sidecar>>

SidecarChanges ==
    /\ sidecar' = IF sidecar = "up" THEN "down" ELSE "up"
    /\ UNCHANGED <<free, ses, row, cleanups>>

SessionStep(h) ==
    \/ select_account(h) \/ TakePermit(h) \/ AcquireLease(h) \/ Connect(h) \/ PrepareRequest(h)
    \/ Authenticate(h) \/ Request(h) \/ Page(h) \/ HeartbeatFails(h) \/ StopHeartbeat(h) \/ Close(h) \/ Release(h)

-----------------------------------------------------------------------------
(* Properties. *)

\* An acquisition that succeeds held the account from its first request to
\* its release: whatever the heartbeat task, a cancellation or another
\* replica did, a lease that ended in between is reported as an error
\* (source_sync_acquirer.rs, list_article_references).
SuccessMeansLeaseHeld ==
    [][\A w \in Workers : ses[w].stage = "release" /\ ses'[w].stage = "done" /\ ses'[w].ok => ~ses[w].lost]_sessionVars

\* A lease ends by expiry or by the release of the session it was issued to:
\* a cleanup that runs late never takes the lease of a newer session, of this
\* worker or of another replica (browser_pool.rs, AccountLeaseGuard::release).
OnlyOwnRelease ==
    [][row' = NoLease /\ row.owner \in Workers => ses'[row.owner].token # row.token \/ ses'[row.owner].lost]_sessionVars

\* A live lease of this process is in the hands of a session or of a cleanup,
\* unless its release failed: no error path forgets it (webdriver.rs, open_authenticated).
LeaseAccountedFor ==
    row.owner \in Workers => ses[row.owner].token = row.token \/ row.token \in cleanups

\* A session has a token from the moment it has the lease until it gives it up,
\* and only an authenticated one asks for a lease; the probe never does.
Leased == {"connect", "prepare", "authenticate", "request", "stop", "close", "release"}
Shaped(s) ==
    /\ s.token # 0 <=> s.mode = "auth" /\ s.stage \in Leased
    /\ s.stage \in {"lease", "release"} => s.mode = "auth"
    /\ s.stage = "page" => s.mode = "public"
    /\ s.lost => s.token # 0
SessionsShaped == (\A h \in Holders : Shaped(ses[h])) /\ ses["monitor"].mode = "public"

\* A token is in one pair of hands: one session's, or one cleanup's.
OneHolder ==
    \A h \in Holders : ses[h].token # 0 =>
        /\ ses[h].token \notin cleanups
        /\ \A g \in Holders \ {h} : ses[g].token # ses[h].token

\* The row names a token exactly when a worker of this process owns it, and
\* never that of a session that has lost its lease.
RowShaped ==
    /\ row.owner \in Workers <=> row.token # 0
    /\ \A h \in Holders : ses[h].lost => row.token # ses[h].token

SessionInv == TypeOK /\ SessionsShaped /\ OneHolder /\ RowShaped /\ LeaseAccountedFor

\* Whoever waits for a browser permit gets one: no session waits while it
\* holds another, and no path keeps its permit (browser_pool.rs, open_public).
PermitGranted == \A w \in Workers : ses[w].stage = "permit" ~> ses[w].stage # "permit"
=============================================================================
