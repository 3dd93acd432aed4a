------------------------- MODULE AccountCredentials -------------------------
(***************************************************************************)
(* The credentials of one WeRead account: its weread_accounts row, its     *)
(* account lease, the credential_refresh job the scheduler keeps for it,   *)
(* the workers that run that job, the operators that log in again, and the *)
(* gate of a source bound to the account (application/auth_service.rs over *)
(* persistence/repositories/credential_repository.rs and                   *)
(* account_lease_repository.rs, acquisition/browser_pool.rs).              *)
(*                                                                         *)
(* A refresh and a login read the row, leave the database (for the         *)
(* upstream exchange, for the encryption) and write the row later.  The    *)
(* lease they hold meanwhile may expire, the account may be deleted and    *)
(* enrolled again, and the version of a new row starts from one again.     *)
(*                                                                         *)
(* A deletion is a transaction of two statements under READ COMMITTED: it  *)
(* locks the account row, then the lease row if there is one.  Others read *)
(* both rows until it commits, and a lease inserted after its second       *)
(* statement is not its to delete.                                         *)
(*                                                                         *)
(* A lease token is named by the user that drew it: a user holds at most   *)
(* one lease at a time and never uses a token of an earlier pass.          *)
(***************************************************************************)
EXTENDS Naturals

CONSTANTS
    Workers,        \* worker loops that run credential_refresh jobs
    Operators,      \* administrator requests that replace the credentials
    LeaseFor,       \* lease_for: how long a lease lasts without a heartbeat
    LifeFor,        \* how long new access credentials last
    RefreshBefore,  \* refresh_before: the refresh window
    MaxAttempts,    \* the job's failure budget
    MaxIssued,      \* bound: rows and credentials ever written
    MaxFaults       \* bound: crashes, failed heartbeats, lost job leases

Users == Workers \cup Operators
NoUser == "no user"

ASSUME AccountUsersAssumption == NoUser \notin Users /\ Workers \cap Operators = {}
ASSUME AccountTimesAssumption ==
    LeaseFor \in Nat \ {0} /\ LifeFor \in Nat \ {0} /\ RefreshBefore \in Nat
ASSUME AccountBoundsAssumption ==
    MaxAttempts \in Nat \ {0} /\ MaxIssued \in Nat /\ MaxFaults \in Nat

VARIABLES
    account,  \* the weread_accounts row
    lease,    \* the account_leases row
    deleting, \* how far the transaction that deletes the account has got
    gated,    \* the bound source's gate is authentication_required
    job,      \* the account's active credential_refresh job
    pass,     \* pass[u]: where user u's refresh or login is
    issued,   \* history: the last stamp given to a row's contents
    faults    \* history: faults so far

vars == <<account, lease, deleting, gated, job, pass, issued, faults>>

\* The stamp names one value of the row's credentials, over every incarnation of it.
Row ==
    [state : {"absent", "setup_required", "enrolled"}, version : Nat,
     disabled : BOOLEAN, left : Nat, stamp : Nat]

LeaseRow == [holder : Users \cup {NoUser}, left : Nat]
NoLease == [holder |-> NoUser, left |-> 0]

\* After the account row ("row"), the second statement has either found a lease row
\* and locked it, or found none.
DeletePhases == {"no", "row", "locking", "leaseless"}

Verdicts == {"succeeded", "retry", "failed"}
JobRecord ==
    [status : {"none", "waiting", "running"}, failures : Nat,
     holder : Workers \cup {NoUser}]
NoJob == [status |-> "none", failures |-> 0, holder |-> NoUser]

\* Steps taken with the account lease in hand.
Leased == {"load", "exchange", "commit", "release"}

\* stamp and doomed are history: which contents the pass read, and whether it read
\* them from a row whose deletion had already looked for the lease.
PassRecord ==
    [pc : {"idle", "check", "acquire", "report"} \cup Leased,
     version : Nat, setup : BOOLEAN, stamp : Nat, doomed : BOOLEAN,
     usable : BOOLEAN, verdict : Verdicts]

IdlePass ==
    [pc |-> "idle", version |-> 0, setup |-> FALSE, stamp |-> 0, doomed |-> FALSE,
     usable |-> TRUE, verdict |-> "succeeded"]

NoRow ==
    [state |-> "absent", version |-> 0, disabled |-> FALSE, left |-> 0, stamp |-> 0]

Init ==
    /\ account = NoRow
    /\ lease = NoLease
    /\ deleting = "no"
    /\ gated = FALSE
    /\ job = NoJob
    /\ pass = [u \in Users |-> IdlePass]
    /\ issued = 0
    /\ faults = 0

-----------------------------------------------------------------------------
(* The account row and the gate of its source. *)

\* What acquisition accepts, and what resume_authentication_gated_sources asks for.
Usable(row) == row.state = "enrolled" /\ ~row.disabled /\ row.left > 0

\* Mutant: re-enabling reopens the gate whatever the credentials are worth.
ResumeAlways(row) == gated' = FALSE

\* The sources of the account resume in the transaction that makes it usable.
Resume(row) == gated' = (gated /\ ~Usable(row))

NeedsRefresh(row) == row.left <= RefreshBefore

\* insert: a first login; the version starts from one, and no gate is touched.
Provision ==
    /\ account.state = "absent"
    /\ issued < MaxIssued
    /\ account' = [state |-> "enrolled", version |-> 1, disabled |-> FALSE,
                   left |-> LifeFor, stamp |-> issued + 1]
    /\ issued' = issued + 1
    /\ UNCHANGED <<lease, deleting, gated, job, pass, faults>>

\* A configuration import creates the row without credentials.
ImportPlaceholder(disabled) ==
    /\ account.state = "absent"
    /\ issued < MaxIssued
    /\ account' = [state |-> "setup_required", version |-> 1,
                   disabled |-> disabled, left |-> 0, stamp |-> issued + 1]
    /\ issued' = issued + 1
    /\ UNCHANGED <<lease, deleting, gated, job, pass, faults>>

\* The operator's switch, and an import over an existing row: both lock the row.
SetDisabled(disabled) ==
    /\ account.state # "absent"
    /\ deleting = "no"
    /\ account' = [account EXCEPT !.disabled = disabled]
    /\ IF account.disabled /\ ~disabled /\ account.state = "enrolled"
       THEN Resume(account') ELSE UNCHANGED gated
    /\ UNCHANGED <<lease, deleting, job, pass, issued, faults>>

\* delete, its first statement: the row is locked and still read by others.
DeleteRow ==
    /\ account.state # "absent"
    /\ deleting = "no"
    /\ deleting' = "row"
    /\ UNCHANGED <<account, lease, gated, job, pass, issued, faults>>

\* Its second statement: an absent lease row cannot be locked.
DeleteLease ==
    /\ deleting = "row"
    /\ deleting' = IF lease.holder = NoUser THEN "leaseless" ELSE "locking"
    /\ UNCHANGED <<account, lease, gated, job, pass, issued, faults>>

\* Mutant: the account goes but its lease stays.
DeleteKeepsLease ==
    /\ deleting \in {"locking", "leaseless"}
    /\ deleting' = "no"
    /\ account' = NoRow
    /\ UNCHANGED <<lease, gated, job, pass, issued, faults>>

\* Its commit: the row goes, with the lease it locked; sources and the job stay.
DeleteCommit ==
    /\ deleting \in {"locking", "leaseless"}
    /\ deleting' = "no"
    /\ account' = NoRow
    /\ lease' = IF deleting = "locking" THEN NoLease ELSE lease
    /\ UNCHANGED <<gated, job, pass, issued, faults>>

\* It fails, or its process dies: everything is as before.
DeleteFails ==
    /\ deleting # "no"
    /\ faults < MaxFaults
    /\ faults' = faults + 1
    /\ deleting' = "no"
    /\ UNCHANGED <<account, lease, gated, job, pass, issued>>

\* A source synchronization of the account meets an authentication failure.
GateSource ==
    /\ ~gated
    /\ gated' = TRUE
    /\ UNCHANGED <<account, lease, deleting, job, pass, issued, faults>>

-----------------------------------------------------------------------------
(* The scheduler and the worker loop. *)

\* enqueue_due_credential_refreshes: one active job, found by its dedupe key.
EnqueueRefresh ==
    /\ account.state = "enrolled"
    /\ ~account.disabled
    /\ NeedsRefresh(account)
    /\ job.status = "none"
    /\ job' = [NoJob EXCEPT !.status = "waiting"]
    /\ UNCHANGED <<account, lease, deleting, gated, pass, issued, faults>>

Claim(w) ==
    /\ pass[w].pc = "idle"
    /\ job.status = "waiting"
    /\ job' = [job EXCEPT !.status = "running", !.holder = w]
    /\ pass' = [pass EXCEPT ![w] = [IdlePass EXCEPT !.pc = "check"]]
    /\ UNCHANGED <<account, lease, deleting, gated, issued, faults>>

\* Mutant: a retry is free, so the budget never ends the job.
SpendNothing ==
    [status |-> "waiting", failures |-> job.failures, holder |-> NoUser]

\* Another attempt, or the end of the job when the budget is spent.
Spend ==
    IF job.failures + 1 >= MaxAttempts THEN NoJob
    ELSE [status |-> "waiting", failures |-> job.failures + 1, holder |-> NoUser]

\* The verdict ends the claim, unless the worker lost it meanwhile.
Report(w) ==
    /\ pass[w].pc = "report"
    /\ job' = IF job.status # "running" \/ job.holder # w THEN job
              ELSE IF pass[w].verdict = "retry" THEN Spend ELSE NoJob
    /\ pass' = [pass EXCEPT ![w] = IdlePass]
    /\ UNCHANGED <<account, lease, deleting, gated, issued, faults>>

\* The claim expires: its worker died, or could not renew it in time.
JobLeaseLost ==
    /\ job.status = "running"
    /\ \/ pass[job.holder].pc = "idle" /\ UNCHANGED faults
       \/ pass[job.holder].pc # "idle" /\ faults < MaxFaults /\ faults' = faults + 1
    /\ job' = Spend
    /\ UNCHANGED <<account, lease, deleting, gated, pass, issued>>

-----------------------------------------------------------------------------
(* The account lease. *)

Goto(u, pc) == pass' = [pass EXCEPT ![u] = [@ EXCEPT !.pc = pc]]

\* The pass has its result; what it read is no longer needed.
Conclude(u, pc, verdict) ==
    pass' = [pass EXCEPT ![u] = [IdlePass EXCEPT !.pc = pc, !.usable = pass[u].usable,
                                                 !.verdict = verdict]]

\* The deletion has locked the lease row: statements about it wait for its end.
Locked == deleting = "locking"

Live == lease.holder # NoUser /\ lease.left > 0
Owns(u) == lease.holder = u /\ Live

\* What a pass that ends without a lease does next.
AfterPass(u) == IF u \in Workers THEN "report" ELSE "idle"

Acquire(u) ==
    /\ pass[u].pc = "acquire"
    /\ ~Live /\ ~Locked
    /\ lease' = [holder |-> u, left |-> LeaseFor]
    /\ Goto(u, "load")
    /\ UNCHANGED <<account, deleting, gated, job, issued, faults>>

AccountBusy(u) ==
    /\ pass[u].pc = "acquire"
    /\ Live /\ ~Locked
    /\ Conclude(u, AfterPass(u), "retry")
    /\ UNCHANGED <<account, lease, deleting, gated, job, issued, faults>>

\* The heartbeat task: one that is refused cancels the guard for good.
Heartbeat(u) ==
    /\ pass[u].pc \in Leased
    /\ pass[u].usable
    /\ ~(Owns(u) /\ Locked)
    /\ IF Owns(u)
       THEN lease' = [lease EXCEPT !.left = LeaseFor] /\ UNCHANGED pass
       ELSE pass' = [pass EXCEPT ![u] = [@ EXCEPT !.usable = FALSE]] /\ UNCHANGED lease
    /\ UNCHANGED <<account, deleting, gated, job, issued, faults>>

\* So does one that cannot reach the database.
HeartbeatFails(u) ==
    /\ pass[u].pc \in Leased
    /\ pass[u].usable
    /\ faults < MaxFaults
    /\ faults' = faults + 1
    /\ pass' = [pass EXCEPT ![u] = [@ EXCEPT !.usable = FALSE]]
    /\ UNCHANGED <<account, lease, deleting, gated, job, issued>>

\* Both the heartbeat's error and the release's own replace the pass's result.
Release(u) ==
    /\ pass[u].pc = "release"
    /\ ~(Owns(u) /\ Locked)
    /\ lease' = IF Owns(u) THEN NoLease ELSE lease
    /\ LET kept == Owns(u) /\ pass[u].usable
           next == [IdlePass EXCEPT !.pc = AfterPass(u),
                                    !.verdict = IF kept THEN pass[u].verdict ELSE "retry"]
       IN pass' = [pass EXCEPT ![u] = IF u \in Workers THEN next ELSE IdlePass]
    /\ UNCHANGED <<account, deleting, gated, job, issued, faults>>

-----------------------------------------------------------------------------
(* refresh_if_needed. *)

\* What a read of the row means for a refresh.
ReadVerdict(row) ==
    IF row.state # "enrolled" \/ row.disabled THEN "failed"
    ELSE IF NeedsRefresh(row) THEN "refresh" ELSE "succeeded"

\* The first read, without the lease, only decides whether to go on.
CheckRefresh(w) ==
    /\ pass[w].pc = "check"
    /\ IF ReadVerdict(account) = "refresh" THEN Goto(w, "acquire")
       ELSE Conclude(w, "report", ReadVerdict(account))
    /\ UNCHANGED <<account, lease, deleting, gated, job, issued, faults>>

Remember(u, pc) ==
    pass' = [pass EXCEPT ![u] = [@ EXCEPT !.pc = pc, !.version = account.version,
                                          !.setup = (account.state = "setup_required"),
                                          !.stamp = account.stamp,
                                          !.doomed = (deleting = "leaseless")]]

LoadRefresh(w) ==
    /\ w \in Workers
    /\ pass[w].pc = "load"
    /\ IF ReadVerdict(account) = "refresh" THEN Remember(w, "exchange")
       ELSE Conclude(w, "release", ReadVerdict(account))
    /\ UNCHANGED <<account, lease, deleting, gated, job, issued, faults>>

\* A guard already cancelled stops the refresh before it asks upstream.
LeaseAlreadyLost(u) ==
    /\ pass[u].pc \in {"exchange", "commit"}
    /\ ~pass[u].usable
    /\ Conclude(u, "release", "retry")
    /\ UNCHANGED <<account, lease, deleting, gated, job, issued, faults>>

ExchangeGranted(w) ==
    /\ pass[w].pc = "exchange"
    /\ pass[w].usable
    /\ issued < MaxIssued
    /\ Goto(w, "commit")
    /\ UNCHANGED <<account, lease, deleting, gated, job, issued, faults>>

\* Transient; everything else upstream can say is terminal for the job.
ExchangeUnavailable(w) ==
    /\ pass[w].pc = "exchange"
    /\ pass[w].usable
    /\ Conclude(w, "release", "retry")
    /\ UNCHANGED <<account, lease, deleting, gated, job, issued, faults>>

ExchangeRefused(w) ==
    /\ pass[w].pc = "exchange"
    /\ pass[w].usable
    /\ Conclude(w, "release", "failed")
    /\ UNCHANGED <<account, lease, deleting, gated, job, issued, faults>>

-----------------------------------------------------------------------------
(* replace, shared by the refresh and the login. *)

StartLogin(o) ==
    /\ pass[o].pc = "idle"
    /\ issued < MaxIssued
    /\ Goto(o, "acquire")
    /\ UNCHANGED <<account, lease, deleting, gated, job, issued, faults>>

LoadLogin(o) ==
    /\ o \in Operators
    /\ pass[o].pc = "load"
    /\ IF account.state = "absent" THEN Conclude(o, "release", "failed")
       ELSE Remember(o, "commit")
    /\ UNCHANGED <<account, lease, deleting, gated, job, issued, faults>>

\* Mutant: the optimistic version alone, without the lease.
VersionOnly(u) ==
    /\ account.state # "absent"
    /\ account.version = pass[u].version
    /\ pass[u].setup = (account.state = "setup_required")

\* The statement's conditions: the caller's lease, live now, on the row it read.
CanReplace(u) ==
    /\ Owns(u)
    /\ IF pass[u].setup THEN account.state = "setup_required"
       ELSE account.state = "enrolled" /\ account.version = pass[u].version

\* replace and enroll_placeholder: the disabled flag is kept as it is now.  The
\* statement locks the lease, then the account: with a deletion that has locked the
\* account but not the lease it deadlocks, and either may be the victim.
Replace(u) ==
    /\ pass[u].pc = "commit"
    /\ pass[u].usable
    /\ CanReplace(u)
    /\ deleting \in {"no", "row"} /\ deleting' = "no"
    /\ account' = [account EXCEPT !.state = "enrolled", !.version = @ + 1,
                                  !.left = LifeFor, !.stamp = issued + 1]
    /\ issued' = issued + 1
    /\ Resume(account')
    /\ Conclude(u, "release", "succeeded")
    /\ UNCHANGED <<lease, job, faults>>

Conflict(u) ==
    /\ pass[u].pc = "commit"
    /\ pass[u].usable
    /\ ~CanReplace(u) \/ deleting = "row"
    /\ Conclude(u, "release", "retry")
    /\ UNCHANGED <<account, lease, deleting, gated, job, issued, faults>>

-----------------------------------------------------------------------------
(* Time and failures. *)

\* The process dies, or the request is dropped: the lease is left to expire.
Crash(u) ==
    /\ pass[u].pc # "idle"
    /\ faults < MaxFaults
    /\ faults' = faults + 1
    /\ pass' = [pass EXCEPT ![u] = IdlePass]
    /\ UNCHANGED <<account, lease, deleting, gated, job, issued>>

\* A query fails: the pass gives up where it stands and is tried again later.
StorageError(u) ==
    /\ faults < MaxFaults
    /\ faults' = faults + 1
    /\ \/ pass[u].pc \in {"check", "acquire"} /\ Conclude(u, AfterPass(u), "retry")
       \/ pass[u].pc \in {"load", "commit"} /\ Conclude(u, "release", "retry")
       \/ /\ pass[u].pc = "release"   \* the lease stays and has to expire
          /\ pass' = [pass EXCEPT ![u] = IF u \in Workers
                         THEN [IdlePass EXCEPT !.pc = "report", !.verdict = "retry"]
                         ELSE IdlePass]
    /\ UNCHANGED <<account, lease, deleting, gated, job, issued>>

Less(n) == IF n = 0 THEN 0 ELSE n - 1

Tick ==
    /\ account.left > 0 \/ lease.left > 0
    /\ account' = [account EXCEPT !.left = Less(@)]
    /\ lease' = [lease EXCEPT !.left = Less(@)]
    /\ UNCHANGED <<deleting, gated, job, pass, issued, faults>>

OperatorStep ==
    \/ Provision
    \/ \E disabled \in BOOLEAN : ImportPlaceholder(disabled) \/ SetDisabled(disabled)
    \/ DeleteRow \/ DeleteFails

DeleteGoesOn == DeleteLease \/ DeleteCommit

WorkerStep(w) ==
    \/ CheckRefresh(w) \/ LoadRefresh(w)
    \/ ExchangeGranted(w) \/ ExchangeUnavailable(w) \/ ExchangeRefused(w)
    \/ Report(w)

UserStep(u) ==
    \/ Acquire(u) \/ AccountBusy(u) \/ LeaseAlreadyLost(u)
    \/ Replace(u) \/ Conflict(u) \/ Release(u)

Next ==
    \/ OperatorStep
    \/ DeleteGoesOn
    \/ GateSource
    \/ EnqueueRefresh
    \/ JobLeaseLost
    \/ \E w \in Workers : Claim(w) \/ WorkerStep(w)
    \/ \E o \in Operators : StartLogin(o) \/ LoadLogin(o)
    \/ \E u \in Users : UserStep(u) \/ Heartbeat(u)
    \/ \E u \in Users : HeartbeatFails(u) \/ StorageError(u) \/ Crash(u)
    \/ Tick

Spec == Init /\ [][Next]_vars

\* A worker that is alive goes on with its job and with its pass, an operator's
\* request and a deletion run to their end, and an expired claim is noticed.
FairSpec ==
    /\ Spec
    /\ \A w \in Workers : WF_vars(Claim(w)) /\ WF_vars(WorkerStep(w))
    /\ \A o \in Operators : WF_vars(LoadLogin(o))
    /\ \A u \in Users : WF_vars(UserStep(u))
    /\ WF_vars(DeleteGoesOn)
    /\ WF_vars(JobLeaseLost)

-----------------------------------------------------------------------------
(* Properties. *)

AccountTypeOK ==
    /\ account \in Row
    /\ lease \in LeaseRow
    /\ deleting \in DeletePhases
    /\ gated \in BOOLEAN
    /\ job \in JobRecord
    /\ pass \in [Users -> PassRecord]
    /\ issued \in Nat /\ faults \in Nat

\* The read of a pass that still has its lease row is the account's present
\* contents: no other refresh or login, no deletion and no new enrolment came
\* between, although the version of a deleted and enrolled account starts over.
\* The lease does not say so much of a doomed pass, which took the lease and read
\* the row after their deletion had found no lease: its account is the one it read,
\* or absent, or enrolled again and untouched since.
Fresh(u) ==
    /\ account.state # "absent"
    /\ account.stamp = pass[u].stamp
    /\ account.version = pass[u].version
    /\ pass[u].setup = (account.state = "setup_required")
SnapshotFresh ==
    \A u \in Users :
        (lease.holder = u /\ pass[u].pc \in {"exchange", "commit"}) =>
            \/ Fresh(u)
            \/ pass[u].doomed /\ (account.state = "absent" \/ account.version = 1)

\* A deletion that found no lease misses only doomed passes.
DeletionMisses ==
    deleting = "leaseless" => \A u \in Users :
        (lease.holder = u /\ pass[u].pc \in {"exchange", "commit"}) => pass[u].doomed

\* The inductive invariant: every variable keeps its type, the lease keeps the
\* reads of the passes that hold it fresh, and a deletion misses only doomed ones.
AccountInv == AccountTypeOK /\ SnapshotFresh /\ DeletionMisses

\* Stored credentials are replaced only by a pass that read those very
\* credentials: a refresh never overwrites a login it has not seen, nor the
\* other way round.  A later incarnation of the account is safe from every pass but
\* a doomed one, which may overwrite the first credentials enrolled in it.
ReplaceStep ==
    (/\ account.state # "absent" /\ account'.state # "absent"
     /\ account'.stamp # account.stamp) =>
        \E u \in Users :
            /\ pass[u].pc = "commit" /\ pass'[u].pc = "release"
            /\ \/ pass[u].stamp = account.stamp
               \/ pass[u].doomed /\ account.version = 1
NoStaleOverwrite == [][ReplaceStep]_vars

\* The gate reopens only onto an account that acquisition accepts: enrolled,
\* enabled and not expired, whatever raced with the login that reopened it.
GateStep == (gated /\ ~gated') => Usable(account')
GateOpensUsable == [][GateStep]_vars

\* A refresh job ends: busy accounts, lost leases, conflicts and crashes all
\* spend its budget.
JobSettles == job.status # "none" ~> job.status = "none"
=============================================================================
