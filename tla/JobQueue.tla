------------------------------ MODULE JobQueue ------------------------------
(***************************************************************************)
(* The durable job queue and the worker loops that drain it                *)
(* (application/worker.rs over application/job_service.rs and              *)
(* persistence/repositories/job_repository.rs).                            *)
(*                                                                         *)
(* Every statement of the repository is one transaction, so it is one      *)
(* action.  What lies between them is not atomic: a worker recovers, then  *)
(* claims, then runs its handler beside a heartbeat and under a timeout,   *)
(* then applies the outcome, and other workers, the clock and crashes move *)
(* between any two of those steps.  A handler may also write its outcome   *)
(* in the transaction of its own effects, before the pass sees it return.  *)
(***************************************************************************)
EXTENDS Jobs, FiniteSets

CONSTANTS
    JobIds,              \* job ids; each is inserted at most once
    KeyOf,               \* the deduplication key of each job
    Workers,             \* worker loops
    OwnerOf,             \* the replica each loop runs in: its loops share an owner
    ExecutionTimeout,    \* the limit on one handler execution
    RecoveryBatchLimit,  \* rows one recovery pass may take
    Delays,              \* how far ahead callers and handlers set run_after
    MaxDeferrals         \* bound: deferrals of one job a behaviour contains

ASSUME OwnerOfAssumption == OwnerOf \in [Workers -> Owners]
ASSUME ExecutionTimeoutAssumption == ExecutionTimeout \in Nat \ {0}
ASSUME RecoveryBatchLimitAssumption == RecoveryBatchLimit \in Nat
ASSUME DelaysAssumption == Delays \subseteq Nat
ASSUME MaxDeferralsAssumption == MaxDeferrals \in Nat

VARIABLES
    jobs,       \* the table: jobs[j] is the row with id j
    pass,       \* pass[w] is the run_once call worker w is in
    deferrals   \* history: how often job j went to "deferred"

vars == <<jobs, pass, deferrals>>

NoJob == "no job"
ASSUME JobIdsAssumption == NoJob \notin JobIds

\* A pass: between calls, after recovery, with its handler running, with its
\* handler's transaction committed but not returned, with an outcome to apply,
\* or lost with its process.
IdlePass ==
    [pc |-> "idle", job |-> NoJob, token |-> 0, exec |-> 0,
     outcome |-> "none", at |-> 0]

PassRecord ==
    [pc      : {"idle", "claim", "executing", "committed", "apply", "down"},
     job     : JobIds \cup {NoJob},
     token   : Nat,
     exec    : Nat,
     outcome : Outcomes \cup {"none"},
     at      : Nat]

Holding(w) == pass[w].pc \in {"executing", "committed", "apply"}

\* The row worker w holds the lease of, as the fence sees it.
Live(w) == LiveOwner(jobs[pass[w].job], OwnerOf[w], pass[w].token)

Init ==
    /\ jobs = [j \in JobIds |-> AbsentRow]
    /\ pass = [w \in Workers |-> IdlePass]
    /\ deferrals = [j \in JobIds |-> 0]

KeyFree(j) == \A i \in JobIds : KeyOf[i] = KeyOf[j] => ~Active(jobs[i])

\* enqueue: the insert of a key an active job holds does nothing.
Enqueue(j, delay) ==
    /\ jobs[j].status = "absent"
    /\ KeyFree(j)
    /\ jobs' = [jobs EXCEPT ![j] = NewRow(delay)]
    /\ UNCHANGED <<pass, deferrals>>

Cancel(j) ==
    /\ Cancellable(jobs[j])
    /\ jobs' = [jobs EXCEPT ![j] = CancelRow(@)]
    /\ UNCHANGED <<pass, deferrals>>

Expired == {j \in JobIds : LeaseExpired(jobs[j])}

\* A pass begins with recover_expired, which takes up to the batch limit of the
\* expired rows that no other transaction has locked.
RecoverExpired(w, batch) ==
    /\ pass[w].pc = "idle"
    /\ Cardinality(batch) <= RecoveryBatchLimit
    /\ batch = {} => Expired = {} \/ RecoveryBatchLimit = 0
    /\ jobs' = [j \in JobIds |-> IF j \in batch THEN RecoverRow(jobs[j]) ELSE jobs[j]]
    /\ pass' = [pass EXCEPT ![w] = [@ EXCEPT !.pc = "claim"]]
    /\ UNCHANGED deferrals

Claim(w, j) ==
    /\ pass[w].pc = "claim"
    /\ Claimable(jobs[j])
    /\ jobs' = [jobs EXCEPT ![j] = ClaimRow(@, OwnerOf[w])]
    /\ pass' = [pass EXCEPT ![w] =
                   [IdlePass EXCEPT !.pc    = "executing",
                                    !.job   = j,
                                    !.token = jobs[j].claims + 1,
                                    !.exec  = ExecutionTimeout]]
    /\ UNCHANGED deferrals

\* No job is due: WorkerRun::Idle.
NoClaim(w) ==
    /\ pass[w].pc = "claim"
    /\ \A j \in JobIds : ~Claimable(jobs[j])
    /\ pass' = [pass EXCEPT ![w] = IdlePass]
    /\ UNCHANGED <<jobs, deferrals>>

\* The ticker fires while the handler runs and the statement finds the lease.
Heartbeat(w) ==
    /\ pass[w].pc \in {"executing", "committed"}
    /\ Live(w)
    /\ jobs' = [jobs EXCEPT ![pass[w].job] = HeartbeatRow(@)]
    /\ UNCHANGED <<pass, deferrals>>

\* The ticker fires and the statement does not: the handler is dropped and the
\* pass ends in an error without an outcome.
HeartbeatLost(w) ==
    /\ pass[w].pc \in {"executing", "committed"}
    /\ ~Live(w)
    /\ pass' = [pass EXCEPT ![w] = IdlePass]
    /\ UNCHANGED <<jobs, deferrals>>

\* The handler leaves its outcome to the pass.
HandlerReturns(w, outcome, at) ==
    /\ pass[w].pc = "executing"
    /\ outcome = "deferred" => deferrals[pass[w].job] < MaxDeferrals
    /\ pass' = [pass EXCEPT ![w] = [@ EXCEPT !.pc = "apply", !.outcome = outcome, !.at = at]]
    /\ UNCHANGED <<jobs, deferrals>>

CountDeferral(j, outcome) ==
    [deferrals EXCEPT ![j] = IF outcome = "deferred" THEN @ + 1 ELSE @]

\* The handler commits its effects and the fenced outcome in one transaction.
HandlerCommits(w, outcome, at) ==
    LET j == pass[w].job IN
    /\ pass[w].pc = "executing"
    /\ outcome = "deferred" => deferrals[j] < MaxDeferrals
    /\ OutcomeAccepted(jobs[j], OwnerOf[w], pass[w].token, outcome, at)
    /\ jobs' = [jobs EXCEPT ![j] = OutcomeRow(@, outcome, at)]
    /\ pass' = [pass EXCEPT ![w] = [@ EXCEPT !.pc = "committed"]]
    /\ deferrals' = CountDeferral(j, outcome)

\* The pass sees JobExecution::Committed and only reads the job back.
CommittedReturns(w) ==
    /\ pass[w].pc = "committed"
    /\ pass' = [pass EXCEPT ![w] = IdlePass]
    /\ UNCHANGED <<jobs, deferrals>>

\* Mutant: the timeout is looked at only once a heartbeat has failed.
TimeoutAfterLoss(w) ==
    /\ pass[w].pc \in {"executing", "committed"}
    /\ pass[w].exec = 0
    /\ ~Live(w)
    /\ pass' = [pass EXCEPT ![w] = [@ EXCEPT !.pc = "apply", !.outcome = "retry", !.at = 0]]
    /\ UNCHANGED <<jobs, deferrals>>

\* The execution timeout drops the handler, wherever it is, and retries the job
\* at the instant the pass began.
Timeout(w) ==
    /\ pass[w].pc \in {"executing", "committed"}
    /\ pass[w].exec = 0
    /\ pass' = [pass EXCEPT ![w] = [@ EXCEPT !.pc = "apply", !.outcome = "retry", !.at = 0]]
    /\ UNCHANGED <<jobs, deferrals>>

\* The outcome's transaction, when its statement matches the row ...
ApplyOutcome(w) ==
    LET j == pass[w].job IN
    /\ pass[w].pc = "apply"
    /\ OutcomeAccepted(jobs[j], OwnerOf[w], pass[w].token, pass[w].outcome, pass[w].at)
    /\ jobs' = [jobs EXCEPT ![j] = OutcomeRow(@, pass[w].outcome, pass[w].at)]
    /\ pass' = [pass EXCEPT ![w] = IdlePass]
    /\ deferrals' = CountDeferral(j, pass[w].outcome)

\* ... and when it does not: the pass ends in an error and leaves the row.
OutcomeRejected(w) ==
    /\ pass[w].pc = "apply"
    /\ ~OutcomeAccepted(jobs[pass[w].job], OwnerOf[w], pass[w].token,
                        pass[w].outcome, pass[w].at)
    /\ pass' = [pass EXCEPT ![w] = IdlePass]
    /\ UNCHANGED <<jobs, deferrals>>

\* The process dies, or the database cannot be reached, while a pass holds a job.
Crash(w) ==
    /\ Holding(w)
    /\ pass' = [pass EXCEPT ![w] = [IdlePass EXCEPT !.pc = "down"]]
    /\ UNCHANGED <<jobs, deferrals>>

Restart(w) ==
    /\ pass[w].pc = "down"
    /\ pass' = [pass EXCEPT ![w] = IdlePass]
    /\ UNCHANGED <<jobs, deferrals>>

Ticking ==
    \/ \E j \in JobIds : jobs[j].wait > 0 \/ jobs[j].lease > 0
    \/ \E w \in Workers : pass[w].exec > 0 \/ pass[w].at > 0

Tick ==
    /\ Ticking
    /\ jobs' = [j \in JobIds |-> ElapseRow(jobs[j])]
    /\ pass' = [w \in Workers |->
                   [pass[w] EXCEPT !.exec = Elapse(@), !.at = Elapse(@)]]
    /\ UNCHANGED deferrals

\* The times an outcome can carry; success and failure carry none.
OutcomeTimes(outcome) == IF outcome \in {"retry", "deferred"} THEN Delays ELSE {0}

Handler(w) ==
    \E outcome \in Outcomes : \E at \in OutcomeTimes(outcome) :
        HandlerReturns(w, outcome, at) \/ HandlerCommits(w, outcome, at)

\* The steps a live worker loop takes on its own.
PassStep(w) ==
    \/ \E batch \in SUBSET Expired : RecoverExpired(w, batch)
    \/ \E j \in JobIds : Claim(w, j)
    \/ NoClaim(w)
    \/ CommittedReturns(w)
    \/ Timeout(w)
    \/ ApplyOutcome(w)
    \/ OutcomeRejected(w)
    \/ Restart(w)

Next ==
    \/ \E j \in JobIds, delay \in Delays : Enqueue(j, delay)
    \/ \E j \in JobIds : Cancel(j)
    \/ \E w \in Workers :
         PassStep(w) \/ Handler(w) \/ Heartbeat(w) \/ HeartbeatLost(w) \/ Crash(w)
    \/ Tick

Spec == Init /\ [][Next]_vars

\* Time passes and every worker loop keeps taking its steps; that a handler
\* returns, a heartbeat arrives or a caller enqueues is not assumed.
Fairness == WF_vars(Tick) /\ \A w \in Workers : WF_vars(PassStep(w))

FairSpec == Spec /\ Fairness

-----------------------------------------------------------------------------
TypeOK ==
    /\ jobs \in [JobIds -> JobRow]
    /\ pass \in [Workers -> PassRecord]
    /\ deferrals \in [JobIds -> Nat]

\* Every row satisfies the table's CHECK constraint, so no statement of the
\* repository is refused by the database and decode_job accepts every row.
RowsValid == \A j \in JobIds : RowValid(jobs[j])

\* A key has one active job: the partial unique index jobs_active_dedupe_key_idx
\* is never violated, by the insert or by a row that becomes active again.
OneActivePerKey ==
    \A i, j \in JobIds :
        Active(jobs[i]) /\ Active(jobs[j]) /\ KeyOf[i] = KeyOf[j] => i = j

\* Every claim is paid for exactly once.  The claims of a job are its spent
\* failures, its deferrals and, while it runs or once its owner has ended it,
\* one more: nothing is charged twice when an expiry, a timeout and a late
\* handler race, and no claim is lost.
Accounted(row, deferred) ==
    LET paid == row.failures + deferred IN
    /\ row.status \in {"running", "succeeded"} => row.claims = paid + 1
    /\ row.status = "failed" =>
          row.claims = paid \/ (row.failures < MaxAttempts /\ row.claims = paid + 1)
    /\ row.status \in WaitingStatuses \cup {"absent"} => row.claims = paid

ClaimAccounting == \A j \in JobIds : Accounted(jobs[j], deferrals[j])

HoldsClaim(w, j) == Holding(w) /\ pass[w].job = j /\ pass[w].token = jobs[j].token

\* No two passes hold the same claim, although the loops of a replica share
\* their lease owner and a recovered job may be claimed by the same replica.
ClaimHeldOnce ==
    \A v, w \in Workers :
        /\ Holding(v) /\ Holding(w)
        /\ pass[v].job = pass[w].job
        /\ pass[v].token = pass[w].token
        => v = w

\* What ties passes to rows: a running row carries the token of its latest claim,
\* and a pass holds a token that was drawn for its job.
ClaimsLinked ==
    /\ \A j \in JobIds : jobs[j].status = "running" => jobs[j].token = jobs[j].claims
    /\ \A w \in Workers : Holding(w) =>
          /\ pass[w].job \in JobIds
          /\ pass[w].token \in 1 .. jobs[pass[w].job].claims
          /\ pass[w].pc = "apply" => pass[w].outcome \in Outcomes

\* The inductive invariant of the queue.
QueueInv ==
    /\ TypeOK
    /\ RowsValid
    /\ OneActivePerKey
    /\ ClaimAccounting
    /\ ClaimsLinked
    /\ ClaimHeldOnce

\* A running job stops running only by the one pass that holds its claim, or
\* after its lease has passed.  A worker that was paused past its lease, or
\* whose job was claimed again, cannot end a later claim.
EndedByHolder(j) ==
    \E w \in Workers :
        /\ HoldsClaim(w, j)
        /\ pass'[w] # pass[w]
        /\ \A v \in Workers \ {w} : ~HoldsClaim(v, j)

RunningEnds ==
    \A j \in JobIds :
        jobs[j].status = "running" /\ jobs'[j].status # "running" =>
            LeaseExpired(jobs[j]) \/ EndedByHolder(j)

OnlyHolderEnds == [][RunningEnds]_vars

\* A finished job never changes: a timeout or a late outcome that follows the
\* handler's own commit cannot reopen or overwrite it.
TerminalKept == \A j \in JobIds : Terminal(jobs[j]) => jobs'[j].status = jobs[j].status

TerminalStable == [][TerminalKept]_vars

\* Every enqueued job reaches a terminal status.
EveryJobEnds ==
    \A j \in JobIds : Active(jobs[j]) ~> Terminal(jobs[j])

-----------------------------------------------------------------------------
\* The lifecycle a row is in once leases and the three kinds of waiting are
\* forgotten.
Stage(row) ==
    CASE Waiting(row) -> "waiting"
      [] row.status = "running" -> "held"
      [] OTHER -> row.status

Lifecycle ==
    INSTANCE JobLifecycle
    WITH stage <- [j \in JobIds |-> Stage(jobs[j])],
         spent <- [j \in JobIds |-> jobs[j].failures]

\* The queue with its workers, leases, timeouts and crashes implements the
\* lifecycle: whatever they do to a job is one of its moves or nothing.
ImplementsLifecycle == Lifecycle!LifecycleSpec
=============================================================================
