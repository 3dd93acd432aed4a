----------------------------- MODULE SourceSync -----------------------------
(***************************************************************************)
(* The synchronization of one source: its row with the scheduling gate and *)
(* the schedule, the scheduler that enqueues its source_sync job, the      *)
(* workers that run the job's handler, the sync_runs rows and the operator *)
(* (application/scheduler.rs, source_sync_handler.rs, source_service.rs    *)
(* over persistence/repositories/scheduler_repository.rs,                  *)
(* source_repository.rs and sync_run_repository.rs).                       *)
(*                                                                         *)
(* The handler holds no lock while it asks the upstream service, so the    *)
(* source may be paused, gated, edited or deleted under it, its lease may  *)
(* be lost, and a second worker may run the job again.  Only its last      *)
(* transaction, which also ends the job, may change the schedule.          *)
(*                                                                         *)
(* Instants are kept as the time left until them, zero once they passed.   *)
(* A claim is named by its worker: JobQueue shows that no two passes hold  *)
(* the same claim, so the token fence asks whether `holder` is still w.    *)
(***************************************************************************)
EXTENDS Naturals

CONSTANTS
    Workers,      \* worker loops that run source_sync jobs
    MaxAttempts,  \* the job's failure budget
    SyncFor,      \* sync_interval: the time between synchronizations
    RetryFor,     \* the handler's retry_after
    CooldownFor,  \* the handler's failure_cooldown
    ReserveFor,   \* the scheduler's reservation
    Day,          \* length of the day
    QuietFor,     \* the quiet window is the first QuietFor units of the day
    MaxFaults     \* bound: storage errors, timeouts, crashes, lost leases

ASSUME SyncAttemptsAssumption == MaxAttempts \in Nat \ {0}
ASSUME SyncTimesAssumption ==
    /\ SyncFor \in Nat \ {0} /\ RetryFor \in Nat \ {0}
    /\ CooldownFor \in Nat /\ ReserveFor \in Nat \ {0}
ASSUME DayAssumption == Day \in Nat /\ QuietFor \in Nat /\ QuietFor < Day
ASSUME SyncFaultsAssumption == MaxFaults \in Nat

VARIABLES
    source,     \* the sources row
    job,        \* the source's active source_sync job
    pass,       \* pass[w]: where worker w's handler is
    open,       \* workers whose sync_runs row is still 'running'
    abandoned,  \* whether a sync_runs row stays 'running' with no handler left
    clock,      \* the time of the day
    stopped,    \* history: the handler closed the gate and nobody has touched it
    faults      \* history: faults so far

vars == <<source, job, pass, open, abandoned, clock, stopped, faults>>

NoWorker == "no worker"
ASSUME SyncWorkersAssumption == NoWorker \notin Workers

Gates == {"ready", "authentication_required", "risk_controlled"}

SourceRow ==
    [state : {"absent", "present", "deleted"}, enabled : BOOLEAN, gate : Gates,
     next : Nat, cooldown : Nat, reserved : Nat]

Waiting == {"queued", "retry_wait", "deferred"}

JobRecord ==
    [status : Waiting \cup {"running", "none"}, wait : Nat, failures : Nat,
     holder : Workers \cup {NoWorker}]

NoJob == [status |-> "none", wait |-> 0, failures |-> 0, holder |-> NoWorker]
NewJob == [NoJob EXCEPT !.status = "queued"]

\* How an acquisition fails (SyncOutcome), once it has been classified.
GatingFailures == {"authentication_required", "risk_controlled", "blocked"}
Failures == GatingFailures \cup {"retryable", "failed"}

Outcomes == {"deferred", "retry", "failed"}

IdlePass == [pc |-> "idle", result |-> "none", at |-> 0]

\* Handler steps before and after the sync_runs row is there.
BeforeRun == {"start", "find", "open"}
DuringRun == {"list", "fetch", "persist", "fail"}

PassRecord ==
    [pc : {"idle", "apply"} \cup BeforeRun \cup DuringRun,
     result : Failures \cup Outcomes \cup {"none"}, at : Nat]

\* QuietHours::is_quiet_at and next_allowed_at.
Quiet == clock < QuietFor
QuietLeft == QuietFor - clock

Holds(w) == job.status = "running" /\ job.holder = w

Init ==
    /\ source = [state |-> "absent", enabled |-> FALSE, gate |-> "ready",
                 next |-> 0, cooldown |-> 0, reserved |-> 0]
    /\ job = NoJob
    /\ pass = [w \in Workers |-> IdlePass]
    /\ open = {}
    /\ abandoned = FALSE
    /\ clock \in 0 .. Day - 1
    /\ stopped = FALSE
    /\ faults = 0

-----------------------------------------------------------------------------
(* The operator. *)

\* A new source is due at once, and an enabled one is created with its first job.
CreateSource(enabled) ==
    /\ source.state = "absent"
    /\ source' = [source EXCEPT !.state = "present", !.enabled = enabled]
    /\ job' = IF enabled THEN NewJob ELSE job
    /\ UNCHANGED <<pass, open, abandoned, clock, stopped, faults>>

\* The pause and the gate leave an active job alone.
SetEnabled(enabled) ==
    /\ source.state = "present"
    /\ source' = [source EXCEPT !.enabled = enabled]
    /\ UNCHANGED <<job, pass, open, abandoned, clock, stopped, faults>>

SetGate(gate) ==
    /\ source.state = "present"
    /\ source' = [source EXCEPT !.gate = gate]
    /\ stopped' = FALSE
    /\ UNCHANGED <<job, pass, open, abandoned, clock, faults>>

\* A login or a credential refresh reopens the gate and makes the source due.
ResumeAuthentication ==
    /\ source.state = "present"
    /\ source.gate = "authentication_required"
    /\ source' = [source EXCEPT !.gate = "ready", !.next = 0, !.cooldown = 0, !.reserved = 0]
    /\ stopped' = FALSE
    /\ UNCHANGED <<job, pass, open, abandoned, clock, faults>>

\* Deleting the source deletes its jobs and, by cascade, its sync_runs.
DeleteSource ==
    /\ source.state = "present"
    /\ source' = [source EXCEPT !.state = "deleted"]
    /\ job' = NoJob
    /\ open' = {}
    /\ abandoned' = FALSE
    /\ stopped' = FALSE
    /\ UNCHANGED <<pass, clock, faults>>

-----------------------------------------------------------------------------
(* The scheduler. *)

\* What enqueue_due_sources selects.
Due ==
    /\ source.state = "present"
    /\ source.enabled
    /\ source.gate = "ready"
    /\ source.next = 0 /\ source.cooldown = 0 /\ source.reserved = 0
    /\ job.status = "none"

\* Any replica's pass: the row lock makes the check, the job and the reservation one step.
EnqueueDueSources ==
    /\ ~Quiet
    /\ Due
    /\ job' = NewJob
    /\ source' = [source EXCEPT !.reserved = ReserveFor]
    /\ UNCHANGED <<pass, open, abandoned, clock, stopped, faults>>

-----------------------------------------------------------------------------
(* The worker and the handler. *)

Goto(w, pc) == pass' = [pass EXCEPT ![w] = [IdlePass EXCEPT !.pc = pc]]

GotoFail(w, class) ==
    pass' = [pass EXCEPT ![w] = [pc |-> "fail", result |-> class, at |-> 0]]

GotoApply(w, outcome, at) ==
    pass' = [pass EXCEPT ![w] = [pc |-> "apply", result |-> outcome, at |-> at]]

\* The pass is over; a run that is still open stays open for good.
EndPass(w) ==
    /\ Goto(w, "idle")
    /\ open' = open \ {w}
    /\ abandoned' = (abandoned \/ w \in open)

\* A claim ends on the failure budget: another attempt, or the end of the job.
Spend(status, at) ==
    IF job.failures + 1 >= MaxAttempts THEN NoJob
    ELSE [status |-> status, wait |-> at, failures |-> job.failures + 1,
          holder |-> NoWorker]

\* claim_next; quiet hours do not filter it.
Claim(w) ==
    /\ pass[w].pc = "idle"
    /\ job.status \in Waiting
    /\ job.wait = 0
    /\ job' = [job EXCEPT !.status = "running", !.holder = w]
    /\ Goto(w, "start")
    /\ UNCHANGED <<source, open, abandoned, clock, stopped, faults>>

\* The handler looks at the clock once, before it does anything else. (A window
\* that ends in a daylight-saving gap has no end to defer to and is deferred to its
\* retry time; days here are all alike.)
CheckQuiet(w) ==
    /\ pass[w].pc = "start"
    /\ IF Quiet THEN GotoApply(w, "deferred", QuietLeft) ELSE Goto(w, "find")
    /\ UNCHANGED <<source, job, open, abandoned, clock, stopped, faults>>

FindSource(w) ==
    /\ pass[w].pc = "find"
    /\ IF source.state = "present" THEN Goto(w, "open") ELSE GotoApply(w, "failed", 0)
    /\ UNCHANGED <<source, job, open, abandoned, clock, stopped, faults>>

\* start_run commits a 'running' row of its own; it references the source.
StartRun(w) ==
    /\ pass[w].pc = "open"
    /\ source.state = "present"
    /\ Goto(w, "list")
    /\ open' = open \cup {w}
    /\ UNCHANGED <<source, job, abandoned, clock, stopped, faults>>

\* retry_execution counts from the start of the pass: some of the wait may be over.
StartRefused(w, at) ==
    /\ pass[w].pc = "open"
    /\ source.state # "present"
    /\ GotoApply(w, "retry", at)
    /\ UNCHANGED <<source, job, open, abandoned, clock, stopped, faults>>

\* The two upstream steps: the article list, then the pages.
ListReferences(w) ==
    /\ pass[w].pc = "list"
    /\ Goto(w, "fetch")
    /\ UNCHANGED <<source, job, open, abandoned, clock, stopped, faults>>

ListFails(w, class) ==
    /\ pass[w].pc = "list"
    /\ GotoFail(w, class)
    /\ UNCHANGED <<source, job, open, abandoned, clock, stopped, faults>>

\* A page that fails for itself becomes a backfill or is skipped; the run goes on.
\* The next synchronization is counted from here, before the assets are fetched.
FetchArticles(w) ==
    /\ pass[w].pc = "fetch"
    /\ pass' = [pass EXCEPT ![w] = [pc |-> "persist", result |-> "none", at |-> SyncFor]]
    /\ UNCHANGED <<source, job, open, abandoned, clock, stopped, faults>>

FetchFails(w, class) ==
    /\ pass[w].pc = "fetch"
    /\ class \in GatingFailures
    /\ GotoFail(w, class)
    /\ UNCHANGED <<source, job, open, abandoned, clock, stopped, faults>>

\* The final transactions lock the source, finish the run and end the claim.
CanCommit(w) == source.state = "present" /\ w \in open /\ Holds(w)

SuccessCommits(w) ==
    /\ source' = [source EXCEPT !.next = pass[w].at, !.cooldown = 0, !.reserved = 0]
    /\ job' = NoJob
    /\ open' = open \ {w}
    /\ UNCHANGED <<abandoned, clock, stopped>>

PersistSuccess(w) ==
    /\ pass[w].pc = "persist"
    /\ CanCommit(w)
    /\ SuccessCommits(w)
    /\ Goto(w, "idle")
    /\ UNCHANGED faults

PersistRefused(w) ==
    /\ pass[w].pc = "persist"
    /\ ~CanCommit(w)
    /\ GotoFail(w, "retryable")
    /\ UNCHANGED <<source, job, open, abandoned, clock, stopped, faults>>

\* The transaction commits but its answer is lost: the handler takes the failure path.
SuccessUnacknowledged(w) ==
    /\ pass[w].pc = "persist"
    /\ CanCommit(w)
    /\ faults < MaxFaults
    /\ faults' = faults + 1
    /\ SuccessCommits(w)
    /\ GotoFail(w, "retryable")

GateOf(class) ==
    IF class = "authentication_required" THEN "authentication_required"
    ELSE "risk_controlled"

\* Mutant: the transaction does not name the claim it ends.
UnfencedFailedRun(w) ==
    /\ pass[w].pc = "fail"
    /\ source.state = "present" /\ w \in open
    /\ source' = [source EXCEPT !.next = SyncFor, !.cooldown = 0, !.reserved = 0]
    /\ job' = IF Holds(w) THEN NoJob ELSE job
    /\ open' = open \ {w}
    /\ Goto(w, "idle")
    /\ UNCHANGED <<abandoned, clock, stopped, faults>>

\* Mutant: a gated source keeps its job for another attempt.
RetriedFailedRun(w) ==
    /\ pass[w].pc = "fail"
    /\ CanCommit(w)
    /\ source' = [source EXCEPT !.gate = IF pass[w].result \in GatingFailures
                                         THEN GateOf(pass[w].result) ELSE @]
    /\ job' = Spend("retry_wait", RetryFor)
    /\ stopped' = (stopped \/ pass[w].result \in GatingFailures)
    /\ open' = open \ {w}
    /\ Goto(w, "idle")
    /\ UNCHANGED <<abandoned, clock, faults>>

\* finish_failed_run: what the failure means for the source and for the job.
FinishFailedRun(w) ==
    LET class == pass[w].result IN
    /\ pass[w].pc = "fail"
    /\ CanCommit(w)
    /\ \/ /\ class \in GatingFailures
          /\ source' = [source EXCEPT !.gate = GateOf(class), !.cooldown = 0, !.reserved = 0]
          /\ job' = NoJob
          /\ stopped' = TRUE
       \/ /\ class = "retryable"
          /\ source' = [source EXCEPT !.next = RetryFor, !.cooldown = CooldownFor, !.reserved = 0]
          /\ job' = Spend("retry_wait", RetryFor)
          /\ UNCHANGED stopped
       \/ /\ class = "failed"
          /\ source' = [source EXCEPT !.next = SyncFor, !.cooldown = 0, !.reserved = 0]
          /\ job' = NoJob
          /\ UNCHANGED stopped
    /\ open' = open \ {w}
    /\ Goto(w, "idle")
    /\ UNCHANGED <<abandoned, clock, faults>>

FinishRefused(w, at) ==
    /\ pass[w].pc = "fail"
    /\ ~CanCommit(w)
    /\ GotoApply(w, "retry", at)
    /\ UNCHANGED <<source, job, open, abandoned, clock, stopped, faults>>

\* The outcome the handler left to the worker, under the fence of the claim.
ApplyOutcome(w) ==
    /\ pass[w].pc = "apply"
    /\ Holds(w)
    /\ \/ pass[w].result = "retry" /\ job' = Spend("retry_wait", pass[w].at)
       \/ /\ pass[w].result = "deferred" /\ pass[w].at > 0
          /\ job' = [job EXCEPT !.status = "deferred", !.wait = pass[w].at, !.holder = NoWorker]
       \/ pass[w].result = "failed" /\ job' = NoJob
    /\ EndPass(w)
    /\ UNCHANGED <<source, clock, stopped, faults>>

\* The lease, if the pass still had it, is left to expire.
LetGo(w) == IF Holds(w) THEN [job EXCEPT !.holder = NoWorker] ELSE job

OutcomeRejected(w) ==
    /\ pass[w].pc = "apply"
    /\ ~(Holds(w) /\ (pass[w].result = "deferred" => pass[w].at > 0))
    /\ job' = LetGo(w)
    /\ EndPass(w)
    /\ UNCHANGED <<source, clock, stopped, faults>>

\* A heartbeat finds the claim gone and drops the handler.
HeartbeatLost(w) ==
    /\ pass[w].pc \in BeforeRun \cup DuringRun
    /\ ~Holds(w)
    /\ EndPass(w)
    /\ UNCHANGED <<source, job, clock, stopped, faults>>

-----------------------------------------------------------------------------
(* Faults, recovery and time. *)

Faulty == faults < MaxFaults /\ faults' = faults + 1

StorageError(w, at) ==
    /\ Faulty
    /\ \/ pass[w].pc \in BeforeRun \cup {"fail"} /\ GotoApply(w, "retry", at)
       \/ pass[w].pc \in {"fetch", "persist"} /\ GotoFail(w, "retryable")
    /\ UNCHANGED <<source, job, open, abandoned, clock, stopped>>

\* The execution timeout drops the handler and retries at once.
Timeout(w) ==
    /\ Faulty
    /\ pass[w].pc \in BeforeRun \cup DuringRun
    /\ GotoApply(w, "retry", 0)
    /\ UNCHANGED <<source, job, open, abandoned, clock, stopped>>

Crash(w) ==
    /\ Faulty
    /\ pass[w].pc # "idle"
    /\ job' = LetGo(w)
    /\ EndPass(w)
    /\ UNCHANGED <<source, clock, stopped>>

\* Heartbeats come too late: recovery takes the job from a handler that runs on.
LeaseLost ==
    /\ Faulty
    /\ job.status = "running" /\ job.holder # NoWorker
    /\ job' = Spend("queued", 0)
    /\ UNCHANGED <<source, pass, open, abandoned, clock, stopped>>

\* Mutant: recovery passes over a job whose budget is spent.
RecoverWithBudget ==
    /\ job.status = "running" /\ job.holder = NoWorker
    /\ job.failures + 1 < MaxAttempts
    /\ job' = Spend("queued", 0)
    /\ UNCHANGED <<source, pass, open, abandoned, clock, stopped, faults>>

\* recover_expired takes back a job nobody runs any more.
RecoverExpired ==
    /\ job.status = "running" /\ job.holder = NoWorker
    /\ job' = Spend("queued", 0)
    /\ UNCHANGED <<source, pass, open, abandoned, clock, stopped, faults>>

Elapse(t) == IF t > 0 THEN t - 1 ELSE 0

Tick ==
    /\ clock' = IF clock + 1 = Day THEN 0 ELSE clock + 1
    /\ source' = [source EXCEPT !.next = Elapse(@), !.cooldown = Elapse(@),
                                !.reserved = Elapse(@)]
    /\ job' = [job EXCEPT !.wait = Elapse(@)]
    /\ pass' = [w \in Workers |-> [pass[w] EXCEPT !.at = Elapse(@)]]
    /\ UNCHANGED <<open, abandoned, stopped, faults>>

-----------------------------------------------------------------------------
RetryTimes == 0 .. RetryFor

Operator ==
    \/ \E enabled \in BOOLEAN : CreateSource(enabled) \/ SetEnabled(enabled)
    \/ \E gate \in Gates : SetGate(gate)
    \/ ResumeAuthentication
    \/ DeleteSource

\* The steps of a pass between its claim and its end.
HandlerStep(w) ==
    \/ CheckQuiet(w) \/ FindSource(w) \/ StartRun(w)
    \/ ListReferences(w) \/ FetchArticles(w)
    \/ \E class \in Failures : ListFails(w, class) \/ FetchFails(w, class)
    \/ PersistSuccess(w) \/ PersistRefused(w)
    \/ FinishFailedRun(w)
    \/ \E at \in RetryTimes : StartRefused(w, at) \/ FinishRefused(w, at)
    \/ ApplyOutcome(w) \/ OutcomeRejected(w)

Fault ==
    \/ \E w \in Workers :
         \/ \E at \in RetryTimes : StorageError(w, at)
         \/ SuccessUnacknowledged(w) \/ Timeout(w) \/ Crash(w)
    \/ LeaseLost

Next ==
    \/ Operator
    \/ EnqueueDueSources
    \/ \E w \in Workers : Claim(w) \/ HandlerStep(w) \/ HeartbeatLost(w)
    \/ RecoverExpired
    \/ Fault
    \/ Tick

Spec == Init /\ [][Next]_vars

\* The scheduler and the workers poll many times within every stretch of open hours:
\* what stays possible there, day after day, is done there.
FairSpec ==
    /\ Spec
    /\ WF_vars(Tick)
    /\ WF_vars(RecoverExpired)
    /\ SF_vars(EnqueueDueSources)
    /\ \A w \in Workers :
         /\ WF_vars(HandlerStep(w))
         /\ SF_vars(~Quiet /\ Claim(w))
         /\ SF_vars(~Quiet /\ CheckQuiet(w))

-----------------------------------------------------------------------------
(* Invariants. *)

SyncTypeOK ==
    /\ source \in SourceRow
    /\ job \in JobRecord
    /\ pass \in [Workers -> PassRecord]
    /\ open \in SUBSET Workers
    /\ abandoned \in BOOLEAN
    /\ clock \in 0 .. Day - 1
    /\ stopped \in BOOLEAN
    /\ faults \in Nat

\* Once an authentication, risk-control or blocked outcome has closed the gate, the
\* source has no job, and gets none, until a login or the operator touches the gate:
\* no retry, recovery or scheduler pass goes on asking the upstream service.
StoppedIdle == stopped => source.gate # "ready" /\ job.status = "none"

\* A source that does not exist has no job and no runs, whatever handlers, retries
\* and recoveries were under way when it was deleted.
DeletedIdle == source.state # "present" => job.status = "none" /\ open = {} /\ ~abandoned

\* A sync_runs row is left 'running' only by a fault: every regular end of a handler,
\* and every refused one that follows a deletion, closes the run it opened.
RunsClosed == abandoned => faults > 0

\* What ties the passes to the job.  A claim is named by a pass that runs; a run
\* belongs to a pass that has not returned; and until the first fault every pass of
\* a source that exists holds the claim.
PassesLinked ==
    /\ \A w \in Workers : job.holder = w => job.status = "running" /\ pass[w].pc # "idle"
    /\ \A w \in open : pass[w].pc \in DuringRun \cup {"apply"}
    /\ faults = 0 =>
          /\ \A w \in open : pass[w].pc # "apply"
          /\ source.state = "present" => \A w \in Workers : pass[w].pc # "idle" => Holds(w)
    /\ source.state = "absent" => ~stopped /\ \A w \in Workers : pass[w].pc = "idle"
    /\ \A w \in Workers : pass[w].pc = "fail" => pass[w].result \in Failures
    /\ job.failures < MaxAttempts

\* The inductive invariant.
SyncInv ==
    /\ SyncTypeOK
    /\ StoppedIdle
    /\ DeletedIdle
    /\ RunsClosed
    /\ PassesLinked

-----------------------------------------------------------------------------
(* Action and temporal properties. *)

\* The schedule moves ahead, and the gate closes without the operator, only in the
\* transaction that ends the running claim: a handler that lost its lease, or whose
\* commit was not acknowledged, cannot postpone or gate the source afterwards.
ScheduleStep ==
    source.state = "present" /\ (source.next < source'.next \/ (~stopped /\ stopped')) =>
        job.status = "running" /\ job.holder # NoWorker /\ job'.status # "running"

ScheduleFenced == [][ScheduleStep]_vars

\* An enabled source with an open gate is synchronized again and again: no crash,
\* failure, reservation, cooldown or quiet window leaves it out for good.
KeepsSyncing ==
    <>[](source.state = "present" /\ source.enabled /\ source.gate = "ready")
        => []<>(\E w \in Workers : pass[w].pc = "list")

\* A paused source comes to rest: its retries run out and no job follows.
PausedDrains == <>[](~source.enabled) => <>[](job.status = "none")

\* Both: a source that may be synchronized is, and one that may not comes to rest.
SyncProgress == KeepsSyncing /\ PausedDrains
=============================================================================
