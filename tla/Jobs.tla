-------------------------------- MODULE Jobs --------------------------------
(***************************************************************************)
(* One row of the `jobs` table and what each repository statement does to  *)
(* it (domain/job.rs and persistence/repositories/job_repository.rs).      *)
(*                                                                         *)
(* Instants are kept as the time that is left until them, zero once they   *)
(* have passed: `wait` is run_after - now and `lease` is lease_until - now.*)
(* Every statement of the repository samples the database clock itself, so *)
(* these differences are all that its predicates can see.  A lease token   *)
(* is a fresh UUID; a fenced statement names the row by id as well, so the *)
(* number of the claim that drew the token stands for it.                  *)
(***************************************************************************)
EXTENDS Naturals

CONSTANTS
    Owners,      \* lease owners: one instance_id per application replica
    LeaseFor,    \* JOB_LEASE: how long a claim or a heartbeat lasts
    MaxAttempts  \* JOB_MAX_ATTEMPTS: the failure budget of every job

ASSUME LeaseForAssumption == LeaseFor \in Nat \ {0}
ASSUME MaxAttemptsAssumption == MaxAttempts \in Nat \ {0}

\* JobStatus: unclaimed jobs wait, and together with the running ones they are
\* the active jobs that hold their deduplication key.
WaitingStatuses == {"queued", "retry_wait", "deferred"}
ActiveStatuses == WaitingStatuses \cup {"running"}
TerminalStatuses == {"succeeded", "failed"}

\* A lease column that holds no lease.
NoOwner == "none"
ASSUME OwnersAssumption == NoOwner \notin Owners

\* The columns the queue's decisions depend on; "absent" is a row that has not
\* been inserted yet.
JobRow ==
    [status   : ActiveStatuses \cup TerminalStatuses \cup {"absent"},
     wait     : Nat,
     claims   : Nat,
     failures : Nat,
     owner    : Owners \cup {NoOwner},
     token    : Nat,
     lease    : Nat]

UnclaimedRow(status, delay) ==
    [status |-> status, wait |-> delay, claims |-> 0, failures |-> 0,
     owner |-> NoOwner, token |-> 0, lease |-> 0]

AbsentRow == UnclaimedRow("absent", 0)

Active(row) == row.status \in ActiveStatuses
Waiting(row) == row.status \in WaitingStatuses
Terminal(row) == row.status \in TerminalStatuses

\* Job::new: a queued row due after `delay`.
NewRow(delay) == UnclaimedRow("queued", delay)

\* The rows claim_next may select.  The query takes the first unlocked row by
\* priority, run_after, created_at and id, and SKIP LOCKED passes over any row
\* another transaction holds: every due row can be the one it takes.
Claimable(row) ==
    /\ Waiting(row)
    /\ row.wait = 0
    /\ row.failures < MaxAttempts

\* A claim takes a fresh token and a full lease.
ClaimRow(row, owner) ==
    [row EXCEPT !.status = "running",
                !.claims = @ + 1,
                !.owner  = owner,
                !.token  = row.claims + 1,
                !.lease  = LeaseFor]

\* Mutant: the fence forgets the token and trusts the owner alone.
OwnerOnlyFence(row, owner, token) ==
    /\ row.status = "running"
    /\ row.owner = owner
    /\ row.lease > 0

\* The fence of every owner statement: running, this owner, this token, and a
\* lease that has not passed.
LiveOwner(row, owner, token) ==
    /\ row.status = "running"
    /\ row.owner = owner
    /\ row.token = token
    /\ row.lease > 0

\* Job::clear_lease.
ClearLease(row) == [row EXCEPT !.owner = NoOwner, !.token = 0, !.lease = 0]

HeartbeatRow(row) == [row EXCEPT !.lease = LeaseFor]

\* Mutant: a deferral is charged like a failure.
ChargedDeferRow(row, at) ==
    [ClearLease(row) EXCEPT !.status = "deferred", !.wait = at, !.failures = @ + 1]

DeferRow(row, at) == [ClearLease(row) EXCEPT !.status = "deferred", !.wait = at]

SucceedRow(row) == [ClearLease(row) EXCEPT !.status = "succeeded"]

FailRow(row) == [ClearLease(row) EXCEPT !.status = "failed"]

\* Mutant: the job ends one failure too early.
EarlySpendRow(row, status, at) ==
    [ClearLease(row) EXCEPT
        !.failures = @ + 1,
        !.wait     = at,
        !.status   = IF row.failures + 2 >= MaxAttempts THEN "failed" ELSE status]

\* One unit of the failure budget is spent; the last one ends the job.
SpendRow(row, status, at) ==
    [ClearLease(row) EXCEPT
        !.failures = @ + 1,
        !.wait     = at,
        !.status   = IF row.failures + 1 >= MaxAttempts THEN "failed" ELSE status]

RetryRow(row, at) == SpendRow(row, "retry_wait", at)

\* recover_expired: a running row whose lease has passed.
LeaseExpired(row) == row.status = "running" /\ row.lease = 0

RecoverRow(row) == SpendRow(row, "queued", 0)

\* cancel: only a row no worker holds.
Cancellable(row) == Waiting(row) /\ row.owner = NoOwner

CancelRow(row) == [row EXCEPT !.status = "failed"]

\* What a pass can end with (JobExecution), `Committed` apart: that one says
\* that the handler wrote one of these in its own transaction.
Outcomes == {"succeeded", "deferred", "retry", "failed"}

\* The predicate of the outcome's statement.  The deferral alone also asks that
\* its resume time still lies ahead of the database clock.
OutcomeAccepted(row, owner, token, outcome, at) ==
    /\ LiveOwner(row, owner, token)
    /\ outcome = "deferred" => at > 0

\* The row after an accepted outcome; `at` is the retry or resume time.
OutcomeRow(row, outcome, at) ==
    CASE outcome = "succeeded" -> SucceedRow(row)
      [] outcome = "deferred"  -> DeferRow(row, at)
      [] outcome = "retry"     -> RetryRow(row, at)
      [] outcome = "failed"    -> FailRow(row)

\* One unit of time passes; a timer stops at zero.
Elapse(t) == IF t > 0 THEN t - 1 ELSE 0

ElapseRow(row) == [row EXCEPT !.wait = Elapse(@), !.lease = Elapse(@)]

\* Job::validate_persisted_state, which is also the table's CHECK constraint.
RowValid(row) ==
    /\ row.status = "absent" => row = AbsentRow
    /\ row.status \in {"running", "succeeded"} => row.claims > 0
    /\ row.status \in ActiveStatuses \cup {"succeeded"} => row.failures < MaxAttempts
    /\ row.status = "failed" => row.failures <= MaxAttempts
    /\ row.status = "running" => row.owner # NoOwner /\ row.token # 0
    /\ row.status # "running" => row.owner = NoOwner /\ row.token = 0 /\ row.lease = 0
=============================================================================
