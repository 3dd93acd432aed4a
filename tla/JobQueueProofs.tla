--------------------------- MODULE JobQueueProofs ---------------------------
(***************************************************************************)
(* Proofs about JobQueue for every set of jobs, workers and owners and     *)
(* every value of the lease, timeout, budget and bounds.                   *)
(***************************************************************************)
EXTENDS JobQueue, TLAPS

-----------------------------------------------------------------------------
(* What each statement does to one row. *)

\* What the queue's invariant says of one row that was deferred d times.
RowOK(row, d) ==
    /\ row \in JobRow
    /\ RowValid(row)
    /\ Accounted(row, d)
    /\ row.status = "running" => row.token = row.claims

\* Job::claim keeps a row well formed and draws a token above every earlier one.
LEMMA ClaimRowOK ==
    ASSUME NEW row, NEW d \in Nat, NEW owner \in Owners, RowOK(row, d), Claimable(row)
    PROVE  /\ RowOK(ClaimRow(row, owner), d)
           /\ ClaimRow(row, owner).claims = row.claims + 1
           /\ ClaimRow(row, owner).status = "running"
<1> USE DEF WaitingStatuses, ActiveStatuses, TerminalStatuses
<1>1. row.claims + 1 \in Nat /\ row \in JobRow
  BY DEF RowOK, JobRow
<1>2. ClaimRow(row, owner) \in JobRow
  BY <1>1, LeaseForAssumption DEF JobRow, ClaimRow
<1>3. /\ ClaimRow(row, owner).claims = row.claims + 1
      /\ ClaimRow(row, owner).token = row.claims + 1
      /\ ClaimRow(row, owner).status = "running"
  BY <1>1 DEF JobRow, ClaimRow
<1>4. RowValid(ClaimRow(row, owner))
  BY <1>1, OwnersAssumption DEF RowOK, JobRow, RowValid, Claimable, Waiting, ClaimRow
<1>5. Accounted(ClaimRow(row, owner), d)
  BY <1>1 DEF RowOK, JobRow, Accounted, Claimable, Waiting, ClaimRow
<1> QED BY <1>2, <1>3, <1>4, <1>5 DEF RowOK

\* Clearing the lease touches the three lease columns only.
LEMMA ClearLeaseRow ==
    ASSUME NEW row \in JobRow
    PROVE  /\ ClearLease(row) \in JobRow
           /\ ClearLease(row).status = row.status
           /\ ClearLease(row).wait = row.wait
           /\ ClearLease(row).claims = row.claims
           /\ ClearLease(row).failures = row.failures
           /\ ClearLease(row).owner = NoOwner
           /\ ClearLease(row).token = 0
           /\ ClearLease(row).lease = 0
BY DEF JobRow, ClearLease

\* Spending a unit ends the claim, and the job with the last unit.
LEMMA SpendRowOK ==
    ASSUME NEW row, NEW d \in Nat, NEW status \in WaitingStatuses, NEW at \in Nat,
           RowOK(row, d), row.status = "running"
    PROVE  /\ RowOK(SpendRow(row, status, at), d)
           /\ SpendRow(row, status, at).claims = row.claims
           /\ SpendRow(row, status, at).failures = row.failures + 1
           /\ SpendRow(row, status, at).status =
                 IF row.failures + 1 >= MaxAttempts THEN "failed" ELSE status
<1> DEFINE c == ClearLease(row)
           s == IF row.failures + 1 >= MaxAttempts THEN "failed" ELSE status
           r == SpendRow(row, status, at)
<1> USE MaxAttemptsAssumption DEF WaitingStatuses, ActiveStatuses, TerminalStatuses
<1>1. /\ row \in JobRow
      /\ row.failures \in Nat /\ row.failures < MaxAttempts
      /\ row.claims \in Nat /\ row.claims = row.failures + d + 1 /\ row.claims > 0
  BY DEF RowOK, JobRow, RowValid, Accounted
<1>2. /\ c \in JobRow
      /\ c.claims = row.claims /\ c.failures = row.failures
      /\ c.owner = NoOwner /\ c.token = 0 /\ c.lease = 0
  BY <1>1, ClearLeaseRow
<1>3. r = [c EXCEPT !.failures = row.failures + 1, !.wait = at, !.status = s]
  BY <1>2 DEF SpendRow
<1>4. row.failures + 1 \in Nat /\ s \in WaitingStatuses \cup {"failed"}
  BY <1>1
<1> HIDE DEF c, s, r
<1>5. r \in JobRow
  BY <1>2, <1>3, <1>4 DEF JobRow
<1>6. /\ r.claims = row.claims /\ r.failures = row.failures + 1 /\ r.status = s
      /\ r.owner = NoOwner /\ r.token = 0 /\ r.lease = 0
  BY <1>2, <1>3, <1>4 DEF JobRow
<1>7. RowValid(r)
  BY <1>1, <1>4, <1>6 DEF RowValid, s
<1>8. Accounted(r, d)
  BY <1>1, <1>4, <1>6 DEF Accounted
<1>9. r.status # "running"
  BY <1>4, <1>6
<1> QED BY <1>5, <1>6, <1>7, <1>8, <1>9 DEF RowOK, r, s

\* Job::succeed ends the claim and the job.
LEMMA SucceedRowOK ==
    ASSUME NEW row, NEW d \in Nat, RowOK(row, d), row.status = "running"
    PROVE  /\ RowOK(SucceedRow(row), d)
           /\ SucceedRow(row).claims = row.claims
           /\ SucceedRow(row).failures = row.failures
           /\ SucceedRow(row).status = "succeeded"
<1> DEFINE c == ClearLease(row)
           r == SucceedRow(row)
<1> USE MaxAttemptsAssumption DEF WaitingStatuses, ActiveStatuses, TerminalStatuses
<1>1. /\ row \in JobRow
      /\ row.failures \in Nat /\ row.failures < MaxAttempts
      /\ row.claims \in Nat /\ row.claims = row.failures + d + 1 /\ row.claims > 0
  BY DEF RowOK, JobRow, RowValid, Accounted
<1>2. /\ c \in JobRow
      /\ c.claims = row.claims /\ c.failures = row.failures
      /\ c.owner = NoOwner /\ c.token = 0 /\ c.lease = 0
  BY <1>1, ClearLeaseRow
<1> HIDE DEF c
<1>3. /\ r \in JobRow
      /\ r.claims = row.claims /\ r.failures = row.failures /\ r.status = "succeeded"
      /\ r.owner = NoOwner /\ r.token = 0 /\ r.lease = 0
  BY <1>2 DEF JobRow, SucceedRow, c
<1> HIDE DEF r
<1>4. RowValid(r)
  BY <1>1, <1>3 DEF RowValid
<1>5. Accounted(r, d)
  BY <1>1, <1>3 DEF Accounted
<1> QED BY <1>3, <1>4, <1>5 DEF RowOK, r

\* Job::fail ends the claim and the job, whatever is left of the budget.
LEMMA FailRowOK ==
    ASSUME NEW row, NEW d \in Nat, RowOK(row, d), row.status = "running"
    PROVE  /\ RowOK(FailRow(row), d)
           /\ FailRow(row).claims = row.claims
           /\ FailRow(row).failures = row.failures
           /\ FailRow(row).status = "failed"
<1> DEFINE c == ClearLease(row)
           r == FailRow(row)
<1> USE MaxAttemptsAssumption DEF WaitingStatuses, ActiveStatuses, TerminalStatuses
<1>1. /\ row \in JobRow
      /\ row.failures \in Nat /\ row.failures < MaxAttempts
      /\ row.claims \in Nat /\ row.claims = row.failures + d + 1 /\ row.claims > 0
  BY DEF RowOK, JobRow, RowValid, Accounted
<1>2. /\ c \in JobRow
      /\ c.claims = row.claims /\ c.failures = row.failures
      /\ c.owner = NoOwner /\ c.token = 0 /\ c.lease = 0
  BY <1>1, ClearLeaseRow
<1> HIDE DEF c
<1>3. /\ r \in JobRow
      /\ r.claims = row.claims /\ r.failures = row.failures /\ r.status = "failed"
      /\ r.owner = NoOwner /\ r.token = 0 /\ r.lease = 0
  BY <1>2 DEF JobRow, FailRow, c
<1> HIDE DEF r
<1>4. RowValid(r)
  BY <1>1, <1>3 DEF RowValid
<1>5. Accounted(r, d)
  BY <1>1, <1>3 DEF Accounted
<1> QED BY <1>3, <1>4, <1>5 DEF RowOK, r

\* Job::defer ends the claim without spending the budget.
LEMMA DeferRowOK ==
    ASSUME NEW row, NEW d \in Nat, NEW at \in Nat, RowOK(row, d), row.status = "running"
    PROVE  /\ RowOK(DeferRow(row, at), d + 1)
           /\ DeferRow(row, at).claims = row.claims
           /\ DeferRow(row, at).failures = row.failures
           /\ DeferRow(row, at).status = "deferred"
<1> DEFINE c == ClearLease(row)
           r == DeferRow(row, at)
<1> USE MaxAttemptsAssumption DEF WaitingStatuses, ActiveStatuses, TerminalStatuses
<1>1. /\ row \in JobRow
      /\ row.failures \in Nat /\ row.failures < MaxAttempts
      /\ row.claims \in Nat /\ row.claims = row.failures + d + 1 /\ row.claims > 0
  BY DEF RowOK, JobRow, RowValid, Accounted
<1>2. /\ c \in JobRow
      /\ c.claims = row.claims /\ c.failures = row.failures
      /\ c.owner = NoOwner /\ c.token = 0 /\ c.lease = 0
  BY <1>1, ClearLeaseRow
<1> HIDE DEF c
<1>3. /\ r \in JobRow
      /\ r.claims = row.claims /\ r.failures = row.failures /\ r.status = "deferred"
      /\ r.owner = NoOwner /\ r.token = 0 /\ r.lease = 0
  BY <1>2 DEF JobRow, DeferRow, c
<1> HIDE DEF r
<1>4. RowValid(r)
  BY <1>1, <1>3 DEF RowValid
<1>5. Accounted(r, d + 1)
  BY <1>1, <1>3 DEF Accounted
<1> QED BY <1>3, <1>4, <1>5 DEF RowOK, r

\* Each outcome ends the claim in exactly one of these ways.
LEMMA OutcomeRowOK ==
    ASSUME NEW row, NEW d \in Nat, NEW outcome \in Outcomes, NEW at \in Nat,
           RowOK(row, d), row.status = "running"
    PROVE  /\ RowOK(OutcomeRow(row, outcome, at),
                    IF outcome = "deferred" THEN d + 1 ELSE d)
           /\ OutcomeRow(row, outcome, at).claims = row.claims
           /\ OutcomeRow(row, outcome, at).status # "running"
<1>1. CASE outcome = "succeeded"
  BY <1>1, SucceedRowOK DEF OutcomeRow
<1>2. CASE outcome = "deferred"
  BY <1>2, DeferRowOK DEF OutcomeRow
<1>3. CASE outcome = "retry"
  BY <1>3, SpendRowOK DEF OutcomeRow, RetryRow, WaitingStatuses
<1>4. CASE outcome = "failed"
  BY <1>4, FailRowOK DEF OutcomeRow
<1> QED BY <1>1, <1>2, <1>3, <1>4 DEF Outcomes

\* recover_expired charges the abandoned claim to the failure budget.
LEMMA RecoverRowOK ==
    ASSUME NEW row, NEW d \in Nat, RowOK(row, d), LeaseExpired(row)
    PROVE  /\ RowOK(RecoverRow(row), d)
           /\ RecoverRow(row).claims = row.claims
           /\ RecoverRow(row).status # "running"
BY SpendRowOK DEF LeaseExpired, RecoverRow, WaitingStatuses

\* A cancelled row was held by nobody and stays accounted for.
LEMMA CancelRowOK ==
    ASSUME NEW row, NEW d \in Nat, RowOK(row, d), Cancellable(row)
    PROVE  /\ RowOK(CancelRow(row), d)
           /\ CancelRow(row).claims = row.claims
           /\ CancelRow(row).status = "failed"
BY MaxAttemptsAssumption
   DEF RowOK, JobRow, RowValid, Accounted, Cancellable, CancelRow, Waiting,
       WaitingStatuses, ActiveStatuses, TerminalStatuses

\* A heartbeat moves the lease of a running row only.
LEMMA HeartbeatRowOK ==
    ASSUME NEW row, NEW d \in Nat, RowOK(row, d), row.status = "running"
    PROVE  /\ RowOK(HeartbeatRow(row), d)
           /\ HeartbeatRow(row).claims = row.claims
           /\ HeartbeatRow(row).status = row.status
BY LeaseForAssumption
   DEF RowOK, JobRow, RowValid, Accounted, HeartbeatRow,
       WaitingStatuses, ActiveStatuses, TerminalStatuses

\* The passing of time moves the two timers only.
LEMMA ElapseRowOK ==
    ASSUME NEW row, NEW d \in Nat, RowOK(row, d)
    PROVE  /\ RowOK(ElapseRow(row), d)
           /\ ElapseRow(row).claims = row.claims
           /\ ElapseRow(row).status = row.status
<1>1. row \in JobRow
  BY DEF RowOK
<1>2. Elapse(row.wait) \in Nat /\ Elapse(row.lease) \in Nat
  BY <1>1 DEF JobRow, Elapse
<1>3. /\ ElapseRow(row) \in JobRow
      /\ ElapseRow(row).status = row.status /\ ElapseRow(row).claims = row.claims
      /\ ElapseRow(row).failures = row.failures /\ ElapseRow(row).owner = row.owner
      /\ ElapseRow(row).token = row.token
      /\ ElapseRow(row).wait = Elapse(row.wait)
      /\ ElapseRow(row).lease = Elapse(row.lease)
  BY <1>1, <1>2 DEF JobRow, ElapseRow
<1>4. row.status = "absent" => ElapseRow(row) = AbsentRow
  <2> SUFFICES ASSUME row.status = "absent" PROVE ElapseRow(row) = AbsentRow
    OBVIOUS
  <2>1. row = AbsentRow
    BY DEF RowOK, RowValid
  <2>2. Elapse(AbsentRow.wait) = 0 /\ Elapse(AbsentRow.lease) = 0
    BY DEF AbsentRow, UnclaimedRow, Elapse
  <2>3. ElapseRow(AbsentRow) = [AbsentRow EXCEPT !.wait = 0, !.lease = 0]
    BY <2>2 DEF ElapseRow
  <2> QED BY <2>1, <2>3 DEF AbsentRow, UnclaimedRow
<1>5. row.lease = 0 => Elapse(row.lease) = 0
  BY DEF Elapse
<1>6. RowValid(ElapseRow(row))
  BY <1>3, <1>4, <1>5 DEF RowOK, RowValid
<1>7. Accounted(ElapseRow(row), d)
  BY <1>3 DEF RowOK, Accounted
<1> QED BY <1>3, <1>6, <1>7 DEF RowOK

\* Job::new gives a row nobody has claimed or deferred.
LEMMA NewRowOK ==
    ASSUME NEW delay \in Nat
    PROVE  /\ RowOK(NewRow(delay), 0)
           /\ NewRow(delay).claims = 0
           /\ NewRow(delay).status = "queued"
<1> DEFINE r == NewRow(delay)
<1> USE DEF WaitingStatuses, ActiveStatuses, TerminalStatuses
<1>1. r = [status |-> "queued", wait |-> delay, claims |-> 0, failures |-> 0,
           owner |-> NoOwner, token |-> 0, lease |-> 0]
  BY DEF NewRow, UnclaimedRow
<1> HIDE DEF r
<1>2. r \in JobRow
  BY <1>1 DEF JobRow
<1>3. RowValid(r) /\ Accounted(r, 0)
  BY <1>1, MaxAttemptsAssumption DEF RowValid, Accounted
<1> QED BY <1>1, <1>2, <1>3 DEF RowOK, r

-----------------------------------------------------------------------------
(* The invariant in three parts: the rows, the keys and the passes. *)

Rows ==
    /\ jobs \in [JobIds -> JobRow]
    /\ deferrals \in [JobIds -> Nat]
    /\ \A j \in JobIds : RowOK(jobs[j], deferrals[j])

PassLinked(w) ==
    Holding(w) =>
        /\ pass[w].job \in JobIds
        /\ pass[w].token \in 1 .. jobs[pass[w].job].claims
        /\ pass[w].pc = "apply" => pass[w].outcome \in Outcomes

Passes ==
    /\ pass \in [Workers -> PassRecord]
    /\ \A w \in Workers : PassLinked(w)
    /\ ClaimHeldOnce

\* The three parts are the invariant.
LEMMA InvParts == QueueInv <=> Rows /\ OneActivePerKey /\ Passes
BY DEF QueueInv, TypeOK, RowsValid, ClaimAccounting, ClaimsLinked, Rows, Passes,
       PassLinked, RowOK

\* Keys stay unique when no job becomes active.
LEMMA KeysKept ==
    ASSUME OneActivePerKey, \A j \in JobIds : Active(jobs'[j]) => Active(jobs[j])
    PROVE  OneActivePerKey'
BY DEF OneActivePerKey, Active

\* Passes stay linked when no pass takes a claim and no claim count falls.
LEMMA PassesKept ==
    ASSUME Rows, Rows', Passes, pass' \in [Workers -> PassRecord],
           \A j \in JobIds : jobs'[j].claims >= jobs[j].claims,
           \A w \in Workers : Holding(w)' =>
               /\ Holding(w)
               /\ pass'[w].job = pass[w].job
               /\ pass'[w].token = pass[w].token
               /\ pass'[w].pc = "apply" => pass'[w].outcome \in Outcomes
    PROVE  Passes'
<1>1. ASSUME NEW w \in Workers PROVE PassLinked(w)'
  <2> SUFFICES ASSUME Holding(w)'
               PROVE  /\ pass'[w].job \in JobIds
                      /\ pass'[w].token \in 1 .. jobs'[pass'[w].job].claims
                      /\ pass'[w].pc = "apply" => pass'[w].outcome \in Outcomes
    BY DEF PassLinked
  <2>1. /\ pass[w].job \in JobIds /\ pass[w].token \in 1 .. jobs[pass[w].job].claims
        /\ pass'[w].job = pass[w].job /\ pass'[w].token = pass[w].token
        /\ pass'[w].pc = "apply" => pass'[w].outcome \in Outcomes
    BY DEF Passes, PassLinked
  <2>2. /\ jobs[pass[w].job].claims \in Nat /\ jobs'[pass[w].job].claims \in Nat
        /\ jobs'[pass[w].job].claims >= jobs[pass[w].job].claims
    BY <2>1 DEF Rows, JobRow
  <2> QED BY <2>1, <2>2
<1>2. ClaimHeldOnce'
  BY DEF Passes, ClaimHeldOnce
<1> QED BY <1>1, <1>2 DEF Passes

\* An idle or lost pass holds nothing.
LEMMA EmptyPass ==
    /\ IdlePass \in PassRecord
    /\ [IdlePass EXCEPT !.pc = "down"] \in PassRecord
    /\ IdlePass.pc = "idle"
    /\ [IdlePass EXCEPT !.pc = "down"].pc = "down"
BY DEF IdlePass, PassRecord

\* Nor does a step add a claim when it only empties one pass.
LEMMA PassEmptied ==
    ASSUME Rows, Rows', Passes, NEW w \in Workers, NEW p \in PassRecord,
           p.pc \notin {"executing", "committed", "apply"},
           pass' = [pass EXCEPT ![w] = p],
           \A j \in JobIds : jobs'[j].claims >= jobs[j].claims
    PROVE  Passes'
<1>1. pass' \in [Workers -> PassRecord]
  BY DEF Passes
<1>2. ASSUME NEW v \in Workers, Holding(v)'
      PROVE  /\ Holding(v)
             /\ pass'[v].job = pass[v].job
             /\ pass'[v].token = pass[v].token
             /\ pass'[v].pc = "apply" => pass'[v].outcome \in Outcomes
  <2>1. v # w
    BY <1>2 DEF Holding, Passes
  <2>2. pass'[v] = pass[v]
    BY <2>1 DEF Passes
  <2> QED BY <1>2, <2>2 DEF Holding, Passes, PassLinked
<1> QED BY <1>1, <1>2, PassesKept

\* A statement on one row that keeps it well formed keeps them all so.
LEMMA RowChanged ==
    ASSUME Rows, NEW j \in JobIds, NEW row, NEW d \in Nat,
           RowOK(row, d), row.claims >= jobs[j].claims,
           jobs' = [jobs EXCEPT ![j] = row],
           deferrals' = [deferrals EXCEPT ![j] = d]
    PROVE  /\ Rows'
           /\ \A i \in JobIds : jobs'[i].claims >= jobs[i].claims
<1>1. row \in JobRow
  BY DEF RowOK
<1>2. jobs' \in [JobIds -> JobRow] /\ deferrals' \in [JobIds -> Nat]
  BY <1>1 DEF Rows
<1>3. ASSUME NEW i \in JobIds
      PROVE  RowOK(jobs'[i], deferrals'[i]) /\ jobs'[i].claims >= jobs[i].claims
  <2>1. CASE i = j
    BY <2>1 DEF Rows
  <2>2. CASE i # j
    <3>1. jobs'[i] = jobs[i] /\ deferrals'[i] = deferrals[i]
      BY <2>2 DEF Rows
    <3>2. RowOK(jobs[i], deferrals[i]) /\ jobs[i].claims \in Nat
      BY DEF Rows, JobRow
    <3> QED BY <3>1, <3>2
  <2> QED BY <2>1, <2>2
<1> QED BY <1>2, <1>3 DEF Rows

-----------------------------------------------------------------------------
(* The invariant is inductive: one lemma per kind of step. *)

\* Nothing is inserted, claimed or held at the start.
LEMMA InitInv == Init => QueueInv
<1> SUFFICES ASSUME Init PROVE Rows /\ OneActivePerKey /\ Passes
  BY InvParts
<1>1. RowOK(AbsentRow, 0)
  BY MaxAttemptsAssumption
     DEF RowOK, JobRow, RowValid, Accounted, AbsentRow, UnclaimedRow,
         WaitingStatuses, ActiveStatuses, TerminalStatuses
<1>2. AbsentRow \in JobRow /\ AbsentRow.status = "absent"
  BY <1>1 DEF RowOK, AbsentRow, UnclaimedRow
<1>3. Rows
  BY <1>1, <1>2 DEF Init, Rows
<1>4. OneActivePerKey
  BY <1>2 DEF Init, OneActivePerKey, Active, ActiveStatuses, WaitingStatuses
<1>5. \A w \in Workers : ~Holding(w)
  BY EmptyPass DEF Init, Holding
<1>6. Passes
  BY <1>5, EmptyPass DEF Init, Passes, PassLinked, ClaimHeldOnce
<1> QED BY <1>3, <1>4, <1>6

\* A step that leaves the table alone and only empties one pass.
LEMMA EmptyStep ==
    ASSUME QueueInv, NEW w \in Workers, NEW p \in PassRecord,
           p.pc \notin {"executing", "committed", "apply"},
           pass' = [pass EXCEPT ![w] = p], UNCHANGED <<jobs, deferrals>>
    PROVE  QueueInv'
<1>1. Rows /\ OneActivePerKey /\ Passes
  BY InvParts
<1>2. Rows' /\ OneActivePerKey'
  BY <1>1 DEF Rows, OneActivePerKey
<1>3. \A j \in JobIds : jobs'[j].claims >= jobs[j].claims
  BY <1>1 DEF Rows, JobRow
<1>4. Passes'
  BY <1>1, <1>2, <1>3, PassEmptied
<1> QED BY <1>2, <1>4, InvParts, PTL DEF QueueInv

\* An insert takes a free key, so it stays the only active job of it.
LEMMA EnqueueStep ==
    ASSUME QueueInv, NEW j \in JobIds, NEW delay \in Delays, Enqueue(j, delay)
    PROVE  QueueInv'
<1>1. Rows /\ OneActivePerKey /\ Passes
  BY InvParts
<1>2. delay \in Nat
  BY DelaysAssumption
<1>3. jobs[j].claims = 0 /\ deferrals[j] = 0
  BY <1>1 DEF Enqueue, Rows, RowOK, JobRow, RowValid, Accounted, AbsentRow, UnclaimedRow
<1>4. deferrals' = [deferrals EXCEPT ![j] = 0]
  BY <1>1, <1>3 DEF Enqueue, Rows
<1>5. /\ Rows'
      /\ \A i \in JobIds : jobs'[i].claims >= jobs[i].claims
  <2>1. RowOK(NewRow(delay), 0) /\ NewRow(delay).claims >= jobs[j].claims
    BY <1>2, <1>3, NewRowOK
  <2>2. jobs' = [jobs EXCEPT ![j] = NewRow(delay)]
    BY DEF Enqueue
  <2> QED BY <1>1, <1>4, <2>1, <2>2, RowChanged
<1>6. OneActivePerKey'
  BY <1>1 DEF Enqueue, KeyFree, OneActivePerKey, Rows
<1>7. Passes'
  BY <1>1, <1>5, PassesKept DEF Enqueue, Passes, PassLinked, Holding
<1> QED BY <1>5, <1>6, <1>7, InvParts, PTL

\* A cancelled job is no longer active and nobody holds it.
LEMMA CancelStep ==
    ASSUME QueueInv, NEW j \in JobIds, Cancel(j)
    PROVE  QueueInv'
<1>1. Rows /\ OneActivePerKey /\ Passes
  BY InvParts
<1>2. /\ RowOK(CancelRow(jobs[j]), deferrals[j])
      /\ CancelRow(jobs[j]).claims = jobs[j].claims
      /\ CancelRow(jobs[j]).status = "failed"
      /\ jobs[j].claims \in Nat /\ deferrals[j] \in Nat
  BY <1>1, CancelRowOK DEF Cancel, Rows, JobRow
<1>3. /\ jobs' = [jobs EXCEPT ![j] = CancelRow(jobs[j])]
      /\ deferrals' = [deferrals EXCEPT ![j] = deferrals[j]]
  BY <1>1 DEF Cancel, Rows
<1>4. /\ Rows'
      /\ \A i \in JobIds : jobs'[i].claims >= jobs[i].claims
  <2>1. CancelRow(jobs[j]).claims >= jobs[j].claims
    BY <1>2
  <2> QED BY <1>1, <1>2, <1>3, <2>1, RowChanged
<1>5. \A i \in JobIds : Active(jobs'[i]) => Active(jobs[i])
  BY <1>1, <1>2, <1>3 DEF Rows, Active, ActiveStatuses, WaitingStatuses
<1>6. OneActivePerKey'
  BY <1>1, <1>5, KeysKept
<1>7. Passes'
  BY <1>1, <1>4, PassesKept DEF Cancel, Passes, PassLinked, Holding
<1> QED BY <1>4, <1>6, <1>7, InvParts, PTL

\* Recovery charges each row of its batch once and takes no claim.
LEMMA RecoverStep ==
    ASSUME QueueInv, NEW w \in Workers, NEW batch \in SUBSET Expired,
           RecoverExpired(w, batch)
    PROVE  QueueInv'
<1>1. Rows /\ OneActivePerKey /\ Passes
  BY InvParts
<1>2. ASSUME NEW j \in JobIds
      PROVE  /\ RowOK(jobs'[j], deferrals'[j])
             /\ jobs'[j].claims >= jobs[j].claims
             /\ Active(jobs'[j]) => Active(jobs[j])
  <2>1. RowOK(jobs[j], deferrals[j]) /\ jobs[j].claims \in Nat /\ deferrals[j] \in Nat
    BY <1>1 DEF Rows, JobRow
  <2>2. deferrals'[j] = deferrals[j]
    BY DEF RecoverExpired
  <2>3. CASE j \in batch
    <3>1. LeaseExpired(jobs[j]) /\ jobs'[j] = RecoverRow(jobs[j])
      BY <2>3 DEF RecoverExpired, Expired
    <3>2. Active(jobs[j])
      BY <3>1 DEF LeaseExpired, Active, ActiveStatuses
    <3> QED BY <2>1, <2>2, <3>1, <3>2, RecoverRowOK
  <2>4. CASE j \notin batch
    <3>1. jobs'[j] = jobs[j]
      BY <2>4 DEF RecoverExpired
    <3> QED BY <2>1, <2>2, <3>1
  <2> QED BY <2>3, <2>4
<1>3. Rows'
  <2>1. \A j \in JobIds : jobs'[j] \in JobRow
    BY <1>2 DEF RowOK
  <2>2. jobs' \in [JobIds -> JobRow] /\ deferrals' \in [JobIds -> Nat]
    BY <1>1, <2>1 DEF RecoverExpired, Rows
  <2> QED BY <1>2, <2>2 DEF Rows
<1>4. OneActivePerKey'
  BY <1>1, <1>2, KeysKept
<1>5. Passes'
  <2>1. pass' = [pass EXCEPT ![w] = [pass[w] EXCEPT !.pc = "claim"]]
    BY <1>1 DEF RecoverExpired, Passes
  <2>2. /\ [pass[w] EXCEPT !.pc = "claim"] \in PassRecord
        /\ [pass[w] EXCEPT !.pc = "claim"].pc = "claim"
    BY <1>1 DEF Passes, PassRecord
  <2> QED BY <1>1, <1>2, <1>3, <2>1, <2>2, PassEmptied
<1> QED BY <1>3, <1>4, <1>5, InvParts, PTL

\* A claim draws a token above every token a pass already holds for the job.
LEMMA ClaimStep ==
    ASSUME QueueInv, NEW w \in Workers, NEW j \in JobIds, Claim(w, j)
    PROVE  QueueInv'
<1>1. Rows /\ OneActivePerKey /\ Passes
  BY InvParts
<1> DEFINE row == ClaimRow(jobs[j], OwnerOf[w])
           p == [IdlePass EXCEPT !.pc = "executing", !.job = j,
                                 !.token = jobs[j].claims + 1, !.exec = ExecutionTimeout]
<1>2. /\ RowOK(row, deferrals[j]) /\ row.claims = jobs[j].claims + 1
      /\ row.status = "running"
      /\ jobs[j].claims \in Nat /\ deferrals[j] \in Nat
  BY <1>1, ClaimRowOK, OwnerOfAssumption DEF Claim, Rows, JobRow
<1>3. /\ jobs' = [jobs EXCEPT ![j] = row]
      /\ deferrals' = [deferrals EXCEPT ![j] = deferrals[j]]
      /\ pass' = [pass EXCEPT ![w] = p]
  BY <1>1 DEF Claim, Rows
<1>4. /\ p \in PassRecord /\ p.pc = "executing" /\ p.job = j
      /\ p.token = jobs[j].claims + 1
  <2>1. jobs[j].claims + 1 \in Nat /\ ExecutionTimeout \in Nat
    BY <1>2, ExecutionTimeoutAssumption
  <2>2. IdlePass \in PassRecord
    BY EmptyPass
  <2> QED BY <2>1, <2>2 DEF PassRecord
<1>5. Active(jobs[j])
  BY DEF Claim, Claimable, Waiting, Active, ActiveStatuses
<1> HIDE DEF row, p
<1>6. /\ Rows'
      /\ \A i \in JobIds : jobs'[i].claims >= jobs[i].claims
  <2>1. row.claims >= jobs[j].claims
    BY <1>2
  <2> QED BY <1>1, <1>2, <1>3, <2>1, RowChanged
<1>7. OneActivePerKey'
  <2>1. \A i \in JobIds : Active(jobs'[i]) => Active(jobs[i])
    BY <1>1, <1>3, <1>5 DEF Rows
  <2> QED BY <1>1, <2>1, KeysKept
<1>8. /\ pass' \in [Workers -> PassRecord]
      /\ pass'[w] = p
      /\ \A v \in Workers \ {w} : pass'[v] = pass[v]
      /\ jobs'[j].claims = jobs[j].claims + 1
  BY <1>1, <1>2, <1>3, <1>4 DEF Passes, Rows
<1>9. ASSUME NEW v \in Workers PROVE PassLinked(v)'
  <2>1. CASE v = w
    BY <1>2, <1>4, <1>8, <2>1 DEF PassLinked
  <2>2. CASE v # w
    <3> SUFFICES ASSUME Holding(v)'
                 PROVE  /\ pass'[v].job \in JobIds
                        /\ pass'[v].token \in 1 .. jobs'[pass'[v].job].claims
                        /\ pass'[v].pc = "apply" => pass'[v].outcome \in Outcomes
      BY DEF PassLinked
    <3>1. /\ pass'[v] = pass[v]
          /\ pass[v].job \in JobIds /\ pass[v].token \in 1 .. jobs[pass[v].job].claims
          /\ pass[v].pc = "apply" => pass[v].outcome \in Outcomes
      BY <1>1, <1>8, <2>2 DEF Passes, PassLinked, Holding
    <3>2. /\ jobs[pass[v].job].claims \in Nat /\ jobs'[pass[v].job].claims \in Nat
          /\ jobs'[pass[v].job].claims >= jobs[pass[v].job].claims
      BY <1>1, <1>6, <3>1 DEF Rows, JobRow
    <3> QED BY <3>1, <3>2
  <2> QED BY <2>1, <2>2
<1>10. ClaimHeldOnce'
  <2>1. ASSUME NEW v \in Workers \ {w}, Holding(v)', pass'[v].job = j
        PROVE  pass'[v].token # jobs[j].claims + 1
    <3>1. Holding(v) /\ pass[v] = pass'[v]
      BY <1>8, <2>1 DEF Holding
    <3>2. pass[v].token \in 1 .. jobs[j].claims
      BY <1>1, <2>1, <3>1 DEF Passes, PassLinked
    <3> QED BY <1>2, <3>1, <3>2
  <2>2. ASSUME NEW u \in Workers \ {w}, NEW v \in Workers \ {w}, Holding(u)', Holding(v)',
               pass'[u].job = pass'[v].job, pass'[u].token = pass'[v].token
        PROVE  u = v
    BY <1>1, <1>8, <2>2 DEF Passes, ClaimHeldOnce, Holding
  <2> QED BY <1>4, <1>8, <2>1, <2>2 DEF ClaimHeldOnce
<1>11. Passes'
  BY <1>8, <1>9, <1>10 DEF Passes
<1> QED BY <1>6, <1>7, <1>11, InvParts, PTL

\* A heartbeat moves a timer of a row that is and stays running.
LEMMA HeartbeatStep ==
    ASSUME QueueInv, NEW w \in Workers, Heartbeat(w)
    PROVE  QueueInv'
<1>1. Rows /\ OneActivePerKey /\ Passes
  BY InvParts
<1> DEFINE j == pass[w].job
           row == HeartbeatRow(jobs[j])
<1>2. j \in JobIds /\ jobs[j].status = "running"
  BY <1>1 DEF Heartbeat, Live, LiveOwner, Passes, PassLinked, Holding
<1>3. /\ RowOK(row, deferrals[j]) /\ row.claims = jobs[j].claims
      /\ jobs[j].claims \in Nat /\ deferrals[j] \in Nat
  BY <1>1, <1>2, HeartbeatRowOK DEF Rows, JobRow
<1>4. /\ jobs' = [jobs EXCEPT ![j] = row]
      /\ deferrals' = [deferrals EXCEPT ![j] = deferrals[j]]
      /\ pass' = pass
  BY <1>1, <1>2 DEF Heartbeat, Rows
<1>5. Active(jobs[j])
  BY <1>2 DEF Active, ActiveStatuses
<1> HIDE DEF j, row
<1>6. /\ Rows'
      /\ \A i \in JobIds : jobs'[i].claims >= jobs[i].claims
  <2>1. row.claims >= jobs[j].claims
    BY <1>3
  <2> QED BY <1>1, <1>2, <1>3, <1>4, <2>1, RowChanged
<1>7. OneActivePerKey'
  <2>1. \A i \in JobIds : Active(jobs'[i]) => Active(jobs[i])
    BY <1>1, <1>4, <1>5 DEF Rows
  <2> QED BY <1>1, <2>1, KeysKept
<1>8. Passes'
  BY <1>1, <1>4, <1>6, PassesKept DEF Passes, PassLinked, Holding
<1> QED BY <1>6, <1>7, <1>8, InvParts, PTL

\* An accepted outcome, whoever writes it, ends the running claim of its row.
LEMMA OutcomeWritten ==
    ASSUME Rows, OneActivePerKey, NEW j \in JobIds, NEW outcome \in Outcomes,
           NEW at \in Nat, jobs[j].status = "running",
           jobs' = [jobs EXCEPT ![j] = OutcomeRow(jobs[j], outcome, at)],
           deferrals' = CountDeferral(j, outcome)
    PROVE  /\ Rows' /\ OneActivePerKey'
           /\ \A i \in JobIds : jobs'[i].claims >= jobs[i].claims
<1> DEFINE row == OutcomeRow(jobs[j], outcome, at)
           d == IF outcome = "deferred" THEN deferrals[j] + 1 ELSE deferrals[j]
<1>1. RowOK(jobs[j], deferrals[j]) /\ jobs[j].claims \in Nat /\ deferrals[j] \in Nat
  BY DEF Rows, JobRow
<1>2. RowOK(row, d) /\ row.claims = jobs[j].claims /\ d \in Nat
  BY <1>1, OutcomeRowOK
<1>3. deferrals' = [deferrals EXCEPT ![j] = d]
  BY DEF CountDeferral, Rows
<1>4. Active(jobs[j])
  BY DEF Active, ActiveStatuses
<1> HIDE DEF row, d
<1>5. row.claims >= jobs[j].claims
  BY <1>1, <1>2
<1>6. jobs' = [jobs EXCEPT ![j] = row]
  BY DEF row
<1>7. /\ Rows'
      /\ \A i \in JobIds : jobs'[i].claims >= jobs[i].claims
  BY <1>2, <1>3, <1>5, <1>6, RowChanged
<1>8. \A i \in JobIds : Active(jobs'[i]) => Active(jobs[i])
  BY <1>4, <1>6 DEF Rows
<1> QED BY <1>7, <1>8, KeysKept

\* The worker that applies an outcome writes it and forgets the claim.
LEMMA ApplyStep ==
    ASSUME QueueInv, NEW w \in Workers, ApplyOutcome(w)
    PROVE  QueueInv'
<1>1. Rows /\ OneActivePerKey /\ Passes
  BY InvParts
<1>2. /\ pass[w].job \in JobIds /\ pass[w].outcome \in Outcomes /\ pass[w].at \in Nat
      /\ jobs[pass[w].job].status = "running"
  BY <1>1 DEF ApplyOutcome, OutcomeAccepted, LiveOwner, Passes, PassLinked, Holding, PassRecord
<1>3. /\ Rows' /\ OneActivePerKey'
      /\ \A i \in JobIds : jobs'[i].claims >= jobs[i].claims
  BY <1>1, <1>2, OutcomeWritten DEF ApplyOutcome
<1>4. pass' = [pass EXCEPT ![w] = IdlePass]
  BY DEF ApplyOutcome
<1>5. Passes'
  BY <1>1, <1>3, <1>4, PassEmptied, EmptyPass
<1> QED BY <1>3, <1>5, InvParts, PTL

\* A handler that commits its own outcome writes it and keeps a claim that has ended.
LEMMA CommitStep ==
    ASSUME QueueInv, NEW w \in Workers, NEW outcome \in Outcomes, NEW at \in Nat,
           HandlerCommits(w, outcome, at)
    PROVE  QueueInv'
<1>1. Rows /\ OneActivePerKey /\ Passes
  BY InvParts
<1>2. pass[w].job \in JobIds /\ jobs[pass[w].job].status = "running"
  BY <1>1 DEF HandlerCommits, OutcomeAccepted, LiveOwner, Passes, PassLinked, Holding
<1>3. /\ Rows' /\ OneActivePerKey'
      /\ \A i \in JobIds : jobs'[i].claims >= jobs[i].claims
  BY <1>1, <1>2, OutcomeWritten DEF HandlerCommits
<1>4. pass' \in [Workers -> PassRecord]
  BY <1>1 DEF HandlerCommits, Passes, PassRecord
<1>5. Passes'
  <2>1. ASSUME NEW v \in Workers, Holding(v)'
        PROVE  /\ Holding(v)
               /\ pass'[v].job = pass[v].job
               /\ pass'[v].token = pass[v].token
               /\ pass'[v].pc = "apply" => pass'[v].outcome \in Outcomes
    BY <1>1, <2>1 DEF HandlerCommits, Passes, PassLinked, Holding, PassRecord
  <2> QED BY <1>1, <1>3, <1>4, <2>1, PassesKept
<1> QED BY <1>3, <1>5, InvParts, PTL

\* A handler that returns, or that the timeout drops, leaves an outcome to apply.
LEMMA ReturnStep ==
    ASSUME QueueInv, NEW w \in Workers, NEW outcome \in Outcomes, NEW at \in Nat,
           pass[w].pc \in {"executing", "committed"},
           pass' = [pass EXCEPT ![w] = [@ EXCEPT !.pc = "apply", !.outcome = outcome, !.at = at]],
           UNCHANGED <<jobs, deferrals>>
    PROVE  QueueInv'
<1>1. Rows /\ OneActivePerKey /\ Passes
  BY InvParts
<1>2. /\ Rows' /\ OneActivePerKey'
      /\ \A i \in JobIds : jobs'[i].claims >= jobs[i].claims
  BY <1>1 DEF Rows, OneActivePerKey, JobRow
<1>3. pass' \in [Workers -> PassRecord]
  <2>1. pass' = [pass EXCEPT ![w] = [pass[w] EXCEPT !.pc = "apply", !.outcome = outcome,
                                                    !.at = at]]
    BY <1>1 DEF Passes
  <2>2. [pass[w] EXCEPT !.pc = "apply", !.outcome = outcome, !.at = at] \in PassRecord
    BY <1>1 DEF Passes, PassRecord
  <2> QED BY <1>1, <2>1, <2>2 DEF Passes
<1>4. Passes'
  <2>1. ASSUME NEW v \in Workers, Holding(v)'
        PROVE  /\ Holding(v)
               /\ pass'[v].job = pass[v].job
               /\ pass'[v].token = pass[v].token
               /\ pass'[v].pc = "apply" => pass'[v].outcome \in Outcomes
    BY <1>1, <2>1 DEF Passes, PassLinked, Holding, PassRecord
  <2> QED BY <1>1, <1>2, <1>3, <2>1, PassesKept
<1> QED BY <1>2, <1>4, InvParts, PTL

\* Time changes no status, no claim and no pass but for its timers.
LEMMA TickStep ==
    ASSUME QueueInv, Tick
    PROVE  QueueInv'
<1>1. Rows /\ OneActivePerKey /\ Passes
  BY InvParts
<1>2. ASSUME NEW j \in JobIds
      PROVE  /\ RowOK(jobs'[j], deferrals'[j])
             /\ jobs'[j].claims >= jobs[j].claims
             /\ Active(jobs'[j]) => Active(jobs[j])
  <2>1. RowOK(jobs[j], deferrals[j]) /\ jobs[j].claims \in Nat /\ deferrals[j] \in Nat
    BY <1>1 DEF Rows, JobRow
  <2>2. jobs'[j] = ElapseRow(jobs[j]) /\ deferrals'[j] = deferrals[j]
    BY DEF Tick
  <2>3. /\ RowOK(ElapseRow(jobs[j]), deferrals[j])
        /\ ElapseRow(jobs[j]).claims = jobs[j].claims
        /\ ElapseRow(jobs[j]).status = jobs[j].status
    BY <2>1, ElapseRowOK
  <2> QED BY <2>1, <2>2, <2>3 DEF Active
<1>3. Rows'
  <2>1. \A j \in JobIds : jobs'[j] \in JobRow
    BY <1>2 DEF RowOK
  <2>2. jobs' \in [JobIds -> JobRow] /\ deferrals' \in [JobIds -> Nat]
    BY <1>1, <2>1 DEF Tick, Rows
  <2> QED BY <1>2, <2>2 DEF Rows
<1>4. OneActivePerKey'
  BY <1>1, <1>2, KeysKept
<1>5. ASSUME NEW w \in Workers
      PROVE  /\ pass'[w] \in PassRecord
             /\ pass'[w].pc = pass[w].pc /\ pass'[w].job = pass[w].job
             /\ pass'[w].token = pass[w].token /\ pass'[w].outcome = pass[w].outcome
  <2>1. pass[w] \in PassRecord
    BY <1>1 DEF Passes
  <2>2. Elapse(pass[w].exec) \in Nat /\ Elapse(pass[w].at) \in Nat
    BY <2>1 DEF PassRecord, Elapse
  <2>3. pass'[w] = [pass[w] EXCEPT !.exec = Elapse(pass[w].exec), !.at = Elapse(pass[w].at)]
    BY <2>1 DEF Tick, PassRecord
  <2> QED BY <2>1, <2>2, <2>3 DEF PassRecord
<1>6. Passes'
  <2>1. pass' \in [Workers -> PassRecord]
    BY <1>5 DEF Tick
  <2> QED BY <1>1, <1>2, <1>3, <1>5, <2>1, PassesKept DEF Passes, PassLinked, Holding
<1> QED BY <1>3, <1>4, <1>6, InvParts, PTL

-----------------------------------------------------------------------------
(* The theorems. *)

\* Every step of the queue and its workers keeps the invariant.
LEMMA NextInv == QueueInv /\ [Next]_vars => QueueInv'
<1> SUFFICES ASSUME QueueInv, [Next]_vars PROVE QueueInv'
  OBVIOUS
<1>1. CASE \E j \in JobIds, delay \in Delays : Enqueue(j, delay)
  BY <1>1, EnqueueStep
<1>2. CASE \E j \in JobIds : Cancel(j)
  BY <1>2, CancelStep
<1>3. ASSUME NEW w \in Workers, PassStep(w) PROVE QueueInv'
  <2>1. CASE \E batch \in SUBSET Expired : RecoverExpired(w, batch)
    BY <2>1, RecoverStep
  <2>2. CASE \E j \in JobIds : Claim(w, j)
    BY <2>2, ClaimStep
  <2>3. CASE NoClaim(w) \/ CommittedReturns(w) \/ OutcomeRejected(w) \/ Restart(w)
    BY <2>3, EmptyPass, EmptyStep DEF NoClaim, CommittedReturns, OutcomeRejected, Restart
  <2>4. CASE Timeout(w)
    <3>1. "retry" \in Outcomes /\ 0 \in Nat
      BY DEF Outcomes
    <3> QED BY <2>4, <3>1, ReturnStep DEF Timeout
  <2>5. CASE ApplyOutcome(w)
    BY <2>5, ApplyStep
  <2> QED BY <1>3, <2>1, <2>2, <2>3, <2>4, <2>5 DEF PassStep
<1>4. ASSUME NEW w \in Workers, Handler(w) PROVE QueueInv'
  <2>1. PICK outcome \in Outcomes : \E at \in OutcomeTimes(outcome) :
            HandlerReturns(w, outcome, at) \/ HandlerCommits(w, outcome, at)
    BY <1>4 DEF Handler
  <2>2. PICK at \in OutcomeTimes(outcome) :
            HandlerReturns(w, outcome, at) \/ HandlerCommits(w, outcome, at)
    BY <2>1
  <2>3. at \in Nat
    BY DelaysAssumption DEF OutcomeTimes
  <2>4. CASE HandlerReturns(w, outcome, at)
    BY <2>3, <2>4, ReturnStep DEF HandlerReturns
  <2>5. CASE HandlerCommits(w, outcome, at)
    BY <2>3, <2>5, CommitStep
  <2> QED BY <2>2, <2>4, <2>5
<1>5. ASSUME NEW w \in Workers, Heartbeat(w) PROVE QueueInv'
  BY <1>5, HeartbeatStep
<1>6. ASSUME NEW w \in Workers, HeartbeatLost(w) \/ Crash(w) PROVE QueueInv'
  BY <1>6, EmptyPass, EmptyStep DEF HeartbeatLost, Crash
<1>7. CASE Tick
  BY <1>7, TickStep
<1>8. CASE UNCHANGED vars
  BY <1>8 DEF vars, QueueInv, TypeOK, RowsValid, OneActivePerKey, ClaimAccounting,
              ClaimsLinked, ClaimHeldOnce, Holding
<1> QED BY <1>1, <1>2, <1>3, <1>4, <1>5, <1>6, <1>7, <1>8 DEF Next

\* The inductive invariant holds in every reachable state of the queue, for any
\* number of jobs, loops and replicas.
THEOREM QueueInvariant == Spec => []QueueInv
BY InitInv, NextInv, PTL DEF Spec

\* Every claim of every job is paid for exactly once.
THEOREM ClaimsAccounted == Spec => []ClaimAccounting
BY QueueInvariant, PTL DEF QueueInv

\* No two passes ever hold the same claim.
THEOREM ClaimsHeldOnce == Spec => []ClaimHeldOnce
BY QueueInvariant, PTL DEF QueueInv

\* The statuses an outcome leaves are those of its kind.
LEMMA EndedStatus ==
    ASSUME QueueInv, NEW w \in Workers, NEW outcome \in Outcomes, NEW at \in Nat,
           Holding(w),
           OutcomeAccepted(jobs[pass[w].job], OwnerOf[w], pass[w].token, outcome, at),
           jobs' = [jobs EXCEPT ![pass[w].job] = OutcomeRow(@, outcome, at)],
           pass'[w].pc # pass[w].pc
    PROVE  RunningEnds /\ TerminalKept
<1>1. pass[w].job \in JobIds /\ jobs[pass[w].job].status = "running"
  BY DEF QueueInv, ClaimsLinked, OutcomeAccepted, LiveOwner
<1>2. \A i \in JobIds \ {pass[w].job} : jobs'[i] = jobs[i]
  BY <1>1 DEF QueueInv, TypeOK
<1>3. HoldsClaim(w, pass[w].job)
  BY DEF HoldsClaim, OutcomeAccepted, LiveOwner
<1>4. \A v \in Workers \ {w} : ~HoldsClaim(v, pass[w].job)
  BY <1>3 DEF HoldsClaim, QueueInv, ClaimHeldOnce
<1>5. EndedByHolder(pass[w].job)
  BY <1>3, <1>4 DEF EndedByHolder
<1>6. RunningEnds
  BY <1>2, <1>5 DEF RunningEnds
<1>7. TerminalKept
  BY <1>1, <1>2 DEF TerminalKept, Terminal, TerminalStatuses
<1> QED BY <1>6, <1>7

\* No step ends a running claim for anybody but its holder, or reopens a job.
LEMMA NextActions == QueueInv /\ [Next]_vars => [RunningEnds /\ TerminalKept]_vars
<1> SUFFICES ASSUME QueueInv, Next PROVE RunningEnds /\ TerminalKept
  OBVIOUS
<1>1. jobs \in [JobIds -> JobRow] /\ pass \in [Workers -> PassRecord]
  BY DEF QueueInv, TypeOK
<1>2. CASE UNCHANGED jobs
  BY <1>2 DEF RunningEnds, TerminalKept
<1>3. ASSUME NEW j \in JobIds, NEW delay \in Delays, Enqueue(j, delay)
      PROVE  RunningEnds /\ TerminalKept
  BY <1>1, <1>3 DEF Enqueue, RunningEnds, TerminalKept, Terminal, TerminalStatuses
<1>4. ASSUME NEW j \in JobIds, Cancel(j) PROVE RunningEnds /\ TerminalKept
  BY <1>1, <1>4 DEF Cancel, Cancellable, Waiting, WaitingStatuses, RunningEnds, TerminalKept,
      Terminal, TerminalStatuses
<1>5. ASSUME NEW w \in Workers, NEW batch \in SUBSET Expired, RecoverExpired(w, batch)
      PROVE  RunningEnds /\ TerminalKept
  BY <1>1, <1>5 DEF RecoverExpired, Expired, LeaseExpired, RunningEnds, TerminalKept,
      Terminal, TerminalStatuses
<1>6. ASSUME NEW w \in Workers, NEW j \in JobIds, Claim(w, j)
      PROVE  RunningEnds /\ TerminalKept
  <2>1. jobs[j].status \in WaitingStatuses
    BY <1>6 DEF Claim, Claimable, Waiting
  <2>2. \A i \in JobIds \ {j} : jobs'[i] = jobs[i]
    BY <1>1, <1>6 DEF Claim
  <2> QED BY <2>1, <2>2 DEF RunningEnds, TerminalKept, Terminal, TerminalStatuses,
              WaitingStatuses
<1>7. ASSUME NEW w \in Workers, Heartbeat(w) PROVE RunningEnds /\ TerminalKept
  <2>1. \A j \in JobIds : jobs'[j].status = jobs[j].status
    BY <1>1, <1>7 DEF Heartbeat, HeartbeatRow, JobRow
  <2> QED BY <2>1 DEF RunningEnds, TerminalKept
<1>8. ASSUME NEW w \in Workers, ApplyOutcome(w) PROVE RunningEnds /\ TerminalKept
  <2>1. Holding(w) /\ pass[w].outcome \in Outcomes /\ pass[w].at \in Nat
    BY <1>1, <1>8 DEF ApplyOutcome, Holding, QueueInv, ClaimsLinked, PassRecord
  <2>2. pass'[w].pc # pass[w].pc
    BY <1>1, <1>8, EmptyPass DEF ApplyOutcome
  <2> QED BY <1>8, <2>1, <2>2, EndedStatus DEF ApplyOutcome
<1>9. ASSUME NEW w \in Workers, NEW outcome \in Outcomes, NEW at \in Nat,
             HandlerCommits(w, outcome, at)
      PROVE  RunningEnds /\ TerminalKept
  <2>1. Holding(w)
    BY <1>9 DEF HandlerCommits, Holding
  <2>2. pass'[w].pc # pass[w].pc
    BY <1>1, <1>9 DEF HandlerCommits, PassRecord
  <2> QED BY <1>9, <2>1, <2>2, EndedStatus DEF HandlerCommits
<1>10. CASE Tick
  <2>1. \A j \in JobIds : jobs'[j].status = jobs[j].status
    BY <1>1, <1>10 DEF Tick, ElapseRow, JobRow
  <2> QED BY <2>1 DEF RunningEnds, TerminalKept
<1>11. ASSUME NEW w \in Workers, Handler(w) PROVE RunningEnds /\ TerminalKept
  <2>1. PICK outcome \in Outcomes, at \in Nat :
            HandlerReturns(w, outcome, at) \/ HandlerCommits(w, outcome, at)
    BY <1>11, DelaysAssumption DEF Handler, OutcomeTimes
  <2> QED BY <1>2, <1>9, <2>1 DEF HandlerReturns
<1>12. ASSUME NEW w \in Workers, PassStep(w) PROVE RunningEnds /\ TerminalKept
  BY <1>2, <1>5, <1>6, <1>8, <1>12
     DEF PassStep, NoClaim, CommittedReturns, Timeout, OutcomeRejected, Restart
<1> QED BY <1>2, <1>3, <1>4, <1>7, <1>10, <1>11, <1>12 DEF Next, HeartbeatLost, Crash

\* A stale worker never ends a later claim of its job, however long it was
\* paused and however many loops share its lease owner.
THEOREM StaleWorkersFenced == Spec => OnlyHolderEnds
BY QueueInvariant, NextActions, PTL DEF Spec, OnlyHolderEnds

\* No timeout, late outcome, recovery or enqueue changes a finished job.
THEOREM TerminalJobsStay == Spec => TerminalStable
BY QueueInvariant, NextActions, PTL DEF Spec, TerminalStable

-----------------------------------------------------------------------------
(* The queue implements the lifecycle. *)

\* The stages of a row, one for each kind of status.
LEMMA StageOf ==
    ASSUME NEW row
    PROVE  /\ row.status \in WaitingStatuses => Stage(row) = "waiting"
           /\ row.status = "running" => Stage(row) = "held"
           /\ row.status \in TerminalStatuses \cup {"absent"} => Stage(row) = row.status
BY DEF Stage, Waiting, WaitingStatuses, TerminalStatuses

\* One row that changes its stage and keeps its failures is a move of the lifecycle.
LEMMA LifecycleMove ==
    ASSUME NEW j \in JobIds, NEW from, NEW to,
           Stage(jobs[j]) = from, Stage(jobs'[j]) = to,
           jobs'[j].failures = jobs[j].failures,
           \A i \in JobIds \ {j} : jobs'[i] = jobs[i]
    PROVE  Lifecycle!Move(j, from, to)
BY DEF Lifecycle!Move

\* Rows that keep stage and failures are a stutter of the lifecycle.
LEMMA LifecycleStutters ==
    ASSUME \A j \in JobIds : /\ jobs'[j].status = jobs[j].status
                             /\ jobs'[j].failures = jobs[j].failures
    PROVE  UNCHANGED Lifecycle!lifecycleVars
BY DEF Lifecycle!lifecycleVars, Stage, Waiting

\* A running row whose outcome is written is finished, given up, given back or has
\* spent one unit of its budget.
LEMMA LifecycleOutcome ==
    ASSUME QueueInv, NEW j \in JobIds, jobs[j].status = "running",
           NEW outcome \in Outcomes, NEW at \in Nat,
           jobs' = [jobs EXCEPT ![j] = OutcomeRow(@, outcome, at)]
    PROVE  Lifecycle!LifecycleNext
<1>1. /\ jobs[j] \in JobRow
      /\ jobs'[j] = OutcomeRow(jobs[j], outcome, at)
      /\ \A i \in JobIds \ {j} : jobs'[i] = jobs[i]
      /\ Stage(jobs[j]) = "held"
  BY StageOf DEF QueueInv, TypeOK
<1>a. RowOK(jobs[j], deferrals[j]) /\ deferrals[j] \in Nat
  BY DEF QueueInv, TypeOK, RowsValid, ClaimAccounting, ClaimsLinked, RowOK
<1>2. CASE outcome = "succeeded"
  <2>1. jobs'[j].status = "succeeded" /\ jobs'[j].failures = jobs[j].failures
    BY <1>1, <1>a, <1>2, SucceedRowOK DEF OutcomeRow
  <2>2. Lifecycle!Finish(j)
    BY <1>1, <2>1, StageOf, LifecycleMove DEF Lifecycle!Finish, TerminalStatuses
  <2> QED BY <2>2 DEF Lifecycle!LifecycleNext
<1>3. CASE outcome = "deferred"
  <2>1. jobs'[j].status = "deferred" /\ jobs'[j].failures = jobs[j].failures
    BY <1>1, <1>a, <1>3, DeferRowOK DEF OutcomeRow
  <2>2. Lifecycle!GiveBack(j)
    BY <1>1, <2>1, StageOf, LifecycleMove DEF Lifecycle!GiveBack, WaitingStatuses
  <2> QED BY <2>2 DEF Lifecycle!LifecycleNext
<1>4. CASE outcome = "failed"
  <2>1. jobs'[j].status = "failed" /\ jobs'[j].failures = jobs[j].failures
    BY <1>1, <1>a, <1>4, FailRowOK DEF OutcomeRow
  <2>2. Lifecycle!GiveUp(j)
    BY <1>1, <2>1, StageOf, LifecycleMove DEF Lifecycle!GiveUp, TerminalStatuses
  <2> QED BY <2>2 DEF Lifecycle!LifecycleNext
<1>5. CASE outcome = "retry"
  <2>1. /\ jobs'[j].failures = jobs[j].failures + 1
        /\ jobs'[j].status = IF jobs[j].failures + 1 >= MaxAttempts THEN "failed" ELSE "retry_wait"
    BY <1>1, <1>a, <1>5, SpendRowOK DEF OutcomeRow, RetryRow, WaitingStatuses
  <2>2. Stage(jobs'[j]) = IF jobs[j].failures + 1 >= MaxAttempts THEN "failed" ELSE "waiting"
    BY <2>1, StageOf DEF TerminalStatuses, WaitingStatuses
  <2>3. Lifecycle!Spend({j})
    BY <1>1, <2>1, <2>2 DEF Lifecycle!Spend
  <2> QED BY <2>3 DEF Lifecycle!LifecycleNext
<1> QED BY <1>2, <1>3, <1>4, <1>5 DEF Outcomes

\* The recovered rows spend together.
LEMMA LifecycleRecover ==
    ASSUME QueueInv, NEW w \in Workers, NEW batch \in SUBSET Expired, RecoverExpired(w, batch)
    PROVE  Lifecycle!LifecycleNext
<1>1. jobs \in [JobIds -> JobRow] /\ batch \subseteq JobIds
  BY DEF QueueInv, TypeOK, Expired
<1>2. \A j \in batch : Stage(jobs[j]) = "held"
  BY StageOf DEF Expired, LeaseExpired
<1>3. ASSUME NEW j \in batch
      PROVE  /\ jobs'[j].failures = jobs[j].failures + 1
             /\ Stage(jobs'[j]) = IF jobs[j].failures + 1 >= MaxAttempts THEN "failed" ELSE "waiting"
  <2>1. jobs'[j] = RecoverRow(jobs[j]) /\ jobs[j] \in JobRow
    BY <1>1 DEF RecoverExpired
  <2>2. /\ jobs'[j].failures = jobs[j].failures + 1
        /\ jobs'[j].status = IF jobs[j].failures + 1 >= MaxAttempts THEN "failed" ELSE "queued"
    BY <2>1 DEF RecoverRow, SpendRow, ClearLease, JobRow
  <2> QED BY <2>2, StageOf DEF TerminalStatuses, WaitingStatuses
<1>4. \A j \in JobIds \ batch : jobs'[j] = jobs[j]
  BY <1>1 DEF RecoverExpired
<1>5. Lifecycle!Spend(batch)
  BY <1>1, <1>2, <1>3, <1>4 DEF Lifecycle!Spend
<1> QED BY <1>1, <1>5 DEF Lifecycle!LifecycleNext

\* Every step of the queue is a step or a stutter of the lifecycle.
LEMMA LifecycleStep == QueueInv /\ [Next]_vars => [Lifecycle!LifecycleNext]_(Lifecycle!lifecycleVars)
<1> SUFFICES ASSUME QueueInv, [Next]_vars
             PROVE  Lifecycle!LifecycleNext \/ UNCHANGED Lifecycle!lifecycleVars
  OBVIOUS
<1>1. jobs \in [JobIds -> JobRow] /\ pass \in [Workers -> PassRecord]
  BY DEF QueueInv, TypeOK
<1>2. CASE UNCHANGED jobs
  BY <1>2, LifecycleStutters
<1>3. ASSUME NEW j \in JobIds, NEW delay \in Delays, Enqueue(j, delay)
      PROVE  Lifecycle!LifecycleNext
  <2>1. /\ jobs[j] = AbsentRow /\ jobs'[j] = NewRow(delay)
        /\ \A i \in JobIds \ {j} : jobs'[i] = jobs[i]
    BY <1>1, <1>3 DEF Enqueue, QueueInv, RowsValid, RowValid
  <2>2. Lifecycle!Submit(j)
    BY <2>1, StageOf, LifecycleMove
       DEF Lifecycle!Submit, AbsentRow, NewRow, UnclaimedRow, WaitingStatuses
  <2> QED BY <2>2 DEF Lifecycle!LifecycleNext
<1>4. ASSUME NEW j \in JobIds, Cancel(j)
      PROVE  Lifecycle!LifecycleNext
  <2>1. /\ jobs[j].status \in WaitingStatuses /\ jobs'[j].status = "failed"
        /\ jobs'[j].failures = jobs[j].failures
        /\ \A i \in JobIds \ {j} : jobs'[i] = jobs[i]
    BY <1>1, <1>4 DEF Cancel, Cancellable, Waiting, CancelRow, JobRow
  <2>2. Lifecycle!Withdraw(j)
    BY <2>1, StageOf, LifecycleMove DEF Lifecycle!Withdraw, TerminalStatuses
  <2> QED BY <2>2 DEF Lifecycle!LifecycleNext
<1>5. ASSUME NEW w \in Workers, NEW j \in JobIds, Claim(w, j)
      PROVE  Lifecycle!LifecycleNext
  <2>1. /\ jobs[j].status \in WaitingStatuses /\ jobs'[j].status = "running"
        /\ jobs'[j].failures = jobs[j].failures /\ jobs[j].failures < MaxAttempts
        /\ \A i \in JobIds \ {j} : jobs'[i] = jobs[i]
    BY <1>1, <1>5 DEF Claim, Claimable, Waiting, ClaimRow, JobRow
  <2>2. Lifecycle!Take(j)
    BY <2>1, StageOf, LifecycleMove DEF Lifecycle!Take
  <2> QED BY <2>2 DEF Lifecycle!LifecycleNext
<1>6. ASSUME NEW w \in Workers, Heartbeat(w)
      PROVE  UNCHANGED Lifecycle!lifecycleVars
  BY <1>1, <1>6, LifecycleStutters DEF Heartbeat, HeartbeatRow, JobRow
<1>7. ASSUME NEW w \in Workers, ApplyOutcome(w)
      PROVE  Lifecycle!LifecycleNext
  <2>1. /\ pass[w].job \in JobIds /\ pass[w].outcome \in Outcomes /\ pass[w].at \in Nat
        /\ jobs[pass[w].job].status = "running"
    BY <1>1, <1>7 DEF ApplyOutcome, Holding, QueueInv, ClaimsLinked, PassRecord, OutcomeAccepted,
        LiveOwner
  <2> QED BY <1>7, <2>1, LifecycleOutcome DEF ApplyOutcome
<1>8. ASSUME NEW w \in Workers, NEW outcome \in Outcomes, NEW at \in Nat,
             HandlerCommits(w, outcome, at)
      PROVE  Lifecycle!LifecycleNext
  <2>1. pass[w].job \in JobIds /\ jobs[pass[w].job].status = "running"
    BY <1>1, <1>8 DEF HandlerCommits, Holding, QueueInv, ClaimsLinked, OutcomeAccepted, LiveOwner
  <2> QED BY <1>8, <2>1, LifecycleOutcome DEF HandlerCommits
<1>9. CASE Tick
  BY <1>1, <1>9, LifecycleStutters DEF Tick, ElapseRow, JobRow
<1>10. ASSUME NEW w \in Workers, Handler(w)
       PROVE  Lifecycle!LifecycleNext \/ UNCHANGED Lifecycle!lifecycleVars
  <2>1. PICK outcome \in Outcomes, at \in Nat :
            HandlerReturns(w, outcome, at) \/ HandlerCommits(w, outcome, at)
    BY <1>10, DelaysAssumption DEF Handler, OutcomeTimes
  <2> QED BY <1>2, <1>8, <2>1 DEF HandlerReturns
<1>11. ASSUME NEW w \in Workers, PassStep(w)
       PROVE  Lifecycle!LifecycleNext \/ UNCHANGED Lifecycle!lifecycleVars
  BY <1>2, <1>5, <1>7, <1>11, LifecycleRecover
     DEF PassStep, NoClaim, CommittedReturns, Timeout, OutcomeRejected, Restart
<1> QED BY <1>2, <1>3, <1>4, <1>6, <1>9, <1>10, <1>11 DEF Next, HeartbeatLost, Crash, vars

\* The queue with its leases, workers, recoveries and crashes (worker.rs,
\* job_repository.rs) does to a job what the lifecycle allows and nothing else.
THEOREM QueueImplementsLifecycle == Spec => ImplementsLifecycle
<1>1. Init => Lifecycle!LifecycleInit
  BY StageOf DEF Init, Lifecycle!LifecycleInit, AbsentRow, UnclaimedRow
<1> QED
  BY <1>1, QueueInvariant, LifecycleStep, PTL
     DEF Spec, ImplementsLifecycle, Lifecycle!LifecycleSpec
=============================================================================
