---------------------------- MODULE AccountProofs ----------------------------
(***************************************************************************)
(* How accounts get and keep their credentials, proved: AccountCredentials *)
(* for any number of workers and operators, any lease, lifetime and        *)
(* refresh window and any number of faults; QrLogin for any number of      *)
(* requests and of attempts, finite or not, any capacity, any time to live *)
(* and any clock.                                                          *)
(*                                                                         *)
(* AccountCredentials.  The invariant is about a pass whose token is still *)
(* in the lease row, whether that lease is live or not.  Such a pass read  *)
(* the contents that the account has now: another refresh or login must    *)
(* first replace the token, and a deletion removes it.  The one token that *)
(* a deletion does not remove was written after it looked for one; a pass  *)
(* that then read the row before the commit is marked doomed, and for it   *)
(* only the version decides, against a row enrolled again and at its first *)
(* version.                                                                *)
(*                                                                         *)
(* QrLogin.  QrInv is inductive.  What makes it so is ConsumedIsOut:       *)
(* nobody but the request that drew a challenge knows it until the request *)
(* has inserted it, so an attempt enters the map once, and once it has     *)
(* left, it stays out.                                                     *)
(***************************************************************************)
EXTENDS AccountCredentials, QrLogin, FiniteSetTheorems, TLAPS

-----------------------------------------------------------------------------
(* Credentials and leases. *)

USE DEF Users

\* Moving a pass to another step, or giving it its result, keeps the records typed.
LEMMA PassMoves ==
    ASSUME AccountTypeOK, NEW u \in Users, NEW q \in PassRecord
    PROVE  [pass EXCEPT ![u] = q] \in [Users -> PassRecord]
  BY DEF AccountTypeOK

\* The records that the steps of a pass build have the type of a pass.
LEMMA PassTypes ==
    ASSUME AccountTypeOK, NEW u \in Users
    PROVE  /\ pass[u] \in PassRecord
           /\ IdlePass \in PassRecord
           /\ AfterPass(u) \in {"report", "idle"}
  BY DEF AccountTypeOK, IdlePass, PassRecord, Verdicts, AfterPass

\* A pass that only moves on keeps what it read.
LEMMA GotoStep ==
    ASSUME AccountTypeOK, NEW u \in Users,
           NEW pc \in {"idle", "check", "acquire", "report"} \cup Leased,
           Goto(u, pc)
    PROVE  /\ pass' \in [Users -> PassRecord]
           /\ pass'[u] = [pass[u] EXCEPT !.pc = pc]
           /\ \A v \in Users \ {u} : pass'[v] = pass[v]
<1>1. [pass[u] EXCEPT !.pc = pc] \in PassRecord
  BY PassTypes DEF PassRecord
<1> QED
  BY <1>1 DEF Goto, AccountTypeOK

\* A pass that has its result is no longer about to write.
LEMMA ConcludeStep ==
    ASSUME AccountTypeOK, NEW u \in Users, NEW verdict \in Verdicts,
           NEW pc \in {"idle", "report", "release"},
           Conclude(u, pc, verdict)
    PROVE  /\ pass' \in [Users -> PassRecord]
           /\ pass'[u].pc = pc
           /\ \A v \in Users \ {u} : pass'[v] = pass[v]
<1>1. pass[u] \in PassRecord /\ IdlePass \in PassRecord
  BY PassTypes
<1>2. [IdlePass EXCEPT !.pc = pc, !.usable = pass[u].usable, !.verdict = verdict] \in PassRecord
  BY <1>1 DEF PassRecord, IdlePass, Verdicts, Leased
<1> QED
  BY <1>1, <1>2 DEF Conclude, AccountTypeOK, IdlePass

\* A pass that reads the row remembers its present contents.
LEMMA RememberStep ==
    ASSUME AccountTypeOK, NEW u \in Users, NEW pc \in {"exchange", "commit"},
           Remember(u, pc)
    PROVE  /\ pass' \in [Users -> PassRecord]
           /\ pass'[u].pc = pc
           /\ pass'[u].version = account.version
           /\ pass'[u].stamp = account.stamp
           /\ pass'[u].setup = (account.state = "setup_required")
           /\ pass'[u].doomed = (deleting = "leaseless")
           /\ \A v \in Users \ {u} : pass'[v] = pass[v]
<1>1. pass[u] \in PassRecord /\ account \in Row
  BY PassTypes DEF AccountTypeOK
<1>2. [pass[u] EXCEPT !.pc = pc, !.version = account.version,
                      !.setup = (account.state = "setup_required"),
                      !.stamp = account.stamp,
                      !.doomed = (deleting = "leaseless")] \in PassRecord
  BY <1>1 DEF PassRecord, Row, Leased
<1> QED
  BY <1>1, <1>2 DEF Remember, AccountTypeOK, PassRecord

-----------------------------------------------------------------------------

\* A step keeps the reads fresh if it leaves the account's contents alone and a
\* pass that is about to write afterwards was so before, with the same read.
LEMMA FreshKept ==
    ASSUME SnapshotFresh, DeletionMisses, deleting' = deleting,
           account'.state = account.state,
           account'.stamp = account.stamp,
           account'.version = account.version,
           \A v \in Users :
               (lease'.holder = v /\ pass'[v].pc \in {"exchange", "commit"}) =>
                   /\ lease.holder = v /\ pass[v].pc \in {"exchange", "commit"}
                   /\ pass'[v].stamp = pass[v].stamp
                   /\ pass'[v].version = pass[v].version
                   /\ pass'[v].setup = pass[v].setup
                   /\ pass'[v].doomed = pass[v].doomed
    PROVE  SnapshotFresh' /\ DeletionMisses'
  BY DEF SnapshotFresh, Fresh, DeletionMisses

\* The operator's changes of the row.
LEMMA OperatorKeeps ==
    ASSUME AccountInv, OperatorStep
    PROVE  AccountInv'
<1>1. CASE Provision
  <2>a. account' \in Row /\ issued' \in Nat
    BY <1>1, AccountTimesAssumption DEF Provision, AccountInv, AccountTypeOK, Row
  <2>1. AccountTypeOK'
    BY <1>1, <2>a DEF Provision, AccountInv, AccountTypeOK
  <2>2. SnapshotFresh' /\ DeletionMisses'
    BY <1>1 DEF Provision, AccountInv, SnapshotFresh, Fresh, DeletionMisses
  <2> QED
    BY <2>1, <2>2 DEF AccountInv
<1>2. ASSUME NEW disabled \in BOOLEAN, ImportPlaceholder(disabled)
      PROVE  AccountInv'
  <2>a. account' \in Row /\ issued' \in Nat
    BY <1>2 DEF ImportPlaceholder, AccountInv, AccountTypeOK, Row
  <2>1. AccountTypeOK'
    BY <1>2, <2>a DEF ImportPlaceholder, AccountInv, AccountTypeOK
  <2>2. SnapshotFresh' /\ DeletionMisses'
    BY <1>2 DEF ImportPlaceholder, AccountInv, SnapshotFresh, Fresh, DeletionMisses
  <2> QED
    BY <2>1, <2>2 DEF AccountInv
<1>3. ASSUME NEW disabled \in BOOLEAN, SetDisabled(disabled)
      PROVE  AccountInv'
  <2>1. gated' \in BOOLEAN
    BY <1>3 DEF SetDisabled, Resume, AccountInv, AccountTypeOK
  <2>2. AccountTypeOK'
    BY <1>3, <2>1 DEF SetDisabled, AccountInv, AccountTypeOK, Row
  <2>3. SnapshotFresh' /\ DeletionMisses'
    BY <1>3 DEF SetDisabled, AccountInv, AccountTypeOK, Row, SnapshotFresh, Fresh, DeletionMisses
  <2> QED
    BY <2>2, <2>3 DEF AccountInv
<1>4. CASE DeleteRow \/ DeleteFails
  <2>1. AccountTypeOK'
    <3>1. CASE DeleteRow
      BY <3>1 DEF DeleteRow, AccountInv, AccountTypeOK, DeletePhases
    <3>2. CASE DeleteFails
      <4>1. faults' \in Nat /\ deleting' \in DeletePhases
        BY <3>2 DEF DeleteFails, AccountInv, AccountTypeOK, DeletePhases
      <4> QED
        BY <3>2, <4>1 DEF DeleteFails, AccountInv, AccountTypeOK
    <3> QED
      BY <1>4, <3>1, <3>2
  <2>2. SnapshotFresh' /\ DeletionMisses'
    BY <1>4 DEF DeleteRow, DeleteFails, AccountInv, SnapshotFresh, Fresh, DeletionMisses
  <2> QED
    BY <2>1, <2>2 DEF AccountInv
<1> QED
  BY <1>1, <1>2, <1>3, <1>4 DEF OperatorStep

\* The deletion: a lease that it locks goes with the row, and only a doomed pass can
\* hold one that it missed.
LEMMA DeleteKeeps ==
    ASSUME AccountInv, DeleteGoesOn
    PROVE  AccountInv'
<1>1. CASE DeleteLease
  <2>1. AccountTypeOK'
    BY <1>1 DEF DeleteLease, AccountInv, AccountTypeOK, DeletePhases
  <2>2. SnapshotFresh'
    BY <1>1 DEF DeleteLease, AccountInv, SnapshotFresh, Fresh
  <2>3. DeletionMisses'
    BY <1>1, AccountUsersAssumption DEF DeleteLease, DeletionMisses
  <2> QED
    BY <2>1, <2>2, <2>3 DEF AccountInv
<1>2. CASE DeleteCommit
  <2>1. AccountTypeOK'
    <3>1. account' \in Row /\ lease' \in LeaseRow /\ deleting' \in DeletePhases
      BY <1>2 DEF DeleteCommit, AccountInv, AccountTypeOK, Row, NoRow, NoLease, LeaseRow, DeletePhases
    <3> QED
      BY <1>2, <3>1 DEF DeleteCommit, AccountInv, AccountTypeOK
  <2>2. SnapshotFresh'
    <3>1. CASE deleting = "locking"
      BY <1>2, <3>1, AccountUsersAssumption DEF DeleteCommit, NoLease, SnapshotFresh
    <3>2. CASE deleting = "leaseless"
      BY <1>2, <3>2 DEF DeleteCommit, NoRow, AccountInv, SnapshotFresh, Fresh, DeletionMisses
    <3> QED
      BY <1>2, <3>1, <3>2 DEF DeleteCommit
  <2>3. DeletionMisses'
    BY <1>2 DEF DeleteCommit, DeletionMisses
  <2> QED
    BY <2>1, <2>2, <2>3 DEF AccountInv
<1> QED
  BY <1>1, <1>2 DEF DeleteGoesOn

\* The budget leaves a well-formed job.
LEMMA SpendTypes ==
    ASSUME AccountTypeOK
    PROVE  Spend \in JobRecord /\ NoJob \in JobRecord
  BY AccountBoundsAssumption DEF AccountTypeOK, Spend, NoJob, JobRecord

\* The scheduler, the gate, the job's lease and the clock.
LEMMA SurroundingsKeep ==
    ASSUME AccountInv, GateSource \/ EnqueueRefresh \/ JobLeaseLost \/ Tick
    PROVE  AccountInv'
<1>1. CASE GateSource
  BY <1>1 DEF GateSource, AccountInv, AccountTypeOK, SnapshotFresh, Fresh, DeletionMisses
<1>2. CASE EnqueueRefresh
  BY <1>2 DEF EnqueueRefresh, NoJob, JobRecord, AccountInv, AccountTypeOK, SnapshotFresh, Fresh, DeletionMisses
<1>3. CASE JobLeaseLost
  <2>1. AccountTypeOK'
    BY <1>3, SpendTypes DEF JobLeaseLost, AccountInv, AccountTypeOK
  <2>2. SnapshotFresh' /\ DeletionMisses'
    BY <1>3 DEF JobLeaseLost, AccountInv, SnapshotFresh, Fresh, DeletionMisses
  <2> QED
    BY <2>1, <2>2 DEF AccountInv
<1>4. CASE Tick
  <2>1. account' \in Row /\ lease' \in LeaseRow
    BY <1>4 DEF Tick, Less, AccountInv, AccountTypeOK, Row, LeaseRow
  <2>2. AccountTypeOK'
    BY <1>4, <2>1 DEF Tick, AccountInv, AccountTypeOK
  <2>3. SnapshotFresh' /\ DeletionMisses'
    BY <1>4 DEF Tick, AccountInv, AccountTypeOK, Row, LeaseRow, SnapshotFresh, Fresh, DeletionMisses
  <2> QED
    BY <2>2, <2>3 DEF AccountInv
<1> QED
  BY <1>1, <1>2, <1>3, <1>4

\* A pass that moves on, or ends, without touching the account or the lease.
LEMMA MoveKeeps ==
    ASSUME AccountInv, NEW u \in Users,
           UNCHANGED <<account, lease, deleting>>,
           pass' \in [Users -> PassRecord],
           pass'[u].pc \notin {"exchange", "commit"},
           \A v \in Users \ {u} : pass'[v] = pass[v]
    PROVE  SnapshotFresh' /\ DeletionMisses'
<1>1. ASSUME NEW v \in Users, lease'.holder = v, pass'[v].pc \in {"exchange", "commit"}
      PROVE  /\ lease.holder = v /\ pass[v].pc \in {"exchange", "commit"}
             /\ pass'[v] = pass[v]
  BY <1>1
<1> QED
  BY <1>1, FreshKept DEF AccountInv

\* What a worker does besides the lease and the write.
LEMMA WorkerKeeps ==
    ASSUME AccountInv, NEW w \in Workers, Claim(w) \/ WorkerStep(w)
    PROVE  AccountInv'
<1> w \in Users /\ AccountTypeOK
  BY DEF AccountInv
<1>1. CASE Claim(w)
  <2>1. [IdlePass EXCEPT !.pc = "check"] \in PassRecord
    BY PassTypes DEF PassRecord, IdlePass
  <2>2. AccountTypeOK'
    BY <1>1, <2>1 DEF Claim, AccountTypeOK, JobRecord
  <2>3. pass'[w].pc = "check" /\ \A v \in Users \ {w} : pass'[v] = pass[v]
    BY <1>1 DEF Claim, AccountTypeOK, IdlePass
  <2>4. SnapshotFresh' /\ DeletionMisses'
    BY <1>1, <2>2, <2>3, MoveKeeps DEF Claim, AccountTypeOK
  <2> QED
    BY <2>2, <2>4 DEF AccountInv
<1>2. CASE CheckRefresh(w)
  <2>1. ReadVerdict(account) \in Verdicts \cup {"refresh"}
    BY DEF ReadVerdict, Verdicts
  <2>2. CASE ReadVerdict(account) = "refresh"
    <3>1. Goto(w, "acquire")
      BY <1>2, <2>2 DEF CheckRefresh
    <3>a. /\ pass' \in [Users -> PassRecord]
          /\ pass'[w] = [pass[w] EXCEPT !.pc = "acquire"]
          /\ \A v \in Users \ {w} : pass'[v] = pass[v]
      BY <3>1, GotoStep
    <3>2. pass' \in [Users -> PassRecord] /\ pass'[w].pc = "acquire"
          /\ \A v \in Users \ {w} : pass'[v] = pass[v]
      BY <3>a, PassTypes DEF PassRecord
    <3>3. SnapshotFresh' /\ DeletionMisses'
      BY <1>2, <3>2, MoveKeeps DEF CheckRefresh
    <3> QED
      BY <1>2, <3>2, <3>3 DEF CheckRefresh, AccountInv, AccountTypeOK
  <2>3. CASE ReadVerdict(account) # "refresh"
    <3>1. Conclude(w, "report", ReadVerdict(account))
      BY <1>2, <2>3 DEF CheckRefresh
    <3>2. pass' \in [Users -> PassRecord] /\ pass'[w].pc = "report"
          /\ \A v \in Users \ {w} : pass'[v] = pass[v]
      BY <3>1, <2>1, <2>3, ConcludeStep
    <3>3. SnapshotFresh' /\ DeletionMisses'
      BY <1>2, <3>2, MoveKeeps DEF CheckRefresh
    <3> QED
      BY <1>2, <3>2, <3>3 DEF CheckRefresh, AccountInv, AccountTypeOK
  <2> QED
    BY <2>2, <2>3
<1>3. CASE LoadRefresh(w)
  <2>1. ReadVerdict(account) \in Verdicts \cup {"refresh"}
    BY DEF ReadVerdict, Verdicts
  <2>2. CASE ReadVerdict(account) = "refresh"
    <3>1. Remember(w, "exchange") /\ account.state = "enrolled"
      BY <1>3, <2>2 DEF LoadRefresh, ReadVerdict
    <3>2. /\ pass' \in [Users -> PassRecord]
          /\ pass'[w].version = account.version
          /\ pass'[w].stamp = account.stamp
          /\ pass'[w].setup = (account.state = "setup_required")
          /\ pass'[w].doomed = (deleting = "leaseless")
          /\ \A v \in Users \ {w} : pass'[v] = pass[v]
      BY <3>1, RememberStep
    <3>3. SnapshotFresh' /\ DeletionMisses'
      BY <1>3, <3>1, <3>2 DEF LoadRefresh, AccountInv, SnapshotFresh, Fresh, DeletionMisses
    <3> QED
      BY <1>3, <3>2, <3>3 DEF LoadRefresh, AccountInv, AccountTypeOK
  <2>3. CASE ReadVerdict(account) # "refresh"
    <3>1. Conclude(w, "release", ReadVerdict(account))
      BY <1>3, <2>3 DEF LoadRefresh
    <3>2. pass' \in [Users -> PassRecord] /\ pass'[w].pc = "release"
          /\ \A v \in Users \ {w} : pass'[v] = pass[v]
      BY <3>1, <2>1, <2>3, ConcludeStep
    <3>3. SnapshotFresh' /\ DeletionMisses'
      BY <1>3, <3>2, MoveKeeps DEF LoadRefresh
    <3> QED
      BY <1>3, <3>2, <3>3 DEF LoadRefresh, AccountInv, AccountTypeOK
  <2> QED
    BY <2>2, <2>3
<1>4. CASE ExchangeGranted(w)
  <2>1. Goto(w, "commit")
    BY <1>4 DEF ExchangeGranted
  <2>2. /\ pass' \in [Users -> PassRecord]
        /\ pass'[w] = [pass[w] EXCEPT !.pc = "commit"]
        /\ \A v \in Users \ {w} : pass'[v] = pass[v]
    BY <2>1, GotoStep DEF Leased
  <2>3. ASSUME NEW v \in Users
        PROVE  /\ pass'[v].stamp = pass[v].stamp
               /\ pass'[v].version = pass[v].version
               /\ pass'[v].setup = pass[v].setup
               /\ pass'[v].doomed = pass[v].doomed
    BY <2>2, PassTypes DEF PassRecord
  <2>4. ASSUME NEW v \in Users, pass'[v].pc \in {"exchange", "commit"}
        PROVE  pass[v].pc \in {"exchange", "commit"}
    BY <1>4, <2>2, <2>4 DEF ExchangeGranted
  <2>5. SnapshotFresh' /\ DeletionMisses'
    BY <1>4, <2>3, <2>4, FreshKept DEF ExchangeGranted, AccountInv
  <2> QED
    BY <1>4, <2>2, <2>5 DEF ExchangeGranted, AccountInv, AccountTypeOK
<1>5. CASE ExchangeUnavailable(w) \/ ExchangeRefused(w)
  <2>1. PICK verdict \in Verdicts : Conclude(w, "release", verdict)
    BY <1>5 DEF ExchangeUnavailable, ExchangeRefused, Verdicts
  <2>2. pass' \in [Users -> PassRecord] /\ pass'[w].pc = "release"
        /\ \A v \in Users \ {w} : pass'[v] = pass[v]
    BY <2>1, ConcludeStep
  <2>3. UNCHANGED <<account, lease, deleting, gated, job, issued, faults>>
    BY <1>5 DEF ExchangeUnavailable, ExchangeRefused
  <2>4. SnapshotFresh' /\ DeletionMisses'
    BY <2>2, <2>3, MoveKeeps
  <2> QED
    BY <2>2, <2>3, <2>4 DEF AccountInv, AccountTypeOK
<1>6. CASE Report(w)
  <2>1. job' \in JobRecord
    BY <1>6, SpendTypes DEF Report, AccountTypeOK
  <2>2. pass' \in [Users -> PassRecord] /\ pass'[w].pc = "idle"
        /\ \A v \in Users \ {w} : pass'[v] = pass[v]
    BY <1>6, PassTypes DEF Report, AccountTypeOK, IdlePass
  <2>3. SnapshotFresh' /\ DeletionMisses'
    BY <1>6, <2>2, MoveKeeps DEF Report
  <2> QED
    BY <1>6, <2>1, <2>2, <2>3 DEF Report, AccountInv, AccountTypeOK
<1> QED
  BY <1>1, <1>2, <1>3, <1>4, <1>5, <1>6 DEF WorkerStep

\* The lease: whoever takes it has read nothing yet.
LEMMA LeaseKeeps ==
    ASSUME AccountInv, NEW u \in Users,
           Acquire(u) \/ AccountBusy(u) \/ Heartbeat(u) \/ HeartbeatFails(u) \/ Release(u)
    PROVE  AccountInv'
<1> AccountTypeOK /\ pass[u] \in PassRecord /\ AfterPass(u) \in {"report", "idle"}
  BY PassTypes DEF AccountInv
<1>1. CASE Acquire(u)
  <2>1. Goto(u, "load")
    BY <1>1 DEF Acquire
  <2>2. /\ pass' \in [Users -> PassRecord]
        /\ pass'[u] = [pass[u] EXCEPT !.pc = "load"]
    BY <2>1, GotoStep DEF Leased
  <2>3. lease' \in LeaseRow /\ lease'.holder = u /\ pass'[u].pc = "load"
    BY <1>1, <2>2, AccountTimesAssumption DEF Acquire, LeaseRow, PassRecord
  <2>4. SnapshotFresh' /\ DeletionMisses'
    BY <2>3 DEF SnapshotFresh, Fresh, DeletionMisses
  <2> QED
    BY <1>1, <2>2, <2>3, <2>4 DEF Acquire, AccountInv, AccountTypeOK
<1>2. CASE AccountBusy(u)
  <2>1. Conclude(u, AfterPass(u), "retry")
    BY <1>2 DEF AccountBusy
  <2>2. pass' \in [Users -> PassRecord] /\ pass'[u].pc \in {"report", "idle"}
        /\ \A v \in Users \ {u} : pass'[v] = pass[v]
    BY <2>1, ConcludeStep DEF Verdicts
  <2>3. SnapshotFresh' /\ DeletionMisses'
    BY <1>2, <2>2, MoveKeeps DEF AccountBusy
  <2> QED
    BY <1>2, <2>2, <2>3 DEF AccountBusy, AccountInv, AccountTypeOK
<1>3. ASSUME pass' = [pass EXCEPT ![u] = [@ EXCEPT !.usable = FALSE]],
             UNCHANGED <<account, lease, deleting>>
      PROVE  pass' \in [Users -> PassRecord] /\ SnapshotFresh' /\ DeletionMisses'
  <2>1. [pass[u] EXCEPT !.usable = FALSE] \in PassRecord
    BY DEF PassRecord
  <2>2. pass' \in [Users -> PassRecord] /\ pass'[u] = [pass[u] EXCEPT !.usable = FALSE]
        /\ \A v \in Users \ {u} : pass'[v] = pass[v]
    BY <1>3, <2>1 DEF AccountTypeOK
  <2>3. ASSUME NEW v \in Users
        PROVE  /\ pass'[v].pc = pass[v].pc
               /\ pass'[v].stamp = pass[v].stamp
               /\ pass'[v].version = pass[v].version
               /\ pass'[v].setup = pass[v].setup
               /\ pass'[v].doomed = pass[v].doomed
    BY <2>2 DEF PassRecord
  <2> QED
    BY <1>3, <2>2, <2>3, FreshKept DEF AccountInv
<1>4. CASE Heartbeat(u)
  <2>1. CASE Owns(u)
    <3>1. lease' \in LeaseRow /\ lease'.holder = lease.holder
      BY <1>4, <2>1, AccountTimesAssumption DEF Heartbeat, AccountTypeOK, LeaseRow
    <3>2. UNCHANGED <<account, deleting, pass, gated, job, issued, faults>>
      BY <1>4, <2>1 DEF Heartbeat
    <3> QED
      BY <3>1, <3>2 DEF AccountInv, AccountTypeOK, SnapshotFresh, Fresh, DeletionMisses
  <2>2. CASE ~Owns(u)
    <3>1. pass' = [pass EXCEPT ![u] = [@ EXCEPT !.usable = FALSE]]
          /\ UNCHANGED <<account, lease, deleting, gated, job, issued, faults>>
      BY <1>4, <2>2 DEF Heartbeat
    <3>2. pass' \in [Users -> PassRecord] /\ SnapshotFresh' /\ DeletionMisses'
      BY <3>1, <1>3
    <3> QED
      BY <3>1, <3>2 DEF AccountInv, AccountTypeOK
  <2> QED
    BY <2>1, <2>2
<1>5. CASE HeartbeatFails(u)
  <2>1. pass' \in [Users -> PassRecord] /\ SnapshotFresh' /\ DeletionMisses'
    BY <1>5, <1>3 DEF HeartbeatFails
  <2> QED
    BY <1>5, <2>1 DEF HeartbeatFails, AccountInv, AccountTypeOK
<1>6. CASE Release(u)
  <2> DEFINE kept == Owns(u) /\ pass[u].usable
             next == [IdlePass EXCEPT !.pc = AfterPass(u),
                                      !.verdict = IF kept THEN pass[u].verdict ELSE "retry"]
             q == IF u \in Workers THEN next ELSE IdlePass
  <2>1. kept \in BOOLEAN
    BY DEF PassRecord, Owns, Live
  <2>2. q \in PassRecord /\ q.pc \in {"report", "idle"}
    BY <2>1, PassTypes DEF PassRecord, IdlePass, Verdicts
  <2>3. pass' = [pass EXCEPT ![u] = q]
    BY <1>6 DEF Release
  <2>4. pass' \in [Users -> PassRecord] /\ pass'[u].pc \in {"report", "idle"}
        /\ \A v \in Users \ {u} : pass'[v] = pass[v]
    BY <2>2, <2>3 DEF AccountTypeOK
  <2>5. lease' \in LeaseRow /\ lease'.holder \in {lease.holder, NoUser}
    BY <1>6 DEF Release, AccountTypeOK, LeaseRow, NoLease
  <2>6. ASSUME NEW v \in Users, lease'.holder = v, pass'[v].pc \in {"exchange", "commit"}
        PROVE  lease.holder = v /\ pass'[v] = pass[v]
    BY <2>4, <2>5, <2>6, AccountUsersAssumption
  <2>7. SnapshotFresh' /\ DeletionMisses'
    BY <1>6, <2>6, FreshKept DEF Release, AccountInv
  <2> QED
    BY <1>6, <2>4, <2>5, <2>7 DEF Release, AccountInv, AccountTypeOK
<1> QED
  BY <1>1, <1>2, <1>4, <1>5, <1>6

\* The logins and the ends of a pass that write nothing.
LEMMA LoginKeeps ==
    ASSUME AccountInv, NEW u \in Users,
           \/ u \in Operators /\ (StartLogin(u) \/ LoadLogin(u))
           \/ LeaseAlreadyLost(u) \/ Conflict(u) \/ Crash(u) \/ StorageError(u)
    PROVE  AccountInv'
<1> AccountTypeOK /\ pass[u] \in PassRecord /\ AfterPass(u) \in {"report", "idle"}
  BY PassTypes DEF AccountInv
<1>1. CASE StartLogin(u)
  <2>1. Goto(u, "acquire")
    BY <1>1 DEF StartLogin
  <2>2. /\ pass' \in [Users -> PassRecord]
        /\ pass'[u] = [pass[u] EXCEPT !.pc = "acquire"]
        /\ \A v \in Users \ {u} : pass'[v] = pass[v]
    BY <2>1, GotoStep
  <2>3. pass'[u].pc = "acquire"
    BY <2>2 DEF PassRecord
  <2>4. SnapshotFresh' /\ DeletionMisses'
    BY <1>1, <2>2, <2>3, MoveKeeps DEF StartLogin
  <2> QED
    BY <1>1, <2>2, <2>4 DEF StartLogin, AccountInv, AccountTypeOK
<1>2. CASE LoadLogin(u) /\ account.state # "absent"
  <2>1. Remember(u, "commit") /\ UNCHANGED <<account, lease, deleting, gated, job, issued, faults>>
    BY <1>2 DEF LoadLogin
  <2>2. /\ pass' \in [Users -> PassRecord]
        /\ pass'[u].version = account.version
        /\ pass'[u].stamp = account.stamp
        /\ pass'[u].setup = (account.state = "setup_required")
           /\ pass'[u].doomed = (deleting = "leaseless")
        /\ \A v \in Users \ {u} : pass'[v] = pass[v]
    BY <2>1, RememberStep
  <2>3. SnapshotFresh' /\ DeletionMisses'
    BY <1>2, <2>1, <2>2 DEF AccountInv, SnapshotFresh, Fresh, DeletionMisses
  <2> QED
    BY <2>1, <2>2, <2>3 DEF AccountInv, AccountTypeOK
<1>3. ASSUME NEW verdict \in Verdicts, NEW pc \in {"idle", "report", "release"},
             Conclude(u, pc, verdict), UNCHANGED <<account, lease, deleting>>
      PROVE  pass' \in [Users -> PassRecord] /\ SnapshotFresh' /\ DeletionMisses'
  <2>1. pass' \in [Users -> PassRecord] /\ pass'[u].pc = pc
        /\ \A v \in Users \ {u} : pass'[v] = pass[v]
    BY <1>3, ConcludeStep
  <2> QED
    BY <1>3, <2>1, MoveKeeps
<1>4. CASE (LoadLogin(u) /\ account.state = "absent") \/ LeaseAlreadyLost(u) \/ Conflict(u)
  <2>1. PICK verdict \in Verdicts : Conclude(u, "release", verdict)
    BY <1>4 DEF LoadLogin, LeaseAlreadyLost, Conflict, Verdicts
  <2>2. UNCHANGED <<account, lease, deleting, gated, job, issued, faults>>
    BY <1>4 DEF LoadLogin, LeaseAlreadyLost, Conflict
  <2>3. pass' \in [Users -> PassRecord] /\ SnapshotFresh' /\ DeletionMisses'
    BY <2>1, <2>2, <1>3
  <2> QED
    BY <2>2, <2>3 DEF AccountInv, AccountTypeOK
<1>5. CASE StorageError(u) /\ pass[u].pc # "release"
  <2>1. PICK pc \in {"idle", "report", "release"} : Conclude(u, pc, "retry")
    BY <1>5 DEF StorageError
  <2>2. UNCHANGED <<account, lease, deleting, gated, job, issued>> /\ faults' \in Nat
    BY <1>5 DEF StorageError, AccountTypeOK
  <2>3. pass' \in [Users -> PassRecord] /\ SnapshotFresh' /\ DeletionMisses'
    BY <2>1, <2>2, <1>3 DEF Verdicts
  <2> QED
    BY <2>2, <2>3 DEF AccountInv, AccountTypeOK
<1>7. CASE StorageError(u) /\ pass[u].pc = "release"
  <2> DEFINE failed == [IdlePass EXCEPT !.pc = "report", !.verdict = "retry"]
             q == IF u \in Workers THEN failed ELSE IdlePass
  <2>3. failed \in PassRecord /\ failed.pc = "report"
    BY DEF IdlePass, PassRecord, Verdicts
  <2>4. IdlePass \in PassRecord /\ IdlePass.pc = "idle"
    BY PassTypes DEF IdlePass
  <2>5. q \in PassRecord /\ q.pc \in {"idle", "report"}
    BY <2>3, <2>4
  <2>6. pass' = [pass EXCEPT ![u] = q]
    BY <1>7 DEF StorageError
  <2> HIDE DEF q
  <2>1. /\ pass' \in [Users -> PassRecord] /\ pass'[u].pc \in {"idle", "report"}
        /\ \A v \in Users \ {u} : pass'[v] = pass[v]
    BY <2>5, <2>6 DEF AccountTypeOK
  <2>2. SnapshotFresh' /\ DeletionMisses'
    BY <1>7, <2>1, MoveKeeps DEF StorageError
  <2> QED
    BY <1>7, <2>1, <2>2 DEF StorageError, AccountInv, AccountTypeOK
<1>6. CASE Crash(u)
  <2>1. pass' \in [Users -> PassRecord] /\ pass'[u].pc = "idle"
        /\ \A v \in Users \ {u} : pass'[v] = pass[v]
    BY <1>6, PassTypes DEF Crash, AccountTypeOK, IdlePass
  <2>2. SnapshotFresh' /\ DeletionMisses'
    BY <1>6, <2>1, MoveKeeps DEF Crash
  <2> QED
    BY <1>6, <2>1, <2>2 DEF Crash, AccountInv, AccountTypeOK
<1> QED
  BY <1>1, <1>2, <1>4, <1>5, <1>6, <1>7

\* The write: only the writer's token is in the lease row, and it is done.
LEMMA ReplaceKeeps ==
    ASSUME AccountInv, NEW u \in Users, Replace(u)
    PROVE  AccountInv'
<1> AccountTypeOK
  BY DEF AccountInv
<1>1. Conclude(u, "release", "succeeded")
  BY DEF Replace
<1>2. pass' \in [Users -> PassRecord] /\ pass'[u].pc = "release"
  BY <1>1, ConcludeStep DEF Verdicts
<1>3. account' \in Row
  <2>1. account \in Row /\ issued + 1 \in Nat /\ LifeFor \in Nat
    BY AccountTimesAssumption DEF AccountTypeOK
  <2>2. account.version + 1 \in Nat
    BY <2>1 DEF Row
  <2>3. account' = [account EXCEPT !.state = "enrolled", !.version = account.version + 1,
                                   !.left = LifeFor, !.stamp = issued + 1]
    BY DEF Replace
  <2> QED
    BY <2>1, <2>2, <2>3 DEF Row
<1>4. lease' = lease /\ lease.holder = u
  BY DEF Replace, CanReplace, Owns
<1>5. gated' \in BOOLEAN
  BY DEF Replace, Resume, AccountTypeOK
<1>6. SnapshotFresh' /\ DeletionMisses'
  BY <1>2, <1>4 DEF SnapshotFresh, Fresh, DeletionMisses
<1>7. issued' \in Nat /\ deleting' \in DeletePhases /\ UNCHANGED <<job, faults>>
  <2>1. issued' = issued + 1 /\ deleting' = "no" /\ UNCHANGED <<job, faults>>
    BY DEF Replace
  <2> QED
    BY <2>1 DEF AccountTypeOK, DeletePhases
<1>8. AccountTypeOK'
  BY <1>2, <1>3, <1>4, <1>5, <1>7 DEF AccountTypeOK
<1> QED
  BY <1>6, <1>8 DEF AccountInv

-----------------------------------------------------------------------------

\* The invariant holds initially and every step keeps it: a pass whose token is in
\* the lease row has read what the account holds, or read a row whose deletion had
\* looked for leases before (refresh_under_lease, replace, delete).
THEOREM AccountInvariant == Spec => []AccountInv
<1>1. Init => AccountInv
  <2> SUFFICES ASSUME Init PROVE AccountInv
    OBVIOUS
  <2>1. IdlePass \in PassRecord
    BY DEF IdlePass, PassRecord, Verdicts
  <2>2. account \in Row /\ lease \in LeaseRow /\ job \in JobRecord
    BY DEF Init, NoRow, Row, NoLease, LeaseRow, NoJob, JobRecord
  <2>3. AccountTypeOK
    BY <2>1, <2>2 DEF Init, AccountTypeOK, DeletePhases
  <2>4. SnapshotFresh /\ DeletionMisses
    BY AccountUsersAssumption DEF Init, SnapshotFresh, Fresh, DeletionMisses, NoLease
  <2> QED
    BY <2>3, <2>4 DEF AccountInv
<1>2. ASSUME AccountInv, [Next]_vars
      PROVE  AccountInv'
  <2>1. CASE UNCHANGED vars
    BY <1>2, <2>1 DEF vars, AccountInv, AccountTypeOK, SnapshotFresh, Fresh, DeletionMisses
  <2>2. CASE OperatorStep \/ DeleteGoesOn
    BY <1>2, <2>2, OperatorKeeps, DeleteKeeps
  <2>3. CASE GateSource \/ EnqueueRefresh \/ JobLeaseLost \/ Tick
    BY <1>2, <2>3, SurroundingsKeep
  <2>4. ASSUME NEW w \in Workers, Claim(w) \/ WorkerStep(w)
        PROVE  AccountInv'
    BY <1>2, <2>4, WorkerKeeps
  <2>5. ASSUME NEW o \in Operators, StartLogin(o) \/ LoadLogin(o)
        PROVE  AccountInv'
    BY <1>2, <2>5, LoginKeeps
  <2>6. ASSUME NEW u \in Users,
               UserStep(u) \/ Heartbeat(u) \/ HeartbeatFails(u) \/ StorageError(u) \/ Crash(u)
        PROVE  AccountInv'
    BY <1>2, <2>6, LeaseKeeps, LoginKeeps, ReplaceKeeps DEF UserStep
  <2> QED
    BY <1>2, <2>1, <2>2, <2>3, <2>4, <2>5, <2>6 DEF Next
<1> QED
  BY <1>1, <1>2, PTL DEF Spec

\* Only a replacement changes the credentials of an account that stays.
LEMMA OnlyReplaceWrites ==
    ASSUME AccountInv, [Next]_vars,
           account.state # "absent", account'.state # "absent",
           account'.stamp # account.stamp
    PROVE  \E u \in Users : Replace(u)
<1>1. ~UNCHANGED account
  OBVIOUS
<1>2. ~(OperatorStep \/ DeleteGoesOn)
  <2>1. ~(Provision \/ DeleteRow \/ DeleteFails)
    BY DEF Provision, DeleteRow, DeleteFails
  <2>2. ASSUME NEW disabled \in BOOLEAN PROVE ~(ImportPlaceholder(disabled) \/ SetDisabled(disabled))
    BY DEF ImportPlaceholder, SetDisabled, AccountInv, AccountTypeOK, Row
  <2>3. ~DeleteGoesOn
    <3>1. ~DeleteLease
      BY <1>1 DEF DeleteLease
    <3>2. ~DeleteCommit
      BY DEF DeleteCommit, NoRow
    <3> QED
      BY <3>1, <3>2 DEF DeleteGoesOn
  <2> QED
    BY <2>1, <2>2, <2>3 DEF OperatorStep
<1>3. ~Tick
  BY DEF Tick, AccountInv, AccountTypeOK, Row
<1>4. ~(GateSource \/ EnqueueRefresh \/ JobLeaseLost)
  BY <1>1 DEF GateSource, EnqueueRefresh, JobLeaseLost
<1>5. ASSUME NEW w \in Workers
      PROVE  ~(Claim(w) \/ WorkerStep(w))
  BY <1>1 DEF Claim, WorkerStep, CheckRefresh, LoadRefresh, ExchangeGranted,
              ExchangeUnavailable, ExchangeRefused, Report
<1>6. ASSUME NEW o \in Operators
      PROVE  ~(StartLogin(o) \/ LoadLogin(o))
  BY <1>1 DEF StartLogin, LoadLogin
<1>7. ASSUME NEW u \in Users
      PROVE  ~(Heartbeat(u) \/ HeartbeatFails(u) \/ StorageError(u) \/ Crash(u))
  BY <1>1 DEF Heartbeat, HeartbeatFails, StorageError, Crash
<1>8. ASSUME NEW u \in Users, UserStep(u)
      PROVE  Replace(u)
  BY <1>1, <1>8 DEF UserStep, Acquire, AccountBusy, LeaseAlreadyLost, Conflict, Release
<1> QED
  BY <1>1, <1>2, <1>3, <1>4, <1>5, <1>6, <1>7, <1>8 DEF Next, vars

\* Stored credentials are replaced only by a refresh or a login that read them:
\* CredentialRepository::replace and enroll_placeholder never lose an update,
\* not even across a deletion that starts the version over, unless the pass took its
\* lease and read the row while that deletion was between its look for a lease and
\* its commit.
THEOREM ReplacesWhatItRead == Spec => NoStaleOverwrite
<1>1. ASSUME AccountInv, [Next]_vars
      PROVE  ReplaceStep
  <2> SUFFICES ASSUME account.state # "absent", account'.state # "absent",
                      account'.stamp # account.stamp
               PROVE  \E u \in Users :
                          /\ pass[u].pc = "commit" /\ pass'[u].pc = "release"
                          /\ \/ pass[u].stamp = account.stamp
                             \/ pass[u].doomed /\ account.version = 1
    BY DEF ReplaceStep
  <2>1. PICK u \in Users : Replace(u)
    BY <1>1, OnlyReplaceWrites
  <2>2. pass[u].pc = "commit" /\ lease.holder = u
    BY <2>1 DEF Replace, CanReplace, Owns
  <2>3. \/ pass[u].stamp = account.stamp
        \/ pass[u].doomed /\ account.version = 1
    BY <1>1, <2>2 DEF AccountInv, SnapshotFresh, Fresh
  <2>4. AccountTypeOK /\ Conclude(u, "release", "succeeded")
    BY <1>1, <2>1 DEF AccountInv, Replace
  <2>5. pass'[u].pc = "release"
    BY <2>4, ConcludeStep DEF Verdicts
  <2> QED
    BY <2>2, <2>3, <2>5
<1> QED
  BY <1>1, AccountInvariant, PTL DEF Spec, NoStaleOverwrite

\* The gate of the account's source reopens only onto an account that acquisition
\* accepts (resume_authentication_gated_sources in replace, enroll_placeholder,
\* set_disabled and the configuration import).
THEOREM GateOpensOnlyUsable == Spec => GateOpensUsable
<1>1. ASSUME [Next]_vars
      PROVE  GateStep
  <2> SUFFICES ASSUME gated, ~gated' PROVE Usable(account')
    BY DEF GateStep
  <2>1. ~UNCHANGED gated
    OBVIOUS
  <2>2. CASE OperatorStep
    <3>1. PICK disabled \in BOOLEAN : SetDisabled(disabled)
      BY <2>1, <2>2 DEF OperatorStep, Provision, ImportPlaceholder, DeleteRow, DeleteFails
    <3> QED
      BY <2>1, <3>1 DEF SetDisabled, Resume
  <2>3. ASSUME NEW u \in Users, UserStep(u)
        PROVE  Usable(account')
    <3>1. Replace(u)
      BY <2>1, <2>3 DEF UserStep, Acquire, AccountBusy, LeaseAlreadyLost, Conflict, Release
    <3> QED
      BY <2>1, <3>1 DEF Replace, Resume
  <2>4. ~(GateSource \/ EnqueueRefresh \/ JobLeaseLost \/ Tick \/ DeleteGoesOn)
    BY <2>1 DEF GateSource, EnqueueRefresh, JobLeaseLost, Tick, DeleteGoesOn,
                DeleteLease, DeleteCommit
  <2>5. ASSUME NEW w \in Workers
        PROVE  ~(Claim(w) \/ WorkerStep(w))
    BY <2>1 DEF Claim, WorkerStep, CheckRefresh, LoadRefresh, ExchangeGranted,
                ExchangeUnavailable, ExchangeRefused, Report
  <2>6. ASSUME NEW o \in Operators
        PROVE  ~(StartLogin(o) \/ LoadLogin(o))
    BY <2>1 DEF StartLogin, LoadLogin
  <2>7. ASSUME NEW u \in Users
        PROVE  ~(Heartbeat(u) \/ HeartbeatFails(u) \/ StorageError(u) \/ Crash(u))
    BY <2>1 DEF Heartbeat, HeartbeatFails, StorageError, Crash
  <2> QED
    BY <1>1, <2>1, <2>2, <2>3, <2>4, <2>5, <2>6, <2>7 DEF Next, vars
<1> QED
  BY <1>1, PTL DEF Spec, GateOpensUsable

-----------------------------------------------------------------------------
(* QR logins. *)

\* A request that goes on, with or without an answer, keeps its attempt, and the
\* others stay where they are.
LEMMA RequestMoves ==
    ASSUME QrTypeOK, NEW r \in Requests, NEW pc \in Steps, NEW answer \in Answers,
           Answer(r, pc, answer) \/ (GoOn(r, pc) /\ answer = request[r].answer)
    PROVE  /\ request' \in [Requests -> RequestRecord]
           /\ request'[r].pc = pc /\ request'[r].answer = answer
           /\ request'[r].attempt = request[r].attempt
           /\ \A q \in Requests \ {r} : request'[q] = request[q]
<1>1. request[r] \in RequestRecord
  BY DEF QrTypeOK
<1>2. [request[r] EXCEPT !.pc = pc, !.answer = answer] \in RequestRecord
  BY <1>1 DEF RequestRecord
<1>3. CASE Answer(r, pc, answer)
  BY <1>1, <1>2, <1>3 DEF QrTypeOK, Answer, RequestRecord
<1>4. CASE GoOn(r, pc) /\ answer = request[r].answer
  BY <1>1, <1>4 DEF QrTypeOK, GoOn, RequestRecord
<1> QED
  BY <1>3, <1>4

\* Pruning and removing keep the capacity.
LEMMA CapacityShrinks ==
    ASSUME CapacityKept, attempts' \subseteq attempts
    PROVE  CapacityKept'
<1>1. IsFiniteSet(attempts') /\ Cardinality(attempts') <= Cardinality(attempts)
  BY FS_Subset DEF CapacityKept
<1>2. Cardinality(attempts) \in Nat /\ Cardinality(attempts') \in Nat
  BY <1>1, FS_CardinalityType DEF CapacityKept
<1> QED
  BY <1>1, <1>2, QrBoundsAssumption DEF CapacityKept

\* The four parts of the invariant after a step in which one request moves, the map
\* only shrinks, and the attempt's lock is given back by a request that stops asking.
LEMMA MovingKeeps ==
    ASSUME QrInv, NEW r \in Requests, NEW pc \in Steps \ {"new", "insert", "current"},
           NEW answer \in Answers,
           Answer(r, pc, answer) \/ (GoOn(r, pc) /\ answer = request[r].answer),
           request[r].pc \notin {"new", "done"},
           request[r].pc \in {"capacity", "begin"} => pc \in {"begin", "done"},
           pc = "upstream" => request[r].pc = "current",
           IF request[r].pc \in {"current", "upstream"} /\ pc # "upstream"
           THEN Unlock(request[r].attempt) ELSE UNCHANGED locked,
           attempts' \subseteq attempts, jars' \subseteq drawn,
           pc \in {"release", "abandon"} \/ (pc = "done" /\ answer \in Consuming) => request[r].attempt \notin attempts',
           UNCHANGED <<now, expires, drawn>>
    PROVE  QrInv'
<1>a. /\ request' \in [Requests -> RequestRecord]
      /\ request'[r].pc = pc /\ request'[r].answer = answer
      /\ request'[r].attempt = request[r].attempt
      /\ \A q \in Requests \ {r} : request'[q] = request[q]
  BY RequestMoves DEF QrInv
<1>b. request[r] \in RequestRecord
  BY DEF QrInv, QrTypeOK
<1>1. QrTypeOK'
  <2>1. locked' \in [Attempts -> Requests \cup {NoRequest}]
    BY DEF QrInv, QrTypeOK, Unlock
  <2> QED
    BY <1>a, <1>b, <2>1 DEF QrInv, QrTypeOK, RequestRecord
<1>2. LockHeldByAsker'
  <2> SUFFICES ASSUME NEW a \in Attempts, NEW q \in Requests
               PROVE  locked'[a] = q <=> /\ request'[q].attempt = a
                                         /\ request'[q].pc \in {"current", "upstream"}
    BY DEF LockHeldByAsker
  <2>1. locked[a] = q <=> /\ request[q].attempt = a
                          /\ request[q].pc \in {"current", "upstream"}
    BY DEF QrInv, LockHeldByAsker
  <2>2. locked[a] = r <=> /\ request[r].attempt = a
                          /\ request[r].pc \in {"current", "upstream"}
    BY DEF QrInv, LockHeldByAsker
  <2>3. NoRequest \notin Requests /\ locked \in [Attempts -> Requests \cup {NoRequest}]
    BY QrNamesAssumption DEF QrInv, QrTypeOK
  <2>4. CASE request[r].pc \in {"current", "upstream"} /\ pc # "upstream"
    BY <1>a, <2>1, <2>2, <2>3, <2>4 DEF Unlock
  <2>5. CASE ~(request[r].pc \in {"current", "upstream"} /\ pc # "upstream")
    BY <1>a, <2>1, <2>2, <2>3, <2>5
  <2> QED
    BY <2>4, <2>5
<1>3. CapacityKept'
  BY CapacityShrinks DEF QrInv
<1>4. ConsumedIsOut'
  <2>1. ASSUME NEW q \in Requests, (HasConsumed(q) \/ request[q].pc \in {"release", "abandon"})'
        PROVE  request'[q].attempt \notin attempts'
    BY <1>a, <2>1 DEF QrInv, ConsumedIsOut, HasConsumed
  <2>2. ASSUME NEW q \in Requests, request'[q].pc = "insert"
        PROVE  /\ request'[q].attempt \notin attempts'
               /\ \A p \in Requests \ {q} : request'[p].attempt = request'[q].attempt =>
                      request'[p].pc = "done" /\ ~HasConsumed(p)'
    <3>1. q # r /\ request'[q] = request[q]
      BY <1>a, <2>2
    <3>2. request[r].attempt # request[q].attempt
      BY <2>2, <3>1 DEF QrInv, ConsumedIsOut
    <3> QED
      BY <1>a, <2>2, <3>1, <3>2 DEF QrInv, ConsumedIsOut, HasConsumed
  <2> QED
    BY <2>1, <2>2 DEF ConsumedIsOut
<1> QED
  BY <1>1, <1>2, <1>3, <1>4 DEF QrInv

-----------------------------------------------------------------------------
(* start_at *)

\* start_at prunes the map.
LEMMA StartKeeps ==
    ASSUME QrInv, NEW r \in Requests, Start(r)
    PROVE  QrInv'
<1>a. request[r] \in RequestRecord
  BY DEF QrInv, QrTypeOK
<1>1. QrTypeOK'
  BY <1>a, QrNamesAssumption, QrBoundsAssumption DEF QrInv, QrTypeOK, RequestRecord, Steps, Answers, Start, Prunable
<1>2. LockHeldByAsker'
  BY <1>a, QrNamesAssumption DEF QrInv, QrTypeOK, LockHeldByAsker, RequestRecord, Start, Prunable
<1>3. CapacityKept'
  BY CapacityShrinks DEF QrInv, Start
<1>4. ConsumedIsOut'
  BY <1>a, QrNamesAssumption DEF QrInv, QrTypeOK, ConsumedIsOut, HasConsumed, Consuming, RequestRecord, Start, Prunable
<1> QED
  BY <1>1, <1>2, <1>3, <1>4 DEF QrInv

\* The first look at the capacity only lets a start go on or not.
LEMMA CheckCapacityKeeps ==
    ASSUME QrInv, NEW r \in Requests, CheckCapacity(r)
    PROVE  QrInv'
<1>1. CASE Cardinality(attempts) >= MaxActive
  BY <1>1, MovingKeeps DEF CheckCapacity, Steps, Answers, Consuming, QrInv, QrTypeOK
<1>2. CASE ~(Cardinality(attempts) >= MaxActive)
  <2>1. request[r].answer \in Answers
    BY DEF QrInv, QrTypeOK, RequestRecord
  <2> QED
    BY <1>2, <2>1, MovingKeeps DEF CheckCapacity, Steps, QrInv, QrTypeOK
<1> QED
  BY <1>1, <1>2

\* A start whose challenge cannot be created ends.
LEMMA BeginFailsKeeps ==
    ASSUME QrInv, NEW r \in Requests, BeginFails(r)
    PROVE  QrInv'
  BY MovingKeeps DEF BeginFails, Steps, Answers, Consuming, QrInv, QrTypeOK

\* A challenge is fresh: no request has its attempt, and the map does not either.
LEMMA BeginKeeps ==
    ASSUME QrInv, NEW r \in Requests, NEW a \in Attempts, Begin(r, a)
    PROVE  QrInv'
<1>a. request[r] \in RequestRecord
  BY DEF QrInv, QrTypeOK
<1>b. /\ request' \in [Requests -> RequestRecord]
      /\ request'[r].pc = "insert" /\ request'[r].attempt = a
      /\ \A q \in Requests \ {r} : request'[q] = request[q]
  BY <1>a DEF QrInv, QrTypeOK, RequestRecord, Steps, Begin
<1>c. a \notin attempts /\ \A q \in Requests : request[q].attempt # a
  BY QrNamesAssumption DEF QrInv, QrTypeOK, Begin
<1>d. attempts' \subseteq attempts /\ jars' \subseteq jars \cup {a} /\ drawn' = drawn \cup {a}
  BY DEF Begin
<1>1. QrTypeOK'
  <2>1. expires' \in [Attempts -> Nat]
    BY <1>a, QrBoundsAssumption DEF QrInv, QrTypeOK, RequestRecord, Begin
  <2> QED
    BY <1>b, <1>d, <2>1 DEF QrInv, QrTypeOK, Begin
<1>2. LockHeldByAsker'
  BY <1>b, <1>c DEF QrInv, LockHeldByAsker, Begin
<1>3. CapacityKept'
  BY <1>d, CapacityShrinks DEF QrInv
<1>4. ConsumedIsOut'
  BY <1>b, <1>c, <1>d DEF QrInv, ConsumedIsOut, HasConsumed
<1> QED
  BY <1>1, <1>2, <1>3, <1>4 DEF QrInv

\* The second look at the capacity decides: the map grows only where there is room.
LEMMA InsertKeeps ==
    ASSUME QrInv, NEW r \in Requests, Insert(r)
    PROVE  QrInv'
<1>1. CASE Cardinality(attempts) >= MaxActive
  BY <1>1, MovingKeeps DEF Insert, Steps, Answers, QrInv, QrTypeOK, ConsumedIsOut
<1>2. CASE ~(Cardinality(attempts) >= MaxActive)
  <2> DEFINE a == request[r].attempt
  <2>a. attempts' = attempts \cup {a} /\ Answer(r, "done", "started") /\ request[r].pc = "insert"
    BY <1>2 DEF Insert
  <2>b. /\ request' \in [Requests -> RequestRecord]
        /\ request'[r].pc = "done" /\ request'[r].answer = "started"
        /\ request'[r].attempt = a
        /\ \A q \in Requests \ {r} : request'[q] = request[q]
    BY <2>a, RequestMoves DEF QrInv, Steps, Answers
  <2>c. UNCHANGED <<now, expires, locked, jars, drawn>>
    BY DEF Insert
  <2>1. QrTypeOK'
    BY <2>a, <2>b, <2>c DEF QrInv, QrTypeOK
  <2>2. LockHeldByAsker'
    BY <2>a, <2>b, <2>c DEF QrInv, LockHeldByAsker
  <2>3. CapacityKept'
    <3>1. IsFiniteSet(attempts) /\ Cardinality(attempts) \in Nat
      BY FS_CardinalityType DEF QrInv, CapacityKept
    <3>2. IsFiniteSet(attempts') /\ Cardinality(attempts') <= Cardinality(attempts) + 1
      <4>1. /\ IsFiniteSet(attempts \cup {a})
            /\ Cardinality(attempts \cup {a}) =
                 IF a \in attempts THEN Cardinality(attempts) ELSE Cardinality(attempts) + 1
        BY <3>1, FS_AddElement
      <4> QED
        BY <2>a, <3>1, <4>1
    <3>3. Cardinality(attempts') \in Nat
      BY <3>2, FS_CardinalityType
    <3> QED
      BY <1>2, <3>1, <3>2, <3>3, QrBoundsAssumption DEF CapacityKept
  <2>4. ConsumedIsOut'
    BY <2>a, <2>b DEF QrInv, ConsumedIsOut, HasConsumed, Consuming
  <2> QED
    BY <2>1, <2>2, <2>3, <2>4 DEF QrInv
<1> QED
  BY <1>1, <1>2

\* A challenge without a place is forgotten.
LEMMA AbandonKeeps ==
    ASSUME QrInv, NEW r \in Requests, Abandon(r)
    PROVE  QrInv'
<1>1. request[r].answer \in Answers /\ jars \subseteq drawn /\ request[r].attempt \notin attempts
  BY DEF QrInv, QrTypeOK, RequestRecord, ConsumedIsOut, Abandon
<1> QED
  BY <1>1, MovingKeeps DEF Abandon, Steps

-----------------------------------------------------------------------------
(* poll_at_with_clock and cancel_at *)

\* A look-up finds an attempt of the map, or ends.
LEMMA LookUpKeeps ==
    ASSUME QrInv, NEW r \in Requests, NEW a \in Attempts, NEW op \in Ops, LookUp(r, a, op)
    PROVE  QrInv'
<1>a. request[r] \in RequestRecord
  BY DEF QrInv, QrTypeOK
<1>1. QrTypeOK'
  BY <1>a, QrNamesAssumption, QrBoundsAssumption DEF QrInv, QrTypeOK, RequestRecord, Steps, Answers, LookUp, Ops
<1>2. LockHeldByAsker'
  BY <1>a, QrNamesAssumption DEF QrInv, QrTypeOK, LockHeldByAsker, RequestRecord, LookUp, Ops
<1>3. CapacityKept'
  BY DEF QrInv, CapacityKept, LookUp
<1>4. ConsumedIsOut'
  BY <1>a, QrNamesAssumption DEF QrInv, QrTypeOK, ConsumedIsOut, HasConsumed, Consuming, RequestRecord, LookUp, Ops
<1> QED
  BY <1>1, <1>2, <1>3, <1>4 DEF QrInv

\* The lock of an attempt is taken by a request that then asks about it.
LEMMA LockKeeps ==
    ASSUME QrInv, NEW r \in Requests, Lock(r)
    PROVE  QrInv'
<1>a. request[r] \in RequestRecord
  BY DEF QrInv, QrTypeOK
<1>1. QrTypeOK'
  BY <1>a, QrNamesAssumption, QrBoundsAssumption DEF QrInv, QrTypeOK, RequestRecord, Steps, Answers, Lock, GoOn
<1>2. LockHeldByAsker'
  BY <1>a, QrNamesAssumption DEF QrInv, QrTypeOK, LockHeldByAsker, RequestRecord, Lock, GoOn
<1>3. CapacityKept'
  BY DEF QrInv, CapacityKept, Lock
<1>4. ConsumedIsOut'
  BY <1>a, QrNamesAssumption DEF QrInv, QrTypeOK, ConsumedIsOut, HasConsumed, Consuming, RequestRecord, Lock, GoOn
<1> QED
  BY <1>1, <1>2, <1>3, <1>4 DEF QrInv

\* A request that finds its attempt gone or past its deadline gives the lock back.
LEMMA CheckCurrentKeeps ==
    ASSUME QrInv, NEW r \in Requests, CheckCurrent(r)
    PROVE  QrInv'
<1> DEFINE a == request[r].attempt
<1>a. request[r].answer \in Answers
  BY DEF QrInv, QrTypeOK, RequestRecord
<1>b. request[r].pc = "current" /\ UNCHANGED <<now, attempts, expires, jars, drawn>> /\ jars \subseteq drawn
  BY DEF CheckCurrent, QrInv, QrTypeOK
<1>1. CASE a \notin attempts /\ Answer(r, "done", "not_found") /\ Unlock(a)
  BY <1>1, <1>b, MovingKeeps DEF Steps, Answers
<1>2. CASE Answer(r, "expire", "expired") /\ Unlock(a)
  BY <1>2, <1>b, MovingKeeps DEF Steps, Answers
<1>3. CASE GoOn(r, "upstream") /\ UNCHANGED locked
  BY <1>3, <1>a, <1>b, MovingKeeps DEF Steps
<1> QED
  BY <1>1, <1>2, <1>3 DEF CheckCurrent

\* A poll without an answer leaves the attempt in the map.
LEMMA PollFailsKeeps ==
    ASSUME QrInv, NEW r \in Requests, PollFails(r)
    PROVE  QrInv'
<1>1. jars' \subseteq drawn
  BY DEF PollFails, QrInv, QrTypeOK
<1> QED
  BY <1>1, MovingKeeps DEF PollFails, Steps, Answers, Consuming

\* An answer that consumes the attempt leads to its removal before the request ends.
LEMMA PollAnswersKeeps ==
    ASSUME QrInv, NEW r \in Requests, NEW answer \in {"waiting", "expired", "risk_controlled", "authenticated"}, PollAnswers(r, answer)
    PROVE  QrInv'
<1> DEFINE a == request[r].attempt
<1>a. jars' \subseteq drawn
  BY DEF PollAnswers, QrInv, QrTypeOK
<1>b. /\ request[r].pc = "upstream" /\ Unlock(a)
      /\ UNCHANGED <<now, attempts, expires, drawn>>
  BY DEF PollAnswers
<1>1. CASE expires[a] <= now
  <2>1. Answer(r, "expire", "expired")
    BY <1>1 DEF PollAnswers
  <2> QED
    BY <2>1, <1>a, <1>b, MovingKeeps DEF Steps, Answers
<1>2. CASE ~(expires[a] <= now) /\ answer = "waiting"
  <2>1. Answer(r, "done", "waiting")
    BY <1>2 DEF PollAnswers
  <2> QED
    BY <2>1, <1>a, <1>b, MovingKeeps DEF Steps, Answers, Consuming
<1>3. CASE ~(expires[a] <= now) /\ answer # "waiting"
  <2>1. Answer(r, "remove", answer)
    BY <1>3 DEF PollAnswers
  <2> QED
    BY <2>1, <1>a, <1>b, MovingKeeps DEF Steps, Answers
<1> QED
  BY <1>1, <1>2, <1>3

\* A cancellation too.
LEMMA CancelAnswersKeeps ==
    ASSUME QrInv, NEW r \in Requests, CancelAnswers(r)
    PROVE  QrInv'
<1>1. PICK answer \in {"expired", "cancelled"} : Answer(r, "remove", answer)
  BY DEF CancelAnswers
<1>2. jars' \subseteq drawn
  BY DEF CancelAnswers, QrInv, QrTypeOK
<1> QED
  BY <1>1, <1>2, MovingKeeps DEF CancelAnswers, Steps, Answers

\* A removed attempt is out of the map.
LEMMA RemoveKeeps ==
    ASSUME QrInv, NEW r \in Requests, Remove(r)
    PROVE  QrInv'
<1>1. request[r].answer \in Answers /\ jars \subseteq drawn
  BY DEF QrInv, QrTypeOK, RequestRecord
<1>2. CASE request[r].pc = "expire"
  BY <1>1, <1>2, MovingKeeps DEF Remove, Steps
<1>3. CASE request[r].pc = "remove"
  BY <1>1, <1>3, MovingKeeps DEF Remove, Steps
<1> QED
  BY <1>2, <1>3 DEF Remove

\* The attempt whose transport state is released is out already.
LEMMA ReleaseTransportKeeps ==
    ASSUME QrInv, NEW r \in Requests, ReleaseTransport(r)
    PROVE  QrInv'
<1>1. request[r].answer \in Answers /\ jars \subseteq drawn /\ request[r].attempt \notin attempts
  BY DEF QrInv, QrTypeOK, RequestRecord, ConsumedIsOut, ReleaseTransport
<1> QED
  BY <1>1, MovingKeeps DEF ReleaseTransport, Steps

\* A dropped request gives its lock back and has no answer.
LEMMA DisconnectKeeps ==
    ASSUME QrInv, NEW r \in Requests, Disconnect(r)
    PROVE  QrInv'
<1>a. request[r] \in RequestRecord
  BY DEF QrInv, QrTypeOK
<1>1. QrTypeOK'
  BY <1>a, QrNamesAssumption, QrBoundsAssumption DEF QrInv, QrTypeOK, RequestRecord, Steps, Answers, Disconnect, Answer
<1>2. LockHeldByAsker'
  BY <1>a, QrNamesAssumption DEF QrInv, QrTypeOK, LockHeldByAsker, RequestRecord, Disconnect, Answer
<1>3. CapacityKept'
  BY DEF QrInv, CapacityKept, Disconnect
<1>4. ConsumedIsOut'
  BY <1>a, QrNamesAssumption DEF QrInv, QrTypeOK, ConsumedIsOut, HasConsumed, Consuming, RequestRecord, Disconnect, Answer
<1> QED
  BY <1>1, <1>2, <1>3, <1>4 DEF QrInv

-----------------------------------------------------------------------------
(* The theorems. *)

\* Every step of the process keeps the invariant.
LEMMA QrStep ==
    ASSUME QrInv, [QrNext]_qrVars
    PROVE  QrInv'
<1>1. ASSUME NEW r \in Requests, Step(r) PROVE QrInv'
  BY <1>1, CheckCapacityKeeps, BeginFailsKeeps, BeginKeeps, InsertKeeps, AbandonKeeps,
     CheckCurrentKeeps, PollFailsKeeps, CancelAnswersKeeps, PollAnswersKeeps, RemoveKeeps,
     ReleaseTransportKeeps DEF Step
<1>2. CASE QrTick
  BY <1>2 DEF QrTick, QrInv, QrTypeOK, LockHeldByAsker, CapacityKept, ConsumedIsOut, HasConsumed
<1>3. CASE UNCHANGED qrVars
  BY <1>3 DEF qrVars, QrInv, QrTypeOK, LockHeldByAsker, CapacityKept, ConsumedIsOut, HasConsumed
<1> QED
  BY <1>1, <1>2, <1>3, StartKeeps, LookUpKeeps, LockKeeps, DisconnectKeeps DEF QrNext

\* The capacity of the map, the ownership of every attempt's lock and the fate of
\* consumed attempts (start_at, poll_at_with_clock, cancel_at) hold in every state.
THEOREM QrInvariant == QrSpec => []QrInv
<1>1. QrInit => QrInv
  <2> SUFFICES ASSUME QrInit PROVE QrInv
    OBVIOUS
  <2>1. QrTypeOK /\ LockHeldByAsker
    BY QrNamesAssumption DEF QrInit, QrTypeOK, LockHeldByAsker, RequestRecord, Steps, Answers
  <2>2. CapacityKept
    BY FS_EmptySet, QrBoundsAssumption DEF QrInit, CapacityKept
  <2>3. ConsumedIsOut
    BY DEF QrInit, ConsumedIsOut, HasConsumed
  <2> QED
    BY <2>1, <2>2, <2>3 DEF QrInv
<1>2. QrInv /\ [QrNext]_qrVars => QrInv'
  BY QrStep
<1> QED
  BY <1>1, <1>2, PTL DEF QrSpec

\* A poll or a cancellation that comes after an answer that ended the attempt never
\* gets as far as its lock (the look-up of poll_at_with_clock and cancel_at).
THEOREM ConsumedNeverFound == QrSpec => ConsumedStaysConsumed
<1>1. QrInv /\ [QrNext]_qrVars => LookUpStep
  <2> SUFFICES ASSUME QrInv, [QrNext]_qrVars, NEW r \in Requests,
                      request[r].pc = "new", request'[r].pc = "lock",
                      NEW q \in Requests, HasConsumed(q),
                      request[q].attempt = request'[r].attempt
               PROVE  FALSE
    BY DEF LookUpStep
  <2>1. \E a \in Attempts, op \in Ops : LookUp(r, a, op)
    <3> USE DEF QrInv, QrTypeOK
    <3>1. ~UNCHANGED qrVars /\ ~QrTick
      BY DEF qrVars, QrTick
    <3>2. ASSUME NEW p \in Requests, Start(p) \/ Lock(p) \/ Disconnect(p) PROVE FALSE
      <4>1. CASE Start(p)
        BY <4>1 DEF Start
      <4>2. CASE Lock(p)
        BY <4>2 DEF Lock, GoOn
      <4>3. CASE Disconnect(p)
        BY <4>3 DEF Disconnect, Answer
      <4> QED
        BY <3>2, <4>1, <4>2, <4>3
    <3>3. ASSUME NEW p \in Requests, CheckCapacity(p) \/ BeginFails(p) \/ (\E a \in Attempts : Begin(p, a))
                                      \/ Insert(p) \/ Abandon(p)
          PROVE  FALSE
      BY <3>3 DEF CheckCapacity, BeginFails, Begin, Insert, Abandon, Answer, GoOn
    <3>4. ASSUME NEW p \in Requests, CheckCurrent(p) \/ PollFails(p) \/ CancelAnswers(p)
          PROVE  FALSE
      BY <3>4 DEF CheckCurrent, PollFails, CancelAnswers, Answer, GoOn
    <3>5. ASSUME NEW p \in Requests, NEW answer, PollAnswers(p, answer)
          PROVE  FALSE
      BY <3>5 DEF PollAnswers, Answer
    <3>6. ASSUME NEW p \in Requests, Remove(p) \/ ReleaseTransport(p)
          PROVE  FALSE
      BY <3>6 DEF Remove, ReleaseTransport, GoOn
    <3>7. ASSUME NEW p \in Requests, NEW a \in Attempts, NEW op \in Ops, LookUp(p, a, op)
          PROVE  p = r
      BY <3>7 DEF LookUp
    <3> QED
      BY <3>1, <3>2, <3>3, <3>4, <3>5, <3>6, <3>7 DEF QrNext, Step
  <2>2. request'[r].attempt \in attempts
    BY <2>1 DEF LookUp, QrInv, QrTypeOK
  <2> QED
    BY <2>2 DEF QrInv, ConsumedIsOut
<1> QED
  BY <1>1, QrInvariant, PTL DEF QrSpec, ConsumedStaysConsumed
=============================================================================
