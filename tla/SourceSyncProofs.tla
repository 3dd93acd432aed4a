-------------------------- MODULE SourceSyncProofs --------------------------
(***************************************************************************)
(* The inductive invariant of SourceSync and what follows from it, for any *)
(* number of workers, any budget, any times and any number of faults.      *)
(*                                                                         *)
(* Three lemmas cover most steps of a handler: it moves on, it ends its    *)
(* pass, or its final transaction commits.                                 *)
(***************************************************************************)
EXTENDS SourceSync, TLAPS

\* The records steps leave in job and pass are of their types.
LEMMA RecordTypes ==
    /\ NoJob \in JobRecord /\ NewJob \in JobRecord /\ IdlePass \in PassRecord
    /\ NoJob.status = "none" /\ NoJob.holder = NoWorker /\ NoJob.failures = 0
    /\ NewJob.status = "queued" /\ NewJob.holder = NoWorker /\ NewJob.failures = 0
    /\ IdlePass.pc = "idle"
BY DEF NoJob, NewJob, JobRecord, IdlePass, PassRecord, Waiting

\* A claim that is charged to the budget leaves nobody holding the job.
LEMMA SpendOK ==
    ASSUME job \in JobRecord, NEW status \in Waiting, NEW at \in Nat
    PROVE  /\ Spend(status, at) \in JobRecord
           /\ Spend(status, at).holder = NoWorker
           /\ Spend(status, at).status # "running"
           /\ Spend(status, at).failures < MaxAttempts
<1>1. job.failures \in Nat
  BY DEF JobRecord
<1>2. CASE job.failures + 1 >= MaxAttempts
  BY <1>2, RecordTypes, SyncAttemptsAssumption DEF Spend
<1>3. CASE ~(job.failures + 1 >= MaxAttempts)
  BY <1>1, <1>3, SyncAttemptsAssumption DEF Spend, JobRecord, Waiting
<1> QED BY <1>2, <1>3

\* A handler that goes on to its next step.
LEMMA PassMoved ==
    ASSUME SyncInv, NEW w \in Workers, NEW p \in PassRecord,
           pass' = [pass EXCEPT ![w] = p],
           pass[w].pc # "idle", p.pc # "idle",
           w \in open => p.pc \in DuringRun \/ (p.pc = "apply" /\ faults' > 0),
           p.pc = "fail" => p.result \in Failures,
           faults' \in Nat, faults' >= faults,
           UNCHANGED <<source, job, open, abandoned, clock, stopped>>
    PROVE  SyncInv'
<1>1. faults \in Nat /\ pass \in [Workers -> PassRecord] /\ open \subseteq Workers
  BY DEF SyncInv, SyncTypeOK
<1>2. SyncTypeOK'
  BY <1>1 DEF SyncInv, SyncTypeOK
<1>3. StoppedIdle' /\ DeletedIdle'
  BY DEF SyncInv, StoppedIdle, DeletedIdle
<1>4. RunsClosed'
  BY <1>1 DEF SyncInv, RunsClosed
<1>5. faults' = 0 => faults = 0
  BY <1>1
<1>6. PassesLinked'
  <2>1. ASSUME NEW v \in Workers
        PROVE  pass'[v] = IF v = w THEN p ELSE pass[v]
    BY <1>1
  <2>2. \A v \in Workers : job'.holder = v => job'.status = "running" /\ pass'[v].pc # "idle"
    BY <2>1 DEF SyncInv, PassesLinked
  <2>3. \A v \in open' : pass'[v].pc \in DuringRun \cup {"apply"}
    BY <1>1, <2>1 DEF SyncInv, PassesLinked
  <2>4. faults' = 0 => \A v \in open' : pass'[v].pc # "apply"
    BY <1>1, <1>5, <2>1 DEF SyncInv, PassesLinked, DuringRun
  <2>5. faults' = 0 /\ source'.state = "present" =>
            \A v \in Workers : pass'[v].pc # "idle" => Holds(v)'
    BY <1>5, <2>1 DEF SyncInv, PassesLinked, Holds
  <2>6. source'.state # "absent"
    BY DEF SyncInv, PassesLinked
  <2>7. \A v \in Workers : pass'[v].pc = "fail" => pass'[v].result \in Failures
    BY <2>1 DEF SyncInv, PassesLinked
  <2>8. job'.failures < MaxAttempts
    BY DEF SyncInv, PassesLinked
  <2> QED BY <2>2, <2>3, <2>4, <2>5, <2>6, <2>7, <2>8 DEF PassesLinked
<1> QED BY <1>2, <1>3, <1>4, <1>6 DEF SyncInv

\* A pass that ends, by its own outcome or without one.
LEMMA PassEnded ==
    ASSUME SyncInv, NEW w \in Workers, EndPass(w), pass[w].pc # "idle",
           w \in open => faults' > 0,
           faults' \in Nat, faults' >= faults,
           \/ job' = job /\ ~Holds(w)
           \/ Holds(w) /\ job' \in JobRecord /\ job'.holder = NoWorker /\ job'.failures < MaxAttempts,
           UNCHANGED <<source, clock, stopped>>
    PROVE  SyncInv'
<1>1. /\ faults \in Nat /\ pass \in [Workers -> PassRecord] /\ open \subseteq Workers
      /\ abandoned \in BOOLEAN /\ job \in JobRecord
  BY DEF SyncInv, SyncTypeOK
<1>2. /\ pass' = [pass EXCEPT ![w] = IdlePass]
      /\ open' = open \ {w}
      /\ abandoned' = (abandoned \/ w \in open)
      /\ abandoned' \in BOOLEAN
  <2>1. [IdlePass EXCEPT !.pc = "idle"] = IdlePass
    BY DEF IdlePass
  <2>2. abandoned' \in BOOLEAN
    BY Zenon DEF EndPass
  <2> QED BY <2>1, <2>2, Zenon DEF EndPass, Goto
<1>3. job' \in JobRecord /\ job'.failures < MaxAttempts
  BY <1>1 DEF SyncInv, PassesLinked
<1>4. SyncTypeOK'
  BY <1>1, <1>2, <1>3, RecordTypes DEF SyncInv, SyncTypeOK
<1>5. job.status = "none" => job' = job
  BY DEF Holds
<1>6. StoppedIdle'
  BY <1>5 DEF SyncInv, StoppedIdle
<1>7. DeletedIdle'
  BY <1>2, <1>5 DEF SyncInv, DeletedIdle
<1>8. RunsClosed'
  BY <1>1, <1>2 DEF SyncInv, RunsClosed
<1>9. faults' = 0 => faults = 0
  BY <1>1
<1>10. PassesLinked'
  <2>1. ASSUME NEW v \in Workers
        PROVE  pass'[v] = IF v = w THEN IdlePass ELSE pass[v]
    BY <1>1, <1>2
  <2>2. \A v \in Workers : job'.holder = v => job'.status = "running" /\ pass'[v].pc # "idle"
    BY <2>1, SyncWorkersAssumption DEF SyncInv, PassesLinked, Holds
  <2>3. \A v \in open' : pass'[v].pc \in DuringRun \cup {"apply"}
    BY <1>1, <1>2, <2>1 DEF SyncInv, PassesLinked
  <2>4. faults' = 0 => \A v \in open' : pass'[v].pc # "apply"
    BY <1>1, <1>2, <1>9, <2>1 DEF SyncInv, PassesLinked
  <2>5. ASSUME faults' = 0, source'.state = "present", NEW v \in Workers, pass'[v].pc # "idle"
        PROVE  Holds(v)'
    <3>1. v # w /\ pass[v].pc # "idle"
      BY <2>1, <2>5, RecordTypes
    <3>2. Holds(v)
      BY <1>9, <2>5, <3>1 DEF SyncInv, PassesLinked
    <3>3. job' = job
      BY <3>1, <3>2 DEF Holds
    <3> QED BY <3>2, <3>3 DEF Holds
  <2>6. source'.state # "absent"
    BY DEF SyncInv, PassesLinked
  <2>7. \A v \in Workers : pass'[v].pc = "fail" => pass'[v].result \in Failures
    BY <2>1, RecordTypes DEF SyncInv, PassesLinked
  <2> QED BY <1>3, <2>2, <2>3, <2>4, <2>5, <2>6, <2>7 DEF PassesLinked
<1> QED BY <1>4, <1>6, <1>7, <1>8, <1>10 DEF SyncInv

\* A final transaction that commits ends the claim and closes the run.
LEMMA RunFinished ==
    ASSUME SyncInv, NEW w \in Workers, NEW p \in PassRecord, CanCommit(w),
           pass' = [pass EXCEPT ![w] = p],
           p.pc = "idle" \/ (p.pc = "fail" /\ p.result \in Failures /\ faults' > 0),
           open' = open \ {w}, abandoned' = abandoned, clock' = clock,
           faults' \in Nat, faults' >= faults,
           source' \in SourceRow, source'.state = "present",
           job' \in JobRecord, job'.holder = NoWorker, job'.failures < MaxAttempts,
           stopped' \in BOOLEAN,
           stopped' => source'.gate # "ready" /\ job'.status = "none"
    PROVE  SyncInv'
<1>1. faults \in Nat /\ pass \in [Workers -> PassRecord] /\ open \subseteq Workers
  BY DEF SyncInv, SyncTypeOK
<1>2. SyncTypeOK'
  BY <1>1 DEF SyncInv, SyncTypeOK
<1>3. StoppedIdle' /\ DeletedIdle'
  BY DEF StoppedIdle, DeletedIdle
<1>4. RunsClosed'
  BY <1>1 DEF SyncInv, RunsClosed
<1>5. faults' = 0 => faults = 0
  BY <1>1
<1>6. PassesLinked'
  <2>1. ASSUME NEW v \in Workers
        PROVE  pass'[v] = IF v = w THEN p ELSE pass[v]
    BY <1>1
  <2>2. \A v \in Workers : job'.holder # v
    BY SyncWorkersAssumption
  <2>3. \A v \in open' : pass'[v].pc \in DuringRun \cup {"apply"}
    BY <1>1, <2>1 DEF SyncInv, PassesLinked
  <2>4. faults' = 0 => \A v \in open' : pass'[v].pc # "apply"
    BY <1>1, <1>5, <2>1 DEF SyncInv, PassesLinked
  <2>5. ASSUME faults' = 0, NEW v \in Workers
        PROVE  pass'[v].pc = "idle"
    <3>1. faults = 0 /\ p.pc = "idle"
      BY <1>1, <1>5, <2>5
    <3>2. pass[v].pc # "idle" => v = w
      BY <3>1 DEF SyncInv, PassesLinked, CanCommit, Holds
    <3> QED BY <2>1, <3>1, <3>2
  <2>6. \A v \in Workers : pass'[v].pc = "fail" => pass'[v].result \in Failures
    BY <2>1 DEF SyncInv, PassesLinked
  <2> QED BY <2>2, <2>3, <2>4, <2>5, <2>6 DEF PassesLinked
<1> QED BY <1>2, <1>3, <1>4, <1>6 DEF SyncInv

\* Nothing is there at the start.
LEMMA InitInv == Init => SyncInv
<1> SUFFICES ASSUME Init
             PROVE  SyncInv
  OBVIOUS
<1>1. SyncTypeOK
  BY RecordTypes DEF Init, SyncTypeOK, SourceRow, Gates
<1>2. StoppedIdle /\ DeletedIdle /\ RunsClosed
  BY RecordTypes DEF Init, StoppedIdle, DeletedIdle, RunsClosed
<1>3. PassesLinked
  BY RecordTypes, SyncWorkersAssumption, SyncAttemptsAssumption DEF Init, PassesLinked
<1> QED BY <1>1, <1>2, <1>3 DEF SyncInv

\* The operator changes the row; a creation finds no handlers and a deletion takes
\* the job and the runs away from the ones there are.
LEMMA OperatorStep ==
    ASSUME SyncInv, Operator
    PROVE  SyncInv'
<1>1. /\ source \in SourceRow /\ job \in JobRecord /\ pass \in [Workers -> PassRecord]
      /\ open \subseteq Workers /\ faults \in Nat
  BY DEF SyncInv, SyncTypeOK
<1>2. ASSUME NEW enabled \in BOOLEAN, CreateSource(enabled)
      PROVE  SyncInv'
  <2>1. job.status = "none" /\ open = {} /\ ~stopped /\ \A w \in Workers : pass[w].pc = "idle"
    BY <1>2 DEF CreateSource, SyncInv, DeletedIdle, PassesLinked
  <2>2. job' \in JobRecord /\ (job' = job \/ job' = NewJob)
    BY <1>1, <1>2, RecordTypes DEF CreateSource
  <2>3. SyncTypeOK'
    BY <1>1, <1>2, <2>2 DEF CreateSource, SyncInv, SyncTypeOK, SourceRow
  <2>4. StoppedIdle' /\ DeletedIdle' /\ RunsClosed'
    BY <1>1, <1>2, <2>1 DEF CreateSource, SyncInv, StoppedIdle, DeletedIdle, RunsClosed, SourceRow
  <2>5. job'.failures < MaxAttempts /\ \A w \in Workers : job'.holder # w
    BY <2>1, <2>2, RecordTypes, SyncAttemptsAssumption, SyncWorkersAssumption
       DEF SyncInv, PassesLinked
  <2>6. PassesLinked'
    BY <1>1, <1>2, <2>1, <2>5 DEF CreateSource, PassesLinked, SourceRow
  <2> QED BY <2>3, <2>4, <2>6 DEF SyncInv
<1>3. ASSUME NEW enabled \in BOOLEAN, SetEnabled(enabled)
      PROVE  SyncInv'
  <2>1. source' \in SourceRow /\ source'.state = source.state /\ source'.gate = source.gate
    BY <1>1, <1>3 DEF SetEnabled, SourceRow
  <2> QED BY <1>3, <2>1 DEF SetEnabled, SyncInv, SyncTypeOK, StoppedIdle, DeletedIdle,
                            RunsClosed, PassesLinked, Holds
<1>4. ASSUME NEW gate \in Gates, SetGate(gate)
      PROVE  SyncInv'
  <2>1. source' \in SourceRow /\ source'.state = source.state
    BY <1>1, <1>4 DEF SetGate, SourceRow
  <2> QED BY <1>4, <2>1 DEF SetGate, SyncInv, SyncTypeOK, StoppedIdle, DeletedIdle,
                            RunsClosed, PassesLinked, Holds
<1>5. ASSUME ResumeAuthentication
      PROVE  SyncInv'
  <2>1. source' \in SourceRow /\ source'.state = source.state
    BY <1>1, <1>5 DEF ResumeAuthentication, SourceRow, Gates
  <2> QED BY <1>5, <2>1 DEF ResumeAuthentication, SyncInv, SyncTypeOK, StoppedIdle, DeletedIdle,
                            RunsClosed, PassesLinked, Holds
<1>6. ASSUME DeleteSource
      PROVE  SyncInv'
  <2>1. source' \in SourceRow /\ source'.state = "deleted"
    BY <1>1, <1>6 DEF DeleteSource, SourceRow
  <2>2. SyncTypeOK'
    BY <1>6, <2>1, RecordTypes DEF DeleteSource, SyncInv, SyncTypeOK
  <2>3. StoppedIdle' /\ DeletedIdle' /\ RunsClosed'
    BY <1>6, RecordTypes DEF DeleteSource, StoppedIdle, DeletedIdle, RunsClosed
  <2>4. PassesLinked'
    BY <1>6, <2>1, RecordTypes, SyncWorkersAssumption, SyncAttemptsAssumption
       DEF DeleteSource, SyncInv, PassesLinked
  <2> QED BY <2>2, <2>3, <2>4 DEF SyncInv
<1> QED BY <1>2, <1>3, <1>4, <1>5, <1>6 DEF Operator

\* A new job has no holder, and the source it is for exists and is not stopped.
LEMMA EnqueueStep ==
    ASSUME SyncInv, EnqueueDueSources
    PROVE  SyncInv'
<1>1. source \in SourceRow /\ job.status = "none" /\ source.state = "present" /\ ~stopped
  BY DEF EnqueueDueSources, Due, SyncInv, SyncTypeOK, StoppedIdle
<1>2. source' \in SourceRow /\ source'.state = "present"
  BY <1>1, SyncTimesAssumption DEF EnqueueDueSources, SourceRow
<1>3. SyncTypeOK'
  BY <1>2, RecordTypes DEF EnqueueDueSources, SyncInv, SyncTypeOK
<1>4. StoppedIdle' /\ DeletedIdle' /\ RunsClosed'
  BY <1>1, <1>2 DEF EnqueueDueSources, SyncInv, StoppedIdle, DeletedIdle, RunsClosed
<1>5. PassesLinked'
  BY <1>1, <1>2, RecordTypes, SyncWorkersAssumption, SyncAttemptsAssumption
     DEF EnqueueDueSources, SyncInv, PassesLinked, Holds
<1> QED BY <1>3, <1>4, <1>5 DEF SyncInv

\* A waiting job belongs to a source that exists, and without a fault no other pass
\* is under way when it is claimed.
LEMMA ClaimStep ==
    ASSUME SyncInv, NEW w \in Workers, Claim(w)
    PROVE  SyncInv'
<1>1. /\ job \in JobRecord /\ pass \in [Workers -> PassRecord] /\ open \subseteq Workers
      /\ job.status \in Waiting /\ pass[w].pc = "idle"
  BY DEF Claim, SyncInv, SyncTypeOK
<1>2. source.state = "present" /\ ~stopped
  BY <1>1 DEF SyncInv, DeletedIdle, StoppedIdle, Waiting
<1> DEFINE p == [IdlePass EXCEPT !.pc = "start"]
<1>3. p \in PassRecord /\ p.pc = "start"
  BY DEF IdlePass, PassRecord, BeforeRun
<1>4. pass' = [pass EXCEPT ![w] = p]
  BY DEF Claim, Goto
<1>5. /\ job' \in JobRecord /\ job'.status = "running" /\ job'.holder = w
      /\ job'.failures = job.failures
  BY <1>1 DEF Claim, JobRecord
<1>6. SyncTypeOK'
  BY <1>1, <1>3, <1>4, <1>5 DEF Claim, SyncInv, SyncTypeOK
<1>7. StoppedIdle' /\ DeletedIdle' /\ RunsClosed'
  BY <1>2 DEF Claim, SyncInv, StoppedIdle, DeletedIdle, RunsClosed
<1>8. ASSUME NEW v \in Workers
      PROVE  pass'[v] = IF v = w THEN p ELSE pass[v]
  BY <1>1, <1>4
<1>9. w \notin open
  BY <1>1 DEF SyncInv, PassesLinked, DuringRun
<1>10. PassesLinked'
  <2>1. \A v \in Workers : job'.holder = v => job'.status = "running" /\ pass'[v].pc # "idle"
    BY <1>3, <1>5, <1>8
  <2>2. \A v \in open' : pass'[v].pc \in DuringRun \cup {"apply"}
    BY <1>1, <1>8, <1>9 DEF Claim, SyncInv, PassesLinked
  <2>3. faults' = 0 => \A v \in open' : pass'[v].pc # "apply"
    BY <1>1, <1>8, <1>9 DEF Claim, SyncInv, PassesLinked
  <2>4. ASSUME faults' = 0, NEW v \in Workers, pass'[v].pc # "idle"
        PROVE  v = w
    BY <1>1, <1>2, <1>8, <2>4 DEF Claim, SyncInv, PassesLinked, Holds, Waiting
  <2>5. faults' = 0 => \A v \in Workers : pass'[v].pc # "idle" => Holds(v)'
    BY <1>5, <2>4 DEF Holds
  <2>6. \A v \in Workers : pass'[v].pc = "fail" => pass'[v].result \in Failures
    BY <1>3, <1>8 DEF SyncInv, PassesLinked
  <2>7. source'.state = "present" /\ job'.failures < MaxAttempts
    BY <1>2, <1>5 DEF Claim, SyncInv, PassesLinked
  <2> QED BY <2>1, <2>2, <2>3, <2>5, <2>6, <2>7 DEF PassesLinked
<1> QED BY <1>6, <1>7, <1>10 DEF SyncInv

\* The records Goto, GotoFail and GotoApply leave.
LEMMA GotoOK ==
    ASSUME NEW w \in Workers
    PROVE  /\ \A pc \in {"find", "open", "list", "fetch", "persist", "fail", "idle"} :
                 Goto(w, pc) => \E p \in PassRecord :
                    pass' = [pass EXCEPT ![w] = p] /\ p.pc = pc
           /\ \A class \in Failures : GotoFail(w, class) => \E p \in PassRecord :
                 pass' = [pass EXCEPT ![w] = p] /\ p.pc = "fail" /\ p.result = class
           /\ \A outcome \in Outcomes, at \in Nat : GotoApply(w, outcome, at) =>
                 \E p \in PassRecord : pass' = [pass EXCEPT ![w] = p] /\ p.pc = "apply"
<1>1. ASSUME NEW pc \in {"find", "open", "list", "fetch", "persist", "fail", "idle"}, Goto(w, pc)
      PROVE  \E p \in PassRecord : pass' = [pass EXCEPT ![w] = p] /\ p.pc = pc
  <2> DEFINE p == [IdlePass EXCEPT !.pc = pc]
  <2>1. p \in PassRecord /\ p.pc = pc
    BY DEF IdlePass, PassRecord, BeforeRun, DuringRun
  <2> QED BY <1>1, <2>1 DEF Goto
<1>2. ASSUME NEW class \in Failures, GotoFail(w, class)
      PROVE  \E p \in PassRecord :
                pass' = [pass EXCEPT ![w] = p] /\ p.pc = "fail" /\ p.result = class
  <2> DEFINE p == [pc |-> "fail", result |-> class, at |-> 0]
  <2>1. p \in PassRecord
    BY DEF PassRecord, DuringRun
  <2> QED BY <1>2, <2>1 DEF GotoFail
<1>3. ASSUME NEW outcome \in Outcomes, NEW at \in Nat, GotoApply(w, outcome, at)
      PROVE  \E p \in PassRecord : pass' = [pass EXCEPT ![w] = p] /\ p.pc = "apply"
  <2> DEFINE p == [pc |-> "apply", result |-> outcome, at |-> at]
  <2>1. p \in PassRecord
    BY DEF PassRecord
  <2> QED BY <1>3, <2>1 DEF GotoApply
<1> QED BY <1>1, <1>2, <1>3

\* The steps before the sync_runs row is there.
LEMMA BeforeRunStep ==
    ASSUME SyncInv, NEW w \in Workers, NEW at \in Nat,
           CheckQuiet(w) \/ FindSource(w) \/ StartRefused(w, at)
    PROVE  SyncInv'
<1>1. w \notin open /\ pass[w].pc # "idle" /\ faults \in Nat
  BY DEF SyncInv, SyncTypeOK, PassesLinked, DuringRun, CheckQuiet, FindSource, StartRefused
<1>2. Quiet => QuietLeft \in Nat
  BY DayAssumption DEF Quiet, QuietLeft, SyncInv, SyncTypeOK
<1>3. PICK p \in PassRecord : pass' = [pass EXCEPT ![w] = p] /\ p.pc \in {"find", "open", "apply"}
  <2>1. CASE CheckQuiet(w)
    BY <1>2, <2>1, GotoOK DEF CheckQuiet, Outcomes
  <2>2. CASE FindSource(w)
    BY <2>2, GotoOK DEF FindSource, Outcomes
  <2>3. CASE StartRefused(w, at)
    BY <2>3, GotoOK DEF StartRefused, Outcomes
  <2> QED BY <2>1, <2>2, <2>3
<1>4. UNCHANGED <<source, job, open, abandoned, clock, stopped, faults>>
  BY DEF CheckQuiet, FindSource, StartRefused
<1>5. w \in open => p.pc \in DuringRun \/ (p.pc = "apply" /\ faults' > 0)
  BY <1>1
<1>6. /\ p.pc # "idle" /\ pass[w].pc # "idle"
      /\ p.pc = "fail" => p.result \in Failures
      /\ faults' \in Nat /\ faults' >= faults
  BY <1>1, <1>3, <1>4
<1> QED BY <1>3, <1>4, <1>5, <1>6, PassMoved

\* start_run opens the row of a pass that, without a fault, holds the claim.
LEMMA StartRunStep ==
    ASSUME SyncInv, NEW w \in Workers, StartRun(w)
    PROVE  SyncInv'
<1>1. pass \in [Workers -> PassRecord] /\ open \subseteq Workers /\ pass[w].pc = "open"
  BY DEF StartRun, SyncInv, SyncTypeOK
<1>2. PICK p \in PassRecord : pass' = [pass EXCEPT ![w] = p] /\ p.pc = "list"
  BY GotoOK DEF StartRun
<1>3. SyncTypeOK'
  BY <1>1, <1>2 DEF StartRun, SyncInv, SyncTypeOK
<1>4. StoppedIdle' /\ DeletedIdle' /\ RunsClosed'
  BY DEF StartRun, SyncInv, StoppedIdle, DeletedIdle, RunsClosed
<1>5. ASSUME NEW v \in Workers
      PROVE  pass'[v] = IF v = w THEN p ELSE pass[v]
  BY <1>1, <1>2
<1>6. PassesLinked'
  <2>1. \A v \in Workers : job'.holder = v => job'.status = "running" /\ pass'[v].pc # "idle"
    BY <1>2, <1>5 DEF StartRun, SyncInv, PassesLinked
  <2>2. \A v \in open' : pass'[v].pc \in DuringRun \cup {"apply"}
    BY <1>1, <1>2, <1>5 DEF StartRun, SyncInv, PassesLinked, DuringRun
  <2>3. faults' = 0 => \A v \in open' : pass'[v].pc # "apply"
    BY <1>1, <1>2, <1>5 DEF StartRun, SyncInv, PassesLinked
  <2>4. faults' = 0 => \A v \in Workers : pass'[v].pc # "idle" => Holds(v)'
    BY <1>1, <1>5 DEF StartRun, SyncInv, PassesLinked, Holds
  <2>5. \A v \in Workers : pass'[v].pc = "fail" => pass'[v].result \in Failures
    BY <1>2, <1>5 DEF SyncInv, PassesLinked
  <2>6. source'.state = "present" /\ job'.failures < MaxAttempts
    BY DEF StartRun, SyncInv, PassesLinked
  <2> QED BY <2>1, <2>2, <2>3, <2>4, <2>5, <2>6 DEF PassesLinked
<1> QED BY <1>3, <1>4, <1>6 DEF SyncInv

\* The upstream steps, and a success that may not commit, go on to another step of
\* the run.
LEMMA DuringRunStep ==
    ASSUME SyncInv, NEW w \in Workers, NEW class \in Failures,
           \/ ListReferences(w) \/ ListFails(w, class) \/ FetchArticles(w)
           \/ FetchFails(w, class) \/ PersistRefused(w)
    PROVE  SyncInv'
<1>1. faults \in Nat /\ pass[w].pc # "idle"
  BY DEF SyncInv, SyncTypeOK, ListReferences, ListFails, FetchArticles, FetchFails, PersistRefused
<1>2. UNCHANGED <<source, job, open, abandoned, clock, stopped, faults>>
  BY DEF ListReferences, ListFails, FetchArticles, FetchFails, PersistRefused
<1>3. PICK p \in PassRecord :
          /\ pass' = [pass EXCEPT ![w] = p]
          /\ p.pc \in DuringRun
          /\ p.pc = "fail" => p.result \in Failures
  <2>1. CASE ListReferences(w)
    BY <2>1, GotoOK DEF ListReferences, DuringRun
  <2>2. CASE ListFails(w, class)
    BY <2>2, GotoOK DEF ListFails, DuringRun
  <2>3. CASE FetchArticles(w)
    <3> DEFINE p == [pc |-> "persist", result |-> "none", at |-> SyncFor]
    <3>1. p \in PassRecord
      BY SyncTimesAssumption DEF PassRecord, DuringRun
    <3> QED BY <2>3, <3>1 DEF FetchArticles, DuringRun
  <2>4. CASE FetchFails(w, class)
    BY <2>4, GotoOK DEF FetchFails, DuringRun
  <2>5. CASE PersistRefused(w)
    <3>1. "retryable" \in Failures
      BY DEF Failures
    <3> QED BY <2>5, <3>1, GotoOK DEF PersistRefused, DuringRun
  <2> QED BY <2>1, <2>2, <2>3, <2>4, <2>5
<1>4. w \in open => p.pc \in DuringRun \/ (p.pc = "apply" /\ faults' > 0)
  BY <1>3
<1>5. /\ p.pc # "idle" /\ pass[w].pc # "idle"
      /\ p.pc = "fail" => p.result \in Failures
      /\ faults' \in Nat /\ faults' >= faults
  BY <1>1, <1>2, <1>3 DEF DuringRun
<1> QED BY <1>2, <1>3, <1>4, <1>5, PassMoved

\* Without a fault only a deletion can refuse the final transaction, and it has taken
\* the run away as well.
LEMMA FinishRefusedStep ==
    ASSUME SyncInv, NEW w \in Workers, NEW at \in Nat, FinishRefused(w, at)
    PROVE  SyncInv'
<1>1. faults \in Nat /\ pass[w].pc = "fail"
  BY DEF FinishRefused, SyncInv, SyncTypeOK
<1>2. w \in open => faults > 0
  <2>1. ASSUME w \in open, faults = 0
        PROVE  FALSE
    <3>1. source.state = "present"
      BY <2>1 DEF SyncInv, DeletedIdle
    <3>2. Holds(w)
      BY <1>1, <2>1, <3>1 DEF SyncInv, PassesLinked
    <3> QED BY <2>1, <3>1, <3>2 DEF FinishRefused, CanCommit
  <2> QED BY <1>1, <2>1
<1>3. PICK p \in PassRecord : pass' = [pass EXCEPT ![w] = p] /\ p.pc = "apply"
  BY GotoOK DEF FinishRefused, Outcomes
<1>4. UNCHANGED <<source, job, open, abandoned, clock, stopped, faults>>
  BY DEF FinishRefused
<1>5. w \in open => p.pc \in DuringRun \/ (p.pc = "apply" /\ faults' > 0)
  BY <1>2, <1>3, <1>4
<1>6. /\ p.pc # "idle" /\ pass[w].pc # "idle"
      /\ p.pc = "fail" => p.result \in Failures
      /\ faults' \in Nat /\ faults' >= faults
  BY <1>1, <1>3, <1>4
<1> QED BY <1>3, <1>4, <1>5, <1>6, PassMoved

\* A storage error or the execution timeout is a fault; the pass goes on.
LEMMA ErrorStep ==
    ASSUME SyncInv, NEW w \in Workers, NEW at \in Nat, StorageError(w, at) \/ Timeout(w)
    PROVE  SyncInv'
<1>1. faults \in Nat /\ faults' = faults + 1
  BY DEF SyncInv, SyncTypeOK, StorageError, Timeout, Faulty
<1>2. pass[w].pc # "idle"
  BY DEF StorageError, Timeout, BeforeRun, DuringRun
<1>3. UNCHANGED <<source, job, open, abandoned, clock, stopped>>
  BY DEF StorageError, Timeout
<1>4. PICK p \in PassRecord :
          /\ pass' = [pass EXCEPT ![w] = p]
          /\ p.pc = "apply" \/ (p.pc = "fail" /\ p.result \in Failures)
  <2>1. "retryable" \in Failures /\ "retry" \in Outcomes
    BY DEF Failures, Outcomes
  <2>2. CASE StorageError(w, at)
    BY <2>1, <2>2, GotoOK DEF StorageError
  <2>3. CASE Timeout(w)
    BY <2>1, <2>3, GotoOK DEF Timeout
  <2> QED BY <2>2, <2>3
<1>5. w \in open => p.pc \in DuringRun \/ (p.pc = "apply" /\ faults' > 0)
  BY <1>1, <1>4 DEF DuringRun
<1>6. /\ p.pc # "idle" /\ pass[w].pc # "idle"
      /\ p.pc = "fail" => p.result \in Failures
      /\ faults' \in Nat /\ faults' >= faults
  BY <1>1, <1>2, <1>4
<1> QED BY <1>3, <1>4, <1>5, <1>6, PassMoved

\* persist_success, acknowledged or not, and finish_failed_run end the claim.
LEMMA CommitStep ==
    ASSUME SyncInv, NEW w \in Workers,
           PersistSuccess(w) \/ SuccessUnacknowledged(w) \/ FinishFailedRun(w)
    PROVE  SyncInv'
<1>1. /\ source \in SourceRow /\ job \in JobRecord /\ pass \in [Workers -> PassRecord]
      /\ stopped \in BOOLEAN /\ faults \in Nat
  BY DEF SyncInv, SyncTypeOK
<1>2. CanCommit(w) /\ source.state = "present" /\ ~stopped
  BY DEF PersistSuccess, SuccessUnacknowledged, FinishFailedRun, CanCommit, Holds,
         SyncInv, StoppedIdle
<1>3. ASSUME SuccessCommits(w)
      PROVE  /\ source' \in SourceRow /\ source'.state = "present"
             /\ job' \in JobRecord /\ job'.holder = NoWorker /\ job'.failures < MaxAttempts
             /\ open' = open \ {w} /\ abandoned' = abandoned /\ clock' = clock
             /\ stopped' \in BOOLEAN /\ ~stopped'
  <2>1. source' \in SourceRow /\ source'.state = "present"
    <3>1. pass[w].at \in Nat
      BY <1>1 DEF PassRecord
    <3> QED BY <1>1, <1>2, <1>3, <3>1 DEF SuccessCommits, SourceRow
  <2>2. job' \in JobRecord /\ job'.holder = NoWorker /\ job'.failures < MaxAttempts
    BY <1>3, RecordTypes, SyncAttemptsAssumption DEF SuccessCommits
  <2>3. stopped' \in BOOLEAN /\ ~stopped'
    BY <1>1, <1>2, <1>3, Zenon DEF SuccessCommits
  <2> QED BY <1>3, <2>1, <2>2, <2>3 DEF SuccessCommits
<1>4. CASE PersistSuccess(w)
  <2>1. PICK p \in PassRecord : pass' = [pass EXCEPT ![w] = p] /\ p.pc = "idle"
    BY <1>4, GotoOK DEF PersistSuccess
  <2>2. SuccessCommits(w) /\ faults' = faults
    BY <1>4 DEF PersistSuccess
  <2>3. faults' \in Nat /\ faults' >= faults
    BY <1>1, <2>2
  <2> QED BY <1>2, <1>3, <2>1, <2>2, <2>3, RunFinished
<1>5. CASE SuccessUnacknowledged(w)
  <2>1. PICK p \in PassRecord :
            pass' = [pass EXCEPT ![w] = p] /\ p.pc = "fail" /\ p.result \in Failures
    <3>1. "retryable" \in Failures
      BY DEF Failures
    <3> QED BY <1>5, <3>1, GotoOK DEF SuccessUnacknowledged
  <2>2. SuccessCommits(w) /\ faults' = faults + 1
    BY <1>5 DEF SuccessUnacknowledged
  <2>3. faults' \in Nat /\ faults' >= faults /\ faults' > 0
    BY <1>1, <2>2
  <2> QED BY <1>2, <1>3, <2>1, <2>2, <2>3, RunFinished
<1>6. CASE FinishFailedRun(w)
  <2>1. PICK p \in PassRecord : pass' = [pass EXCEPT ![w] = p] /\ p.pc = "idle"
    BY <1>6, GotoOK DEF FinishFailedRun
  <2>2. open' = open \ {w} /\ abandoned' = abandoned /\ clock' = clock /\ faults' = faults
    BY <1>6 DEF FinishFailedRun
  <2>3. source' \in SourceRow /\ source'.state = "present"
    <3>1. GateOf(pass[w].result) \in Gates
      BY DEF GateOf, Gates
    <3>2. CASE source' = [source EXCEPT !.gate = GateOf(pass[w].result), !.cooldown = 0,
                                        !.reserved = 0]
      BY <1>1, <1>2, <3>1, <3>2 DEF SourceRow
    <3>3. CASE source' = [source EXCEPT !.next = RetryFor, !.cooldown = CooldownFor,
                                        !.reserved = 0]
      BY <1>1, <1>2, <3>3, SyncTimesAssumption DEF SourceRow
    <3>4. CASE source' = [source EXCEPT !.next = SyncFor, !.cooldown = 0, !.reserved = 0]
      BY <1>1, <1>2, <3>4, SyncTimesAssumption DEF SourceRow
    <3> QED BY <1>6, <3>2, <3>3, <3>4 DEF FinishFailedRun
  <2>4. job' \in JobRecord /\ job'.holder = NoWorker /\ job'.failures < MaxAttempts
    <3>1. CASE job' = NoJob
      BY <3>1, RecordTypes, SyncAttemptsAssumption
    <3>2. CASE job' = Spend("retry_wait", RetryFor)
      BY <1>1, <3>2, SpendOK, SyncTimesAssumption DEF Waiting
    <3> QED BY <1>6, <3>1, <3>2 DEF FinishFailedRun
  <2>5. stopped' \in BOOLEAN
    BY <1>1, <1>6 DEF FinishFailedRun
  <2>6. stopped' => source'.gate # "ready" /\ job'.status = "none"
    <3>1. ASSUME stopped'
          PROVE  /\ source' = [source EXCEPT !.gate = GateOf(pass[w].result), !.cooldown = 0,
                                             !.reserved = 0]
                 /\ job' = NoJob
      BY <1>2, <1>6, <3>1, Zenon DEF FinishFailedRun
    <3>2. GateOf(pass[w].result) # "ready"
      BY DEF GateOf
    <3> QED BY <1>1, <3>1, <3>2, RecordTypes DEF SourceRow
  <2>7. faults' \in Nat /\ faults' >= faults
    BY <1>1, <2>2
  <2> QED BY <1>2, <2>1, <2>2, <2>3, <2>4, <2>5, <2>6, <2>7, RunFinished
<1> QED BY <1>4, <1>5, <1>6

\* An outcome, accepted or not, a lost heartbeat and a crash end the pass.
LEMMA EndStep ==
    ASSUME SyncInv, NEW w \in Workers,
           ApplyOutcome(w) \/ OutcomeRejected(w) \/ HeartbeatLost(w) \/ Crash(w)
    PROVE  SyncInv'
<1>1. /\ job \in JobRecord /\ pass \in [Workers -> PassRecord] /\ faults \in Nat
      /\ job.failures < MaxAttempts
  BY DEF SyncInv, SyncTypeOK, PassesLinked
<1>2. EndPass(w) /\ UNCHANGED <<source, clock, stopped>>
  BY DEF ApplyOutcome, OutcomeRejected, HeartbeatLost, Crash
<1>3. pass[w].pc # "idle"
  BY DEF ApplyOutcome, OutcomeRejected, HeartbeatLost, Crash, BeforeRun, DuringRun
<1>4. faults' \in Nat /\ faults' >= faults
  BY <1>1 DEF ApplyOutcome, OutcomeRejected, HeartbeatLost, Crash, Faulty
<1>5. w \in open => faults' > 0
  <2>1. CASE ApplyOutcome(w) \/ OutcomeRejected(w)
    BY <1>1, <2>1 DEF ApplyOutcome, OutcomeRejected, SyncInv, PassesLinked
  <2>2. CASE HeartbeatLost(w)
    <3>1. ASSUME w \in open, faults = 0
          PROVE  Holds(w)
      BY <1>3, <3>1 DEF SyncInv, DeletedIdle, PassesLinked
    <3> QED BY <1>1, <2>2, <3>1 DEF HeartbeatLost
  <2>3. CASE Crash(w)
    BY <1>1, <2>3 DEF Crash, Faulty
  <2> QED BY <2>1, <2>2, <2>3
<1>6. \/ job' = job /\ ~Holds(w)
      \/ Holds(w) /\ job' \in JobRecord /\ job'.holder = NoWorker /\ job'.failures < MaxAttempts
  <2>1. CASE ApplyOutcome(w)
    <3>1. pass[w].at \in Nat
      BY <1>1 DEF PassRecord
    <3>2. CASE job' = Spend("retry_wait", pass[w].at)
      BY <1>1, <2>1, <3>1, <3>2, SpendOK DEF ApplyOutcome, Waiting
    <3>3. CASE job' = [job EXCEPT !.status = "deferred", !.wait = pass[w].at, !.holder = NoWorker]
      BY <1>1, <2>1, <3>1, <3>3 DEF ApplyOutcome, JobRecord, Waiting
    <3>4. CASE job' = NoJob
      BY <2>1, <3>4, RecordTypes, SyncAttemptsAssumption DEF ApplyOutcome
    <3> QED BY <2>1, <3>2, <3>3, <3>4 DEF ApplyOutcome
  <2>2. CASE job' = LetGo(w)
    BY <1>1, <2>2 DEF LetGo, JobRecord
  <2>3. CASE HeartbeatLost(w)
    BY <2>3 DEF HeartbeatLost
  <2> QED BY <2>1, <2>2, <2>3 DEF OutcomeRejected, Crash
<1> QED BY <1>2, <1>3, <1>4, <1>5, <1>6, PassEnded

\* Recovery takes the claim from whoever had it; a pass that still runs has lost its
\* lease by a fault.
LEMMA RecoverStep ==
    ASSUME SyncInv, RecoverExpired \/ LeaseLost
    PROVE  SyncInv'
<1>1. job \in JobRecord /\ faults \in Nat /\ job.status = "running"
  BY DEF SyncInv, SyncTypeOK, RecoverExpired, LeaseLost
<1>2. /\ job' \in JobRecord /\ job'.holder = NoWorker /\ job'.failures < MaxAttempts
  BY <1>1, SpendOK DEF RecoverExpired, LeaseLost, Waiting
<1>3. UNCHANGED <<source, pass, open, abandoned, clock, stopped>>
  BY DEF RecoverExpired, LeaseLost
<1>4. faults' \in Nat /\ faults' >= faults
  BY <1>1 DEF RecoverExpired, LeaseLost, Faulty
<1>5. source.state = "present" /\ ~stopped
  BY <1>1 DEF SyncInv, DeletedIdle, StoppedIdle
<1>6. SyncTypeOK'
  BY <1>2, <1>3, <1>4 DEF SyncInv, SyncTypeOK
<1>7. StoppedIdle' /\ DeletedIdle' /\ RunsClosed'
  BY <1>1, <1>3, <1>4, <1>5 DEF SyncInv, StoppedIdle, DeletedIdle, RunsClosed
<1>8. ASSUME faults' = 0
      PROVE  \A w \in Workers : pass[w].pc = "idle"
  <2>1. faults = 0 /\ job.holder = NoWorker
    BY <1>1, <1>4, <1>8 DEF RecoverExpired, LeaseLost, Faulty
  <2> QED BY <1>5, <2>1, SyncWorkersAssumption DEF SyncInv, PassesLinked, Holds
<1>9. faults' = 0 => faults = 0
  BY <1>1, <1>4
<1>10. PassesLinked'
  BY <1>2, <1>3, <1>5, <1>8, <1>9, SyncWorkersAssumption DEF SyncInv, PassesLinked
<1> QED BY <1>6, <1>7, <1>10 DEF SyncInv

\* Time changes no status and no step.
LEMMA TickStep ==
    ASSUME SyncInv, Tick
    PROVE  SyncInv'
<1>1. /\ source \in SourceRow /\ job \in JobRecord /\ pass \in [Workers -> PassRecord]
      /\ clock \in 0 .. Day - 1
  BY DEF SyncInv, SyncTypeOK
<1>2. \A t \in Nat : Elapse(t) \in Nat
  BY DEF Elapse
<1>3. source' \in SourceRow /\ source'.state = source.state /\ source'.gate = source.gate
  BY <1>1, <1>2 DEF Tick, SourceRow
<1>4. /\ job' \in JobRecord /\ job'.status = job.status /\ job'.holder = job.holder
      /\ job'.failures = job.failures
  BY <1>1, <1>2 DEF Tick, JobRecord
<1>5. /\ pass' \in [Workers -> PassRecord]
      /\ \A w \in Workers : pass'[w].pc = pass[w].pc /\ pass'[w].result = pass[w].result
  <2>1. ASSUME NEW w \in Workers
        PROVE  /\ [pass[w] EXCEPT !.at = Elapse(@)] \in PassRecord
               /\ [pass[w] EXCEPT !.at = Elapse(@)].pc = pass[w].pc
               /\ [pass[w] EXCEPT !.at = Elapse(@)].result = pass[w].result
    BY <1>1, <1>2 DEF PassRecord
  <2> QED BY <2>1 DEF Tick
<1>6. clock' \in 0 .. Day - 1
  <2>1. clock' = IF clock + 1 = Day THEN 0 ELSE clock + 1
    BY DEF Tick
  <2>2. Day \in Nat /\ 0 < Day
    BY DayAssumption
  <2> QED BY <1>1, <2>1, <2>2
<1>7. SyncTypeOK'
  BY <1>3, <1>4, <1>5, <1>6 DEF Tick, SyncInv, SyncTypeOK
<1>8. StoppedIdle' /\ DeletedIdle' /\ RunsClosed'
  BY <1>3, <1>4 DEF Tick, SyncInv, StoppedIdle, DeletedIdle, RunsClosed
<1>9. open \subseteq Workers
  BY DEF SyncInv, SyncTypeOK
<1>10. PassesLinked'
  <2>1. open' = open /\ stopped' = stopped /\ faults' = faults
    BY DEF Tick
  <2>2. \A w \in Workers : job'.holder = w => job'.status = "running" /\ pass'[w].pc # "idle"
    BY <1>4, <1>5 DEF SyncInv, PassesLinked
  <2>3. \A w \in open' : pass'[w].pc \in DuringRun \cup {"apply"}
    BY <1>5, <1>9, <2>1 DEF SyncInv, PassesLinked
  <2>4. faults' = 0 => \A w \in open' : pass'[w].pc # "apply"
    BY <1>5, <1>9, <2>1 DEF SyncInv, PassesLinked
  <2>5. faults' = 0 /\ source'.state = "present" =>
            \A w \in Workers : pass'[w].pc # "idle" => Holds(w)'
    BY <1>3, <1>4, <1>5, <2>1 DEF SyncInv, PassesLinked, Holds
  <2>6. source'.state = "absent" => ~stopped' /\ \A w \in Workers : pass'[w].pc = "idle"
    BY <1>3, <1>5, <2>1 DEF SyncInv, PassesLinked
  <2>7. \A w \in Workers : pass'[w].pc = "fail" => pass'[w].result \in Failures
    BY <1>5 DEF SyncInv, PassesLinked
  <2>8. job'.failures < MaxAttempts
    BY <1>4 DEF SyncInv, PassesLinked
  <2> QED BY <2>2, <2>3, <2>4, <2>5, <2>6, <2>7, <2>8 DEF PassesLinked
<1> QED BY <1>7, <1>8, <1>10 DEF SyncInv

\* Every step of the operator, the scheduler, the workers, recovery, the faults and
\* the clock keeps the invariant.
LEMMA NextInv == SyncInv /\ [Next]_vars => SyncInv'
<1> SUFFICES ASSUME SyncInv, [Next]_vars
             PROVE  SyncInv'
  OBVIOUS
<1>1. RetryTimes \subseteq Nat
  BY SyncTimesAssumption DEF RetryTimes
<1>2. CASE Operator
  BY <1>2, OperatorStep
<1>3. CASE EnqueueDueSources
  BY <1>3, EnqueueStep
<1>4. ASSUME NEW w \in Workers, Claim(w) \/ HandlerStep(w) \/ HeartbeatLost(w)
      PROVE  SyncInv'
  <2>1. CASE Claim(w)
    BY <2>1, ClaimStep
  <2>2. CASE HandlerStep(w)
    BY <1>1, <2>2, BeforeRunStep, StartRunStep, DuringRunStep, FinishRefusedStep,
       CommitStep, EndStep, SMTT(60) DEF HandlerStep, Failures
  <2>3. CASE HeartbeatLost(w)
    BY <2>3, EndStep
  <2> QED BY <1>4, <2>1, <2>2, <2>3
<1>5. CASE RecoverExpired
  BY <1>5, RecoverStep
<1>6. CASE Fault
  BY <1>1, <1>6, ErrorStep, CommitStep, EndStep, RecoverStep DEF Fault
<1>7. CASE Tick
  BY <1>7, TickStep
<1>8. CASE UNCHANGED vars
  BY <1>8 DEF vars, SyncInv, SyncTypeOK, StoppedIdle, DeletedIdle, RunsClosed,
              PassesLinked, Holds
<1> QED BY <1>2, <1>3, <1>4, <1>5, <1>6, <1>7, <1>8 DEF Next

\* The inductive invariant of the synchronization holds for any number of workers,
\* whatever the operator, the faults and the clock do.
THEOREM SyncInvariant == Spec => []SyncInv
BY InitInv, NextInv, PTL DEF Spec

\* After an authentication, risk-control or blocked outcome nothing is asked of the
\* upstream service until the gate is touched (finish_failed_run and Due).
THEOREM StoppedStaysIdle == Spec => []StoppedIdle
<1>1. SyncInv => StoppedIdle
  BY DEF SyncInv
<1> QED BY <1>1, SyncInvariant, PTL

\* Nothing of a deleted source stays behind or comes back (SourceRepository::delete
\* against every late step of a handler).
THEOREM DeletedStaysIdle == Spec => []DeletedIdle
<1>1. SyncInv => DeletedIdle
  BY DEF SyncInv
<1> QED BY <1>1, SyncInvariant, PTL

\* Without a fault every sync_runs row is closed (start_run against every end of the
\* handler).
THEOREM RunsAreClosed == Spec => []RunsClosed
<1>1. SyncInv => RunsClosed
  BY DEF SyncInv
<1> QED BY <1>1, SyncInvariant, PTL

\* A step that moves the schedule ahead, or stops the source, ends the running claim.
LEMMA NextSchedule == SyncInv /\ [Next]_vars => [ScheduleStep]_vars
<1> SUFFICES ASSUME SyncInv, Next, source.state = "present",
                    source.next < source'.next \/ (~stopped /\ stopped')
             PROVE  job.status = "running" /\ job.holder # NoWorker /\ job'.status # "running"
  BY DEF ScheduleStep
<1>1. source \in SourceRow /\ job \in JobRecord /\ source.next \in Nat
  BY DEF SyncInv, SyncTypeOK, SourceRow
<1>2. ASSUME source'.next = source.next \/ source'.next = 0 \/ source'.next = Elapse(source.next),
             stopped' => stopped
      PROVE  FALSE
  <2>1. ~(source.next < source'.next)
    BY <1>1, <1>2 DEF Elapse
  <2> QED BY <1>2, <2>1
<1>3. ASSUME NEW w \in Workers, Holds(w), job' = NoJob \/ job' = Spend("retry_wait", RetryFor)
      PROVE  job.status = "running" /\ job.holder # NoWorker /\ job'.status # "running"
  <2>1. job'.status # "running"
    BY <1>1, <1>3, RecordTypes, SpendOK, SyncTimesAssumption DEF Waiting
  <2> QED BY <1>3, <2>1, SyncWorkersAssumption DEF Holds
<1>4. ASSUME Operator
      PROVE  FALSE
  <2>1. stopped' => stopped
    BY <1>4, Zenon DEF Operator, CreateSource, SetEnabled, SetGate, ResumeAuthentication,
                       DeleteSource
  <2>2. source'.next = source.next \/ source'.next = 0
    BY <1>1, <1>4 DEF Operator, CreateSource, SetEnabled, SetGate, ResumeAuthentication,
                      DeleteSource, SourceRow
  <2> QED BY <1>2, <2>1, <2>2
<1>5. ASSUME EnqueueDueSources
      PROVE  FALSE
  <2>1. source'.next = source.next /\ (stopped' => stopped)
    BY <1>1, <1>5 DEF EnqueueDueSources, SourceRow
  <2> QED BY <1>2, <2>1
<1>6. ASSUME Tick
      PROVE  FALSE
  <2>1. source'.next = Elapse(source.next) /\ (stopped' => stopped)
    BY <1>1, <1>6 DEF Tick, SourceRow
  <2> QED BY <1>2, <2>1
<1>7. ASSUME NEW w \in Workers,
             PersistSuccess(w) \/ SuccessUnacknowledged(w) \/ FinishFailedRun(w)
      PROVE  Holds(w) /\ (job' = NoJob \/ job' = Spend("retry_wait", RetryFor))
  BY <1>7 DEF PersistSuccess, SuccessUnacknowledged, FinishFailedRun, SuccessCommits, CanCommit
<1>8. ASSUME UNCHANGED <<source, stopped>>
      PROVE  FALSE
  BY <1>2, <1>8
<1>9. ASSUME NEW w \in Workers, Claim(w) \/ HandlerStep(w) \/ HeartbeatLost(w)
      PROVE  UNCHANGED <<source, stopped>> \/ PersistSuccess(w) \/ FinishFailedRun(w)
  BY <1>9, Zenon DEF Claim, HandlerStep, HeartbeatLost, CheckQuiet, FindSource, StartRun,
      ListReferences, FetchArticles, ListFails, FetchFails, PersistRefused, StartRefused,
      FinishRefused, ApplyOutcome, OutcomeRejected
<1>10. ASSUME Fault \/ RecoverExpired
       PROVE  UNCHANGED <<source, stopped>> \/ \E w \in Workers : SuccessUnacknowledged(w)
  BY <1>10, Zenon DEF Fault, StorageError, Timeout, Crash, LeaseLost, RecoverExpired
<1> QED BY <1>3, <1>4, <1>5, <1>6, <1>7, <1>8, <1>9, <1>10 DEF Next

\* No handler that lost its lease, and none whose commit was not acknowledged, moves
\* the schedule or closes the gate (the outcome in the transaction of finish_failed_run
\* and persist_success).
THEOREM StaleHandlersFenced == Spec => ScheduleFenced
BY SyncInvariant, NextSchedule, PTL DEF Spec, ScheduleFenced
=============================================================================
