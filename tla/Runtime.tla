------------------------------- MODULE Runtime -------------------------------
(***************************************************************************)
(* One process: its configuration, the tasks the supervisor starts, the    *)
(* worker loops, the browser-health monitor, and the ways it ends          *)
(* (application/runtime_supervisor.rs, runtime.rs, worker.rs,              *)
(* browser_health.rs, main.rs), over the browser sessions of               *)
(* BrowserSessions and the operators of Configuration.                     *)
(*                                                                         *)
(* What jobs do to the database is the subject of other modules; here a    *)
(* job is the sequence of browser sessions it opens.                       *)
(***************************************************************************)
EXTENDS Configuration, BrowserSessions

CONSTANTS
    Environments,  \* environments the process may be started in
    MaxFailures,   \* bound on the tasks that fail by themselves (a panic, a serve error)
    MaxCleanups    \* bound on the cleanups pending when a job is interrupted

ASSUME RuntimeConstants ==
    /\ Workers \cap {"maintenance", "api", "scheduler"} = {}
    /\ MaxFailures \in Nat
    /\ \A env \in Environments : \A v \in DOMAIN env.num : env.num[v] \in Nat

VARIABLES
    raw,       \* the environment, until nothing depends on it
    plan,      \* roles, archive and pool of the running process
    phase,     \* "loading", "planned", "starting", "running", "draining", "ended", "exited"
    todo,      \* tasks and components still to start
    result,    \* "ok", or what refused the configuration or ended the run
    task,      \* every task of the JoinSet
    worker,    \* the loop of every worker
    stop,      \* role_shutdown
    signal,    \* the external shutdown
    health,    \* the browser-health snapshot
    failures   \* tasks that failed so far

runtimeVars == <<raw, plan, phase, todo, result, task, worker, stop, signal, health, failures>>
vars == <<runtimeVars, sessionVars>>

Tasks == {"maintenance", "monitor", "api", "scheduler"} \cup Workers
NoPlan == [roles |-> {}, archive |-> FALSE, pool |-> 0]
NoRaw == [roles |-> {}]
Off == [at |-> "off", gate |-> FALSE, step |-> "none"]

\* A snapshot is "Ready" when the sidecar and its timezone are; all that is
\* less (Unknown, NotReady, Unavailable, Mismatch) gates the same jobs.
snapshot_for_result(check) == IF check = "Ready" THEN "Ready" ELSE "NotReady"
worker_ready == health = "Ready"

Components == {"maintenance", "monitor", "api", "scheduler", "worker"}
Loop == [at : {"off", "top", "claim", "exec", "wait"}, gate : BOOLEAN,
         step : {"none", "plain", "list", "article", "page", "fallback"}]

RuntimeTypeOK ==
    /\ phase \in {"loading", "planned", "starting", "running", "draining", "ended", "exited"}
    /\ task \in [Tasks -> {"none", "running", "exited", "failed", "aborted"}]
    /\ worker \in [Workers -> Loop] /\ todo \in Seq(Components)
    /\ stop \in BOOLEAN /\ signal \in BOOLEAN /\ failures \in 0 .. MaxFailures
    /\ health \in {"Ready", "NotReady"}

Init ==
    /\ raw \in Environments
    /\ plan = NoPlan /\ phase = "loading" /\ todo = <<>> /\ result = "ok"
    /\ task = [t \in Tasks |-> "none"]
    /\ worker = [w \in Workers |-> Off]
    /\ stop = FALSE /\ signal = FALSE /\ failures = 0
    /\ health = "NotReady"
    /\ free = 0 /\ SessionsInit

-----------------------------------------------------------------------------
(* Starting. *)

If(wanted, component) == IF wanted THEN <<component>> ELSE <<>>
ComponentOrder ==
    If("api" \in Roles(raw), "api") \o If("scheduler" \in Roles(raw), "scheduler") \o If("worker" \in Roles(raw), "worker")

\* main: the configuration, then the plan.
Load ==
    /\ phase = "loading"
    /\ \E refused \in {FirstFailure(Checks(raw) \o validated_plan(raw))} :
          /\ result' = refused
          /\ phase' = IF refused = "ok" THEN "planned" ELSE "ended"
    /\ UNCHANGED <<raw, plan, todo, task, worker, stop, signal, health, failures, sessionVars>>

\* Nothing in this environment is refused from here on: it is not needed any more.
Buildable(env) == \A c \in Roles(env) : build(env, FALSE, c) = "ok"

\* from_config: the database is connected and migrated, the browser pool and
\* the blob store are built; then run_until_signal starts the run.
Connected ==
    /\ phase = "planned"
    /\ \/ /\ \E error \in {"database"} \cup build_blob_store(raw) : result' = error
          /\ phase' = "ended" /\ UNCHANGED <<plan, todo, free>>
       \/ /\ phase' = "starting"
          /\ plan' = [roles |-> Roles(raw), archive |-> Archives(raw), pool |-> browser_pool_for_plan(raw)]
          /\ free' = plan'.pool
          /\ todo' = If(Archives(raw), "maintenance") \o If(plan'.pool > 0, "monitor") \o ComponentOrder
          /\ UNCHANGED result
    /\ raw' = IF Buildable(raw) THEN NoRaw ELSE raw
    /\ UNCHANGED <<task, worker, stop, signal, health, failures, ses, row, cleanups, sidecar>>

\* run_until_shutdown returns at once when the shutdown was requested before.
NotStarted ==
    /\ phase = "starting" /\ signal /\ \A t \in Tasks : task[t] = "none"
    /\ phase' = "ended" /\ todo' = <<>>
    /\ UNCHANGED <<raw, plan, result, task, worker, stop, signal, health, failures, sessionVars>>

Running == {t \in Tasks : task[t] = "running"}
Aborted(ts) == [t \in Tasks |-> IF t \in ts THEN "aborted" ELSE task[t]]
\* The tasks among ts end here and now; what they held is dropped.
Drop(ts) ==
    /\ Dropped(ts \cap Holders)
    /\ worker' = [w \in Workers |-> IF w \in ts THEN Off ELSE worker[w]]

Spawned(component) == IF component = "worker" THEN Workers ELSE {component}
Built(component) == IF raw = NoRaw \/ component \in {"maintenance", "monitor"} THEN "ok" ELSE build(raw, FALSE, component)

\* The next task is spawned; after the last one the supervisor waits. A listener that cannot be bound or a part that
\* cannot be built ends the run: the JoinSet is dropped with all its tasks.
Spawn ==
    /\ phase = "starting" /\ todo # <<>>
    /\ \E component \in {Head(todo)} : \E built \in {Built(component)} :
          \/ /\ built = "ok"
             /\ task' = [t \in Tasks |-> IF t \in Spawned(component) THEN "running" ELSE task[t]]
             /\ worker' = [w \in Workers |-> IF component = "worker" THEN [Off EXCEPT !.at = "top"] ELSE worker[w]]
             /\ todo' = Tail(todo) /\ phase' = IF Tail(todo) = <<>> THEN "running" ELSE phase
             /\ UNCHANGED <<result, sessionVars>>
          \/ /\ built # "ok" \/ component = "api"
             /\ result' \in (IF component = "api" THEN {"bind"} ELSE {}) \cup ({built} \ {"ok"})
             /\ phase' = "ended" /\ todo' = <<>>
             /\ task' = Aborted(Running) /\ Drop(Running) /\ UNCHANGED <<row, sidecar>>
    /\ UNCHANGED <<raw, plan, stop, signal, health, failures>>

-----------------------------------------------------------------------------
(* The supervisor. *)

\* ctrl_c.
Signal ==
    /\ phase \in {"starting", "running"} /\ ~signal
    /\ signal' = TRUE
    /\ UNCHANGED <<raw, plan, phase, todo, result, task, worker, stop, health, failures, sessionVars>>

Shutdown ==
    /\ phase = "running" /\ signal
    /\ stop' = TRUE /\ phase' = "draining"
    /\ UNCHANGED <<raw, plan, todo, result, task, worker, signal, health, failures, sessionVars>>

\* join_next: a task that ended, however, ends the run.
TaskJoined(t) ==
    /\ phase = "running" /\ task[t] \in {"exited", "failed"}
    /\ stop' = TRUE /\ phase' = "draining" /\ result' = "task"
    /\ task' = [task EXCEPT ![t] = "none"]
    /\ UNCHANGED <<raw, plan, todo, worker, signal, health, failures, sessionVars>>

\* drain_tasks: every task is joined; the first that failed ends the drain,
\* and the tasks still running are aborted with the JoinSet.
Drain ==
    /\ phase = "draining"
    /\ LET bad == {t \in Tasks : task[t] = "failed"}
       IN \/ Running = {} /\ bad = {} /\ UNCHANGED <<task, worker, result, sessionVars>>
          \/ /\ bad # {} /\ result' = "task"
             /\ task' = Aborted(Running) /\ Drop(Running) /\ UNCHANGED <<row, sidecar>>
    /\ phase' = "ended"
    /\ UNCHANGED <<raw, plan, todo, stop, signal, health, failures>>

\* main returns: cleanup tasks that are still pending end with the process.
Exit ==
    /\ phase = "ended" /\ phase' = "exited"
    /\ cleanups' = {}
    /\ row' = IF row.token \in cleanups THEN OtherLease ELSE row
    /\ UNCHANGED <<raw, plan, todo, result, task, worker, stop, signal, health, failures, free, ses, sidecar>>

-----------------------------------------------------------------------------
(* Tasks. *)

TaskEnds(t) ==
    /\ task[t] = "running" /\ stop
    /\ task' = [task EXCEPT ![t] = "exited"]
    /\ UNCHANGED <<raw, plan, phase, todo, result, worker, stop, signal, health, failures, sessionVars>>

\* The HTTP server finishes the requests it has accepted.
ServerStops == TaskEnds("api")
\* The scheduler sees the shutdown at the top of its loop and in its waits: a
\* pass in hand, successful or not, is finished first.
SchedulerStops == TaskEnds("scheduler")
\* So does the maintenance loop; the monitor sees it between two refreshes.
MaintenanceStops == TaskEnds("maintenance")
MonitorStops == ses["monitor"].stage = "idle" /\ TaskEnds("monitor")

\* A panic, or an error of axum::serve; it drops what the task holds.
TaskFails(t) ==
    /\ task[t] = "running" /\ failures < MaxFailures
    /\ failures' = failures + 1
    /\ task' = [task EXCEPT ![t] = "failed"] /\ Drop({t})
    /\ UNCHANGED <<raw, plan, phase, todo, result, stop, signal, health, row, sidecar>>

\* A tick of the monitor: sidecar_status first.
MonitorTick ==
    /\ task["monitor"] = "running" /\ ses["monitor"].stage = "idle"
    /\ StartProbe
    /\ UNCHANGED <<runtimeVars, free, row, cleanups, sidecar>>

Replace(check) == health' = snapshot_for_result(check)
\* The sidecar is not ready, or the probe's session ended: the snapshot is
\* replaced. A probe that found no permit leaves it alone.
Probe ==
    LET h == "monitor"
    IN /\ task[h] = "running"
       /\ \/ /\ ses[h].stage = "status" /\ "NotReady" \in sidecar_status
             /\ Replace("NotReady")
          \/ /\ ses[h].stage = "done"
             /\ Replace(IF ses[h].ok THEN "Ready" ELSE "Error")
       /\ ses' = [ses EXCEPT ![h] = NoSession]
       /\ UNCHANGED <<raw, plan, phase, todo, result, task, worker, stop, signal, failures, free, row, cleanups, sidecar>>

MonitorStep ==
    \/ MonitorTick \/ Probe
    \/ task["monitor"] = "running" /\ (TryPermit \/ SessionStep("monitor")) /\ UNCHANGED runtimeVars

-----------------------------------------------------------------------------
(* Workers. *)

Goes(w, at) == worker' = [worker EXCEPT ![w] = [Off EXCEPT !.at = at]]

LoopTopBlind(w) ==
    /\ worker[w].at = "top"
    /\ worker' = [worker EXCEPT ![w] = [Off EXCEPT !.at = "claim", !.gate = worker_ready]]
    /\ UNCHANGED <<raw, plan, phase, todo, result, task, stop, signal, health, failures, sessionVars>>

\* run_until_shutdown: the shutdown is seen at the top of the loop and in
\* its waits. A pass reads the browser health before it claims.
LoopTop(w) ==
    /\ worker[w].at = "top"
    /\ IF stop
       THEN worker' = [worker EXCEPT ![w] = Off] /\ task' = [task EXCEPT ![w] = "exited"]
       ELSE worker' = [worker EXCEPT ![w] = [Off EXCEPT !.at = "claim", !.gate = worker_ready]] /\ UNCHANGED task
    /\ UNCHANGED <<raw, plan, phase, todo, result, stop, signal, health, failures, sessionVars>>

AllowedUngated(gate) == EXECUTABLE_WORKER_JOB_TYPES \cup (IF plan.archive THEN {"AssetRepair", "AssetRefresh"} ELSE {})

Allowed(gate) ==
    LET all == EXECUTABLE_WORKER_JOB_TYPES \cup (IF plan.archive THEN {"AssetRepair", "AssetRefresh"} ELSE {})
    IN IF gate THEN all ELSE {kind \in all : ~requires_browser(kind)}
\* No job, or an error (recovery, claim).
Idle(w) ==
    /\ worker[w].at = "claim"
    /\ Goes(w, "wait")
    /\ UNCHANGED <<raw, plan, phase, todo, result, task, stop, signal, health, failures, sessionVars>>

\* A synchronization lists references first; a backfill opens the article's
\* page, with a fallback, and an asset refresh a page without one.
FirstStep(kind) ==
    IF ~requires_browser(kind) THEN "plain"
    ELSE IF kind = "SourceSync" THEN "list" ELSE IF kind = "ArticleBackfill" THEN "article" ELSE "page"
StartsSession(w, step) == IF step \in {"list", "fallback"} THEN StartAuthenticated(w) ELSE StartPublic(w)

Claim(w, kind) ==
    /\ worker[w].at = "claim" /\ kind \in Allowed(worker[w].gate)
    /\ worker' = [worker EXCEPT ![w] = [Off EXCEPT !.at = "exec", !.step = FirstStep(kind)]]
    /\ IF requires_browser(kind) THEN StartsSession(w, FirstStep(kind)) ELSE UNCHANGED ses
    /\ UNCHANGED <<raw, plan, phase, todo, result, task, stop, signal, health, failures, free, row, cleanups, sidecar>>

\* The session the job opens after one that ended; "none" when the job is done.
NextStep(w) ==
    IF worker[w].step = "list" /\ ses[w].ok THEN "article"
    ELSE IF worker[w].step = "article" /\ ~ses[w].ok THEN "fallback"
    ELSE "none"

SessionDone(w) ==
    /\ worker[w].at = "exec" /\ ses[w].stage = "done" /\ NextStep(w) # "none"
    /\ worker' = [worker EXCEPT ![w].step = NextStep(w)]
    /\ StartsSession(w, NextStep(w))
    /\ UNCHANGED <<raw, plan, phase, todo, result, task, stop, signal, health, failures, free, row, cleanups, sidecar>>

\* The outcome is written (the next pass follows) or that fails (a wait).
JobDone(w) ==
    /\ worker[w].at = "exec"
    /\ worker[w].step = "plain" \/ (ses[w].stage = "done" /\ NextStep(w) = "none")
    /\ Goes(w, "top") \/ Goes(w, "wait")
    /\ ses' = [ses EXCEPT ![w] = NoSession]
    /\ UNCHANGED <<raw, plan, phase, todo, result, task, stop, signal, health, failures, free, row, cleanups, sidecar>>

\* The execution timeout, or a job lease that is lost: the handler's future
\* is dropped wherever it is.
Interrupt(w) ==
    /\ worker[w].at = "exec" /\ Cardinality(cleanups) < MaxCleanups
    /\ Goes(w, "top") \/ Goes(w, "wait")
    /\ Dropped({w}) /\ UNCHANGED <<row, sidecar>>
    /\ UNCHANGED <<raw, plan, phase, todo, result, task, stop, signal, health, failures>>

WaitEnds(w) ==
    /\ worker[w].at = "wait"
    /\ IF stop
       THEN worker' = [worker EXCEPT ![w] = Off] /\ task' = [task EXCEPT ![w] = "exited"]
       ELSE Goes(w, "top") /\ UNCHANGED task
    /\ UNCHANGED <<raw, plan, phase, todo, result, stop, signal, health, failures, sessionVars>>

WorkerStep(w) ==
    \/ LoopTop(w) \/ Idle(w) \/ (\E kind \in JobTypes : Claim(w, kind)) \/ SessionDone(w) \/ JobDone(w) \/ WaitEnds(w)
    \/ worker[w].at = "exec" /\ SessionStep(w) /\ UNCHANGED runtimeVars

\* Other processes and the sidecar, while this one runs.
Environment == /\ phase \in {"running", "draining"} /\ (Expire \/ OtherReplica \/ SidecarChanges)
               /\ UNCHANGED runtimeVars

CleanupStep == /\ phase # "exited" /\ (\E c \in cleanups : Cleanup(c)) /\ UNCHANGED runtimeVars

Supervise == Load \/ Connected \/ NotStarted \/ Spawn \/ Shutdown \/ (\E t \in Tasks : TaskJoined(t)) \/ Drain \/ Exit

Done == phase = "exited" /\ UNCHANGED vars

Next ==
    \/ Supervise \/ Signal \/ MonitorStep \/ CleanupStep \/ Environment \/ Done
    \/ ServerStops \/ SchedulerStops \/ MaintenanceStops \/ MonitorStops
    \/ \E t \in Tasks : TaskFails(t)
    \/ \E w \in Workers : WorkerStep(w) \/ Interrupt(w)

\* Tasks, cleanups and the supervisor take their steps: every await in them
\* has a timeout or a result. The monitor's select! picks at random when both
\* its tick and the shutdown are ready: it is taken to see the shutdown in the
\* end. Nothing is assumed of signals, failures, other replicas or the sidecar.
Fairness ==
    /\ WF_vars(Supervise) /\ WF_vars(MonitorStep) /\ WF_vars(CleanupStep)
    /\ WF_vars(ServerStops) /\ WF_vars(SchedulerStops) /\ WF_vars(MaintenanceStops)
    /\ SF_vars(MonitorStops)
    /\ \A w \in Workers : WF_vars(WorkerStep(w))

Spec == Init /\ [][Next]_vars /\ Fairness

-----------------------------------------------------------------------------
(* Properties. *)

\* An environment the configuration accepts is refused later only for one of
\* three reasons: no SERVER_ROOT_URL with the API or a worker, a duration
\* chrono cannot hold, a failure cooldown of zero with a worker
\* (runtime_supervisor.rs, validated_plan and build_worker; source_sync_handler.rs).
OnlyKnownRefusals ==
    phase = "ended" /\ raw # NoRaw /\ from_raw(raw) = "ok"
        => result \in {"ok", "database", "storage", "bind", "task"} \cup KnownRefusals(raw)

\* Every kind of job a worker asks for has a handler in it: no claimed job
\* fails because nobody can execute it (runtime_supervisor.rs, RuntimeJobHandler).
WorkersCanExecute ==
    raw # NoRaw => \A refresher \in BOOLEAN : AllowedJobTypes(raw, refresher) \subseteq Handlers(raw, refresher)

\* A run that ends well waited for all its tasks, jobs included: none was
\* aborted, and none failed unnoticed
\* (runtime_supervisor.rs, run_until_shutdown: "A normal shutdown waits for all
\* API, scheduler, and worker tasks to finish").
NormalEndWaits ==
    phase \in {"ended", "exited"} /\ result = "ok" => \A t \in Tasks : task[t] \in {"none", "exited"}

\* A shutdown, or a task that ends by itself, brings the whole process down.
ComesDown ==
    (signal \/ \E t \in Tasks : task[t] \in {"exited", "failed"}) ~> phase \in {"ended", "exited"}

\* Once the sidecar stays up, the browser health becomes ready again however
\* often the pool was busy: jobs that are gated leave it to the monitor.
HealthRecovers == <>[](sidecar = "up") => []<>(worker_ready \/ task["monitor"] # "running")

\* Until the supervisor starts, nothing runs; until it ends, nothing is aborted.
\* A worker loops only in a running task; the workers are started last.
TasksFollowPhase ==
    /\ phase \in {"loading", "planned"} =>
          raw \in Environments /\ plan = NoPlan /\ \A t \in Tasks : task[t] = "none"
    /\ phase \notin {"ended", "exited"} => \A t \in Tasks : task[t] # "aborted"
    /\ \A w \in Workers : worker[w].at # "off" => task[w] = "running"
    /\ phase = "starting" => \A i \in 1 .. Len(todo) : todo[i] = "worker" => i = Len(todo) /\ \A w \in Workers : worker[w].at = "off"

\* A worker has a browser session only inside a job that needs one.
SessionsInJobs ==
    \A w \in Workers : worker[w].at # "exec" \/ worker[w].step = "plain" => ses[w] = NoSession

\* Permits are neither lost nor made up: those in the pool and those in the
\* hands of sessions are as many as the plan created, whatever was aborted,
\* interrupted or dropped (browser_pool.rs).
PermitsConserved == free + Cardinality({h \in Holders : Holding(h)}) = plan.pool

\* What holds of the process and its browser sessions between any two steps.
RuntimeInv ==
    /\ RuntimeTypeOK /\ NormalEndWaits /\ TasksFollowPhase
    /\ SessionInv /\ SessionsInJobs /\ PermitsConserved

\* The configuration, the plan and the components agree on what can run.
ConfigurationAgrees == OnlyKnownRefusals /\ WorkersCanExecute

\* The account lease: a session succeeds only while it holds the lease, and its
\* clean-up, however late, releases no other's (webdriver.rs).
LeaseRespected == SuccessMeansLeaseHeld /\ OnlyOwnRelease

\* The browser comes back: whoever waits for the pool gets a permit, and the
\* health becomes ready again.
BrowserRecovers == PermitGranted /\ HealthRecovers
=============================================================================
