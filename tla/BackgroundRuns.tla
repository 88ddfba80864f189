--------------------------- MODULE BackgroundRuns ---------------------------
(***************************************************************************)
(* The life of background-job runs: rows in SQLite, the in-memory map of   *)
(* controllers, the launches that execute rows, the agent runs they are    *)
(* linked to, the scheduler tick, and the commands of the user.            *)
(*                                                                         *)
(* The server is one JavaScript thread.  A handler runs without            *)
(* interruption until it awaits work of the outside world: a planner turn, *)
(* an execution, a shell process, a capability probe, a git preflight.     *)
(* The steps below are the stretches between two such awaits; Quiescent    *)
(* says that no stretch is half done, and everything that starts a new one *)
(* requires it.  A crash does not: each SQLite write is durable by itself, *)
(* and the crashes between two writes of one stretch are actions of their  *)
(* own, at the end of the steps.                                           *)
(*                                                                         *)
(* Wall-clock time appears only as the comparisons the code makes: a row   *)
(* is in lapsed once its lease (or, without one, its start) is more than   *)
(* the startup grace ago, in overdue once it exceeds the maximum runtime   *)
(* or the no-progress bound.                                               *)
(***************************************************************************)
EXTENDS Naturals, FiniteSets

CONSTANTS
  Jobs,            \* the job definitions
  ShellJobs,       \* jobs that spawn a process instead of an agent run
  AssistantJobs,   \* jobs owned by the (one) assistant
  ExclusiveJobs,   \* assistant jobs in the assistant's exclusive lane
  RiskyJobs,       \* jobs whose scheduled runs need approval
  Capacity,        \* max queued-or-running runs the scheduler adds to
  MaxRuns,         \* bound: rows ever created
  MaxLaunches,     \* bound: launches (leases) ever started
  MaxCrashes,      \* bound: crashes and shutdowns
  Commands,        \* the user commands an instance exercises
  NoJob            \* the job of a row that does not exist yet

ASSUME JobsAssumption ==
  /\ ShellJobs \subseteq Jobs /\ AssistantJobs \subseteq Jobs
  /\ ExclusiveJobs \subseteq AssistantJobs /\ RiskyJobs \subseteq Jobs
  /\ NoJob \notin Jobs

ASSUME BoundsAssumption ==
  /\ MaxRuns \in Nat \ {0} /\ MaxLaunches \in Nat \ {0}
  /\ MaxCrashes \in Nat /\ Capacity \in Nat \ {0}

RunIds == 1 .. MaxRuns

Launches == 1 .. MaxLaunches

AgentIds == 1 .. MaxLaunches      \* a launch creates at most one agent run

VARIABLES
  \* rows of background_job_runs
  status, jobOf, trigger, approval, lease, link, attempts,
  \* what the clock says about rows
  lapsed, overdue,
  \* launches: promises of launchBackgroundJobRun, and the controllers map
  pc, runOf, agentOf, control, pending,
  \* agent runs, and the foreground handler working on each
  agent, fg,
  \* the scheduler tick
  tick, resumable, jobsLeft, waiting, now,
  \* jobs, the assistant, the global pause and the process
  due, jobStatus, assistant, paused, releasing, up, crashes

rowVars == <<status, jobOf, trigger, approval, lease, link, attempts>>
clockVars == <<lapsed, overdue>>
launchVars == <<pc, runOf, agentOf, control, pending>>
agentVars == <<agent, fg>>
tickVars == <<tick, resumable, jobsLeft, waiting, now>>
envVars == <<due, jobStatus, assistant, paused, releasing, up, crashes>>
vars == <<rowVars, clockVars, launchVars, agentVars, tickVars, envVars>>

-----------------------------------------------------------------------------
(* Statuses *)

Terminal == {"succeeded", "partial-complete", "failed", "cancelled", "skipped"}

Active == {"queued", "awaiting-approval", "awaiting-user-input", "running"}

AgentTerminal == {"completed", "partial-complete", "failed", "stopped"}

AgentWorking == {"planning", "awaiting-user-input", "running"}

\* Mutant: agent statuses reach the row as they are.
UnmappedRowStatus ==
  [s \in AgentTerminal |-> IF s = "completed" THEN "succeeded" ELSE s]

\* mapAgentRunStatusToBackgroundRunStatus
RowStatusOfAgent ==
  [s \in AgentTerminal |->
     CASE s = "completed" -> "succeeded"
       [] s = "stopped" -> "cancelled"
       [] OTHER -> s]

NoTime == [lapsed |-> {}, overdue |-> {}]

TypeOK ==
  /\ status \in [RunIds -> Active \cup Terminal \cup {"none", "deleted"}]
  /\ jobOf \in [RunIds -> Jobs \cup {NoJob}]
  /\ trigger \in [RunIds -> {"schedule", "manual", "retry"}]
  /\ approval \in [RunIds -> {"not-needed", "pending", "approved", "rejected"}]
  /\ lease \in [RunIds -> {0} \cup Launches]
  /\ link \in [RunIds -> {0} \cup AgentIds]
  /\ attempts \in [RunIds -> 0 .. 1]
  /\ lapsed \subseteq RunIds /\ overdue \subseteq RunIds
  /\ pc \in [Launches -> {"unused", "starting", "planning", "planned",
                          "executing", "shell", "done"}]
  /\ runOf \in [Launches -> {0} \cup RunIds]
  /\ agentOf \in [Launches -> {0} \cup AgentIds]
  /\ control \in [RunIds -> {0} \cup Launches]
  /\ pending \subseteq RunIds
  /\ agent \in [AgentIds -> AgentWorking \cup AgentTerminal \cup {"none", "ready"}]
  /\ fg \in [AgentIds -> {"off", "planning", "preflight", "executing"}]
  /\ tick \in {"off", "startup", "resume", "queue"}
  /\ resumable \subseteq RunIds /\ jobsLeft \subseteq Jobs
  /\ waiting \in {0} \cup RunIds
  /\ now \in [lapsed : SUBSET RunIds, overdue : SUBSET RunIds]
  /\ due \subseteq Jobs
  /\ jobStatus \in [Jobs -> {"enabled", "paused", "deleted"}]
  /\ assistant \in {"active", "blocked", "deleted"}
  /\ paused \in BOOLEAN /\ releasing \in BOOLEAN /\ up \in BOOLEAN
  /\ crashes \in 0 .. MaxCrashes

Init ==
  /\ status = [r \in RunIds |-> "none"]
  /\ jobOf = [r \in RunIds |-> NoJob]
  /\ trigger = [r \in RunIds |-> "schedule"]
  /\ approval = [r \in RunIds |-> "not-needed"]
  /\ lease = [r \in RunIds |-> 0] /\ link = [r \in RunIds |-> 0]
  /\ attempts = [r \in RunIds |-> 0]
  /\ lapsed = {} /\ overdue = {}
  /\ pc = [l \in Launches |-> "unused"]
  /\ runOf = [l \in Launches |-> 0] /\ agentOf = [l \in Launches |-> 0]
  /\ control = [r \in RunIds |-> 0] /\ pending = {}
  /\ agent = [a \in AgentIds |-> "none"] /\ fg = [a \in AgentIds |-> "off"]
  /\ tick = "off" /\ resumable = {} /\ jobsLeft = {} /\ waiting = 0 /\ now = NoTime
  /\ due = {} /\ jobStatus = [j \in Jobs |-> "enabled"]
  /\ assistant = "active" /\ paused = FALSE /\ releasing = FALSE
  /\ up = TRUE /\ crashes = 0
-----------------------------------------------------------------------------
(* Reading the state *)

\* The thread is between two handlers: no launch call is due, no write of a
\* synchronous stretch is outstanding, and the tick is off or awaits a launch.
Quiescent ==
  /\ up
  /\ pending = {}
  /\ tick = "off" \/ waiting # 0
  /\ \A l \in Launches : pc[l] # "planned"

ActiveRuns(j) == {r \in RunIds : jobOf[r] = j /\ status[r] \in Active}

PlanReady(a) == a # 0 /\ agent[a] = "ready"

AgentOf(r) == IF link[r] = 0 THEN "none" ELSE agent[link[r]]

\* runtime.getAbortController: a foreground handler registered itself
Registered(a) == a # 0 /\ fg[a] \in {"planning", "executing"}

\* isBackgroundRunLive
Live(r) == control[r] # 0 \/ Registered(link[r])

\* isBackgroundRunOwnedBy, asked by a launch with its own lease id
Owned(l) == status[runOf[l]] = "running" /\ lease[runOf[l]] = l

\* An agent run that works for no active background row, as
\* hasActiveForegroundAgentRun and assertNoOtherWorkingRun see it.
Foreground(a) ==
  /\ agent[a] \in AgentWorking
  /\ \A r \in RunIds : link[r] = a => status[r] \notin Active

NextRun(r) == status[r] = "none" /\ \A q \in RunIds : q < r => status[q] # "none"

NextLaunch(l) == pc[l] = "unused" /\ \A m \in Launches : m < l => pc[m] # "unused"

NextAgent(a) == agent[a] = "none" /\ \A b \in AgentIds : b < a => agent[b] # "none"

CanLaunch(n) == Cardinality({l \in Launches : pc[l] = "unused"}) >= n

-----------------------------------------------------------------------------
(* Writing rows and agent runs *)

\* Mutant: a late write overwrites a terminal or deleted row.
SetStatusUnguarded(r, s) == [status EXCEPT ![r] = s]

\* setBackgroundJobRunStatus: a terminal row keeps its status, a deleted one
\* is not there to update.
SetStatus(r, s) ==
  [status EXCEPT ![r] = IF @ \in Active THEN s ELSE @]

\* setAgentRunStatus: terminal agent runs keep their status
SetAgent(a, s) ==
  [agent EXCEPT ![a] = IF @ \in AgentTerminal THEN @ ELSE s]

\* createBackgroundJobRun; base is status with the writes made before it
CreateRow(base, r, j, t, s, appr) ==
  /\ status' = [base EXCEPT ![r] = s]
  /\ jobOf' = [jobOf EXCEPT ![r] = j]
  /\ trigger' = [trigger EXCEPT ![r] = t]
  /\ approval' = [approval EXCEPT ![r] = appr]
  /\ UNCHANGED <<lease, link, attempts>>

\* Mutant: no finally block removes the controller.
EndLaunchKeepsControl(l) ==
  /\ pc' = [pc EXCEPT ![l] = "done"]
  /\ runOf' = [runOf EXCEPT ![l] = 0]
  /\ agentOf' = [agentOf EXCEPT ![l] = 0]
  /\ UNCHANGED control

\* The finally block of launchBackgroundJobRun, and the return of its promise
\* to whoever awaits it.
EndLaunch(l) ==
  /\ pc' = [pc EXCEPT ![l] = "done"]
  /\ runOf' = [runOf EXCEPT ![l] = 0]
  /\ agentOf' = [agentOf EXCEPT ![l] = 0]
  /\ control' = [control EXCEPT ![runOf[l]] = 0]

\* The promise of safeLaunchBackgroundJobRun settles.
StopAwaiting(r) == waiting' = IF waiting = r THEN 0 ELSE waiting

-----------------------------------------------------------------------------
(* repairInterruptedBackgroundJobRuns and reconcileBackgroundJobRunBlockers *)

LinkedEnded(r) == AgentOf(r) \in AgentTerminal

\* Mutant: a lapsed lease alone counts, also under a foreground handler.
ControllerLostWithoutLook(r, t) ==
  /\ status[r] = "running" \/ PlanReady(link[r])
  /\ r \in t.lapsed

\* Mutant: any active row is taken for one that somebody should work on.
ControllerLostAnyStatus(r, t) == ~Live(r) /\ r \in t.lapsed

\* Mutant: only rows with a ready plan are repaired.
ControllerLostPlanOnly(r, t) ==
  /\ status[r] = "running" /\ PlanReady(link[r])
  /\ ~Live(r)
  /\ r \in t.lapsed

\* Nobody works on a running row, or on the ready plan of any active row,
\* and its lease has been over for longer than the grace.
ControllerLost(r, t) ==
  /\ status[r] = "running" \/ PlanReady(link[r])
  /\ ~Live(r)
  /\ r \in t.lapsed

\* Mutant: the bounds apply only to rows nobody works on.
TimedOutUnlessLive(r, t) == status[r] = "running" /\ ~Live(r) /\ r \in t.overdue

\* A running row is over its maximum runtime or shows no progress.
TimedOut(r, t) == status[r] = "running" /\ Live(r) /\ r \in t.overdue

Repairable(R) == {r \in R : status[r] \in Active}

FailedByRepair(R, t) ==
  {r \in Repairable(R) : ~LinkedEnded(r) /\ (ControllerLost(r, t) \/ TimedOut(r, t))}

\* Assistant rows whose pending question the question policy may now resolve
AutoResolvable(R) ==
  {r \in R : /\ status[r] = "awaiting-user-input"
             /\ jobOf[r] \in AssistantJobs
             /\ AgentOf(r) = "awaiting-user-input"}

RepairedStatus(R, t, auto) ==
  [r \in RunIds |->
     CASE r \in Repairable(R) /\ LinkedEnded(r) -> RowStatusOfAgent[AgentOf(r)]
       [] r \in FailedByRepair(R, t) -> "failed"
       [] r \in auto -> "skipped"
       [] OTHER -> status[r]]

\* failLinkedAgentRunIfActive, and answerPlanningQuestion for resolved ones
RepairedAgent(R, t, auto) ==
  [a \in AgentIds |->
     CASE \E r \in FailedByRepair(R, t) : link[r] = a -> "failed"
       [] \E r \in auto : link[r] = a -> "planning"
       [] OTHER -> agent[a]]

\* One pass over the rows R with the clock readings of t.  The question policy
\* decides per row, so any of the resolvable rows may be among the resolved.
RepairRows(R, t) ==
  \E auto \in SUBSET AutoResolvable(R) :
    /\ status' = RepairedStatus(R, t, auto)
    /\ agent' = RepairedAgent(R, t, auto)

-----------------------------------------------------------------------------
(* The scheduler tick *)

\* Mutant: rows in any status are taken for interrupted ones.
TickBeginAnyStatus ==
  /\ up /\ ~paused
  /\ tick = "startup" \/ (tick = "off" /\ Quiescent)
  /\ tick' = "resume"
  /\ resumable' = {r \in lapsed : link[r] # 0 /\ attempts[r] = 0}
  /\ now' = [lapsed |-> lapsed, overdue |-> overdue]
  /\ UNCHANGED <<rowVars, clockVars, launchVars, agentVars, jobsLeft, waiting, envVars>>

\* Overdue launches are aborted first.  The abort only settles promises; one
\* that throws then does so, in the model, in a LaunchThrows before this step,
\* and the callbacks the tick awaits here and after the repair await nothing.
TickBegin ==
  /\ up /\ ~paused
  /\ tick = "startup" \/ (tick = "off" /\ Quiescent)
  /\ tick' = "resume"
  /\ resumable' = {r \in lapsed : status[r] = "running" /\ link[r] # 0 /\ attempts[r] = 0}
  /\ now' = [lapsed |-> lapsed, overdue |-> overdue]
  /\ UNCHANGED <<rowVars, clockVars, launchVars, agentVars, jobsLeft, waiting, envVars>>

\* Under the global pause a tick only writes its heartbeat.
StartupTickPaused ==
  /\ up /\ paused /\ tick = "startup"
  /\ tick' = "off"
  /\ UNCHANGED <<rowVars, clockVars, launchVars, agentVars,
                 resumable, jobsLeft, waiting, now, envVars>>

\* The tick holds the thread: it awaits no launch and none is due.
TickHolds(phase) == up /\ tick = phase /\ waiting = 0 /\ pending = {}

\* The row was read when the tick began, the controllers and the agent run
\* only now: between two resumed rows the tick awaits a whole execution.
TickResume(r) ==
  /\ TickHolds("resume") /\ r \in resumable
  /\ control[r] = 0 /\ PlanReady(link[r]) /\ status[r] # "deleted" /\ CanLaunch(1)
  /\ resumable' = resumable \ {r}
  /\ status' = SetStatus(r, "queued")
  /\ attempts' = [attempts EXCEPT ![r] = IF status[r] \in Active THEN 1 ELSE @]
  /\ pending' = {r} /\ waiting' = r
  /\ UNCHANGED <<jobOf, trigger, approval, lease, link, clockVars, pc, runOf, agentOf,
                 control, agentVars, tick, jobsLeft, now, envVars>>

TickPasses(r) ==
  /\ TickHolds("resume") /\ r \in resumable
  /\ control[r] # 0 \/ ~PlanReady(link[r])
  /\ resumable' = resumable \ {r}
  /\ UNCHANGED <<rowVars, clockVars, launchVars, agentVars,
                 tick, jobsLeft, waiting, now, envVars>>

\* Writing an event for a row that was deleted meanwhile throws out of the
\* tick.  (So does, in the model, a launch the bound has no room for.)
TickFails(r) ==
  /\ TickHolds("resume") /\ r \in resumable
  /\ control[r] = 0 /\ PlanReady(link[r])
  /\ status[r] = "deleted" \/ ~CanLaunch(1)
  /\ tick' = "off" /\ resumable' = {} /\ now' = NoTime
  /\ UNCHANGED <<rowVars, clockVars, launchVars, agentVars, jobsLeft, waiting, envVars>>

TickRepair ==
  /\ TickHolds("resume") /\ resumable = {}
  /\ RepairRows(RunIds, [lapsed |-> lapsed \cap now.lapsed,
                         overdue |-> overdue \cap now.overdue])
  /\ tick' = "queue" /\ now' = NoTime
  /\ jobsLeft' = {j \in Jobs : jobStatus[j] = "enabled"}
  /\ UNCHANGED <<jobOf, trigger, approval, lease, link, attempts, clockVars,
                 launchVars, fg, resumable, waiting, envVars>>

\* Mutant: runs of paused jobs are forgotten.
LaneBusyByEnabled ==
  \E r \in RunIds :
    /\ status[r] \in Active /\ jobOf[r] \in ExclusiveJobs
    /\ jobStatus[jobOf[r]] = "enabled"

\* getActiveExclusiveAssistantRun: a run of a job that is not enabled has no
\* lane here and counts as exclusive.
LaneBusy ==
  \E r \in RunIds :
    /\ status[r] \in Active /\ jobOf[r] \in AssistantJobs
    /\ jobOf[r] \in ExclusiveJobs \/ jobStatus[jobOf[r]] # "enabled"

AssistantRunnable == assistant = "active" /\ ~paused

ScheduledSlots == {r \in RunIds : status[r] \in {"queued", "running"}}

\* Mutant: the job's own active runs are not looked at.
SchedulableAgain(j) ==
  /\ j \in due
  /\ j \in ExclusiveJobs => ~LaneBusy
  /\ j \in AssistantJobs => AssistantRunnable
  /\ Cardinality(ScheduledSlots) < Capacity

Schedulable(j) ==
  /\ j \in due
  /\ ActiveRuns(j) = {}
  /\ j \in ExclusiveJobs => ~LaneBusy
  /\ j \in AssistantJobs => AssistantRunnable
  /\ Cardinality(ScheduledSlots) < Capacity

\* queueDueJob; a queued row is launched before the next job is looked at.
TickQueue(j, r) ==
  /\ TickHolds("queue") /\ j \in jobsLeft
  /\ Schedulable(j) /\ NextRun(r) /\ CanLaunch(1)
  /\ jobsLeft' = jobsLeft \ {j}
  /\ due' = due \ {j}
  /\ IF j \in RiskyJobs
     THEN /\ CreateRow(status, r, j, "schedule", "awaiting-approval", "pending")
          /\ pending' = {}
     ELSE /\ CreateRow(status, r, j, "schedule", "queued", "not-needed")
          /\ pending' = {r}
  /\ UNCHANGED <<clockVars, pc, runOf, agentOf, control, agentVars,
                 tick, resumable, waiting, now,
                 jobStatus, assistant, paused, releasing, up, crashes>>

\* Nothing is queued for j in this tick (or the bounds are used up).
TickLeaves(j) ==
  /\ TickHolds("queue") /\ j \in jobsLeft
  /\ ~(Schedulable(j) /\ CanLaunch(1) /\ \E r \in RunIds : NextRun(r))
  /\ jobsLeft' = jobsLeft \ {j}
  /\ UNCHANGED <<rowVars, clockVars, launchVars, agentVars,
                 tick, resumable, waiting, now, envVars>>

TickEnd ==
  /\ TickHolds("queue") /\ jobsLeft = {}
  /\ tick' = "off"
  /\ UNCHANGED <<rowVars, clockVars, launchVars, agentVars,
                 resumable, jobsLeft, waiting, now, envVars>>

-----------------------------------------------------------------------------
(* launchBackgroundJobRun up to its first await *)

LaunchSkipped(r) ==
  /\ up /\ r \in pending
  /\ control[r] # 0 \/ paused \/ status[r] # "queued"
  /\ pending' = pending \ {r} /\ StopAwaiting(r)
  /\ UNCHANGED <<rowVars, clockVars, pc, runOf, agentOf, control, agentVars,
                 tick, resumable, jobsLeft, now, envVars>>

LaunchRefused(r) ==
  /\ up /\ r \in pending
  /\ control[r] = 0 /\ ~paused /\ status[r] = "queued"
  /\ jobOf[r] \in AssistantJobs /\ ~AssistantRunnable
  /\ status' = SetStatus(r, "cancelled")
  /\ pending' = pending \ {r} /\ StopAwaiting(r)
  /\ UNCHANGED <<jobOf, trigger, approval, lease, link, attempts, clockVars,
                 pc, runOf, agentOf, control, agentVars,
                 tick, resumable, jobsLeft, now, envVars>>

\* Mutant: the pause is only looked at where rows are queued.
LaunchBeginsThoughPaused(r, l) ==
  /\ up /\ r \in pending /\ NextLaunch(l)
  /\ control[r] = 0 /\ status[r] = "queued"
  /\ jobOf[r] \in AssistantJobs => assistant = "active"
  /\ pending' = pending \ {r}
  /\ pc' = [pc EXCEPT ![l] = "starting"]
  /\ runOf' = [runOf EXCEPT ![l] = r]
  /\ agentOf' = [agentOf EXCEPT ![l] = link[r]]
  /\ control' = [control EXCEPT ![r] = l]
  /\ status' = SetStatus(r, "running")
  /\ lease' = [lease EXCEPT ![r] = l]
  /\ lapsed' = lapsed \ {r}
  /\ now' = [now EXCEPT !.lapsed = @ \ {r}]
  /\ UNCHANGED <<jobOf, trigger, approval, link, attempts, overdue, agentVars,
                 tick, resumable, jobsLeft, waiting, envVars>>

\* The launch keeps the row as it read it, with the link it had then.
LaunchBegins(r, l) ==
  /\ up /\ r \in pending /\ NextLaunch(l)
  /\ control[r] = 0 /\ ~paused /\ status[r] = "queued"
  /\ jobOf[r] \in AssistantJobs => AssistantRunnable
  /\ pending' = pending \ {r}
  /\ pc' = [pc EXCEPT ![l] = "starting"]
  /\ runOf' = [runOf EXCEPT ![l] = r]
  /\ agentOf' = [agentOf EXCEPT ![l] = link[r]]
  /\ control' = [control EXCEPT ![r] = l]
  /\ status' = SetStatus(r, "running")
  /\ lease' = [lease EXCEPT ![r] = l]
  /\ lapsed' = lapsed \ {r}
  /\ now' = [now EXCEPT !.lapsed = @ \ {r}]
  /\ UNCHANGED <<jobOf, trigger, approval, link, attempts, overdue, agentVars,
                 tick, resumable, jobsLeft, waiting, envVars>>

-----------------------------------------------------------------------------
(* The executor of a launch: executeShellJob and executeAiRoutineJob.      *)
(* After every await it asks whether the launch still owns its row; if not *)
(* it returns without a write.                                             *)

ShellStarts(l) ==
  /\ Quiescent /\ pc[l] = "starting" /\ jobOf[runOf[l]] \in ShellJobs
  /\ pc' = [pc EXCEPT ![l] = "shell"]
  /\ UNCHANGED <<rowVars, clockVars, runOf, agentOf, control, pending,
                 agentVars, tickVars, envVars>>

\* The row came with an agent run whose plan is ready: execute that plan.
PlanResumed(l) ==
  LET a == agentOf[l] IN
  /\ Quiescent /\ pc[l] = "starting" /\ jobOf[runOf[l]] \notin ShellJobs
  /\ PlanReady(a)
  /\ agent' = SetAgent(a, "running")
  /\ pc' = [pc EXCEPT ![l] = "executing"]
  /\ link' = IF Owned(l) THEN [link EXCEPT ![runOf[l]] = a] ELSE link
  /\ UNCHANGED <<status, jobOf, trigger, approval, lease, attempts, clockVars,
                 runOf, agentOf, control, pending, fg, tickVars, envVars>>

\* A fresh agent run is created in any case, linked only by the owner.
PlanningBegins(l, a) ==
  /\ Quiescent /\ pc[l] = "starting" /\ jobOf[runOf[l]] \notin ShellJobs
  /\ ~PlanReady(agentOf[l])
  /\ NextAgent(a)
  /\ agent' = [agent EXCEPT ![a] = "planning"]
  /\ pc' = [pc EXCEPT ![l] = "planning"]
  /\ agentOf' = [agentOf EXCEPT ![l] = a]
  /\ link' = IF Owned(l) THEN [link EXCEPT ![runOf[l]] = a] ELSE link
  /\ UNCHANGED <<status, jobOf, trigger, approval, lease, attempts, clockVars,
                 runOf, control, pending, fg, tickVars, envVars>>

RetriesPartial(r) == jobOf[r] \in AssistantJobs /\ trigger[r] # "retry"

\* ... and the bounds have room for the recovery run.
Recovers(r) == RetriesPartial(r) /\ CanLaunch(1) /\ \E q \in RunIds : NextRun(q)

\* A launch that lost its row while it awaited something leaves everything
\* as it is: the agent run stays in whatever status it had.  (For a row that
\* has become partial meanwhile see RecoveryQueued.)
LaunchDisowned(l) ==
  /\ Quiescent /\ pc[l] \in {"planning", "executing", "shell"} /\ ~Owned(l)
  /\ ~(status[runOf[l]] = "partial-complete" /\ Recovers(runOf[l]))
  /\ EndLaunch(l) /\ StopAwaiting(runOf[l])
  /\ UNCHANGED <<rowVars, clockVars, pending, agentVars,
                 tick, resumable, jobsLeft, now, envVars>>

\* The planner asks.  A question of an assistant job may be answered from its
\* durable guidance: then the run counts as succeeded, or is skipped when the
\* planner keeps asking; the agent run is left behind.
PlannerAsks(l) ==
  LET r == runOf[l]
      a == agentOf[l]
      outcomes == {<<"awaiting-user-input", "awaiting-user-input">>} \cup
                  IF jobOf[r] \in AssistantJobs
                  THEN {<<"succeeded", "awaiting-user-input">>, <<"skipped", "planning">>}
                  ELSE {}
  IN
  /\ Quiescent /\ pc[l] = "planning" /\ Owned(l) /\ agent[a] \notin AgentTerminal
  /\ \E out \in outcomes :
       /\ status' = SetStatus(r, out[1])
       /\ agent' = [agent EXCEPT ![a] = out[2]]
  /\ EndLaunch(l) /\ StopAwaiting(r)
  /\ UNCHANGED <<jobOf, trigger, approval, lease, link, attempts, clockVars,
                 pending, fg, tick, resumable, jobsLeft, now, envVars>>

\* Mutant: ownership is not asked for again after the planner turn.
PlannerPlansDisowned(l) ==
  /\ Quiescent /\ pc[l] = "planning"
  /\ agent' = [agent EXCEPT ![agentOf[l]] = "ready"]
  /\ pc' = [pc EXCEPT ![l] = "planned"]
  /\ UNCHANGED <<rowVars, clockVars, runOf, agentOf, control, pending, fg,
                 tickVars, envVars>>

\* setAgentRunReady looks at no status; the next step follows without an
\* await, but only the first of the two writes may survive a crash.
PlannerPlans(l) ==
  /\ Quiescent /\ pc[l] = "planning" /\ Owned(l)
  /\ agent' = [agent EXCEPT ![agentOf[l]] = "ready"]
  /\ pc' = [pc EXCEPT ![l] = "planned"]
  /\ UNCHANGED <<rowVars, clockVars, runOf, agentOf, control, pending, fg,
                 tickVars, envVars>>

ExecutionBegins(l) ==
  /\ pc[l] = "planned"
  /\ agent' = SetAgent(agentOf[l], "running")
  /\ pc' = [pc EXCEPT ![l] = "executing"]
  /\ UNCHANGED <<rowVars, clockVars, runOf, agentOf, control, pending, fg,
                 tickVars, envVars>>

ExecutionEnds(l) ==
  LET r == runOf[l] IN
  /\ Quiescent /\ pc[l] = "executing" /\ Owned(l)
  /\ \/ /\ status' = SetStatus(r, "succeeded")
        /\ agent' = SetAgent(agentOf[l], "completed")
     \/ /\ ~RetriesPartial(r)
        /\ status' = SetStatus(r, "partial-complete")
        /\ agent' = SetAgent(agentOf[l], "partial-complete")
  /\ EndLaunch(l) /\ StopAwaiting(r)
  /\ UNCHANGED <<jobOf, trigger, approval, lease, link, attempts, clockVars,
                 pending, fg, tick, resumable, jobsLeft, now, envVars>>

\* One recovery run after a partial assistant job, also from a launch that
\* finds its row partly done by others.  The launch of the recovery run is
\* awaited by this one, which has nothing else left to do and is ended here;
\* whoever waits for this launch goes on waiting for the new one.
RecoveryQueued(l, q) ==
  LET r == runOf[l] IN
  /\ Quiescent /\ pc[l] \in {"planning", "executing"}
  /\ RetriesPartial(r) /\ NextRun(q) /\ CanLaunch(1)
  /\ \/ /\ pc[l] = "executing" /\ Owned(l)
        /\ agent' = SetAgent(agentOf[l], "partial-complete")
     \/ /\ ~Owned(l) /\ status[r] = "partial-complete"
        /\ UNCHANGED agent
  /\ CreateRow(SetStatus(r, "partial-complete"), q, jobOf[r], "retry", "queued",
               IF approval[r] = "pending" THEN "pending" ELSE "approved")
  /\ EndLaunch(l)
  /\ pending' = {q}
  /\ waiting' = IF waiting = r THEN q ELSE waiting
  /\ UNCHANGED <<clockVars, fg, tick, resumable, jobsLeft, now, envVars>>

ShellExits(l) ==
  /\ Quiescent /\ pc[l] = "shell" /\ Owned(l)
  /\ \E s \in {"succeeded", "failed"} : status' = SetStatus(runOf[l], s)
  /\ EndLaunch(l) /\ StopAwaiting(runOf[l])
  /\ UNCHANGED <<jobOf, trigger, approval, lease, link, attempts, clockVars,
                 pending, agentVars, tick, resumable, jobsLeft, now, envVars>>

\* The catch block: it asks for an active row, not for ownership, and leaves
\* the agent run alone.  An assistant's question in the error message makes
\* the row wait, or succeed when guidance resolves it.
LaunchThrows(l) ==
  LET r == runOf[l] IN
  /\ Quiescent /\ pc[l] \in {"starting", "planning", "executing", "shell"}
  /\ \E s \in {"failed"} \cup
              IF jobOf[r] \in AssistantJobs THEN {"awaiting-user-input", "succeeded"} ELSE {} :
       status' = SetStatus(r, s)
  /\ EndLaunch(l) /\ StopAwaiting(r)
  /\ UNCHANGED <<jobOf, trigger, approval, lease, link, attempts, clockVars,
                 pending, agentVars, tick, resumable, jobsLeft, now, envVars>>

-----------------------------------------------------------------------------
(* Timers *)

\* Mutant: one failed renewal drops the controller of a running row.
RenewStopsEarly(r) ==
  /\ Quiescent /\ control[r] # 0
  /\ control' = [control EXCEPT ![r] = 0]
  /\ UNCHANGED <<rowVars, clockVars, pc, runOf, agentOf, pending,
                 agentVars, tickVars, envVars>>

\* The renew timer of a controller finds its row no longer running.
RenewStops(r) ==
  /\ Quiescent /\ control[r] # 0 /\ status[r] # "running"
  /\ control' = [control EXCEPT ![r] = 0]
  /\ UNCHANGED <<rowVars, clockVars, pc, runOf, agentOf, pending,
                 agentVars, tickVars, envVars>>

TimeMayPass == Quiescent \/ ~up

\* Nobody renews the lease: it ends, and the startup grace after it.
LeaseLapses(r) ==
  /\ TimeMayPass /\ status[r] \in Active /\ r \notin lapsed
  /\ control[r] = 0 \/ status[r] # "running"
  /\ lapsed' = lapsed \cup {r}
  /\ UNCHANGED <<rowVars, overdue, launchVars, agentVars, tickVars, envVars>>

\* The runtime is counted from the first start, the wait for an answer included.
RunBecomesOverdue(r) ==
  /\ TimeMayPass /\ status[r] \in {"running", "awaiting-user-input"} /\ r \notin overdue
  /\ overdue' = overdue \cup {r}
  /\ UNCHANGED <<rowVars, lapsed, launchVars, agentVars, tickVars, envVars>>

JobBecomesDue(j) ==
  /\ TimeMayPass /\ jobStatus[j] # "deleted" /\ j \notin due
  /\ due' = due \cup {j}
  /\ UNCHANGED <<rowVars, clockVars, launchVars, agentVars, tickVars,
                 jobStatus, assistant, paused, releasing, up, crashes>>

-----------------------------------------------------------------------------
(* Commands on jobs and runs *)

Command(name) == name \in Commands /\ Quiescent

\* The job's rows are repaired first, and stay repaired if one still blocks.
RunNow(j) ==
  LET R == {r \in RunIds : jobOf[r] = j}
      t == [lapsed |-> lapsed, overdue |-> overdue]
  IN
  /\ Command("run-now") /\ ~paused /\ jobStatus[j] # "deleted"
  /\ j \in AssistantJobs => AssistantRunnable
  /\ \E auto \in SUBSET AutoResolvable(R) :
       /\ agent' = RepairedAgent(R, t, auto)
       /\ \/ /\ \E r \in R : RepairedStatus(R, t, auto)[r] \in Active
             /\ status' = RepairedStatus(R, t, auto)
             /\ UNCHANGED <<jobOf, trigger, approval, lease, link, attempts, pending>>
          \/ /\ \A r \in R : RepairedStatus(R, t, auto)[r] \notin Active
             /\ CanLaunch(1)
             /\ \E q \in RunIds :
                  /\ NextRun(q)
                  /\ CreateRow(RepairedStatus(R, t, auto), q, j, "manual", "queued", "approved")
                  /\ pending' = {q}
  /\ UNCHANGED <<clockVars, pc, runOf, agentOf, control, fg, tickVars, envVars>>

\* Mutant: a retry queues the row again instead of a new one.
RetryRunInPlace(r) ==
  /\ Command("retry") /\ ~paused
  /\ status[r] \in {"succeeded", "failed", "cancelled", "skipped", "awaiting-user-input"}
  /\ CanLaunch(1)
  /\ status' = [status EXCEPT ![r] = "queued"]
  /\ pending' = {r}
  /\ UNCHANGED <<jobOf, trigger, approval, lease, link, attempts, clockVars,
                 pc, runOf, agentOf, control, agentVars, tickVars, envVars>>

\* No look at other runs of the job; a pending approval is copied, yet the
\* new row is queued and launched.
RetryRun(r) ==
  /\ Command("retry") /\ ~paused
  /\ status[r] \in {"succeeded", "failed", "cancelled", "skipped", "awaiting-user-input"}
  /\ CanLaunch(1)
  /\ \E q \in RunIds :
       /\ NextRun(q)
       /\ CreateRow(status, q, jobOf[r], "retry", "queued",
                    IF approval[r] = "pending" THEN "pending" ELSE "approved")
       /\ pending' = {q}
  /\ UNCHANGED <<clockVars, pc, runOf, agentOf, control, agentVars, tickVars, envVars>>

ApproveRun(r) ==
  /\ Command("approval") /\ ~paused /\ CanLaunch(1)
  /\ status[r] = "awaiting-approval" /\ approval[r] = "pending"
  /\ status' = SetStatus(r, "queued")
  /\ approval' = [approval EXCEPT ![r] = "approved"]
  /\ pending' = {r}
  /\ UNCHANGED <<jobOf, trigger, lease, link, attempts, clockVars, pc, runOf, agentOf,
                 control, agentVars, tickVars, envVars>>

RejectRun(r) ==
  /\ Command("approval")
  /\ status[r] = "awaiting-approval" /\ approval[r] = "pending"
  /\ status' = SetStatus(r, "cancelled")
  /\ approval' = [approval EXCEPT ![r] = "rejected"]
  /\ UNCHANGED <<jobOf, trigger, lease, link, attempts, clockVars, launchVars,
                 agentVars, tickVars, envVars>>

\* stopBackgroundRunsForJob.  The aborted foreground handler of a linked run
\* returns without a write; a handler still in its preflight is not aborted.
StopRuns(R) ==
  LET stopped == {r \in R : status[r] \in Active}
      agents == {link[r] : r \in stopped} \ {0}
  IN
  /\ agent' = [a \in AgentIds |->
                 IF a \in agents /\ agent[a] \notin AgentTerminal THEN "stopped" ELSE agent[a]]
  /\ fg' = [a \in AgentIds |-> IF a \in agents /\ Registered(a) THEN "off" ELSE fg[a]]
  /\ control' = [r \in RunIds |-> IF r \in stopped THEN 0 ELSE control[r]]

StopRun(r) ==
  /\ Command("stop") /\ status[r] \in Active
  /\ StopRuns({r})
  /\ status' = SetStatus(r, "cancelled")
  /\ UNCHANGED <<jobOf, trigger, approval, lease, link, attempts, clockVars,
                 pc, runOf, agentOf, pending, tickVars, envVars>>

\* The rows go with the job (foreign key, cascade).
DeleteRows(R) ==
  status' = [r \in RunIds |-> IF r \in R /\ status[r] # "none" THEN "deleted" ELSE status[r]]

DeleteJob(j) ==
  /\ Command("delete-job") /\ jobStatus[j] # "deleted"
  /\ StopRuns({r \in RunIds : jobOf[r] = j})
  /\ DeleteRows({r \in RunIds : jobOf[r] = j})
  /\ jobStatus' = [jobStatus EXCEPT ![j] = "deleted"]
  /\ due' = due \ {j}
  /\ UNCHANGED <<jobOf, trigger, approval, lease, link, attempts, clockVars,
                 pc, runOf, agentOf, pending, tickVars,
                 assistant, paused, releasing, up, crashes>>

SetJobStatus(j) ==
  /\ Command("job-control") /\ jobStatus[j] # "deleted"
  /\ jobStatus' = [jobStatus EXCEPT ![j] = IF @ = "enabled" THEN "paused" ELSE "enabled"]
  /\ UNCHANGED <<rowVars, clockVars, launchVars, agentVars, tickVars,
                 due, assistant, paused, releasing, up, crashes>>

-----------------------------------------------------------------------------
(* The global pause and the assistant *)

PauseAll ==
  /\ Command("pause-all") /\ ~paused
  /\ paused' = TRUE
  /\ UNCHANGED <<rowVars, clockVars, launchVars, agentVars, tickVars,
                 due, jobStatus, assistant, releasing, up, crashes>>

\* The release follows after the assistants' own deferred work was awaited.
ResumeAll ==
  /\ Command("pause-all") /\ ~releasing
  /\ paused' = FALSE /\ releasing' = TRUE
  /\ UNCHANGED <<rowVars, clockVars, launchVars, agentVars, tickVars,
                 due, jobStatus, assistant, up, crashes>>

Release ==
  /\ Quiescent /\ releasing
  /\ releasing' = FALSE
  /\ pending' = IF \E a \in AgentIds : Foreground(a)
                THEN {}
                ELSE {r \in RunIds : status[r] = "queued"}
  /\ CanLaunch(Cardinality(pending'))
  /\ UNCHANGED <<rowVars, clockVars, pc, runOf, agentOf, control, agentVars, tickVars,
                 due, jobStatus, assistant, paused, up, crashes>>

\* assistant.pause and assistant.resume, and the circuit breaker.
AssistantChanges ==
  /\ Command("assistant") /\ assistant # "deleted"
  /\ assistant' = IF assistant = "active" THEN "blocked" ELSE "active"
  /\ UNCHANGED <<rowVars, clockVars, launchVars, agentVars, tickVars,
                 due, jobStatus, paused, releasing, up, crashes>>

\* Launches are aborted and rows deleted; the linked agent runs are not
\* stopped and their foreground handlers go on.
DeleteAssistant ==
  /\ Command("delete-assistant") /\ assistant # "deleted"
  /\ assistant' = "deleted"
  /\ jobStatus' = [j \in Jobs |-> IF j \in AssistantJobs THEN "deleted" ELSE jobStatus[j]]
  /\ due' = due \ AssistantJobs
  /\ DeleteRows({r \in RunIds : jobOf[r] \in AssistantJobs})
  /\ control' = [r \in RunIds |-> IF jobOf[r] \in AssistantJobs THEN 0 ELSE control[r]]
  /\ UNCHANGED <<jobOf, trigger, approval, lease, link, attempts, clockVars,
                 pc, runOf, agentOf, pending, agentVars, tickVars,
                 paused, releasing, up, crashes>>

-----------------------------------------------------------------------------
(* The user works on the agent run of a background row *)

\* planning.answer: the waiting row is running again, without a launch and
\* with the lease it had.
AnswerQuestion(a) ==
  /\ Command("answer") /\ ~paused
  /\ agent[a] = "awaiting-user-input" /\ fg[a] = "off"
  /\ agent' = [agent EXCEPT ![a] = "planning"]
  /\ fg' = [fg EXCEPT ![a] = "planning"]
  /\ status' = [r \in RunIds |->
                  IF link[r] = a /\ status[r] = "awaiting-user-input"
                  THEN "running" ELSE status[r]]
  /\ UNCHANGED <<jobOf, trigger, approval, lease, link, attempts, clockVars,
                 launchVars, tickVars, envVars>>

\* run.execute checks, awaits the preflight, and does not check again.
ExecuteRequested(a) ==
  /\ Command("execute") /\ ~paused
  /\ agent[a] = "ready" /\ fg[a] = "off"
  /\ \A b \in AgentIds \ {a} : ~Foreground(b)
  /\ fg' = [fg EXCEPT ![a] = "preflight"]
  /\ UNCHANGED <<rowVars, clockVars, launchVars, agent, tickVars, envVars>>

PreflightPasses(a) ==
  /\ Quiescent /\ fg[a] = "preflight"
  /\ fg' = [fg EXCEPT ![a] = "executing"]
  /\ agent' = SetAgent(a, "running")
  /\ UNCHANGED <<rowVars, clockVars, launchVars, tickVars, envVars>>

PreflightFails(a) ==
  /\ Quiescent /\ fg[a] = "preflight"
  /\ fg' = [fg EXCEPT ![a] = "off"]
  /\ UNCHANGED <<rowVars, clockVars, launchVars, agent, tickVars, envVars>>

\* The row of a run that asks again stays running, with nobody live.
ForegroundAsks(a) ==
  /\ Quiescent /\ fg[a] = "planning"
  /\ fg' = [fg EXCEPT ![a] = "off"]
  /\ agent' = SetAgent(a, "awaiting-user-input")
  /\ UNCHANGED <<rowVars, clockVars, launchVars, tickVars, envVars>>

\* A plan, or after an execution a corrective plan; setAgentRunReady again.
ForegroundPlans(a) ==
  /\ Quiescent /\ fg[a] \in {"planning", "executing"}
  /\ fg' = [fg EXCEPT ![a] = "off"]
  /\ agent' = [agent EXCEPT ![a] = "ready"]
  /\ UNCHANGED <<rowVars, clockVars, launchVars, tickVars, envVars>>

ForegroundCompletes(a) ==
  /\ Quiescent /\ fg[a] = "executing" /\ agent[a] \notin AgentTerminal
  /\ fg' = [fg EXCEPT ![a] = "off"]
  /\ \E s \in {"completed", "partial-complete"} : agent' = SetAgent(a, s)
  /\ UNCHANGED <<rowVars, clockVars, launchVars, tickVars, envVars>>

\* handleRunFailure; completing a run that is already terminal throws too.
ForegroundFails(a) ==
  /\ Quiescent /\ fg[a] \in {"planning", "executing"}
  /\ fg' = [fg EXCEPT ![a] = "off"]
  /\ agent' = SetAgent(a, "failed")
  /\ status' = [r \in RunIds |->
                  IF link[r] = a /\ status[r] \in Active THEN "failed" ELSE status[r]]
  /\ UNCHANGED <<jobOf, trigger, approval, lease, link, attempts, clockVars,
                 launchVars, tickVars, envVars>>

-----------------------------------------------------------------------------
(* The process *)

StoppedAgents ==
  [a \in AgentIds |-> IF agent[a] \in AgentWorking THEN "stopped" ELSE agent[a]]

MemoryLost ==
  /\ up /\ crashes < MaxCrashes
  /\ up' = FALSE /\ crashes' = crashes + 1
  /\ pc' = [l \in Launches |-> IF pc[l] = "unused" THEN "unused" ELSE "done"]
  /\ runOf' = [l \in Launches |-> 0] /\ agentOf' = [l \in Launches |-> 0]
  /\ control' = [r \in RunIds |-> 0] /\ pending' = {}
  /\ fg' = [a \in AgentIds |-> "off"]
  /\ tick' = "off" /\ resumable' = {} /\ jobsLeft' = {} /\ waiting' = 0 /\ now' = NoTime
  /\ releasing' = FALSE
  /\ UNCHANGED <<jobOf, trigger, approval, lease, link, attempts, clockVars,
                 due, jobStatus, assistant, paused>>

\* At any moment: before a handler's first write, or after its last one.  (A
\* schedule moved on for a row that was never created is a job not yet due.)
Crash == MemoryLost /\ UNCHANGED <<status, agent>>

\* server.stop: agent runs are stopped, then the rows of live controllers fail.
Shutdown ==
  /\ Quiescent
  /\ MemoryLost
  /\ agent' = StoppedAgents
  /\ status' = [r \in RunIds |->
                  IF control[r] # 0 /\ status[r] = "running" THEN "failed" ELSE status[r]]

\* Working agent runs are stopped before the scheduler starts with a tick.
Restart ==
  /\ ~up
  /\ up' = TRUE /\ tick' = "startup"
  /\ agent' = StoppedAgents
  /\ UNCHANGED <<rowVars, clockVars, launchVars, fg, resumable, jobsLeft, waiting, now,
                 due, jobStatus, assistant, paused, releasing, crashes>>

-----------------------------------------------------------------------------
(* A crash in the middle of a stretch.  Agent runs and rows are written one  *)
(* after the other and no transaction holds them together.  What memory held *)
(* is lost anyway: the steps below differ from Crash only in the writes that *)
(* came first.  A handler with a single write needs none.                    *)

\* A new agent run is not linked yet.
CrashInPlanningBegins(l, a) ==
  /\ Quiescent /\ pc[l] = "starting" /\ jobOf[runOf[l]] \notin ShellJobs
  /\ ~PlanReady(agentOf[l]) /\ NextAgent(a)
  /\ MemoryLost
  /\ agent' = [agent EXCEPT ![a] = "planning"]
  /\ UNCHANGED status

\* The question is stored, the row does not wait for its answer yet.
CrashInPlannerAsks(l) ==
  /\ Quiescent /\ pc[l] = "planning" /\ Owned(l) /\ agent[agentOf[l]] \notin AgentTerminal
  /\ MemoryLost
  /\ agent' = [agent EXCEPT ![agentOf[l]] = "awaiting-user-input"]
  /\ UNCHANGED status

\* The agent run has ended, its row has not; or both have, and the recovery
\* run of a partial one is missing.
CrashInExecutionEnds(l) ==
  /\ Quiescent /\ pc[l] = "executing" /\ Owned(l)
  /\ MemoryLost
  /\ \/ /\ \E s \in {"completed", "partial-complete"} : agent' = SetAgent(agentOf[l], s)
        /\ UNCHANGED status
     \/ /\ RetriesPartial(runOf[l])
        /\ agent' = SetAgent(agentOf[l], "partial-complete")
        /\ status' = SetStatus(runOf[l], "partial-complete")

\* The answer is stored, the row still waits for it.
CrashInAnswerQuestion(a) ==
  /\ Command("answer") /\ ~paused
  /\ agent[a] = "awaiting-user-input" /\ fg[a] = "off"
  /\ MemoryLost
  /\ agent' = [agent EXCEPT ![a] = "planning"]
  /\ UNCHANGED status

\* The agent run has failed, the row of it has not.
CrashInForegroundFails(a) ==
  /\ Quiescent /\ fg[a] \in {"planning", "executing"}
  /\ MemoryLost
  /\ agent' = SetAgent(a, "failed")
  /\ UNCHANGED status

\* Rows come in the order of their last change, so any of R may be the first:
\* some are done, of the next one only the agent run is written.  Resolved
\* questions have their turn when all of R is repaired.
PartlyRepaired(R, t) ==
  \/ \E done \in SUBSET R, next \in R :
       /\ status' = RepairedStatus(done, t, {})
       /\ agent' = RepairedAgent(done \cup {next}, t, {})
  \/ \E auto \in SUBSET AutoResolvable(R), next \in AutoResolvable(R) :
       /\ status' = RepairedStatus(R, t, auto)
       /\ agent' = RepairedAgent(R, t, auto \cup {next})

CrashInTickRepair ==
  /\ TickHolds("resume") /\ resumable = {}
  /\ MemoryLost
  /\ PartlyRepaired(RunIds, [lapsed |-> lapsed \cap now.lapsed,
                             overdue |-> overdue \cap now.overdue])

CrashInRunNow(j) ==
  /\ Command("run-now") /\ ~paused /\ jobStatus[j] # "deleted"
  /\ j \in AssistantJobs => AssistantRunnable
  /\ MemoryLost
  /\ PartlyRepaired({r \in RunIds : jobOf[r] = j},
                    [lapsed |-> lapsed, overdue |-> overdue])

\* Some rows of R are stopped, of the next one only the row.
PartlyStopped(R) ==
  \E done \in SUBSET R, next \in R :
    /\ status' = [r \in RunIds |->
                    IF r \in done \cup {next} /\ status[r] \in Active
                    THEN "cancelled" ELSE status[r]]
    /\ agent' = [a \in AgentIds |->
                   IF /\ \E r \in done : status[r] \in Active /\ link[r] = a
                      /\ agent[a] \notin AgentTerminal
                   THEN "stopped" ELSE agent[a]]

CrashInStopRun(r) ==
  /\ Command("stop") /\ status[r] \in Active
  /\ MemoryLost
  /\ PartlyStopped({r})

CrashInDeleteJob(j) ==
  /\ Command("delete-job") /\ jobStatus[j] # "deleted"
  /\ MemoryLost
  /\ PartlyStopped({r \in RunIds : jobOf[r] = j})

\* All agent runs are stopped (a restart would see to that too), not all rows
\* have failed.
CrashInShutdown ==
  /\ Quiescent
  /\ MemoryLost
  /\ agent' = StoppedAgents
  /\ \E done \in SUBSET RunIds :
       status' = [r \in RunIds |->
                    IF r \in done /\ control[r] # 0 /\ status[r] = "running"
                    THEN "failed" ELSE status[r]]

-----------------------------------------------------------------------------
TickStep ==
  \/ TickBegin \/ StartupTickPaused \/ TickRepair \/ TickEnd
  \/ \E r \in RunIds : TickResume(r) \/ TickPasses(r) \/ TickFails(r)
  \/ \E j \in Jobs : TickLeaves(j) \/ \E r \in RunIds : TickQueue(j, r)

LaunchCall ==
  \E r \in RunIds :
    \/ LaunchSkipped(r) \/ LaunchRefused(r)
    \/ \E l \in Launches : LaunchBegins(r, l)

ExecutorStep(l) ==
  \/ ShellStarts(l) \/ PlanResumed(l)
  \/ \E a \in AgentIds : PlanningBegins(l, a)
  \/ LaunchDisowned(l) \/ PlannerAsks(l) \/ PlannerPlans(l) \/ ExecutionBegins(l)
  \/ ExecutionEnds(l) \/ (\E q \in RunIds : RecoveryQueued(l, q))
  \/ ShellExits(l) \/ LaunchThrows(l)

TimerStep ==
  \/ \E r \in RunIds : RenewStops(r) \/ LeaseLapses(r) \/ RunBecomesOverdue(r)
  \/ \E j \in Jobs : JobBecomesDue(j)

CommandStep ==
  \/ \E j \in Jobs : RunNow(j) \/ DeleteJob(j) \/ SetJobStatus(j)
  \/ \E r \in RunIds : RetryRun(r) \/ ApproveRun(r) \/ RejectRun(r) \/ StopRun(r)
  \/ PauseAll \/ ResumeAll \/ Release \/ AssistantChanges \/ DeleteAssistant
  \/ \E a \in AgentIds : AnswerQuestion(a) \/ ExecuteRequested(a)

ForegroundStep(a) ==
  \/ PreflightPasses(a) \/ PreflightFails(a) \/ ForegroundAsks(a)
  \/ ForegroundPlans(a) \/ ForegroundCompletes(a) \/ ForegroundFails(a)

CrashInHandler ==
  \/ \E l \in Launches :
       \/ \E a \in AgentIds : CrashInPlanningBegins(l, a)
       \/ CrashInPlannerAsks(l) \/ CrashInExecutionEnds(l)
  \/ \E a \in AgentIds : CrashInAnswerQuestion(a) \/ CrashInForegroundFails(a)
  \/ CrashInTickRepair
  \/ \E j \in Jobs : CrashInRunNow(j) \/ CrashInDeleteJob(j)
  \/ \E r \in RunIds : CrashInStopRun(r)
  \/ CrashInShutdown

ProcessStep == Crash \/ CrashInHandler \/ Shutdown \/ Restart

Next ==
  \/ TickStep \/ LaunchCall \/ TimerStep \/ CommandStep \/ ProcessStep
  \/ \E l \in Launches : ExecutorStep(l)
  \/ \E a \in AgentIds : ForegroundStep(a)

Spec == Init /\ [][Next]_vars

(***************************************************************************)
(* Fairness.  The interval timer of the scheduler and the steps that       *)
(* follow without an await happen once nothing else is in progress, and a  *)
(* process that is down is started again.  Time passes between any two     *)
(* handlers, and a handler whose promise has settled runs in one of the    *)
(* gaps between others: both are disabled whenever a stretch is in         *)
(* progress, hence strong fairness.  Nothing makes a user act.             *)
(***************************************************************************)
TickFairness ==
  /\ WF_vars(TickStep) /\ WF_vars(LaunchCall) /\ WF_vars(Restart)
  /\ \A l \in Launches : WF_vars(ExecutionBegins(l))
  /\ \A r \in RunIds : SF_vars(LeaseLapses(r)) /\ SF_vars(RunBecomesOverdue(r))

WorkFairness ==
  /\ \A l \in Launches : SF_vars(ExecutorStep(l))
  /\ \A a \in AgentIds : SF_vars(ForegroundStep(a))
  /\ SF_vars(Release)

\* Agents and processes may hang forever; the scheduler may not.
HangSpec == Spec /\ TickFairness

\* Everything that was started ends or throws.
LiveSpec == Spec /\ TickFairness /\ WorkFairness

-----------------------------------------------------------------------------
(* Properties *)

Running(l) == pc[l] \in {"starting", "planning", "planned", "executing", "shell"}

\* An entry of the controllers map belongs to a launch that still runs for
\* that row, and the row carries that launch's lease: stop, repair, renewal
\* and shutdown all act through this entry.
ControlHoldsLease ==
  \A r \in RunIds : control[r] # 0 =>
    /\ Running(control[r]) /\ runOf[control[r]] = r
    /\ lease[r] = control[r]

\* A launch in progress works on a row that has ended, or on a running row
\* that has this launch in the controllers map: the scheduler sees the row as
\* live, so it neither resumes nor repairs nor restarts it under the launch.
OwnerIsLive ==
  \A l \in Launches :
    Running(l) /\ status[runOf[l]] \in Active =>
      status[runOf[l]] = "running" /\ control[runOf[l]] = l

\* No two launches that run at the same time were made for the same row.
OneLaunchPerRun ==
  \A l, m \in Launches :
    Running(l) /\ Running(m) /\ runOf[l] = runOf[m] => l = m

\* The schedule and run-now never add a run to a job that still has an active
\* one; only retries (of the user, or after a partial run) may overlap.
NoOverlap ==
  \A r, q \in RunIds :
    /\ r # q /\ status[r] \in Active /\ status[q] \in Active
    /\ jobOf[r] = jobOf[q]
    => "retry" \in {trigger[r], trigger[q]}

\* The scheduler keeps the assistant's exclusive lane to one scheduled run,
\* whatever happens to the jobs and runs in between.
LaneIsExclusive ==
  \A r, q \in RunIds :
    /\ r # q /\ status[r] \in Active /\ status[q] \in Active
    /\ {jobOf[r], jobOf[q]} \subseteq ExclusiveJobs
    => {trigger[r], trigger[q]} # {"schedule"}

\* What has ended stays as it ended, until its job is deleted.
TerminalIsFinal ==
  [][\A r \in RunIds :
       status[r] \in Terminal => status'[r] \in {status[r], "deleted"}]_vars

\* A running row somebody works on fails only because it is overdue, or with
\* the work: its launch ends, or the foreground handler of its agent run.  One
\* case is left by a crash: the launch has not looked at the agent run yet,
\* which failed before the crash without its row.
WorkedRunNotFailed ==
  [][\A r \in RunIds :
       /\ status[r] = "running" /\ status'[r] = "failed" /\ Live(r) /\ r \notin overdue
       => \/ control'[r] # control[r] \/ (link[r] # 0 /\ fg'[link[r]] # fg[link[r]])
          \/ crashes > 0 /\ AgentOf(r) = "failed" /\ pc[control[r]] = "starting"]_vars

\* While execution is paused no queued row starts, whoever queued it and
\* however long ago its launch was called.
NoStartWhilePaused ==
  [][\A r \in RunIds :
       status[r] = "queued" /\ status'[r] = "running" => ~paused /\ ~paused']_vars

\* An ended agent run comes back only through the foreground handler that
\* works on it: no background launch revives what a stop, a failure or a
\* restart has ended.
NoRevivalByLaunch ==
  [][\A a \in AgentIds :
       agent[a] \in AgentTerminal /\ agent'[a] # agent[a] =>
         fg[a] \in {"planning", "executing"}]_vars

Lifecycle == INSTANCE RunLifecycle

\* Every row goes through the abstract life cycle.
ImplementsLifecycle == Lifecycle!Spec

\* A running row does not stay running: its launch or its foreground handler
\* ends it, or the scheduler resumes, repairs or times it out.
RunsSettle == \A r \in RunIds : status[r] = "running" ~> status[r] # "running"

-----------------------------------------------------------------------------
(* The inductive invariant behind them *)

\* A launch in progress was made for a row that exists or existed.
LaunchHasRun ==
  \A l \in Launches : Running(l) => runOf[l] \in RunIds /\ status[runOf[l]] # "none"

\* A running row whose lease has lapsed is in nobody's hands.
LapsedIsUnworked ==
  \A r \in lapsed : status[r] = "running" => control[r] = 0

\* The rows a tick still means to resume may end while it waits, but nothing
\* else happens to them.
ResumableIsUnworked ==
  \A r \in resumable :
    \/ status[r] = "running" /\ control[r] = 0
    \/ status[r] \in Terminal \cup {"deleted"}

\* No agent run is linked to a row before its first launch.
FreshIsUnlinked ==
  \A r \in RunIds : status[r] \in {"none", "awaiting-approval"} => link[r] = 0

\* The controllers map, the launches and the rows agree, also while a tick
\* waits for an execution with rows it read long before.
Agreement ==
  /\ LaunchHasRun /\ ControlHoldsLease /\ OwnerIsLive /\ OneLaunchPerRun
  /\ LapsedIsUnworked /\ ResumableIsUnworked /\ FreshIsUnlinked

Core == TypeOK /\ Agreement

\* No two rows share an agent run, and what is linked has been created.
LinksApart ==
  \A r \in RunIds : link[r] # 0 =>
    /\ agent[link[r]] # "none"
    /\ \A q \in RunIds : link[q] = link[r] => q = r

\* The agent run of a launch belongs to its row or, once it was disowned, to
\* no row; before its first turn it is the one the row came with.
LaunchKeepsItsAgent ==
  \A l \in Launches : Running(l) =>
    /\ agentOf[l] # 0 =>
         /\ agent[agentOf[l]] # "none"
         /\ \A q \in RunIds : link[q] = agentOf[l] => q = runOf[l]
    /\ pc[l] = "starting" => agentOf[l] = link[runOf[l]]

\* While the planner works for the owner of a row, nothing else touches the
\* agent run: the user can neither answer nor execute it.
PlanningIsUndisturbed ==
  \A l \in Launches :
    /\ pc[l] \in {"planning", "planned"} => agentOf[l] # 0
    /\ pc[l] = "planning" /\ Owned(l) =>
         /\ link[runOf[l]] = agentOf[l]
         /\ agent[agentOf[l]] = "planning" /\ fg[agentOf[l]] = "off"

\* The row of a failed agent run has ended with it.  After a crash it may not
\* have: then nobody works on that agent run, and a launch of the row has yet
\* to replace it.
FailedAgentEndsRow ==
  \A r \in RunIds :
    AgentOf(r) = "failed" /\ status[r] \in Active =>
      /\ crashes > 0
      /\ fg[link[r]] = "off"
      /\ control[r] # 0 => pc[control[r]] = "starting"

\* A process that was spawned has no agent run.
ShellsAreUnlinked == \A r \in RunIds : jobOf[r] \in ShellJobs => link[r] = 0

\* No launch outlives its process.
DownIsIdle == ~up => \A l \in Launches : ~Running(l)

\* Rows, launches and foreground handlers agree on who works on which agent run.
Bonds ==
  /\ DownIsIdle
  /\ \A a \in AgentIds : agent[a] = "none" => fg[a] = "off"
  /\ LinksApart /\ LaunchKeepsItsAgent /\ PlanningIsUndisturbed
  /\ FailedAgentEndsRow /\ ShellsAreUnlinked

IInv == Core /\ Bonds
=============================================================================
