------------------------ MODULE BackgroundRunsProofs ------------------------
(***************************************************************************)
(* Theorems about BackgroundRuns for every set of jobs and every bound on  *)
(* rows, launches and crashes.                                             *)
(***************************************************************************)
EXTENDS BackgroundRuns, TLAPS

-----------------------------------------------------------------------------
(* The helpers that write rows and agent runs produce well-typed values.   *)

\* A guarded status write (setBackgroundJobRunStatus) leaves statuses.
LEMMA SetStatusType ==
  ASSUME TypeOK, NEW r, NEW s \in Active \cup Terminal
  PROVE  SetStatus(r, s) \in [RunIds -> Active \cup Terminal \cup {"none", "deleted"}]
  BY DEF SetStatus, TypeOK

\* A guarded write of an agent run (setAgentRunStatus) leaves agent statuses.
LEMMA SetAgentType ==
  ASSUME TypeOK, NEW a,
         NEW s \in AgentWorking \cup AgentTerminal \cup {"none", "ready"}
  PROVE  SetAgent(a, s) \in
           [AgentIds -> AgentWorking \cup AgentTerminal \cup {"none", "ready"}]
  BY DEF SetAgent, TypeOK

\* The status of an ended agent run maps to a terminal status of a row,
\* and never to skipped.
LEMMA RowStatusOfAgentType ==
  ASSUME NEW s \in AgentTerminal
  PROVE  RowStatusOfAgent[s] \in Terminal \ {"skipped"}
  BY DEF RowStatusOfAgent, AgentTerminal, Terminal

\* A row whose agent run has ended takes over its status in a repair pass.
LEMMA RepairedByAgent ==
  ASSUME NEW R \in SUBSET RunIds, NEW t, NEW auto \in SUBSET AutoResolvable(R),
         NEW r \in Repairable(R), LinkedEnded(r)
  PROVE  RepairedStatus(R, t, auto)[r] = RowStatusOfAgent[AgentOf(r)]
<1>1. r \notin FailedByRepair(R, t) /\ r \notin auto
  BY DEF FailedByRepair, LinkedEnded, AutoResolvable, AgentTerminal
<1> QED BY <1>1 DEF RepairedStatus, Repairable

\* A repair pass (repairInterruptedBackgroundJobRuns) leaves rows and agent
\* runs well typed.
LEMMA RepairType ==
  ASSUME TypeOK, NEW R \in SUBSET RunIds, NEW t,
         NEW auto \in SUBSET AutoResolvable(R)
  PROVE  /\ RepairedStatus(R, t, auto)
              \in [RunIds -> Active \cup Terminal \cup {"none", "deleted"}]
         /\ RepairedAgent(R, t, auto)
              \in [AgentIds -> AgentWorking \cup AgentTerminal \cup {"none", "ready"}]
<1>1. ASSUME NEW r \in RunIds
      PROVE  RepairedStatus(R, t, auto)[r] \in Active \cup Terminal \cup {"none", "deleted"}
  <2>1. CASE r \in Repairable(R) /\ LinkedEnded(r)
    <3>1. RepairedStatus(R, t, auto)[r] = RowStatusOfAgent[AgentOf(r)]
      BY <2>1, RepairedByAgent
    <3>2. AgentOf(r) \in AgentTerminal
      BY <2>1 DEF LinkedEnded
    <3> QED BY <3>1, <3>2, RowStatusOfAgentType
  <2>2. CASE ~(r \in Repairable(R) /\ LinkedEnded(r))
    BY <2>2 DEF RepairedStatus, TypeOK, Terminal
  <2> QED BY <2>1, <2>2
<1>2. RepairedAgent(R, t, auto)
        \in [AgentIds -> AgentWorking \cup AgentTerminal \cup {"none", "ready"}]
  BY DEF RepairedAgent, TypeOK, AgentWorking, AgentTerminal
<1> QED BY <1>1, <1>2 DEF RepairedStatus

-----------------------------------------------------------------------------
(* Type correctness, one lemma per actor *)

\* The steps of the scheduler tick preserve the types.
LEMMA TypeOKTick ==
  ASSUME TypeOK, TickStep
  PROVE  TypeOK'
<1> USE DEF rowVars, clockVars, launchVars, agentVars, tickVars, envVars
<1>1. CASE TickBegin
  BY <1>1 DEF TypeOK, TickBegin
<1>2. CASE StartupTickPaused
  BY <1>2 DEF TypeOK, StartupTickPaused
<1>3. CASE TickRepair
  <2> DEFINE t == [lapsed |-> lapsed \cap now.lapsed, overdue |-> overdue \cap now.overdue]
  <2>1. PICK auto \in SUBSET AutoResolvable(RunIds) :
          /\ status' = RepairedStatus(RunIds, t, auto)
          /\ agent' = RepairedAgent(RunIds, t, auto)
    BY <1>3 DEF TickRepair, RepairRows
  <2>2. /\ status' \in [RunIds -> Active \cup Terminal \cup {"none", "deleted"}]
        /\ agent' \in [AgentIds -> AgentWorking \cup AgentTerminal \cup {"none", "ready"}]
    BY <2>1, RepairType
  <2> QED BY <1>3, <2>2 DEF TypeOK, TickRepair, NoTime
<1>4. CASE TickEnd
  BY <1>4 DEF TypeOK, TickEnd
<1>5. ASSUME NEW r \in RunIds, TickResume(r)
      PROVE  TypeOK'
  BY <1>5, SetStatusType DEF TypeOK, TickResume, Active
<1>6. ASSUME NEW r \in RunIds, TickPasses(r)
      PROVE  TypeOK'
  BY <1>6 DEF TypeOK, TickPasses
<1>7. ASSUME NEW r \in RunIds, TickFails(r)
      PROVE  TypeOK'
  BY <1>7 DEF TypeOK, TickFails, NoTime
<1>8. ASSUME NEW j \in Jobs, TickLeaves(j)
      PROVE  TypeOK'
  BY <1>8 DEF TypeOK, TickLeaves
<1>9. ASSUME NEW j \in Jobs, NEW r \in RunIds, TickQueue(j, r)
      PROVE  TypeOK'
  BY <1>9 DEF TypeOK, TickQueue, CreateRow, Active
<1> QED BY <1>1, <1>2, <1>3, <1>4, <1>5, <1>6, <1>7, <1>8, <1>9 DEF TickStep

\* A call of launchBackgroundJobRun preserves the types.
LEMMA TypeOKLaunchCall ==
  ASSUME TypeOK, LaunchCall
  PROVE  TypeOK'
<1> USE DEF rowVars, clockVars, launchVars, agentVars, tickVars, envVars
<1>1. ASSUME NEW r \in RunIds, LaunchSkipped(r)
      PROVE  TypeOK'
  BY <1>1 DEF TypeOK, LaunchSkipped, StopAwaiting
<1>2. ASSUME NEW r \in RunIds, LaunchRefused(r)
      PROVE  TypeOK'
  BY <1>2, SetStatusType DEF TypeOK, LaunchRefused, StopAwaiting, Terminal
<1>3. ASSUME NEW r \in RunIds, NEW l \in Launches, LaunchBegins(r, l)
      PROVE  TypeOK'
  BY <1>3, SetStatusType DEF TypeOK, LaunchBegins, Active
<1> QED BY <1>1, <1>2, <1>3 DEF LaunchCall

\* The steps of an executor preserve the types: its launch has a row, and
\* that row the agent run it works on.
LEMMA TypeOKExecutor ==
  ASSUME TypeOK, LaunchHasRun, NEW l \in Launches, ExecutorStep(l)
  PROVE  TypeOK'
<1> USE DEF rowVars, clockVars, launchVars, agentVars, tickVars, envVars
<1>1. CASE ShellStarts(l)
  BY <1>1 DEF TypeOK, ShellStarts
<1>2. CASE PlanResumed(l)
  <2>1. agent' \in [AgentIds -> AgentWorking \cup AgentTerminal \cup {"none", "ready"}]
    BY <1>2, SetAgentType DEF PlanResumed, AgentWorking
  <2>2. agentOf[l] \in AgentIds /\ link' \in [RunIds -> {0} \cup AgentIds]
    BY <1>2 DEF TypeOK, PlanResumed, PlanReady
  <2> QED BY <1>2, <2>1, <2>2 DEF TypeOK, PlanResumed
<1>3. ASSUME NEW a \in AgentIds, PlanningBegins(l, a)
      PROVE  TypeOK'
  BY <1>3 DEF TypeOK, PlanningBegins, AgentWorking
<1>4. CASE LaunchDisowned(l)
  BY <1>4 DEF TypeOK, LaunchDisowned, EndLaunch, StopAwaiting
<1>5. CASE PlannerAsks(l)
  <2>1. PICK out \in {<<"awaiting-user-input", "awaiting-user-input">>,
                      <<"succeeded", "awaiting-user-input">>, <<"skipped", "planning">>} :
          /\ status' = SetStatus(runOf[l], out[1])
          /\ agent' = [agent EXCEPT ![agentOf[l]] = out[2]]
    BY <1>5 DEF PlannerAsks
  <2>2. /\ out[1] \in Active \cup Terminal
        /\ out[2] \in AgentWorking
    BY <2>1 DEF Active, Terminal, AgentWorking
  <2>3. /\ status' \in [RunIds -> Active \cup Terminal \cup {"none", "deleted"}]
        /\ agent' \in [AgentIds -> AgentWorking \cup AgentTerminal \cup {"none", "ready"}]
    BY <2>1, <2>2, SetStatusType DEF TypeOK
  <2> QED BY <1>5, <2>3 DEF TypeOK, PlannerAsks, EndLaunch, StopAwaiting
<1>6. CASE PlannerPlans(l)
  BY <1>6 DEF TypeOK, PlannerPlans
<1>7. CASE ExecutionBegins(l)
  BY <1>7, SetAgentType DEF TypeOK, ExecutionBegins, AgentWorking
<1>8. CASE ExecutionEnds(l)
  <2>1. /\ status' \in [RunIds -> Active \cup Terminal \cup {"none", "deleted"}]
        /\ agent' \in [AgentIds -> AgentWorking \cup AgentTerminal \cup {"none", "ready"}]
    BY <1>8, SetStatusType, SetAgentType DEF ExecutionEnds, Terminal, AgentTerminal
  <2> QED BY <1>8, <2>1 DEF TypeOK, ExecutionEnds, EndLaunch, StopAwaiting
<1>9. ASSUME NEW q \in RunIds, RecoveryQueued(l, q)
      PROVE  TypeOK'
  <2>1. /\ SetStatus(runOf[l], "partial-complete")
             \in [RunIds -> Active \cup Terminal \cup {"none", "deleted"}]
        /\ agent' \in [AgentIds -> AgentWorking \cup AgentTerminal \cup {"none", "ready"}]
    BY <1>9, SetStatusType, SetAgentType DEF RecoveryQueued, TypeOK, Terminal, AgentTerminal
  <2>2. runOf[l] \in RunIds
    BY <1>9 DEF LaunchHasRun, Running, RecoveryQueued
  <2> QED BY <1>9, <2>1, <2>2 DEF TypeOK, RecoveryQueued, CreateRow, EndLaunch, Active
<1>10. CASE ShellExits(l)
  <2>1. status' \in [RunIds -> Active \cup Terminal \cup {"none", "deleted"}]
    BY <1>10, SetStatusType DEF ShellExits, Terminal
  <2> QED BY <1>10, <2>1 DEF TypeOK, ShellExits, EndLaunch, StopAwaiting
<1>11. CASE LaunchThrows(l)
  <2>1. status' \in [RunIds -> Active \cup Terminal \cup {"none", "deleted"}]
    BY <1>11, SetStatusType DEF LaunchThrows, Active, Terminal
  <2> QED BY <1>11, <2>1 DEF TypeOK, LaunchThrows, EndLaunch, StopAwaiting
<1> QED BY <1>1, <1>2, <1>3, <1>4, <1>5, <1>6, <1>7, <1>8, <1>9, <1>10, <1>11
        DEF ExecutorStep

\* Timers and the passing of time preserve the types.
LEMMA TypeOKTimer ==
  ASSUME TypeOK, TimerStep
  PROVE  TypeOK'
<1> USE DEF rowVars, clockVars, launchVars, agentVars, tickVars, envVars
<1>1. ASSUME NEW r \in RunIds, RenewStops(r)
      PROVE  TypeOK'
  BY <1>1 DEF TypeOK, RenewStops
<1>2. ASSUME NEW r \in RunIds, LeaseLapses(r)
      PROVE  TypeOK'
  BY <1>2 DEF TypeOK, LeaseLapses
<1>3. ASSUME NEW r \in RunIds, RunBecomesOverdue(r)
      PROVE  TypeOK'
  BY <1>3 DEF TypeOK, RunBecomesOverdue
<1>4. ASSUME NEW j \in Jobs, JobBecomesDue(j)
      PROVE  TypeOK'
  BY <1>4 DEF TypeOK, JobBecomesDue
<1> QED BY <1>1, <1>2, <1>3, <1>4 DEF TimerStep

\* The commands of the user preserve the types.
LEMMA TypeOKCommand ==
  ASSUME TypeOK, CommandStep
  PROVE  TypeOK'
<1> USE DEF rowVars, clockVars, launchVars, agentVars, tickVars, envVars
<1>1. ASSUME NEW j \in Jobs, RunNow(j)
      PROVE  TypeOK'
  <2> DEFINE R == {r \in RunIds : jobOf[r] = j}
             t == [lapsed |-> lapsed, overdue |-> overdue]
  <2>1. PICK auto \in SUBSET AutoResolvable(R) :
          /\ agent' = RepairedAgent(R, t, auto)
          /\ \/ /\ status' = RepairedStatus(R, t, auto)
                /\ UNCHANGED <<jobOf, trigger, approval, lease, link, attempts, pending>>
             \/ \E q \in RunIds :
                  /\ CreateRow(RepairedStatus(R, t, auto), q, j, "manual", "queued", "approved")
                  /\ pending' = {q}
    BY <1>1 DEF RunNow
  <2>2. /\ RepairedStatus(R, t, auto) \in [RunIds -> Active \cup Terminal \cup {"none", "deleted"}]
        /\ RepairedAgent(R, t, auto)
             \in [AgentIds -> AgentWorking \cup AgentTerminal \cup {"none", "ready"}]
    BY RepairType
  <2>3. UNCHANGED <<clockVars, pc, runOf, agentOf, control, fg, tickVars, envVars>>
    BY <1>1 DEF RunNow
  <2> HIDE DEF R, t
  <2> QED BY <2>1, <2>2, <2>3 DEF TypeOK, CreateRow, Active
<1>2. ASSUME NEW r \in RunIds, RetryRun(r)
      PROVE  TypeOK'
  BY <1>2 DEF TypeOK, RetryRun, CreateRow, Active
<1>3. ASSUME NEW r \in RunIds, ApproveRun(r)
      PROVE  TypeOK'
  BY <1>3, SetStatusType DEF TypeOK, ApproveRun, Active
<1>4. ASSUME NEW r \in RunIds, RejectRun(r)
      PROVE  TypeOK'
  BY <1>4, SetStatusType DEF TypeOK, RejectRun, Terminal
<1>5. ASSUME NEW r \in RunIds, StopRun(r)
      PROVE  TypeOK'
  BY <1>5, SetStatusType DEF TypeOK, StopRun, StopRuns, Terminal, AgentTerminal
<1>6. ASSUME NEW j \in Jobs, DeleteJob(j)
      PROVE  TypeOK'
  BY <1>6 DEF TypeOK, DeleteJob, StopRuns, DeleteRows, AgentTerminal
<1>7. ASSUME NEW j \in Jobs, SetJobStatus(j)
      PROVE  TypeOK'
  BY <1>7 DEF TypeOK, SetJobStatus
<1>8. CASE PauseAll
  BY <1>8 DEF TypeOK, PauseAll
<1>9. CASE ResumeAll
  BY <1>9 DEF TypeOK, ResumeAll
<1>10. CASE Release
  BY <1>10 DEF TypeOK, Release
<1>11. CASE AssistantChanges
  BY <1>11 DEF TypeOK, AssistantChanges
<1>12. CASE DeleteAssistant
  BY <1>12 DEF TypeOK, DeleteAssistant, DeleteRows
<1>13. ASSUME NEW a \in AgentIds, AnswerQuestion(a)
       PROVE  TypeOK'
  BY <1>13 DEF TypeOK, AnswerQuestion, Active, AgentWorking
<1>14. ASSUME NEW a \in AgentIds, ExecuteRequested(a)
       PROVE  TypeOK'
  BY <1>14 DEF TypeOK, ExecuteRequested
<1> QED BY <1>1, <1>2, <1>3, <1>4, <1>5, <1>6, <1>7, <1>8, <1>9, <1>10, <1>11,
           <1>12, <1>13, <1>14 DEF CommandStep

\* The foreground handlers preserve the types.
LEMMA TypeOKForeground ==
  ASSUME TypeOK, NEW a \in AgentIds, ForegroundStep(a)
  PROVE  TypeOK'
<1> USE DEF rowVars, clockVars, launchVars, agentVars, tickVars, envVars
<1>1. CASE PreflightPasses(a)
  BY <1>1, SetAgentType DEF TypeOK, PreflightPasses, AgentWorking
<1>2. CASE PreflightFails(a)
  BY <1>2 DEF TypeOK, PreflightFails
<1>3. CASE ForegroundAsks(a)
  BY <1>3, SetAgentType DEF TypeOK, ForegroundAsks, AgentWorking
<1>4. CASE ForegroundPlans(a)
  BY <1>4 DEF TypeOK, ForegroundPlans
<1>5. CASE ForegroundCompletes(a)
  <2>1. agent' \in [AgentIds -> AgentWorking \cup AgentTerminal \cup {"none", "ready"}]
    BY <1>5, SetAgentType DEF ForegroundCompletes, AgentTerminal
  <2> QED BY <1>5, <2>1 DEF TypeOK, ForegroundCompletes
<1>6. CASE ForegroundFails(a)
  <2>1. agent' \in [AgentIds -> AgentWorking \cup AgentTerminal \cup {"none", "ready"}]
    BY <1>6, SetAgentType DEF ForegroundFails, AgentTerminal
  <2>2. status' \in [RunIds -> Active \cup Terminal \cup {"none", "deleted"}]
    BY <1>6 DEF TypeOK, ForegroundFails, Terminal
  <2> QED BY <1>6, <2>1, <2>2 DEF TypeOK, ForegroundFails
<1> QED BY <1>1, <1>2, <1>3, <1>4, <1>5, <1>6 DEF ForegroundStep

\* The writes of a repair that a crash cuts short are well typed.
LEMMA PartlyRepairedType ==
  ASSUME TypeOK, NEW R \in SUBSET RunIds, NEW t, PartlyRepaired(R, t)
  PROVE  /\ status' \in [RunIds -> Active \cup Terminal \cup {"none", "deleted"}]
         /\ agent' \in [AgentIds -> AgentWorking \cup AgentTerminal \cup {"none", "ready"}]
<1>1. ASSUME NEW done \in SUBSET R, NEW next \in R,
             status' = RepairedStatus(done, t, {}),
             agent' = RepairedAgent(done \cup {next}, t, {})
      PROVE  /\ status' \in [RunIds -> Active \cup Terminal \cup {"none", "deleted"}]
             /\ agent' \in [AgentIds -> AgentWorking \cup AgentTerminal \cup {"none", "ready"}]
  <2>1. done \in SUBSET RunIds /\ done \cup {next} \in SUBSET RunIds
    OBVIOUS
  <2>2. {} \in SUBSET AutoResolvable(done) /\ {} \in SUBSET AutoResolvable(done \cup {next})
    OBVIOUS
  <2>3. RepairedStatus(done, t, {}) \in [RunIds -> Active \cup Terminal \cup {"none", "deleted"}]
    BY <2>1, <2>2, RepairType
  <2>4. RepairedAgent(done \cup {next}, t, {})
          \in [AgentIds -> AgentWorking \cup AgentTerminal \cup {"none", "ready"}]
    BY <2>1, <2>2, RepairType
  <2> QED BY <1>1, <2>3, <2>4
<1>2. ASSUME NEW auto \in SUBSET AutoResolvable(R), NEW next \in AutoResolvable(R),
             status' = RepairedStatus(R, t, auto),
             agent' = RepairedAgent(R, t, auto \cup {next})
      PROVE  /\ status' \in [RunIds -> Active \cup Terminal \cup {"none", "deleted"}]
             /\ agent' \in [AgentIds -> AgentWorking \cup AgentTerminal \cup {"none", "ready"}]
  <2>1. auto \cup {next} \in SUBSET AutoResolvable(R)
    OBVIOUS
  <2>2. RepairedStatus(R, t, auto) \in [RunIds -> Active \cup Terminal \cup {"none", "deleted"}]
    BY RepairType
  <2>3. RepairedAgent(R, t, auto \cup {next})
          \in [AgentIds -> AgentWorking \cup AgentTerminal \cup {"none", "ready"}]
    BY <2>1, RepairType
  <2> QED BY <1>2, <2>2, <2>3
<1> QED BY <1>1, <1>2 DEF PartlyRepaired

\* So are those of any handler that a crash cuts short.
LEMMA CrashInHandlerType ==
  ASSUME TypeOK, CrashInHandler
  PROVE  /\ MemoryLost
         /\ status' \in [RunIds -> Active \cup Terminal \cup {"none", "deleted"}]
         /\ agent' \in [AgentIds -> AgentWorking \cup AgentTerminal \cup {"none", "ready"}]
<1> DEFINE Typed ==
             /\ MemoryLost
             /\ status' \in [RunIds -> Active \cup Terminal \cup {"none", "deleted"}]
             /\ agent' \in [AgentIds -> AgentWorking \cup AgentTerminal \cup {"none", "ready"}]
<1>1. ASSUME NEW l \in Launches, NEW a \in AgentIds, CrashInPlanningBegins(l, a)
      PROVE  Typed
  BY <1>1 DEF TypeOK, CrashInPlanningBegins, AgentWorking
<1>2. ASSUME NEW l \in Launches, CrashInPlannerAsks(l)
      PROVE  Typed
  BY <1>2 DEF TypeOK, CrashInPlannerAsks, AgentWorking
<1>3. ASSUME NEW l \in Launches, CrashInExecutionEnds(l)
      PROVE  Typed
  <2>1. SetStatus(runOf[l], "partial-complete")
          \in [RunIds -> Active \cup Terminal \cup {"none", "deleted"}]
    BY SetStatusType DEF Terminal
  <2>2. \A s \in {"completed", "partial-complete"} : SetAgent(agentOf[l], s)
          \in [AgentIds -> AgentWorking \cup AgentTerminal \cup {"none", "ready"}]
    BY SetAgentType DEF AgentTerminal
  <2> QED BY <1>3, <2>1, <2>2 DEF TypeOK, CrashInExecutionEnds
<1>4. ASSUME NEW a \in AgentIds, CrashInAnswerQuestion(a)
      PROVE  Typed
  BY <1>4 DEF TypeOK, CrashInAnswerQuestion, AgentWorking
<1>5. ASSUME NEW a \in AgentIds, CrashInForegroundFails(a)
      PROVE  Typed
  BY <1>5, SetAgentType DEF TypeOK, CrashInForegroundFails, AgentTerminal
<1>6. ASSUME CrashInTickRepair
      PROVE  Typed
  BY <1>6, PartlyRepairedType DEF CrashInTickRepair
<1>7. ASSUME NEW j \in Jobs, CrashInRunNow(j)
      PROVE  Typed
  BY <1>7, PartlyRepairedType DEF CrashInRunNow
<1>8. ASSUME NEW R \in SUBSET RunIds, PartlyStopped(R)
      PROVE  /\ status' \in [RunIds -> Active \cup Terminal \cup {"none", "deleted"}]
             /\ agent' \in [AgentIds -> AgentWorking \cup AgentTerminal \cup {"none", "ready"}]
  BY <1>8 DEF TypeOK, PartlyStopped, Terminal, AgentTerminal
<1>9. ASSUME NEW j \in Jobs, CrashInDeleteJob(j)
      PROVE  Typed
  BY <1>8, <1>9 DEF CrashInDeleteJob
<1>10. ASSUME NEW r \in RunIds, CrashInStopRun(r)
       PROVE  Typed
  BY <1>8, <1>10 DEF CrashInStopRun
<1>11. ASSUME CrashInShutdown
       PROVE  Typed
  BY <1>11 DEF TypeOK, CrashInShutdown, StoppedAgents, Terminal, AgentTerminal
<1> HIDE DEF Typed
<1>12. Typed
  BY <1>1, <1>2, <1>3, <1>4, <1>5, <1>6, <1>7, <1>9, <1>10, <1>11 DEF CrashInHandler
<1> QED BY <1>12 DEF Typed

\* Crash, shutdown and restart preserve the types.
LEMMA TypeOKProcess ==
  ASSUME TypeOK, ProcessStep
  PROVE  TypeOK'
<1> USE DEF rowVars, clockVars, launchVars, agentVars, tickVars, envVars
<1>0. ASSUME MemoryLost
      PROVE  /\ crashes' \in 0 .. MaxCrashes
             /\ now' \in [lapsed : SUBSET RunIds, overdue : SUBSET RunIds]
             /\ pc' \in [Launches -> {"unused", "starting", "planning", "planned",
                                     "executing", "shell", "done"}]
  <2>1. crashes' \in 0 .. MaxCrashes
    BY <1>0, BoundsAssumption DEF TypeOK, MemoryLost
  <2>2. now' \in [lapsed : SUBSET RunIds, overdue : SUBSET RunIds]
    BY <1>0 DEF MemoryLost, NoTime
  <2>3. pc' \in [Launches -> {"unused", "starting", "planning", "planned",
                             "executing", "shell", "done"}]
    BY <1>0 DEF MemoryLost
  <2> QED BY <2>1, <2>2, <2>3
<1>1. CASE Crash
  BY <1>0, <1>1 DEF TypeOK, Crash, MemoryLost
<1>2. CASE Shutdown
  <2>1. /\ status' \in [RunIds -> Active \cup Terminal \cup {"none", "deleted"}]
        /\ agent' \in [AgentIds -> AgentWorking \cup AgentTerminal \cup {"none", "ready"}]
    BY <1>2 DEF TypeOK, Shutdown, StoppedAgents, Terminal, AgentTerminal
  <2> QED BY <1>0, <1>2, <2>1 DEF TypeOK, Shutdown, MemoryLost
<1>3. CASE Restart
  BY <1>3 DEF TypeOK, Restart, StoppedAgents, AgentTerminal
<1>4. CASE CrashInHandler
  <2>1. /\ MemoryLost
        /\ status' \in [RunIds -> Active \cup Terminal \cup {"none", "deleted"}]
        /\ agent' \in [AgentIds -> AgentWorking \cup AgentTerminal \cup {"none", "ready"}]
    BY <1>4, CrashInHandlerType
  <2> QED BY <1>0, <2>1 DEF TypeOK, MemoryLost
<1> QED BY <1>1, <1>2, <1>3, <1>4 DEF ProcessStep

-----------------------------------------------------------------------------
(* The controllers map, the launches and the rows agree: one lemma per     *)
(* actor again.                                                            *)

\* Zero stands for no row, no launch and no agent run.
LEMMA Zero == 0 \notin RunIds /\ 0 \notin Launches /\ 0 \notin AgentIds
  BY DEF RunIds, Launches, AgentIds

\* A repair pass leaves a row alone or ends it.
LEMMA RepairedStatusMoves ==
  ASSUME TypeOK, NEW R \in SUBSET RunIds, NEW t,
         NEW auto \in SUBSET AutoResolvable(R), NEW r \in RunIds
  PROVE  \/ RepairedStatus(R, t, auto)[r] = status[r]
         \/ status[r] \in Active /\ RepairedStatus(R, t, auto)[r] \in Terminal
<1>1. CASE r \in Repairable(R) /\ LinkedEnded(r)
  BY <1>1, RepairedByAgent, RowStatusOfAgentType DEF Repairable, LinkedEnded
<1>2. CASE ~(r \in Repairable(R) /\ LinkedEnded(r))
  BY <1>2 DEF RepairedStatus, FailedByRepair, Repairable, AutoResolvable, Active, Terminal
<1> QED BY <1>1, <1>2

\* The repair of a tick leaves a row alone or ends it.
LEMMA TickRepairMoves ==
  ASSUME TypeOK, TickRepair
  PROVE  \A r \in RunIds : \/ status'[r] = status[r]
                           \/ status[r] \in Active /\ status'[r] \in Terminal
<1> DEFINE t == [lapsed |-> lapsed \cap now.lapsed, overdue |-> overdue \cap now.overdue]
<1>1. PICK auto \in SUBSET AutoResolvable(RunIds) :
        status' = RepairedStatus(RunIds, t, auto)
  BY DEF TickRepair, RepairRows
<1> HIDE DEF t
<1> QED BY <1>1, RepairedStatusMoves

\* run-now repairs the rows of the job and may add one.
LEMMA RunNowMoves ==
  ASSUME TypeOK, NEW j \in Jobs, RunNow(j)
  PROVE  \A r \in RunIds : \/ status'[r] = status[r]
                           \/ status[r] \in Active /\ status'[r] \in Terminal
                           \/ status[r] = "none" /\ status'[r] = "queued"
<1> DEFINE R == {r \in RunIds : jobOf[r] = j}
           t == [lapsed |-> lapsed, overdue |-> overdue]
<1>1. PICK auto \in SUBSET AutoResolvable(R) :
        \/ status' = RepairedStatus(R, t, auto)
        \/ \E q \in RunIds :
             NextRun(q) /\ status' = [RepairedStatus(R, t, auto) EXCEPT ![q] = "queued"]
  BY DEF RunNow, CreateRow
<1>2. \A r \in RunIds : \/ RepairedStatus(R, t, auto)[r] = status[r]
                        \/ status[r] \in Active /\ RepairedStatus(R, t, auto)[r] \in Terminal
  BY RepairedStatusMoves
<1>3. RepairedStatus(R, t, auto) = [r \in RunIds |-> RepairedStatus(R, t, auto)[r]]
  BY DEF RepairedStatus
<1> HIDE DEF R, t
<1> QED BY <1>1, <1>2, <1>3 DEF NextRun

\* A step that only ends active rows or adds a queued one, and leaves launches,
\* leases and what the tick read alone, preserves the agreement.
LEMMA AgreementRowsEnd ==
  ASSUME Core, TypeOK',
         UNCHANGED <<pc, runOf, control, lease, link, lapsed, resumable>>,
         \A r \in RunIds : \/ status'[r] = status[r]
                           \/ status[r] \in Active /\ status'[r] \in Terminal
                           \/ status[r] = "none" /\ status'[r] = "queued"
  PROVE  Agreement'
<1>1. LaunchHasRun'
  BY DEF Core, Agreement, LaunchHasRun, Running, Active, Terminal
<1>2. ControlHoldsLease'
  BY DEF Core, Agreement, ControlHoldsLease, Running
<1>3. OneLaunchPerRun'
  BY DEF Core, Agreement, OneLaunchPerRun, Running
<1>4. OwnerIsLive'
  <2> SUFFICES ASSUME NEW l \in Launches, Running(l), status'[runOf[l]] \in Active
               PROVE  status'[runOf[l]] = "running" /\ control[runOf[l]] = l
    BY DEF OwnerIsLive, Running
  <2>1. runOf[l] \in RunIds /\ status[runOf[l]] # "none"
    BY DEF Core, Agreement, LaunchHasRun
  <2>2. status'[runOf[l]] = status[runOf[l]]
    BY <2>1 DEF Active, Terminal
  <2> QED BY <2>2 DEF Core, Agreement, OwnerIsLive
<1>5. LapsedIsUnworked'
  BY DEF Core, TypeOK, Agreement, LapsedIsUnworked, Terminal
<1>6. ResumableIsUnworked'
  BY DEF Core, TypeOK, Agreement, ResumableIsUnworked, Active, Terminal
<1>7. FreshIsUnlinked'
  BY DEF Core, Agreement, FreshIsUnlinked, Terminal
<1> QED BY <1>1, <1>2, <1>3, <1>4, <1>5, <1>6, <1>7 DEF Agreement

\* The tick preserves the agreement: it resumes a row only if nobody has it.
LEMMA AgreementTick ==
  ASSUME Core, TickStep, TypeOK'
  PROVE  Agreement'
<1> USE DEF Core
<1> USE DEF rowVars, clockVars, launchVars, agentVars, tickVars, envVars, TypeOK, Running,
            Active, Terminal, Agreement, LaunchHasRun, ControlHoldsLease, OwnerIsLive,
            OneLaunchPerRun, LapsedIsUnworked, ResumableIsUnworked, FreshIsUnlinked
<1>1. CASE TickBegin
  BY <1>1 DEF TickBegin
<1>2. CASE StartupTickPaused
  BY <1>2 DEF StartupTickPaused
<1>3. CASE TickRepair
  <2>1. UNCHANGED <<pc, runOf, control, lease, link, lapsed, resumable>>
    BY <1>3 DEF TickRepair
  <2>2. \A r \in RunIds : \/ status'[r] = status[r]
                          \/ status[r] \in Active /\ status'[r] \in Terminal
    BY <1>3, TickRepairMoves
  <2> QED BY <2>1, <2>2, AgreementRowsEnd
<1>4. CASE TickEnd
  BY <1>4 DEF TickEnd
<1>5. ASSUME NEW r \in RunIds, TickResume(r)
      PROVE  Agreement'
  <2>1. \A l \in Launches : Running(l) /\ runOf[l] = r => status[r] \notin Active
    BY <1>5, Zero DEF TickResume
  <2>2. OwnerIsLive'
    BY <1>5, <2>1 DEF TickResume, SetStatus
  <2>3. LaunchHasRun' /\ ControlHoldsLease' /\ OneLaunchPerRun' /\ LapsedIsUnworked'
    BY <1>5 DEF TickResume, SetStatus
  <2>4. ResumableIsUnworked' /\ FreshIsUnlinked'
    BY <1>5 DEF TickResume, SetStatus
  <2> QED BY <2>2, <2>3, <2>4
<1>6. ASSUME NEW r \in RunIds, TickPasses(r)
      PROVE  Agreement'
  BY <1>6 DEF TickPasses
<1>7. ASSUME NEW r \in RunIds, TickFails(r)
      PROVE  Agreement'
  BY <1>7 DEF TickFails
<1>8. ASSUME NEW j \in Jobs, TickLeaves(j)
      PROVE  Agreement'
  BY <1>8 DEF TickLeaves
<1>9. ASSUME NEW j \in Jobs, NEW r \in RunIds, TickQueue(j, r)
      PROVE  Agreement'
  BY <1>9 DEF TickQueue, CreateRow, NextRun
<1> QED BY <1>1, <1>2, <1>3, <1>4, <1>5, <1>6, <1>7, <1>8, <1>9 DEF TickStep

\* A launch that begins takes a queued row nobody has, and its lease.
LEMMA AgreementLaunchCall ==
  ASSUME Core, LaunchCall, TypeOK'
  PROVE  Agreement'
<1> USE DEF Core
<1> USE DEF rowVars, clockVars, launchVars, agentVars, tickVars, envVars, TypeOK, Running,
            Active, Terminal, Agreement, LaunchHasRun, ControlHoldsLease, OwnerIsLive,
            OneLaunchPerRun, LapsedIsUnworked, ResumableIsUnworked, FreshIsUnlinked
<1>1. ASSUME NEW r \in RunIds, LaunchSkipped(r)
      PROVE  Agreement'
  BY <1>1 DEF LaunchSkipped
<1>2. ASSUME NEW r \in RunIds, LaunchRefused(r)
      PROVE  Agreement'
  BY <1>2 DEF LaunchRefused, SetStatus
<1>3. ASSUME NEW r \in RunIds, NEW l \in Launches, LaunchBegins(r, l)
      PROVE  Agreement'
  BY <1>3 DEF LaunchBegins, SetStatus, NextLaunch
<1> QED BY <1>1, <1>2, <1>3 DEF LaunchCall

\* An executor gives up its row and its controller together, and touches
\* no other.
LEMMA AgreementExecutor ==
  ASSUME Core, NEW l \in Launches, ExecutorStep(l), TypeOK'
  PROVE  Agreement'
<1> USE DEF Core
<1> USE DEF rowVars, clockVars, launchVars, agentVars, tickVars, envVars, TypeOK, Running,
            Active, Terminal, Agreement, LaunchHasRun, ControlHoldsLease, OwnerIsLive,
            OneLaunchPerRun, LapsedIsUnworked, ResumableIsUnworked, FreshIsUnlinked
<1>1. CASE ShellStarts(l)
  BY <1>1 DEF ShellStarts
<1>2. CASE PlanResumed(l)
  BY <1>2 DEF PlanResumed, Owned
<1>3. ASSUME NEW a \in AgentIds, PlanningBegins(l, a)
      PROVE  Agreement'
  BY <1>3 DEF PlanningBegins, Owned
<1>4. CASE LaunchDisowned(l)
  BY <1>4 DEF LaunchDisowned, Owned, EndLaunch
<1>5. CASE PlannerAsks(l)
  <2>1. pc[l] = "planning" /\ status[runOf[l]] = "running"
    BY <1>5 DEF PlannerAsks, Owned
  <2>2. control[runOf[l]] = l
    BY <2>1
  <2>3. runOf[l] \notin resumable
    BY <2>1, <2>2, Zero, SMTT(30)
  <2>4. \A q \in RunIds \ {runOf[l]} : status'[q] = status[q]
    BY <1>5 DEF PlannerAsks, SetStatus
  <2>5. ResumableIsUnworked'
    BY <1>5, <2>3, <2>4 DEF PlannerAsks, EndLaunch
  <2>6. LaunchHasRun' /\ OneLaunchPerRun'
    BY <1>5, <2>4 DEF PlannerAsks, Owned, SetStatus, EndLaunch
  <2>7. ControlHoldsLease'
    BY <1>5 DEF PlannerAsks, EndLaunch
  <2>8. OwnerIsLive' /\ LapsedIsUnworked' /\ FreshIsUnlinked'
    BY <1>5 DEF PlannerAsks, Owned, SetStatus, EndLaunch
  <2> QED BY <2>5, <2>6, <2>7, <2>8
<1>6. CASE PlannerPlans(l)
  BY <1>6 DEF PlannerPlans
<1>7. CASE ExecutionBegins(l)
  BY <1>7 DEF ExecutionBegins
<1>8. CASE ExecutionEnds(l)
  BY <1>8 DEF ExecutionEnds, SetStatus, Owned, EndLaunch
<1>9. ASSUME NEW q \in RunIds, RecoveryQueued(l, q)
      PROVE  Agreement'
  <2>1. /\ status[q] = "none" /\ status'[q] = "queued"
        /\ \A p \in RunIds \ {q} : status'[p] = SetStatus(runOf[l], "partial-complete")[p]
    BY <1>9 DEF RecoveryQueued, CreateRow, NextRun, SetStatus
  <2>2. \A m \in Launches \ {l} : Running(m) => runOf[m] \notin {q, runOf[l]}
    BY <1>9, <2>1 DEF RecoveryQueued
  <2>3. \A m \in Launches : Running(m)' => m # l /\ Running(m) /\ runOf'[m] = runOf[m]
    BY <1>9 DEF RecoveryQueued, EndLaunch
  <2>4. \A m \in Launches : Running(m)' => status'[runOf'[m]] = status[runOf[m]]
    BY <2>1, <2>2, <2>3 DEF SetStatus
  <2>5. LaunchHasRun' /\ OneLaunchPerRun'
    BY <2>3, <2>4
  <2>6. ControlHoldsLease'
    BY <1>9 DEF RecoveryQueued, EndLaunch, CreateRow
  <2>7. OwnerIsLive'
    BY <1>9, <2>2, <2>3, <2>4 DEF RecoveryQueued, EndLaunch
  <2>8. LapsedIsUnworked' /\ ResumableIsUnworked' /\ FreshIsUnlinked'
    BY <1>9, <2>1 DEF RecoveryQueued, EndLaunch, CreateRow, SetStatus
  <2> QED BY <2>5, <2>6, <2>7, <2>8
<1>10. CASE ShellExits(l)
  BY <1>10 DEF ShellExits, SetStatus, EndLaunch, Owned
<1>11. CASE LaunchThrows(l)
  <2>1. \A q \in RunIds : q # runOf[l] \/ status[q] \notin Active => status'[q] = status[q]
    BY <1>11 DEF LaunchThrows, SetStatus
  <2>2. runOf[l] \notin resumable \/ status[runOf[l]] \notin Active
    BY <1>11, Zero DEF LaunchThrows
  <2>3. ResumableIsUnworked'
    BY <1>11, <2>1, <2>2 DEF LaunchThrows, EndLaunch
  <2>4. LaunchHasRun' /\ ControlHoldsLease' /\ OneLaunchPerRun'
    BY <1>11 DEF LaunchThrows, SetStatus, EndLaunch
  <2>5. OwnerIsLive' /\ LapsedIsUnworked' /\ FreshIsUnlinked'
    BY <1>11 DEF LaunchThrows, SetStatus, EndLaunch
  <2> QED BY <2>3, <2>4, <2>5
<1> QED BY <1>1, <1>2, <1>3, <1>4, <1>5, <1>6, <1>7, <1>8, <1>9, <1>10,
           <1>11 DEF ExecutorStep

\* A renew timer drops a controller only when its row no longer runs; a
\* lease lapses only when nobody renews it.
LEMMA AgreementTimer ==
  ASSUME Core, TimerStep, TypeOK'
  PROVE  Agreement'
<1> USE DEF Core
<1> USE DEF rowVars, clockVars, launchVars, agentVars, tickVars, envVars, TypeOK, Running,
            Active, Terminal, Agreement, LaunchHasRun, ControlHoldsLease, OwnerIsLive,
            OneLaunchPerRun, LapsedIsUnworked, ResumableIsUnworked, FreshIsUnlinked
<1>1. ASSUME NEW r \in RunIds, RenewStops(r)
      PROVE  Agreement'
  BY <1>1 DEF RenewStops
<1>2. ASSUME NEW r \in RunIds, LeaseLapses(r)
      PROVE  Agreement'
  BY <1>2 DEF LeaseLapses
<1>3. ASSUME NEW r \in RunIds, RunBecomesOverdue(r)
      PROVE  Agreement'
  BY <1>3 DEF RunBecomesOverdue
<1>4. ASSUME NEW j \in Jobs, JobBecomesDue(j)
      PROVE  Agreement'
  BY <1>4 DEF JobBecomesDue
<1> QED BY <1>1, <1>2, <1>3, <1>4 DEF TimerStep

\* A command that ends or deletes rows drops their controllers; the others
\* add rows that have no launch yet.
LEMMA AgreementCommand ==
  ASSUME Core, CommandStep, TypeOK'
  PROVE  Agreement'
<1> USE DEF Core
<1> USE DEF rowVars, clockVars, launchVars, agentVars, tickVars, envVars, TypeOK, Running,
            Active, Terminal, Agreement, LaunchHasRun, ControlHoldsLease, OwnerIsLive,
            OneLaunchPerRun, LapsedIsUnworked, ResumableIsUnworked, FreshIsUnlinked
<1>1. ASSUME NEW j \in Jobs, RunNow(j)
      PROVE  Agreement'
  <2>1. UNCHANGED <<pc, runOf, control, lease, link, lapsed, resumable>>
    BY <1>1 DEF RunNow, CreateRow
  <2> QED BY <1>1, <2>1, RunNowMoves, AgreementRowsEnd
<1>2. ASSUME NEW r \in RunIds, RetryRun(r)
      PROVE  Agreement'
  BY <1>2 DEF RetryRun, CreateRow, NextRun
<1>3. ASSUME NEW r \in RunIds, ApproveRun(r)
      PROVE  Agreement'
  BY <1>3 DEF ApproveRun, SetStatus
<1>4. ASSUME NEW r \in RunIds, RejectRun(r)
      PROVE  Agreement'
  BY <1>4 DEF RejectRun, SetStatus
<1>5. ASSUME NEW r \in RunIds, StopRun(r)
      PROVE  Agreement'
  BY <1>5 DEF StopRun, SetStatus, StopRuns
<1>6. ASSUME NEW j \in Jobs, DeleteJob(j)
      PROVE  Agreement'
  BY <1>6 DEF DeleteJob, StopRuns, DeleteRows
<1>7. ASSUME NEW j \in Jobs, SetJobStatus(j)
      PROVE  Agreement'
  BY <1>7 DEF SetJobStatus
<1>8. CASE PauseAll
  BY <1>8 DEF PauseAll
<1>9. CASE ResumeAll
  BY <1>9 DEF ResumeAll
<1>10. CASE Release
  BY <1>10 DEF Release
<1>11. CASE AssistantChanges
  BY <1>11 DEF AssistantChanges
<1>12. CASE DeleteAssistant
  BY <1>12 DEF DeleteAssistant, DeleteRows
<1>13. ASSUME NEW a \in AgentIds, AnswerQuestion(a)
       PROVE  Agreement'
  BY <1>13 DEF AnswerQuestion
<1>14. ASSUME NEW a \in AgentIds, ExecuteRequested(a)
       PROVE  Agreement'
  BY <1>14 DEF ExecuteRequested
<1> QED BY <1>1, <1>2, <1>3, <1>4, <1>5, <1>6, <1>7, <1>8, <1>9, <1>10, <1>11,
           <1>12, <1>13, <1>14 DEF CommandStep

\* The foreground handlers fail the rows of their agent run and launch nothing.
LEMMA AgreementForeground ==
  ASSUME Core, NEW a \in AgentIds, ForegroundStep(a), TypeOK'
  PROVE  Agreement'
<1> USE DEF Core
<1> USE DEF rowVars, clockVars, launchVars, agentVars, tickVars, envVars, TypeOK, Running,
            Active, Terminal, Agreement, LaunchHasRun, ControlHoldsLease, OwnerIsLive,
            OneLaunchPerRun, LapsedIsUnworked, ResumableIsUnworked, FreshIsUnlinked
<1>1. CASE PreflightPasses(a)
  BY <1>1 DEF PreflightPasses
<1>2. CASE PreflightFails(a)
  BY <1>2 DEF PreflightFails
<1>3. CASE ForegroundAsks(a)
  BY <1>3 DEF ForegroundAsks
<1>4. CASE ForegroundPlans(a)
  BY <1>4 DEF ForegroundPlans
<1>5. CASE ForegroundCompletes(a)
  BY <1>5 DEF ForegroundCompletes
<1>6. CASE ForegroundFails(a)
  BY <1>6 DEF ForegroundFails
<1> QED BY <1>1, <1>2, <1>3, <1>4, <1>5, <1>6 DEF ForegroundStep

\* A crash in the middle of a stretch leaves a row alone or ends it.
LEMMA CrashInHandlerMoves ==
  ASSUME TypeOK, CrashInHandler
  PROVE  \A r \in RunIds : \/ status'[r] = status[r]
                           \/ status[r] \in Active /\ status'[r] \in Terminal
<1> DEFINE Moved == \A r \in RunIds : \/ status'[r] = status[r]
                                      \/ status[r] \in Active /\ status'[r] \in Terminal
<1>1. ASSUME UNCHANGED status
      PROVE  Moved
  BY <1>1
<1>2. ASSUME NEW l \in Launches, CrashInExecutionEnds(l)
      PROVE  Moved
  BY <1>2 DEF CrashInExecutionEnds, SetStatus, TypeOK, Terminal
<1>3. ASSUME NEW R \in SUBSET RunIds, NEW t, PartlyRepaired(R, t)
      PROVE  Moved
  <2>1. \A S \in SUBSET RunIds : {} \in SUBSET AutoResolvable(S)
    OBVIOUS
  <2>2. PICK S \in SUBSET RunIds :
          \E auto \in SUBSET AutoResolvable(S) : status' = RepairedStatus(S, t, auto)
    BY <1>3, <2>1 DEF PartlyRepaired
  <2>3. PICK auto \in SUBSET AutoResolvable(S) : status' = RepairedStatus(S, t, auto)
    BY <2>2
  <2> QED BY <2>3, RepairedStatusMoves
<1>4. ASSUME NEW R \in SUBSET RunIds, PartlyStopped(R)
      PROVE  Moved
  BY <1>4 DEF PartlyStopped, TypeOK, Terminal
<1>5. ASSUME CrashInShutdown
      PROVE  Moved
  BY <1>5 DEF CrashInShutdown, TypeOK, Active, Terminal
<1>6. ASSUME CrashInTickRepair
      PROVE  Moved
  BY <1>3, <1>6 DEF CrashInTickRepair
<1>7. ASSUME NEW j \in Jobs, CrashInRunNow(j)
      PROVE  Moved
  BY <1>3, <1>7 DEF CrashInRunNow
<1>8. ASSUME NEW j \in Jobs, CrashInDeleteJob(j)
      PROVE  Moved
  BY <1>4, <1>8 DEF CrashInDeleteJob
<1>9. ASSUME NEW r \in RunIds, CrashInStopRun(r)
      PROVE  Moved
  BY <1>4, <1>9 DEF CrashInStopRun
<1> HIDE DEF Moved
<1>10. Moved
  BY <1>1, <1>2, <1>5, <1>6, <1>7, <1>8, <1>9
     DEF CrashInHandler, CrashInPlanningBegins, CrashInPlannerAsks, CrashInAnswerQuestion,
         CrashInForegroundFails
<1> QED BY <1>10 DEF Moved

\* A crash loses launches and controllers together.
LEMMA AgreementProcess ==
  ASSUME Core, ProcessStep, TypeOK'
  PROVE  Agreement'
<1> USE DEF Core
<1> USE DEF rowVars, clockVars, launchVars, agentVars, tickVars, envVars, TypeOK, Running,
            Active, Terminal, Agreement, LaunchHasRun, ControlHoldsLease, OwnerIsLive,
            OneLaunchPerRun, LapsedIsUnworked, ResumableIsUnworked, FreshIsUnlinked
<1>1. CASE Crash
  BY <1>1 DEF Crash, MemoryLost
<1>2. CASE Shutdown
  BY <1>2 DEF Shutdown, MemoryLost
<1>3. CASE Restart
  BY <1>3 DEF Restart
<1>4. CASE CrashInHandler
  <2>1. MemoryLost
    BY <1>4, CrashInHandlerType
  <2>2. \A r \in RunIds : status'[r] = status[r] \/ status'[r] \in Terminal
    BY <1>4, CrashInHandlerMoves
  <2> QED BY <2>1, <2>2 DEF MemoryLost
<1> QED BY <1>1, <1>2, <1>3, <1>4 DEF ProcessStep

-----------------------------------------------------------------------------
(* The life cycle of a row                                                 *)

\* A repair pass takes a row along its life cycle.
LEMMA RepairedStatusMayBecome ==
  ASSUME TypeOK, FreshIsUnlinked, NEW R \in SUBSET RunIds, NEW t,
         NEW auto \in SUBSET AutoResolvable(R), NEW r \in RunIds
  PROVE  Lifecycle!MayBecome(status[r], RepairedStatus(R, t, auto)[r])
<1> USE DEF Lifecycle!MayBecome, Lifecycle!Successors, Lifecycle!Active, Lifecycle!Terminal
<1>1. status[r] = "awaiting-approval" => ~LinkedEnded(r) /\ ~PlanReady(link[r])
  BY DEF FreshIsUnlinked, LinkedEnded, AgentOf, PlanReady, AgentTerminal
<1>2. CASE r \in Repairable(R) /\ LinkedEnded(r)
  <2>1. RepairedStatus(R, t, auto)[r] \in Terminal \ {"skipped"}
    BY <1>2, RepairedByAgent, RowStatusOfAgentType DEF LinkedEnded
  <2>2. status[r] \in Active \ {"awaiting-approval"}
    BY <1>1, <1>2 DEF Repairable
  <2> QED BY <2>1, <2>2 DEF Active, Terminal
<1>3. CASE ~(r \in Repairable(R) /\ LinkedEnded(r))
  <2>1. \/ RepairedStatus(R, t, auto)[r] = status[r]
        \/ RepairedStatus(R, t, auto)[r] = "failed" /\ r \in FailedByRepair(R, t)
        \/ RepairedStatus(R, t, auto)[r] = "skipped" /\ r \in auto
    BY <1>3 DEF RepairedStatus
  <2>2. r \in FailedByRepair(R, t) => status[r] \in Active \ {"awaiting-approval"}
    BY <1>1 DEF FailedByRepair, Repairable, ControllerLost, TimedOut, Active
  <2>3. r \in auto => status[r] = "awaiting-user-input"
    BY DEF AutoResolvable
  <2> QED BY <2>1, <2>2, <2>3 DEF Active
<1> QED BY <1>2, <1>3

\* So does the repair of a tick.
LEMMA TickRepairMayBecome ==
  ASSUME TypeOK, FreshIsUnlinked, TickRepair, NEW r \in RunIds
  PROVE  Lifecycle!MayBecome(status[r], status'[r])
<1> DEFINE t == [lapsed |-> lapsed \cap now.lapsed, overdue |-> overdue \cap now.overdue]
<1>1. PICK auto \in SUBSET AutoResolvable(RunIds) :
        status' = RepairedStatus(RunIds, t, auto)
  BY DEF TickRepair, RepairRows
<1> HIDE DEF t
<1> QED BY <1>1, RepairedStatusMayBecome

\* So does run-now, which repairs before it adds a row.
LEMMA RunNowMayBecome ==
  ASSUME TypeOK, FreshIsUnlinked, NEW j \in Jobs, RunNow(j), NEW r \in RunIds
  PROVE  Lifecycle!MayBecome(status[r], status'[r])
<1> DEFINE R == {q \in RunIds : jobOf[q] = j}
           t == [lapsed |-> lapsed, overdue |-> overdue]
<1>1. PICK auto \in SUBSET AutoResolvable(R) :
        \/ status' = RepairedStatus(R, t, auto)
        \/ \E q \in RunIds :
             NextRun(q) /\ status' = [RepairedStatus(R, t, auto) EXCEPT ![q] = "queued"]
  BY DEF RunNow, CreateRow
<1>2. Lifecycle!MayBecome(status[r], RepairedStatus(R, t, auto)[r])
  BY RepairedStatusMayBecome
<1>3. RepairedStatus(R, t, auto) = [q \in RunIds |-> RepairedStatus(R, t, auto)[q]]
  BY DEF RepairedStatus
<1> HIDE DEF R, t
<1>4. CASE status'[r] = RepairedStatus(R, t, auto)[r]
  BY <1>2, <1>4
<1>5. CASE status[r] = "none" /\ status'[r] = "queued"
  BY <1>5 DEF Lifecycle!MayBecome, Lifecycle!Successors
<1> QED BY <1>1, <1>3, <1>4, <1>5 DEF NextRun

\* So does a repair that a crash cuts short.
LEMMA PartlyRepairedMayBecome ==
  ASSUME TypeOK, FreshIsUnlinked, NEW R \in SUBSET RunIds, NEW t, PartlyRepaired(R, t),
         NEW r \in RunIds
  PROVE  Lifecycle!MayBecome(status[r], status'[r])
<1>1. \A S \in SUBSET RunIds : {} \in SUBSET AutoResolvable(S)
  OBVIOUS
<1>2. PICK S \in SUBSET RunIds :
        \E auto \in SUBSET AutoResolvable(S) : status' = RepairedStatus(S, t, auto)
  BY <1>1 DEF PartlyRepaired
<1>3. PICK auto \in SUBSET AutoResolvable(S) : status' = RepairedStatus(S, t, auto)
  BY <1>2
<1> QED BY <1>3, RepairedStatusMayBecome

\* So does whatever part of a handler's writes a crash lets through.
LEMMA CrashInHandlerMayBecome ==
  ASSUME TypeOK, FreshIsUnlinked, CrashInHandler, NEW r \in RunIds
  PROVE  Lifecycle!MayBecome(status[r], status'[r])
<1> USE DEF TypeOK, Lifecycle!MayBecome, Lifecycle!Successors, Lifecycle!Active,
            Lifecycle!Terminal, Active, Terminal
<1>1. ASSUME UNCHANGED status
      PROVE  Lifecycle!MayBecome(status[r], status'[r])
  BY <1>1
<1>2. ASSUME NEW l \in Launches, CrashInExecutionEnds(l)
      PROVE  Lifecycle!MayBecome(status[r], status'[r])
  BY <1>2 DEF CrashInExecutionEnds, SetStatus, Owned
<1>3. ASSUME NEW R \in SUBSET RunIds, NEW t, PartlyRepaired(R, t)
      PROVE  Lifecycle!MayBecome(status[r], status'[r])
  BY <1>3, PartlyRepairedMayBecome
<1>4. ASSUME NEW R \in SUBSET RunIds, PartlyStopped(R)
      PROVE  Lifecycle!MayBecome(status[r], status'[r])
  BY <1>4 DEF PartlyStopped
<1>5. CASE CrashInShutdown
  BY <1>5 DEF CrashInShutdown
<1>6. CASE CrashInTickRepair
  BY <1>3, <1>6 DEF CrashInTickRepair
<1>7. ASSUME NEW j \in Jobs, CrashInRunNow(j)
      PROVE  Lifecycle!MayBecome(status[r], status'[r])
  BY <1>3, <1>7 DEF CrashInRunNow
<1>8. ASSUME NEW j \in Jobs, CrashInDeleteJob(j)
      PROVE  Lifecycle!MayBecome(status[r], status'[r])
  BY <1>4, <1>8 DEF CrashInDeleteJob
<1>9. ASSUME NEW q \in RunIds, CrashInStopRun(q)
      PROVE  Lifecycle!MayBecome(status[r], status'[r])
  BY <1>4, <1>9 DEF CrashInStopRun
<1> QED
  BY <1>1, <1>2, <1>5, <1>6, <1>7, <1>8, <1>9
     DEF CrashInHandler, CrashInPlanningBegins, CrashInPlannerAsks, CrashInAnswerQuestion,
         CrashInForegroundFails

\* Every step takes every row along the life cycle.
LEMMA LifecycleStep ==
  ASSUME Core, Next, NEW q \in RunIds
  PROVE  Lifecycle!MayBecome(status[q], status'[q])
<1> USE DEF rowVars, Core, TypeOK, Lifecycle!MayBecome, Lifecycle!Successors,
            Lifecycle!Active, Lifecycle!Terminal, Active, Terminal
<1>1. ASSUME UNCHANGED status
      PROVE  Lifecycle!MayBecome(status[q], status'[q])
  BY <1>1
<1>2. CASE TickRepair
  BY <1>2, TickRepairMayBecome DEF Agreement
<1>3. ASSUME NEW r \in RunIds, TickResume(r)
      PROVE  Lifecycle!MayBecome(status[q], status'[q])
  BY <1>3 DEF TickResume, SetStatus, Agreement, ResumableIsUnworked
<1>4. ASSUME NEW j \in Jobs, NEW r \in RunIds, TickQueue(j, r)
      PROVE  Lifecycle!MayBecome(status[q], status'[q])
  BY <1>4 DEF TickQueue, CreateRow, NextRun
<1>5. ASSUME NEW r \in RunIds, LaunchRefused(r)
      PROVE  Lifecycle!MayBecome(status[q], status'[q])
  BY <1>5 DEF LaunchRefused, SetStatus
<1>6. ASSUME NEW r \in RunIds, NEW l \in Launches, LaunchBegins(r, l)
      PROVE  Lifecycle!MayBecome(status[q], status'[q])
  BY <1>6 DEF LaunchBegins, SetStatus
<1>7. ASSUME NEW l \in Launches, PlannerAsks(l)
      PROVE  Lifecycle!MayBecome(status[q], status'[q])
  BY <1>7 DEF PlannerAsks, SetStatus, Owned
<1>8. ASSUME NEW l \in Launches, ExecutionEnds(l)
      PROVE  Lifecycle!MayBecome(status[q], status'[q])
  BY <1>8 DEF ExecutionEnds, SetStatus, Owned
<1>9. ASSUME NEW l \in Launches, NEW n \in RunIds, RecoveryQueued(l, n)
      PROVE  Lifecycle!MayBecome(status[q], status'[q])
  BY <1>9 DEF RecoveryQueued, CreateRow, NextRun, SetStatus, Owned
<1>10. ASSUME NEW l \in Launches, ShellExits(l)
       PROVE  Lifecycle!MayBecome(status[q], status'[q])
  BY <1>10 DEF ShellExits, SetStatus, Owned
<1>11. ASSUME NEW l \in Launches, LaunchThrows(l)
       PROVE  Lifecycle!MayBecome(status[q], status'[q])
  BY <1>11 DEF LaunchThrows, SetStatus, Running, Agreement, OwnerIsLive
<1>12. ASSUME NEW j \in Jobs, RunNow(j)
       PROVE  Lifecycle!MayBecome(status[q], status'[q])
  BY <1>12, RunNowMayBecome DEF Agreement
<1>13. ASSUME NEW r \in RunIds, RetryRun(r)
       PROVE  Lifecycle!MayBecome(status[q], status'[q])
  BY <1>13 DEF RetryRun, CreateRow, NextRun
<1>14. ASSUME NEW r \in RunIds, ApproveRun(r)
       PROVE  Lifecycle!MayBecome(status[q], status'[q])
  BY <1>14 DEF ApproveRun, SetStatus
<1>15. ASSUME NEW r \in RunIds, RejectRun(r)
       PROVE  Lifecycle!MayBecome(status[q], status'[q])
  BY <1>15 DEF RejectRun, SetStatus
<1>16. ASSUME NEW r \in RunIds, StopRun(r)
       PROVE  Lifecycle!MayBecome(status[q], status'[q])
  BY <1>16 DEF StopRun, SetStatus
<1>17. ASSUME NEW j \in Jobs, DeleteJob(j)
       PROVE  Lifecycle!MayBecome(status[q], status'[q])
  BY <1>17 DEF DeleteJob, DeleteRows
<1>18. CASE DeleteAssistant
  BY <1>18 DEF DeleteAssistant, DeleteRows
<1>19. ASSUME NEW a \in AgentIds, AnswerQuestion(a)
       PROVE  Lifecycle!MayBecome(status[q], status'[q])
  BY <1>19 DEF AnswerQuestion
<1>20. ASSUME NEW a \in AgentIds, ForegroundFails(a)
       PROVE  Lifecycle!MayBecome(status[q], status'[q])
  BY <1>20, Zero DEF ForegroundFails, Agreement, FreshIsUnlinked
<1>21. CASE Shutdown
  BY <1>21 DEF Shutdown
<1>22. CASE TickStep
  BY <1>22, <1>1, <1>2, <1>3, <1>4 DEF TickStep, TickBegin, StartupTickPaused, TickEnd,
          TickPasses, TickFails, TickLeaves
<1>23. CASE LaunchCall
  BY <1>23, <1>1, <1>5, <1>6 DEF LaunchCall, LaunchSkipped
<1>24. CASE TimerStep
  BY <1>24, <1>1 DEF TimerStep, RenewStops, LeaseLapses, RunBecomesOverdue, JobBecomesDue
<1>25. CASE CommandStep
  BY <1>25, <1>1, <1>12, <1>13, <1>14, <1>15, <1>16, <1>17, <1>18, <1>19
     DEF CommandStep, SetJobStatus, PauseAll, ResumeAll, Release, AssistantChanges,
         ExecuteRequested
<1>26. CASE ProcessStep
  BY <1>26, <1>1, <1>21, CrashInHandlerMayBecome DEF ProcessStep, Crash, Restart, Agreement
<1>27. ASSUME NEW l \in Launches, ExecutorStep(l)
       PROVE  Lifecycle!MayBecome(status[q], status'[q])
  BY <1>27, <1>1, <1>7, <1>8, <1>9, <1>10, <1>11
     DEF ExecutorStep, ShellStarts, PlanResumed, PlanningBegins, LaunchDisowned,
         PlannerPlans, ExecutionBegins
<1>28. ASSUME NEW a \in AgentIds, ForegroundStep(a)
       PROVE  Lifecycle!MayBecome(status[q], status'[q])
  BY <1>28, <1>1, <1>20
     DEF ForegroundStep, PreflightPasses, PreflightFails, ForegroundAsks, ForegroundPlans,
         ForegroundCompletes
<1> QED BY <1>22, <1>23, <1>24, <1>25, <1>26, <1>27, <1>28 DEF Next

\* Only the synchronous part of a launch starts a queued row, and it looks at
\* the pause in the same stretch.
LEMMA QueuedStartsUnpaused ==
  ASSUME Core, Next, NEW q \in RunIds, status[q] = "queued", status'[q] = "running"
  PROVE  ~paused /\ ~paused'
<1> USE DEF rowVars, envVars, Core, TypeOK, Active, Terminal
<1>1. ~UNCHANGED status
  OBVIOUS
<1>2. ASSUME NEW r \in RunIds, NEW l \in Launches, LaunchBegins(r, l)
      PROVE  ~paused /\ ~paused'
  BY <1>2 DEF LaunchBegins
<1>3. ~TickStep
  <2>1. ~TickRepair
    BY TickRepairMoves
  <2>2. ASSUME NEW r \in RunIds, TickResume(r) PROVE FALSE
    BY <2>2 DEF TickResume, SetStatus
  <2>3. ASSUME NEW j \in Jobs, NEW r \in RunIds, TickQueue(j, r) PROVE FALSE
    BY <2>3 DEF TickQueue, CreateRow, NextRun
  <2> QED BY <1>1, <2>1, <2>2, <2>3 DEF TickStep, TickBegin, StartupTickPaused, TickEnd,
             TickPasses, TickFails, TickLeaves
<1>4. ASSUME NEW r \in RunIds, LaunchSkipped(r) \/ LaunchRefused(r)
      PROVE  FALSE
  BY <1>4 DEF LaunchSkipped, LaunchRefused, SetStatus
<1>5. ASSUME NEW l \in Launches, ExecutorStep(l)
      PROVE  FALSE
  <2>1. ~PlannerAsks(l)
    BY DEF PlannerAsks, SetStatus
  <2>2. ~ExecutionEnds(l) /\ ~ShellExits(l) /\ ~LaunchThrows(l)
    BY DEF ExecutionEnds, ShellExits, LaunchThrows, SetStatus
  <2>3. ASSUME NEW n \in RunIds, RecoveryQueued(l, n) PROVE FALSE
    BY <2>3 DEF RecoveryQueued, CreateRow, SetStatus
  <2> QED BY <1>1, <1>5, <2>1, <2>2, <2>3
          DEF ExecutorStep, ShellStarts, PlanResumed, PlanningBegins, LaunchDisowned,
              PlannerPlans, ExecutionBegins
<1>6. ~TimerStep
  BY <1>1 DEF TimerStep, RenewStops, LeaseLapses, RunBecomesOverdue, JobBecomesDue
<1>7. ~CommandStep
  <2>1. ASSUME NEW j \in Jobs, RunNow(j) PROVE FALSE
    BY <2>1, RunNowMoves
  <2>2. ASSUME NEW r \in RunIds, RetryRun(r) PROVE FALSE
    BY <2>2 DEF RetryRun, CreateRow, NextRun
  <2>3. ASSUME NEW r \in RunIds, ApproveRun(r) \/ RejectRun(r) \/ StopRun(r) PROVE FALSE
    BY <2>3 DEF ApproveRun, RejectRun, StopRun, SetStatus
  <2>4. ASSUME NEW j \in Jobs, DeleteJob(j) PROVE FALSE
    BY <2>4 DEF DeleteJob, DeleteRows
  <2>5. ~DeleteAssistant
    BY DEF DeleteAssistant, DeleteRows
  <2>6. ASSUME NEW a \in AgentIds, AnswerQuestion(a) PROVE FALSE
    BY <2>6 DEF AnswerQuestion
  <2> QED BY <1>1, <2>1, <2>2, <2>3, <2>4, <2>5, <2>6
          DEF CommandStep, SetJobStatus, PauseAll, ResumeAll, Release, AssistantChanges,
              ExecuteRequested
<1>8. ~ProcessStep
  <2>1. ~CrashInHandler
    BY CrashInHandlerMoves
  <2> QED BY <1>1, <2>1 DEF ProcessStep, Crash, Restart, Shutdown
<1>9. ASSUME NEW a \in AgentIds, ForegroundStep(a)
      PROVE  FALSE
  <2>1. ~ForegroundFails(a)
    BY DEF ForegroundFails
  <2> QED BY <1>1, <1>9, <2>1
          DEF ForegroundStep, PreflightPasses, PreflightFails, ForegroundAsks,
              ForegroundPlans, ForegroundCompletes
<1> QED BY <1>2, <1>3, <1>4, <1>5, <1>6, <1>7, <1>8, <1>9 DEF Next, LaunchCall

-----------------------------------------------------------------------------
(* Theorems                                                                *)

\* The inductive invariant: rows, leases, launches, the controllers map and
\* the rows the tick still means to resume agree at every step of the server.
THEOREM CoreInductive == Spec => []Core
<1>1. Init => Core
  <2>1. Init => crashes \in 0 .. MaxCrashes
    BY BoundsAssumption DEF Init
  <2>2. Init => now \in [lapsed : SUBSET RunIds, overdue : SUBSET RunIds]
    BY DEF Init, NoTime
  <2>3. Init => TypeOK
    <3> SUFFICES ASSUME Init PROVE TypeOK
      OBVIOUS
    <3>1. /\ status \in [RunIds -> Active \cup Terminal \cup {"none", "deleted"}]
          /\ jobOf \in [RunIds -> Jobs \cup {NoJob}]
          /\ trigger \in [RunIds -> {"schedule", "manual", "retry"}]
          /\ approval \in [RunIds -> {"not-needed", "pending", "approved", "rejected"}]
          /\ lease \in [RunIds -> {0} \cup Launches]
          /\ link \in [RunIds -> {0} \cup AgentIds]
          /\ attempts \in [RunIds -> 0 .. 1]
      BY DEF Init
    <3>2. paused \in BOOLEAN /\ releasing \in BOOLEAN /\ up \in BOOLEAN
      BY DEF Init
    <3> QED BY <2>1, <2>2, <3>1, <3>2 DEF Init, TypeOK
  <2>4. Init => Agreement
    BY DEF Init, Agreement, LaunchHasRun, ControlHoldsLease, OwnerIsLive, OneLaunchPerRun,
           LapsedIsUnworked, ResumableIsUnworked, FreshIsUnlinked, Running
  <2> QED BY <2>3, <2>4 DEF Core
<1>2. Core /\ [Next]_vars => Core'
  <2> SUFFICES ASSUME Core, [Next]_vars
               PROVE  Core'
    OBVIOUS
  <2>1. CASE UNCHANGED vars
    BY <2>1 DEF vars, rowVars, clockVars, launchVars, agentVars, tickVars, envVars, Core,
       TypeOK, Agreement, LaunchHasRun, ControlHoldsLease, OwnerIsLive, OneLaunchPerRun,
       LapsedIsUnworked, ResumableIsUnworked, FreshIsUnlinked, Running
  <2>2. CASE Next
    <3>1. TypeOK /\ LaunchHasRun
      BY DEF Core, Agreement
    <3>2. TypeOK'
      BY <2>2, <3>1, TypeOKTick, TypeOKLaunchCall, TypeOKTimer, TypeOKCommand,
         TypeOKProcess, TypeOKExecutor, TypeOKForeground DEF Next
    <3>3. Agreement'
      BY <2>2, <3>2, AgreementTick, AgreementLaunchCall, AgreementTimer, AgreementCommand,
         AgreementProcess, AgreementExecutor, AgreementForeground DEF Next
    <3> QED BY <3>2, <3>3 DEF Core
  <2> QED BY <2>1, <2>2
<1> QED BY <1>1, <1>2, PTL DEF Spec

\* Every variable keeps to its type through every handler and crash.
THEOREM TypeCorrect == Spec => []TypeOK
  BY CoreInductive, PTL DEF Core

\* An entry of backgroundRunControllers is a launch in progress for that row,
\* and the row carries its lease: stop, renewal and shutdown hit the right one.
THEOREM ControlHoldsLeaseAlways == Spec => []ControlHoldsLease
<1>1. Core => ControlHoldsLease
  BY DEF Core, Agreement
<1> QED BY <1>1, CoreInductive, PTL

\* A launch in progress has its active row running and is in the map for it,
\* so isBackgroundRunLive keeps resume and repair away from that row.
THEOREM OwnerIsLiveAlways == Spec => []OwnerIsLive
<1>1. Core => OwnerIsLive
  BY DEF Core, Agreement
<1> QED BY <1>1, CoreInductive, PTL

\* Two calls of launchBackgroundJobRun never work on one row at a time.
THEOREM OneLaunchPerRunAlways == Spec => []OneLaunchPerRun
<1>1. Core => OneLaunchPerRun
  BY DEF Core, Agreement
<1> QED BY <1>1, CoreInductive, PTL

\* Every behaviour takes every row along the life cycle of RunLifecycle,
\* whichever handler writes it last.
THEOREM Refinement == Spec => ImplementsLifecycle
<1>1. Init => Lifecycle!Init
  BY DEF Init, Lifecycle!Init
<1>2. Core /\ Core' /\ [Next]_vars => [Lifecycle!Next]_status
  <2> SUFFICES ASSUME Core, Core', Next
               PROVE  Lifecycle!Next
    BY DEF vars, rowVars
  <2>1. status' \in [RunIds -> Lifecycle!Statuses]
    BY DEF Core, TypeOK, Lifecycle!Statuses, Lifecycle!Active, Lifecycle!Terminal, Active, Terminal
  <2>2. \A r \in RunIds : Lifecycle!MayBecome(status[r], status'[r])
    BY LifecycleStep
  <2> QED BY <2>1, <2>2 DEF Lifecycle!Next
<1> QED BY <1>1, <1>2, CoreInductive, PTL DEF Spec, ImplementsLifecycle, Lifecycle!Spec

\* What has ended stays as it ended, until its job is deleted: the guard of
\* setBackgroundJobRunStatus covers every path that writes a row.
THEOREM TerminalStays == Spec => TerminalIsFinal
<1>1. Core /\ [Next]_vars =>
        [\A r \in RunIds :
           status[r] \in Terminal => status'[r] \in {status[r], "deleted"}]_vars
  <2> SUFFICES ASSUME Core, Next, NEW r \in RunIds, status[r] \in Terminal
               PROVE  status'[r] \in {status[r], "deleted"}
    OBVIOUS
  <2>1. Lifecycle!MayBecome(status[r], status'[r])
    BY LifecycleStep
  <2> QED BY <2>1 DEF Lifecycle!MayBecome, Terminal
<1> QED BY <1>1, CoreInductive, PTL DEF Spec, TerminalIsFinal

\* No queued row starts during the global pause: every path that queues one
\* relies on the check of launchBackgroundJobRun.
THEOREM NothingStartsWhilePaused == Spec => NoStartWhilePaused
<1>1. Core /\ [Next]_vars =>
        [\A r \in RunIds :
           status[r] = "queued" /\ status'[r] = "running" => ~paused /\ ~paused']_vars
  BY QueuedStartsUnpaused
<1> QED BY <1>1, CoreInductive, PTL DEF Spec, NoStartWhilePaused
=============================================================================
