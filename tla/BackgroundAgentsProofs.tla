----------------------- MODULE BackgroundAgentsProofs -----------------------
(***************************************************************************)
(* Further theorems about BackgroundRuns, on top of the agreement of rows  *)
(* and launches: which rows of a job or of the exclusive lane are active   *)
(* together, and who may write an agent run.                               *)
(***************************************************************************)
EXTENDS BackgroundRunsProofs

-----------------------------------------------------------------------------
(* Rows that become active.                                                *)

\* A row that is not in the table may only appear, one that is keeps its job
\* and its trigger, and is active only if it was.
KeepsRow(r) ==
  /\ jobOf'[r] = jobOf[r] /\ trigger'[r] = trigger[r]
  /\ status'[r] \in Active => status[r] \in Active

\* The one row a step adds is a retry, or no other row of its job is active
\* and, if the scheduler adds it to the exclusive lane, none in that lane.
AddsRow(n) ==
  /\ \A r \in RunIds \ {n} : KeepsRow(r)
  /\ \/ trigger'[n] = "retry"
     \/ /\ \A r \in RunIds \ {n} : status'[r] \in Active => jobOf[r] # jobOf'[n]
        /\ trigger'[n] = "schedule" /\ jobOf'[n] \in ExclusiveJobs =>
             \A r \in RunIds \ {n} : status'[r] \in Active => jobOf[r] \notin ExclusiveJobs

\* A row the scheduler queues: Schedulable looks at the rows of the job and of
\* the lane.
LEMMA TickQueueAdds ==
  ASSUME TypeOK, NEW j \in Jobs, NEW n \in RunIds, TickQueue(j, n)
  PROVE  AddsRow(n)
<1>1. /\ Schedulable(j)
      /\ status' = [status EXCEPT ![n] = status'[n]]
      /\ jobOf' = [jobOf EXCEPT ![n] = j] /\ trigger' = [trigger EXCEPT ![n] = "schedule"]
  BY DEF TickQueue, CreateRow, TypeOK
<1>2. \A r \in RunIds \ {n} :
        status'[r] = status[r] /\ jobOf'[r] = jobOf[r] /\ trigger'[r] = trigger[r]
  BY <1>1 DEF TypeOK
<1>3. jobOf'[n] = j /\ trigger'[n] = "schedule"
  BY <1>1 DEF TypeOK
<1>4. \A r \in RunIds : status[r] \in Active => jobOf[r] # j
  BY <1>1 DEF Schedulable, ActiveRuns
<1>5. j \in ExclusiveJobs => \A r \in RunIds : status[r] \in Active => jobOf[r] \notin ExclusiveJobs
  BY <1>1, JobsAssumption DEF Schedulable, LaneBusy
<1>6. \A r \in RunIds \ {n} : KeepsRow(r)
  BY <1>2 DEF KeepsRow
<1>7. \A r \in RunIds \ {n} : status'[r] \in Active => jobOf[r] # jobOf'[n]
  BY <1>2, <1>3, <1>4
<1>8. jobOf'[n] \in ExclusiveJobs =>
        \A r \in RunIds \ {n} : status'[r] \in Active => jobOf[r] \notin ExclusiveJobs
  BY <1>2, <1>3, <1>5
<1> QED BY <1>6, <1>7, <1>8 DEF AddsRow

\* A row of run-now: the rows of the job have been repaired and none is left
\* active.
LEMMA RunNowAdds ==
  ASSUME TypeOK, NEW j \in Jobs, RunNow(j)
  PROVE  \/ \A r \in RunIds : KeepsRow(r)
         \/ \E n \in RunIds : AddsRow(n)
<1> DEFINE R == {r \in RunIds : jobOf[r] = j}
           t == [lapsed |-> lapsed, overdue |-> overdue]
<1>1. PICK auto \in SUBSET AutoResolvable(R) :
        \/ /\ status' = RepairedStatus(R, t, auto)
           /\ UNCHANGED <<jobOf, trigger>>
        \/ /\ \A r \in R : RepairedStatus(R, t, auto)[r] \notin Active
           /\ \E q \in RunIds :
                CreateRow(RepairedStatus(R, t, auto), q, j, "manual", "queued", "approved")
  BY DEF RunNow
<1>2. R \in SUBSET RunIds /\ \A r \in RunIds : jobOf[r] = j => r \in R
  OBVIOUS
<1> HIDE DEF R, t
<1>3. \/ /\ status' = RepairedStatus(R, t, auto)
         /\ UNCHANGED <<jobOf, trigger>>
      \/ /\ \A r \in R : RepairedStatus(R, t, auto)[r] \notin Active
         /\ \E q \in RunIds :
              /\ status' = [RepairedStatus(R, t, auto) EXCEPT ![q] = "queued"]
              /\ jobOf' = [jobOf EXCEPT ![q] = j]
              /\ trigger' = [trigger EXCEPT ![q] = "manual"]
  BY <1>1 DEF CreateRow
<1> DEFINE S == RepairedStatus(R, t, auto)
<1>4. \A r \in RunIds : S[r] \in Active => status[r] \in Active
  BY <1>2, RepairedStatusMoves DEF Active, Terminal
<1>5. S = [r \in RunIds |-> S[r]]
  BY DEF RepairedStatus
<1> HIDE DEF S
<1>6. CASE status' = S /\ UNCHANGED <<jobOf, trigger>>
  BY <1>4, <1>6 DEF KeepsRow
<1>7. ASSUME NEW q \in RunIds, \A r \in R : S[r] \notin Active,
             status' = [S EXCEPT ![q] = "queued"],
             jobOf' = [jobOf EXCEPT ![q] = j],
             trigger' = [trigger EXCEPT ![q] = "manual"]
      PROVE  AddsRow(q)
  <2>1. \A r \in RunIds \ {q} :
          status'[r] = S[r] /\ jobOf'[r] = jobOf[r] /\ trigger'[r] = trigger[r]
    BY <1>5, <1>7 DEF TypeOK
  <2>2. jobOf'[q] = j /\ trigger'[q] = "manual"
    BY <1>7 DEF TypeOK
  <2> QED BY <1>2, <1>4, <1>7, <2>1, <2>2 DEF AddsRow, KeepsRow
<1> QED BY <1>3, <1>6, <1>7 DEF S

\* Every step keeps every row, or adds one that may be added.
LEMMA StepKeepsOrAdds ==
  ASSUME Core, Next
  PROVE  \/ \A r \in RunIds : KeepsRow(r)
         \/ \E n \in RunIds : AddsRow(n)
<1> USE DEF rowVars, KeepsRow
<1>0. TypeOK
  BY DEF Core
<1>1. ASSUME UNCHANGED <<jobOf, trigger>>,
             \A r \in RunIds : status'[r] \in Active => status[r] \in Active
      PROVE  \A r \in RunIds : KeepsRow(r)
  BY <1>1
<1>2. ASSUME TickStep, \A j \in Jobs, r \in RunIds : ~TickQueue(j, r)
      PROVE  \A r \in RunIds : KeepsRow(r)
  <2>1. CASE TickRepair
    BY <1>0, <2>1, TickRepairMoves DEF TickRepair, Active, Terminal
  <2>2. ASSUME NEW r \in RunIds, TickResume(r)
        PROVE  \A q \in RunIds : KeepsRow(q)
    BY <1>0, <2>2 DEF TickResume, SetStatus, TypeOK
  <2> QED BY <1>2, <2>1, <2>2 DEF TickStep, TickBegin, StartupTickPaused, TickEnd,
             TickPasses, TickFails, TickLeaves
<1>3. ASSUME LaunchCall
      PROVE  \A r \in RunIds : KeepsRow(r)
  BY <1>0, <1>3 DEF LaunchCall, LaunchSkipped, LaunchRefused, LaunchBegins, SetStatus, TypeOK
<1>4. ASSUME NEW l \in Launches, ExecutorStep(l), \A q \in RunIds : ~RecoveryQueued(l, q)
      PROVE  \A r \in RunIds : KeepsRow(r)
  <2>1. CASE PlannerAsks(l)
    BY <1>0, <2>1 DEF PlannerAsks, SetStatus, TypeOK
  <2>2. CASE ExecutionEnds(l) \/ ShellExits(l) \/ LaunchThrows(l)
    BY <1>0, <2>2 DEF ExecutionEnds, ShellExits, LaunchThrows, SetStatus, TypeOK
  <2> QED BY <1>4, <2>1, <2>2 DEF ExecutorStep, ShellStarts, PlanResumed, PlanningBegins,
             LaunchDisowned, PlannerPlans, ExecutionBegins
<1>5. ASSUME NEW l \in Launches, NEW q \in RunIds, RecoveryQueued(l, q)
      PROVE  AddsRow(q)
  BY <1>0, <1>5 DEF RecoveryQueued, CreateRow, SetStatus, AddsRow, TypeOK
<1>6. ASSUME TimerStep
      PROVE  \A r \in RunIds : KeepsRow(r)
  BY <1>6 DEF TimerStep, RenewStops, LeaseLapses, RunBecomesOverdue, JobBecomesDue
<1>7. ASSUME NEW r \in RunIds, RetryRun(r)
      PROVE  \E n \in RunIds : AddsRow(n)
  BY <1>0, <1>7 DEF RetryRun, CreateRow, AddsRow, TypeOK
<1>8. ASSUME CommandStep, \A j \in Jobs : ~RunNow(j), \A r \in RunIds : ~RetryRun(r)
      PROVE  \A r \in RunIds : KeepsRow(r)
  <2>1. ASSUME NEW r \in RunIds, ApproveRun(r) \/ RejectRun(r) \/ StopRun(r)
        PROVE  \A q \in RunIds : KeepsRow(q)
    BY <1>0, <2>1 DEF ApproveRun, RejectRun, StopRun, SetStatus, TypeOK
  <2>2. ASSUME NEW j \in Jobs, DeleteJob(j)
        PROVE  \A r \in RunIds : KeepsRow(r)
    BY <2>2 DEF DeleteJob, DeleteRows, Active
  <2>3. CASE DeleteAssistant
    BY <2>3 DEF DeleteAssistant, DeleteRows, Active
  <2>4. ASSUME NEW a \in AgentIds, AnswerQuestion(a)
        PROVE  \A r \in RunIds : KeepsRow(r)
    BY <2>4 DEF AnswerQuestion, Active
  <2> QED BY <1>8, <2>1, <2>2, <2>3, <2>4
          DEF CommandStep, SetJobStatus, PauseAll, ResumeAll, Release, AssistantChanges,
              ExecuteRequested
<1>9. ASSUME NEW a \in AgentIds, ForegroundStep(a)
      PROVE  \A r \in RunIds : KeepsRow(r)
  BY <1>9 DEF ForegroundStep, PreflightPasses, PreflightFails, ForegroundAsks,
              ForegroundPlans, ForegroundCompletes, ForegroundFails, Active
<1>10. ASSUME ProcessStep
       PROVE  \A r \in RunIds : KeepsRow(r)
  <2>1. CASE CrashInHandler
    <3>1. UNCHANGED <<jobOf, trigger>>
      BY <1>0, <2>1, CrashInHandlerType DEF MemoryLost
    <3> QED BY <1>0, <2>1, <3>1, CrashInHandlerMoves DEF Active, Terminal
  <2>2. CASE ~CrashInHandler
    BY <1>10, <2>2 DEF ProcessStep, Crash, Shutdown, Restart, MemoryLost, Active
  <2> QED BY <2>1, <2>2
<1> HIDE DEF KeepsRow
<1> QED
  <2>1. ASSUME NEW j \in Jobs, NEW r \in RunIds, TickQueue(j, r)
        PROVE  AddsRow(r)
    BY <1>0, <2>1, TickQueueAdds
  <2>2. ASSUME NEW j \in Jobs, RunNow(j)
        PROVE  (\A r \in RunIds : KeepsRow(r)) \/ \E n \in RunIds : AddsRow(n)
    BY <1>0, <2>2, RunNowAdds
  <2> QED BY <1>2, <1>3, <1>4, <1>5, <1>6, <1>7, <1>8, <1>9, <1>10, <2>1, <2>2 DEF Next

\* A step that keeps the rows or adds one that may be added leaves at most one
\* active row per job, retries aside, and one scheduled row in the lane.
LEMMA RowsStayApart ==
  ASSUME NoOverlap, LaneIsExclusive, TypeOK,
         (\A r \in RunIds : KeepsRow(r)) \/ \E n \in RunIds : AddsRow(n)
  PROVE  NoOverlap' /\ LaneIsExclusive'
<1>1. CASE \A r \in RunIds : KeepsRow(r)
  BY <1>1 DEF KeepsRow, NoOverlap, LaneIsExclusive
<1>2. ASSUME NEW n \in RunIds, AddsRow(n)
      PROVE  NoOverlap'
  <2> SUFFICES ASSUME NEW r \in RunIds, NEW q \in RunIds, r # q,
                      status'[r] \in Active, status'[q] \in Active, jobOf'[r] = jobOf'[q]
               PROVE  trigger'[r] = "retry" \/ trigger'[q] = "retry"
    BY DEF NoOverlap
  <2>1. CASE r # n /\ q # n
    BY <1>2, <2>1 DEF AddsRow, KeepsRow, NoOverlap
  <2>2. CASE r = n \/ q = n
    BY <1>2, <2>2 DEF AddsRow, KeepsRow
  <2> QED BY <2>1, <2>2
<1>3. ASSUME NEW n \in RunIds, AddsRow(n)
      PROVE  LaneIsExclusive'
  <2> SUFFICES ASSUME NEW r \in RunIds, NEW q \in RunIds, r # q,
                      status'[r] \in Active, status'[q] \in Active,
                      jobOf'[r] \in ExclusiveJobs, jobOf'[q] \in ExclusiveJobs,
                      trigger'[r] = "schedule", trigger'[q] = "schedule"
               PROVE  FALSE
    BY DEF LaneIsExclusive
  <2>1. CASE r # n /\ q # n
    BY <1>3, <2>1 DEF AddsRow, KeepsRow, LaneIsExclusive
  <2>2. CASE r = n \/ q = n
    BY <1>3, <2>2 DEF AddsRow, KeepsRow
  <2> QED BY <2>1, <2>2
<1> QED BY <1>1, <1>2, <1>3

-----------------------------------------------------------------------------
(* Who works on which agent run.                                           *)

\* Launches only go on or end, and keep row and agent run; none goes on with an
\* agent run that had failed before it began.
LaunchesGoOn ==
  \A l \in Launches : Running(l)' =>
    /\ Running(l) /\ runOf'[l] = runOf[l] /\ agentOf'[l] = agentOf[l]
    /\ \/ pc'[l] = pc[l]
       \/ pc'[l] \in {"shell", "executing"}
       \/ pc[l] = "planning" /\ pc'[l] = "planned"
    /\ pc[l] = "starting" /\ pc'[l] # "starting" =>
         agentOf[l] = 0 \/ agent[agentOf[l]] # "failed"

\* Controllers at most go, and crashes are not forgotten.
ControlsGoOn ==
  /\ crashes > 0 => crashes' > 0
  /\ \A r \in RunIds : control'[r] \in {0, control[r]}

\* Only a row that is new becomes active or gets a job; links and leases stay.
RowsGoOn ==
  /\ UNCHANGED <<link, lease>> /\ ControlsGoOn
  /\ \A r \in RunIds : /\ status'[r] \in Active => status[r] \in Active \cup {"none"}
                       /\ jobOf'[r] = jobOf[r] \/ status[r] = "none"

\* No agent run appears or disappears; one that fails leaves no active row, and
\* nobody touches one that is planned for the owner of its row.
AgentsGoOn ==
  \A a \in AgentIds :
    /\ agent'[a] = "none" <=> agent[a] = "none"
    /\ agent[a] = "none" => fg'[a] = fg[a]
    /\ agent[a] = "failed" /\ fg[a] = "off" => fg'[a] = "off"
    /\ agent'[a] = "failed" /\ agent[a] # "failed" =>
         \A r \in RunIds : link[r] = a => status'[r] \notin Active
    /\ \A l \in Launches :
         pc'[l] = "planning" /\ Owned(l)' /\ agentOf[l] = a =>
           agent'[a] = agent[a] /\ fg'[a] = fg[a]

\* A launch that ends takes its controller along.
LEMMA EndLaunchControls ==
  ASSUME TypeOK, NEW l \in Launches, EndLaunch(l), UNCHANGED crashes
  PROVE  ControlsGoOn
<1>1. control \in [RunIds -> Launches \cup {0}] /\ runOf[l] \in RunIds \cup {0}
  BY DEF TypeOK
<1>2. control' = [control EXCEPT ![runOf[l]] = 0]
  BY DEF EndLaunch
<1> QED BY <1>1, <1>2 DEF ControlsGoOn

\* A launch that runs for an active row owns it, and keeps owning it only as
\* long as it did.
LEMMA OwnerStays ==
  ASSUME Core, LaunchesGoOn, RowsGoOn, NEW l \in Launches, Running(l)', Owned(l)'
  PROVE  Owned(l) /\ Running(l)
<1>1. /\ Running(l) /\ runOf'[l] = runOf[l]
      /\ runOf[l] \in RunIds /\ status[runOf[l]] # "none"
  BY DEF LaunchesGoOn, Core, Agreement, LaunchHasRun
<1>2. status'[runOf[l]] = "running" /\ lease[runOf[l]] = l
  BY <1>1 DEF Owned, RowsGoOn
<1>3. status[runOf[l]] \in Active
  BY <1>1, <1>2 DEF RowsGoOn, Active
<1> QED BY <1>1, <1>2, <1>3 DEF Core, Agreement, OwnerIsLive, Owned

\* A step of that kind keeps the bonds.
LEMMA BondsKept ==
  ASSUME Core, Bonds, TypeOK', ControlHoldsLease', LaunchesGoOn, RowsGoOn, AgentsGoOn,
         up' = up \/ \A l \in Launches : ~Running(l)'
  PROVE  Bonds'
<1>0. TypeOK
  BY DEF Core
<1>1. DownIsIdle'
  BY DEF Bonds, DownIsIdle, LaunchesGoOn
<1>2. \A a \in AgentIds : agent'[a] = "none" => fg'[a] = "off"
  BY DEF Bonds, AgentsGoOn
<1>3. \A r \in RunIds : link[r] # 0 => link[r] \in AgentIds
  BY <1>0 DEF TypeOK
<1>4. \A l \in Launches : agentOf[l] # 0 => agentOf[l] \in AgentIds
  BY <1>0 DEF TypeOK
<1>5. LinksApart'
  BY <1>3 DEF Bonds, LinksApart, AgentsGoOn, RowsGoOn
<1>6. LaunchKeepsItsAgent'
  <2> SUFFICES ASSUME NEW l \in Launches, Running(l)'
               PROVE  /\ agentOf'[l] # 0 =>
                           /\ agent'[agentOf'[l]] # "none"
                           /\ \A q \in RunIds : link'[q] = agentOf'[l] => q = runOf'[l]
                      /\ pc'[l] = "starting" => agentOf'[l] = link'[runOf'[l]]
    BY DEF LaunchKeepsItsAgent
  <2>1. /\ Running(l) /\ runOf'[l] = runOf[l] /\ agentOf'[l] = agentOf[l]
        /\ pc'[l] = "starting" => pc[l] = "starting"
    BY DEF LaunchesGoOn
  <2>2. link' = link
    BY DEF RowsGoOn
  <2> QED BY <1>4, <2>1, <2>2 DEF Bonds, LaunchKeepsItsAgent, AgentsGoOn
<1>7. PlanningIsUndisturbed'
  <2> SUFFICES ASSUME NEW l \in Launches, pc'[l] \in {"planning", "planned"}
               PROVE  /\ agentOf'[l] # 0
                      /\ pc'[l] = "planning" /\ Owned(l)' =>
                           /\ link'[runOf'[l]] = agentOf'[l]
                           /\ agent'[agentOf'[l]] = "planning" /\ fg'[agentOf'[l]] = "off"
    BY DEF PlanningIsUndisturbed
  <2>1. Running(l)'
    BY DEF Running
  <2>2. /\ Running(l) /\ runOf'[l] = runOf[l] /\ agentOf'[l] = agentOf[l]
        /\ pc[l] \in {"planning", "planned"}
        /\ pc'[l] = "planning" => pc[l] = "planning"
    BY <2>1 DEF LaunchesGoOn
  <2>3. agentOf'[l] # 0 /\ agentOf[l] \in AgentIds
    BY <1>4, <2>2 DEF Bonds, PlanningIsUndisturbed
  <2>4. ASSUME pc'[l] = "planning", Owned(l)'
        PROVE  /\ link'[runOf'[l]] = agentOf'[l]
               /\ agent'[agentOf'[l]] = "planning" /\ fg'[agentOf'[l]] = "off"
    <3>1. Owned(l)
      BY <2>1, <2>4, OwnerStays
    <3>2. /\ link[runOf[l]] = agentOf[l]
          /\ agent[agentOf[l]] = "planning" /\ fg[agentOf[l]] = "off"
      BY <2>2, <2>4, <3>1 DEF Bonds, PlanningIsUndisturbed
    <3>3. agent'[agentOf[l]] = agent[agentOf[l]] /\ fg'[agentOf[l]] = fg[agentOf[l]]
      BY <2>3, <2>4 DEF AgentsGoOn
    <3> QED BY <2>2, <3>2, <3>3 DEF RowsGoOn
  <2> QED BY <2>3, <2>4
<1>8. FailedAgentEndsRow'
  <2> SUFFICES ASSUME NEW r \in RunIds, link'[r] # 0, agent'[link'[r]] = "failed",
                      status'[r] \in Active
               PROVE  /\ crashes' > 0
                      /\ fg'[link'[r]] = "off"
                      /\ control'[r] # 0 => pc'[control'[r]] = "starting"
    BY DEF FailedAgentEndsRow, AgentOf
  <2>1. link'[r] = link[r] /\ link[r] \in AgentIds
    BY <1>3 DEF RowsGoOn
  <2>2. agent[link[r]] = "failed"
    BY <2>1 DEF AgentsGoOn
  <2>3. status[r] \in Active
    <3>1. status[r] # "none"
      BY <2>1, Zero DEF Core, Agreement, FreshIsUnlinked
    <3> QED BY <3>1 DEF RowsGoOn
  <2>4. /\ crashes > 0 /\ fg[link[r]] = "off"
        /\ control[r] # 0 => pc[control[r]] = "starting"
    BY <2>1, <2>2, <2>3, Zero DEF Bonds, FailedAgentEndsRow, AgentOf
  <2>5. crashes' > 0 /\ fg'[link'[r]] = "off"
    BY <2>1, <2>2, <2>4 DEF RowsGoOn, ControlsGoOn, AgentsGoOn
  <2>6. ASSUME control'[r] # 0
        PROVE  pc'[control'[r]] = "starting"
    <3>1. PICK l : l = control[r] /\ control'[r] = l /\ l # 0
      BY <2>6 DEF RowsGoOn, ControlsGoOn
    <3>2. Running(l)'
      BY <2>6, <3>1 DEF ControlHoldsLease, Running
    <3>3. /\ l \in Launches /\ runOf[l] = r /\ pc[l] = "starting" /\ Running(l)
      BY <1>0, <2>4, <3>1 DEF Core, Agreement, ControlHoldsLease, TypeOK
    <3>4. agentOf[l] = link[r]
      BY <3>3 DEF Bonds, LaunchKeepsItsAgent
    <3>5. pc'[l] = "starting"
      BY <2>1, <2>2, <3>2, <3>3, <3>4, Zero DEF LaunchesGoOn
    <3> QED BY <3>1, <3>5
  <2> QED BY <2>5, <2>6
<1>9. ShellsAreUnlinked'
  <2> SUFFICES ASSUME NEW r \in RunIds, jobOf'[r] \in ShellJobs
               PROVE  link'[r] = 0
    BY DEF ShellsAreUnlinked
  <2>1. CASE status[r] = "none"
    BY <2>1 DEF RowsGoOn, Core, Agreement, FreshIsUnlinked
  <2>2. CASE jobOf'[r] = jobOf[r]
    BY <2>2 DEF RowsGoOn, Bonds, ShellsAreUnlinked
  <2> QED BY <2>1, <2>2 DEF RowsGoOn
<1> QED BY <1>1, <1>2, <1>5, <1>6, <1>7, <1>8, <1>9 DEF Bonds

\* The agent run of an owner that is planning is in no other launch's hands, is
\* linked to its row alone, and no foreground handler is on it.
LEMMA PlannerIsAlone ==
  ASSUME Core, Bonds, NEW l \in Launches, pc[l] = "planning", Owned(l)
  PROVE  /\ agentOf[l] \in AgentIds
         /\ agent[agentOf[l]] = "planning" /\ fg[agentOf[l]] = "off"
         /\ runOf[l] \in RunIds /\ link[runOf[l]] = agentOf[l]
         /\ \A r \in RunIds : link[r] = agentOf[l] => r = runOf[l]
         /\ \A m \in Launches \ {l} : Running(m) => agentOf[m] # agentOf[l]
<1>1. /\ Running(l) /\ runOf[l] \in RunIds
      /\ link[runOf[l]] = agentOf[l] /\ agentOf[l] # 0
      /\ agent[agentOf[l]] = "planning" /\ fg[agentOf[l]] = "off"
  BY DEF Running, Core, Agreement, LaunchHasRun, Bonds, PlanningIsUndisturbed
<1>2. agentOf[l] \in AgentIds
  BY <1>1 DEF Core, TypeOK
<1>3. \A r \in RunIds : link[r] = agentOf[l] => r = runOf[l]
  BY <1>1 DEF Bonds, LinksApart
<1>4. ASSUME NEW m \in Launches \ {l}, Running(m), agentOf[m] = agentOf[l]
      PROVE  FALSE
  <2>1. runOf[m] = runOf[l]
    BY <1>1, <1>4 DEF Bonds, LaunchKeepsItsAgent
  <2> QED BY <1>1, <1>4, <2>1 DEF Core, Agreement, OneLaunchPerRun
<1> QED BY <1>1, <1>2, <1>3, <1>4

\* A step that leaves launches and agent runs alone keeps the bonds.
LEMMA BondsRowsOnly ==
  ASSUME Core, Bonds, TypeOK', ControlHoldsLease',
         UNCHANGED <<agent, fg, pc, runOf, agentOf>>, RowsGoOn,
         up' = up \/ \A l \in Launches : ~Running(l)'
  PROVE  Bonds'
<1>1. LaunchesGoOn
  BY DEF LaunchesGoOn, Running
<1>2. AgentsGoOn
  BY DEF AgentsGoOn
<1> QED BY <1>1, <1>2, BondsKept

\* No row is both failed and skipped by a repair pass: a question waits only
\* while the agent run is not ready.
LEMMA RepairFails ==
  ASSUME NEW R \in SUBSET RunIds, NEW t, NEW auto \in SUBSET AutoResolvable(R),
         NEW r \in FailedByRepair(R, t)
  PROVE  RepairedStatus(R, t, auto)[r] = "failed"
<1>1. r \in RunIds /\ ~LinkedEnded(r) /\ (ControllerLost(r, t) \/ TimedOut(r, t))
  BY DEF FailedByRepair, Repairable
<1>2. r \notin AutoResolvable(R)
  BY <1>1 DEF AutoResolvable, ControllerLost, TimedOut, PlanReady, AgentOf
<1> QED BY <1>1, <1>2 DEF RepairedStatus

\* A repair pass fails agent runs with their rows, and touches no planner's.
LEMMA RepairAgentsGoOn ==
  ASSUME Core, Bonds, NEW R \in SUBSET RunIds, NEW t, NEW auto \in SUBSET AutoResolvable(R),
         agent' = RepairedAgent(R, t, auto),
         \A r \in FailedByRepair(R, t) : status'[r] = "failed",
         UNCHANGED <<pc, runOf, agentOf, fg>>, RowsGoOn
  PROVE  LaunchesGoOn /\ AgentsGoOn
<1>1. LaunchesGoOn
  BY DEF LaunchesGoOn, Running
<1>2. ASSUME NEW a \in AgentIds
      PROVE  \/ agent'[a] = agent[a]
             \/ /\ agent'[a] = "failed"
                /\ \E r \in FailedByRepair(R, t) : link[r] = a
             \/ agent'[a] = "planning" /\ agent[a] = "awaiting-user-input"
  <2>1. \A r \in auto : link[r] = a => agent[a] = "awaiting-user-input"
    BY DEF AutoResolvable, AgentOf
  <2> QED BY <2>1 DEF RepairedAgent
<1>3. /\ FailedByRepair(R, t) \subseteq RunIds
      /\ \A r \in FailedByRepair(R, t) : status'[r] \notin Active
  BY DEF FailedByRepair, Repairable, Active
<1>4. \A r \in RunIds : link[r] # 0 => agent[link[r]] # "none"
  BY DEF Bonds, LinksApart
<1> SUFFICES ASSUME NEW a \in AgentIds
             PROVE  /\ agent'[a] = "none" <=> agent[a] = "none"
                    /\ agent[a] = "none" => fg'[a] = fg[a]
                    /\ agent[a] = "failed" /\ fg[a] = "off" => fg'[a] = "off"
                    /\ agent'[a] = "failed" /\ agent[a] # "failed" =>
                         \A r \in RunIds : link[r] = a => status'[r] \notin Active
                    /\ \A l \in Launches :
                         pc'[l] = "planning" /\ Owned(l)' /\ agentOf[l] = a =>
                           agent'[a] = agent[a] /\ fg'[a] = fg[a]
  BY <1>1 DEF AgentsGoOn
<1>5. agent'[a] = "none" <=> agent[a] = "none"
  BY <1>2, <1>3, <1>4, Zero
<1>6. ASSUME agent'[a] = "failed", agent[a] # "failed", NEW r \in RunIds, link[r] = a
      PROVE  status'[r] \notin Active
  <2>1. PICK q \in FailedByRepair(R, t) : link[q] = a
    BY <1>2, <1>6
  <2>2. q = r
    BY <1>3, <1>6, <2>1, Zero DEF Bonds, LinksApart
  <2> QED BY <1>3, <2>2
<1>7. ASSUME NEW l \in Launches, pc'[l] = "planning", Owned(l)', agentOf[l] = a
      PROVE  agent'[a] = agent[a]
  <2>1. Running(l)' /\ pc[l] = "planning"
    BY <1>7 DEF Running
  <2>2. Owned(l)
    BY <1>1, <1>7, <2>1, OwnerStays
  <2>3. /\ agent[a] = "planning" /\ runOf[l] \in RunIds /\ link[runOf[l]] = a
        /\ \A r \in RunIds : link[r] = a => r = runOf[l]
    BY <1>7, <2>1, <2>2, PlannerIsAlone
  <2>4. status'[runOf[l]] = "running"
    BY <1>7 DEF Owned
  <2>5. \A r \in FailedByRepair(R, t) : link[r] # a
    BY <1>3, <2>3, <2>4 DEF Active
  <2> QED BY <1>2, <2>3, <2>5
<1> QED BY <1>5, <1>6, <1>7

\* A tick keeps the bonds: its repair fails row and agent run together.
LEMMA BondsTick ==
  ASSUME Core, Bonds, TickStep, TypeOK', ControlHoldsLease'
  PROVE  Bonds'
<1> USE DEF rowVars, launchVars, agentVars, envVars
<1>0. TypeOK
  BY DEF Core
<1>1. CASE TickRepair
  <2> DEFINE t == [lapsed |-> lapsed \cap now.lapsed, overdue |-> overdue \cap now.overdue]
  <2>1. PICK auto \in SUBSET AutoResolvable(RunIds) :
          /\ status' = RepairedStatus(RunIds, t, auto)
          /\ agent' = RepairedAgent(RunIds, t, auto)
    BY <1>1 DEF TickRepair, RepairRows
  <2>2. UNCHANGED <<pc, runOf, agentOf, fg, link, lease, up, control, crashes, jobOf>>
    BY <1>1 DEF TickRepair
  <2> HIDE DEF t
  <2>3. \A r \in FailedByRepair(RunIds, t) : status'[r] = "failed"
    BY <2>1, RepairFails
  <2>4. RowsGoOn
    BY <1>0, <1>1, <2>2, TickRepairMoves DEF RowsGoOn, ControlsGoOn, Active, Terminal
  <2>5. LaunchesGoOn /\ AgentsGoOn
    BY <2>1, <2>2, <2>3, <2>4, RepairAgentsGoOn
  <2> QED BY <2>2, <2>4, <2>5, BondsKept
<1>2. ASSUME NEW r \in RunIds, TickResume(r)
      PROVE  Bonds'
  BY <1>0, <1>2, BondsRowsOnly DEF TickResume, SetStatus, RowsGoOn, ControlsGoOn, TypeOK
<1>3. ASSUME NEW j \in Jobs, NEW r \in RunIds, TickQueue(j, r)
      PROVE  Bonds'
  BY <1>0, <1>3, BondsRowsOnly
  DEF TickQueue, CreateRow, NextRun, RowsGoOn, ControlsGoOn, TypeOK, Active
<1>4. CASE UNCHANGED <<status, jobOf, lease, link, agent, fg, pc, runOf, agentOf,
                      control, up, crashes>>
  BY <1>4, BondsRowsOnly DEF RowsGoOn, ControlsGoOn
<1> QED BY <1>1, <1>2, <1>3, <1>4 DEF TickStep, TickBegin, StartupTickPaused, TickEnd,
           TickPasses, TickFails, TickLeaves

\* A launch that begins takes over the link its row has.
LEMMA BondsLaunchCall ==
  ASSUME Core, Bonds, LaunchCall, TypeOK', ControlHoldsLease'
  PROVE  Bonds'
<1> USE DEF rowVars, launchVars, agentVars, envVars
<1>0. TypeOK
  BY DEF Core
<1>1. ASSUME NEW r \in RunIds, LaunchSkipped(r)
      PROVE  Bonds'
  BY <1>1, BondsRowsOnly DEF LaunchSkipped, RowsGoOn, ControlsGoOn
<1>2. ASSUME NEW r \in RunIds, LaunchRefused(r)
      PROVE  Bonds'
  BY <1>0, <1>2, BondsRowsOnly DEF LaunchRefused, SetStatus, RowsGoOn, ControlsGoOn, TypeOK, Active
<1>3. ASSUME NEW r \in RunIds, NEW l \in Launches, LaunchBegins(r, l)
      PROVE  Bonds'
  <2>1. /\ pc[l] = "unused" /\ status[r] = "queued" /\ up
        /\ UNCHANGED <<agent, fg, link, up, crashes, jobOf>>
        /\ control' = [control EXCEPT ![r] = l]
        /\ pc' = [pc EXCEPT ![l] = "starting"]
        /\ runOf' = [runOf EXCEPT ![l] = r] /\ agentOf' = [agentOf EXCEPT ![l] = link[r]]
        /\ lease' = [lease EXCEPT ![r] = l] /\ status' = SetStatus(r, "running")
    BY <1>3 DEF LaunchBegins, NextLaunch
  <2>2. \A m \in Launches \ {l} : Running(m) => runOf[m] # r
    BY <2>1, Zero DEF Core, Agreement, OwnerIsLive, Active
  <2>3. /\ pc'[l] = "starting" /\ runOf'[l] = r /\ agentOf'[l] = link[r]
        /\ \A m \in Launches \ {l} :
             pc'[m] = pc[m] /\ runOf'[m] = runOf[m] /\ agentOf'[m] = agentOf[m]
    BY <1>0, <2>1 DEF TypeOK
  <2>4. \A q \in RunIds : status'[q] \in Active => status[q] \in Active
    BY <1>0, <2>1 DEF SetStatus, Active, TypeOK
  <2>5. \A q \in RunIds : q # r => status'[q] = status[q] /\ lease'[q] = lease[q]
    BY <1>0, <2>1 DEF SetStatus, TypeOK
  <2>6. DownIsIdle'
    BY <2>1 DEF DownIsIdle
  <2>7. LinksApart'
    BY <2>1 DEF Bonds, LinksApart
  <2>8. LaunchKeepsItsAgent'
    <3> SUFFICES ASSUME NEW m \in Launches, Running(m)'
                 PROVE  /\ agentOf'[m] # 0 =>
                             /\ agent'[agentOf'[m]] # "none"
                             /\ \A q \in RunIds : link'[q] = agentOf'[m] => q = runOf'[m]
                        /\ pc'[m] = "starting" => agentOf'[m] = link'[runOf'[m]]
      BY DEF LaunchKeepsItsAgent
    <3>1. CASE m = l
      BY <2>1, <2>3, <3>1 DEF Bonds, LinksApart
    <3>2. CASE m # l
      BY <2>1, <2>3, <3>2 DEF Bonds, LaunchKeepsItsAgent, Running
    <3> QED BY <3>1, <3>2
  <2>9. PlanningIsUndisturbed'
    <3> SUFFICES ASSUME NEW m \in Launches, pc'[m] \in {"planning", "planned"}
                 PROVE  /\ agentOf'[m] # 0
                        /\ pc'[m] = "planning" /\ Owned(m)' =>
                             /\ link'[runOf'[m]] = agentOf'[m]
                             /\ agent'[agentOf'[m]] = "planning" /\ fg'[agentOf'[m]] = "off"
      BY DEF PlanningIsUndisturbed
    <3>1. m # l /\ pc'[m] = pc[m] /\ runOf'[m] = runOf[m] /\ agentOf'[m] = agentOf[m]
      BY <2>3
    <3>2. runOf[m] # r /\ runOf[m] \in RunIds
      BY <2>2, <3>1 DEF Running, Core, Agreement, LaunchHasRun
    <3>3. Owned(m)' <=> Owned(m)
      BY <2>5, <3>1, <3>2 DEF Owned
    <3> QED BY <2>1, <3>1, <3>3 DEF Bonds, PlanningIsUndisturbed
  <2>10. FailedAgentEndsRow'
    <3> SUFFICES ASSUME NEW q \in RunIds, link[q] # 0, agent[link[q]] = "failed",
                        status'[q] \in Active
                 PROVE  /\ crashes > 0 /\ fg[link[q]] = "off"
                        /\ control'[q] # 0 => pc'[control'[q]] = "starting"
      BY <2>1 DEF FailedAgentEndsRow, AgentOf
    <3>1. /\ crashes > 0 /\ fg[link[q]] = "off"
          /\ control[q] # 0 => pc[control[q]] = "starting"
      BY <2>4 DEF Bonds, FailedAgentEndsRow, AgentOf
    <3>2. PICK m : control'[q] = m
      OBVIOUS
    <3>3. CASE q = r
      BY <1>0, <2>1, <2>3, <3>1, <3>3 DEF TypeOK
    <3>4. CASE q # r
      <4>1. control[q] = m /\ (m # 0 => m \in Launches)
        BY <1>0, <2>1, <3>2, <3>4 DEF TypeOK
      <4> QED BY <2>3, <3>1, <3>2, <4>1
    <3> QED BY <3>3, <3>4
  <2>11. ShellsAreUnlinked'
    BY <2>1 DEF Bonds, ShellsAreUnlinked
  <2> QED BY <2>1, <2>6, <2>7, <2>8, <2>9, <2>10, <2>11 DEF Bonds
<1> QED BY <1>1, <1>2, <1>3 DEF LaunchCall

\* A launch that leaves its planner turn writes its own agent run, which no
\* other planner has.
LEMMA LaunchAgentsGoOn ==
  ASSUME Core, Bonds, LaunchesGoOn, RowsGoOn, UNCHANGED fg,
         NEW l \in Launches, Running(l), pc'[l] # "planning",
         \A a \in AgentIds : a # agentOf[l] => agent'[a] = agent[a],
         agentOf[l] # 0 => agent'[agentOf[l]] \notin {"none", "failed"}
                           \/ agent'[agentOf[l]] = agent[agentOf[l]]
  PROVE  AgentsGoOn
<1> SUFFICES ASSUME NEW a \in AgentIds, a = agentOf[l], agent'[a] # agent[a]
             PROVE  /\ agent'[a] = "none" <=> agent[a] = "none"
                    /\ agent'[a] # "failed"
                    /\ \A m \in Launches :
                         ~(pc'[m] = "planning" /\ Owned(m)' /\ agentOf[m] = a)
  BY DEF AgentsGoOn
<1>1. a # 0 /\ agent[a] # "none"
  BY Zero DEF Bonds, LaunchKeepsItsAgent
<1>2. ASSUME NEW m \in Launches, pc'[m] = "planning", Owned(m)', agentOf[m] = a
      PROVE  FALSE
  <2>1. Running(m)' /\ pc[m] = "planning"
    BY <1>2 DEF Running, LaunchesGoOn
  <2>2. Owned(m)
    BY <1>2, <2>1, OwnerStays
  <2>3. m # l
    BY <1>2
  <2> QED BY <1>2, <2>1, <2>2, <2>3, PlannerIsAlone
<1> QED BY <1>1, <1>2

\* A fresh agent run is nobody else's.
LEMMA BondsPlanningBegins ==
  ASSUME Core, Bonds, NEW l \in Launches, NEW a \in AgentIds, PlanningBegins(l, a), TypeOK'
  PROVE  Bonds'
<1>0. TypeOK
  BY DEF Core
<1>1. /\ up /\ pc[l] = "starting" /\ agent[a] = "none" /\ jobOf[runOf[l]] \notin ShellJobs
      /\ agent' = [agent EXCEPT ![a] = "planning"]
      /\ pc' = [pc EXCEPT ![l] = "planning"]
      /\ agentOf' = [agentOf EXCEPT ![l] = a]
      /\ link' = IF Owned(l) THEN [link EXCEPT ![runOf[l]] = a] ELSE link
      /\ UNCHANGED <<status, lease, jobOf, runOf, control, fg, up, crashes>>
  BY DEF PlanningBegins, NextAgent, Quiescent, envVars
<1>2. /\ Running(l) /\ runOf[l] \in RunIds /\ status[runOf[l]] # "none" /\ a # 0
      /\ \A m \in Launches \ {l} : Running(m) => runOf[m] # runOf[l]
  BY <1>1, Zero DEF Running, Core, Agreement, LaunchHasRun, OneLaunchPerRun
<1>3. /\ \A r \in RunIds : link[r] # a
      /\ \A m \in Launches : Running(m) => agentOf[m] # a
      /\ fg[a] = "off"
  BY <1>1, <1>2 DEF Bonds, LinksApart, LaunchKeepsItsAgent
<1>4. \A r \in RunIds : \/ link'[r] = link[r]
                        \/ r = runOf[l] /\ link'[r] = a
  BY <1>0, <1>1, <1>2 DEF TypeOK
<1>5. /\ agent'[a] = "planning"
      /\ \A b \in AgentIds \ {a} : agent'[b] = agent[b]
      /\ pc'[l] = "planning" /\ agentOf'[l] = a
      /\ \A m \in Launches \ {l} : pc'[m] = pc[m] /\ agentOf'[m] = agentOf[m]
  BY <1>0, <1>1 DEF TypeOK
<1>6. \A m \in Launches : Running(m)' <=> Running(m)
  BY <1>1, <1>5 DEF Running
<1>7. \A r \in RunIds : link[r] # 0 => link[r] \in AgentIds
  BY <1>0 DEF TypeOK
<1>8. \A m \in Launches : agentOf[m] # 0 => agentOf[m] \in AgentIds
  BY <1>0 DEF TypeOK
<1>9. DownIsIdle'
  BY <1>1 DEF DownIsIdle
<1>10. \A b \in AgentIds : agent'[b] = "none" => fg'[b] = "off"
  BY <1>1, <1>5 DEF Bonds
<1>11. LinksApart'
  BY <1>3, <1>4, <1>5, <1>7 DEF Bonds, LinksApart
<1>12. LaunchKeepsItsAgent'
  <2> SUFFICES ASSUME NEW m \in Launches, Running(m)'
               PROVE  /\ agentOf'[m] # 0 =>
                           /\ agent'[agentOf'[m]] # "none"
                           /\ \A q \in RunIds : link'[q] = agentOf'[m] => q = runOf'[m]
                      /\ pc'[m] = "starting" => agentOf'[m] = link'[runOf'[m]]
    BY DEF LaunchKeepsItsAgent
  <2>1. CASE m = l
    BY <1>1, <1>3, <1>4, <1>5, <2>1
  <2>2. CASE m # l
    <3>1. Running(m) /\ runOf[m] \in RunIds /\ runOf[m] # runOf[l]
      BY <1>2, <1>6, <2>2 DEF Core, Agreement, LaunchHasRun
    <3>2. link'[runOf[m]] = link[runOf[m]]
      BY <1>4, <3>1
    <3>3. agentOf[m] # a
      BY <1>3, <3>1
    <3> QED BY <1>1, <1>4, <1>5, <1>8, <2>2, <3>1, <3>2, <3>3 DEF Bonds, LaunchKeepsItsAgent
  <2> QED BY <2>1, <2>2
<1>13. PlanningIsUndisturbed'
  <2> SUFFICES ASSUME NEW m \in Launches, pc'[m] \in {"planning", "planned"}
               PROVE  /\ agentOf'[m] # 0
                      /\ pc'[m] = "planning" /\ Owned(m)' =>
                           /\ link'[runOf'[m]] = agentOf'[m]
                           /\ agent'[agentOf'[m]] = "planning" /\ fg'[agentOf'[m]] = "off"
    BY DEF PlanningIsUndisturbed
  <2>1. Owned(m)' <=> Owned(m)
    BY <1>1 DEF Owned
  <2>2. CASE m = l
    BY <1>0, <1>1, <1>2, <1>3, <1>5, <2>1, <2>2 DEF TypeOK
  <2>3. CASE m # l
    <3>1. Running(m) /\ pc[m] = pc'[m] /\ runOf[m] # runOf[l] /\ runOf[m] \in RunIds
      BY <1>2, <1>5, <2>3 DEF Running, Core, Agreement, LaunchHasRun
    <3>2. agentOf[m] # a /\ agentOf[m] # 0 /\ agentOf[m] \in AgentIds
      BY <1>3, <1>8, <3>1 DEF Bonds, PlanningIsUndisturbed
    <3> QED BY <1>1, <1>4, <1>5, <2>1, <2>3, <3>1, <3>2 DEF Bonds, PlanningIsUndisturbed
  <2> QED BY <2>2, <2>3
<1>14. FailedAgentEndsRow'
  <2> SUFFICES ASSUME NEW r \in RunIds, link'[r] # 0, agent'[link'[r]] = "failed",
                      status[r] \in Active
               PROVE  /\ crashes > 0 /\ fg[link'[r]] = "off"
                      /\ control[r] # 0 => pc'[control[r]] = "starting"
    BY <1>1 DEF FailedAgentEndsRow, AgentOf
  <2>1. link'[r] = link[r] /\ link[r] \in AgentIds \ {a} /\ agent[link[r]] = "failed"
    BY <1>4, <1>5, <1>7
  <2>2. /\ crashes > 0 /\ fg[link[r]] = "off"
        /\ control[r] # 0 => pc[control[r]] = "starting"
    BY <2>1, Zero DEF Bonds, FailedAgentEndsRow, AgentOf
  <2>3. ASSUME control[r] = l
        PROVE  FALSE
    <3>1. runOf[l] = r /\ lease[r] = l /\ status[r] = "running"
      BY <1>2, <2>3, Zero DEF Core, Agreement, ControlHoldsLease, OwnerIsLive
    <3>2. Owned(l)
      BY <3>1 DEF Owned
    <3> QED BY <1>0, <1>1, <2>1, <3>1, <3>2 DEF TypeOK
  <2>4. control[r] # 0 => control[r] \in Launches
    BY <1>0 DEF TypeOK
  <2> QED BY <1>5, <2>1, <2>2, <2>3, <2>4
<1>15. ShellsAreUnlinked'
  BY <1>1, <1>4 DEF Bonds, ShellsAreUnlinked
<1> QED BY <1>9, <1>10, <1>11, <1>12, <1>13, <1>14, <1>15 DEF Bonds

\* An executor keeps the bonds: it writes the agent run of its launch.
LEMMA BondsExecutor ==
  ASSUME Core, Bonds, NEW l \in Launches, ExecutorStep(l), TypeOK', ControlHoldsLease'
  PROVE  Bonds'
<1> USE DEF rowVars, launchVars, agentVars, envVars
<1>0. TypeOK
  BY DEF Core
<1>1. CASE ShellStarts(l)
  <2>1. UNCHANGED <<agent, fg, runOf, agentOf, up>> /\ RowsGoOn
    BY <1>1 DEF ShellStarts, RowsGoOn, ControlsGoOn
  <2>2. agentOf[l] = 0
    BY <1>1 DEF ShellStarts, Running, Core, Agreement, LaunchHasRun, Bonds, LaunchKeepsItsAgent,
           ShellsAreUnlinked
  <2>3. LaunchesGoOn
    BY <1>0, <1>1, <2>2 DEF ShellStarts, LaunchesGoOn, Running, TypeOK
  <2>4. AgentsGoOn
    BY <2>1 DEF AgentsGoOn
  <2> QED BY <2>1, <2>3, <2>4, BondsKept
<1>2. CASE PlanResumed(l)
  <2>1. pc[l] = "starting" /\ Running(l) /\ PlanReady(agentOf[l])
    BY <1>2 DEF PlanResumed, Running
  <2>2. agentOf[l] = link[runOf[l]] /\ runOf[l] \in RunIds
    BY <2>1 DEF Bonds, LaunchKeepsItsAgent, Core, Agreement, LaunchHasRun
  <2>3. link' = link
    BY <1>0, <1>2, <2>2 DEF PlanResumed, TypeOK
  <2>4. RowsGoOn /\ UNCHANGED <<fg, up>>
    BY <1>2, <2>3 DEF PlanResumed, RowsGoOn, ControlsGoOn
  <2>5. LaunchesGoOn /\ pc'[l] = "executing"
    BY <1>0, <1>2, <2>1 DEF PlanResumed, PlanReady, LaunchesGoOn, Running, TypeOK
  <2>6. AgentsGoOn
    BY <1>0, <1>2, <2>1, <2>4, <2>5, LaunchAgentsGoOn DEF PlanResumed, SetAgent, TypeOK
  <2> QED BY <2>4, <2>5, <2>6, BondsKept
<1>3. ASSUME NEW a \in AgentIds, PlanningBegins(l, a)
      PROVE  Bonds'
  BY <1>3, BondsPlanningBegins
<1>4. ASSUME EndLaunch(l), UNCHANGED <<agent, fg, up>>, RowsGoOn
      PROVE  Bonds'
  <2>1. LaunchesGoOn
    BY <1>0, <1>4 DEF EndLaunch, LaunchesGoOn, Running, TypeOK
  <2>2. AgentsGoOn
    BY <1>4 DEF AgentsGoOn
  <2> QED BY <1>4, <2>1, <2>2, BondsKept
<1>5. ASSUME EndLaunch(l), Running(l), UNCHANGED <<fg, up>>, RowsGoOn,
             \A a \in AgentIds : a # agentOf[l] => agent'[a] = agent[a],
             agentOf[l] # 0 => agent'[agentOf[l]] \notin {"none", "failed"}
                               \/ agent'[agentOf[l]] = agent[agentOf[l]]
      PROVE  Bonds'
  <2>1. LaunchesGoOn /\ pc'[l] = "done"
    BY <1>0, <1>5 DEF EndLaunch, LaunchesGoOn, Running, TypeOK
  <2>2. AgentsGoOn
    BY <1>5, <2>1, LaunchAgentsGoOn
  <2> QED BY <1>5, <2>1, <2>2, BondsKept
<1>6. CASE LaunchDisowned(l)
  BY <1>0, <1>4, <1>6, EndLaunchControls DEF LaunchDisowned, RowsGoOn
<1>7. CASE PlannerAsks(l)
  <2>1. PICK out \in {<<"awaiting-user-input", "awaiting-user-input">>,
                      <<"succeeded", "awaiting-user-input">>, <<"skipped", "planning">>} :
          /\ status' = SetStatus(runOf[l], out[1])
          /\ agent' = [agent EXCEPT ![agentOf[l]] = out[2]]
    BY <1>7 DEF PlannerAsks
  <2>2. EndLaunch(l) /\ Running(l) /\ UNCHANGED <<fg, up, link, lease, jobOf, crashes>>
    BY <1>7 DEF PlannerAsks, Running
  <2>3. RowsGoOn
    BY <1>0, <2>1, <2>2, EndLaunchControls DEF RowsGoOn, SetStatus, TypeOK
  <2>4. \A a \in AgentIds : a # agentOf[l] => agent'[a] = agent[a]
    BY <1>0, <2>1 DEF TypeOK
  <2>5. agentOf[l] # 0 => agent'[agentOf[l]] \notin {"none", "failed"}
    BY <1>0, <2>1 DEF TypeOK
  <2> QED BY <1>5, <2>2, <2>3, <2>4, <2>5
<1>8. CASE PlannerPlans(l) \/ ExecutionBegins(l)
  <2>1. /\ Running(l) /\ pc'[l] \in {"planned", "executing"} /\ LaunchesGoOn
        /\ UNCHANGED <<fg, up>> /\ RowsGoOn
    BY <1>0, <1>8
    DEF PlannerPlans, ExecutionBegins, Running, LaunchesGoOn, RowsGoOn, ControlsGoOn, TypeOK
  <2>2. /\ \A a \in AgentIds : a # agentOf[l] => agent'[a] = agent[a]
        /\ agentOf[l] # 0 => agent'[agentOf[l]] \notin {"none", "failed"}
                             \/ agent'[agentOf[l]] = agent[agentOf[l]]
    BY <1>0, <1>8 DEF PlannerPlans, ExecutionBegins, SetAgent, TypeOK
  <2>3. AgentsGoOn
    BY <2>1, <2>2, LaunchAgentsGoOn
  <2> QED BY <2>1, <2>3, BondsKept
<1>9. ASSUME NEW s \in {"completed", "partial-complete"}, agent' = SetAgent(agentOf[l], s)
      PROVE  /\ \A a \in AgentIds : a # agentOf[l] => agent'[a] = agent[a]
             /\ agentOf[l] # 0 => agent'[agentOf[l]] \notin {"none", "failed"}
                                  \/ agent'[agentOf[l]] = agent[agentOf[l]]
  BY <1>0, <1>9 DEF SetAgent, TypeOK
<1>10. CASE ExecutionEnds(l)
  <2>1. EndLaunch(l) /\ Running(l) /\ UNCHANGED <<fg, up>> /\ RowsGoOn
    BY <1>0, <1>10, EndLaunchControls DEF ExecutionEnds, Running, RowsGoOn, SetStatus, TypeOK
  <2>2. \E s \in {"completed", "partial-complete"} : agent' = SetAgent(agentOf[l], s)
    BY <1>10 DEF ExecutionEnds
  <2> QED BY <1>5, <1>9, <2>1, <2>2
<1>11. ASSUME NEW q \in RunIds, RecoveryQueued(l, q)
       PROVE  Bonds'
  <2>1. EndLaunch(l) /\ Running(l) /\ UNCHANGED <<fg, up, crashes>>
    BY <1>11 DEF RecoveryQueued, Running
  <2>2. RowsGoOn
    BY <1>0, <1>11, <2>1, EndLaunchControls
    DEF RecoveryQueued, CreateRow, NextRun, RowsGoOn, SetStatus, TypeOK, Active
  <2>3. agent' = SetAgent(agentOf[l], "partial-complete") \/ agent' = agent
    BY <1>11 DEF RecoveryQueued
  <2>4. CASE agent' = agent
    BY <1>5, <2>1, <2>2, <2>4
  <2> QED BY <1>5, <1>9, <2>1, <2>2, <2>3, <2>4
<1>12. CASE ShellExits(l)
  BY <1>0, <1>4, <1>12, EndLaunchControls DEF ShellExits, RowsGoOn, SetStatus, TypeOK
<1>13. CASE LaunchThrows(l)
  BY <1>0, <1>4, <1>13, EndLaunchControls DEF LaunchThrows, RowsGoOn, SetStatus, TypeOK
<1> QED BY <1>1, <1>2, <1>3, <1>6, <1>7, <1>8, <1>10, <1>11, <1>12, <1>13 DEF ExecutorStep

\* Timers and the clock touch no agent run.
LEMMA BondsTimer ==
  ASSUME Core, Bonds, TimerStep, TypeOK', ControlHoldsLease'
  PROVE  Bonds'
<1> USE DEF rowVars, launchVars, agentVars, envVars
<1>1. UNCHANGED <<status, jobOf, lease, link, agent, fg, pc, runOf, agentOf, up, crashes>>
  BY DEF TimerStep, RenewStops, LeaseLapses, RunBecomesOverdue, JobBecomesDue
<1>2. \/ control' = control
      \/ \E r \in RunIds : control' = [control EXCEPT ![r] = 0]
  BY DEF TimerStep, RenewStops, LeaseLapses, RunBecomesOverdue, JobBecomesDue
<1>3. RowsGoOn
  BY <1>1, <1>2 DEF RowsGoOn, ControlsGoOn, Core, TypeOK
<1> QED BY <1>1, <1>3, BondsRowsOnly

\* A stop ends rows first: their planners own them no longer.
LEMMA BondsStopRuns ==
  ASSUME Core, Bonds, TypeOK', ControlHoldsLease', NEW R \in SUBSET RunIds, StopRuns(R),
         \A r \in R : status'[r] \notin Active,
         UNCHANGED <<pc, runOf, agentOf, up>>, RowsGoOn
  PROVE  Bonds'
<1> DEFINE stopped == {r \in R : status[r] \in Active}
           agents == {link[r] : r \in stopped} \ {0}
<1>1. /\ agent' = [a \in AgentIds |->
            IF a \in agents /\ agent[a] \notin AgentTerminal THEN "stopped" ELSE agent[a]]
      /\ fg' = [a \in AgentIds |-> IF a \in agents /\ Registered(a) THEN "off" ELSE fg[a]]
  BY DEF StopRuns
<1>2. \A a \in agents : \E r \in R : link[r] = a /\ a # 0
  OBVIOUS
<1> HIDE DEF agents, stopped
<1>3. LaunchesGoOn
  BY DEF LaunchesGoOn, Running
<1>4. \A a \in agents : agent[a] # "none"
  BY <1>2 DEF Bonds, LinksApart
<1>5. ASSUME NEW a \in agents, NEW l \in Launches,
             pc'[l] = "planning", Owned(l)', agentOf[l] = a
      PROVE  FALSE
  <2>1. Running(l)' /\ pc[l] = "planning"
    BY <1>5 DEF Running
  <2>2. Owned(l)
    BY <1>3, <1>5, <2>1, OwnerStays
  <2>3. \A r \in RunIds : link[r] = a => r = runOf[l]
    BY <1>5, <2>1, <2>2, PlannerIsAlone
  <2>4. runOf[l] \in R
    BY <1>2, <2>3
  <2> QED BY <1>5, <2>4 DEF Owned, Active
<1>6. AgentsGoOn
  BY <1>1, <1>4, <1>5 DEF AgentsGoOn
<1> QED BY <1>3, <1>6, BondsKept

\* An answer or a foreground execution needs an agent run that no planner of
\* an owner has.
LEMMA BondsForegroundTurn ==
  ASSUME Core, Bonds, TypeOK', ControlHoldsLease', NEW a \in AgentIds, agent[a] # "none",
         agent[a] # "planning" \/ fg[a] # "off",
         \A b \in AgentIds \ {a} : agent'[b] = agent[b] /\ fg'[b] = fg[b],
         agent'[a] # "none",
         agent[a] = "failed" /\ fg[a] = "off" => fg'[a] = "off",
         agent'[a] = "failed" /\ agent[a] # "failed" =>
           \A r \in RunIds : link[r] = a => status'[r] \notin Active,
         UNCHANGED <<pc, runOf, agentOf, up>>, RowsGoOn
  PROVE  Bonds'
<1>1. LaunchesGoOn
  BY DEF LaunchesGoOn, Running
<1>2. ASSUME NEW l \in Launches, pc'[l] = "planning", Owned(l)', agentOf[l] = a
      PROVE  FALSE
  <2>1. Running(l)' /\ pc[l] = "planning"
    BY <1>2 DEF Running
  <2>2. Owned(l)
    BY <1>1, <1>2, <2>1, OwnerStays
  <2> QED BY <1>2, <2>1, <2>2, PlannerIsAlone
<1>3. AgentsGoOn
  BY <1>2 DEF AgentsGoOn
<1> QED BY <1>1, <1>3, BondsKept

\* Commands keep the bonds.
LEMMA BondsCommand ==
  ASSUME Core, Bonds, CommandStep, TypeOK', ControlHoldsLease'
  PROVE  Bonds'
<1> USE DEF rowVars, launchVars, agentVars, envVars
<1>0. TypeOK
  BY DEF Core
<1>1. ASSUME NEW j \in Jobs, RunNow(j)
      PROVE  Bonds'
  <2> DEFINE R == {r \in RunIds : jobOf[r] = j}
             t == [lapsed |-> lapsed, overdue |-> overdue]
  <2>1. PICK auto \in SUBSET AutoResolvable(R) :
          /\ agent' = RepairedAgent(R, t, auto)
          /\ \/ status' = RepairedStatus(R, t, auto)
             \/ \E q \in RunIds :
                  NextRun(q) /\ status' = [RepairedStatus(R, t, auto) EXCEPT ![q] = "queued"]
    BY <1>1 DEF RunNow, CreateRow
  <2>2. UNCHANGED <<pc, runOf, agentOf, fg, link, lease, up, control, crashes>>
    BY <1>1 DEF RunNow, CreateRow
  <2>9. \A r \in RunIds : jobOf'[r] = jobOf[r] \/ status[r] = "none"
    <3>1. \/ jobOf' = jobOf
          \/ \E q \in RunIds : status[q] = "none" /\ jobOf' = [jobOf EXCEPT ![q] = j]
      BY <1>1 DEF RunNow, CreateRow, NextRun
    <3> QED BY <1>0, <3>1 DEF TypeOK
  <2>3. R \in SUBSET RunIds
    OBVIOUS
  <2>4. RepairedStatus(R, t, auto) = [r \in RunIds |-> RepairedStatus(R, t, auto)[r]]
    BY DEF RepairedStatus
  <2> HIDE DEF R, t
  <2>5. \A r \in FailedByRepair(R, t) : /\ RepairedStatus(R, t, auto)[r] = "failed"
                                        /\ r \in RunIds /\ status[r] \in Active
    BY <2>3, RepairFails DEF FailedByRepair, Repairable
  <2>6. \A r \in FailedByRepair(R, t) : status'[r] = "failed"
    BY <2>1, <2>4, <2>5 DEF NextRun, Active
  <2>7. RowsGoOn
    BY <1>0, <1>1, <2>2, <2>9, RunNowMoves DEF RowsGoOn, ControlsGoOn, Active, Terminal
  <2>8. LaunchesGoOn /\ AgentsGoOn
    BY <2>1, <2>2, <2>3, <2>6, <2>7, RepairAgentsGoOn
  <2> QED BY <2>2, <2>7, <2>8, BondsKept
<1>2. ASSUME NEW r \in RunIds, RetryRun(r)
      PROVE  Bonds'
  BY <1>0, <1>2, BondsRowsOnly DEF RetryRun, CreateRow, NextRun, RowsGoOn, ControlsGoOn, TypeOK
<1>3. ASSUME NEW r \in RunIds, ApproveRun(r) \/ RejectRun(r)
      PROVE  Bonds'
  BY <1>0, <1>3, BondsRowsOnly DEF ApproveRun, RejectRun, SetStatus, RowsGoOn, ControlsGoOn, TypeOK
<1>4. ASSUME NEW r \in RunIds, StopRun(r)
      PROVE  Bonds'
  <2>1. RowsGoOn /\ StopRuns({r}) /\ UNCHANGED <<pc, runOf, agentOf, up>>
    BY <1>0, <1>4 DEF StopRun, StopRuns, SetStatus, RowsGoOn, ControlsGoOn, TypeOK
  <2>2. status'[r] \notin Active
    BY <1>0, <1>4 DEF StopRun, SetStatus, Active, TypeOK
  <2> QED BY <2>1, <2>2, BondsStopRuns
<1>5. ASSUME NEW j \in Jobs, DeleteJob(j)
      PROVE  Bonds'
  <2> DEFINE R == {r \in RunIds : jobOf[r] = j}
  <2>1. StopRuns(R) /\ UNCHANGED <<pc, runOf, agentOf, up>> /\ RowsGoOn
    BY <1>5 DEF DeleteJob, DeleteRows, StopRuns, RowsGoOn, ControlsGoOn, Active
  <2>2. \A r \in R : status'[r] \notin Active
    BY <1>5 DEF DeleteJob, DeleteRows, Active
  <2> HIDE DEF R
  <2>3. R \in SUBSET RunIds
    BY DEF R
  <2> QED BY <2>1, <2>2, <2>3, BondsStopRuns
<1>6. CASE DeleteAssistant
  BY <1>6, BondsRowsOnly DEF DeleteAssistant, DeleteRows, RowsGoOn, ControlsGoOn, Active
<1>7. ASSUME NEW a \in AgentIds, AnswerQuestion(a)
      PROVE  Bonds'
  <2>1. /\ agent[a] = "awaiting-user-input" /\ agent'[a] = "planning"
        /\ \A b \in AgentIds \ {a} : agent'[b] = agent[b] /\ fg'[b] = fg[b]
        /\ UNCHANGED <<pc, runOf, agentOf, up>>
    BY <1>0, <1>7 DEF AnswerQuestion, TypeOK
  <2>2. RowsGoOn
    BY <1>7 DEF AnswerQuestion, RowsGoOn, ControlsGoOn, Active
  <2> QED BY <2>1, <2>2, BondsForegroundTurn
<1>8. ASSUME NEW a \in AgentIds, ExecuteRequested(a)
      PROVE  Bonds'
  <2>1. /\ agent[a] = "ready" /\ agent' = agent
        /\ \A b \in AgentIds \ {a} : fg'[b] = fg[b]
        /\ UNCHANGED <<pc, runOf, agentOf, up>> /\ RowsGoOn
    BY <1>0, <1>8 DEF ExecuteRequested, RowsGoOn, ControlsGoOn, TypeOK
  <2> QED BY <2>1, BondsForegroundTurn
<1>9. CASE UNCHANGED <<status, jobOf, lease, link, agent, fg, pc, runOf, agentOf,
                      control, up, crashes>>
  BY <1>9, BondsRowsOnly DEF RowsGoOn, ControlsGoOn
<1> QED BY <1>1, <1>2, <1>3, <1>4, <1>5, <1>6, <1>7, <1>8, <1>9
        DEF CommandStep, SetJobStatus, PauseAll, ResumeAll, Release, AssistantChanges

\* A foreground handler keeps the bonds: when it fails it takes its row along.
LEMMA BondsForeground ==
  ASSUME Core, Bonds, NEW a \in AgentIds, ForegroundStep(a), TypeOK', ControlHoldsLease'
  PROVE  Bonds'
<1> USE DEF rowVars, launchVars, agentVars, envVars
<1>0. TypeOK
  BY DEF Core
<1>1. fg[a] # "off" /\ agent[a] # "none"
  BY DEF ForegroundStep, PreflightPasses, PreflightFails, ForegroundAsks, ForegroundPlans,
         ForegroundCompletes, ForegroundFails, Bonds
<1>2. \A b \in AgentIds \ {a} : agent'[b] = agent[b] /\ fg'[b] = fg[b]
  BY <1>0 DEF ForegroundStep, PreflightPasses, PreflightFails, ForegroundAsks,
         ForegroundPlans, ForegroundCompletes, ForegroundFails, SetAgent, TypeOK
<1>3. agent'[a] # "none"
  BY <1>0, <1>1 DEF ForegroundStep, PreflightPasses, PreflightFails, ForegroundAsks,
         ForegroundPlans, ForegroundCompletes, ForegroundFails, SetAgent, TypeOK
<1>4. CASE ForegroundFails(a)
  <2>1. UNCHANGED <<pc, runOf, agentOf, up>> /\ RowsGoOn
    BY <1>4 DEF ForegroundFails, RowsGoOn, ControlsGoOn, Active
  <2>2. \A r \in RunIds : link[r] = a => status'[r] \notin Active
    BY <1>4 DEF ForegroundFails, Active
  <2> QED BY <1>1, <1>2, <1>3, <2>1, <2>2, BondsForegroundTurn
<1>5. CASE ~ForegroundFails(a)
  <2>1. UNCHANGED <<pc, runOf, agentOf, up>> /\ RowsGoOn
    BY <1>5 DEF ForegroundStep, PreflightPasses, PreflightFails, ForegroundAsks,
         ForegroundPlans, ForegroundCompletes, RowsGoOn, ControlsGoOn
  <2>2. agent'[a] = "failed" => agent[a] = "failed"
    BY <1>0, <1>5 DEF ForegroundStep, PreflightPasses, PreflightFails, ForegroundAsks,
         ForegroundPlans, ForegroundCompletes, SetAgent, TypeOK
  <2> QED BY <1>1, <1>2, <1>3, <2>1, <2>2, BondsForegroundTurn
<1> QED BY <1>4, <1>5

\* A crash leaves no launch and no handler that could disturb the other, and
\* agent runs that failed without their rows are nobody's.
LEMMA BondsAfterCrash ==
  ASSUME Core, Bonds, MemoryLost, TypeOK',
         \A a \in AgentIds : agent[a] # "none" => agent'[a] # "none"
  PROVE  Bonds'
<1>0. TypeOK
  BY DEF Core
<1>1. /\ \A l \in Launches : pc'[l] \in {"unused", "done"}
      /\ \A a \in AgentIds : fg'[a] = "off"
      /\ \A r \in RunIds : control'[r] = 0
      /\ UNCHANGED <<link, jobOf>> /\ crashes' = crashes + 1
  BY DEF MemoryLost
<1>2. crashes' > 0
  BY <1>0, <1>1 DEF TypeOK
<1>3. \A r \in RunIds : link[r] # 0 => link[r] \in AgentIds
  BY <1>0 DEF TypeOK
<1>4. LinksApart'
  BY <1>1, <1>3 DEF Bonds, LinksApart
<1>5. DownIsIdle' /\ LaunchKeepsItsAgent' /\ PlanningIsUndisturbed'
  BY <1>1 DEF DownIsIdle, LaunchKeepsItsAgent, PlanningIsUndisturbed, Running
<1>6. FailedAgentEndsRow'
  BY <1>1, <1>2, <1>3 DEF FailedAgentEndsRow, AgentOf
<1>7. ShellsAreUnlinked'
  BY <1>1 DEF Bonds, ShellsAreUnlinked
<1> QED BY <1>1, <1>4, <1>5, <1>6, <1>7 DEF Bonds

\* No agent run disappears, and none that has ended comes back.
AgentOutlives(a) ==
  /\ agent[a] # "none" => agent'[a] # "none"
  /\ agent[a] \in AgentTerminal => agent'[a] = agent[a]

\* A repair pass leaves the agent runs that have ended alone.
LEMMA RepairedAgentOutlives ==
  ASSUME TypeOK, NEW R \in SUBSET RunIds, NEW t, NEW auto \in SUBSET AutoResolvable(R),
         agent' = RepairedAgent(R, t, auto), NEW a \in AgentIds
  PROVE  AgentOutlives(a)
<1>1. agent[a] \in AgentTerminal => \A r \in FailedByRepair(R, t) : link[r] # a
  BY DEF FailedByRepair, LinkedEnded, AgentOf, RunIds, AgentIds
<1>2. agent[a] \in AgentTerminal => \A r \in auto : link[r] # a
  BY DEF AutoResolvable, AgentOf, AgentTerminal, RunIds, AgentIds
<1> QED BY <1>1, <1>2 DEF RepairedAgent, AgentOutlives

\* So does every handler that a crash cuts short.
LEMMA CrashInHandlerAgents ==
  ASSUME TypeOK, CrashInHandler
  PROVE  \A a \in AgentIds : AgentOutlives(a)
<1> DEFINE Outlive == \A a \in AgentIds : AgentOutlives(a)
<1>1. ASSUME NEW l \in Launches, NEW a \in AgentIds, CrashInPlanningBegins(l, a)
      PROVE  Outlive
  BY <1>1 DEF CrashInPlanningBegins, NextAgent, AgentOutlives, AgentTerminal, TypeOK
<1>2. ASSUME NEW l \in Launches, CrashInPlannerAsks(l)
      PROVE  Outlive
  BY <1>2 DEF CrashInPlannerAsks, AgentOutlives, TypeOK
<1>3. ASSUME NEW b, NEW s \in AgentTerminal, agent' = SetAgent(b, s)
      PROVE  Outlive
  BY <1>3 DEF SetAgent, AgentOutlives, AgentTerminal, TypeOK
<1>4. ASSUME NEW l \in Launches, CrashInExecutionEnds(l)
      PROVE  Outlive
  BY <1>3, <1>4 DEF CrashInExecutionEnds, AgentTerminal
<1>5. ASSUME NEW a \in AgentIds, CrashInAnswerQuestion(a)
      PROVE  Outlive
  BY <1>5 DEF CrashInAnswerQuestion, AgentOutlives, AgentTerminal, TypeOK
<1>6. ASSUME NEW a \in AgentIds, CrashInForegroundFails(a)
      PROVE  Outlive
  BY <1>3, <1>6 DEF CrashInForegroundFails, AgentTerminal
<1>7. ASSUME NEW R \in SUBSET RunIds, NEW t, PartlyRepaired(R, t)
      PROVE  Outlive
  <2>1. \A S \in SUBSET RunIds : {} \in SUBSET AutoResolvable(S)
    OBVIOUS
  <2>2. PICK S \in SUBSET RunIds :
          \E auto \in SUBSET AutoResolvable(S) : agent' = RepairedAgent(S, t, auto)
    <3>1. ASSUME NEW done \in SUBSET R, NEW next \in R,
                 agent' = RepairedAgent(done \cup {next}, t, {})
          PROVE  \E S \in SUBSET RunIds :
                   \E auto \in SUBSET AutoResolvable(S) : agent' = RepairedAgent(S, t, auto)
      <4>1. done \cup {next} \in SUBSET RunIds
        OBVIOUS
      <4> QED BY <2>1, <3>1, <4>1
    <3>2. ASSUME NEW auto \in SUBSET AutoResolvable(R), NEW next \in AutoResolvable(R),
                 agent' = RepairedAgent(R, t, auto \cup {next})
          PROVE  \E S \in SUBSET RunIds :
                   \E au \in SUBSET AutoResolvable(S) : agent' = RepairedAgent(S, t, au)
      <4>1. auto \cup {next} \in SUBSET AutoResolvable(R)
        OBVIOUS
      <4> QED BY <3>2, <4>1
    <3> QED BY <1>7, <3>1, <3>2 DEF PartlyRepaired
  <2>3. PICK auto \in SUBSET AutoResolvable(S) : agent' = RepairedAgent(S, t, auto)
    BY <2>2
  <2> QED BY <2>3, RepairedAgentOutlives
<1>8. ASSUME NEW R \in SUBSET RunIds, PartlyStopped(R)
      PROVE  Outlive
  BY <1>8 DEF PartlyStopped, AgentOutlives
<1>9. ASSUME CrashInShutdown
      PROVE  Outlive
  BY <1>9 DEF CrashInShutdown, StoppedAgents, AgentOutlives, AgentTerminal, AgentWorking
<1>10. ASSUME CrashInTickRepair
       PROVE  Outlive
  BY <1>7, <1>10 DEF CrashInTickRepair
<1>11. ASSUME NEW j \in Jobs, CrashInRunNow(j)
       PROVE  Outlive
  BY <1>7, <1>11 DEF CrashInRunNow
<1>12. ASSUME NEW j \in Jobs, CrashInDeleteJob(j)
       PROVE  Outlive
  BY <1>8, <1>12 DEF CrashInDeleteJob
<1>13. ASSUME NEW r \in RunIds, CrashInStopRun(r)
       PROVE  Outlive
  BY <1>8, <1>13 DEF CrashInStopRun
<1> HIDE DEF Outlive
<1>14. Outlive
  BY <1>1, <1>2, <1>4, <1>5, <1>6, <1>9, <1>10, <1>11, <1>12, <1>13 DEF CrashInHandler
<1> QED BY <1>14 DEF Outlive

\* When the process goes down no launch is left to disturb.
LEMMA BondsProcess ==
  ASSUME Core, Bonds, ProcessStep, TypeOK', ControlHoldsLease'
  PROVE  Bonds'
<1> USE DEF rowVars, launchVars, agentVars, envVars
<1>0. TypeOK
  BY DEF Core
<1>1. CASE Restart
  <2>1. \A l \in Launches : ~Running(l)'
    BY <1>1 DEF Restart, Running, Bonds, DownIsIdle
  <2>2. RowsGoOn
    BY <1>1 DEF Restart, RowsGoOn, ControlsGoOn
  <2>3. LaunchesGoOn
    BY <2>1 DEF LaunchesGoOn
  <2>4. \A a \in AgentIds : \/ agent'[a] = agent[a]
                            \/ agent[a] \in AgentWorking /\ agent'[a] = "stopped"
    BY <1>1 DEF Restart, StoppedAgents
  <2>5. fg' = fg
    BY <1>1 DEF Restart
  <2>6. AgentsGoOn
    BY <2>1, <2>4, <2>5 DEF AgentsGoOn, AgentWorking, Running
  <2> QED BY <2>1, <2>2, <2>3, <2>6, BondsKept
<1>2. CASE Crash \/ Shutdown
  <2>1. MemoryLost /\ \A a \in AgentIds : agent[a] # "none" => agent'[a] # "none"
    BY <1>2 DEF Crash, Shutdown, StoppedAgents
  <2> QED BY <2>1, BondsAfterCrash
<1>3. CASE CrashInHandler
  <2>1. MemoryLost
    BY <1>0, <1>3, CrashInHandlerType
  <2>2. \A a \in AgentIds : agent[a] # "none" => agent'[a] # "none"
    BY <1>0, <1>3, CrashInHandlerAgents DEF AgentOutlives
  <2> QED BY <2>1, <2>2, BondsAfterCrash
<1> QED BY <1>1, <1>2, <1>3 DEF ProcessStep

-----------------------------------------------------------------------------
(* What a step may not do to agent runs and worked rows.                   *)

\* Every write of an ended agent run comes from its foreground handler: the
\* guarded writes keep it, and a launch writes without a look only while the
\* agent run is being planned for it.
LEMMA EndedAgentStays ==
  ASSUME Core, Bonds, Next, NEW a \in AgentIds, agent[a] \in AgentTerminal, agent'[a] # agent[a]
  PROVE  fg[a] \in {"planning", "executing"}
<1> USE DEF agentVars
<1>0. TypeOK
  BY DEF Core
<1>1. ASSUME NEW R \in SUBSET RunIds, NEW t, NEW auto \in SUBSET AutoResolvable(R),
             agent' = RepairedAgent(R, t, auto)
      PROVE  FALSE
  <2>1. \A r \in FailedByRepair(R, t) : link[r] # a
    BY DEF FailedByRepair, LinkedEnded, AgentOf, RunIds, AgentIds
  <2>2. \A r \in auto : link[r] # a
    BY DEF AutoResolvable, AgentOf, AgentTerminal, RunIds, AgentIds
  <2> QED BY <1>1, <2>1, <2>2 DEF RepairedAgent
<1>2. ~TickStep
  <2>1. ~TickRepair
    <3> DEFINE t == [lapsed |-> lapsed \cap now.lapsed, overdue |-> overdue \cap now.overdue]
    <3>1. TickRepair => \E auto \in SUBSET AutoResolvable(RunIds) :
                          agent' = RepairedAgent(RunIds, t, auto)
      BY DEF TickRepair, RepairRows
    <3> HIDE DEF t
    <3> QED BY <1>1, <3>1
  <2> QED BY <2>1 DEF TickStep, TickBegin, StartupTickPaused, TickEnd, TickPasses, TickFails,
             TickLeaves, TickResume, TickQueue
<1>3. ~LaunchCall /\ ~TimerStep
  BY DEF LaunchCall, LaunchSkipped, LaunchRefused, LaunchBegins,
         TimerStep, RenewStops, LeaseLapses, RunBecomesOverdue, JobBecomesDue
<1>4. ASSUME NEW l \in Launches, ExecutorStep(l)
      PROVE  FALSE
  <2>1. ~PlannerPlans(l)
    <3> SUFFICES ASSUME PlannerPlans(l) PROVE FALSE
      OBVIOUS
    <3>1. pc[l] = "planning" /\ Owned(l) /\ agent' = [agent EXCEPT ![agentOf[l]] = "ready"]
      BY DEF PlannerPlans
    <3>2. agent[agentOf[l]] = "planning"
      BY <3>1, PlannerIsAlone
    <3> QED BY <1>0, <3>1, <3>2 DEF AgentTerminal, TypeOK
  <2>2. ~PlannerAsks(l)
    BY <1>0 DEF PlannerAsks, TypeOK
  <2>3. ASSUME NEW b \in AgentIds, PlanningBegins(l, b)
        PROVE  FALSE
    BY <1>0, <2>3 DEF PlanningBegins, NextAgent, AgentTerminal, TypeOK
  <2>4. ~ExecutionEnds(l) /\ \A q \in RunIds : ~RecoveryQueued(l, q)
    BY <1>0 DEF ExecutionEnds, RecoveryQueued, SetAgent, TypeOK
  <2>5. ~PlanResumed(l) /\ ~ExecutionBegins(l)
    BY <1>0 DEF PlanResumed, ExecutionBegins, SetAgent, TypeOK
  <2> QED BY <1>4, <2>1, <2>2, <2>3, <2>4, <2>5
          DEF ExecutorStep, ShellStarts, LaunchDisowned, ShellExits, LaunchThrows
<1>5. ~CommandStep
  <2>1. ASSUME NEW j \in Jobs, RunNow(j)
        PROVE  FALSE
    <3> DEFINE R == {r \in RunIds : jobOf[r] = j}
               t == [lapsed |-> lapsed, overdue |-> overdue]
    <3>1. \E auto \in SUBSET AutoResolvable(R) : agent' = RepairedAgent(R, t, auto)
      BY <2>1 DEF RunNow
    <3>2. R \in SUBSET RunIds
      OBVIOUS
    <3> HIDE DEF R, t
    <3> QED BY <1>1, <3>1, <3>2
  <2>2. ASSUME NEW R, StopRuns(R)
        PROVE  FALSE
    BY <2>2 DEF StopRuns
  <2>3. ASSUME NEW b \in AgentIds, AnswerQuestion(b) \/ ExecuteRequested(b)
        PROVE  FALSE
    BY <1>0, <2>3 DEF AnswerQuestion, ExecuteRequested, AgentTerminal, TypeOK
  <2>4. (\A r \in RunIds : ~StopRun(r)) /\ \A j \in Jobs : ~DeleteJob(j)
    BY <2>2 DEF StopRun, DeleteJob
  <2> QED BY <2>1, <2>3, <2>4
          DEF CommandStep, SetJobStatus, RetryRun, ApproveRun, RejectRun, PauseAll, ResumeAll,
              Release, AssistantChanges, DeleteAssistant
<1>6. ~ProcessStep
  <2>1. ~CrashInHandler
    BY <1>0, CrashInHandlerAgents DEF AgentOutlives
  <2> QED BY <2>1
          DEF ProcessStep, Crash, Shutdown, Restart, StoppedAgents, AgentTerminal, AgentWorking
<1>7. ASSUME NEW b \in AgentIds, ForegroundStep(b)
      PROVE  fg[a] \in {"planning", "executing"}
  <2>1. CASE ForegroundPlans(b)
    BY <1>0, <2>1 DEF ForegroundPlans, TypeOK
  <2>2. CASE ~ForegroundPlans(b)
    BY <1>0, <1>7, <2>2 DEF ForegroundStep, PreflightPasses, PreflightFails, ForegroundAsks,
       ForegroundCompletes, ForegroundFails, SetAgent, TypeOK
  <2> QED BY <2>1, <2>2
<1> QED BY <1>2, <1>3, <1>4, <1>5, <1>6, <1>7 DEF Next

\* An agent run that failed before a crash, whose row a launch has taken over
\* and not looked at yet.
FailedBefore(r) == crashes > 0 /\ AgentOf(r) = "failed" /\ pc[control[r]] = "starting"

\* A repair pass fails a running row somebody works on only for its bounds, or
\* after a crash: a failed agent run has otherwise ended its row.
LEMMA RepairSparesWorked ==
  ASSUME Core, Bonds, NEW R \in SUBSET RunIds, NEW t, NEW auto \in SUBSET AutoResolvable(R),
         NEW r \in RunIds, status[r] = "running", Live(r), r \notin t.overdue,
         RepairedStatus(R, t, auto)[r] = "failed"
  PROVE  FailedBefore(r)
<1>0. TypeOK
  BY DEF Core
<1>1. CASE r \in Repairable(R) /\ LinkedEnded(r)
  <2>1. RepairedStatus(R, t, auto)[r] = RowStatusOfAgent[AgentOf(r)]
    BY <1>1, RepairedByAgent
  <2>2. AgentOf(r) \in AgentTerminal
    BY <1>1 DEF LinkedEnded
  <2>3. AgentOf(r) = "failed"
    BY <2>1, <2>2 DEF RowStatusOfAgent, AgentTerminal
  <2>4. /\ crashes > 0 /\ fg[link[r]] = "off"
        /\ control[r] # 0 => pc[control[r]] = "starting"
    BY <2>3 DEF Bonds, FailedAgentEndsRow, Active
  <2>5. control[r] # 0
    BY <2>4 DEF Live, Registered
  <2> QED BY <2>3, <2>4, <2>5 DEF FailedBefore
<1>2. CASE ~(r \in Repairable(R) /\ LinkedEnded(r))
  <2>1. r \notin FailedByRepair(R, t)
    BY DEF FailedByRepair, ControllerLost, TimedOut
  <2> QED BY <1>2, <2>1 DEF RepairedStatus
<1> QED BY <1>1, <1>2

\* A running row somebody works on fails with that work, or for its bounds.
LEMMA WorkedRunFails ==
  ASSUME Core, Bonds, Next, NEW r \in RunIds, status[r] = "running", status'[r] = "failed",
         Live(r), r \notin overdue
  PROVE  \/ control'[r] # control[r] \/ (link[r] # 0 /\ fg'[link[r]] # fg[link[r]])
         \/ FailedBefore(r)
<1> USE DEF rowVars
<1>0. TypeOK
  BY DEF Core
<1>1. ASSUME TickStep, ~FailedBefore(r)
      PROVE  FALSE
  <2>1. ~TickRepair
    <3> DEFINE t == [lapsed |-> lapsed \cap now.lapsed, overdue |-> overdue \cap now.overdue]
    <3>1. TickRepair => \E auto \in SUBSET AutoResolvable(RunIds) :
                          status' = RepairedStatus(RunIds, t, auto)
      BY DEF TickRepair, RepairRows
    <3>2. r \notin t.overdue
      OBVIOUS
    <3> HIDE DEF t
    <3> QED BY <1>1, <3>1, <3>2, RepairSparesWorked
  <2> QED BY <1>0, <1>1, <2>1 DEF TickStep, TickBegin, StartupTickPaused, TickEnd, TickPasses,
             TickFails, TickLeaves, TickResume, TickQueue, CreateRow, SetStatus, TypeOK
<1>2. ~LaunchCall /\ ~TimerStep
  BY <1>0 DEF LaunchCall, LaunchSkipped, LaunchRefused, LaunchBegins, SetStatus, TypeOK,
         TimerStep, RenewStops, LeaseLapses, RunBecomesOverdue, JobBecomesDue
<1>3. ASSUME NEW l \in Launches, ExecutorStep(l)
      PROVE  control'[r] # control[r]
  <2>1. CASE ShellExits(l) \/ LaunchThrows(l)
    <3>1. runOf[l] = r /\ Running(l) /\ EndLaunch(l)
      BY <1>0, <2>1 DEF ShellExits, LaunchThrows, SetStatus, Running, TypeOK
    <3>2. control[r] = l /\ l # 0
      BY <3>1, Zero DEF Core, Agreement, OwnerIsLive, Active
    <3> QED BY <1>0, <3>1, <3>2 DEF EndLaunch, TypeOK
  <2>2. ~PlannerAsks(l) /\ ~ExecutionEnds(l) /\ \A q \in RunIds : ~RecoveryQueued(l, q)
    BY <1>0 DEF PlannerAsks, ExecutionEnds, RecoveryQueued, CreateRow, SetStatus, TypeOK
  <2> QED BY <1>3, <2>1, <2>2 DEF ExecutorStep, ShellStarts, PlanResumed, PlanningBegins,
             LaunchDisowned, PlannerPlans, ExecutionBegins
<1>4. ASSUME CommandStep, ~FailedBefore(r)
      PROVE  FALSE
  <2>1. ASSUME NEW j \in Jobs, RunNow(j)
        PROVE  FALSE
    <3> DEFINE R == {q \in RunIds : jobOf[q] = j}
               t == [lapsed |-> lapsed, overdue |-> overdue]
    <3>1. PICK auto \in SUBSET AutoResolvable(R) :
            \/ status' = RepairedStatus(R, t, auto)
            \/ \E q \in RunIds : status' = [RepairedStatus(R, t, auto) EXCEPT ![q] = "queued"]
      BY <2>1 DEF RunNow, CreateRow
    <3>2. R \in SUBSET RunIds /\ r \notin t.overdue
      OBVIOUS
    <3>3. RepairedStatus(R, t, auto) = [q \in RunIds |-> RepairedStatus(R, t, auto)[q]]
      BY DEF RepairedStatus
    <3> HIDE DEF R, t
    <3>4. RepairedStatus(R, t, auto)[r] # "failed"
      BY <1>4, <3>2, RepairSparesWorked
    <3> QED BY <3>1, <3>3, <3>4
  <2>2. \A q \in RunIds : ~RetryRun(q)
    BY <1>0 DEF RetryRun, CreateRow, NextRun, TypeOK
  <2>3. \A q \in RunIds : ~ApproveRun(q) /\ ~RejectRun(q) /\ ~StopRun(q)
    BY <1>0 DEF ApproveRun, RejectRun, StopRun, SetStatus, TypeOK
  <2>4. (\A j \in Jobs : ~DeleteJob(j)) /\ ~DeleteAssistant
    BY DEF DeleteJob, DeleteAssistant, DeleteRows
  <2>5. \A a \in AgentIds : ~AnswerQuestion(a)
    BY DEF AnswerQuestion
  <2> QED BY <1>4, <2>1, <2>2, <2>3, <2>4, <2>5
          DEF CommandStep, SetJobStatus, PauseAll, ResumeAll, Release, AssistantChanges,
              ExecuteRequested
<1>5. ASSUME ProcessStep
      PROVE  control'[r] # control[r] \/ (link[r] # 0 /\ fg'[link[r]] # fg[link[r]])
  <2>1. MemoryLost
    BY <1>0, <1>5, CrashInHandlerType DEF ProcessStep, Crash, Shutdown, Restart
  <2>2. control'[r] = 0 /\ (link[r] # 0 => fg'[link[r]] = "off")
    BY <1>0, <2>1 DEF MemoryLost, TypeOK
  <2> QED BY <2>2 DEF Live, Registered
<1>6. ASSUME NEW a \in AgentIds, ForegroundStep(a)
      PROVE  link[r] # 0 /\ fg'[link[r]] # fg[link[r]]
  <2>1. ForegroundFails(a)
    BY <1>6 DEF ForegroundStep, PreflightPasses, PreflightFails, ForegroundAsks,
       ForegroundPlans, ForegroundCompletes
  <2> QED BY <1>0, <2>1, Zero DEF ForegroundFails, TypeOK
<1> QED BY <1>1, <1>2, <1>3, <1>4, <1>5, <1>6 DEF Next

-----------------------------------------------------------------------------
(* Theorems                                                                *)

\* The inductive invariant of the answer_execute run: beyond the agreement of
\* rows, leases and launches, each agent run has one row and one worker.
THEOREM InductiveInvariant == Spec => []IInv
<1>1. Init => Bonds
  BY DEF Init, Bonds, DownIsIdle, LinksApart, LaunchKeepsItsAgent, PlanningIsUndisturbed,
         FailedAgentEndsRow, AgentOf, ShellsAreUnlinked, Running
<1>2. Core /\ Core' /\ Bonds /\ [Next]_vars => Bonds'
  <2> SUFFICES ASSUME Core, Core', Bonds, [Next]_vars
               PROVE  Bonds'
    OBVIOUS
  <2>1. TypeOK' /\ ControlHoldsLease'
    BY DEF Core, Agreement
  <2>2. CASE UNCHANGED vars
    BY <2>1, <2>2, BondsRowsOnly
       DEF vars, rowVars, launchVars, agentVars, envVars, RowsGoOn, ControlsGoOn
  <2>3. CASE Next
    BY <2>1, <2>3, BondsTick, BondsLaunchCall, BondsExecutor, BondsTimer, BondsCommand,
       BondsForeground, BondsProcess DEF Next
  <2> QED BY <2>2, <2>3
<1> QED BY <1>1, <1>2, CoreInductive, PTL DEF Spec, IInv

\* The schedule and run-now never overlap two runs of a job, and the scheduler
\* keeps the exclusive lane to one scheduled run: both looks at the table hold
\* until the row is in it.
THEOREM RowsAreApart == Spec => [](NoOverlap /\ LaneIsExclusive)
<1>1. Init => NoOverlap /\ LaneIsExclusive
  BY DEF Init, NoOverlap, LaneIsExclusive, Active
<1>2. Core /\ NoOverlap /\ LaneIsExclusive /\ [Next]_vars => NoOverlap' /\ LaneIsExclusive'
  <2> SUFFICES ASSUME Core, NoOverlap, LaneIsExclusive, [Next]_vars
               PROVE  NoOverlap' /\ LaneIsExclusive'
    OBVIOUS
  <2>1. CASE UNCHANGED vars
    BY <2>1 DEF vars, rowVars, NoOverlap, LaneIsExclusive
  <2>2. CASE Next
    BY <2>2, StepKeepsOrAdds, RowsStayApart DEF Core
  <2> QED BY <2>1, <2>2
<1> QED BY <1>1, <1>2, CoreInductive, PTL DEF Spec

\* Schedule and run-now add no run to a job that still has an active one.
THEOREM NoOverlapAlways == Spec => []NoOverlap
  BY RowsAreApart, PTL

\* The exclusive lane holds one scheduled run, whatever happens to the jobs.
THEOREM LaneIsExclusiveAlways == Spec => []LaneIsExclusive
  BY RowsAreApart, PTL

\* No launch brings back an agent run that a stop, a failure or a restart has
\* ended, although setAgentRunReady looks at no status.
THEOREM NothingRevives == Spec => NoRevivalByLaunch
<1>1. IInv /\ [Next]_vars =>
        [\A a \in AgentIds :
           agent[a] \in AgentTerminal /\ agent'[a] # agent[a] =>
             fg[a] \in {"planning", "executing"}]_vars
  BY EndedAgentStays DEF IInv
<1> QED BY <1>1, InductiveInvariant, PTL DEF Spec, NoRevivalByLaunch

\* Repair, retries and other launches never fail a running row somebody works
\* on, unless it is overdue.
THEOREM WorkedRunSpared == Spec => WorkedRunNotFailed
<1>1. IInv /\ [Next]_vars =>
        [\A r \in RunIds :
           /\ status[r] = "running" /\ status'[r] = "failed" /\ Live(r) /\ r \notin overdue
           => \/ control'[r] # control[r] \/ (link[r] # 0 /\ fg'[link[r]] # fg[link[r]])
              \/ crashes > 0 /\ AgentOf(r) = "failed" /\ pc[control[r]] = "starting"]_vars
  BY WorkedRunFails DEF IInv, FailedBefore
<1> QED BY <1>1, InductiveInvariant, PTL DEF Spec, WorkedRunNotFailed
=============================================================================
