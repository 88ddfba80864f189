CONSTANTS
  j1 = j1
  NoJob = NoJob
  Jobs = {j1}
  ShellJobs = {}
  AssistantJobs = {j1}
  ExclusiveJobs = {}
  RiskyJobs = {j1}
  Capacity = 1
  MaxRuns = 2
  MaxLaunches = 2
  MaxCrashes = 1
  Commands = {"retry", "approval", "pause-all", "assistant"}
SPECIFICATION Spec
INVARIANTS
  OneLaunchPerRun
PROPERTIES
  NoStartWhilePaused
  ImplementsLifecycle
