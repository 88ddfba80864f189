CONSTANTS
  j1 = j1
  j2 = j2
  NoJob = NoJob
  Jobs = {j1,j2}
  ShellJobs = {j1}
  AssistantJobs = {j1, j2}
  ExclusiveJobs = {j1, j2}
  RiskyJobs = {}
  Capacity = 2
  MaxRuns = 2
  MaxLaunches = 2
  MaxCrashes = 1
  Commands = {"job-control", "delete-job", "delete-assistant"}
SPECIFICATION Spec
INVARIANTS
  LaneIsExclusive
