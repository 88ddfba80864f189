CONSTANTS
  j1 = j1
  NoJob = NoJob
  Jobs = {j1}
  ShellJobs = {}
  AssistantJobs = {}
  ExclusiveJobs = {}
  RiskyJobs = {}
  Capacity = 1
  MaxRuns = 1
  MaxLaunches = 2
  MaxCrashes = 1
  Commands = {"answer", "execute", "run-now", "stop"}
SPECIFICATION LiveSpec
INVARIANTS
  TypeOK
  IInv
PROPERTIES
  WorkedRunNotFailed
  NoRevivalByLaunch
  RunsSettle
