CONSTANTS
  j1 = j1
  NoJob = NoJob
  Jobs = {j1}
  ShellJobs = {}
  AssistantJobs = {}
  ExclusiveJobs = {}
  RiskyJobs = {}
  Capacity = 1
  MaxRuns = 1
  MaxLaunches = 1
  MaxCrashes = 0
  Commands = {"answer"}
SPECIFICATION Spec
PROPERTIES
  AwaitingNotFailed
