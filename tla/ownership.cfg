CONSTANTS
  j1 = j1
  NoJob = NoJob
  Jobs = {j1}
  ShellJobs = {}
  AssistantJobs = {}
  ExclusiveJobs = {}
  RiskyJobs = {}
  Capacity = 1
  MaxRuns = 2
  MaxLaunches = 3
  MaxCrashes = 0
  Commands = {"run-now", "stop"}
SPECIFICATION HangSpec
INVARIANTS
  ControlHoldsLease
  OwnerIsLive
  NoOverlap
PROPERTIES
  TerminalIsFinal
  RunsSettle
