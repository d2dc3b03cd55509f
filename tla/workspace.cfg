SPECIFICATION Spec
CONSTANTS
  Checks <- WorkspaceChecks
  AdoptionCheck = "AdoptionMode"
  SocketCheck = "SecuritySocket"
  Days = 0
  MaxDay = 0
  HandWritten <- NoFile
  Always <- MCAlways
  Documentation <- MCDocumentation
  Workflows <- MCWorkflows
  DependsOn <- NoDependency
  Outcomes <- PassOrFail
  Writes <- MCWrites
  Workspaces <- AnyWorkspace
INVARIANTS
  CleanedUp
PROPERTIES
  PersonsFilesSurvive
