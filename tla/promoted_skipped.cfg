SPECIFICATION Spec
CONSTANTS
  Checks <- GateChecks
  AdoptionCheck = "AdoptionMode"
  SocketCheck = "SecuritySocket"
  Days = 0
  MaxDay = 0
  HandWritten <- NoFile
  Always <- MCAlways
  Documentation <- MCDocumentation
  Workflows <- MCWorkflows
  DependsOn <- NoDependency
  Outcomes <- EveryOutcome
  Writes <- NoWrites
  Workspaces <- BareWorkspace
INVARIANTS
  PromotedDecides
