SPECIFICATION Spec
CONSTANTS
  Checks <- SomeChecks
  SocketCheck = "SecuritySocket"
  Always <- SomeAlways
  Documentation <- SomeDocumentation
  Workflows <- SomeWorkflows
  Files <- SomeFiles
  KindsOf <- SomeKindsOf
  Texts <- ApartTexts
  GitAnswers <- EveryListing
  Requests <- SomeRequests
INVARIANTS
  TypeOK
  ChangedCoversTree
