SPECIFICATION Spec
CONSTANTS
  Files <- TwoFiles
  Texts <- TwoTexts
  Shards = 2
  MAXIMUM_CONFIRMED = 1
  Registries <- SomeRegistries
  Envs <- SomeEnvs
  Failures <- EveryFailure
  EditsWhileRunning = FALSE
INVARIANTS
  TypeOK
  
  FullRunDecides
  MemoIsFaithful
