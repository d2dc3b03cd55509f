SPECIFICATION Spec
CONSTANTS
  Files <- TwoFiles
  Texts <- TwoTexts
  Shards = 2
  MAXIMUM_CONFIRMED = 1
  Registries <- NoRegistry
  Envs <- AdoptingEnvs
  Failures <- OnlyConfig
  EditsWhileRunning = FALSE
INVARIANTS
  FailedToolFails
