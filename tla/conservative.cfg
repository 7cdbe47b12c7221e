SPECIFICATION Spec
CONSTANTS
  Fields <- MCFields
  Owner <- MCOwner
  Local <- MCLocal
  Public <- MCPublic
  Role <- MCRole
  Methods <- MCMethods
  Aloof = {"W"}
  NoType = "body"
  Capability <- MCCapability
  ExecutionMethods = {}
  Registries = {}
  Own <- MCOwn
  Embeds <- MCEmbeds
  MinMethods = 3
  UsagePercent = 50
  MaxMethods = 3
  Variables = {"p", "q", "a", "b"}
  Parameters = {"p", "q"}
  Broad <- MCBroad
  None = "None"
  Limits <- MCLimits
  AllowedSources = {"Node"}
  MaxCases = 2
  MinSites = 2
  MinShared = 2
  OverlapPercent = 50
  MinCalls = 2
  MinImports = 2
  MinParallel = 3
  MinNodes = 10
  SimilarityPercent = 33
  Programs <- MCPrograms
INVARIANTS ConservativeChecksReport
CHECK_DEADLOCK FALSE
