SPECIFICATION Spec
CONSTANTS
  Ids = {"a", "b", "c"}
  LastDay = 2
  PersonsRecords <- MCPersonsRecords
  Acceptances <- MCAcceptances
  ThisReason = "a"
  ThatReason = "b"
  PAGE_SIZE = 1
  MAX_PAGES = 3
  PRE_ADOPTION_THRESHOLD = 2
  Own = 2
  Timelines <- MCTimelines
  LastHour = 3
  CACHE_TTL = 1
  RATE_LIMIT_RETRIES = 1
  SuppressionIds = {"a", "b", "c"}
  AnchorOf <- MCAnchorOf
  Files <- MCFiles
  KindOf <- MCKindOf
  Calls = {"a"}
  Copies = {"b", "c"}
  Requires <- MCRequires
  Releases = 2
  Findable <- MCFindable
  Newest <- MCNewest
  SourceFiles <- MCSourceFiles
  Repositories <- MCRepositories
  ReviewLength = 2
  Checks = {"SecurityDeps"}
  MaxEdits <- MCMaxEdits
INVARIANTS
  ExpiredNeverCounts
