SPECIFICATION Spec
CONSTANTS
  Providers = {"ssm", "secrets", "appconfig", "flags"}
  Names = {"a", "b"}
  Secure = {"b"}
  Contents <- MCContents
  NamesOf <- MCNamesOf
  ContentsOf <- MCContentsOf
  ParsableOf <- MCParsable
  Batches <- MCBatches
  PathCalls <- MCPathCalls
  NameLists <- MCNameLists
  MaxAges = {0, 1}
  Outcomes = {"ok", "unavailable", "throttled"}
  MaxItems = 2
  MaxWrites = 2
  MaxEntries = 2
  Profile = "a"
  FlagsAge = 1
  Schemas <- MCSchemas
  Features <- MCFeatures
  Contexts <- MCContexts
  MinutesPerHour = 2
  HoursPerDay = 3
  HandlerSays = FALSE
INVARIANTS
  TypeOK
  FreshWithinMaxAge
  TokenMatchesLast
  ByNameAnswersAll
  EnabledAgreesWithEvaluate
  WindowIsCyclic
PROPERTIES
  FollowsDeployment
