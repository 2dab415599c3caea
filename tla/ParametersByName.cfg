SPECIFICATION Spec
CONSTANTS
  Providers = {"ssm"}
  Names = {"a", "b", "c"}
  Secure = {"b"}
  Contents <- MCContents
  NamesOf <- MCNamesOf
  ContentsOf <- MCContentsOf
  ParsableOf <- MCParsable
  Batches <- LongBatch
  PathCalls = {}
  NameLists <- MCNameLists
  MaxAges = {0, 1}
  Outcomes = {"ok"}
  MaxItems = 2
  MaxWrites = 3
  MaxEntries = 3
  Profile = "a"
  FlagsAge = 1
  Schemas <- MCSchemas
  Features <- MCFeatures
  Contexts <- MCContexts
  MinutesPerHour = 2
  HoursPerDay = 3
  HandlerSays = FALSE
INVARIANTS
  ByNameAnswersAll
