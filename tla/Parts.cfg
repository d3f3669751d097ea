CONSTANTS
  Nil = Nil
  OwnHooks = {h1}
  Runners = {r1}
  Tools = {t1, t2}
  MaxRuns = 2
  MaxEdits = 1
  Units = {"system", "user"}
  Versions = {"v1", "v2"}
  MaxCommands = 3
  Owners = {"acme", "beta", "gone"}
  Discovered = {"acme", "beta"}
  Count = 2
  Keys = {"org", "other"}
  Owner <- MCOwner
  TokenKinds <- MCTokenKinds
  MaxMoves = 1
  Most = 2
  MaxInbox = 2
  MaxChanges = 1
  Watched = {"r1", "r2", "r3"}
  Org <- MCOrg
  MaxAge = 0
  Faults = {"NoCollector", "QueryFailed"}
  Deadline = 1
  Openers = {"a", "b"}
  Latest = 4
  Repeatable = {4}
  Probed = {"r1", "r2"}
  Pids = {1, 2}
  MaxBefore = 2
  AgentIds = {1, 2, 3}
  NextId = 3
  PerPage = 1
  MaxPages = 2
  Intervals = {0, 2}
  MaxTime = 6
SYMMETRY ToolSymmetry
SPECIFICATION Spec
INVARIANTS TypeOK  UnitRunnable OnlyValidatedTokens  LinkHonest   SchemaWhole  ListingHonest
PROPERTIES EditsKept InstallTakes OnlyAnnounced PushPaced
CHECK_DEADLOCK FALSE
