SPECIFICATION Spec
CONSTANTS
  Unset = Unset
  EmptyMap = EmptyMap
  NoRef = NoRef
  a = a
  b = b
  r1 = r1
  r2 = r2
  r3 = r3
  Argvs <- AllArgvs
  NumberOf <- Numbers
  ValidIds = {"A", "B"}
  Ids = {1, 2, 3, 4}
  MAX_COUNT = 3
  MAX_JSON = 2
  Options = {"--json", "--strict", "--monotonic", "--count", "--quick", "--help"}
  Missing = {"nowhere"}
  Trees <- SmallTrees
  Stores <- AllStores
  Public = {"public_id"}
  Idempotency = {"idempotency_key"}
  Events = {"events"}
  Callers = {a, b}
  Rows = {r1, r2, r3}
  Supplied = {r3}
  Requests <- AllRequests
  models = {"User"}
  MaxSends = 3
  KEPT = 2
  MaxClicks = 4
  Files = {"ulid", "errors"}
  UsesBinding = {"ulid"}
  MaxEdits = 2
  MaxBuilds = 3
  Versions = {1, 2}
  Contents <- TwoContents
  MaxRuns = 2
CHECK_DEADLOCK FALSE
INVARIANTS JsonWhenAsked
