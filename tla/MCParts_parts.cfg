SPECIFICATION PartsSpec
CONSTANTS
  Ops = {"o1", "o2", "o3", "o4"}
  Runs = {"r1", "r2"}
  RunOf <- GateRunOf
  Concurrency = 1
  MaxQueued = 2
  Quota = 3
  Page = 3
  MaxCalls = 2
  MaxSteps = 4
  TaskRuns = {"t1", "t2"}
  MaxRevision = 3
  Sockets = {1, 2}
  Calls = {"c1", "c2"}
  MaxAssemblies = 3
  MaxRequests = 2
  Files = {"blob", "skill"}
  Referred = {"blob", "skill"}
  Skills = {"skill"}
  Installs = {"p1", "p2"}
  PackageOf <- SkillPackageOf
  Installers = {"u1", "u2"}
  SkillRuns = {"s1"}
  People = {"p", "q"}
  Messages = {"m1", "m2"}
  Projects = {"x", "y"}
  MessageId <- PlatformIds
  Asked <- AskedCommands
  Arrivals = {"said", "reply", "aimed"}
  EventOf <- MessageOf
  Policies <- TriggerPolicies
  Deliveries = {1, 2, 3}
  Saves = {"s1", "s2", "s3", "s4"}
  SaveOf <- SaveRequests
  InitialDocument <- FirstDocument
  HoldsMask <- MaskShown
  MaxOutside = 1
INVARIANTS DisposedIdle InputsHeard CompletedOnGoal
INVARIANTS StatusOfCurrent ClosedUnused RestoredWhole OneVersionPerRun StoresAgree EachHeardOnce EditsKept
PROPERTIES WaitersServed WaitsEnd CommandsRepeatable
CHECK_DEADLOCK FALSE
