CONSTANTS
  Grants = {g}
  Tasks = {t}
  None = None
  Keys = {k1, k2}
  Kinds = {"agent"}
  Natives = {FALSE}
  External = {}
  Local = {"update"}
  FinishTool = "none"
  MaxIntents = 2
  MaxCrashes = 0
  MaxAttempts = 2
  MaxModelCalls = 2
  MaxToolCalls = 1
  MaxPending = 2
  MaxRunsPerHour = 2
  MaxRunsPerGrant = 2
  MaxConcurrent = 2
  GrantLife = 2
  Hour = 0
  Retention = 0
  BaseDelay = 1
  MaxDelay = 1
SPECIFICATION RivalSpec
INVARIANTS SingleAdvancer
PROPERTIES EverySettles
