CONSTANTS
  Grants = {g}
  Tasks = {}
  None = None
  Keys = {k}
  Kinds = {"agent"}
  Natives = {FALSE}
  External = {}
  Local = {"finish"}
  FinishTool = "finish"
  MaxIntents = 1
  MaxCrashes = 2
  MaxAttempts = 2
  MaxModelCalls = 2
  MaxToolCalls = 2
  MaxPending = 1
  MaxRunsPerHour = 1
  MaxRunsPerGrant = 1
  MaxConcurrent = 1
  GrantLife = 2
  Hour = 0
  Retention = 0
  BaseDelay = 1
  MaxDelay = 1
SPECIFICATION Spec
INVARIANT UncertainHasCause
