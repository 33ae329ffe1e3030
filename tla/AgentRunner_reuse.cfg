SPECIFICATION Spec
CONSTANTS
  t1 = t1
  t2 = t2
  t3 = t3
  b1 = b1
  b2 = b2
  b3 = b3
  None = None
  RunIds = {r1, r2}
  FreshRunIds = TRUE
  Tools <- MCTools
  Bots <- MCBots
  Registered <- MCRegistered
  Scope <- MCScope
  Configs <- ReuseConfigs
  Outputs <- ReuseOutputs
  MaxFailures = 1
PROPERTIES
  ToolsRunUnderCheckpointedBot
