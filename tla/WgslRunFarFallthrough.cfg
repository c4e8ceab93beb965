CONSTANTS
  MaxBlocks = 5
  MaxCases <- TwoCases
  Headers <- OnlySwitches
SPECIFICATION SpecRun
INVARIANTS FallthroughFollowsCfg
CHECK_DEADLOCK FALSE
