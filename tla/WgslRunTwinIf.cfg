CONSTANTS
  MaxBlocks = 4
  MaxCases <- TwoCases
  Headers <- OnlyIfs
SPECIFICATION SpecRun
INVARIANTS TwinIfFollowsCfg
CHECK_DEADLOCK FALSE
