CONSTANTS
  MaxBlocks = 6
  MaxCases <- FewCases
  Headers <- AllSorts
SPECIFICATION SpecRun
INVARIANTS TypeOK NestingIsExact ContinueLeftAtItsEnd NormalEdgesEnterAtHead GuardsAreOfIfs FollowsCfg EmissionSucceeds GuardsAreDeclared
CHECK_DEADLOCK FALSE
