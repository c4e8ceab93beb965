SPECIFICATION Spec
INVARIANTS
  TypeOK
  AcceptedGoesRight
  AcceptedIsWritten
  SpirvIsWellFormed
  SpirvRunsAlike
  HlslRunsAlike
  MslRunsAlike
  WgslReadsBack
  EntryPointRunsAlike
  TransformedIsValid
  BoundsAreKept
  PointSizeIsWritten
  OffsetsAreAdded
  PulledAttributesMatch
  LayoutIsKept
CONSTANTS
  Width = 6
  Iterations = 2
  Jobs <- AllJobs
  Bits <- MCBits
CHECK_DEADLOCK FALSE
