SPECIFICATION RefreshFairSpec
CONSTANTS
  LastAddress = 5
  Inputs <- AllLayouts
  MaxCounts = {2, 3, 4}
  Maps <- AllMaps
CHECK_DEADLOCK FALSE
INVARIANT RefreshInv
INVARIANT ReadsCover
INVARIANT RegistersWhole
INVARIANT BlameExact
INVARIANT ReadsAcceptable
INVARIANT ReadsAreLong
INVARIANT ShiftsOnlyBehindGap
INVARIANT WholeOrMissing
PROPERTY RefreshEnds
