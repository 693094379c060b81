SPECIFICATION CallFairSpec
CONSTANTS
  MaxCount <- TwoOfEach
  Installations <- SmallAndLarge
  MaxOdd = 2
CHECK_DEADLOCK FALSE
INVARIANT CallInv
INVARIANT ConfigValidates
INVARIANT VersionDated
INVARIANT SystemFound
INVARIANT NothingVanishes
INVARIANT StatesWhereProbed
INVARIANT LinkAsPromised
PROPERTY CallEnds
