SPECIFICATION CallSpec
CONSTANTS
  MaxCount <- TwoOfEach
  Installations <- SmallAndLarge
  MaxOdd = 0
CHECK_DEADLOCK FALSE
INVARIANT RefusalMeansEcotop
