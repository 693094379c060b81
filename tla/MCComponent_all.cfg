SPECIFICATION Spec
CONSTANTS
  Requests <- AllRequests
  Instances <- FirstInstances
  Readings <- SomeReadings
  Amounts <- SomeAmounts
  FewAmounts <- TwoAmounts
  MaxChanges = 1
CHECK_DEADLOCK FALSE
INVARIANT TypeOK
INVARIANT OneAddressOneRegister
INVARIANT NothingNewer
INVARIANT DerivedInOneRead
PROPERTY CacheIsNextRead
PROPERTY WrittenValueReads
PROPERTY NothingHalfDone
