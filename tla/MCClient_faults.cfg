SPECIFICATION ClientSpec
CONSTANTS
  Tasks = {t1, t2}
  Sockets = {s1}
  NoSocket = NoSocket
  MaxGroup = 2
  Components <- SharedComponents
  Regs <- SharedRegs
  ReadPlan <- SharedPlan
  Selections <- SharedSelections
  Groups <- AcrossGroups
  Faults = {"refused", "dropped"}
  OwnChanges = TRUE
  MaxChanges = 2
SYMMETRY Symmetry
INVARIANT ClientInv
INVARIANT FailedExactly
INVARIANT NoPollInsideGroup
PROPERTY RefreshIsFresh
PROPERTY OnlyTheAskedChange
PROPERTY OnlyOverlapGoesBack
