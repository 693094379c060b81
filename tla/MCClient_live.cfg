SPECIFICATION ClientFairSpec
CONSTANTS
  Tasks = {t1, t2}
  Sockets = {s1}
  NoSocket = NoSocket
  MaxGroup = 2
  Components <- SharedComponents
  Regs <- SharedRegs
  ReadPlan <- SharedPlan
  Selections <- SharedSelections
  Groups <- AcrossGroups
  Faults = {"refused", "malformed", "timeout", "dropped"}
  OwnChanges = FALSE
  MaxChanges = 1
PROPERTY EveryCallEnds
