SPECIFICATION ClientSpec
CONSTANTS
  Tasks = {t1, t2}
  Sockets = {s1}
  NoSocket = NoSocket
  MaxGroup = 2
  Components <- SharedComponents
  Regs <- SharedRegs
  ReadPlan <- SharedPlan
  Selections <- SharedSelections
  Groups <- SingleGroups
  Faults <- NoFaults
  OwnChanges = FALSE
  MaxChanges = 2
INVARIANT WrittenIsReadable
