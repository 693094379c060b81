SPECIFICATION Spec
CONSTANTS
  Threads = {main, second, third}
  Closers = {main, second}
  Interruptible = {main}
INVARIANT SyncInv
PROPERTY LateCallsRefused
PROPERTY AnsweredWhileOpen
PROPERTY LoopThreadEnds
