SPECIFICATION Spec
CONSTANTS
  Threads = {main, second}
  Closers = {main}
  Interruptible = {}
PROPERTY ClosedSaysSo
