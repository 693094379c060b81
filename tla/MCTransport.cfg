SPECIFICATION FairSpec
CONSTANTS
  Tasks = {t1, t2, t3}
  Sockets = {s1, s2}
  NoSocket = NoSocket
  Nobody = Nobody
  MaxGroup = 3
INVARIANT NoOrphanSocket
INVARIANT OneOutstanding
INVARIANT IInv
PROPERTY OneLine
PROPERTY NobodyStarves
