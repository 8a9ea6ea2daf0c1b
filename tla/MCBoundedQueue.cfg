CONSTANTS
  t1 = t1
  t2 = t2
  t3 = t3
  a = a
  b = b
  Threads = {t1, t2, t3}
  Values = {a, b}
  Capacity = 2
SPECIFICATION FairQueueSpec
INVARIANTS
  NoLostItem
  NoLostRoom
  NobodySleepsOnceClosed
PROPERTIES
  CloseReleases
  ImplementsClosableQueue
