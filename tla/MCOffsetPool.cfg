CONSTANTS
  t1 = t1
  t2 = t2
  o1 = o1
  o2 = o2
  v1 = v1
  v2 = v2
  Threads <- MCThreads
  Offsets <- MCOffsets
  Values <- MCValues
  InitialCapacity = 1
  MaxNest = 1
SPECIFICATION FairSpec
INVARIANTS TypeOK MutualExclusion TableSound EntriesKept
PROPERTIES LockProgress ImplementsOffsetMap
