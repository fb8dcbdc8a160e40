CONSTANTS
  root = root
  n1 = n1
  n2 = n2
  n3 = n3
  n4 = n4
  n5 = n5
  n6 = n6
  n7 = n7
  t1 = t1
  t2 = t2
  t3 = t3
  Thread = {t1, t2, t3}
  NodeId = {root, n1, n2, n3, n4, n5, n6, n7}
  Root = root
  NULL = NULL
  Name = {1, 2}
  MaxDepth = 4
  InitialTree <- SmallTree
  Workloads <- SmallWorkloads
SPECIFICATION FairHSpec
CHECK_DEADLOCK FALSE
INVARIANTS TypeOK NoUseAfterFree TreeShape SubtreePrivate QuiescentClean
PROPERTIES ImplementsFileTree CallsReturn
