CONSTANTS
  t1 = t1
  t2 = t2
  t3 = t3
  Thread = {t1, t2, t3}
  size = 1
  Calls <- OneLayer
  MaxCalls = 3
  Interruptible = {"guardian", "layer"}
SPECIFICATION FairSolidSpec
CHECK_DEADLOCK FALSE
PROPERTIES CallsEnd
