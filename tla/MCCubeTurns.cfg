CONSTANTS
  t1 = t1
  t2 = t2
  t3 = t3
  Thread = {t1}
  size = 3
  Calls <- AllRotations
  MaxCalls = 2
  Interruptible = {"mutex", "guardian", "layer"}
SPECIFICATION SolidSpec
CHECK_DEADLOCK FALSE
INVARIANTS CubeIsSolid
