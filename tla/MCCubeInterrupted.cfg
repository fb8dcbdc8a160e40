CONSTANTS
  t1 = t1
  t2 = t2
  t3 = t3
  Thread = {t1, t2, t3}
  size = 2
  Calls <- TwoAxes
  MaxCalls = 4
  Interruptible = {"mutex"}
SPECIFICATION SolidSpec
CHECK_DEADLOCK FALSE
INVARIANTS ExclusiveAxis
