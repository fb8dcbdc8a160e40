SPECIFICATION Spec
CONSTANTS
    Reader = {r1, r2}
    Writer = {w1, w2}
    Number = {1, 2}
INVARIANTS BookWhole
CHECK_DEADLOCK FALSE
