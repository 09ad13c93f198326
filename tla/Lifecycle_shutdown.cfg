SPECIFICATION Spec
CONSTANTS Requests = {r1, r2}
INVARIANTS NeverCutShort
CHECK_DEADLOCK FALSE
