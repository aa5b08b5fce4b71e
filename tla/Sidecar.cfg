SPECIFICATION Spec
CONSTANTS
  Callers = {c1, c2}
  Starter = c1
  MaxCalls = 3
  MaxPipe = 2
  None = None
INVARIANTS ReplyMatchesCall IdleSlotUsable
PROPERTY CallsReturn
CHECK_DEADLOCK FALSE
