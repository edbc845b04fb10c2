SPECIFICATION Spec
CONSTANTS
  Accessors <- MCAccessors
  Calls <- MCCalls
  MaxCalls = 2
  Threads = {1, 2}
  Foreign <- MCForeign
  CanFail = FALSE
CHECK_DEADLOCK FALSE
INVARIANT PrivateFlagIsSet
