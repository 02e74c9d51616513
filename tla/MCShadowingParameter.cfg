CONSTANTS
  none = none
  None = none
  Programs <- ShadowingParameter

SPECIFICATION Spec

INVARIANT ResolvedAsRun

CHECK_DEADLOCK FALSE
