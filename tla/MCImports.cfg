CONSTANTS
  none = none
  None = none
  Programs <- Ordinary

SPECIFICATION Spec

INVARIANT NoCallLost
INVARIANT ResolvedAsRun
INVARIANT ScopesNested
INVARIANT QualnameDenotes

CHECK_DEADLOCK FALSE
