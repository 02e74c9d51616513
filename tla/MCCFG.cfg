CONSTANTS
  Scopes <- Faithful
  MayRaise = FALSE
  Quiet = {99}

SPECIFICATION Spec

INVARIANT TypeOK
INVARIANT NoLostPath
INVARIANT NoInventedPath
INVARIANT OnlyLoopsLeadBack

CHECK_DEADLOCK FALSE
