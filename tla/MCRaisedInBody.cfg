CONSTANTS
  Scopes <- RaisedInBody
  MayRaise = TRUE
  Quiet = {}

SPECIFICATION Spec

INVARIANT NoLostPath

CHECK_DEADLOCK FALSE
