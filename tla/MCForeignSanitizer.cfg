CONSTANTS
  x = x
  y = y
  a = a
  b = b
  d1 = d1
  d2 = d2
  m1 = m1
  nospec = nospec
  f = f
  g = g
  h = h
  external = external
  Base <- MCBase
  Step <- MCStep
  STEPS_CAP = 2
  SpecId <- MCSpecId
  Callee <- MCCallee
  Marker <- MCMarker
  ParamOf <- MCParamOf
  NoSpec = nospec
  Programs <- ForeignSanitizer
  FIXPOINT_CAP = 8
  SUMMARY_FIXPOINT_CAP = 8
  WalkBound = 4
  WalkRounds = 30
  N = 1

SPECIFICATION WalkSpec

INVARIANT NoMissedFlow

CHECK_DEADLOCK FALSE
