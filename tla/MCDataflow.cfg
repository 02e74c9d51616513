CONSTANTS
  x = x
  y = y
  a = a
  b = b
  d1 = d1
  d2 = d2
  m1 = m1
  nospec = nospec
  f = f
  g = g
  h = h
  external = external
  Base <- MCBase
  Step <- MCStep
  STEPS_CAP = 2
  SpecId <- MCSpecId
  Callee <- MCCallee
  Marker <- MCMarker
  ParamOf <- MCParamOf
  NoSpec = nospec
  Programs <- MCPrograms
  FIXPOINT_CAP = 8
  SUMMARY_FIXPOINT_CAP = 8
  WalkBound = 4
  WalkRounds = 30

SPECIFICATION FairWalkSpec

INVARIANT TypeOK
INVARIANT EmptyWorklistIsFixpoint
INVARIANT CapIsSafetyNet
INVARIANT NoMissedFlow
INVARIANT SummaryComplete
INVARIANT NoSpuriousFinding
INVARIANT NoInventedFlow
PROPERTY OutEnvsOnlyGrow
PROPERTY Terminates
PROPERTY ImplementsChaotic

CHECK_DEADLOCK FALSE
