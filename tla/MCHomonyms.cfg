CONSTANTS
  CallGraphs <- ModuleGraphs
  Modules <- Homonyms
  SUMMARY_FIXPOINT_CAP = 8

SPECIFICATION Spec

INVARIANT ResolutionAgrees

CHECK_DEADLOCK FALSE
