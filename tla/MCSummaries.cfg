CONSTANTS
  CallGraphs <- ModuleGraphs
  Modules <- MCModules
  SUMMARY_FIXPOINT_CAP = 8

SPECIFICATION Spec

INVARIANT TypeOK
INVARIANT CalleesFirst
INVARIANT ComponentsExact
INVARIANT LowlinkSound
INVARIANT ResolutionAgrees
INVARIANT Stable
INVARIANT SummariesExact
PROPERTY AllOrdered
PROPERTY FlowsOnlyImprove
PROPERTY AllSummarized

CHECK_DEADLOCK FALSE
