CONSTANTS
  Rank <- MCRank
  Fingerprint <- MCFingerprint
  DefaultExcludeDirs <- MCDefaultExcludeDirs
  MaxLinks = 1
  Identifiers <- MCIdentifiers
  CWEs <- MCCWEs
  FlowTokens <- MCFlowTokens
  Sites <- MCSites
  Commands <- OneGlobstar
  Documents <- MCDocuments
SPECIFICATION Spec
CHECK_DEADLOCK FALSE
INVARIANT NoFalseExclusion
