CONSTANTS
  Rank <- MCRank
  Fingerprint <- MCFingerprint
  DefaultExcludeDirs <- MCDefaultExcludeDirs
  MaxLinks = 1
  Identifiers <- MCIdentifiers
  CWEs <- MCCWEs
  FlowTokens <- MCFlowTokens
  Sites <- MCSites
  Commands <- SmallCommands
  Documents <- MCDocuments
SPECIFICATION Spec
CHECK_DEADLOCK FALSE
INVARIANT TypeOK
INVARIANT FilesIsolated
INVARIANT EachVulnerabilityOnce
INVARIANT ExitCodeHonest
INVARIANT FoundExactly
INVARIANT VerdictHonest
INVARIANT AcceptsExactly
INVARIANT BlameIsReal
INVARIANT NothingLost
INVARIANT SelectsAsDocumented
INVARIANT NoDeadPattern
PROPERTY CommandEnds
