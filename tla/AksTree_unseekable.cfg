SPECIFICATION Spec
CONSTANTS
  MCMaxLen = 1
  Path <- MCPath
  Root <- MCRoot
  ParentOf <- MCParentOf
  Lineage <- MCLineage
  Raw <- MCRaw
  Canon <- MCCanon
  RootRaw <- MCRootRaw
  Sparse <- MCSparse
  NULL = NULL
  Refused = Refused
  Archives <- MCArchives
  OpenReturns <- MCZeroReturn
INVARIANT UnseekableAnswered
CHECK_DEADLOCK FALSE
