SPECIFICATION Spec
CONSTANTS
  MCMaxLen = 1
  Path <- MCPath
  Root <- MCRoot
  ParentOf <- MCParentOf
  Lineage <- MCLineage
  Raw <- MCRaw
  Canon <- MCCanon
  RootRaw <- MCRootRaw
  Sparse <- MCSparse
  NULL = NULL
  Refused = Refused
  Archives <- MCArchives
  OpenReturns <- MCAnyReturn
INVARIANT ArchiveMade
CHECK_DEADLOCK FALSE
