SPECIFICATION FairSpec
CONSTANTS
  MCMaxLen = 3
  Path <- MCPath
  Root <- MCRoot
  ParentOf <- MCParentOf
  Lineage <- MCLineage
  Raw <- MCRaw
  Canon <- MCCanon
  RootRaw <- MCRootRaw
  Sparse <- MCSparse
  NULL = NULL
  Refused = Refused
  Archives <- MCArchives
  OpenReturns <- MCAnyReturn
INVARIANTS
  TypeOK
  TreeExact
  SiblingsInOrder
  CacheMatchesEntry
  LazyMatchesEager
  StreamReleased
  HandleExact
PROPERTIES
  ShowsCatalogue
  InitEnds
CHECK_DEADLOCK FALSE
