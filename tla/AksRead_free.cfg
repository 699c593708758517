SPECIFICATION Spec
CONSTANTS
  MCMaxLen = 2
  Path <- MCPath
  Root <- MCRoot
  ParentOf <- MCParentOf
  Lineage <- MCLineage
  Raw <- MCRaw
  Canon <- MCCanon
  RootRaw <- MCRootRaw
  Sparse <- MCSparse
  NULL = NULL
  INVAL = INVAL
  NOT_FOUND = NOT_FOUND
  IO = IO
  Garbage = Garbage
  Archives <- MCOneArchive
  Client = {c1, c2}
  File = {f1, f2}
  OpenReturns <- MCAnyReturn
INVARIANTS
  FreedOnce
  FullIsSafe
PROPERTY CacheSettles
CHECK_DEADLOCK FALSE
