SPECIFICATION Spec
CONSTANTS
  MaxHandles = 3
  Path <- MCPath
  Root <- MCRoot
  ParentOf <- MCParentOf
  Lineage <- MCLineage
  Raw <- MCRaw
  Canon <- MCCanon
  RootRaw <- MCRootRaw
  Sparse = {}
  NULL = NULL
  Archives <- MCArchives
  Enum = {e1}
INVARIANT StandsOnLiveNode
CHECK_DEADLOCK FALSE
