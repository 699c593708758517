SPECIFICATION PathSpec
CONSTANTS
  MaxHandles = 2
  Path <- MCPath
  Root <- MCRoot
  ParentOf <- MCParentOf
  Lineage <- MCLineage
  Raw <- MCRaw
  Canon <- MCCanon
  RootRaw <- MCRootRaw
  Sparse = {}
  NULL = NULL
  Archives <- MCArchives
  Enum = {e1}
  Name <- MCName
  LeafOf <- MCLeafOf
  BaseOf <- MCBaseOf
  Under <- MCUnder
INVARIANTS
  PathTypeOK
  PeekTells
  ListedChildFound
CHECK_DEADLOCK FALSE
