SPECIFICATION FairTurnsSpec
CONSTANTS
  MCMaxLen = 2
  Path <- MCPath
  Root <- MCRoot
  ParentOf <- MCParentOf
  Lineage <- MCLineage
  Raw <- MCRaw
  Canon <- MCCanon
  RootRaw <- MCRootRaw
  Sparse <- MCSparse
  NULL = NULL
  INVAL = INVAL
  NOT_FOUND = NOT_FOUND
  IO = IO
  Garbage = Garbage
  Archives <- MCArchives
  Client = {c1, c2}
  File = {f1}
  OpenReturns <- MCAnyReturn
INVARIANTS
  TypeOK
  TagExact
  OwnerExact
  NeverDisturbed
  NoMisuse
PROPERTIES
  CacheStable
  AnswersQuestions
  ReadEnds
CHECK_DEADLOCK FALSE
