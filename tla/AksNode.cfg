SPECIFICATION Spec
CONSTANTS
  Node = {n1, n2}
  Thread = {t1, t2}
  Handle = {h1, h2, h3, h4}
  NULL = NULL
INVARIANTS
  TypeOK
  RefsExact
  FreedOnlyByRace
CHECK_DEADLOCK FALSE
