SPECIFICATION FairSpec
CONSTANTS
  dependent = dependent
  internal = internal
  bare = bare
  leaf = leaf
  twig = twig
  sprig = sprig
  Workers = {w1, w2}
  Tests = {t1}
  MaxChanges <- MCMaxChanges
  None = None
  Items <- MCItems
  Direct <- MCDirect
  Internal <- MCInternal
  Deps <- MCDeps
  Kinds <- MCKinds
  MaxValues <- MCMaxValues
INVARIANTS HistoryNotForked QueueConsistent NothingWaits FlushedInOrder
PROPERTIES EverythingIsAnswered
CHECK_DEADLOCK FALSE
