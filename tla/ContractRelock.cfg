\* Three re-locks: a third one meets what the failures of two have left.
SPECIFICATION FairSpec
CONSTANTS
  Calls = {c1, c2, c3}
  Original = Original
  Missing = Missing
INVARIANTS
  HistoryKept
  RevisionNamesReign
  PriorRecoverable
  CanonicalBetweenCalls
  StatusTellsRound
  OwnRevision
PROPERTY
  CallsSettle
CHECK_DEADLOCK FALSE
