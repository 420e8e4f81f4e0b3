SPECIFICATION Spec
CONSTANTS
  a = a
  b = b
  n = n
  m = m
  None = None
  Ids <- MCIds
  Names <- MCNames
  Rows <- MCRows
  Boot <- MCBoot
  Kinds = {"stopping", "upgrading"}
  Slots = {1}
  Capacity = 2
  MaxChanges = 3
  MaxEvents = 3
INVARIANTS CardsAgree OneCardEach BusyTracksOps
PROPERTY RemovedCardsLeave
CHECK_DEADLOCK FALSE
