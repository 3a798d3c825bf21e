SPECIFICATION Spec
CONSTANTS
  Items = {"a", "b", "c", "d", "e"}
  Limit = 2
  MaxChanges = 2
INVARIANTS TypeOK MissedOnlyByShift TwiceOnlyByShift
