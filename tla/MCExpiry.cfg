SPECIFICATION ExpirySpec
CONSTANTS
  Recency = 0
  Minute = 0
  Timeout = 1
  Deposits = {0, 2}
  MaxSeq = 2
  MayPass = {"active_from", "valid_until"}
  Links <- CrossLinks
  Prompt = FALSE
  Beat = 1
  Approving = 1
INVARIANTS TypeOK FinalizedForever SettledIsGone
PROPERTIES ActiveIsCurrent WaitingOnlyBeforeStart
