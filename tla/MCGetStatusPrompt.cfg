SPECIFICATION Spec
CONSTANTS
  Recency = 12
  Minute = 3
  Timeout = 1
  Deposits = {3}
  MaxSeq = 2
  MayPass = {"active_from", "withdraw_period_start"}
  Links <- ThreeLinks
  Prompt = TRUE
  Beat = 2
  Approving = 1
INVARIANTS SoundIsNotDoubted
