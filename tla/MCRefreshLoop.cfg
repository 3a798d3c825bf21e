SPECIFICATION FairSpec
CONSTANTS
  a = a
  b = b
  h = h
  good = good
  bad = bad
  Validators = {a, b, h}
  MayHang = {h}
  Flaky = {h}
  Ending = {good}
  Repeats = 2
  Channels = {good, bad}
  Leader <- ALeads
  Follower <- Follows
  Settings <- AllSettings
INVARIANTS TypeOK NoPileUp BindsInTime
PROPERTIES ImplementsRounds DiscoveredGivenTime UpdatedGivenTime
