SPECIFICATION FairSpec
CONSTANTS
  h1 = h1
  h2 = h2
  c1 = c1
  c2 = c2
  refresher = refresher
  Tasks <- TwoRequests
  Refresher = refresher
  Channels = {c1}
  MaxReads = 1
  Validators = 1
  MaxVersion = 2
  FinalIsForever = TRUE
PROPERTIES RequestsAnswered FinalizedLeaves ActiveRefreshed ImplementsRounds TimersServed
