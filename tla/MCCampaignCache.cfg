SPECIFICATION Spec
CONSTANTS
  h1 = h1
  h2 = h2
  c1 = c1
  c2 = c2
  refresher = refresher
  Tasks <- OneRequest
  Refresher = refresher
  Channels = {c1, c2}
  MaxReads = 2
  Validators = 2
  MaxVersion = 2
  FinalIsForever = TRUE
INVARIANTS TypeOK SnapshotAtomic NoResurrection DisjointCaches NeverStuck
PROPERTIES RecordedUnlessDropped LiveCampaignsStay ImplementsView
