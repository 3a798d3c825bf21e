SPECIFICATION FairSpec
CONSTANTS
  leader = leader
  follower = follower
  Validators = {leader, follower}
  MaxVersion = 3
INVARIANTS TypeOK DataFollowLists
PROPERTIES NewestStatusWins DataCatchUp
