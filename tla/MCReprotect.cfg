SPECIFICATION FairSpec
CONSTANTS
  Vlogs = {1,2}
  Shards = {1,2}
  Disks = {1,2,3}
  NoDisk = 0
  MinCopies = 1
  InitialShard <- TwoVlogsShard
  InitialPlace <- TwoVlogsPlace
  MaxPlogs = 6
  MaxLength = 1
  MaxRequests = 1
  MaxMishaps = 2
PROPERTY EventuallyReprotected
CHECK_DEADLOCK FALSE
