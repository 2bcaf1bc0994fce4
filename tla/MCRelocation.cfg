SPECIFICATION FairSpec
CONSTANTS
  Vlogs = {v1}
  Shards = {1,2}
  Disks = {1,2,3}
  NoDisk = 0
  MinCopies = 1
  InitialShard <- OneVlogShard
  InitialPlace <- OneVlogPlace
  MaxPlogs = 5
  MaxLength = 2
  MaxRequests = 1
  MaxMishaps = 2
INVARIANTS PlacementWhole OneCopyPerDisk NoDetachedData MountedFollowsCatalog RelocationInv
PROPERTY EventuallyReprotected
CHECK_DEADLOCK FALSE
