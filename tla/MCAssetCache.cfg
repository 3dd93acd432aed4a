SPECIFICATION CacheSpec
CONSTANTS
  Urls = {u1}
  Bodies = {"small", "large"}
  BodySize <- MCBodySize
  Articles = {a1}
  BlobIds = {1, 2, 3}
  MaxBytes = 2
  MaxCount = 2
  MaxVer = 2
  MaxLost = 1
INVARIANTS
  AvailableIsServed
  CacheInv
