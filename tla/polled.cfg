SPECIFICATION Spec
CONSTANTS
  Hashers = {"a", "b"}
  Sha1 = {"a"}
  Lens = {0, 4, 55, 56, 60, 64, 65}
  MaxCalls = 2
  Users = {"a", "b"}
  Counts = {0, 1, 2}
  MaxAes = 2
  Contents <- MCContents
  Times <- MCTimes
  MaxTicks = 2
  MaxWrites = 1
  Burners = {"a", "b"}
  BurnValues = {"x", "y"}
  MaxPolls = 1
  MaxKills = 1
  Offsets = {0, 2048, 131072}
  Sizes = {1024, 2048}
  Writes = {"x", "y"}
  Chunks = 2
  MaxStatus = 2
  MaxFlips = 2
  MaxOps = 3
INVARIANT DigestRight StreamRight FieldsRight ReadShown BurnedOnce FlashRight
PROPERTY WriteShown
CHECK_DEADLOCK FALSE
