CONSTANTS
  Proc = {p1, p2}
  Free = Free
  NoInfo = NoInfo
  Partial = Partial
  MaxVersion = 3
  Backend = {"wall", "heaptrack"}
  Attempt = {"a", "b"}
  MaxRuns = 2
  MaxChanges = 1
  Nil = Nil

SPECIFICATION MCSpec
CHECK_DEADLOCK FALSE

INVARIANTS
  InfoIsHolders
  PacketIsHonest
  DiffIsLikeWithLike

PROPERTIES
  DropReleases
  RunsEnd
