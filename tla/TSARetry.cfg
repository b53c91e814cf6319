\* Two instances with two connections each and two items: the lock leaks, is taken
\* twice, and is lost, while the items of a batch age and are destroyed.
CONSTANTS
  Instances = {p1, p2}
  Mortals = {p2}
  PoolSize = 2
  Items = {i1, i2}
  NoItem = NoItem
  MaxDepth = 2
SPECIFICATION FairSpec
INVARIANT OneInstanceWorks
PROPERTIES StampIsFinal DestroyedIsLeftAlone RunEnds
