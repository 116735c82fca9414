CONSTANTS
  d1 = d1
  d2 = d2
  c1 = c1
  c2 = c2
  Dirs <- TwoDirs
  Contents <- TwoContents
  MaxId = 3
  MaxIdBeside = 2
  MaxUuid = 2
  FaultSets <- IndexOnly
SPECIFICATION Spec
INVARIANT AtomicWrite
