CONSTANTS
  d1 = d1
  d2 = d2
  c1 = c1
  c2 = c2
  Dirs <- TwoDirs
  Contents <- TwoContents
  MaxId = 4
  MaxIdBeside = 2
  MaxUuid = 2
  FaultSets <- AloneOrBeside
SPECIFICATION Spec
INVARIANTS TypeOK ResumePointSafe WholeFile FreshDespiteDrops
PROPERTY RebuildHeals
