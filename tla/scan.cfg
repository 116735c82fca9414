SPECIFICATION FairSpec
CONSTANTS
  w1 = w1
  w2 = w2
  w3 = w3
  top = top
  left = left
  right = right
  leaf = leaf
  deep = deep
  mount = mount
  Worker <- ThreeWorkers
  Dir <- SixDirs
  Top = top
  Subdirs <- Tree
  Letter <- Letters
  FileNames <- Names
  NoName = NoName
  Foreign <- Mount
  Flaky <- Some
  IdBatch = 2
  MaxDepth = 1
CHECK_DEADLOCK FALSE
INVARIANTS TypeOK ResultIsTree NothingMissed IndexIsTree SectionsFit
PROPERTIES Implements Terminates
