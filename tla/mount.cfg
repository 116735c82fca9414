SPECIFICATION Spec
CONSTANTS
  w1 = w1
  w2 = w2
  w3 = w3
  top = top
  left = left
  right = right
  leaf = leaf
  deep = deep
  mount = mount
  Worker <- TwoWorkers
  Dir <- SixDirs
  Top = top
  Subdirs <- Tree
  Letter <- Letters
  FileNames <- Names
  NoName = NoName
  Foreign <- Mount
  Flaky = {}
  IdBatch = 2
  MaxDepth = 64
CHECK_DEADLOCK FALSE
INVARIANT SingleVolume
