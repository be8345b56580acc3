CONSTANTS
  main = main
  reg = reg
  a = a
  b = b
  c = c
  Nil = Nil
  Obj = {main, reg, a, c}
  MainThread = main
  Registry = reg
  Slot = {1, 2}
  Kind <- KindLive
  Cell <- CellLive
  Finalizable = {c}
  Modes = {"strong", "k"}
  Weakable = {reg}
  Keyed = {reg}
  Globals = {}
  FullKinds = {"emergency"}
  TobefnzFits = TRUE
SPECIFICATION FairSpec
PROPERTIES GarbageFreed
