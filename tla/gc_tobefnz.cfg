CONSTANTS
  main = main
  reg = reg
  a = a
  b = b
  c = c
  Nil = Nil
  Obj = {main, reg, a, c}
  MainThread = main
  Registry = reg
  Slot = {1, 2}
  Kind <- KindTwo
  Cell <- CellLive
  Finalizable = {a, c}
  Modes = {"strong"}
  Weakable = {}
  Keyed = {}
  Globals = {}
  FullKinds = {}
  TobefnzFits = FALSE
SPECIFICATION Spec
INVARIANT AllWhiteAtPause
