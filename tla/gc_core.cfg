CONSTANTS
  main = main
  reg = reg
  a = a
  b = b
  c = c
  Nil = Nil
  Obj = {main, reg, a, c}
  MainThread = main
  Registry = reg
  Slot = {1, 2}
  Kind <- KindStrong
  Cell <- CellStrong
  Finalizable = {c}
  Modes = {"strong"}
  Weakable = {}
  Keyed = {}
  Globals = {c}
  FullKinds = {"normal", "emergency"}
  TobefnzFits = TRUE
SPECIFICATION Spec
INVARIANTS TypeOK BlackToWhite GrayListed NoDangling DeadAhead AllWhiteAtPause
