CONSTANTS
  main = main
  reg = reg
  a = a
  b = b
  c = c
  Nil = Nil
  Obj = {main, reg, a, c}
  MainThread = main
  Registry = reg
  Slot = {1, 2}
  Kind <- KindWeak
  Cell <- CellWeak
  Finalizable = {c}
  Modes = {"strong", "v", "k", "kv"}
  Weakable = {reg}
  Keyed = {reg}
  Globals = {}
  FullKinds = {}
  TobefnzFits = TRUE
SPECIFICATION Spec
PROPERTIES ClearOnlyGarbage FinalizeOnlyGarbage
