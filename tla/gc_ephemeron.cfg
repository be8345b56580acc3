CONSTANTS
  main = main
  reg = reg
  a = a
  b = b
  c = c
  Nil = Nil
  Obj = {main, reg, a, b, c}
  MainThread = main
  Registry = reg
  Slot = {1, 2}
  Kind <- KindChain
  Cell <- CellChain
  Finalizable = {}
  Modes = {"strong", "k"}
  Weakable = {reg}
  Keyed = {reg}
  Globals = {}
  FullKinds = {}
  TobefnzFits = TRUE
SPECIFICATION Spec
PROPERTIES ClearOnlyGarbage
SYMMETRY Interchange
