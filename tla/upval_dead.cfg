CONSTANTS
  main = main
  co = co
  f = f
  g = g
  u = u
  w = w
  Thread = {main, co}
  mainthread = main
  LClosure = {f, g}
  UpVal = {u, w}
  Proto = {"local", "nested"}
  upvalues <- Captures
  Nil = Nil
  None = None
  Own = Own
  Free = Free
  Bounds <- Larger
SYMMETRY Interchange
SPECIFICATION Spec
PROPERTY ClosesAlive
CONSTRAINT MarkAtOnce
