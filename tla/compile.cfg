CONSTANTS
  NBITS = 4
  MAXREGS = 20
  MAXINDEXRK = 3
  MAXARG_Bx = 5
  MAXARG_C = 1
  MAXARG_Ax = 3
  MAXARG_sBx = 30
  LFIELDS_PER_FLUSH = 2
  MAXVARS = 10
  MAXUPVAL = 4
  LUAI_MAXCCALLS = 9
  STACKSIZE = 40
  CFUNCTIONS = {"f", "g", "it"}
  Chunks <- MCChunks
SPECIFICATION Spec
CONSTRAINT Bounded
INVARIANTS ComputesMeaning RegistersFit ClosedOutOfScope
PROPERTY Terminates
CHECK_DEADLOCK FALSE
