CONSTANTS
  LUA_MAXCAPTURES = 2
  MAXCCALLS = 20
  Order <- MCOrder
  NB = 2
  SZINT = 4
  SZSIZE = 4
  SZSHORT = 2
  SZCINT = 3
  MAXINTSIZE = 5
  MAXALIGN = 4
  INTBITS = 4
  UNPACKMAX = 4
  LUAL_BUFFERSIZE = 2
  MAXBUFFER = 16
  MAXTEXT = 12
  BYTE = 32
  sizeofint = 2
  sizeofnumber = 3
  LUAI_MAXSHORTLEN = 4
  RANLIMIT = 4
  IMBALANCE = 2
  RANDOM = {0, 1, 2}
  Element <- MCElement
  Arrays <- MCArrays
  Orders <- MCOrders
  LUAI_MAXSTACK = 14
  EXTRA_STACK = 5
  LUA_MINSTACK = 6
  ErrorSpace = 6
  FrameSizes = {3}
  Counts = {0, 3}
  MaxFrames = 3
  NIL = NIL
  Held = {7, 1}
  MaxRefs = 5
SPECIFICATION Spec
INVARIANTS PatternsAsMeant LibrariesAsMeant SortsInside Sorted StackFits RefsKept
CHECK_DEADLOCK FALSE
