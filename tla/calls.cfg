CONSTANTS
  main = main
  co1 = co1
  co2 = co2
  Main = main
  Co = {co1, co2}
  Extra = 2
  Bounds <- MCBounds
SYMMETRY Interchange
SPECIFICATION Spec
INVARIANTS CallsCounted HandlerOfCall HooksAllowed YieldKeepsAll InstructionFinished
PROPERTIES ErrorCaught FollowsProtocol
