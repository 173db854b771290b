SPECIFICATION FairSpec
CONSTANTS
  c1 = c1
  c2 = c2
  Conns = {c1, c2}
  MaxStreams <- MCMaxStreams
  MaxIncomingStreams = 2
CHECK_DEADLOCK FALSE
INVARIANTS ReadyBeforeUse
PROPERTIES ShutdownCompletes StreamsServed StreamsOpen
