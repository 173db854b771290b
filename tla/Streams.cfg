SPECIFICATION FairSpec
CONSTANTS
  Base = 2
  Types = {1, 5}
  Lengths = {0, 1, 3, 16}
  MaxFrames = 2
  SourceLen = 5
  ChunkSizes = {0, 2, 5}
  DefaultChunkSize = 3
  UpdateStream = s1
  MaxSeq = 1
  MaxCalls = 3
  MaxLogins = 2
CHECK_DEADLOCK FALSE
INVARIANTS TotalsAreTrue TransferComplete UpdatesInOrder
PROPERTIES ImplementsFrameChannel FramesDelivered RevokedUpdatesWereInFlight
