SPECIFICATION HistorySpec
CONSTANTS
  r1 = r1
  r2 = r2
  s1 = s1
  s2 = s2
  alice = alice
  bob = bob
  d1 = d1
  d2 = d2
  None = None
  Requests = {r1, r2}
  Sessions = {s1, s2}
  Users = {alice, bob}
  Devices = {d1, d2}
  MaxRequests = 4
  MaxClosed = 0
  MaxFaults = 1
SYMMETRY Symmetry
INVARIANTS TypeOK AnsweredOnce ChannelMatchesRevoked SessionsTracked PendingSessionRefused
PROPERTIES InvalidationComplete
