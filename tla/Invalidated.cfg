SPECIFICATION Spec
CONSTANTS
  r1 = r1
  r2 = r2
  s1 = s1
  s2 = s2
  alice = alice
  bob = bob
  d1 = d1
  d2 = d2
  None = None
  Requests = {r1}
  Sessions = {s1, s2}
  Users = {alice}
  Devices = {d1}
  MaxRequests = 3
  MaxClosed = 0
  MaxFaults = 0
PROPERTIES SessionInvalidatedAfterDelete
