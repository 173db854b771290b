SPECIFICATION Spec
CONSTANTS
  c1 = c1
  c2 = c2
  alice = alice
  bob = bob
  p1 = p1
  p2 = p2
  d1 = d1
  d2 = d2
  Malformed = Malformed
  Blank = Blank
  Forged = Forged
  Calls = {c1}
  Usernames = {alice}
  Passwords = {p1}
  Devices = {d1}
  Forms = {"plain"}
  Ops = {"Register", "ScheduleAccountDeletion", "CancelAccountDeletion"}
  Delay = 2
  ClaimLimit = 1
  RequestSpan = 1
  MaxUsers = 1
  MaxTokens = 2
  MaxTime = 4
  MaxFaults = 0
  MaxCrashes = 0
PROPERTIES CancelOkKeepsAccount
