SPECIFICATION Spec
CONSTANTS
  Clients = {c1, c2}
  Users = {u1}
  Fingerprints = {f1}
  MaxSessionsPerUser = 2
  TTL = 1
  Calls = {"Issue", "Rotate"}
  MaxTokens = 3
  MaxFaults = 0
INVARIANT OneLiveSuccessor
CHECK_DEADLOCK FALSE
