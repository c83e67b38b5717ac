SPECIFICATION FairSpec
CONSTANTS
  Clients = {c1, c2}
  Users = {u1}
  Fingerprints = {f1}
  MaxSessionsPerUser = 1
  TTL = 2
  Calls = {"Issue", "Verify", "Revoke", "Tick"}
  MaxTokens = 3
  MaxFaults = 0
INVARIANT AtMostMaxSessions
PROPERTY EveryTokenDies
PROPERTY EveryRequestReturns
