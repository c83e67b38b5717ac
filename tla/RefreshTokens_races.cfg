SPECIFICATION Spec
CONSTANTS
  Clients = {c1, c2}
  Users = {u1}
  Fingerprints = {f1, f2}
  MaxSessionsPerUser = 1
  TTL = 1
  Calls = {"Issue", "Verify", "Rotate", "Revoke", "RevokeAll", "Tick"}
  MaxTokens = 3
  MaxFaults = 2
SYMMETRY Symmetry
INVARIANT RotationSwaps
INVARIANT EvictsOnlyOldest
PROPERTY ImplementsRegistry
