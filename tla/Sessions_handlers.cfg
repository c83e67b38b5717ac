SPECIFICATION SessionsSpec
CONSTANTS
  b1 = b1
  b2 = b2
  c1 = c1
  c2 = c2
  Clients = {c1, c2}
  Users = {u1}
  Fingerprints <- MCFingerprints
  MaxSessionsPerUser = 2
  TTL = 2
  Calls = {"Tick"}
  MaxTokens = 3
  MaxFaults = 1
  Browsers = {b1, b2}
  Proxied = {b1}
  Roles = {"ADMIN", "none"}
  AccessTTL = 1
  MaxDelay = 1
SYMMETRY
  Symmetry
CONSTRAINT
  OneTrouble
INVARIANTS
  ProxiedNeverMismatch
  AuthorizedRecently
PROPERTIES
  LogoutEnds
  EntryLost
