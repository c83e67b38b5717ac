SPECIFICATION Spec
CONSTANTS
  Clients = {k1, k2}
  OTPMaxAttempts = 2
  MaxChallenges = 3
  MaxFaults = 1
CHECK_DEADLOCK FALSE
SYMMETRY Symmetry
INVARIANT GuessesBounded
INVARIANT UsesBounded
INVARIANT ChallengesBounded
INVARIANT LatestStored
