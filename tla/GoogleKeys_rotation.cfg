SPECIFICATION FairSpec
CONSTANTS
  c1 = c1
  c2 = c2
  Nobody = Nobody
  Callers = {c1, c2}
  TTL = 2
  Lead = 3
  MaxDelay = 1
  MaxKid = 2
  MaxTime = 6
  MaxFailures = 1
INVARIANTS
  GoodTokenAccepted
  WithdrawnForgotten
PROPERTIES
  OneFetchPerTTL
  EveryValidationReturns
