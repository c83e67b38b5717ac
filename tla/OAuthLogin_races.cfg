SPECIFICATION FairSpec
CONSTANTS
  r1 = r1
  r2 = r2
  Requests = {r1, r2}
  Accounts <- MCAccounts
  Emails <- MCEmails
  Lower <- MCLower
  Addresses <- MCAddresses
  MaxStates = 2
  MaxFaults = 1
  MaxChanges = 1
INVARIANTS
  OneLoginPerState
  LoggedInAsSelf
  SameUserAgain
PROPERTY
  EveryCallbackReturns
CHECK_DEADLOCK FALSE
