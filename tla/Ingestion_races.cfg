SPECIFICATION Spec
CONSTANTS
  Requests = {r1, r2, r3}
  Names = {n1}
  Descriptors <- MCDescriptors
  HookName = n1
  Ops = {"submit", "credential", "webhook"}
  Faults = {"refused", "lost"}
  MaxFaults = 1
  MaxCancels = 1
  MaxCrashes = 1
CHECK_DEADLOCK FALSE
SYMMETRY Symmetry
INVARIANTS
  QueuedIsStored
  UniqueNames
  AcknowledgedIsProvisioned
  CredentialsOwned
  SavedIsProvisioned
