SPECIFICATION FairSpec
CONSTANTS
  Jobs = {j1, j2}
  ShortSHA = {j2}
  Sources <- MCSources
  MaxRetry = 1
  MaxTime = 2
  MaxFaults = 1
INVARIANT SucceededMeansPushed
INVARIANT OneWriter
INVARIANT EndedIsTerminal
INVARIANT NoOrphanJob
INVARIANT FailedForAReason
PROPERTY StatusForward
PROPERTY EveryJobEnds
