SPECIFICATION FairSpec
CONSTANTS
  Profiles = {p1}
  Callers = {c1, c2}
  MaxJobs = 3
INVARIANTS
  TypeOK
  DoneClosedOnce
  NoLostWakeup
  SequentialPerProfile
  QuiescentAfterJoin
  StuckWorkerKeepsService
PROPERTIES
  FailedIsFinal
  GivingUpResolvesJobs
  CloseReturns
  EveryJobSettles
\* After Close returns and the workers exit the manager really stops.
CHECK_DEADLOCK FALSE
