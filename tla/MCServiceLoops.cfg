SPECIFICATION FairSpec
CONSTANTS
  Loops = {sync, upload}
  SyncLoops = {sync}
  Profiles = {p1}
  MaxServices = 2
INVARIANTS
  TypeOK
  NoLeakedService
  ClosedOnce
  DrainsOpenService
  NoWorkAfterShutdown
PROPERTIES
  ShutdownReturns
  ForgottenIsClosed
\* After Shutdown the workers have exited and nothing more has to happen.
CHECK_DEADLOCK FALSE
