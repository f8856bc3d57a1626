SPECIFICATION Spec
CONSTANTS
  Profiles = {p1}
  Callers = {c1, c2}
  MaxJobs = 2
INVARIANT
  RefusedJobIsFailed
CHECK_DEADLOCK FALSE
