CONSTANTS
  SessionId = {s1, s2, s3}
  User = {"ann"}
  License <- MCLicense
  Thread = {th1, th2}
  MAX_SESSIONS = 1
  MaxCounter = 5
  MaxRequests = 5
SPECIFICATION Spec
SYMMETRY Symmetry
INVARIANTS
  BoundedByThreads
  CounterAnsweredOnce
  FlagEarnedOnBranch
CHECK_DEADLOCK FALSE
