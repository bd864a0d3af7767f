CONSTANTS
  SessionId = {s1, s2}
  User = {"ann"}
  License <- MCLicense
  Thread = {th1, th2}
  MAX_SESSIONS = 1
  MaxCounter = 2
  MaxRequests = 3
SPECIFICATION Spec
PROPERTIES
  EvictsToBoundOnly
CHECK_DEADLOCK FALSE
