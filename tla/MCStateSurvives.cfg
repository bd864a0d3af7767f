CONSTANTS
  SessionId = {c1}
  Client = {c1}
  User = {"ann", "bob"}
  License <- MCLicense
  Applicant <- Good
  MAX_SESSIONS = 1
  MaxCounter = 9
  MaxFaults = 1
SPECIFICATION Spec
PROPERTIES
  StateSurvivesCalls
CHECK_DEADLOCK FALSE
