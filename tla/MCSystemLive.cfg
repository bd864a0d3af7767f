CONSTANTS
  SessionId = {c1, c2}
  Client = {c1, c2}
  User = {"ann", "bob"}
  License <- MCLicense
  Applicant <- AllApplicants
  MAX_SESSIONS = 1
  MaxCounter = 9
  MaxFaults = 1
SPECIFICATION FairSpec
PROPERTIES
  AllDecided
  DeservedVerdict
CHECK_DEADLOCK FALSE
