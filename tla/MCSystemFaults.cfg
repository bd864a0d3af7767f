CONSTANTS
  SessionId = {c1, c2}
  Client = {c1, c2}
  User = {"ann", "bob"}
  License <- MCLicense
  Applicant <- GoodOrBad
  MAX_SESSIONS = 2
  MaxCounter = 9
  MaxFaults = 2
SPECIFICATION Spec
INVARIANTS
  SystemTypeOK
  Agreement
  InStep
  ProofsAnsweredOnce
PROPERTIES
  ImplementsPortal
CHECK_DEADLOCK FALSE
