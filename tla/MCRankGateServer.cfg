CONSTANTS
  SessionId = {s1, s2}
  User = {"ann", "bob"}
  License <- MCLicense
  MAX_SESSIONS = 2
  MaxCounter = 4
  Deep = s1
  MaxDraws = 3
SPECIFICATION Spec
INVARIANTS
  ServerTypeOK
  HandshakeCoherent
  CountersFollowTranscript
  Proof1Stands
  FlagEarned
PROPERTIES
  RefusalsKeepHandshake
