CONSTANTS
  SessionId = {s1, s2, s3, s4}
  MAX_SESSIONS = 3
  MaxCounter = 2
SPECIFICATION StoreSpec
INVARIANTS
  StoreTypeOK
PROPERTIES
  EvictOnlyLeastRecent
  CountersOnlyGrow
  ImplementsRecencyCache
