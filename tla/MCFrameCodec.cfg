CONSTANTS
  Quarter = 2
  SZ <- MCSizes
  MaxPayload = 5
  Sent <- MCSent
  MaxDamage = 1
SPECIFICATION Spec
INVARIANTS
  Delivered
  MacCoversAll
CHECK_DEADLOCK FALSE
