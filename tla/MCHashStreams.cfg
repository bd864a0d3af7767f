CONSTANTS
  BlockSize = 4
  KeyMax = 2
  HashLen = 2
  WordBase = 8
  ByteBase = 4
  CounterLen = 2
  Calls <- MCCalls
SPECIFICATION Spec
INVARIANTS
  DigestsAgree
  StreamsAgree
CHECK_DEADLOCK FALSE
