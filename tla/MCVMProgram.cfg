CONSTANTS
  WordBits = 5
  MAX_STEPS = 600
  Sources <- MCSources
  Memory <- MCMemory
  Permutation <- MCPermutation
SPECIFICATION MCSpec
INVARIANTS
  PathTellsInputs
  EndsInOrder
  ListingIsProgram
  ExecutionFollowsListing
PROPERTIES
  ImplementsReference
  Finishes
CHECK_DEADLOCK FALSE
