CONSTANTS
  Slots = 5
  Defined = {0, 1, 3}
  Handler = {"h_alu3", "h_jmp", "h_unknown"}
  handler_for <- MCHandlerFor
  fallback = "h_unknown"
SPECIFICATION DispatchSpec
INVARIANTS
  DispatchTypeOK
  PermIsBijection
  DispatchIsDirect
