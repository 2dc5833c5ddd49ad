SPECIFICATION Spec
CONSTANTS
  None = None
  MaxInterrupts = 1
INVARIANTS WritesReceipt
CHECK_DEADLOCK FALSE
