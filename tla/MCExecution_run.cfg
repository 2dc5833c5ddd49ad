SPECIFICATION FairSpec
CONSTANTS
  None = None
  MaxInterrupts = 1
INVARIANTS EligibleIsEarned LeftBehind ReceiptUnlessDisturbed
PROPERTIES Ends
CHECK_DEADLOCK FALSE
