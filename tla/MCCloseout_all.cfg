SPECIFICATION Spec
CONSTANTS
  None = None
  Findings = {f1}
  MaxTip = 1
  UserSwitches = TRUE
  UserRewinds = TRUE
  SecondWriter = FALSE
INVARIANTS
  VerifiedIsEarned
  BlockedWhileIncomplete
  ReceiptIsLast
  ClosedOnce
PROPERTIES
  NoLostWork
  LandedIsGated
  TrackedBeforeRemoval
  OutcomeIsSettled
  KeepsPromise
  RetryIsOpen
