SPECIFICATION Spec
CONSTANTS
  None = None
  Tier <- MCTier
  MaxPromotionBatches = 2
  MaxPromotionFiles = 4
  FollowUpCap = 5
  Trees <- MCTrees
  CapChoices <- MCCaps
  SignalChoices <- MCSignals
  Limits <- MCLimits
  Indexes <- MCIndexes
  HeadBlob <- MCHead
  Ledgers <- MCLedgers
  Prior <- MCPrior
  MaxKills = 1
  MaxWork = 1
INVARIANTS ScopeIsFrozen AdmissionIsJustified Resumable CoverageIsEarned 
CHECK_DEADLOCK FALSE
