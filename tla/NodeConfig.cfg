SPECIFICATION Spec
CONSTANTS
  k1 = k1
  s1 = s1
  s2 = s2
  None = None
  Configs <- OneConfig
  Starts <- TwoStarts
  Options <- Suffixed
  Smallest = 8192
CHECK_DEADLOCK FALSE
INVARIANTS LostOnlyByClash OfferEnforced
