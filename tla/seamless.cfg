SPECIFICATION Spec
CONSTANTS
  x1 = x1 x2 = x2 x3 = x3 y1 = y1 y2 = y2 y3 = y3
  Nothing = Nothing
  IdProviders = {x1, x2, x3, y1, y2, y3}
  BetWinRequests <- MCBetWinRequests
  RollbackRequests <- MCRollbackRequests
  Revert <- MCRevert
  MaxAttempts = 3
INVARIANTS TypeOK Agreement OnlyRevertedRefused TakesEffectWhole
