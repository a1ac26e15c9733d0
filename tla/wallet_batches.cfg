SPECIFICATION Spec
CONSTANTS
  alice = alice bob = bob eve = eve
  x1 = x1 x2 = x2 x3 = x3 x4 = x4 x5 = x5 x6 = x6
  y1 = y1 y2 = y2 y3 = y3 y4 = y4
  p = p q = q i1 = i1 i2 = i2 g1 = g1 g2 = g2
  None = None
  Accounts = {alice, bob}
  BetLimited = {bob}
  Opening <- MCOpening
  IdProviders = {x1, x2, x3, x4, x5, x6, y1, y2, y3, y4}
  ProviderRounds = {p, q}
  Issues = {}
  Goroutines = {g1, g2}
  BetWinRequests <- BatchBets
  RollbackRequests <- BatchRollbacks
  ReadRequests <- BatchReads
  FinishRequests = {}
  IssueAccount <- MCIssueAccount
  MaxMoney = 100
  MaxTx = 8
  Restarts = FALSE
INVARIANTS TypeOK NeverOverdrawn Books BatchAtomic RolledBackHasNoEffect SameAnswer OwnRoundsUnique
PROPERTIES RowsImmutable AnswersCommitted MutexReleased ImplementsContract
