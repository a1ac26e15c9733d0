SPECIFICATION Spec
CONSTANTS
  alice = alice i1 = i1 t1 = t1
  None = None
  CasinoID = casino ApiSecret = secret Unsigned = unsigned
  MaxResponse = 3
  Issues = {i1}
  IssueAccount <- MCIssueAccount
  Accounts = {alice}
  Opening <- MCOpening
  MaxMoney = 100
  Terms <- MCTerms
  Amounts = {0, 2}
  Sizes = {3, 4}
INVARIANTS TypeOK FinishNeverRefused SidesAgree WinningsPaidOnce RefusedForCause ResultsWhole
PROPERTIES PlayedIsSettled
