SPECIFICATION Spec
CONSTANTS
  money = money
  Garbage = Garbage Forged = Forged None = None
  Servers <- MCServers
  Requests <- MCRequests
  Paths <- MCPaths
  Bodies <- MCBodies
  Contents <- MCContents
  Currencies = {"EUR"}
  Balances = {money}
  LiteralErrors <- MCLiteralErrors
  MaxInt = 7
INVARIANTS TypeOK OnlyGenuineHandled FreespinsNeverFinish GenuineServed OversizeNamed RetryIsMeant FundsCarryBalance
