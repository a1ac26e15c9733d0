SPECIFICATION Spec
CONSTANTS
  money = money
  Garbage = Garbage Forged = Forged None = None
  Servers <- UncappedServers
  Requests <- UncappedRequests
  Paths <- MCPaths
  Bodies <- MCBodies
  Contents <- MCContents
  Currencies = {"EUR"}
  Balances = {money}
  LiteralErrors <- MCLiteralErrors
  MaxInt = 7
INVARIANTS GenuineServed
