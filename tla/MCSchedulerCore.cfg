CONSTANTS
  r1 = r1
  r2 = r2
  r3 = r3
  r4 = r4
  Requests = {r1, r2, r3, r4}
  SessionFaults = {r4}
  BMax = 2
  MaxNew <- MCMaxNew
SPECIFICATION CoreSpec
INVARIANTS
  CoreTypeOK
  BudgetFollowsRows
  ReservedUntilFirstToken
  PhaseDescribesRows
  TokensWithinLimit
