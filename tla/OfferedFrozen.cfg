SPECIFICATION Spec
CONSTANTS
  Clauses <- MCClauses
  Figures <- MCFigures
  References <- MCReferences
  Contacts <- MCContacts
  Accounts <- MCAccounts
  Billers <- MCBillers
  Equities <- MCEquities
  Said <- MCSaid
  Balance <- MCBalance
  AtFirst <- MCAtFirst
  Elsewhere <- MCElsewhere
  Stray <- MCStray
  r1 = r1  r2 = r2
  Threads = {r1, r2}
  MaxLegs = 2
  MaxEvents = 0
CHECK_DEADLOCK FALSE
INVARIANT AnswerableInOneRound
