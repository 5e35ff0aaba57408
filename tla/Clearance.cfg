SPECIFICATION Spec
CONSTANTS
  Drafts = {d1, d2}
  Payees <- MCPayees
  Accounts <- MCAccounts
  Requests <- MCRequests
  Texts <- MCTexts
  Replies <- MCReplies
  Start <- MCStart
  Past <- MCPast
  Balance <- MCBalance
  AddedAt <- MCAddedAt
  HoldSeconds = 30
  Ticks <- MCTicks
  MaxChanges = 1
  MaxEvents = 2
  SerialPayments = TRUE
  PerTransaction = 500000
  Daily = 500000
  VelocityCount = 3
  VelocityWindow = 600
INVARIANTS WithinLimits ShownIsServed
PROPERTIES ChangedNumberNeverPlain SmallerRetryAsked AttemptsOnlyRise
SYMMETRY MCSymmetry
CHECK_DEADLOCK FALSE
