SPECIFICATION FairSpec
CONSTANTS
    Workers = {w1, w2}
    Drafts = {"d1", "d2", "d3"}
    Accounts = {"current", "savings", "other"}
    Owner <- MCOwner
    Opening <- MCOpening
    Plan <- MCPlan
INVARIANTS
    OutcomeTellsHistory
    MoneyConserved
PROPERTIES
    PaysSignedDestination
    SettlesOnce
    CallsReturn
