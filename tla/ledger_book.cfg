SPECIFICATION Spec
CONSTANTS
    Accts = {a, b}
    Slots = {h}
    MaxTxns = 4
    Dates <- MCDates
    Unit = 10
    Entries <- MCEntries
SYMMETRY MCSymmetry
INVARIANTS HoldingIsReplay Replayable CashIdentity LotsAreYoungest
PROPERTIES MoveConserves
CHECK_DEADLOCK FALSE
