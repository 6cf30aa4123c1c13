SPECIFICATION FairSpec
CONSTANTS
    Users = {u, v}
    System = System
    Keys = {k}
    Callers = {c, d}
    UserLimit = 1
    GlobalLimit = 2
    MaxDay = 2
    MaxFaults = 1
INVARIANTS TypeOK WithinLimits AllowedIsPaid DenialsAreDue
PROPERTIES EveryCallAnswers BudgetSpec
