SPECIFICATION TriggerSpec
CONSTANTS
    NoAccount = NoAccount
    Accounts = {a1}
    Switched = {a1}
    MaxDay = 2
    MaxRestarts = 3
INVARIANTS
    ReportsTellTheSettlement
PROPERTIES
    CatchupServes
