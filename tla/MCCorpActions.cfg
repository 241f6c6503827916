SPECIFICATION Spec
CONSTANTS
    Symbols = {1, 2}
    MaxDay = 3
    DateOf <- MCDateOf
    Calendars <- MCCalendars
    Orders <- MCOrders
    MaxTrades = 2
    MaxLots = 12
    InitCash = 22
    FeeMin = 1
    CommDiv = 100
    StampDiv = 100
    LotId <- MCLotId
INVARIANTS
    SharesAreExplained
    EventsOnce
    EntitledAreServed
    OverdraftNeedsTwoCalls
