SPECIFICATION Spec
CONSTANTS
    NSamples = 2
    Symbols = {1, 2}
    Freezable = {1}
    OrderSpecs <- MCOrderSpecs
    Feeds <- MCFeeds
    Markets <- MCMarkets
    InitCash = 14
    FeeMin = 4
    CommDiv = 100
    StampDiv = 100
    CapPct = 90
    LotId <- MCLotId
    MaxDay = 2
    MaxOrders = 3
INVARIANTS
    BooksBalance
    OneTradePerOrder
    TPlusOne
    NoLookAhead
    FrozenHasNoBuys
PROPERTIES
    SettledDayIsSealed
