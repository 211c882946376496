SPECIFICATION Engine
CONSTANTS
    s1 = s1
    None = None
    Symbols = {s1}
    Symbol = s1
    Requests = {}
    Prices = {1, 2, 3, 4, 5, 6, 7}
    Closes <- MCCloses
    Bars <- MCBars
    History <- MCHistory
    Feed <- MCFeed
    Quantities = {1, 2}
    InitialBalance = 1000
    EndTime = 5
    MaxOrders = 14
    MaxOpenCount = 2
    Ratio = 2
    MaxFaults = 2
INVARIANTS EngineTypeOK StackLimit ClientKnows StopsHonoured DiesOnlyOfFaults
PROPERTIES CloseHitsItsOrder TrendFollowed EngineEnds
CHECK_DEADLOCK FALSE
