SPECIFICATION FairSpec
CONSTANTS
    s1 = s1  s2 = s2
    None = None
    Symbols = {s1, s2}
    Requests <- MCRequests
    Closes <- MCFeed
    Prices = {4, 12}
    InitialBalance = 18
    EndTime = 2
    MaxOrders = 4
INVARIANTS TypeOK BooksAgree OneSide NoOverClose ToldOnce
PROPERTIES MarginRestored HistoryStands TickEnds
CHECK_DEADLOCK FALSE
