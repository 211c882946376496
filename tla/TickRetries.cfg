SPECIFICATION FairSpec
CONSTANTS
    c1 = c1  c2 = c2  c3 = c3  d1 = d1  d2 = d2
    None = None
    Calls = {c1, c2, c3, d1}
    IdOf <- Repeated
    SlowTicks = FALSE
    MaxFailures = 2
    MaxExpiries = 1
INVARIANTS OneTickAtATime SameResult NeverPanics TickInv
PROPERTIES EveryCallReturns
CHECK_DEADLOCK FALSE
