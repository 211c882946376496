SPECIFICATION Spec
CONSTANTS
    a = a  b = b  c = c  pA = pA  pB = pB
    None = None  Recon = Recon
    Orders = {a, b}
    Playgrounds = {pA}
    PlaygroundOf <- OnePlayground
    Quantity <- OneTwo
    Outcomes = {"filled", "rejected", "canceled"}
    Deletable = {}
    QueueCap = 2
    MaxCrashes = 1
    MaxDbFailures = 1
    MaxSendFailures = 0
    MaxLateFills = 1
INVARIANTS FillProvenance StoredEndIsRemembered BooksDifferByMissedFills
PROPERTIES StoredFillIsFinal
