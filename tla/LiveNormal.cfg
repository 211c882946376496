SPECIFICATION FairSpec
CONSTANTS
    a = a  b = b  c = c  pA = pA  pB = pB
    None = None  Recon = Recon
    Orders = {a, b}
    Playgrounds = {pA}
    PlaygroundOf <- OnePlayground
    Quantity <- OneTwo
    Outcomes = {"filled", "rejected", "canceled"}
    Deletable = {}
    QueueCap = 2
    MaxCrashes = 0
    MaxDbFailures = 0
    MaxSendFailures = 1
    MaxLateFills = 0
INVARIANTS TypeOK OneInFlight BooksAgree FilledByItsLegs
PROPERTIES KeepsTheBook FilledIsFinal FillIsDelivered
