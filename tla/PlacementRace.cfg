SPECIFICATION Spec
CONSTANTS
    a = a  b = b  c = c  pA = pA  pB = pB
    None = None  Recon = Recon
    Orders = {a, b, c}
    Playgrounds = {pA}
    PlaygroundOf <- ThreeOrders
    Quantity <- Ones
    Outcomes = {"filled"}
    Deletable = {}
    QueueCap = 2
    MaxCrashes = 0
    MaxDbFailures = 0
    MaxSendFailures = 0
    MaxLateFills = 0
INVARIANTS OneInFlight
