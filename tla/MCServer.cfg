SPECIFICATION FairSpec
CONSTANTS
    c1 = c1
    c2 = c2
    Clients = {c1, c2}
    None = None
    Slots = 2
    Ops <- MCOps
    MaxRequests <- MCMaxRequests
    Pipeline = 2
    MaxRead = 3
    MaxIn = 3
    MaxOut = 3
    Room = 1
INVARIANTS
    ExecutedInOrder
    StreamIntact
PROPERTIES
    QuitDrains
    KeepsClients
    RequestsAnswered
    QuitStops
CHECK_DEADLOCK FALSE
