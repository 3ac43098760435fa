SPECIFICATION FairSpec
CONSTANTS
    d1 = d1
    d2 = d2
    c1 = c1
    c2 = c2
    Daemons <- TwoDaemons
    Clients <- TwoClients
    None = None
    Handshake = TRUE
    SeparateParent = TRUE
    MaxAttempts = 2
    MaxUpgrades = 1
    MaxFaults = 1
INVARIANTS
    OneServer
    ListenerPublished
    NeverServedByOlder
PROPERTIES
    NoRequestCutOff
    ImplementsRendezvous
    ClientsEnd
    CancelledLeaves
