SPECIFICATION FairSpec
CONSTANTS
    sick = sick
    well = well
    chat = chat
    messages = messages
    Requests <- MCRequests
    Providers <- MCProviders
    Sick <- MCSick
    Orders <- MCOrders
    Endpoint <- MCEndpoint
    Streams = {TRUE, FALSE}
    PoolSize = 1
    MaxAttempts = 2
    FailThresh = 1
INVARIANTS
    TypeOK
PROPERTIES
    ChargedOnlyWhenFull
    KeepsPromise
    StepsRunOut
    EveryRequestAnswered
