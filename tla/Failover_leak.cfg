SPECIFICATION Spec
CONSTANTS
    sick = sick
    well = well
    chat = chat
    messages = messages
    Requests <- MCRequests
    Providers <- MCProviders
    Sick <- MCSick
    Orders <- MCOrders
    Endpoint <- MCEndpoint
    Streams = {TRUE}
    PoolSize = 2
    MaxAttempts = 3
    FailThresh = 5
INVARIANTS
    HealthyStaysClosed
