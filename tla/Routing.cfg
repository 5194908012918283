SPECIFICATION Spec
CONSTANTS
    Catalogue <- MCCatalogue
    Orderings <- MCOrderings
    Names <- MCNames
    Keys <- MCKeys
    Deployments <- MCDeployments
    AutoWords <- MCAutoWords
    Needs <- MCNeeds
    ReasonWords <- MCReasonWords
INVARIANTS
    TypeOK
    AsksInOrder
    KeyRespected
    FreeFirst
    NoProviderMissed
    SentUnlessPrefixed
    ListedIsServed
PROPERTIES
    KeepsFallbackPromise
CHECK_DEADLOCK FALSE
