SPECIFICATION Spec
CONSTANTS
    Catalogue <- MCCatalogue
    Orderings <- MCOrderings
    Names <- MCNames
    Keys <- MCKeys
    Deployments <- MCDeployments
    AutoWords <- MCAutoWords
    Needs <- MCNeeds
    ReasonWords <- MCReasonWords
INVARIANTS
    KeyKept
CHECK_DEADLOCK FALSE
