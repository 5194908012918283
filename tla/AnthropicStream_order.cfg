\* The shortest answers are enough.
SPECIFICATION Spec
CONSTANTS
    t1 = t1
    t2 = t2
    Texts <- MCTexts
    NoText = NoText
    Garbled = Garbled
    MaxTools = 2
    MaxLines = 4
INVARIANTS
    DocumentedOrder
CHECK_DEADLOCK FALSE
