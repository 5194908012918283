\* Five lines hold three texts, with tool calls beside or between them, a
\* finish reason and [DONE].  The stream ends, so the last states have no
\* successor.
SPECIFICATION Spec
CONSTANTS
    t1 = t1
    t2 = t2
    Texts <- MCTexts
    NoText = NoText
    Garbled = Garbled
    MaxTools = 2
    MaxLines = 5
SYMMETRY TextSymmetry
INVARIANTS
    TypeOK
    WellFramed
    NoContentAfterStop
    TextArrives
CHECK_DEADLOCK FALSE
