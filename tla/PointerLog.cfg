SPECIFICATION Spec
CONSTANTS
    Entries = 4
    Value = {v1, v2, v3}
    Blank = Blank
INVARIANTS
    TypeOK
    ReadsLast
    NeverStale
PROPERTIES
    ImplementsRegister
