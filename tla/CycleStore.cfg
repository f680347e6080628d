SPECIFICATION Spec
CONSTANTS
    Fix = {f1, f2, f3}
    Erased = Erased
    Garbage = Garbage
    Max_CycleNum = 4
    SectorRecords = 2
    AckLimit = 1
    AbnormalLimit = 1
    Trans_GNSS_Flag = FALSE
CONSTRAINTS
    NotDerailed
    ChangesAfterSave
SYMMETRY FixSymmetry
INVARIANTS
    TypeOK
    UnsentInWindow
PROPERTIES
    LostOnlyWhenFullOrFailing
    UsesRegister
