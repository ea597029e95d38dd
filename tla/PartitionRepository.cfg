SPECIFICATION Spec
CONSTANTS
    root = root
    left = left
    right = right
    NoPlan = NoPlan
    NoDir = NoDir
    NoSave = NoSave
    Nothing = Nothing
    Plans <- MCPlans
    Version <- MCVersion
    Parent <- MCParent
    Requests <- MCRequests
    LegacyPlans = {left}
    Roots = {root}
    Saves = {s1, s2}
    Readers = {r1}
INVARIANTS
    VisibleIsWhole
    OneChild
    RecoveryIsComplete
PROPERTY
    RefinesStore
SYMMETRY SaveSymmetry
CONSTRAINT Worthwhile
