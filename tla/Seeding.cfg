SPECIFICATION Spec
CONSTANTS
    Apis = {a1, a2}
    Seeders = {s1}
    Timetable <- MCTimetable
    RowsPerBatch = 2
    MaxLeaving = 1
    MaxFaults = 2
SYMMETRY ApiSymmetry
INVARIANTS
    TypeOK
    ServedComplete
    LateListsAreComplete
CHECK_DEADLOCK FALSE
