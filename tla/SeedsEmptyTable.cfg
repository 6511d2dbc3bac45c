\* Two apis start on an empty table.
SPECIFICATION Spec
CONSTANTS
    Apis = {a1, a2}
    Seeders = {}
    Timetable <- MCTimetable
    RowsPerBatch = 2
    MaxLeaving = 0
    MaxFaults = 0
PROPERTIES
    SeedsEmptyTable
CHECK_DEADLOCK FALSE
