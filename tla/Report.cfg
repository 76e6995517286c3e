SPECIFICATION Spec
CONSTANTS
    r1 = r1
    Readers <- OneReader
    Pgns = {126208, 59392, 130582}
    Labels = {"volume"}
    Times = {0, 2}
    Windows = {0, 2}
    MaxLines = 4
    MaxAnnotations = 1
    MaxReports = 2
INVARIANTS TypeOK ReportsAreExact ReportsOnlyGrow
CHECK_DEADLOCK FALSE
