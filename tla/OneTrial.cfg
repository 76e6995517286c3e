SPECIFICATION Spec
CONSTANTS
    r1 = r1
    Readers <- OneReader
    Pgns = {126208, 59392, 130582}
    Labels = {"volume"}
    Times = {0}
    Windows = {1}
    MaxLines = 3
    MaxAnnotations = 3
    MaxReports = 1
INVARIANTS HighMeansThreeTrials
CHECK_DEADLOCK FALSE
