SPECIFICATION Spec
CONSTANTS
    None = None
    Absent = Absent
    r1 = r1
    r2 = r2
    Requests <- TwoRequests
    Tokens = {1, 2}
    Serials = {1}
    MaxBatches = 2
    Askable <- OneAsked
INVARIANTS TypeOK MarkedOnRecord RecordMarksItem ItemsGivenByNumber
SYMMETRY Symmetry
