\* What the API documents of a status read.
SPECIFICATION Spec
CONSTANTS
    t1 = t1
    t2 = t2
    d1 = d1
    d2 = d2
    r1 = r1
    Tenant = {t1, t2}
    Dataset = {d1, d2}
    Status = {"certified", "uncertified"}
    Reader = {r1}
    MaxSaves = 4
    NoStatus = NoStatus
INVARIANTS
    ReadsNeverFail
