\* One reader overlapping up to four saves over four keys.
SPECIFICATION FairSpec
CONSTANTS
    t1 = t1
    t2 = t2
    d1 = d1
    d2 = d2
    r1 = r1
    Tenant = {t1, t2}
    Dataset = {d1, d2}
    Status = {"certified", "uncertified"}
    Reader = {r1}
    MaxSaves = 4
    NoStatus = NoStatus
INVARIANTS
    TypeOK
    AbsentIsTrue
    ForbiddenIsTrue
    OwnIsServed
PROPERTIES
    ReadsEnd
