SPECIFICATION Spec
CONSTANTS
    Upstream <- ThisRepository
    Requests <- SmallRequests
    MaxRenames = 2
    MaxKills = 2
INVARIANTS
    NamesAreSeparated
    RerunFinishes
    RenamesAgain
CHECK_DEADLOCK FALSE
