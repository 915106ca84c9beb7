\* Four names: two removed and two added columns can share a type.
SPECIFICATION Spec
CONSTANTS
    Name = {1, 2, 3, 4}
    Type = {"text", "numeric"}
INVARIANTS
    TypeOK
    LoopFindsRenames
    EveryDifferenceOnce
    
CHECK_DEADLOCK FALSE
