\* Two threads, a dataset with a rule pack and one without. Liveness, so no symmetry.
SPECIFICATION FairSpec
CONSTANTS
    d1 = d1
    d2 = d2
    t1 = t1
    t2 = t2
    p1 = p1
    p2 = p2
    w1 = w1
    w2 = w2
    col = col
    rule = rule
    Null = Null
    Dataset = {d1, d2}
    Tenant = {t1}
    Process = {p1}
    Worker = {w1, w2}
    Column = {col}
    RuleId = {rule}
    Packs = {d1}
    ProcessOf <- OneProcess
    Pinned <- AllKeys
    MetadataStates <- OneMetadata
    SampleStates <- TwoSamples
    SchemaStates <- OneSchema
    RoutingModes = {TRUE, FALSE}
    Exclusive = FALSE
    MaxNow = 0
    MaxRestarts = 1
INVARIANTS
    AccountedEscalation
PROPERTIES
    EscalationReported
