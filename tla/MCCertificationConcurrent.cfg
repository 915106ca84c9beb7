\* Two threads of one process, one key, any overlap of their requests.
SPECIFICATION Spec
CONSTANTS
    d1 = d1
    d2 = d2
    t1 = t1
    t2 = t2
    p1 = p1
    p2 = p2
    w1 = w1
    w2 = w2
    col = col
    rule = rule
    Null = Null
    Dataset = {d1}
    Tenant = {t1}
    Process = {p1}
    Worker = {w1, w2}
    Column = {col}
    RuleId = {rule}
    Packs = {d1}
    ProcessOf <- OneProcess
    Pinned <- AllKeys
    MetadataStates <- TwoMetadata
    SampleStates <- TwoSamples
    SchemaStates <- OneSchema
    RoutingModes = {TRUE}
    Exclusive = FALSE
    MaxNow = 0
    MaxRestarts = 1
SYMMETRY Interchangeable
INVARIANTS
    AuditedBeforePublished
    HandOffIsAudited
PROPERTIES
    JustifiedEscalation
    SteadyVerdict
