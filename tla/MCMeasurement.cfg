\* One dataset, certified again and again while it ages and is reloaded.
SPECIFICATION Spec
CONSTANTS
    a = a
    b = b
    EmptyCell = EmptyCell
    NullToken = NullToken
    Value <- SmallValues
    KindOf <- SmallKinds
    NameRules <- SmallNameRules
    Recognizers <- SmallRecognizers
    Column = {a, b}
    RuleId <- SmallRuleIds
    RulePacks <- SmallPacks
    Tables <- SmallTables
    Drifts <- SmallDrifts
    Namings <- SmallNamings
    SlaHours = 1
    Ages <- SmallAges
INVARIANTS
    TypeOK
    AgingNeverHeals
PROPERTIES
    CertifiedChecksRan
    BandAgreesWithVerdict
    
    SensitiveNamesEscalate
    DirectValuesAreBarred
    
