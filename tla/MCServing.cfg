SPECIFICATION FairSpec
CONSTANTS
    Envs <- SmallEnvs
    SettingsFiles <- SmallFiles
    SettingsText <- SmallText
    PackDirs <- SmallDirs
    PackText <- SmallPacks
    Requests <- SmallRequests
    MaxEdits = 1
INVARIANTS
    TypeOK
    IdentityIsEarned
    RefusalNamesItsCure
    CheckedRunsNoPlaceholder
PROPERTY
    HealthReturns
