SPECIFICATION FairSpec
CONSTANTS
    loader = loader
    initializer = initializer
    player = player
    Loaders = {loader, initializer}
    Games = {player}
    WriteFailures = {"early", "late"}
    Patched = {"gate"}
    PatchWhileResolving = FALSE
    BlockSize = 4
    LengthSize = 2
    ReadSize = 6
    FileSizes <- MCFileSizes
    Files <- MCFiles
    Images <- MCImages
    Profile <- MCProfile
    ImportTables <- MCImportTables
    MaxThunks = 3
CHECK_DEADLOCK FALSE
INVARIANTS
    TypeOK
    DigestOfWholeFile
    ParsedAsWritten
    NeverALookAlike
    ImportsAreHooked
    TrueMeansHooked
    FailureIsInert
    ExperimentNeedsHooks
    OverrideIsSynchronised
    OverridesAreVerified
    CallsReachOriginal
PROPERTIES
    ResultIsFinal
    InitializationEnds
