SPECIFICATION Spec
CONSTANTS
    loader = loader
    initializer = initializer
    player = player
    Loaders = {loader}
    Games = {}
    WriteFailures = {"early", "late"}
    Patched = {}
    PatchWhileResolving = FALSE
    BlockSize = 4
    LengthSize = 2
    ReadSize = 6
    FileSizes = {1}
    Files <- OnlyWindowed
    Images <- OnlyGenuine
    Profile <- MCProfile
    ImportTables <- OnlyFactories
    MaxThunks = 3
INVARIANTS
    FailedHookIsAbsent
CHECK_DEADLOCK FALSE
