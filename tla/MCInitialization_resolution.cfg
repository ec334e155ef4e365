SPECIFICATION Spec
CONSTANTS
    loader = loader
    initializer = initializer
    player = player
    Loaders = {loader}
    Games = {player}
    WriteFailures = {}
    Patched = {"backend"}
    PatchWhileResolving = TRUE
    BlockSize = 4
    LengthSize = 2
    ReadSize = 6
    FileSizes = {1}
    Files <- OnlyWindowed
    Images <- OnlyGenuine
    Profile <- MCProfile
    ImportTables <- OnlyFactories
    MaxThunks = 3
INVARIANTS
    OverridesAreVerified
CHECK_DEADLOCK FALSE
