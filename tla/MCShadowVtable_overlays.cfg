SPECIFICATION Spec
CONSTANTS
    render = render
    game = game
    loader = loader
    overlay = overlay
    native = native
    hook = hook
    nobody = nobody
    Callers = {render}
    Installers = {game}
    Overlays = {overlay}
    SlotCount = 2
    Lengths = {2}
    Hooked = {1, 2}
    PatchAnytime = FALSE
    LiveRoot = TRUE
    Native = native
    Hook = hook
    NoThread = nobody
    MaxRecords = 2
INVARIANTS
    RecordsAreCurrent
    CapturedMeansHooked
    WrappersAreCalled
CHECK_DEADLOCK FALSE
