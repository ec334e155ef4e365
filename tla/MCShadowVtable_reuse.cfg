SPECIFICATION Spec
CONSTANTS
    render = render
    game = game
    loader = loader
    overlay = overlay
    native = native
    hook = hook
    nobody = nobody
    Callers = {render}
    Installers = {game, loader}
    Overlays = {}
    SlotCount = 3
    Lengths = {2, 3}
    Hooked = {1, 2, 3}
    PatchAnytime = TRUE
    LiveRoot = TRUE
    Native = native
    Hook = hook
    NoThread = nobody
    MaxRecords = 2
INVARIANTS
    CapturedMeansHooked
CHECK_DEADLOCK FALSE
