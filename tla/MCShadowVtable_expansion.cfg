SPECIFICATION Spec
CONSTANTS
    render = render
    game = game
    loader = loader
    overlay = overlay
    native = native
    hook = hook
    nobody = nobody
    Callers = {render}
    Installers = {game}
    Overlays = {overlay}
    SlotCount = 3
    Lengths = {2, 3}
    Hooked = {1, 2, 3}
    PatchAnytime = FALSE
    LiveRoot = TRUE
    Native = native
    Hook = hook
    NoThread = nobody
    MaxRecords = 1
INVARIANTS
    WrappersAreCalled
CHECK_DEADLOCK FALSE
