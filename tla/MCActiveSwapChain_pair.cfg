SPECIFICATION Spec
CONSTANTS
    backend = backend
    menu = menu
    render = render
    overlay = overlay
    a = a
    b = b
    null = null
    failed = failed
    Failed = failed
    Chains = {a, b}
    NoChain = null
    Backends = {backend}
    Menus = {}
    Owners = {render, overlay}
    MaxVersion = 2
    MaxRevision = 4
SYMMETRY Symmetry
CHECK_DEADLOCK FALSE
INVARIANTS
    CacheIsFresh
    ActiveIsLive
