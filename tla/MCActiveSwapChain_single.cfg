SPECIFICATION FairSpec
CONSTANTS
    backend = backend
    menu = menu
    render = render
    overlay = overlay
    a = a
    b = b
    null = null
    failed = failed
    Failed = failed
    Chains = {a}
    NoChain = null
    Backends = {backend}
    Menus = {menu}
    Owners = {render}
    MaxVersion = 3
    MaxRevision = 3
INVARIANTS
    TypeOK
    FreshAnswers
    InspectsLiveChain
PROPERTIES
    QueriesReturn
