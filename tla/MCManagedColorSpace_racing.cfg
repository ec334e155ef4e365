SPECIFICATION Spec
CONSTANTS
    render = render
    game = game
    overlay = overlay
    sdr = sdr
    pq = pq
    scrgb = scrgb
    none = none
    Presenters = {render, overlay}
    Setters = {render, overlay}
    Resizers = {render}
    Queriers = {game}
    ColorSpaces <- SomeColorSpaces
    PQ = pq
    DefaultColorSpace = sdr
    NoColorSpace = none
    MaxEpoch = 3
INVARIANTS
    TypeOK
    AtMostOneTransition
    DesiredHasBaseline
    CurrentTransitionIsDesired
    NoForgottenRestore
    BoundedRetry
PROPERTIES
    ImplementsOwnership
