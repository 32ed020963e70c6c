\* The daemon and client-config start where there is no token yet.
CONSTANTS
    serve = serve  config = config
    rotate1 = rotate1  rotate2 = rotate2
    Ensurers <- MCEnsurers
    Rotators <- NoRotators
    Installed = NoToken
    NoToken = NoToken
    Missing = Missing
SPECIFICATION Spec
INVARIANTS CreatedOnce
CHECK_DEADLOCK FALSE
