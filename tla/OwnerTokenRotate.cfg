\* Two rotations while the daemon and client-config start.
CONSTANTS
    serve = serve  config = config
    rotate1 = rotate1  rotate2 = rotate2
    Ensurers <- MCEnsurers
    Rotators <- MCRotators
    Installed = old
    NoToken = NoToken
    Missing = Missing
SPECIFICATION Spec
INVARIANTS TypeOK RotationReplaces
CHECK_DEADLOCK FALSE
