SPECIFICATION Spec
CONSTANTS
    f1 = f1
    f2 = f2
    p1 = p1
    p2 = p2
    NoPid = NoPid
    Fds = {f1, f2}
    Pids = {p1, p2}
    GestureFingers = 3
    Fingers = {0, 1, 2}
    MaxProtocolErrors = 2
    ProbeExtraReads = 1
SYMMETRY Symmetry
INVARIANTS
    TypeOK
    SinkFollowsHeadUnit
    KeyFrameAfterPlay
    TouchReleased
    HeadUnitInv
PROPERTIES
    GestureSwitchesOnce
