SPECIFICATION Spec
CONSTANTS
    f1 = f1
    c1 = c1
    c2 = c2
    p1 = p1
    NoPid = NoPid
    s1 = s1
    s2 = s2
    NoSize = NoSize
    Fds = {f1}
    ClientFds = {c1, c2}
    Pids = {p1}
    MaxClients = 2
    Sizes = {s1, s2}
INVARIANTS
    ScreenSizeKnown
PROPERTIES
    DroppedClientReleased
